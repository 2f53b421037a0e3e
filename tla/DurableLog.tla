----------------------------- MODULE DurableLog -----------------------------
(***************************************************************************)
(* What the journal of a conversation promises: one log that only grows at *)
(* its end, by whole batches of consecutive events of one host's           *)
(* incarnation, and acknowledgements only of events the log holds.         *)
(***************************************************************************)
EXTENDS Naturals, Sequences

CONSTANTS Hosts, MaxEvents, MaxBatchEvents

VARIABLES log, acked

Event == [host: Hosts, boot: Nat]

Init == log = <<>> /\ acked = {}

\* An incarnation e of a host commits n consecutive events.
Commit ==
    \E n \in 1..MaxBatchEvents:
        /\ Len(log) + n <= MaxEvents
        /\ Len(log') = Len(log) + n
        /\ log'[Len(log')] \in Event
        /\ log' = log \o [i \in 1..n |-> log'[Len(log')]]
        /\ UNCHANGED acked

\* A caller is told that an event is durable.
Ack ==
    \E s \in 1..Len(log):
        /\ acked' = acked \cup {[seq |-> s, event |-> log[s]]}
        /\ UNCHANGED log

Next == Commit \/ Ack

Spec == Init /\ [][Next]_<<log, acked>>
=============================================================================

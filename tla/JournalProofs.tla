--------------------------- MODULE JournalProofs ---------------------------
(***************************************************************************)
(* Proofs about the Journal module, for every set of hosts and every value *)
(* of the limits and bounds.                                               *)
(***************************************************************************)
EXTENDS Journal, SequenceTheorems, TLAPS

\* While commitEvents runs, the batch it was given is a prefix of the pending
\* list: events are only appended behind it.  A conflict is looked into once.
CommitOK ==
    \A h \in Hosts:
        /\ flush[h] \in InCommit => batch[h] \in 1..Len(pending[h])
        /\ flush[h] = "recheck" => attempt[h] = 0

TypeInv == TypeOK /\ CommitOK

LEMMA InitTypeInv == Init => TypeInv
  BY BoundsAssumption
  DEF Init, TypeInv, TypeOK, StorageTypeOK, SessionTypeOK, FlushTypeOK,
      WaitTypeOK, CommitOK, Record, Waiter, FlushState, InCommit, NoToken, Seqs

LEMMA OpenType ==
  ASSUME TypeInv, NEW h \in Hosts, Open(h) PROVE TypeInv'
<1> USE DEF TypeInv, TypeOK
<1>1. StorageTypeOK'
  BY DEF StorageTypeOK, Open, storageVars
<1>2. SessionTypeOK'
  BY DEF SessionTypeOK, StorageTypeOK, Open, Record
<1>3. FlushTypeOK' /\ WaitTypeOK'
  BY DEF FlushTypeOK, WaitTypeOK, Open
<1>4. CommitOK'
  BY DEF CommitOK, Open
<1>5. QED
  BY <1>1, <1>2, <1>3, <1>4

LEMMA CrashType ==
  ASSUME TypeInv, NEW h \in Hosts, Crash(h) PROVE TypeInv'
<1> USE DEF TypeInv, TypeOK
<1>1. StorageTypeOK'
  BY DEF StorageTypeOK, Crash, Abandon
<1>2. SessionTypeOK'
  BY BoundsAssumption DEF SessionTypeOK, Crash, NoToken
<1>3. FlushTypeOK'
  BY DEF FlushTypeOK, Crash, FlushState
<1>4. WaitTypeOK'
  BY DEF WaitTypeOK, Crash, Waiter
<1>5. CommitOK'
  BY DEF CommitOK, FlushTypeOK, Crash, InCommit
<1>6. QED
  BY <1>1, <1>2, <1>3, <1>4, <1>5

LEMMA ScheduleType ==
  ASSUME TypeInv, NEW h \in Hosts, NEW events, NEW urgent \in BOOLEAN,
         Schedule(h, events, urgent)
  PROVE  /\ flush' \in [Hosts -> FlushState]
         /\ flushNow' \in [Hosts -> BOOLEAN]
         /\ wake' \in [Hosts -> BOOLEAN]
         /\ \A k \in Hosts: flush'[k] \in InCommit => flush[k] = flush'[k]
<1> USE DEF TypeInv, TypeOK, FlushTypeOK
<1>1. CASE persistErr[h] \/ events = <<>>
  BY <1>1 DEF Schedule
<1>2. CASE ~(persistErr[h] \/ events = <<>>)
  <2>1. /\ flushNow' = [flushNow EXCEPT ![h] = @ \/ urgent]
        /\ wake' = [wake EXCEPT ![h] = @ \/ (urgent /\ flush[h] # "none")]
        /\ flush' = [flush EXCEPT ![h] = IF @ = "none" THEN "loop" ELSE @]
    BY <1>2, Zenon DEF Schedule
  <2>2. flushNow' \in [Hosts -> BOOLEAN]
    BY <2>1, Zenon
  <2>3. wake' \in [Hosts -> BOOLEAN]
    BY <2>1, Zenon
  <2>4. QED
    BY <2>1, <2>2, <2>3 DEF FlushState, InCommit
<1>3. QED
  BY <1>1, <1>2

LEMMA AppendType ==
  ASSUME TypeInv, NEW h \in Hosts, NEW urgent \in BOOLEAN, Append1(h, urgent)
  PROVE TypeInv'
<1> USE DEF TypeInv, TypeOK
<1>1. /\ \A k \in Hosts: flush'[k] \in InCommit => flush[k] = flush'[k]
      /\ FlushTypeOK'
  <2>1. Schedule(h, pending'[h], urgent)
    BY DEF Append1
  <2>2. QED
    BY <2>1, ScheduleType DEF FlushTypeOK, Append1
<1>2. [seq |-> lastSeq[h] + 1, urgent |-> urgent] \in PendingEvent
  BY BoundsAssumption DEF Append1, Fits, SessionTypeOK, Seqs, PendingEvent
<1>3. SessionTypeOK'
  <2>1. lastSeq[h] + 1 \in 0..MaxEvents
    BY BoundsAssumption DEF SessionTypeOK, Append1, Fits
  <2>2. /\ lastSeq' = [lastSeq EXCEPT ![h] = lastSeq[h] + 1]
        /\ pending' = [pending EXCEPT ![h] = Append(pending[h],
                          [seq |-> lastSeq[h] + 1, urgent |-> urgent])]
        /\ UNCHANGED <<up, boot, durable, version, token>>
    BY DEF Append1, SessionTypeOK
  <2>3. QED
    BY <1>2, <2>1, <2>2 DEF SessionTypeOK
<1>4. \A k \in Hosts: Len(pending'[k]) \in Nat /\ Len(pending'[k]) >= Len(pending[k])
  BY <1>2 DEF SessionTypeOK, Append1
<1>5. CommitOK'
  <2>1. UNCHANGED <<batch, attempt>>
    BY DEF Append1
  <2>2. \A k \in Hosts: flush'[k] # flush[k] => flush'[k] = "loop"
    BY DEF Append1, Schedule, FlushTypeOK
  <2>3. \A k \in Hosts: Len(pending[k]) \in Nat
    BY DEF SessionTypeOK
  <2>4. QED
    BY <1>4, <2>1, <2>2, <2>3 DEF CommitOK, InCommit
<1>6. StorageTypeOK' /\ WaitTypeOK'
  BY DEF StorageTypeOK, WaitTypeOK, Append1, storageVars
<1>7. QED
  BY <1>1, <1>3, <1>5, <1>6

LEMMA AppendStopsType ==
  ASSUME TypeInv, NEW h \in Hosts, AppendStops(h) PROVE TypeInv'
<1> USE DEF TypeInv, TypeOK
<1>1. StorageTypeOK' /\ SessionTypeOK' /\ WaitTypeOK' /\ CommitOK'
  BY DEF StorageTypeOK, SessionTypeOK, WaitTypeOK, CommitOK, AppendStops,
         storageVars, sessionVars
<1>2. FlushTypeOK'
  BY DEF FlushTypeOK, AppendStops
<1>3. QED
  BY <1>1, <1>2

LEMMA FlushLoopType ==
  ASSUME TypeInv, NEW h \in Hosts,
         FlushEnds(h) \/ FlushSleeps(h) \/ FlushWakes(h) \/ FlushTakes(h)
  PROVE  TypeInv'
<1> USE DEF TypeInv, TypeOK
<1>1. StorageTypeOK' /\ SessionTypeOK' /\ WaitTypeOK'
  BY DEF StorageTypeOK, SessionTypeOK, WaitTypeOK, FlushEnds, FlushSleeps,
         FlushWakes, FlushTakes, storageVars, sessionVars
<1>2. FlushTypeOK'
  <2>1. CASE FlushEnds(h)
    BY <2>1 DEF FlushTypeOK, FlushEnds, FlushState
  <2>2. CASE FlushSleeps(h)
    BY <2>2 DEF FlushTypeOK, FlushSleeps, FlushState
  <2>3. CASE FlushWakes(h)
    BY <2>3 DEF FlushTypeOK, FlushWakes, FlushState
  <2>4. CASE FlushTakes(h)
    BY <2>4 DEF FlushTypeOK, SessionTypeOK, FlushTakes, FlushState, InCommit
  <2>5. QED
    BY <2>1, <2>2, <2>3, <2>4
<1>3. CommitOK'
  <2>1. UNCHANGED <<pending, attempt>>
    BY DEF FlushEnds, FlushSleeps, FlushWakes, FlushTakes, sessionVars
  <2>2. ASSUME NEW k \in Hosts, k # h
        PROVE  flush'[k] = flush[k] /\ batch'[k] = batch[k]
    BY <2>2 DEF FlushTypeOK, FlushEnds, FlushSleeps, FlushWakes, FlushTakes
  <2>3. flush'[h] # "recheck"
    BY DEF FlushTypeOK, FlushEnds, FlushSleeps, FlushWakes, FlushTakes
  <2>4. flush'[h] \in InCommit => batch'[h] \in 1..Len(pending[h])
    BY DEF FlushTypeOK, InCommit, FlushEnds, FlushSleeps, FlushWakes, FlushTakes
  <2>5. QED
    BY <2>1, <2>2, <2>3, <2>4 DEF CommitOK
<1>4. QED
  BY <1>1, <1>2, <1>3

LEMMA WakeWaitersType ==
  ASSUME TypeInv, NEW h \in Hosts, WakeWaiters(h)
  PROVE  /\ waiting' \in [Hosts -> [Seqs -> Waiter]]
         /\ held' \in [Hosts -> Waiter]
  BY DEF TypeInv, TypeOK, WaitTypeOK, WakeWaiters, Waiter

LEMMA FlushFailsType ==
  ASSUME TypeInv, NEW h \in Hosts, FlushFails(h), wire' \subseteq wire,
         token' = token \/ token' = [token EXCEPT ![h] = NoToken]
  PROVE  TypeInv'
<1> USE DEF TypeInv, TypeOK
<1>1. StorageTypeOK' /\ SessionTypeOK'
  <2>1. token' \in [Hosts -> Nat]
    <3>1. token \in [Hosts -> Nat] /\ NoToken \in Nat
      BY DEF SessionTypeOK, NoToken
    <3>2. QED
      BY ONLY <3>1, token' = token \/ token' = [token EXCEPT ![h] = NoToken], h \in Hosts
  <2>2. QED
    BY <2>1 DEF StorageTypeOK, SessionTypeOK, FlushFails, sessionVars
<1>2. FlushTypeOK'
  BY DEF FlushTypeOK, FlushFails, FlushState
<1>3. WaitTypeOK'
  BY WakeWaitersType DEF WaitTypeOK, FlushFails
<1>4. CommitOK'
  BY DEF CommitOK, FlushTypeOK, FlushFails, InCommit, sessionVars
<1>5. QED
  BY <1>1, <1>2, <1>3, <1>4

LEMMA FlushConfirmsType ==
  ASSUME TypeInv, NEW h \in Hosts, NEW r \in wire, FlushConfirms(h, r),
         flush[h] \in InCommit
  PROVE  TypeInv'
<1> USE DEF TypeInv, TypeOK
<1>1. batch[h] \in 1..Len(pending[h]) /\ pending[h] \in Seq(PendingEvent)
  BY DEF CommitOK, SessionTypeOK
<1>2. pending[h][batch[h]].seq \in 0..MaxEvents
  <2>1. pending[h][batch[h]] \in PendingEvent
    BY <1>1
  <2>2. QED
    BY <2>1, BoundsAssumption DEF PendingEvent, Seqs
<1>3. SubSeq(pending[h], batch[h] + 1, Len(pending[h])) \in Seq(PendingEvent)
  BY <1>1
<1>4. r.token + 1 \in Nat
  BY DEF StorageTypeOK, Request
<1>5. SessionTypeOK'
  BY <1>2, <1>3, <1>4 DEF SessionTypeOK, FlushConfirms
<1>6. StorageTypeOK'
  BY DEF StorageTypeOK, FlushConfirms
<1>7. FlushTypeOK'
  BY DEF FlushTypeOK, FlushConfirms, FlushState
<1>8. WaitTypeOK'
  BY WakeWaitersType DEF WaitTypeOK, FlushConfirms
<1>9. CommitOK'
  BY DEF CommitOK, FlushTypeOK, SessionTypeOK, FlushConfirms, InCommit
<1>10. QED
  BY <1>5, <1>6, <1>7, <1>8, <1>9

LEMMA SendType ==
  ASSUME TypeInv, NEW h \in Hosts, Send(h)
  PROVE  TypeInv'
<1> USE DEF TypeInv, TypeOK
<1> DEFINE r == [host |-> h, boot |-> boot[h], token |-> token[h],
                 version |-> version[h], first |-> pending[h][1].seq,
                 last |-> pending[h][batch[h]].seq, outcome |-> "none"]
<1>1. batch[h] \in 1..Len(pending[h]) /\ pending[h] \in Seq(PendingEvent)
  BY DEF CommitOK, SessionTypeOK, Send, InCommit
<1>2. pending[h][1].seq \in Seqs /\ pending[h][batch[h]].seq \in Seqs
  <2>1. pending[h][1] \in PendingEvent /\ pending[h][batch[h]] \in PendingEvent
    BY <1>1
  <2>2. QED
    BY <2>1 DEF PendingEvent
<1>3. r \in Request
  BY <1>2 DEF SessionTypeOK, Request
<1>4. StorageTypeOK'
  BY <1>3 DEF StorageTypeOK, Send
<1>5. SessionTypeOK' /\ WaitTypeOK'
  BY DEF SessionTypeOK, WaitTypeOK, Send, sessionVars
<1>6. FlushTypeOK'
  BY DEF FlushTypeOK, Send, FlushState, InCommit
<1>7. CommitOK'
  BY DEF CommitOK, FlushTypeOK, Send, InCommit, sessionVars
<1>8. QED
  BY <1>4, <1>5, <1>6, <1>7

LEMMA ReplyConflictType ==
  ASSUME TypeInv, NEW h \in Hosts, ReplyConflict(h)
  PROVE  TypeInv'
<1> USE DEF TypeInv, TypeOK
<1>1. CASE FlushFails(h)
  BY <1>1, FlushFailsType DEF ReplyConflict
<1>2. CASE ~FlushFails(h)
  <2> USE <1>2 DEF ReplyConflict
  <2>1. StorageTypeOK'
    BY DEF StorageTypeOK
  <2>2. SessionTypeOK'
    <3>1. token' = [token EXCEPT ![h] = NoToken] /\ UNCHANGED <<sessionVars, up>>
      OBVIOUS
    <3>2. QED
      BY <3>1 DEF SessionTypeOK, sessionVars, NoToken
  <2>3. WaitTypeOK'
    BY DEF WaitTypeOK
  <2>4. FlushTypeOK'
    BY DEF FlushTypeOK, FlushState, InCommit
  <2>5. CommitOK'
    BY DEF CommitOK, FlushTypeOK, InCommit, sessionVars
  <2>6. QED
    BY <2>1, <2>2, <2>3, <2>4, <2>5
<1>3. QED
  BY <1>1, <1>2

LEMMA CommitStepType ==
  ASSUME TypeInv, NEW h \in Hosts,
         ReadToken(h) \/ Recheck(h) \/ ReplyUnknown(h)
  PROVE  TypeInv'
<1> USE DEF TypeInv, TypeOK, ReadToken, Recheck, ReplyUnknown
<1>1. StorageTypeOK' /\ WaitTypeOK'
  BY DEF StorageTypeOK, WaitTypeOK, storageVars
<1>2. SessionTypeOK'
  BY DEF SessionTypeOK, StorageTypeOK, sessionVars
<1>3. FlushTypeOK'
  <2>1. CASE ReadToken(h)
    BY <2>1 DEF FlushTypeOK
  <2>2. CASE Recheck(h)
    BY <2>2 DEF FlushTypeOK, CommitOK, FlushState, InCommit
  <2>3. CASE ReplyUnknown(h)
    BY <2>3 DEF FlushTypeOK, FlushState, InCommit
  <2>4. QED
    BY <2>1, <2>2, <2>3
<1>4. CommitOK'
  BY DEF CommitOK, FlushTypeOK, InCommit, sessionVars
<1>5. QED
  BY <1>1, <1>2, <1>3, <1>4

LEMMA FlushType ==
  ASSUME TypeInv, NEW h \in Hosts, Flush(h)
  PROVE  TypeInv'
<1>1. CASE FlushEnds(h) \/ FlushSleeps(h) \/ FlushWakes(h) \/ FlushTakes(h)
  BY <1>1, FlushLoopType
<1>2. CASE ReadToken(h) \/ Recheck(h) \/ ReplyUnknown(h)
  BY <1>2, CommitStepType
<1>3. CASE Send(h)
  BY <1>3, SendType
<1>4. CASE BeginFails(h) \/ RecheckFails(h) \/ ReplyRefused(h) \/ ReceiptAbsent(h)
  BY <1>4, FlushFailsType
  DEF BeginFails, RecheckFails, ReplyRefused, ReceiptAbsent, Abandon
<1>5. CASE ReplyOk(h) \/ ReceiptFound(h)
  BY <1>5, FlushConfirmsType DEF ReplyOk, ReceiptFound, InCommit
<1>6. CASE ReplyConflict(h)
  BY <1>6, ReplyConflictType
<1>7. QED
  BY <1>1, <1>2, <1>3, <1>4, <1>5, <1>6 DEF Flush

LEMMA ProcessType ==
  ASSUME TypeInv, NEW r \in wire, Process(r)
  PROVE  TypeInv'
<1> USE DEF TypeInv, TypeOK
<1>1. r \in Request
  BY DEF StorageTypeOK
<1>2. wire' \subseteq Request
  <2>1. \A o \in {"ok", "conflict"}: [r EXCEPT !.outcome = o] \in Request
    BY <1>1 DEF Request
  <2>2. QED
    BY <2>1 DEF StorageTypeOK, Process, Finish
<1>3. /\ DOMAIN Written(r) \subseteq Seqs
      /\ Written(r) \in [DOMAIN Written(r) -> Event]
  <2>1. r.first..r.last \subseteq Seqs
    BY <1>1, BoundsAssumption DEF Request, Seqs
  <2>2. [host |-> r.host, boot |-> r.boot] \in Event
    BY <1>1 DEF Request, Event
  <2>3. QED
    BY <2>1, <2>2 DEF StorageTypeOK, Written
<1>4. [lastSeq |-> r.last, version |-> revision + 1] \in Record
  BY <1>1, BoundsAssumption DEF StorageTypeOK, Request, Record, Seqs
<1>5. StorageTypeOK'
  BY <1>2, <1>3, <1>4 DEF StorageTypeOK, Process
<1>6. SessionTypeOK' /\ FlushTypeOK' /\ WaitTypeOK' /\ CommitOK'
  BY DEF SessionTypeOK, FlushTypeOK, WaitTypeOK, CommitOK, Process, sessionVars
<1>7. QED
  BY <1>5, <1>6

LEMMA ScopeWriteType ==
  ASSUME TypeInv, NEW h \in Hosts, ScopeWrite(h)
  PROVE  TypeInv'
<1> USE DEF TypeInv, TypeOK
<1>1. StorageTypeOK'
  BY DEF StorageTypeOK, ScopeWrite
<1>2. SessionTypeOK'
  <2>1. PICK t \in {NoToken, revision + 1}: token' = [token EXCEPT ![h] = t]
    BY DEF ScopeWrite
  <2>2. t \in Nat
    BY DEF StorageTypeOK, NoToken
  <2>3. QED
    BY <2>1, <2>2 DEF SessionTypeOK, ScopeWrite, sessionVars
<1>3. FlushTypeOK' /\ WaitTypeOK' /\ CommitOK'
  BY DEF FlushTypeOK, WaitTypeOK, CommitOK, ScopeWrite, sessionVars
<1>4. QED
  BY <1>1, <1>2, <1>3

LEMMA ForeignWriteType ==
  ASSUME TypeInv, ForeignWrite
  PROVE  TypeInv'
<1> USE DEF TypeInv, TypeOK
<1>1. StorageTypeOK'
  BY DEF StorageTypeOK, ForeignWrite
<1>2. SessionTypeOK' /\ FlushTypeOK' /\ WaitTypeOK' /\ CommitOK'
  BY DEF SessionTypeOK, FlushTypeOK, WaitTypeOK, CommitOK, ForeignWrite, sessionVars
<1>3. QED
  BY <1>1, <1>2

LEMMA WaitType ==
  ASSUME TypeInv, NEW h \in Hosts, NEW s \in Seqs, Wait(h, s)
  PROVE  TypeInv'
<1> USE DEF TypeInv, TypeOK
<1>1. StorageTypeOK' /\ SessionTypeOK'
  BY DEF StorageTypeOK, SessionTypeOK, Wait, WaitLooks, CallWait, WaitAcks,
         WaitErrs, WaitAgain, WaitCancelled, storageVars, sessionVars
<1>2. WaitTypeOK'
  <2>1. [seq |-> s, event |-> [host |-> h, boot |-> boot[h]]]
           \in [seq: Seqs, event: Event]
    BY DEF SessionTypeOK, Event
  <2>2. CASE WaitAcks(h, s)
    BY <2>1, <2>2 DEF WaitTypeOK, Waiter, WaitAcks
  <2>3. CASE CallWait(h, s) \/ WaitAgain(h, s)
    <3>1. waiting' = [waiting EXCEPT ![h][s] = "wait"] /\ UNCHANGED <<held, acked>>
      BY <2>3 DEF CallWait, WaitAgain
    <3>2. QED
      BY <3>1 DEF WaitTypeOK, Waiter
  <2>4. CASE WaitErrs(h, s) \/ WaitCancelled(h, s)
    BY <2>4 DEF WaitTypeOK, Waiter, WaitErrs, WaitCancelled
  <2>5. QED
    BY <2>2, <2>3, <2>4 DEF Wait, WaitLooks
<1>3. FlushTypeOK' /\ CommitOK'
  <2>1. CASE CallWait(h, s) \/ WaitAgain(h, s)
    <3>1. Schedule(h, pending[h], TRUE)
      BY <2>1 DEF CallWait, WaitAgain
    <3>2. QED
      BY <2>1, <3>1, ScheduleType
      DEF FlushTypeOK, CommitOK, CallWait, WaitAgain, sessionVars, InCommit
  <2>2. CASE ~(CallWait(h, s) \/ WaitAgain(h, s))
    BY <2>2 DEF FlushTypeOK, CommitOK, Wait, WaitLooks, WaitAcks, WaitErrs,
                WaitCancelled, sessionVars
  <2>3. QED
    BY <2>1, <2>2
<1>4. QED
  BY <1>1, <1>2, <1>3

LEMMA CapacityType ==
  ASSUME TypeInv, NEW h \in Hosts, CapacityBlocks(h) \/ CapacityReturns(h)
  PROVE  TypeInv'
<1> USE DEF TypeInv, TypeOK
<1>1. StorageTypeOK' /\ SessionTypeOK'
  BY DEF StorageTypeOK, SessionTypeOK, CapacityBlocks, CapacityReturns,
         storageVars, sessionVars
<1>2. WaitTypeOK'
  BY DEF WaitTypeOK, Waiter, CapacityBlocks, CapacityReturns
<1>3. FlushTypeOK' /\ CommitOK'
  <2>1. CASE CapacityBlocks(h)
    <3>1. Schedule(h, pending[h], TRUE)
      BY <2>1 DEF CapacityBlocks
    <3>2. QED
      BY <2>1, <3>1, ScheduleType
      DEF FlushTypeOK, CommitOK, CapacityBlocks, sessionVars, InCommit
  <2>2. CASE CapacityReturns(h)
    BY <2>2 DEF FlushTypeOK, CommitOK, CapacityReturns, sessionVars
  <2>3. QED
    BY <2>1, <2>2
<1>4. QED
  BY <1>1, <1>2, <1>3

LEMMA NextTypeInv == TypeInv /\ [Next]_vars => TypeInv'
<1> SUFFICES ASSUME TypeInv, [Next]_vars PROVE TypeInv'
  OBVIOUS
<1>1. CASE UNCHANGED vars
  BY <1>1 DEF vars, TypeInv, TypeOK, StorageTypeOK, SessionTypeOK, FlushTypeOK,
              WaitTypeOK, CommitOK
<1>2. ASSUME NEW r \in wire, Process(r) PROVE TypeInv'
  BY <1>2, ProcessType
<1>3. ASSUME NEW h \in Hosts,
             \/ Open(h) \/ Crash(h) \/ AppendStops(h) \/ Flush(h)
             \/ CapacityBlocks(h) \/ CapacityReturns(h) \/ ScopeWrite(h)
      PROVE  TypeInv'
  BY <1>3, OpenType, CrashType, AppendStopsType, FlushType, CapacityType,
     ScopeWriteType
<1>4. ASSUME NEW h \in Hosts, NEW urgent \in Urgencies, Append1(h, urgent)
      PROVE  TypeInv'
  BY <1>4, AppendType, BoundsAssumption
<1>5. ASSUME NEW h \in Hosts, NEW s \in Seqs, Wait(h, s) PROVE TypeInv'
  BY <1>5, WaitType
<1>6. CASE ForeignWrite
  BY <1>6, ForeignWriteType
<1>7. QED
  BY <1>1, <1>2, <1>3, <1>4, <1>5, <1>6 DEF Next

\* The journal keeps its types: no event is numbered beyond MaxEvents, no
\* batch reaches beyond the pending list and no request past the first retry.
THEOREM TypeCorrect == Spec => []TypeOK
<1>1. Spec => []TypeInv
  BY InitTypeInv, NextTypeInv, PTL DEF Spec
<1>2. TypeInv => TypeOK
  BY DEF TypeInv
<1>3. QED
  BY <1>1, <1>2, PTL

-----------------------------------------------------------------------------
(* The log in storage                                                      *)

\* Pending events are numbered from the end of what is durable, a commit runs
\* only in a host that is up and whose journal has not failed, and a host that
\* is down has no pending events and no waiting callers.
HostOK(h) ==
    /\ lastSeq[h] = durable[h] + Len(pending[h])
    /\ \A i \in 1..Len(pending[h]): pending[h][i].seq = durable[h] + i
    /\ flush[h] \in InCommit => /\ up[h] /\ ~persistErr[h]
                                /\ batch[h] <= MaxBatchEvents
    /\ ~up[h] => /\ pending[h] = <<>>
                 /\ flush[h] = "none"
                 /\ \A s \in Seqs: waiting[h][s] = "none"

SessionOK == \A h \in Hosts: HostOK(h)

\* What a host believes about the stored record was true once, and is still
\* true while the record has the version the host knows.
RecordOK ==
    /\ RowsMatchRecord
    /\ record.version <= revision
    /\ \A h \in Hosts: up[h] =>
          /\ version[h] <= record.version
          /\ durable[h] <= record.lastSeq
          /\ version[h] = record.version => durable[h] = record.lastSeq

\* The flush of host h waits for the outcome of a request.
Awaiting(h) == flush[h] \in {"sent", "lookup"}

\* The rows of a request are stored under its numbers.
Stored(r) == \A s \in r.first..r.last: stored[s] = [host |-> r.host, boot |-> r.boot]

\* A request that storage may still accept continues the stored log exactly,
\* one that it accepted is in the log, and one whose sender still works is
\* being waited for and is the batch of that sender.
RequestOK(r) ==
    /\ r.boot <= boot[r.host]
    /\ r.first <= r.last /\ r.last < r.first + MaxBatchEvents
    /\ r.outcome = "none" =>
          /\ r.version <= record.version
          /\ r.version = record.version => r.first = record.lastSeq + 1
    /\ r.outcome = "ok" =>
          /\ r.token < record.version
          /\ r.token + 1 = record.version => r.last = record.lastSeq
          /\ r.last <= record.lastSeq
          /\ Stored(r)
    /\ r.boot = boot[r.host] /\ up[r.host] =>
          Awaiting(r.host) \/ persistErr[r.host]
    /\ r.boot = boot[r.host] /\ Awaiting(r.host) =>
          /\ r.first = durable[r.host] + 1
          /\ r.last = durable[r.host] + batch[r.host]

WireOK == \A r \in wire: RequestOK(r)

\* Once an event somebody waits for counts as durable, it is stored.
WaitOK ==
    \A h \in Hosts, s \in Seqs: waiting[h][s] # "none" /\ s <= durable[h] =>
        stored[s] = [host |-> h, boot |-> boot[h]]

SafeInv ==
    /\ TypeInv
    /\ SessionOK
    /\ RecordOK
    /\ WireOK
    /\ NeverResubmitted
    /\ WaitOK
    /\ AckedIsStored

LEMMA InitSafeInv == Init => SafeInv
<1> SUFFICES ASSUME Init PROVE SafeInv
  OBVIOUS
<1>1. TypeInv
  BY InitTypeInv
<1>2. SessionOK /\ WireOK /\ NeverResubmitted /\ WaitOK /\ AckedIsStored
  BY DEF Init, SessionOK, HostOK, WireOK, RequestOK, NeverResubmitted, WaitOK, AckedIsStored,
         InCommit
<1>3. RecordOK
  BY DEF Init, RecordOK, RowsMatchRecord
<1>4. QED
  BY <1>1, <1>2, <1>3 DEF SafeInv

\* A step that touches neither the stored log, the requests, the numbering of
\* events nor the request a commit waits for.
Quiet ==
    /\ UNCHANGED <<record, stored, wire, sessionVars, up, persistErr>>
    /\ revision' >= revision
    /\ \A k \in Hosts:
          /\ Awaiting(k)' <=> Awaiting(k)
          /\ Awaiting(k) => batch'[k] = batch[k]
          /\ flush'[k] \in InCommit => /\ up[k] /\ ~persistErr[k]
                                       /\ batch'[k] <= MaxBatchEvents
          /\ ~up[k] => flush'[k] = "none"
          /\ \A s \in Seqs: waiting'[k][s] # "none" =>
                waiting[k][s] # "none" \/ (up[k] /\ s > durable[k])

LEMMA QuietSafe ==
  ASSUME SafeInv, TypeInv', Quiet
  PROVE  SessionOK' /\ RecordOK' /\ WireOK' /\ NeverResubmitted' /\ WaitOK'
<1> USE DEF SafeInv, TypeInv, TypeOK, Quiet, sessionVars
<1>1. SessionOK'
  BY DEF SessionOK, HostOK
<1>2. RecordOK'
  BY DEF RecordOK, RowsMatchRecord, StorageTypeOK, Record
<1>3. WireOK'
  BY DEF WireOK, RequestOK, Stored, Awaiting, StorageTypeOK, Request
<1>4. NeverResubmitted'
  BY DEF NeverResubmitted
<1>5. WaitOK'
  <2> SUFFICES ASSUME NEW k \in Hosts, NEW s \in Seqs,
                      waiting'[k][s] # "none", s <= durable[k]
               PROVE  stored[s] = [host |-> k, boot |-> boot[k]]
    BY DEF WaitOK
  <2>1. durable[k] \in Int /\ s \in Int
    BY BoundsAssumption DEF SessionTypeOK, Seqs
  <2>2. waiting[k][s] # "none"
    BY <2>1
  <2>3. QED
    BY <2>2 DEF WaitOK
<1>6. QED
  BY <1>1, <1>2, <1>3, <1>4, <1>5

LEMMA ScheduleQuiet ==
  ASSUME SafeInv, NEW h \in Hosts, up[h], NEW events, NEW urgent \in BOOLEAN,
         Schedule(h, events, urgent)
  PROVE  \A k \in Hosts: /\ Awaiting(k)' <=> Awaiting(k)
                         /\ flush'[k] \in InCommit => flush[k] \in InCommit
                         /\ ~up[k] => flush'[k] = "none"
  BY DEF SafeInv, TypeInv, TypeOK, FlushTypeOK, SessionOK, HostOK, Schedule, Awaiting,
         InCommit

LEMMA LoopQuiet ==
  ASSUME SafeInv, NEW h \in Hosts,
         \/ AppendStops(h) \/ FlushEnds(h) \/ FlushSleeps(h) \/ FlushWakes(h)
         \/ FlushTakes(h)
  PROVE  Quiet /\ UNCHANGED acked
<1> USE DEF SafeInv, TypeInv, TypeOK, StorageTypeOK, FlushTypeOK, SessionOK, HostOK
<1>1. CASE AppendStops(h)
  BY <1>1 DEF Quiet, AppendStops, storageVars, Awaiting
<1>2. CASE FlushEnds(h)
  BY <1>2 DEF Quiet, FlushEnds, storageVars, Awaiting, InCommit
<1>3. CASE FlushSleeps(h)
  BY <1>3 DEF Quiet, FlushSleeps, storageVars, Awaiting, InCommit
<1>4. CASE FlushWakes(h)
  BY <1>4 DEF Quiet, FlushWakes, storageVars, Awaiting, InCommit
<1>5. CASE FlushTakes(h)
  BY <1>5 DEF Quiet, FlushTakes, storageVars, Awaiting, InCommit
<1>6. QED
  BY <1>1, <1>2, <1>3, <1>4, <1>5

LEMMA CommitQuiet ==
  ASSUME SafeInv, NEW h \in Hosts,
         ReadToken(h) \/ Recheck(h) \/ ReplyUnknown(h) \/ ScopeWrite(h)
  PROVE  Quiet /\ UNCHANGED acked
<1> USE DEF SafeInv, TypeInv, TypeOK, StorageTypeOK, FlushTypeOK, SessionOK, HostOK
<1>1. CASE ReadToken(h)
  BY <1>1 DEF Quiet, ReadToken, storageVars, Awaiting
<1>2. CASE Recheck(h)
  BY <1>2 DEF Quiet, Recheck, storageVars, Awaiting, InCommit
<1>3. CASE ReplyUnknown(h)
  BY <1>3 DEF Quiet, ReplyUnknown, storageVars, Awaiting, InCommit
<1>4. CASE ScopeWrite(h)
  BY <1>4 DEF Quiet, ScopeWrite, Awaiting
<1>5. QED
  BY <1>1, <1>2, <1>3, <1>4

LEMMA ForeignQuiet ==
  ASSUME SafeInv, ForeignWrite
  PROVE  Quiet /\ UNCHANGED acked
  BY DEF SafeInv, TypeInv, TypeOK, StorageTypeOK, FlushTypeOK, SessionOK, HostOK,
         Quiet, ForeignWrite, Awaiting

LEMMA CapacityQuiet ==
  ASSUME SafeInv, NEW h \in Hosts, CapacityBlocks(h) \/ CapacityReturns(h)
  PROVE  Quiet /\ UNCHANGED acked
<1>1. CASE CapacityBlocks(h)
  <2>1. up[h] /\ Schedule(h, pending[h], TRUE)
    BY <1>1 DEF CapacityBlocks
  <2>2. \A k \in Hosts: /\ Awaiting(k)' <=> Awaiting(k)
                        /\ flush'[k] \in InCommit => flush[k] \in InCommit
                        /\ ~up[k] => flush'[k] = "none"
    BY <2>1, ScheduleQuiet
  <2>3. QED
    BY <1>1, <2>2 DEF SafeInv, TypeInv, TypeOK, StorageTypeOK, SessionOK, HostOK, Quiet,
                      CapacityBlocks, storageVars
<1>2. CASE CapacityReturns(h)
  BY <1>2 DEF SafeInv, TypeInv, TypeOK, StorageTypeOK, SessionOK, HostOK, Quiet,
              CapacityReturns, storageVars, Awaiting
<1>3. QED
  BY <1>1, <1>2

LEMMA WaitQuiet ==
  ASSUME SafeInv, NEW h \in Hosts, NEW s \in Seqs, Wait(h, s)
  PROVE  Quiet
<1>1. CASE CallWait(h, s) \/ WaitAgain(h, s)
  <2>1. up[h] /\ Schedule(h, pending[h], TRUE)
    BY <1>1 DEF CallWait, WaitAgain, SafeInv, SessionOK, HostOK
  <2>2. \A k \in Hosts: /\ Awaiting(k)' <=> Awaiting(k)
                        /\ flush'[k] \in InCommit => flush[k] \in InCommit
                        /\ ~up[k] => flush'[k] = "none"
    BY <2>1, ScheduleQuiet
  <2>3. waiting[h][s] # "none" \/ s > durable[h]
    <3>1. CASE CallWait(h, s)
      <4>1. PICK i \in 1..Len(pending[h]): pending[h][i].seq = s
        BY <3>1 DEF CallWait
      <4>2. s = durable[h] + i
        BY <4>1 DEF SafeInv, SessionOK, HostOK
      <4>3. durable[h] \in Nat /\ i \in Nat /\ i > 0
        BY BoundsAssumption DEF SafeInv, TypeInv, TypeOK, SessionTypeOK
      <4>4. QED
        BY <4>2, <4>3
    <3>2. CASE WaitAgain(h, s)
      BY <3>2 DEF WaitAgain
    <3>3. QED
      BY <1>1, <3>1, <3>2
  <2>4. /\ UNCHANGED <<storageVars, sessionVars, up, persistErr, batch>>
        /\ waiting' = [waiting EXCEPT ![h][s] = "wait"]
    BY <1>1 DEF CallWait, WaitAgain
  <2>5. QED
    BY <2>1, <2>2, <2>3, <2>4
    DEF SafeInv, TypeInv, TypeOK, StorageTypeOK, WaitTypeOK, SessionOK, HostOK, Quiet,
        storageVars
<1>2. CASE WaitAcks(h, s) \/ WaitErrs(h, s) \/ WaitCancelled(h, s)
  <2>1. /\ UNCHANGED <<storageVars, sessionVars, up, persistErr, flush, batch>>
        /\ waiting' = [waiting EXCEPT ![h][s] = "none"]
    BY <1>2 DEF WaitAcks, WaitErrs, WaitCancelled
  <2>2. QED
    BY <2>1 DEF SafeInv, TypeInv, TypeOK, StorageTypeOK, WaitTypeOK, SessionOK, HostOK,
                Quiet, storageVars, Awaiting
<1>3. QED
  BY <1>1, <1>2 DEF Wait, WaitLooks

\* A host whose session does not change keeps its invariant.
LEMMA HostFrame ==
  ASSUME NEW k, HostOK(k), up'[k] = up[k], lastSeq'[k] = lastSeq[k],
         durable'[k] = durable[k], pending'[k] = pending[k],
         flush'[k] = flush[k], persistErr'[k] = persistErr[k],
         batch'[k] = batch[k], waiting'[k] = waiting[k]
  PROVE  HostOK(k)'
  BY DEF HostOK

\* So does a request while the log and the session of its sender stay.
LEMMA RequestFrame ==
  ASSUME NEW r, RequestOK(r), UNCHANGED <<record, stored>>,
         boot'[r.host] = boot[r.host], up'[r.host] = up[r.host],
         durable'[r.host] = durable[r.host], batch'[r.host] = batch[r.host],
         persistErr'[r.host] = persistErr[r.host],
         Awaiting(r.host)' <=> Awaiting(r.host)
  PROVE  RequestOK(r)'
  BY DEF RequestOK, Stored

LEMMA OpenSafe ==
  ASSUME SafeInv, TypeInv', NEW h \in Hosts, Open(h)
  PROVE  SafeInv'
<1> USE DEF SafeInv, TypeInv, TypeOK
<1>1. ASSUME NEW k \in Hosts PROVE HostOK(k)'
  <2>1. CASE k = h
    <3>1. HostOK(h) /\ ~up[h]
      BY DEF SessionOK, Open
    <3>2. /\ lastSeq'[h] = record.lastSeq /\ durable'[h] = record.lastSeq
          /\ up'[h] /\ UNCHANGED <<pending, flush, waiting>>
      BY DEF Open, SessionTypeOK
    <3>3. record.lastSeq \in Nat
      BY BoundsAssumption DEF StorageTypeOK, Record
    <3>4. QED
      BY <2>1, <3>1, <3>2, <3>3 DEF HostOK, InCommit
  <2>2. CASE k # h
    BY <2>2, HostFrame DEF SessionOK, SessionTypeOK, Open
  <2>3. QED
    BY <2>1, <2>2
<1>2. RecordOK'
  <2>1. UNCHANGED <<record, stored, revision>>
    BY DEF Open, storageVars
  <2>2. RowsMatchRecord' /\ record'.version <= revision'
    BY <2>1 DEF RecordOK, RowsMatchRecord
  <2>3. ASSUME NEW k \in Hosts, up'[k]
        PROVE  /\ version'[k] <= record.version
               /\ durable'[k] <= record.lastSeq
               /\ version'[k] = record.version => durable'[k] = record.lastSeq
    <3>1. CASE k = h
      <4>1. version'[h] = record.version /\ durable'[h] = record.lastSeq
        BY DEF Open, SessionTypeOK
      <4>2. record.version \in Nat /\ record.lastSeq \in Nat
        BY BoundsAssumption DEF StorageTypeOK, Record
      <4>3. QED
        BY <3>1, <4>1, <4>2
    <3>2. CASE k # h
      <4>1. up[k] /\ version'[k] = version[k] /\ durable'[k] = durable[k]
        BY <2>3, <3>2 DEF Open, SessionTypeOK
      <4>2. QED
        BY <4>1 DEF RecordOK
    <3>3. QED
      BY <3>1, <3>2
  <2>4. QED
    BY <2>1, <2>2, <2>3 DEF RecordOK
<1>3. ASSUME NEW r \in wire PROVE RequestOK(r)'
  <2>1. r \in Request /\ RequestOK(r)
    BY DEF WireOK, StorageTypeOK
  <2>2. CASE r.host = h
    <3>1. r.boot <= boot'[h] /\ r.boot # boot'[h]
      BY <2>1, <2>2 DEF RequestOK, SessionTypeOK, Request, Open
    <3>2. QED
      BY <2>1, <2>2, <3>1 DEF RequestOK, Stored, Open, storageVars
  <2>3. CASE r.host # h
    <3>1. r.host \in Hosts
      BY <2>1 DEF Request
    <3>2. QED
      BY <2>1, <2>3, <3>1, RequestFrame
      DEF Awaiting, SessionTypeOK, Open, storageVars
  <2>4. QED
    BY <2>2, <2>3
<1>4. NeverResubmitted' /\ AckedIsStored'
  BY DEF NeverResubmitted, AckedIsStored, Open, storageVars
<1>5. WaitOK'
  <2>1. UNCHANGED <<stored, waiting>>
    BY DEF Open, storageVars
  <2>2. \A s \in Seqs: waiting[h][s] = "none"
    BY DEF SessionOK, HostOK, Open
  <2>3. ASSUME NEW k \in Hosts, k # h
        PROVE  durable'[k] = durable[k] /\ boot'[k] = boot[k]
    BY <2>3 DEF Open, SessionTypeOK
  <2>4. QED
    BY <2>1, <2>2, <2>3 DEF WaitOK
<1>6. QED
  BY <1>1, <1>2, <1>3, <1>4, <1>5 DEF SessionOK, WireOK, Open, storageVars

LEMMA CrashSafe ==
  ASSUME SafeInv, TypeInv', NEW h \in Hosts, Crash(h)
  PROVE  SafeInv'
<1> USE DEF SafeInv, TypeInv, TypeOK
<1>1. ASSUME NEW k \in Hosts PROVE HostOK(k)'
  <2>1. CASE k = h
    BY <2>1 DEF HostOK, SessionTypeOK, FlushTypeOK, WaitTypeOK, InCommit, Crash
  <2>2. CASE k # h
    <3>1. /\ up'[k] = up[k] /\ lastSeq'[k] = lastSeq[k]
          /\ durable'[k] = durable[k] /\ pending'[k] = pending[k]
          /\ flush'[k] = flush[k] /\ persistErr'[k] = persistErr[k]
          /\ batch'[k] = batch[k] /\ waiting'[k] = waiting[k]
      BY <2>2 DEF SessionTypeOK, FlushTypeOK, WaitTypeOK, Crash
    <3>2. QED
      BY <3>1, HostFrame DEF SessionOK
  <2>3. QED
    BY <2>1, <2>2
<1>2. RecordOK'
  BY DEF RecordOK, RowsMatchRecord, SessionTypeOK, Crash
<1>3. ASSUME NEW r \in wire PROVE RequestOK(r)'
  <2>1. r \in Request /\ RequestOK(r)
    BY DEF WireOK, StorageTypeOK
  <2>2. CASE r.host = h
    <3>1. ~up'[h] /\ ~Awaiting(h)'
      BY DEF Awaiting, SessionTypeOK, FlushTypeOK, Crash
    <3>2. QED
      BY <2>1, <2>2, <3>1 DEF RequestOK, Stored, Crash
  <2>3. CASE r.host # h
    <3>1. r.host \in Hosts
      BY <2>1 DEF Request
    <3>2. /\ boot'[r.host] = boot[r.host] /\ up'[r.host] = up[r.host]
          /\ durable'[r.host] = durable[r.host] /\ batch'[r.host] = batch[r.host]
          /\ persistErr'[r.host] = persistErr[r.host]
          /\ flush'[r.host] = flush[r.host]
      BY <2>3, <3>1 DEF SessionTypeOK, FlushTypeOK, Crash
    <3>3. QED
      BY <2>1, <3>2, RequestFrame DEF Awaiting, Crash
  <2>4. QED
    BY <2>2, <2>3
<1>4. NeverResubmitted' /\ AckedIsStored'
  BY DEF NeverResubmitted, AckedIsStored, Crash, Abandon
<1>5. WaitOK'
  BY DEF WaitOK, SessionTypeOK, WaitTypeOK, Crash
<1>6. QED
  BY <1>1, <1>2, <1>3, <1>4, <1>5 DEF SessionOK, WireOK, Crash, Abandon

LEMMA AppendSafe ==
  ASSUME SafeInv, TypeInv', NEW h \in Hosts, NEW urgent \in BOOLEAN,
         Append1(h, urgent)
  PROVE  SafeInv'
<1>1. \A k \in Hosts: /\ Awaiting(k)' <=> Awaiting(k)
                      /\ flush'[k] \in InCommit => flush[k] \in InCommit
                      /\ ~up[k] => flush'[k] = "none"
  <2>1. up[h] /\ Schedule(h, pending'[h], urgent)
    BY DEF Append1
  <2>2. QED
    BY <2>1, ScheduleQuiet
<1> USE DEF SafeInv, TypeInv, TypeOK
<1>2. HostOK(h)'
  <2> DEFINE e == [seq |-> lastSeq[h] + 1, urgent |-> urgent]
  <2>1. pending'[h] = Append(pending[h], e)
    BY DEF Append1, SessionTypeOK
  <2>2. pending[h] \in Seq(PendingEvent) /\ e \in PendingEvent
    BY BoundsAssumption DEF Append1, Fits, SessionTypeOK, Seqs, PendingEvent
  <2>3. e.seq = lastSeq[h] + 1
    OBVIOUS
  <2>4. /\ durable[h] \in Nat /\ Len(pending[h]) \in Nat
        /\ lastSeq[h] = durable[h] + Len(pending[h]) /\ HostOK(h)
    <3>1. HostOK(h)
      BY DEF SessionOK
    <3>2. durable[h] \in Nat
      BY BoundsAssumption DEF SessionTypeOK
    <3>3. QED
      BY <2>2, <3>1, <3>2 DEF HostOK
  <2> HIDE DEF e
  <2>5. Len(pending'[h]) = Len(pending[h]) + 1
    BY <2>1, <2>2
  <2>6. \A i \in 1..Len(pending'[h]): pending'[h][i].seq = durable[h] + i
    <3> SUFFICES ASSUME NEW i \in 1..Len(pending'[h])
                 PROVE  pending'[h][i].seq = durable[h] + i
      OBVIOUS
    <3>1. CASE i = Len(pending[h]) + 1
      <4>1. pending'[h][i] = e
        BY <2>1, <2>2, <3>1
      <4>2. QED
        BY <2>3, <2>4, <3>1, <4>1
    <3>2. CASE i \in 1..Len(pending[h])
      BY <2>1, <2>2, <2>4, <3>2 DEF HostOK
    <3>3. QED
      BY <2>2, <2>5, <3>1, <3>2
  <2>7. /\ lastSeq'[h] = lastSeq[h] + 1 /\ up'[h]
        /\ UNCHANGED <<durable, persistErr, batch>>
    BY DEF Append1, SessionTypeOK
  <2>8. lastSeq'[h] = durable[h] + Len(pending'[h])
    BY <2>4, <2>5, <2>7 DEF HostOK
  <2>9. QED
    BY <1>1, <2>4, <2>6, <2>7, <2>8 DEF HostOK
<1>3. ASSUME NEW k \in Hosts, k # h PROVE HostOK(k)'
  <2>1. /\ pending'[k] = pending[k] /\ lastSeq'[k] = lastSeq[k]
        /\ UNCHANGED <<up, durable, persistErr, batch, waiting>>
    BY <1>3 DEF Append1, SessionTypeOK
  <2>2. HostOK(k)
    BY DEF SessionOK
  <2>3. QED
    BY <1>1, <2>1, <2>2 DEF HostOK
<1>4. RecordOK' /\ NeverResubmitted' /\ AckedIsStored' /\ WaitOK'
  BY DEF RecordOK, RowsMatchRecord, NeverResubmitted, AckedIsStored, WaitOK,
         Append1, storageVars
<1>5. WireOK'
  BY <1>1 DEF WireOK, RequestOK, Stored, StorageTypeOK, Request, Append1,
              storageVars
<1>6. QED
  BY <1>2, <1>3, <1>4, <1>5 DEF SessionOK

LEMMA WakeWaitersSafe ==
  ASSUME SafeInv, NEW h \in Hosts, WakeWaiters(h)
  PROVE  \A k \in Hosts, s \in Seqs: waiting'[k][s] # "none" <=> waiting[k][s] # "none"
  BY DEF SafeInv, TypeInv, TypeOK, WaitTypeOK, WakeWaiters

LEMMA FlushFailsSafe ==
  ASSUME SafeInv, TypeInv', NEW h \in Hosts, up[h], FlushFails(h),
         wire' \subseteq wire
  PROVE  SafeInv'
<1>1. \A k \in Hosts, s \in Seqs: waiting'[k][s] # "none" <=> waiting[k][s] # "none"
  BY WakeWaitersSafe DEF FlushFails
<1> USE DEF SafeInv, TypeInv, TypeOK, sessionVars
<1>2. ASSUME NEW k \in Hosts PROVE HostOK(k)'
  <2>1. HostOK(k)
    BY DEF SessionOK
  <2>2. CASE k = h
    BY <2>1, <2>2 DEF HostOK, FlushTypeOK, InCommit, FlushFails
  <2>3. CASE k # h
    <3>1. /\ flush'[k] = flush[k] /\ persistErr'[k] = persistErr[k]
          /\ batch'[k] = batch[k]
      BY <2>3 DEF FlushTypeOK, FlushFails
    <3>2. QED
      BY <1>1, <2>1, <3>1 DEF HostOK, FlushFails
  <2>4. QED
    BY <2>2, <2>3
<1>3. RecordOK' /\ NeverResubmitted' /\ AckedIsStored'
  BY DEF RecordOK, RowsMatchRecord, NeverResubmitted, AckedIsStored, FlushFails
<1>4. WireOK'
  BY DEF WireOK, RequestOK, Stored, Awaiting, FlushTypeOK, StorageTypeOK,
         Request, FlushFails
<1>5. WaitOK'
  BY <1>1 DEF WaitOK, FlushFails
<1>6. QED
  BY <1>2, <1>3, <1>4, <1>5 DEF SessionOK

\* What is left of a sequence behind its first m elements.
LEMMA Suffix ==
  ASSUME NEW S, NEW q \in Seq(S), NEW m \in 1..Len(q)
  PROVE  /\ Len(SubSeq(q, m + 1, Len(q))) = Len(q) - m
         /\ \A i \in 1..(Len(q) - m): SubSeq(q, m + 1, Len(q))[i] = q[m + i]
  OBVIOUS

LEMMA FlushConfirmsSafe ==
  ASSUME SafeInv, TypeInv', NEW h \in Hosts, NEW r \in wire, Mine(h, r),
         r.outcome = "ok", Awaiting(h), FlushConfirms(h, r)
  PROVE  SafeInv'
<1>1. \A k \in Hosts, s \in Seqs: waiting'[k][s] # "none" <=> waiting[k][s] # "none"
  BY WakeWaitersSafe DEF FlushConfirms
<1> USE DEF SafeInv, TypeInv, TypeOK
<1>2. /\ r \in Request /\ RequestOK(r) /\ r.host = h /\ r.boot = boot[h]
      /\ r.first \in Nat /\ r.last \in Nat /\ r.token \in Nat
      /\ record.version \in Nat /\ record.lastSeq \in Nat
  BY BoundsAssumption DEF WireOK, Mine, StorageTypeOK, Request, Record, Seqs
<1>3. /\ pending[h] \in Seq(PendingEvent) /\ batch[h] \in 1..Len(pending[h])
      /\ durable[h] \in Nat /\ lastSeq[h] \in Nat /\ up[h] /\ HostOK(h)
  BY BoundsAssumption
  DEF CommitOK, Awaiting, InCommit, SessionOK, HostOK, SessionTypeOK
<1>4. /\ durable'[h] = durable[h] + batch[h]
      /\ r.first = durable[h] + 1 /\ r.last = durable[h] + batch[h]
  <2>1. durable'[h] = pending[h][batch[h]].seq
    BY DEF FlushConfirms, SessionTypeOK
  <2>2. QED
    BY <1>2, <1>3, <2>1 DEF HostOK, RequestOK
<1>5. HostOK(h)'
  <2>1. pending'[h] = SubSeq(pending[h], batch[h] + 1, Len(pending[h]))
    BY DEF FlushConfirms, SessionTypeOK
  <2>2. /\ Len(pending'[h]) = Len(pending[h]) - batch[h]
        /\ \A i \in 1..Len(pending'[h]): pending'[h][i] = pending[h][batch[h] + i]
    <3> DEFINE q == SubSeq(pending[h], batch[h] + 1, Len(pending[h]))
    <3>1. /\ Len(q) = Len(pending[h]) - batch[h]
          /\ \A i \in 1..(Len(pending[h]) - batch[h]): q[i] = pending[h][batch[h] + i]
      BY <1>3, Suffix
    <3> HIDE DEF q
    <3>2. pending'[h] = q
      BY <2>1 DEF q
    <3>3. QED
      BY <3>1, <3>2
  <2>3. ASSUME NEW i \in 1..Len(pending'[h])
        PROVE  pending'[h][i].seq = durable[h] + batch[h] + i
    <3>1. batch[h] + i \in 1..Len(pending[h])
      BY <1>3, <2>2
    <3>2. pending[h][batch[h] + i].seq = durable[h] + (batch[h] + i)
      BY <1>3, <3>1 DEF HostOK
    <3>3. pending'[h][i] = pending[h][batch[h] + i]
      BY <2>2
    <3>4. batch[h] \in Nat /\ i \in Nat
      BY <1>3, <2>2
    <3>5. QED
      BY <1>3, <3>2, <3>3, <3>4
  <2>4. flush'[h] \notin InCommit /\ up'[h] /\ lastSeq'[h] = lastSeq[h]
    BY <1>3 DEF FlushConfirms, FlushTypeOK, InCommit
  <2>5. lastSeq'[h] = durable'[h] + Len(pending'[h])
    BY <1>3, <1>4, <2>2, <2>4 DEF HostOK
  <2>6. QED
    BY <1>4, <2>3, <2>4, <2>5 DEF HostOK
<1>6. ASSUME NEW k \in Hosts, k # h PROVE HostOK(k)'
  <2>1. /\ up'[k] = up[k] /\ lastSeq'[k] = lastSeq[k]
        /\ durable'[k] = durable[k] /\ pending'[k] = pending[k]
        /\ flush'[k] = flush[k] /\ persistErr'[k] = persistErr[k]
        /\ batch'[k] = batch[k]
    BY <1>6 DEF SessionTypeOK, FlushTypeOK, FlushConfirms
  <2>2. HostOK(k)
    BY DEF SessionOK
  <2>3. QED
    BY <1>1, <2>1, <2>2 DEF HostOK
<1>7. RecordOK'
  <2>1. ASSUME NEW k \in Hosts, up'[k]
        PROVE  /\ version'[k] <= record.version
               /\ durable'[k] <= record.lastSeq
               /\ version'[k] = record.version => durable'[k] = record.lastSeq
    <3>1. CASE k = h
      <4>1. version'[h] = r.token + 1 /\ durable'[h] = r.last
        BY <1>4 DEF FlushConfirms, SessionTypeOK
      <4>2. QED
        BY <1>2, <3>1, <4>1 DEF RequestOK
    <3>2. CASE k # h
      BY <2>1, <3>2 DEF FlushConfirms, RecordOK, SessionTypeOK
    <3>3. QED
      BY <3>1, <3>2
  <2>2. QED
    BY <2>1 DEF RecordOK, RowsMatchRecord, FlushConfirms
<1>8. ASSUME NEW q \in wire' PROVE RequestOK(q)'
  <2>1. q \in wire /\ q # r /\ q \in Request /\ RequestOK(q)
    BY <1>8 DEF FlushConfirms, WireOK, StorageTypeOK
  <2>2. q.host = h => q.boot # boot[h]
    BY <2>1 DEF NeverResubmitted, Mine
  <2>3. CASE q.host = h
    BY <2>1, <2>2, <2>3 DEF RequestOK, Stored, FlushConfirms
  <2>4. CASE q.host # h
    <3>1. /\ durable'[q.host] = durable[q.host] /\ batch'[q.host] = batch[q.host]
          /\ flush'[q.host] = flush[q.host]
      BY <2>1, <2>4 DEF FlushConfirms, SessionTypeOK, FlushTypeOK, Request
    <3>2. QED
      BY <2>1, <3>1, RequestFrame DEF Awaiting, FlushConfirms
  <2>5. QED
    BY <2>3, <2>4
<1>9. NeverResubmitted' /\ AckedIsStored'
  BY DEF NeverResubmitted, AckedIsStored, FlushConfirms
<1>10. WaitOK'
  <2> SUFFICES ASSUME NEW k \in Hosts, NEW s \in Seqs,
                      waiting[k][s] # "none", s <= durable'[k]
               PROVE  stored[s] = [host |-> k, boot |-> boot[k]]
    BY <1>1 DEF WaitOK, FlushConfirms
  <2>1. CASE s <= durable[k]
    BY <2>1 DEF WaitOK
  <2>2. CASE ~(s <= durable[k])
    <3>1. k = h
      BY <2>2 DEF FlushConfirms, SessionTypeOK
    <3>2. s \in r.first..r.last
      BY <1>2, <1>3, <1>4, <2>2, <3>1, BoundsAssumption DEF Seqs
    <3>3. QED
      BY <1>2, <3>1, <3>2 DEF RequestOK, Stored, Mine
  <2>3. QED
    BY <2>1, <2>2
<1>11. QED
  BY <1>5, <1>6, <1>7, <1>8, <1>9, <1>10 DEF SessionOK, WireOK

LEMMA SendSafe ==
  ASSUME SafeInv, TypeInv', NEW h \in Hosts, Send(h)
  PROVE  SafeInv'
<1> USE DEF SafeInv, TypeInv, TypeOK
<1> DEFINE r == [host |-> h, boot |-> boot[h], token |-> token[h],
                 version |-> version[h], first |-> pending[h][1].seq,
                 last |-> pending[h][batch[h]].seq, outcome |-> "none"]
<1>1. /\ flush[h] = "begin" /\ up[h] /\ ~persistErr[h] /\ HostOK(h)
      /\ batch[h] \in 1..Len(pending[h]) /\ batch[h] <= MaxBatchEvents
      /\ pending[h] \in Seq(PendingEvent) /\ Len(pending[h]) \in Nat
      /\ durable[h] \in Nat
  <2>1. flush[h] = "begin" /\ flush[h] \in InCommit
    BY DEF Send, InCommit
  <2>2. HostOK(h)
    BY DEF SessionOK
  <2>3. up[h] /\ ~persistErr[h] /\ batch[h] <= MaxBatchEvents
    BY <2>1, <2>2 DEF HostOK
  <2>4. batch[h] \in 1..Len(pending[h])
    BY <2>1 DEF CommitOK
  <2>5. pending[h] \in Seq(PendingEvent) /\ durable[h] \in Nat
    BY DEF SessionTypeOK
  <2>6. QED
    BY <2>1, <2>2, <2>3, <2>4, <2>5
<1>2. /\ wire' = wire \cup {r}
      /\ flush' = [flush EXCEPT ![h] = "sent"]
      /\ UNCHANGED <<record, stored, revision, up, boot, lastSeq, durable,
                     version, pending, persistErr, batch, waiting, acked>>
  BY DEF Send, sessionVars
<1>3. r.first = durable[h] + 1 /\ r.last = durable[h] + batch[h]
  BY <1>1 DEF HostOK
<1>4. ASSUME NEW q \in wire PROVE ~(q.host = h /\ q.boot = boot[h])
  BY <1>1 DEF WireOK, RequestOK, Awaiting
<1>5. SessionOK'
  BY <1>1, <1>2 DEF SessionOK, HostOK, FlushTypeOK, InCommit
<1>6. RecordOK' /\ WaitOK' /\ AckedIsStored'
  BY <1>2 DEF RecordOK, RowsMatchRecord, WaitOK, AckedIsStored
<1>7. NeverResubmitted'
  BY <1>2, <1>4 DEF NeverResubmitted
<1>8. ASSUME NEW q, q = r PROVE RequestOK(q)'
  <2>1. /\ q.host = h /\ q.boot = boot[h] /\ q.outcome = "none"
        /\ q.version = version[h]
        /\ q.first = durable[h] + 1 /\ q.last = durable[h] + batch[h]
    BY <1>3, <1>8
  <2>2. q.first <= q.last /\ q.last < q.first + MaxBatchEvents
    BY <1>1, <2>1, BoundsAssumption
  <2>3. /\ q.version <= record.version
        /\ q.version = record.version => q.first = record.lastSeq + 1
    BY <1>1, <2>1 DEF RecordOK
  <2>4. Awaiting(h)' /\ boot[h] \in Nat
    BY <1>2 DEF Awaiting, FlushTypeOK, SessionTypeOK
  <2>5. UNCHANGED <<record, boot, durable, batch>>
    BY <1>2
  <2>6. QED
    BY <2>1, <2>2, <2>3, <2>4, <2>5 DEF RequestOK
<1>9. ASSUME NEW q \in wire PROVE RequestOK(q)'
  <2>1. q \in Request /\ RequestOK(q)
    BY DEF WireOK, StorageTypeOK
  <2>2. CASE q.host = h
    BY <1>2, <1>4, <2>1, <2>2 DEF RequestOK, Stored
  <2>3. CASE q.host # h
    <3>1. Awaiting(q.host)' <=> Awaiting(q.host)
      BY <1>2, <2>1, <2>3 DEF Awaiting, FlushTypeOK, Request
    <3>2. QED
      BY <1>2, <2>1, <3>1, RequestFrame
  <2>4. QED
    BY <2>2, <2>3
<1>10. QED
  BY <1>2, <1>5, <1>6, <1>7, <1>8, <1>9 DEF WireOK

LEMMA ConflictSafe ==
  ASSUME SafeInv, TypeInv', NEW h \in Hosts, ReplyConflict(h)
  PROVE  SafeInv'
<1> USE DEF SafeInv, TypeInv, TypeOK
<1>1. up[h]
  BY DEF ReplyConflict, SessionOK, HostOK, InCommit
<1>2. PICK r \in wire: Mine(h, r) /\ wire' = wire \ {r}
  BY DEF ReplyConflict
<1>3. CASE FlushFails(h)
  BY <1>1, <1>2, <1>3, FlushFailsSafe
<1>4. CASE ~FlushFails(h)
  <2>1. /\ flush[h] = "sent" /\ flush' = [flush EXCEPT ![h] = "recheck"]
        /\ UNCHANGED <<record, stored, revision, up, boot, lastSeq, durable,
                       version, pending, persistErr, batch, waiting, acked>>
    BY <1>4 DEF ReplyConflict, sessionVars
  <2>2. SessionOK'
    BY <2>1 DEF SessionOK, HostOK, FlushTypeOK, InCommit
  <2>3. RecordOK' /\ WaitOK' /\ AckedIsStored' /\ NeverResubmitted'
    BY <1>2, <2>1
    DEF RecordOK, RowsMatchRecord, WaitOK, AckedIsStored, NeverResubmitted
  <2>4. ASSUME NEW q \in wire' PROVE RequestOK(q)'
    <3>1. q \in wire /\ q # r /\ q \in Request /\ RequestOK(q)
      BY <1>2, <2>4 DEF WireOK, StorageTypeOK
    <3>2. CASE q.host = h
      <4>1. q.boot # boot[h]
        BY <1>2, <3>1, <3>2 DEF NeverResubmitted, Mine
      <4>2. QED
        BY <2>1, <3>1, <3>2, <4>1 DEF RequestOK, Stored
    <3>3. CASE q.host # h
      <4>1. Awaiting(q.host)' <=> Awaiting(q.host)
        BY <2>1, <3>1, <3>3 DEF Awaiting, FlushTypeOK, Request
      <4>2. QED
        BY <2>1, <3>1, <4>1, RequestFrame
    <3>4. QED
      BY <3>2, <3>3
  <2>5. QED
    BY <2>2, <2>3, <2>4 DEF WireOK
<1>5. QED
  BY <1>3, <1>4

LEMMA ProcessSafe ==
  ASSUME SafeInv, TypeInv', NEW r \in wire, Process(r)
  PROVE  SafeInv'
<1> USE DEF SafeInv, TypeInv, TypeOK
<1>1. /\ r \in Request /\ RequestOK(r) /\ r.outcome = "none"
      /\ r.host \in Hosts /\ r.first \in Nat /\ r.last \in Nat
      /\ r.token \in Nat /\ r.version \in Nat
      /\ revision \in Nat /\ record.version \in Nat /\ record.lastSeq \in Nat
  BY BoundsAssumption
  DEF WireOK, StorageTypeOK, Request, Record, Seqs, Process
<1>2. UNCHANGED <<up, boot, lastSeq, durable, version, pending, persistErr,
                  flush, batch, waiting, acked>>
  BY DEF Process, sessionVars
<1>3. SessionOK'
  BY <1>2 DEF SessionOK, HostOK
<1>4. NeverResubmitted'
  <2>1. PICK o \in {"ok", "conflict"}: Finish(r, o)
    BY DEF Process
  <2> DEFINE c == [r EXCEPT !.outcome = o]
  <2>2. c.host = r.host /\ c.boot = r.boot
    BY <1>1 DEF Request
  <2>3. wire' \subseteq (wire \ {r}) \cup {c}
    BY <2>1 DEF Finish
  <2> HIDE DEF c
  <2>4. SUFFICES ASSUME NEW p \in wire', NEW q \in wire',
                        p.host = q.host, p.boot = q.boot
                 PROVE  p = q
    BY DEF NeverResubmitted
  <2>5. ASSUME NEW x \in wire \ {r} PROVE ~(x.host = c.host /\ x.boot = c.boot)
    BY <2>2, <2>5 DEF NeverResubmitted
  <2>6. CASE p = c \/ q = c
    BY <2>3, <2>4, <2>5, <2>6
  <2>7. CASE p # c /\ q # c
    BY <2>3, <2>4, <2>7 DEF NeverResubmitted
  <2>8. QED
    BY <2>6, <2>7
<1>5. CASE ~Accepts(r)
  <2>1. UNCHANGED <<revision, record, stored>> /\ Finish(r, "conflict")
    BY <1>5 DEF Process
  <2>2. RecordOK' /\ WaitOK' /\ AckedIsStored'
    BY <1>2, <2>1 DEF RecordOK, RowsMatchRecord, WaitOK, AckedIsStored
  <2> DEFINE c == [r EXCEPT !.outcome = "conflict"]
  <2>3. RequestOK(c)'
    BY <1>1, <1>2, <2>1 DEF RequestOK, Request, Awaiting
  <2>4. ASSUME NEW q \in wire PROVE RequestOK(q)'
    BY <1>2, <2>1, RequestFrame DEF WireOK, Awaiting
  <2>5. wire' \subseteq wire \cup {c}
    BY <2>1 DEF Finish
  <2> HIDE DEF c
  <2>6. QED
    BY <1>3, <1>4, <2>2, <2>3, <2>4, <2>5 DEF WireOK
<1>6. CASE Accepts(r)
  <2>1. /\ revision' = revision + 1
        /\ record' = [lastSeq |-> r.last, version |-> revision + 1]
        /\ stored' = Written(r)
        /\ Finish(r, "ok")
    BY <1>6 DEF Process
  <2>2. /\ r.first = record.lastSeq + 1 /\ r.first <= r.last
        /\ r.token = revision
    BY <1>1, <1>6 DEF Accepts, RequestOK
  <2>3. /\ record'.lastSeq = r.last /\ record'.version = revision + 1
        /\ record.version <= revision
        /\ record.lastSeq < r.last
    BY <1>1, <2>1, <2>2 DEF RecordOK
  <2>4. DOMAIN stored = 1..record.lastSeq
    BY DEF RecordOK, RowsMatchRecord
  <2>5. /\ DOMAIN stored' = 1..r.last
        /\ \A s \in 1..record.lastSeq: stored'[s] = stored[s]
        /\ \A s \in r.first..r.last:
              stored'[s] = [host |-> r.host, boot |-> r.boot]
    BY <1>1, <2>1, <2>2, <2>3, <2>4 DEF Written
  <2>6. RecordOK'
    <3>1. ASSUME NEW k \in Hosts, up'[k]
          PROVE  /\ version'[k] <= record'.version
                 /\ durable'[k] <= record'.lastSeq
                 /\ version'[k] # record'.version
      <4>1. version[k] \in Nat /\ durable[k] \in Nat
        BY BoundsAssumption DEF SessionTypeOK
      <4>2. version[k] <= record.version /\ durable[k] <= record.lastSeq
        BY <1>2, <3>1 DEF RecordOK
      <4>3. QED
        BY <1>1, <1>2, <2>3, <4>1, <4>2
    <3>2. QED
      BY <1>1, <2>1, <2>3, <2>5, <3>1 DEF RecordOK, RowsMatchRecord
  <2>7. WaitOK'
    <3> SUFFICES ASSUME NEW k \in Hosts, NEW s \in Seqs,
                        waiting[k][s] # "none", s <= durable[k]
                 PROVE  stored'[s] = [host |-> k, boot |-> boot[k]]
      BY <1>2 DEF WaitOK
    <3>1. up[k] /\ durable[k] \in Nat /\ s \in Nat /\ s >= 1
      BY BoundsAssumption DEF SessionOK, HostOK, SessionTypeOK, Seqs
    <3>2. s \in 1..record.lastSeq
      BY <1>1, <3>1 DEF RecordOK
    <3>3. QED
      BY <2>5, <3>2 DEF WaitOK
  <2>8. AckedIsStored'
    BY <1>1, <1>2, <2>3, <2>4, <2>5 DEF AckedIsStored
  <2> DEFINE c == [r EXCEPT !.outcome = "ok"]
  <2>9. RequestOK(c)'
    <3>1. /\ c.host = r.host /\ c.boot = r.boot /\ c.token = r.token
          /\ c.first = r.first /\ c.last = r.last /\ c.outcome = "ok"
      BY <1>1 DEF Request
    <3> HIDE DEF c
    <3>2. Stored(c)'
      BY <2>5, <3>1 DEF Stored
    <3>3. QED
      BY <1>1, <1>2, <2>2, <2>3, <3>1, <3>2 DEF RequestOK, Awaiting
  <2>10. ASSUME NEW q \in wire PROVE RequestOK(q)'
    <3>1. /\ RequestOK(q) /\ q.version \in Nat /\ q.token \in Nat
          /\ q.first \in Nat /\ q.last \in Nat /\ q.first >= 1
      BY BoundsAssumption DEF WireOK, StorageTypeOK, Request, Seqs
    <3>2. q.outcome = "none" => /\ q.version <= record'.version
                                /\ q.version # record'.version
      BY <1>1, <2>3, <3>1 DEF RequestOK
    <3>3. q.outcome = "ok" => /\ q.token < record'.version
                              /\ q.token + 1 # record'.version
                              /\ q.last <= record'.lastSeq
      BY <1>1, <2>3, <3>1 DEF RequestOK
    <3>4. q.outcome = "ok" => Stored(q)'
      <4> SUFFICES ASSUME q.outcome = "ok", NEW s \in q.first..q.last
                   PROVE  stored'[s] = [host |-> q.host, boot |-> q.boot]
        BY DEF Stored
      <4>1. s \in 1..record.lastSeq
        BY <1>1, <3>1 DEF RequestOK
      <4>2. QED
        BY <2>5, <3>1, <4>1 DEF RequestOK, Stored
    <3>5. QED
      BY <1>2, <3>1, <3>2, <3>3, <3>4 DEF RequestOK, Awaiting
  <2>11. wire' \subseteq wire \cup {c}
    BY <2>1 DEF Finish
  <2> HIDE DEF c
  <2>12. QED
    BY <1>3, <1>4, <2>6, <2>7, <2>8, <2>9, <2>10, <2>11 DEF WireOK
<1>7. QED
  BY <1>5, <1>6

LEMMA FlushSafe ==
  ASSUME SafeInv, TypeInv', NEW h \in Hosts, Flush(h)
  PROVE  SafeInv'
<1>1. CASE FlushEnds(h) \/ FlushSleeps(h) \/ FlushWakes(h) \/ FlushTakes(h)
  BY <1>1, LoopQuiet, QuietSafe DEF SafeInv, AckedIsStored, Quiet
<1>2. CASE ReadToken(h) \/ Recheck(h) \/ ReplyUnknown(h)
  BY <1>2, CommitQuiet, QuietSafe DEF SafeInv, AckedIsStored, Quiet
<1>3. CASE Send(h)
  BY <1>3, SendSafe
<1>4. CASE BeginFails(h) \/ RecheckFails(h) \/ ReplyRefused(h) \/ ReceiptAbsent(h)
  <2>1. FlushFails(h) /\ wire' \subseteq wire /\ flush[h] \in InCommit
    BY <1>4 DEF BeginFails, RecheckFails, ReplyRefused, ReceiptAbsent, Abandon,
                InCommit
  <2>2. up[h]
    BY <2>1 DEF SafeInv, SessionOK, HostOK
  <2>3. QED
    BY <2>1, <2>2, FlushFailsSafe
<1>5. CASE ReplyOk(h) \/ ReceiptFound(h)
  <2>1. Awaiting(h)
    BY <1>5 DEF ReplyOk, ReceiptFound, Awaiting
  <2>2. PICK r \in wire: Mine(h, r) /\ r.outcome = "ok" /\ FlushConfirms(h, r)
    BY <1>5 DEF ReplyOk, ReceiptFound
  <2>3. QED
    BY <2>1, <2>2, FlushConfirmsSafe
<1>6. CASE ReplyConflict(h)
  BY <1>6, ConflictSafe
<1>7. QED
  BY <1>1, <1>2, <1>3, <1>4, <1>5, <1>6 DEF Flush

LEMMA WaitSafe ==
  ASSUME SafeInv, TypeInv', NEW h \in Hosts, NEW s \in Seqs, Wait(h, s)
  PROVE  SafeInv'
<1>1. Quiet
  BY WaitQuiet
<1>2. SessionOK' /\ RecordOK' /\ WireOK' /\ NeverResubmitted' /\ WaitOK'
  BY <1>1, QuietSafe
<1>3. AckedIsStored'
  <2>1. CASE WaitAcks(h, s)
    <3>1. waiting[h][s] # "none" /\ s <= durable[h] /\ up[h]
      <4>1. durable[h] \in Int /\ s \in Int
        BY BoundsAssumption DEF SafeInv, TypeInv, TypeOK, SessionTypeOK, Seqs
      <4>2. QED
        BY <2>1, <4>1 DEF WaitAcks, SafeInv, SessionOK, HostOK
    <3>2. stored[s] = [host |-> h, boot |-> boot[h]]
      BY <3>1 DEF SafeInv, WaitOK
    <3>3. s \in DOMAIN stored
      <4>1. durable[h] <= record.lastSeq /\ DOMAIN stored = 1..record.lastSeq
        BY <3>1 DEF SafeInv, RecordOK, RowsMatchRecord
      <4>2. /\ record.lastSeq \in Nat /\ durable[h] \in Nat
            /\ s \in Nat /\ s >= 1
        <5>1. record \in Record /\ durable[h] \in 0..MaxEvents
          BY DEF SafeInv, TypeInv, TypeOK, SessionTypeOK, StorageTypeOK
        <5>2. QED
          BY <5>1, BoundsAssumption DEF Record, Seqs
      <4>3. QED
        BY <3>1, <4>1, <4>2
    <3>4. QED
      BY <2>1, <3>2, <3>3 DEF SafeInv, AckedIsStored, WaitAcks, storageVars
  <2>2. CASE ~WaitAcks(h, s)
    BY <2>2 DEF SafeInv, AckedIsStored, Wait, WaitLooks, CallWait, WaitErrs,
                WaitAgain, WaitCancelled, storageVars
  <2>3. QED
    BY <2>1, <2>2
<1>4. QED
  BY <1>2, <1>3 DEF SafeInv

LEMMA NextSafeInv == SafeInv /\ [Next]_vars => SafeInv'
<1> SUFFICES ASSUME SafeInv, [Next]_vars PROVE SafeInv'
  OBVIOUS
<1>1. TypeInv'
  BY NextTypeInv DEF SafeInv
<1>2. CASE UNCHANGED vars
  BY <1>2
  DEF vars, SafeInv, TypeInv, TypeOK, StorageTypeOK, SessionTypeOK, FlushTypeOK,
      WaitTypeOK, CommitOK, SessionOK, HostOK, RecordOK, RowsMatchRecord, WireOK,
      RequestOK, Stored, Awaiting, NeverResubmitted, WaitOK, AckedIsStored
<1>3. ASSUME NEW r \in wire, Process(r) PROVE SafeInv'
  BY <1>1, <1>3, ProcessSafe
<1>4. ASSUME NEW h \in Hosts, Open(h) \/ Crash(h) \/ Flush(h) PROVE SafeInv'
  BY <1>1, <1>4, OpenSafe, CrashSafe, FlushSafe
<1>5. ASSUME NEW h \in Hosts,
             \/ AppendStops(h) \/ ScopeWrite(h)
             \/ CapacityBlocks(h) \/ CapacityReturns(h)
      PROVE  SafeInv'
  <2>1. Quiet /\ UNCHANGED acked
    BY <1>5, LoopQuiet, CommitQuiet, CapacityQuiet
  <2>2. QED
    BY <1>1, <2>1, QuietSafe DEF SafeInv, AckedIsStored, Quiet
<1>6. ASSUME NEW h \in Hosts, NEW urgent \in Urgencies, Append1(h, urgent)
      PROVE  SafeInv'
  BY <1>1, <1>6, AppendSafe, BoundsAssumption
<1>7. ASSUME NEW h \in Hosts, NEW s \in Seqs, Wait(h, s) PROVE SafeInv'
  BY <1>1, <1>7, WaitSafe
<1>8. CASE ForeignWrite
  <2>1. Quiet /\ UNCHANGED acked
    BY <1>8, ForeignQuiet
  <2>2. QED
    BY <1>1, <2>1, QuietSafe DEF SafeInv, AckedIsStored, Quiet
<1>9. QED
  BY <1>2, <1>3, <1>4, <1>5, <1>6, <1>7, <1>8 DEF Next

\* The record and the event rows agree (commitEvents writes both in one batch),
\* whatever hosts, lost replies and late requests do.
THEOREM RecordCorrect == Spec => []RowsMatchRecord
<1>1. Spec => []SafeInv
  BY InitSafeInv, NextSafeInv, PTL DEF Spec
<1>2. SafeInv => RowsMatchRecord
  BY DEF SafeInv, RecordOK
<1>3. QED
  BY <1>1, <1>2, PTL

\* An event that waitDurable reported durable is stored for good, as the event
\* its caller appended.
THEOREM DurabilityCorrect == Spec => []AckedIsStored
<1>1. Spec => []SafeInv
  BY InitSafeInv, NextSafeInv, PTL DEF Spec
<1>2. SafeInv => AckedIsStored
  BY DEF SafeInv
<1>3. QED
  BY <1>1, <1>2, PTL

\* commitEvents never sends a batch again whose first outcome it does not know.
THEOREM ResubmissionCorrect == Spec => []NeverResubmitted
<1>1. Spec => []SafeInv
  BY InitSafeInv, NextSafeInv, PTL DEF Spec
<1>2. SafeInv => NeverResubmitted
  BY DEF SafeInv
<1>3. QED
  BY <1>1, <1>2, PTL

-----------------------------------------------------------------------------
(* The sleep of the flush                                                  *)

\* Somebody waits for the next commit of host h.
Wanted(h) == held[h] = "wait" \/ \E s \in Seqs: waiting[h][s] = "wait"

\* Whoever waits has left something to commit and a request to commit it, which
\* stands until a commit begins; the flush of a failed journal has ended, and
\* a sleeping one that should not sleep has a token.
WakeOK(h) ==
    /\ persistErr[h] => flush[h] = "none"
    /\ \A s \in Seqs: waiting[h][s] # "none" => s <= lastSeq[h]
    /\ Wanted(h) => /\ pending[h] # <<>> /\ ~persistErr[h]
                    /\ flushNow[h] \/ flush[h] \in InCommit
    /\ flush[h] = "sleep" /\ ~wake[h] =>
          ~flushNow[h] /\ \A i \in 1..Len(pending[h]): ~pending[h][i].urgent

WakeInv == \A h \in Hosts: WakeOK(h)

\* What WakeOK reads of a host.
Awakening(h) == <<persistErr[h], flush[h], waiting[h], lastSeq[h], held[h], pending[h],
                  flushNow[h], wake[h]>>

LEMMA WakeFrame ==
  ASSUME WakeInv, NEW h \in Hosts, WakeOK(h)',
         \A k \in Hosts \ {h}: Awakening(k)' = Awakening(k)
  PROVE  WakeInv'
<1> SUFFICES ASSUME NEW k \in Hosts, k # h PROVE WakeOK(k)'
  BY DEF WakeInv
<1>1. /\ persistErr'[k] = persistErr[k] /\ flush'[k] = flush[k] /\ waiting'[k] = waiting[k]
      /\ lastSeq'[k] = lastSeq[k] /\ held'[k] = held[k] /\ pending'[k] = pending[k]
      /\ flushNow'[k] = flushNow[k] /\ wake'[k] = wake[k]
  BY DEF Awakening
<1>2. QED
  BY <1>1 DEF WakeInv, WakeOK, Wanted

LEMMA WakeTypes ==
  ASSUME SafeInv, NEW h \in Hosts
  PROVE  /\ up \in [Hosts -> BOOLEAN] /\ lastSeq \in [Hosts -> 0..MaxEvents]
         /\ durable \in [Hosts -> 0..MaxEvents] /\ pending \in [Hosts -> Seq(PendingEvent)]
         /\ persistErr \in [Hosts -> BOOLEAN] /\ flush \in [Hosts -> FlushState]
         /\ flushNow \in [Hosts -> BOOLEAN] /\ wake \in [Hosts -> BOOLEAN]
         /\ waiting \in [Hosts -> [Seqs -> Waiter]] /\ held \in [Hosts -> Waiter]
         /\ HostOK(h) /\ MaxEvents \in Nat
         /\ durable[h] \in Nat /\ lastSeq[h] \in Nat
  BY BoundsAssumption
  DEF SafeInv, TypeInv, TypeOK, SessionTypeOK, FlushTypeOK, WaitTypeOK, SessionOK

\* Steps that leave the flush, the events and the waiting callers of every host.
LEMMA WakeQuiet ==
  ASSUME WakeInv,
         UNCHANGED <<persistErr, flush, waiting, lastSeq, held, pending, flushNow, wake>>
  PROVE  WakeInv'
  BY DEF WakeInv, WakeOK, Wanted

LEMMA OpenWake ==
  ASSUME SafeInv, WakeInv, NEW h \in Hosts, Open(h) PROVE WakeInv'
<1>1. WakeOK(h)'
  <2>1. /\ ~up[h] /\ HostOK(h)
        /\ lastSeq' = [lastSeq EXCEPT ![h] = record.lastSeq]
        /\ UNCHANGED <<persistErr, flush, waiting, held, pending, flushNow, wake>>
    BY WakeTypes DEF Open
  <2>2. \A s \in Seqs: waiting[h][s] = "none"
    BY <2>1 DEF HostOK
  <2>3. QED
    BY <2>1, <2>2 DEF WakeInv, WakeOK, Wanted
<1>2. \A k \in Hosts \ {h}: Awakening(k)' = Awakening(k)
  BY WakeTypes DEF Open, Awakening
<1>3. QED
  BY <1>1, <1>2, WakeFrame

LEMMA CrashWake ==
  ASSUME SafeInv, WakeInv, NEW h \in Hosts, Crash(h) PROVE WakeInv'
<1>1. WakeOK(h)'
  <2>1. /\ persistErr'[h] = FALSE /\ flush'[h] = "none" /\ held'[h] = "none"
        /\ \A s \in Seqs: waiting'[h][s] = "none"
    BY WakeTypes DEF Crash
  <2>2. QED
    BY <2>1 DEF WakeOK, Wanted
<1>2. \A k \in Hosts \ {h}: Awakening(k)' = Awakening(k)
  BY WakeTypes DEF Crash, Awakening
<1>3. QED
  BY <1>1, <1>2, WakeFrame

\* scheduleLocked leaves a request and, in the wake channel, a token.
LEMMA ScheduleWake ==
  ASSUME SafeInv, NEW h \in Hosts, NEW events, NEW urgent \in BOOLEAN,
         Schedule(h, events, urgent)
  PROVE  /\ \A k \in Hosts \ {h}: /\ flush'[k] = flush[k] /\ flushNow'[k] = flushNow[k]
                                  /\ wake'[k] = wake[k]
         /\ persistErr[h] => flush'[h] = flush[h]
         /\ flush[h] \in InCommit => flush'[h] = flush[h]
         /\ flush'[h] = "sleep" => flush[h] = "sleep"
         /\ flushNow[h] => flushNow'[h]
         /\ wake[h] => wake'[h]
         /\ flushNow'[h] => flushNow[h] \/ urgent
         /\ ~persistErr[h] /\ events # <<>> /\ urgent =>
              flushNow'[h] /\ (flush[h] # "none" => wake'[h])
<1>0. /\ flush \in [Hosts -> FlushState] /\ flushNow \in [Hosts -> BOOLEAN]
      /\ wake \in [Hosts -> BOOLEAN] /\ persistErr \in [Hosts -> BOOLEAN]
  BY WakeTypes
<1>1. CASE persistErr[h] \/ events = <<>>
  <2>1. UNCHANGED <<flush, flushNow, wake>>
    BY <1>1, Zenon DEF Schedule
  <2>2. QED
    BY <1>1, <2>1
<1>2. CASE ~(persistErr[h] \/ events = <<>>)
  <2>1. /\ flushNow' = [flushNow EXCEPT ![h] = @ \/ urgent]
        /\ wake' = [wake EXCEPT ![h] = @ \/ (urgent /\ flush[h] # "none")]
        /\ flush' = [flush EXCEPT ![h] = IF @ = "none" THEN "loop" ELSE @]
    BY <1>2, Zenon DEF Schedule
  <2>2. /\ flushNow'[h] = (flushNow[h] \/ urgent)
        /\ wake'[h] = (wake[h] \/ (urgent /\ flush[h] # "none"))
        /\ \A k \in Hosts \ {h}: flushNow'[k] = flushNow[k] /\ wake'[k] = wake[k]
    BY <1>0, <2>1, Zenon
  <2>3. /\ flush'[h] = IF flush[h] = "none" THEN "loop" ELSE flush[h]
        /\ \A k \in Hosts \ {h}: flush'[k] = flush[k]
    BY <1>0, <2>1
  <2>4. QED
    BY <1>2, <2>2, <2>3 DEF InCommit
<1>3. QED
  BY <1>1, <1>2

LEMMA AppendWake ==
  ASSUME SafeInv, WakeInv, NEW h \in Hosts, NEW urgent \in BOOLEAN, Append1(h, urgent)
  PROVE  WakeInv'
<1> DEFINE e == [seq |-> lastSeq[h] + 1, urgent |-> urgent]
<1>1. /\ lastSeq' = [lastSeq EXCEPT ![h] = @ + 1]
      /\ pending' = [pending EXCEPT ![h] = Append(@, e)]
      /\ Schedule(h, pending'[h], urgent)
      /\ UNCHANGED <<persistErr, waiting, held>>
  BY DEF Append1
<1>2. e \in PendingEvent /\ e.urgent = urgent
  BY BoundsAssumption, WakeTypes DEF Append1, Fits, Seqs, PendingEvent
<1> HIDE DEF e
<1>3. /\ pending[h] \in Seq(PendingEvent) /\ pending'[h] = Append(pending[h], e)
      /\ lastSeq'[h] = lastSeq[h] + 1 /\ lastSeq[h] \in Nat
      /\ \A k \in Hosts \ {h}: pending'[k] = pending[k] /\ lastSeq'[k] = lastSeq[k]
  BY <1>1, WakeTypes
<1>4. /\ pending'[h] # <<>> /\ Len(pending'[h]) = Len(pending[h]) + 1 /\ Len(pending[h]) \in Nat
      /\ \A i \in 1..Len(pending[h]): pending'[h][i] = pending[h][i]
      /\ pending'[h][Len(pending[h]) + 1] = e
  BY <1>2, <1>3
<1>5. /\ \A k \in Hosts \ {h}: /\ flush'[k] = flush[k] /\ flushNow'[k] = flushNow[k]
                               /\ wake'[k] = wake[k]
      /\ persistErr[h] => flush'[h] = flush[h]
      /\ flush[h] \in InCommit => flush'[h] = flush[h]
      /\ flush'[h] = "sleep" => flush[h] = "sleep"
      /\ flushNow[h] => flushNow'[h]
      /\ wake[h] => wake'[h]
      /\ flushNow'[h] => flushNow[h] \/ urgent
      /\ ~persistErr[h] /\ urgent => flushNow'[h] /\ (flush[h] # "none" => wake'[h])
  BY <1>1, <1>4, ScheduleWake
<1>6. WakeOK(h)
  BY DEF WakeInv
<1>7. WakeOK(h)'
  <2>1. persistErr'[h] => flush'[h] = "none"
    BY <1>1, <1>5, <1>6 DEF WakeOK
  <2>2. ASSUME NEW s \in Seqs, waiting'[h][s] # "none" PROVE s <= lastSeq'[h]
    <3>1. s <= lastSeq[h] /\ s \in Int
      BY <1>1, <1>6, <2>2, BoundsAssumption DEF WakeOK, Seqs
    <3>2. QED
      BY <1>3, <3>1
  <2>3. Wanted(h)' => /\ pending'[h] # <<>> /\ ~persistErr'[h]
                      /\ flushNow'[h] \/ flush'[h] \in InCommit
    BY <1>1, <1>4, <1>5, <1>6 DEF WakeOK, Wanted
  <2>4. ASSUME flush'[h] = "sleep", ~wake'[h]
        PROVE  ~flushNow'[h] /\ \A i \in 1..Len(pending'[h]): ~pending'[h][i].urgent
    <3>1. flush[h] = "sleep" /\ ~wake[h] /\ ~persistErr[h] /\ ~urgent
      BY <1>5, <1>6, <2>4 DEF WakeOK
    <3>2. ~flushNow[h] /\ \A i \in 1..Len(pending[h]): ~pending[h][i].urgent
      BY <1>6, <3>1 DEF WakeOK
    <3>3. QED
      BY <1>2, <1>4, <1>5, <3>1, <3>2
  <2>5. QED
    BY <2>1, <2>2, <2>3, <2>4 DEF WakeOK
<1>8. \A k \in Hosts \ {h}: Awakening(k)' = Awakening(k)
  BY <1>1, <1>3, <1>5 DEF Awakening
<1>9. QED
  BY <1>7, <1>8, WakeFrame

LEMMA FlushLoopWake ==
  ASSUME SafeInv, WakeInv, NEW h \in Hosts,
         FlushEnds(h) \/ FlushSleeps(h) \/ FlushWakes(h) \/ FlushTakes(h)
  PROVE  WakeInv'
<1> USE WakeTypes
<1>1. WakeOK(h)
  BY DEF WakeInv
<1>2. UNCHANGED <<persistErr, waiting, lastSeq, held, pending>>
  BY DEF FlushEnds, FlushSleeps, FlushWakes, FlushTakes, sessionVars
<1>3. CASE FlushEnds(h)
  <2>1. /\ flush'[h] = "none" /\ UNCHANGED wake
        /\ pending[h] = <<>> \/ persistErr[h]
    BY <1>3 DEF FlushEnds
  <2>2. \A k \in Hosts \ {h}: Awakening(k)' = Awakening(k)
    BY <1>2, <1>3 DEF FlushEnds, Awakening
  <2>3. WakeOK(h)'
    BY <1>1, <1>2, <2>1 DEF WakeOK, Wanted
  <2>4. QED
    BY <2>2, <2>3, WakeFrame
<1>4. CASE FlushSleeps(h)
  <2>1. /\ flush'[h] = "sleep" /\ flush[h] = "loop" /\ UNCHANGED <<wake, flushNow>> /\ ~persistErr[h]
        /\ ~flushNow[h] /\ \A i \in 1..Len(pending[h]): ~pending[h][i].urgent
    BY <1>4 DEF FlushSleeps, Due
  <2>2. \A k \in Hosts \ {h}: Awakening(k)' = Awakening(k)
    BY <1>2, <1>4 DEF FlushSleeps, Awakening
  <2>3. ~Wanted(h)
    BY <1>1, <2>1 DEF WakeOK, InCommit
  <2>4. WakeOK(h)'
    BY <1>1, <1>2, <2>1, <2>3 DEF WakeOK, Wanted
  <2>5. QED
    BY <2>2, <2>4, WakeFrame
<1>5. CASE FlushWakes(h)
  <2>1. /\ flush[h] = "sleep" /\ flush'[h] \in {"loop", "expired"} /\ UNCHANGED flushNow
    BY <1>5 DEF FlushWakes
  <2>2. \A k \in Hosts \ {h}: flush'[k] = flush[k] /\ wake'[k] = wake[k]
    BY <1>5 DEF FlushWakes
  <2>3. \A k \in Hosts \ {h}: Awakening(k)' = Awakening(k)
    BY <1>2, <2>1, <2>2 DEF Awakening
  <2>4. WakeOK(h)'
    BY <1>1, <1>2, <2>1 DEF WakeOK, Wanted, InCommit
  <2>5. QED
    BY <2>3, <2>4, WakeFrame
<1>6. CASE FlushTakes(h)
  <2>1. /\ flush'[h] = "begin" /\ UNCHANGED wake /\ ~persistErr[h]
    BY <1>6 DEF FlushTakes
  <2>2. \A k \in Hosts \ {h}: Awakening(k)' = Awakening(k)
    BY <1>2, <1>6 DEF FlushTakes, Awakening
  <2>3. WakeOK(h)'
    BY <1>1, <1>2, <2>1 DEF WakeOK, Wanted, InCommit
  <2>4. QED
    BY <2>2, <2>3, WakeFrame
<1>7. QED
  BY <1>3, <1>4, <1>5, <1>6

\* Inside commitEvents only the place of the flush changes.
LEMMA CommitWake ==
  ASSUME SafeInv, WakeInv, NEW h \in Hosts, flush[h] \in InCommit,
         NEW pc \in InCommit, flush' = [flush EXCEPT ![h] = pc],
         UNCHANGED <<persistErr, waiting, lastSeq, held, pending, flushNow, wake>>
  PROVE  WakeInv'
<1> USE WakeTypes
<1>1. WakeOK(h) /\ flush'[h] = pc /\ \A k \in Hosts \ {h}: flush'[k] = flush[k]
  BY DEF WakeInv
<1>2. ~persistErr[h]
  BY <1>1 DEF WakeOK, InCommit
<1>3. WakeOK(h)'
  BY <1>1, <1>2 DEF WakeOK, Wanted, InCommit
<1>4. \A k \in Hosts \ {h}: Awakening(k)' = Awakening(k)
  BY <1>1 DEF Awakening
<1>5. QED
  BY <1>3, <1>4, WakeFrame

\* The end of a commit wakes everybody who waits.
LEMMA WakeWaitersWake ==
  ASSUME SafeInv, NEW h \in Hosts, WakeWaiters(h)
  PROVE  /\ ~Wanted(h)'
         /\ \A s \in Seqs: waiting'[h][s] # "none" => waiting[h][s] # "none"
         /\ \A k \in Hosts \ {h}: waiting'[k] = waiting[k] /\ held'[k] = held[k]
<1> USE WakeTypes
<1>1. \A s \in Seqs: waiting'[h][s] = IF waiting[h][s] = "wait" THEN "check" ELSE waiting[h][s]
  BY DEF WakeWaiters
<1>2. held'[h] # "wait"
  BY DEF WakeWaiters
<1>3. \A k \in Hosts \ {h}: waiting'[k] = waiting[k] /\ held'[k] = held[k]
  BY DEF WakeWaiters
<1>4. QED
  BY <1>1, <1>2, <1>3 DEF Wanted

LEMMA FlushFailsWake ==
  ASSUME SafeInv, WakeInv, NEW h \in Hosts, FlushFails(h) PROVE WakeInv'
<1> USE WakeTypes
<1>1. /\ flush'[h] = "none" /\ UNCHANGED <<lastSeq, pending, flushNow, wake>> /\ WakeWaiters(h)
  BY DEF FlushFails, sessionVars
<1>2. /\ ~Wanted(h)'
      /\ \A s \in Seqs: waiting'[h][s] # "none" => waiting[h][s] # "none"
      /\ \A k \in Hosts \ {h}: waiting'[k] = waiting[k] /\ held'[k] = held[k]
  BY <1>1, WakeWaitersWake
<1>3. WakeOK(h)'
  BY <1>1, <1>2 DEF WakeInv, WakeOK
<1>4. \A k \in Hosts \ {h}: Awakening(k)' = Awakening(k)
  BY <1>1, <1>2 DEF FlushFails, Awakening
<1>5. QED
  BY <1>3, <1>4, WakeFrame

LEMMA FlushConfirmsWake ==
  ASSUME SafeInv, WakeInv, NEW h \in Hosts, NEW r, flush[h] \in InCommit, FlushConfirms(h, r)
  PROVE  WakeInv'
<1> USE WakeTypes
<1>1. /\ flush'[h] = "loop" /\ UNCHANGED <<lastSeq, persistErr, flushNow, wake>> /\ WakeWaiters(h)
      /\ \A k \in Hosts \ {h}: flush'[k] = flush[k] /\ pending'[k] = pending[k]
  BY DEF FlushConfirms
<1>2. /\ ~Wanted(h)'
      /\ \A s \in Seqs: waiting'[h][s] # "none" => waiting[h][s] # "none"
      /\ \A k \in Hosts \ {h}: waiting'[k] = waiting[k] /\ held'[k] = held[k]
  BY <1>1, WakeWaitersWake
<1>3. WakeOK(h)'
  BY <1>1, <1>2 DEF WakeInv, WakeOK, InCommit
<1>4. \A k \in Hosts \ {h}: Awakening(k)' = Awakening(k)
  BY <1>1, <1>2 DEF Awakening
<1>5. QED
  BY <1>3, <1>4, WakeFrame

LEMMA FlushWake ==
  ASSUME SafeInv, WakeInv, NEW h \in Hosts, Flush(h) PROVE WakeInv'
<1>1. CASE FlushEnds(h) \/ FlushSleeps(h) \/ FlushWakes(h) \/ FlushTakes(h)
  BY <1>1, FlushLoopWake
<1>2. CASE BeginFails(h) \/ RecheckFails(h) \/ ReplyRefused(h) \/ ReceiptAbsent(h)
  BY <1>2, FlushFailsWake DEF BeginFails, RecheckFails, ReplyRefused, ReceiptAbsent
<1>3. CASE ReplyOk(h) \/ ReceiptFound(h)
  BY <1>3, FlushConfirmsWake DEF ReplyOk, ReceiptFound, InCommit
<1>4. CASE ReadToken(h)
  BY <1>4, WakeQuiet DEF ReadToken, sessionVars
<1>5. CASE Send(h)
  BY <1>5, CommitWake DEF Send, sessionVars, InCommit
<1>6. CASE Recheck(h)
  BY <1>6, CommitWake DEF Recheck, sessionVars, InCommit
<1>7. CASE ReplyUnknown(h)
  BY <1>7, CommitWake DEF ReplyUnknown, sessionVars, InCommit
<1>8. CASE ReplyConflict(h)
  BY <1>8, CommitWake, FlushFailsWake DEF ReplyConflict, sessionVars, InCommit
<1>9. QED
  BY <1>1, <1>2, <1>3, <1>4, <1>5, <1>6, <1>7, <1>8 DEF Flush

\* A caller asks for a flush and waits for it.
LEMMA BlocksWake ==
  ASSUME SafeInv, WakeInv, NEW h \in Hosts, ~persistErr[h], pending[h] # <<>>,
         Schedule(h, pending[h], TRUE),
         \A k \in Hosts \ {h}: waiting'[k] = waiting[k] /\ held'[k] = held[k],
         \A s \in Seqs: waiting'[h][s] # "none" => s <= lastSeq[h],
         UNCHANGED <<persistErr, lastSeq, pending>>
  PROVE  WakeInv'
<1>1. /\ \A k \in Hosts \ {h}: /\ flush'[k] = flush[k] /\ flushNow'[k] = flushNow[k]
                               /\ wake'[k] = wake[k]
      /\ flush'[h] = "sleep" => flush[h] = "sleep"
      /\ flushNow'[h] /\ (flush[h] # "none" => wake'[h])
  BY ScheduleWake
<1>2. WakeOK(h)'
  BY <1>1 DEF WakeOK
<1>3. \A k \in Hosts \ {h}: Awakening(k)' = Awakening(k)
  BY <1>1 DEF Awakening
<1>4. QED
  BY <1>2, <1>3, WakeFrame

LEMMA WaitWake ==
  ASSUME SafeInv, WakeInv, NEW h \in Hosts, NEW s \in Seqs, Wait(h, s) PROVE WakeInv'
<1> USE WakeTypes
<1>1. HostOK(h) /\ WakeOK(h) /\ s \in Nat /\ durable[h] \in Nat
  BY BoundsAssumption DEF WakeInv, Seqs
<1>2. CASE CallWait(h, s) \/ WaitAgain(h, s)
  <2>1. /\ ~persistErr[h] /\ waiting' = [waiting EXCEPT ![h][s] = "wait"] /\ UNCHANGED held
        /\ Schedule(h, pending[h], TRUE) /\ UNCHANGED <<persistErr, lastSeq, pending>>
    BY <1>2 DEF CallWait, WaitAgain, sessionVars
  <2>2. s <= lastSeq[h] /\ pending[h] # <<>>
    <3>1. lastSeq[h] = durable[h] + Len(pending[h]) /\ Len(pending[h]) \in Nat
      BY <1>1 DEF HostOK
    <3>2. CASE CallWait(h, s)
      <4>1. PICK i \in 1..Len(pending[h]): pending[h][i].seq = s
        BY <3>2 DEF CallWait
      <4>2. s = durable[h] + i
        BY <1>1, <4>1 DEF HostOK
      <4>3. s <= lastSeq[h] /\ Len(pending[h]) > 0
        BY <1>1, <3>1, <4>2
      <4>4. QED
        BY <4>3
    <3>3. CASE WaitAgain(h, s)
      <4>1. durable[h] < s /\ s <= lastSeq[h]
        BY <1>1, <3>3 DEF WaitAgain, WakeOK
      <4>2. Len(pending[h]) > 0
        BY <1>1, <3>1, <4>1
      <4>3. QED
        BY <4>1, <4>2
    <3>4. QED
      BY <1>2, <3>2, <3>3
  <2>3. \A q \in Seqs: waiting'[h][q] # "none" => q = s \/ waiting[h][q] # "none"
    BY <2>1
  <2>4. \A k \in Hosts \ {h}: waiting'[k] = waiting[k]
    BY <2>1
  <2>5. \A q \in Seqs: waiting'[h][q] # "none" => q <= lastSeq[h]
    BY <1>1, <2>2, <2>3 DEF WakeOK
  <2>6. QED
    BY <2>1, <2>2, <2>4, <2>5, BlocksWake
<1>3. CASE WaitAcks(h, s) \/ WaitErrs(h, s) \/ WaitCancelled(h, s)
  <2>1. /\ waiting' = [waiting EXCEPT ![h][s] = "none"]
        /\ UNCHANGED <<persistErr, flush, lastSeq, held, pending, flushNow, wake>>
    BY <1>3 DEF WaitAcks, WaitErrs, WaitCancelled, sessionVars
  <2>2. /\ \A q \in Seqs: waiting'[h][q] = "none" \/ waiting'[h][q] = waiting[h][q]
        /\ \A k \in Hosts \ {h}: waiting'[k] = waiting[k]
    BY <2>1
  <2>3. WakeOK(h)'
    BY <1>1, <2>1, <2>2 DEF WakeOK, Wanted
  <2>4. \A k \in Hosts \ {h}: Awakening(k)' = Awakening(k)
    BY <2>1, <2>2 DEF Awakening
  <2>5. QED
    BY <2>3, <2>4, WakeFrame
<1>4. QED
  BY <1>2, <1>3 DEF Wait, WaitLooks

LEMMA CapacityWake ==
  ASSUME SafeInv, WakeInv, NEW h \in Hosts, CapacityBlocks(h) \/ CapacityReturns(h)
  PROVE  WakeInv'
<1> USE WakeTypes
<1>1. WakeOK(h)
  BY DEF WakeInv
<1>2. CASE CapacityBlocks(h)
  <2>1. /\ ~persistErr[h] /\ Len(pending[h]) >= MaxPendingEvents
        /\ held' = [held EXCEPT ![h] = "wait"] /\ UNCHANGED waiting
        /\ Schedule(h, pending[h], TRUE) /\ UNCHANGED <<persistErr, lastSeq, pending>>
    BY <1>2 DEF CapacityBlocks, Crowded, sessionVars
  <2>2. pending[h] # <<>>
    BY <2>1, BoundsAssumption
  <2>3. \A k \in Hosts \ {h}: held'[k] = held[k]
    BY <2>1
  <2>4. \A s \in Seqs: waiting'[h][s] # "none" => s <= lastSeq[h]
    BY <1>1, <2>1 DEF WakeOK
  <2>5. QED
    BY <2>1, <2>2, <2>3, <2>4, BlocksWake
<1>3. CASE CapacityReturns(h)
  <2>1. /\ held' = [held EXCEPT ![h] = "none"]
        /\ UNCHANGED <<persistErr, flush, waiting, lastSeq, pending, flushNow, wake>>
    BY <1>3 DEF CapacityReturns, sessionVars
  <2>2. held'[h] = "none" /\ \A k \in Hosts \ {h}: held'[k] = held[k]
    BY <2>1
  <2>3. WakeOK(h)'
    BY <1>1, <2>1, <2>2 DEF WakeOK, Wanted
  <2>4. \A k \in Hosts \ {h}: Awakening(k)' = Awakening(k)
    BY <2>1, <2>2 DEF Awakening
  <2>5. QED
    BY <2>3, <2>4, WakeFrame
<1>4. QED
  BY <1>2, <1>3

LEMMA NextWakeInv == SafeInv /\ WakeInv /\ [Next]_vars => WakeInv'
<1> SUFFICES ASSUME SafeInv, WakeInv, [Next]_vars PROVE WakeInv'
  OBVIOUS
<1>1. CASE UNCHANGED vars
  BY <1>1, WakeQuiet DEF vars
<1>2. ASSUME NEW r \in wire, Process(r) PROVE WakeInv'
  BY <1>2, WakeQuiet DEF Process, sessionVars
<1>3. ASSUME NEW h \in Hosts, AppendStops(h) \/ ScopeWrite(h) PROVE WakeInv'
  BY <1>3, WakeQuiet DEF AppendStops, ScopeWrite, sessionVars
<1>4. ASSUME NEW h \in Hosts, NEW urgent \in Urgencies, Append1(h, urgent) PROVE WakeInv'
  BY <1>4, AppendWake, BoundsAssumption
<1>5. CASE ForeignWrite
  BY <1>5, WakeQuiet DEF ForeignWrite, sessionVars
<1>6. QED
  BY <1>1, <1>2, <1>3, <1>4, <1>5, OpenWake, CrashWake, FlushWake, WaitWake, CapacityWake DEF Next

\* scheduleLocked never leaves urgent work to the journal delay: whenever the
\* flush sleeps without a token in its wake channel, no urgent event, request
\* or blocked caller waits for it.
THEOREM WakeCorrect == Spec => []UrgentIsWoken
<1>1. Init => WakeInv
  BY DEF Init, WakeInv, WakeOK, Wanted
<1>2. Spec => [](SafeInv /\ WakeInv)
  BY <1>1, InitSafeInv, NextSafeInv, NextWakeInv, PTL DEF Spec
<1>3. WakeInv => UrgentIsWoken
  BY DEF WakeInv, WakeOK, Wanted, UrgentIsWoken, InCommit
<1>4. QED
  BY <1>2, <1>3, PTL

---------------------------------------------------------------------------
\* The journal, with its hosts, crashes and lost replies, implements the
\* append-only log of the DurableLog module.

\* What the stored record covers.
TheLog == [s \in 1..record.lastSeq |-> stored[s]]

LEMMA LogIsSequence ==
  ASSUME SafeInv
  PROVE  TheLog \in Seq(Event) /\ Len(TheLog) = record.lastSeq
<1>1. record.lastSeq \in Nat /\ \A s \in 1..record.lastSeq: stored[s] \in Event
  BY BoundsAssumption
  DEF SafeInv, TypeInv, TypeOK, StorageTypeOK, Record, RecordOK, RowsMatchRecord
<1>2. QED
  BY <1>1 DEF TheLog

LEMMA InitLog == Init => Log!Init
  BY DEF Init, Log!Init

\* A batch that storage accepts is one commit of the log.
LEMMA ProcessCommits ==
  ASSUME SafeInv, SafeInv', NEW r \in wire, Process(r), Accepts(r)
  PROVE  Log!Commit
<1> DEFINE n == r.last - r.first + 1
           e == [host |-> r.host, boot |-> r.boot]
<1>1. /\ RequestOK(r) /\ r.outcome = "none" /\ e \in Event
      /\ r.first \in Nat /\ r.last \in Nat /\ r.last <= MaxEvents
      /\ record.lastSeq \in Nat
  BY BoundsAssumption
  DEF SafeInv, TypeInv, TypeOK, WireOK, StorageTypeOK, Request, Record, Seqs,
      Process, Event
<1>2. /\ r.first = record.lastSeq + 1 /\ r.first <= r.last
      /\ n \in 1..MaxBatchEvents /\ record.lastSeq + n = r.last
  BY <1>1, BoundsAssumption DEF Accepts, RequestOK
<1>3. record'.lastSeq = r.last /\ stored' = Written(r) /\ UNCHANGED acked
  BY DEF Process
<1>4. DOMAIN stored = 1..record.lastSeq
  BY DEF SafeInv, RecordOK, RowsMatchRecord
<1>5. \A s \in 1..r.last:
         stored'[s] = IF s <= record.lastSeq THEN stored[s] ELSE e
  <2> SUFFICES ASSUME NEW s \in 1..r.last
               PROVE  stored'[s] = IF s <= record.lastSeq THEN stored[s] ELSE e
    OBVIOUS
  <2>1. s \in r.first..r.last <=> ~(s <= record.lastSeq)
    BY <1>1, <1>2
  <2>2. s \in DOMAIN stored \cup (r.first..r.last)
    BY <1>1, <1>4, <2>1
  <2>3. stored'[s] = IF s \in r.first..r.last THEN e ELSE stored[s]
    BY <1>3, <2>2 DEF Written
  <2>4. QED
    BY <2>1, <2>3
<1>6. TheLog \in Seq(Event) /\ Len(TheLog) = record.lastSeq
  BY LogIsSequence
<1>7. /\ TheLog' = [s \in 1..r.last |-> stored'[s]]
      /\ \A s \in 1..r.last: stored'[s] \in Event
  <2>1. TheLog' = [s \in 1..r.last |-> stored'[s]]
    BY <1>3 DEF TheLog
  <2>2. \A s \in 1..record.lastSeq: stored[s] \in Event
    BY <1>4 DEF SafeInv, TypeInv, TypeOK, StorageTypeOK
  <2>3. QED
    BY <1>1, <1>5, <2>1, <2>2
<1>8. TheLog' \in Seq(Event) /\ Len(TheLog') = r.last
  BY <1>1, <1>7
<1>9. TheLog'[r.last] = e
  <2>1. r.last \in 1..r.last /\ ~(r.last <= record.lastSeq)
    BY <1>1, <1>2
  <2>2. stored'[r.last] = e
    BY <1>5, <2>1
  <2>3. QED
    BY <1>7, <2>1, <2>2
<1>10. TheLog' = TheLog \o [i \in 1..n |-> e]
  <2> DEFINE b == [i \in 1..n |-> e]
  <2>1. n \in Nat
    BY <1>2, BoundsAssumption
  <2>2. b \in Seq(Event) /\ Len(b) = n /\ \A i \in 1..n: b[i] = e
    <3> HIDE DEF n, e
    <3>1. QED
      BY <1>1, <2>1
  <2> HIDE DEF b
  <2>3. /\ TheLog \o b \in Seq(Event) /\ Len(TheLog \o b) = r.last
        /\ \A s \in 1..r.last: (TheLog \o b)[s] =
              IF s <= record.lastSeq THEN TheLog[s] ELSE b[s - record.lastSeq]
    <3>1. /\ TheLog \o b \in Seq(Event)
          /\ Len(TheLog \o b) = Len(TheLog) + Len(b)
          /\ \A s \in 1..Len(TheLog) + Len(b): (TheLog \o b)[s] =
                IF s <= Len(TheLog) THEN TheLog[s] ELSE b[s - Len(TheLog)]
      BY <1>6, <2>2, ConcatProperties
    <3>2. Len(TheLog) = record.lastSeq /\ Len(TheLog) + Len(b) = r.last
      BY <1>2, <1>6, <2>2
    <3>3. QED
      BY <3>1, <3>2
  <2>4. ASSUME NEW s \in 1..r.last PROVE TheLog'[s] = (TheLog \o b)[s]
    <3>1. TheLog'[s] = IF s <= record.lastSeq THEN stored[s] ELSE e
      BY <1>5, <1>7
    <3>2. CASE s <= record.lastSeq
      BY <1>1, <2>3, <3>1, <3>2 DEF TheLog
    <3>3. CASE ~(s <= record.lastSeq)
      <4>1. s - record.lastSeq \in 1..n
        BY <1>1, <1>2, <3>3
      <4>2. (TheLog \o b)[s] = b[s - record.lastSeq]
        BY <2>3, <3>3
      <4>3. QED
        BY <2>2, <3>1, <3>3, <4>1, <4>2
    <3>4. QED
      BY <3>2, <3>3
  <2>5. TheLog' = TheLog \o b
    BY <1>8, <2>3, <2>4, SeqEqual
  <2>6. QED
    BY <2>5 DEF b
<1>11. \E m \in 1..MaxBatchEvents:
         /\ Len(TheLog) + m <= MaxEvents
         /\ Len(TheLog') = Len(TheLog) + m
         /\ TheLog'[Len(TheLog')] \in Event
         /\ TheLog' = TheLog \o [i \in 1..m |-> TheLog'[Len(TheLog')]]
         /\ UNCHANGED acked
  <2>1. Len(TheLog) + n <= MaxEvents /\ Len(TheLog') = Len(TheLog) + n
    BY <1>1, <1>2, <1>6, <1>8
  <2>2. TheLog'[Len(TheLog')] = e
    BY <1>8, <1>9
  <2>3. n \in 1..MaxBatchEvents
    BY <1>2
  <2> HIDE DEF TheLog, n, e
  <2>4. QED
    BY <1>1, <1>3, <1>10, <2>1, <2>2, <2>3
<1>12. QED
  BY <1>11 DEF Log!Commit, TheLog, Event, Log!Event

\* A caller that is told of an event is told of one in the log.
LEMMA WaitAcksLog ==
  ASSUME SafeInv, NEW h \in Hosts, NEW s \in Seqs, WaitAcks(h, s)
  PROVE  Log!Ack
<1>1. /\ s \in Nat /\ s >= 1 /\ durable[h] \in Nat /\ record.lastSeq \in Nat
      /\ waiting[h][s] # "none" /\ s <= durable[h]
  BY BoundsAssumption
  DEF SafeInv, TypeInv, TypeOK, SessionTypeOK, StorageTypeOK, Record, Seqs,
      WaitAcks
<1>2. stored[s] = [host |-> h, boot |-> boot[h]] /\ up[h]
  BY <1>1 DEF SafeInv, WaitOK, SessionOK, HostOK
<1>3. s \in 1..record.lastSeq
  BY <1>1, <1>2 DEF SafeInv, RecordOK
<1>4. s \in 1..Len(TheLog) /\ TheLog[s] = [host |-> h, boot |-> boot[h]]
  BY <1>2, <1>3, LogIsSequence DEF TheLog
<1>5. UNCHANGED TheLog
  BY DEF TheLog, WaitAcks, storageVars
<1>6. acked' = acked \cup {[seq |-> s, event |-> TheLog[s]]}
  BY <1>4 DEF WaitAcks
<1>7. QED
  BY <1>4, <1>5, <1>6 DEF Log!Ack, TheLog

LEMMA FlushStutters ==
  ASSUME NEW h \in Hosts, Flush(h)
  PROVE  UNCHANGED <<record, stored, acked>>
  BY DEF Flush, FlushEnds, FlushSleeps, FlushWakes, FlushTakes, ReadToken, Send,
         BeginFails, ReplyOk, ReplyRefused, ReplyConflict, ReplyUnknown, Recheck,
         RecheckFails, ReceiptFound, ReceiptAbsent, FlushFails, FlushConfirms,
         storageVars

LEMMA HostStutters ==
  ASSUME NEW h \in Hosts,
         \/ Open(h) \/ Crash(h) \/ AppendStops(h) \/ ScopeWrite(h)
         \/ CapacityBlocks(h) \/ CapacityReturns(h)
         \/ \E urgent \in Urgencies: Append1(h, urgent)
         \/ \E s \in Seqs: Wait(h, s) /\ ~WaitAcks(h, s)
  PROVE  UNCHANGED <<record, stored, acked>>
  BY DEF Open, Crash, AppendStops, ScopeWrite, CapacityBlocks, CapacityReturns,
         Append1, Wait, WaitLooks, CallWait, WaitErrs, WaitAgain, WaitCancelled,
         storageVars

LEMMA NextLog ==
  ASSUME SafeInv, SafeInv', [Next]_vars
  PROVE  [Log!Next]_<<TheLog, acked>>
<1>1. ASSUME UNCHANGED <<record, stored, acked>>
      PROVE  UNCHANGED <<TheLog, acked>>
  BY <1>1 DEF TheLog
<1>2. CASE UNCHANGED vars
  BY <1>1, <1>2 DEF vars
<1>3. ASSUME NEW r \in wire, Process(r) PROVE Log!Next \/ UNCHANGED <<TheLog, acked>>
  <2>1. CASE Accepts(r)
    BY <1>3, <2>1, ProcessCommits DEF Log!Next
  <2>2. CASE ~Accepts(r)
    BY <1>1, <1>3, <2>2 DEF Process
  <2>3. QED
    BY <2>1, <2>2
<1>4. ASSUME NEW h \in Hosts, NEW s \in Seqs, WaitAcks(h, s) PROVE Log!Next
  BY <1>4, WaitAcksLog DEF Log!Next
<1>5. ASSUME NEW h \in Hosts, Flush(h) PROVE UNCHANGED <<TheLog, acked>>
  BY <1>1, <1>5, FlushStutters
<1>6. ASSUME NEW h \in Hosts,
             \/ Open(h) \/ Crash(h) \/ AppendStops(h) \/ ScopeWrite(h)
             \/ CapacityBlocks(h) \/ CapacityReturns(h)
             \/ \E urgent \in Urgencies: Append1(h, urgent)
             \/ \E s \in Seqs: Wait(h, s) /\ ~WaitAcks(h, s)
      PROVE  UNCHANGED <<TheLog, acked>>
  BY <1>1, <1>6, HostStutters
<1>7. CASE ForeignWrite
  BY <1>1, <1>7 DEF ForeignWrite
<1>8. QED
  BY <1>2, <1>3, <1>4, <1>5, <1>6, <1>7 DEF Next

\* The journal implements the append-only log: every behaviour of hosts and
\* storage is, seen through the stored record and what callers were told, a
\* behaviour of DurableLog.
THEOREM Refinement == Spec => ImplementsLog
<1>1. Spec => []SafeInv
  BY InitSafeInv, NextSafeInv, PTL DEF Spec
<1>2. Init => Log!Init
  BY InitLog
<1>3. SafeInv /\ SafeInv' /\ [Next]_vars
         => [Log!Next]_<<[s \in 1..record.lastSeq |-> stored[s]], acked>>
  BY NextLog DEF TheLog
<1>4. QED
  BY <1>1, <1>2, <1>3, PTL DEF Spec, ImplementsLog, Log!Spec
=============================================================================

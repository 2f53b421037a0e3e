-------------------------- MODULE MCPresentation --------------------------
(* The instance of Presentation that TLC checks. Clocks disagree: the user
   message of the second turn is dated before that of the first. *)
EXTENDS Presentation

CONSTANTS s1, s2, t1, t2, tool, answer, q1, m1, m2

MCItems == {"user", tool, answer}
MCRoleOf == [i \in MCItems |-> CASE i = "user" -> "user" [] i = tool -> "tool" [] i = answer -> "assistant"]
Message(id, of, turn, status) == [id |-> id, session |-> of, turn |-> turn, status |-> status]
MCOutboxes == {<<>>, <<Message(m1, None, None, "pending"), Message(m2, s1, t2, "failed"), Message(m1, s1, t2, "pending")>>}
MCAt == <<t1, "user">> :> 2 @@ <<t2, "user">> :> 1 @@ <<t1, answer>> :> 3
        @@ <<"failure", t1>> :> 2 @@ <<"failure", t2>> :> 1 @@ <<"decision", q1>> :> 1
=============================================================================

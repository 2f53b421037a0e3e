--------------------------- MODULE MCAgentStream ---------------------------
(* The instance of AgentStream that TLC checks. *)
EXTENDS AgentStream

CONSTANTS s1, s2
MCEarlier == [s \in Sessions |-> IF s = s1 THEN 1 ELSE 0]
MCMaxSeq == [s \in Sessions |-> IF s = s1 THEN 3 ELSE 0]
=============================================================================

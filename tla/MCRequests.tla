----------------------------- MODULE MCRequests -----------------------------
EXTENDS Requests

CONSTANTS a, q1, q2, o1, o2

Single == [id |-> q1, multiSelect |-> FALSE, allowCustomAnswer |-> TRUE, isSecret |-> FALSE, options |-> {o1}]
Several == [id |-> q2, multiSelect |-> TRUE, allowCustomAnswer |-> FALSE, isSecret |-> FALSE, options |-> {o1, o2}]
Secret == [Single EXCEPT !.isSecret = TRUE]

QuestionPage(f) == [requests |-> {Question}, surfaces |-> {Conversation}, form |-> f, composerEnabled |-> TRUE]
ApprovalPage == [requests |-> Approvals, surfaces |-> Surfaces, form |-> <<Single>>, composerEnabled |-> FALSE]
MCPages == {QuestionPage(<<Single, Several>>), QuestionPage(<<Secret>>), ApprovalPage}
=============================================================================

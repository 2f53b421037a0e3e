SPECIFICATION Spec
CONSTANTS
    Requests = {r1, r2}
    Operators = {o1}
    Evaluators = {e1}
    Answers = {allow, reject}
    NoAnswer = NoAnswer
    Cancel = Cancel
    MaxInputs = 2
    MaxEvents = 9
    MaxTurns = 2
SYMMETRY Symmetry
INVARIANTS OneRecordedAnswer InputsReleased NoLateGrant
CHECK_DEADLOCK FALSE

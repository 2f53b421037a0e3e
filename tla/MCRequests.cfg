SPECIFICATION Spec
CONSTANTS
    a = a
    q1 = q1
    q2 = q2
    o1 = o1
    o2 = o2
    Approvals = {a}
    Question = question
    Offered = {o1, o2}
    Pages <- MCPages
    Conversation = conversation
    Notification = notification
    Words = {w}
    Prompts = {x}
    Blank = blank
    Empty = empty
    Cancel = cancel
    None = None
    queueEnabled = TRUE
    MaxCalls = 2
INVARIANT OnlyOfferedAnswers
INVARIANT OneAnswerPerCard
INVARIANT SubmittedIsAnswered
INVARIANT TimerKeepsItsQuestion
INVARIANT DisplacedIsKept
PROPERTY CardIsFreed

SPECIFICATION Spec
CONSTANTS
    Queries = {q1, q2}
    Ensures = {}
    Messages = {m1, m2}
    MaxRunners = 2
CHECK_DEADLOCK FALSE
INVARIANT AnswerIsOwn

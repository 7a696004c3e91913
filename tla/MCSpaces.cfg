\* Two spaces, one possibly in the other, that fight for one variable; or one space,
\* a second thread and two choices: what is told and seen, what is reported and when.
SPECIFICATION FightsOrSearches
CONSTANTS
    s1 = s1
    s2 = s2
    x = x
    y = y
    SubSpaces = {s1, s2}
    Top = Top
    Vars = {x}
    Values = {1, 2}
    None = None
    Extras = {"e"}
    MaxHelpers = 4
    MaxChoices = 2
    Liberties = {"kill", "merge", "nested"}
INVARIANTS
    TypeOK
    Isolation
    RunnableCounts
    FailureSound
    AnswerTrue
    StatusBoundOnce
    EveryStableSpaceAnswered
CHECK_DEADLOCK FALSE

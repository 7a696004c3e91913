\* A space that waits for a variable of the top-level space.
SPECIFICATION Spec
CONSTANTS
    s1 = s1
    s2 = s2
    x = x
    y = y
    SubSpaces = {s1}
    Top = Top
    Vars = {x}
    Values = {1, 2}
    None = None
    Extras = {}
    MaxHelpers = 4
    MaxChoices = 0
    Liberties = {"outerWait"}
INVARIANTS
    BlockedNotSucceeded
CHECK_DEADLOCK FALSE

\* A space that constrains a variable nobody has waited for, then chooses.
SPECIFICATION Spec
CONSTANTS
    s1 = s1
    s2 = s2
    x = x
    y = y
    SubSpaces = {s1}
    Top = Top
    Vars = {x}
    Values = {1, 2}
    None = None
    Extras = {}
    MaxHelpers = 4
    MaxChoices = 1
    Liberties = {"optimized"}
INVARIANTS
    Isolation
CHECK_DEADLOCK FALSE

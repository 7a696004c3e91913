\* A space that constrains two variables, and fails.
SPECIFICATION Spec
CONSTANTS
    s1 = s1
    s2 = s2
    x = x
    y = y
    SubSpaces = {s1}
    Top = Top
    Vars = {x, y}
    Values = {1, 2}
    None = None
    Extras = {}
    MaxHelpers = 4
    MaxChoices = 0
    Liberties = {}
INVARIANTS
    DeadStaysDead
CHECK_DEADLOCK FALSE

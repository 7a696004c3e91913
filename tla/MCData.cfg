SPECIFICATION Spec
CONSTANTS
    MaxKey = 9
    CharBits = 2
    MaxLength = 2
    MaxAtoms = 4
    Blocks = {b1, b2, b3, b4}
    FirstBlock = b1
    NoBlock = none
    HeapSizes = {2, 3}
    MaxChunk = 1
    MaxSize = 2
    MaxLive = 2
    MaxWidth = 2
    Sources = 4
    Digits = 4
    MaxNumber = 70
    MaxBytes = 4
    MaxUnits = 3
CHECK_DEADLOCK FALSE
INVARIANTS
    DictionaryIsMap
    DictionaryIsRedBlack
    AtomsAreInterned
    ChunksAreApart
    UnifyIsSound
    CopyIsFaithful
    IntegersAreExact
    UtfIsCanonical
    PickleIsFaithful

SPECIFICATION StreamSpec
CONSTANTS
    Permits = 2
    Generations = 2
    Request = {r1, r2, r3}
    Texts <- MCTexts
    MaxChunk = 2
    Chunks = 1
    MaxLife = 3
INVARIANTS ResponsesHoldTheirOwn LogosAreWhole
SYMMETRY Symmetry

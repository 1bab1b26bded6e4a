SPECIFICATION Spec
CONSTANTS
    number = number
    choice = choice
    malformed = malformed
    invalid = invalid
    plain = {p1, p2, p3}
    Id <- TestId
    BadId = {malformed}
    Value = {"", "fits", "other", "long", "short"}
    Blank = ""
    Absent = Absent
    Default <- TestDefault
    Accepts <- TestAccepts
    Cut <- TestCut
    Order <- TestOrder
    Portal <- TestPortal
    Entity <- TestEntity
    Options <- TestOptions
    Redefinitions <- TestRedefinitions
    Initial = 1
    Maximum = 4
    Core = 2
INVARIANTS ArrayIsSound ValuesAreAccepted PortalShowsTheValue
PROPERTY ParametersStay
SYMMETRY Symmetry

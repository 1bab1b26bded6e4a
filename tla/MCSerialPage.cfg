SPECIFICATION PageSpec
CONSTANTS
    Tab = {t1, t2}
    Limit = 1
    Sockets = 2
    MaxDrops = 1
INVARIANTS OneConnection NeverInert
PROPERTIES TurnIsTaken

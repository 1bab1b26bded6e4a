SPECIFICATION ControlSpec
CONSTANTS
    Clock = 12
    Delay = 3
    MaxWait = 5
    MaxRequests = 3
    Cooperative = TRUE
INVARIANTS ResetIsPreserved AnswerIsDelivered
PROPERTY RestartHappens

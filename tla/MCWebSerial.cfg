SPECIFICATION Spec
CONSTANTS
    Client = {1, 2}
    Slots = 2
    Policies = {"ReplaceSlowest", "ExplicitTakeover"}
    Size = 3
    Lengths = {2, 4}
    MaxBytes = 4
INVARIANTS RecordsMatchSockets
PROPERTIES PipeSpec SlotsAndBytesMoveOn

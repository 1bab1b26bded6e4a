SPECIFICATION Spec
CONSTANTS
    NoServer = "none"
    Entities = 2
    Refs = 3
    Values <- TestValues
    Servers = {"none", "10.0.0.2", "hub", "cloud"}
    Literals = {"10.0.0.2"}
    Interval = 2
    Settle = 2
    MaxTurn = 1
    MaxChanges = 2
    MaxDrops = 1
INVARIANTS ShowsWhatIsSynced SettingsAreTaken
PROPERTIES SocketSettles HomeAssistantCatchesUp

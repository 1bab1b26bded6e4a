SPECIFICATION Spec
CONSTANTS
    loop = loop
    http = http
    factoryPw = factoryPw
    newPw = newPw
    otherPw = otherPw
    noWifi = noWifi
    lan = lan
    defaults = defaults
    edited = edited
    huge = huge
    NoConfig = NoConfig
    Junk = Junk
    NoArg = NoArg
    NoJob = NoJob
    Erase = Erase
    Tasks = {loop}
    Passwords = {factoryPw, newPw}
    Profiles = {noWifi, lan}
    Params = {defaults, edited, huge}
    DefaultPassword = factoryPw
    NoProfiles = noWifi
    DefaultParams = defaults
    Oversize = {huge}
    Operations <- AllOperations
    Cooperative = TRUE
    CommitMayFail = TRUE
    HeapMayFail = FALSE
    MaxGeneration = 5
INVARIANT PasswordIsStored

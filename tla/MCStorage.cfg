SPECIFICATION Spec
CONSTANTS
    loop = loop
    http = http
    factoryPw = factoryPw
    newPw = newPw
    otherPw = otherPw
    noWifi = noWifi
    lan = lan
    defaults = defaults
    edited = edited
    huge = huge
    NoConfig = NoConfig
    Junk = Junk
    NoArg = NoArg
    NoJob = NoJob
    Erase = Erase
    Tasks = {loop, http}
    Passwords = {factoryPw, newPw}
    Profiles = {noWifi, lan}
    Params = {defaults, edited, huge}
    DefaultPassword = factoryPw
    NoProfiles = noWifi
    DefaultParams = defaults
    Oversize = {huge}
    Operations <- AllOperations
    Cooperative = TRUE
    CommitMayFail = FALSE
    HeapMayFail = TRUE
    MaxGeneration = 5
INVARIANTS TypeOK RuntimeIsDurable StoreInvariant SavedIsStored
PROPERTIES NeverUnconfigured DurableSpec

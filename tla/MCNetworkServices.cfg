SPECIFICATION Spec
CONSTANTS
    None = None
    Addresses = {home, guest}
    Hosts = {lan, cloud, fixed}
    Literals = {fixed}
    Stabilization = 1
    StartDelay = 2
    CacheDuration = 3
    Timeout = 1
    Retry = 2
    MaxChanges = 3
INVARIANTS CacheIsOfThisNetwork ServicesWait
PROPERTY NamesResolve

CONSTANTS
    storage = storage
    payloads = payloads
    subscription = subscription
    addon = addon
    Service = {storage, payloads, subscription, addon}
    Activatable = {storage, payloads, subscription, addon}
    Forbidden = {addon}
    Optional = {subscription, addon}
    MaxCrashes = 2
SPECIFICATION FairSpec
CHECK_DEADLOCK FALSE
INVARIANTS
    NothingRequiredMissing
    NoCallbackLost
PROPERTIES
    StartupEnds

CONSTANTS
    None = None
    Default = "CDN"
    First = {"CDROM", "CDN"}
    MaxActs = 2
SPECIFICATION Spec
CHECK_DEADLOCK FALSE
INVARIANTS
    OverrideSticks

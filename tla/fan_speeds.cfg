SPECIFICATION Spec
CONSTANTS
    DefaultMap <- MCDefaultMap
    Maps <- MCMaps
    Speeds = {900}
    Durations = {1}
    Rates = {70536}
    Raws = {0, 216}
    BadRaws = {1}
    BadConfigs = {50}
    Tachs = {2000}
    Samples = 2
    Garbage = {9999}
    MaxUtc = 2
    MaxMessages = 2
INVARIANTS
    TargetIsAsked
PROPERTIES
    SpeedFromSettings
    ReportAgrees
    FanSettles

CONSTANTS
    Configs <- MCConfigs
    Supported <- MCSupported
    Values <- MCValues
    Top = 100
    NoValue = NoValue
    MaxChanges = 2
    MaxClicks = 0
SPECIFICATION Safe
INVARIANT PresentHasMaximum
CHECK_DEADLOCK FALSE

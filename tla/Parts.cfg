CONSTANTS
    MaxChanges <- MCMaxChanges
    MaxClicks <- MCMaxClicks
    PulseKinds = {"snk", "src"}
    Setups <- MCSetups
    Monitors = {"m"}
    Foreign <- MCForeign
    MaxVolume = 1
    Configs <- MCConfigs
    Supported = {"br"}
    Values = {0, 50}
    Volumes = {3, 24, 100}
    CmusCap = 2
    BusKinds = {"dunst", "power", "bluez", "battery", "mako"}
    BusCap = 2
    LayoutsOf <- MCLayoutsOf
    Custom <- MCCustom
    PolledKinds = {"fan", "disk", "memory", "time", "cpu", "wifi", "interfaces", "backlight"}
    Start <- MCStart
    Groups = 0
    ViewMod = 4
    HideIfOff = FALSE
    Crtcs = {1, 2}
    Solar = {4, 6}
    Step = 1
    Screen <- MCScreen
    Styles <- MCStyles
    Shows <- MCShows
    MaxOps = 3
    MaxFaults = 1
    NoName = NoName
    Top = 100
    NoValue = NoValue
    NoShow = NoShow
    NoWhite = NoWhite
    Absent = Absent
    Unused = Unused
SPECIFICATION Spec
INVARIANTS
    TypesOK
    SelectionSticks
    OnlyKnownFailures
    ShowShows
    OnlyRacesMistint
PROPERTIES
    HidesWhatItMust
    ViewsCatchUp
CHECK_DEADLOCK FALSE

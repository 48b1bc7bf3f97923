\* Up to three of seven layers around a command with up to three arguments.
SPECIFICATION LayersFairSpec
CONSTANTS
    Layers <- MCLayers
    Lines <- MCLines
    CalledPrograms = {"app", "odd"}
    MaxLayers = 3
INVARIANTS ArgumentsArrive LayersNested SettingsHold HandleNamesLayers
PROPERTIES Arrives
CHECK_DEADLOCK FALSE

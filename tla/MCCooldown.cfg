SPECIFICATION CooldownSpec
CONSTANTS
    Key = {1, 2, 3}
    Window = 2
    Horizon = 6
PROPERTIES
    AdmissionSpacing
    RefusalJustified
    TableProportional
CHECK_DEADLOCK FALSE

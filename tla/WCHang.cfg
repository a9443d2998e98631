SPECIFICATION Spec
CONSTANTS
    Chains = {x, y}
    None = None
    Slots = {s1}
    Configurations = {{x}, {y}, {x, y}}
    Asks = TRUE
    RelayFails = FALSE
    Patient = TRUE
PROPERTIES
    CallsEnd

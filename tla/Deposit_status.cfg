SPECIFICATION Spec
CONSTANTS
    None = None
    Handlers = {h1, h2, h3}
    Gateways = {"decentro"}
SYMMETRY Symmetry
INVARIANT
    RegisteredOnce
CHECK_DEADLOCK FALSE

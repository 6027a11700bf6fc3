SPECIFICATION Spec
CONSTANTS
    Cams = {camA, camB}
    Paths = {p1}
    Objs = {o1, o2, o3}
    Handles = {h1, h2}
    None = None
    Dummy = Dummy
    Faulty = FALSE
    Gui = TRUE
    ResetOnClose = FALSE
SYMMETRY Symmetric
INVARIANTS NoLostClaim
PROPERTIES StrictReconnect

SPECIFICATION Spec
CONSTANTS
    Cams = {camA, camB}
    Paths = {p1}
    Objs = {o1, o2, o3}
    Handles = {h1, h2}
    None = None
    Dummy = Dummy
    Faulty = TRUE
    Gui = FALSE
    ResetOnClose = TRUE
SYMMETRY Symmetric
INVARIANTS TypeOK HandleOpen HandleOwned SessionHeld IdentTrue

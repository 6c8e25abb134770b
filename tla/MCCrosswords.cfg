CONSTANTS
    INITIAL_TABSTOPS = 2
    Sizes <- MCSizes
    Params = {0, 1, 2, 4}
    DEPTH = 4
    KeyFlags = {"disambiguate"}
    Programs <- MCPrograms
SPECIFICATION Spec
INVARIANTS InBounds FrameCurrent KeyModeOfAScreen
PROPERTIES KeyStackSpec ReflowKeepsText
VIEW ViewWithoutCall

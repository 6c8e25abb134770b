SPECIFICATION Spec
CONSTANTS
    capacity = 3
    MaxPanels = 3
    MaxRoutes = 4
INVARIANTS
    ShownTabExists
    
    PanelsConsistent
    ZoomConsistent
PROPERTY
    ExitStaysInItsTab
CHECK_DEADLOCK FALSE

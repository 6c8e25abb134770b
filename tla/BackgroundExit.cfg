SPECIFICATION Spec
CONSTANTS
    capacity = 3
    MaxPanels = 2
    MaxRoutes = 5
INVARIANT
    CurrentTabExists
CHECK_DEADLOCK FALSE

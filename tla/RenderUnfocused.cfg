SPECIFICATION Spec
CONSTANTS
    left = left
    right = right
    other = other
    Panels = {left, right, other}
    Tabs = 2
    Talking = {right}
    Inserting = {right}
    TabOf <- TwoTabs
    NodeOf <- Nodes
    disable_unfocused_render = TRUE
    disable_occluded_render = FALSE
INVARIANT
    InFlightWhileFocused

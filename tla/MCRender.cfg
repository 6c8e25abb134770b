SPECIFICATION Spec
CONSTANTS
    left = left
    right = right
    other = other
    Panels = {left, right, other}
    Tabs = 2
    Talking = {right}
    Inserting = {}
    TabOf <- TwoTabs
    NodeOf <- Nodes
    disable_unfocused_render = FALSE
    disable_occluded_render = FALSE
INVARIANTS
    TypeOK
    NotificationNotLost
    DamageNotForgotten
    DirtyIsDrawn
    ShownTabPresented
PROPERTY
    OutputShown

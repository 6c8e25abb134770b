--------------------------- MODULE ContextManager ---------------------------
(***************************************************************************)
(* The tabs and panels of one window (context/mod.rs).  A tab is a layout  *)
(* of panels (module Layout), one of them current; every panel is a shell  *)
(* known by its route id.  The user opens, splits, zooms, closes, moves    *)
(* and selects; the window is resized; shells exit by themselves, and the  *)
(* CloseTerminal event of an exited shell reaches the window later, when   *)
(* the user may have gone elsewhere or closed the panel by hand.  The      *)
(* manager keeps three things in step: the list of tabs, current_index     *)
(* into it, and current_route.                                             *)
(***************************************************************************)
EXTENDS Layout

CONSTANTS
    capacity,           \* bound on the number of tabs
    MaxPanels,          \* bound on the panels of a tab
    MaxRoutes           \* bound on ROUTE_ID_COUNTER

ASSUME ContextAssumption ==
    capacity \in Nat \ {0} /\ MaxPanels \in Nat \ {0} /\ MaxRoutes \in Nat \ {0}

VARIABLES
    contexts,           \* the tabs, each a layout
    current_index,      \* index of the tab shown, from 0
    current_route,      \* route id of the current panel
    next_route,         \* ROUTE_ID_COUNTER
    closing,            \* routes whose CloseTerminal event is queued
    open,               \* the window exists
    shifted             \* history: an exit took a tab left of the one shown, and
                        \* nothing has been selected since

vars == <<contexts, current_index, current_route, next_route, closing, open, shifted>>

Route == 1 .. MaxRoutes

(* The route ids of all the panels of tabs cs. *)
Routes(cs) == UNION {cs[i].inner : i \in DOMAIN cs}

(* contexts[current_index]: the code panics when the index is out of range. *)
current_grid == contexts[current_index + 1]
Running == open /\ current_index < Len(contexts)

Init ==
    /\ contexts = <<NewLayout(1)>>
    /\ current_index = 0
    /\ current_route = 1
    /\ next_route = 2
    /\ closing = {}
    /\ open = TRUE
    /\ shifted = FALSE

-----------------------------------------------------------------------------
(* Selecting. *)

(* set_current on tabs cs; an index past the end is ignored. *)
set_current(cs, i) ==
    /\ contexts' = cs
    /\ IF i < Len(cs)
       THEN current_index' = i /\ current_route' = cs[i + 1].current /\ shifted' = FALSE
       ELSE UNCHANGED <<current_index, current_route, shifted>>

(* A plausible mistake: no wrap-around behind the last tab. *)
NextWithoutWrap ==
    /\ Running
    /\ current_index' = current_index + 1
    /\ UNCHANGED <<contexts, current_route, next_route, closing, open, shifted>>

switch_to_next ==
    /\ Running
    /\ set_current(contexts, IF Len(contexts) - 1 = current_index THEN 0 ELSE current_index + 1)
    /\ UNCHANGED <<next_route, closing, open>>

switch_to_prev ==
    /\ Running
    /\ set_current(contexts, IF current_index = 0 THEN Len(contexts) - 1 ELSE current_index - 1)
    /\ UNCHANGED <<next_route, closing, open>>

(* Any index may be asked for, as a key binding may name any tab;          *)
(* select_last_tab asks for the last.                                      *)
select_tab(i) ==
    /\ Running
    /\ set_current(contexts, i)
    /\ UNCHANGED <<next_route, closing, open>>

(* move_current_to_next and move_current_to_prev: swap with the neighbour, *)
(* around the end, and follow.                                             *)
move_current(target) ==
    /\ Running
    /\ Len(contexts) > 1
    /\ target \in {(current_index + 1) % Len(contexts),
                   (current_index + Len(contexts) - 1) % Len(contexts)}
    /\ set_current([contexts EXCEPT ![current_index + 1] = contexts[target + 1],
                                    ![target + 1] = contexts[current_index + 1]], target)
    /\ UNCHANGED <<next_route, closing, open>>

(* A plausible mistake: the split is selected, the route not updated. *)
SelectSplitOnly(r) ==
    /\ Running
    /\ r \in VisiblePanels(current_grid) \ {current_grid.current}
    /\ contexts' = [contexts EXCEPT ![current_index + 1].current = r]
    /\ UNCHANGED <<current_index, current_route, next_route, closing, open, shifted>>

(* The tab shown becomes grid; its panel is the route. *)
SetGrid(grid) ==
    /\ contexts' = [contexts EXCEPT ![current_index + 1] = grid]
    /\ current_route' = grid.current
    /\ shifted' = FALSE

(* The select_split functions and the mouse: another of several visible    *)
(* panels of the tab becomes current.  Where there is no other,            *)
(* select_next_split only reads the route again.                           *)
select_split(r) ==
    /\ Running
    /\ \/ /\ Cardinality(VisiblePanels(current_grid)) > 1
          /\ r \in VisiblePanels(current_grid) \ {current_grid.current}
       \/ /\ Cardinality(VisiblePanels(current_grid)) <= 1
          /\ r = current_grid.current
    /\ SetGrid([current_grid EXCEPT !.current = r])
    /\ UNCHANGED <<current_index, next_route, closing, open>>

(* The neighbour in the order of the panels; behind the last one the root  *)
(* of the next tab, before the first one the last panel of the tab before. *)
(* A zoomed tab shows one panel, and its root may be another (ghost).      *)
StepInTab(d) == \E keys \in get_ordered_keys(current_grid) :
    /\ Len(keys) > 1 /\ Neighbour(current_grid, keys, d) # 0
    /\ SetGrid([current_grid EXCEPT !.current = Neighbour(current_grid, keys, d)])
    /\ UNCHANGED current_index

AtEdge(d) == \E keys \in get_ordered_keys(current_grid) :
    Len(keys) <= 1 \/ Neighbour(current_grid, keys, d) = 0

Focused(grid, r) ==
    [grid EXCEPT !.current = r,
                 !.misplaced = IF r \in VisiblePanels(grid) THEN @ \ {"focus"} ELSE @ \cup {"focus"}]

switch_to_next_split_or_tab ==
    LET i == (current_index + 1) % Len(contexts)
        grid == contexts[i + 1]
    IN  /\ Running
        /\ \/ StepInTab(1)
           \/ AtEdge(1) /\ set_current([contexts EXCEPT ![i + 1] = Focused(grid, grid.root)], i)
        /\ UNCHANGED <<next_route, closing, open>>

switch_to_prev_split_or_tab ==
    LET i == (current_index + Len(contexts) - 1) % Len(contexts)
        grid == contexts[i + 1]
    IN  /\ Running
        /\ \/ StepInTab(-1)
           \/ /\ AtEdge(-1)
              /\ \E keys \in get_ordered_keys(grid) :
                    set_current([contexts EXCEPT ![i + 1] = Focused(grid, Last(keys))], i)
        /\ UNCHANGED <<next_route, closing, open>>

ToggleSplitZoom ==
    /\ Running
    /\ SetGrid(toggle_current_split_zoom(current_grid))
    /\ UNCHANGED <<current_index, next_route, closing, open>>

(* The move_divider functions change the shares of two panels, after the   *)
(* end of a zoom.                                                          *)
MoveDivider ==
    /\ Running /\ IsZoomed(current_grid)
    /\ contexts' = [contexts EXCEPT ![current_index + 1] = Unzoomed(current_grid)]
    /\ UNCHANGED <<current_index, current_route, next_route, closing, open, shifted>>

(* A plausible mistake: hidden tabs keep their size. *)
ResizeCurrentGrid(cs) == [cs EXCEPT ![current_index + 1] = Resized(@)]

resize_all_grids(cs) == [i \in DOMAIN cs |-> Resized(cs[i])]

ResizeWindow ==
    /\ Running
    /\ contexts' = resize_all_grids([i \in DOMAIN contexts |-> Outgrown(contexts[i])])
    /\ UNCHANGED <<current_index, current_route, next_route, closing, open, shifted>>

-----------------------------------------------------------------------------
(* Opening. *)

add_context(redirect) ==
    /\ Running
    /\ Len(contexts) < capacity
    /\ next_route \in Route
    /\ next_route' = next_route + 1
    /\ contexts' = Append(contexts, NewLayout(next_route))
    /\ IF redirect
       THEN current_index' = Len(contexts) /\ current_route' = next_route /\ shifted' = FALSE
       ELSE UNCHANGED <<current_index, current_route, shifted>>
    /\ UNCHANGED <<closing, open>>

(* split and split_from_config: the new panel becomes current. *)
split(down) ==
    /\ Running
    /\ Cardinality(current_grid.inner) < MaxPanels
    /\ next_route \in Route
    /\ next_route' = next_route + 1
    /\ SetGrid(Split(current_grid, next_route, down))
    /\ UNCHANGED <<current_index, closing, open>>

-----------------------------------------------------------------------------
(* Closing.  A removed panel is dropped: its shell is killed, and its PTY  *)
(* thread may see the exit and send CloseTerminal before it is shut down.  *)

remove_current_grid ==
    \E grid \in remove_current(current_grid) : SetGrid(grid) /\ UNCHANGED current_index

(* close_split_or_tab in a tab with several panels. *)
CloseSplit ==
    /\ Running
    /\ Cardinality(current_grid.inner) > 1
    /\ remove_current_grid
    /\ closing' = closing \cup {current_grid.current}
    /\ UNCHANGED <<next_route, open>>

(* Removing the current tab shows its left neighbour, or the first tab.    *)
(* The last tab is not closed this way.                                    *)
close_current_context ==
    LET left == RemoveAt(contexts, current_index + 1)
    IN  /\ Running
        /\ Len(contexts) > 1
        /\ set_current(left, IF current_index > 1 THEN current_index - 1 ELSE 0)
        /\ closing' = closing \cup current_grid.inner
        /\ UNCHANGED <<next_route, open>>

close_unfocused_tabs ==
    /\ Running
    /\ set_current(<<current_grid>>, 0)
    /\ closing' = closing \cup (Routes(contexts) \ current_grid.inner)
    /\ UNCHANGED <<next_route, open>>

(* The shell of a panel exits, be it shown or hidden. *)
ShellExits(r) ==
    /\ Running
    /\ r \in Routes(contexts) \ closing
    /\ closing' = closing \cup {r}
    /\ UNCHANGED <<contexts, current_index, current_route, next_route, open, shifted>>

(* The tab whose current panel is r, 0 if there is none. *)
TabOfCurrent(r) ==
    IF \E i \in DOMAIN contexts : contexts[i].current = r
    THEN CHOOSE i \in DOMAIN contexts :
            contexts[i].current = r /\ \A j \in 1 .. i - 1 : contexts[j].current # r
    ELSE 0

(* Some tabs have been closed: the panels that went with them are shut     *)
(* down, and the window is closed with the last tab.                       *)
Dropped(r) ==
    /\ closing' = (closing \ {r}) \cup ((Routes(contexts) \ Routes(contexts')) \ {r})
    /\ open' = (contexts' # <<>>)
    /\ UNCHANGED next_route

(* A plausible mistake: the split's tab is closed with the split. *)
CloseWholeTab(r) ==
    LET i == TabOfCurrent(r)
        left == RemoveAt(contexts, i)
    IN  /\ Running
        /\ r \in closing
        /\ IF i = 0
           THEN UNCHANGED <<contexts, current_index, current_route, shifted>>
           ELSE set_current(left, IF i - 1 > 1 THEN i - 2 ELSE 0)
        /\ Dropped(r)

(* CloseTerminal(r) is handled: should_close_context_manager.  While the   *)
(* tab shown has several panels only the current one is looked at.  With   *)
(* another tab gone current_index stays: it then means the next tab, or    *)
(* none, if the one gone was left of it.                                   *)
CloseTerminal(r) ==
    LET i == TabOfCurrent(r)
        left == RemoveAt(contexts, i)
    IN  /\ Running
        /\ r \in closing
        /\ CASE Cardinality(current_grid.inner) > 1 ->
                    IF current_grid.current = r
                    THEN remove_current_grid
                    ELSE UNCHANGED <<contexts, current_index, current_route, shifted>>
             [] Cardinality(current_grid.inner) = 1 /\ i = 0 ->
                    UNCHANGED <<contexts, current_index, current_route, shifted>>
             [] Cardinality(current_grid.inner) = 1 /\ i # 0 /\ current_route = r ->
                    set_current(left, IF i - 1 > 1 THEN i - 2 ELSE 0)
             [] OTHER ->
                    /\ contexts' = left
                    /\ shifted' = (shifted \/ i - 1 < current_index)
                    /\ UNCHANGED <<current_index, current_route>>
        /\ Dropped(r)

-----------------------------------------------------------------------------

Next ==
    \/ switch_to_next \/ switch_to_prev
    \/ \E i \in 0 .. capacity : select_tab(i)
    \/ \E target \in 0 .. capacity - 1 : move_current(target)
    \/ \E r \in Route : select_split(r)
    \/ \E redirect \in BOOLEAN : add_context(redirect)
    \/ \E down \in BOOLEAN : split(down)
    \/ switch_to_next_split_or_tab \/ switch_to_prev_split_or_tab
    \/ ToggleSplitZoom \/ MoveDivider
    \/ ResizeWindow
    \/ CloseSplit \/ close_current_context \/ close_unfocused_tabs
    \/ \E r \in Route : ShellExits(r)
    \/ \E r \in Route : CloseTerminal(r)

Spec == Init /\ [][Next]_vars

-----------------------------------------------------------------------------

(* contexts[current_index] exists while the window does: every access to   *)
(* the current tab relies on it.  The code breaks this: the exit of a      *)
(* hidden shell takes its tab away without looking at current_index.       *)
CurrentTabExists == open => current_index < Len(contexts)

(* It does hold up to such an exit left of the tab shown, and again from   *)
(* the next selection on: exits to the right of it, late exits of panels   *)
(* closed by hand and the exit of the panel shown itself leave the index   *)
(* on a tab, in any order with selecting, moving and closing tabs.         *)
ShownTabExists == ~shifted => CurrentTabExists

(* current_route, which events are matched against, is the route of the    *)
(* panel that is current, through all ways of selecting and closing and    *)
(* whatever shells exit, but for the same case.                            *)
CurrentRouteTracks == Running /\ ~shifted => current_route = current_grid.current

(* Every tab is a sound tree, and no panel is in two tabs: routes find     *)
(* their panel by searching all tabs.  (Every variable is of its type.)    *)
PanelsConsistent ==
    /\ Len(contexts) <= capacity /\ current_index \in Nat /\ current_route \in Route
    /\ next_route \in 1 .. MaxRoutes + 1 /\ closing \subseteq Route
    /\ open \in BOOLEAN /\ shifted \in BOOLEAN
    /\ \A i \in DOMAIN contexts : LayoutSound(contexts[i])
    /\ \A i, j \in DOMAIN contexts : i # j => contexts[i].inner \cap contexts[j].inner = {}

(* Zooms end where they began, through splits, removals, tab changes and   *)
(* resizes: in every tab, shown or not, what is hidden can be brought      *)
(* back, the focus is on a visible panel and the tree is laid out for the  *)
(* size of the window.  The two exceptions of the code are a focus put on  *)
(* the root of a zoomed tab, and the end of a zoom during which the window *)
(* was resized, which brings the old size back.                            *)
ZoomConsistent ==
    \A i \in DOMAIN contexts :
        /\ ZoomSound(contexts[i])
        /\ contexts[i].fits \/ "size" \in contexts[i].misplaced

(* The handling of an exit stays in the tab of its shell.  The panel that  *)
(* is current goes alone.  Any other exit takes nothing, or closes with    *)
(* all its panels a hidden tab whose current panel it was: a panel closed  *)
(* by hand before takes nothing with it, and no panel of the tab shown     *)
(* goes but by its own exit, even while current_index means another tab    *)
(* than the one selected.                                                  *)
ExitTakes(r) ==
    LET lost == Routes(contexts) \ Routes(contexts')
    IN  /\ Routes(contexts') \subseteq Routes(contexts)
        /\ r = current_grid.current => lost = {r}
        /\ r # current_grid.current =>
                \/ lost = {}
                \/ \E i \in DOMAIN contexts \ {current_index + 1} :
                        contexts[i].current = r /\ lost = contexts[i].inner

ExitStaysInItsTab == [][\A r \in closing \ closing' : ExitTakes(r)]_vars
=============================================================================

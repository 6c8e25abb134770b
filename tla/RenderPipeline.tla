--------------------------- MODULE RenderPipeline ---------------------------
(***************************************************************************)
(* How output becomes pixels in one window with the event-based render     *)
(* strategy.  A PTY thread per panel parses output under the terminal's    *)
(* lock, damages the terminal and notifies the event loop; the event loop  *)
(* (application.rs) marks the panel dirty and asks the platform for a      *)
(* redraw; the redraw (Renderer::run) takes the damage of every dirty      *)
(* panel of the shown tab.  Each hand-over may be skipped when the next    *)
(* stage is thought to be pending already, which is where a wakeup could   *)
(* get lost.                                                               *)
(*                                                                         *)
(* A redraw is one step: the lock of a panel is held only while its        *)
(* snapshot is taken, and what a PTY thread does to an earlier panel       *)
(* before a later one is drawn does not interfere with it.                 *)
(***************************************************************************)
EXTENDS Naturals, FiniteSets

CONSTANTS
    Panels,                     \* route ids
    Tabs,                       \* number of tabs, 0 .. Tabs - 1
    TabOf,                      \* the tab of each panel
    NodeOf,                     \* layout node of each panel: own tree per tab
    Talking, Inserting,         \* panels with output, panels that use insert mode
    disable_unfocused_render,   \* renderer options, both off by default
    disable_occluded_render

Grid(t) == {p \in Panels : TabOf[p] = t}

ASSUME RenderAssumption ==
    /\ Tabs \in Nat \ {0}
    /\ TabOf \in [Panels -> 0 .. Tabs - 1]
    /\ NodeOf \in [Panels -> Nat \ {0}]
    /\ \A p, q \in Panels : TabOf[p] = TabOf[q] /\ NodeOf[p] = NodeOf[q] => p = q
    /\ \A t \in 0 .. Tabs - 1 : Grid(t) # {}
    /\ Talking \subseteq Panels /\ Inserting \subseteq Panels
    /\ disable_unfocused_render \in BOOLEAN
    /\ disable_occluded_render \in BOOLEAN

VARIABLES
    terminal,       \* per panel, behind its lock: damage, in_flight, insert, reading
    dirty,          \* panels whose pending_update is dirty
    current_index,  \* the tab shown
    current,        \* the current panel of each tab
    hidden,         \* panels hidden behind a zoomed panel of their tab
    last_active,    \* the node Renderer::run last saw active, 0 at first
    presented,      \* the tab of the last presented frame
    window,         \* the flags of RouteWindow
    events,         \* user events of which at least one copy is queued
    timers          \* panels with a RenderRoute timer scheduled

vars == <<terminal, dirty, current_index, current, hidden, last_active, presented,
          window, events, timers>>

TerminalDamaged(p) == <<"TerminalDamaged", p>>
RenderRoute(p) == <<"RenderRoute", p>>
Render == <<"Render">>
Event == {TerminalDamaged(p) : p \in Panels} \cup {RenderRoute(p) : p \in Panels}
         \cup {Render}

Damage == {"none", "partial", "full"}
Terminal == [damage : Damage, in_flight : BOOLEAN, insert : BOOLEAN, reading : BOOLEAN]
Window == [is_focused : BOOLEAN, is_occluded : BOOLEAN,
           needs_render_after_occlusion : BOOLEAN,
           redraw_requested : BOOLEAN, os_redraw : BOOLEAN]

(* What a redraw walks over: the panels of the shown tab that no zoom hides. *)
Visible == Grid(current_index) \ hidden

Init ==
    /\ terminal = [p \in Panels |->
           [damage |-> "full", in_flight |-> FALSE, insert |-> FALSE, reading |-> FALSE]]
    /\ dirty = {}
    /\ current_index = 0
    /\ current \in [0 .. Tabs - 1 -> Panels]
    /\ \A t \in 0 .. Tabs - 1 : current[t] \in Grid(t)
    /\ hidden = {}
    /\ last_active = 0
    /\ presented = 0
    /\ window = [is_focused |-> TRUE, is_occluded |-> FALSE,
                 needs_render_after_occlusion |-> FALSE,
                 redraw_requested |-> FALSE, os_redraw |-> TRUE]
    /\ events = {} /\ timers = {}

-----------------------------------------------------------------------------
(* Redraw requests.  os_redraw is the platform's: it stays set until a     *)
(* redraw is delivered, also while the window is hidden.                   *)

request_redraw(w) ==
    IF w.redraw_requested THEN w
    ELSE [w EXCEPT !.redraw_requested = TRUE, !.os_redraw = TRUE]

(* A plausible mistake: a started render leaves its request standing. *)
KeepsRequest(w) == [w EXCEPT !.os_redraw = FALSE]

begin_render(w) == [w EXCEPT !.redraw_requested = FALSE, !.os_redraw = FALSE]

(* The two early returns shared by the handlers of render events. *)
may_render(w) ==
    /\ disable_unfocused_render => w.is_focused
    /\ disable_occluded_render => (~w.is_occluded \/ w.needs_render_after_occlusion)

-----------------------------------------------------------------------------
(* The PTY thread of panel p, holding the terminal's lock. *)

Worse(d, e) ==
    IF "full" \in {d, e} THEN "full" ELSE IF "partial" \in {d, e} THEN "partial" ELSE "none"

(* mark_fully_damaged announces only the first full damage of a frame. *)
mark_fully_damaged(p) ==
    IF terminal[p].damage = "full" THEN {} ELSE {RenderRoute(p)}

(* The parser handles a piece of output that causes damage d and leaves    *)
(* insert mode on or off; leaving it damages everything.                   *)
Parse(p, d, insert) ==
    /\ insert => p \in Inserting
    /\ terminal[p].insert /\ ~insert => d = "full"
    /\ terminal' = [terminal EXCEPT ![p].damage = Worse(@, d),
                                    ![p].insert = insert,
                                    ![p].reading = TRUE]
    /\ events' = events \cup (IF d = "full" THEN mark_fully_damaged(p) ELSE {})
    /\ UNCHANGED <<dirty, current_index, current, hidden, last_active, presented, window, timers>>

(* The end of pty_read, or of a timed-out synchronized update: damage is   *)
(* announced unless an announcement is in flight; the lock is released.    *)
Notify(p) ==
    /\ terminal[p].reading
    /\ LET t == terminal[p]
           send == ~t.in_flight /\ t.damage # "none"
       IN  /\ terminal' = [terminal EXCEPT ![p].reading = FALSE,
                                           ![p].in_flight = @ \/ send]
           /\ events' = IF send THEN events \cup {TerminalDamaged(p)} ELSE events
    /\ UNCHANGED <<dirty, current_index, current, hidden, last_active, presented, window, timers>>

-----------------------------------------------------------------------------
(* The event loop.  A handled event may have another copy in the queue.    *)

Take(e) == e \in events /\ events' \in {events, events \ {e}}

(* A plausible mistake: the panel is not marked, only the redraw asked for. *)
HandleWithoutMark(p) ==
    /\ Take(TerminalDamaged(p))
    /\ window' = IF may_render(window) /\ p \in Grid(current_index) THEN request_redraw(window) ELSE window
    /\ UNCHANGED <<terminal, dirty, current_index, current, hidden, last_active, presented, timers>>

(* Damage of a panel of another tab is not recorded: switching to a tab    *)
(* invalidates it as a whole.  A panel behind a zoom is marked all the     *)
(* same, though no redraw looks at it.                                     *)
HandleTerminalDamaged(p) ==
    /\ Take(TerminalDamaged(p))
    /\ IF may_render(window) /\ p \in Grid(current_index)
       THEN dirty' = dirty \cup {p} /\ window' = request_redraw(window)
       ELSE UNCHANGED <<dirty, window>>
    /\ UNCHANGED <<terminal, current_index, current, hidden, last_active, presented, timers>>

(* throttled: wait_until returned a time to wait.  It is asked after the   *)
(* one-time flag was cleared, so the flag does not bear on the answer.     *)
HandleRenderRoute(p, throttled) ==
    /\ Take(RenderRoute(p))
    /\ IF may_render(window)
       THEN LET w == [window EXCEPT !.needs_render_after_occlusion = FALSE]
            IN  /\ dirty' = dirty \cup ({p} \cap Grid(current_index))
                /\ window' = IF throttled THEN w ELSE request_redraw(w)
                /\ timers' = IF throttled THEN timers \cup {p} ELSE timers
       ELSE UNCHANGED <<dirty, window, timers>>
    /\ UNCHANGED <<terminal, current_index, current, hidden, last_active, presented>>

HandleRender ==
    /\ Take(Render)
    /\ window' = IF may_render(window)
                 THEN request_redraw([window EXCEPT !.needs_render_after_occlusion = FALSE])
                 ELSE window
    /\ UNCHANGED <<terminal, dirty, current_index, current, hidden, last_active, presented, timers>>

(* Scheduler::update finds the timer of panel p due. *)
TimerFires(p) ==
    /\ p \in timers
    /\ timers' = timers \ {p}
    /\ events' = events \cup {Render}
    /\ UNCHANGED <<terminal, dirty, current_index, current, hidden, last_active, presented, window>>

Focused(focused) ==
    /\ focused # window.is_focused
    /\ LET w == [window EXCEPT !.is_focused = focused]
       IN  window' = IF focused THEN request_redraw(w) ELSE w
    /\ UNCHANGED <<terminal, dirty, current_index, current, hidden, last_active, presented, events, timers>>

Occluded(occluded) ==
    /\ occluded # window.is_occluded
    /\ window' = [window EXCEPT
                     !.is_occluded = occluded,
                     !.redraw_requested = @ /\ ~occluded,
                     !.needs_render_after_occlusion = @ \/ ~occluded]
    /\ UNCHANGED <<terminal, dirty, current_index, current, hidden, last_active, presented, events, timers>>

(* A key or wheel event handled by the application that changes only what  *)
(* is drawn over the terminal: mark_dirty.                                 *)
Interact ==
    /\ dirty' = dirty \cup {current[current_index]}
    /\ window' = request_redraw(window)
    /\ UNCHANGED <<terminal, current_index, current, hidden, last_active, presented, events, timers>>

(* The wheel scrolls the history, which only a panel with output has: the  *)
(* lock is taken, all is damaged.                                          *)
ScrollDisplay ==
    LET p == current[current_index]
    IN  /\ p \in Talking /\ ~terminal[p].reading
        /\ events' = events \cup mark_fully_damaged(p)
        /\ terminal' = [terminal EXCEPT ![p].damage = "full"]
        /\ window' = request_redraw(window)
        /\ UNCHANGED <<dirty, current_index, current, hidden, last_active, presented, timers>>

(* A plausible mistake: relying on the renderer to notice the new tab. *)
SwitchWithoutInvalidating(t) ==
    /\ t # current_index
    /\ current_index' = t
    /\ window' = request_redraw(window)
    /\ UNCHANGED <<terminal, dirty, current, hidden, last_active, presented, events, timers>>

(* A plausible mistake: the step past the last tab does not wrap around. *)
SwitchWithoutWrap(t) ==
    /\ t # current_index
    /\ current_index' = current_index + 1
    /\ window' = request_redraw(window)
    /\ dirty' = dirty \cup Grid(current_index + 1)
    /\ UNCHANGED <<terminal, current, hidden, last_active, presented, events, timers>>

(* A key selects tab t (set_current, switch_to_next, switch_to_prev): its  *)
(* panels are invalidated, the key handler asks for the redraw.            *)
SelectTab(t) ==
    /\ t # current_index
    /\ current_index' = t
    /\ dirty' = dirty \cup Grid(t)
    /\ window' = request_redraw(window)
    /\ UNCHANGED <<terminal, current, hidden, last_active, presented, events, timers>>

(* A key selects the next or previous panel of the tab: the end of a       *)
(* search marks the old one, and the new one is marked.                    *)
SelectSplit(p) ==
    /\ p \in Visible \ {current[current_index]}
    /\ current' = [current EXCEPT ![current_index] = p]
    /\ dirty' = dirty \cup {current[current_index], p}
    /\ window' = request_redraw(window)
    /\ UNCHANGED <<terminal, current_index, hidden, last_active, presented, events, timers>>

-----------------------------------------------------------------------------
(* RedrawRequested. *)

(* The panels Renderer::run draws when panel p is active: the marked ones, *)
(* or all those visible when the active node is not that of the last run.  *)
DrawnWith(p, marked) ==
    IF last_active # NodeOf[p] THEN Visible ELSE Visible \cap marked

Drawn == DrawnWith(current[current_index], dirty)

(* A plausible mistake: the snapshot does not re-arm the notification. *)
SnapshotKeepsFlag(p) == [terminal[p] EXCEPT !.damage = "none"]

(* What is left of a terminal whose damage has been taken. *)
Snapshot(p) == [terminal[p] EXCEPT !.damage = "none", !.in_flight = FALSE]

(* Screen::render, with the active panel, the set of panels it draws and   *)
(* that of those it damages while it takes their damage.  animates: an     *)
(* overlay wants another frame.                                            *)
Draw(active, drawn, inserting, animates) ==
    /\ last_active' = NodeOf[active]
    /\ presented' = IF drawn # {} \/ animates THEN current_index ELSE presented
    /\ dirty' = (dirty \ drawn) \cup (IF animates THEN {active} ELSE {})
    /\ events' = events \cup UNION {mark_fully_damaged(p) : p \in inserting}
    /\ terminal' = [p \in Panels |-> IF p \in drawn THEN Snapshot(p) ELSE terminal[p]]

Redraw(animates) ==
    LET active == current[current_index]
        w == begin_render(window)
    IN  /\ window.os_redraw
        /\ \A p \in Visible : ~terminal[p].reading
        /\ UNCHANGED <<current_index, current, hidden, timers>>
        /\ Draw(active, Drawn, {p \in Drawn : terminal[p].insert}, animates)
        /\ window' = IF active \in dirty' THEN request_redraw(w) ELSE w

(* A key selects the panel on one side of the current one.  The old panel  *)
(* is marked by the end of a search, the new one is not: the screen is     *)
(* rendered at once, outside a redraw of the platform, and the key handler *)
(* asks for another.                                                       *)
SelectSplitSide(p, animates) ==
    LET active == current[current_index]
        drawn == DrawnWith(p, dirty \cup {active})
    IN  /\ p \in Visible \ {active}
        /\ \A q \in Visible : ~terminal[q].reading
        /\ current' = [current EXCEPT ![current_index] = p]
        /\ Draw(p, drawn, {q \in drawn : terminal[q].insert}, animates)
        /\ window' = request_redraw(window)
        /\ UNCHANGED <<current_index, hidden, timers>>

(* The panels a zoom of the shown tab, or its end, leaves visible. *)
Zoomed ==
    IF hidden \cap Grid(current_index) = {} THEN {current[current_index]} ELSE Grid(current_index)

(* A plausible mistake: the end of a zoom draws only what was visible. *)
ZoomDrawsCurrent(animates) ==
    LET active == current[current_index]
    IN  /\ Grid(current_index) # {active}
        /\ ~terminal[active].reading
        /\ hidden' = (hidden \cup Grid(current_index)) \ Zoomed
        /\ Draw(active, {active}, {}, animates)
        /\ window' = request_redraw(window)
        /\ UNCHANGED <<current_index, current, timers>>

(* A key zooms the current panel or ends the zoom.  The visible panels get *)
(* their new sizes, are marked and drawn at once, outside a redraw of the  *)
(* platform; the key handler asks for another.  Only the current panel     *)
(* changes its size, since hidden ones keep theirs, and one of a new size  *)
(* is fully damaged without an announcement.                               *)
ToggleSplitZoom(animates) ==
    LET active == current[current_index]
    IN  /\ Grid(current_index) # {active}
        /\ \A p \in Zoomed : ~terminal[p].reading
        /\ hidden' = (hidden \cup Grid(current_index)) \ Zoomed
        /\ Draw(active, Zoomed, {p \in Zoomed \ {active} : terminal[p].insert}, animates)
        /\ window' = request_redraw(window)
        /\ UNCHANGED <<current_index, current, timers>>

-----------------------------------------------------------------------------

PtyThread == \E p \in Talking :
    \/ \E d \in Damage, insert \in BOOLEAN : Parse(p, d, insert)
    \/ Notify(p)

HandleEvent ==
    \/ \E p \in Panels : HandleTerminalDamaged(p)
    \/ \E p \in Panels, throttled \in BOOLEAN : HandleRenderRoute(p, throttled)
    \/ HandleRender

User ==
    \/ \E focused \in BOOLEAN : Focused(focused)
    \/ \E occluded \in BOOLEAN : Occluded(occluded)
    \/ Interact
    \/ ScrollDisplay
    \/ \E t \in 0 .. Tabs - 1 : SelectTab(t)
    \/ \E p \in Panels : SelectSplit(p)
    \/ \E p \in Panels, animates \in BOOLEAN : SelectSplitSide(p, animates)
    \/ \E animates \in BOOLEAN : ToggleSplitZoom(animates)

Next ==
    \/ PtyThread
    \/ HandleEvent
    \/ \E p \in Panels : TimerFires(p)
    \/ User
    \/ \E animates \in BOOLEAN : Redraw(animates)

(* pty_read ends after MAX_LOCKED_READ bytes, the event loop handles every *)
(* queued event and due timer, and the platform delivers a requested       *)
(* redraw to a window that is not hidden.  Panels without output have no   *)
(* events and no timers.                                                   *)
Fairness ==
    /\ \A p \in Talking : WF_vars(Notify(p)) /\ WF_vars(TimerFires(p))
    /\ \A p \in Talking : WF_vars(HandleTerminalDamaged(p))
    /\ \A p \in Talking : WF_vars(\E throttled \in BOOLEAN : HandleRenderRoute(p, throttled))
    /\ WF_vars(HandleRender)
    /\ SF_vars(~window.is_occluded /\ \E animates \in BOOLEAN : Redraw(animates))

Spec == Init /\ [][Next]_vars /\ Fairness

-----------------------------------------------------------------------------

(* Every variable is of its type; the current panel of a tab is one of its *)
(* panels that no zoom hides.                                              *)
TypeOK ==
    /\ terminal \in [Panels -> Terminal]
    /\ dirty \subseteq Panels
    /\ current_index \in 0 .. Tabs - 1
    /\ current \in [0 .. Tabs - 1 -> Panels]
    /\ hidden \subseteq Panels
    /\ \A t \in 0 .. Tabs - 1 : current[t] \in Grid(t) \ hidden
    /\ last_active \in Nat
    /\ presented \in 0 .. Tabs - 1
    /\ window \in Window
    /\ events \subseteq Event
    /\ timers \subseteq Panels

(* The renderer has not yet looked at the shown tab, so the next redraw    *)
(* draws all of it.                                                        *)
ActiveChanged == last_active # NodeOf[current[current_index]]

(* A notification that is in flight for a visible panel is either still    *)
(* queued or has marked the panel dirty: the flag that silences the PTY    *)
(* thread never outlives what will clear it (damage_event_in_flight).      *)
NotificationNotLost ==
    \A p \in Visible :
        terminal[p].in_flight => \/ TerminalDamaged(p) \in events
                                 \/ p \in dirty
                                 \/ ActiveChanged

(* The same for a window that has the focus: what damage_event_in_flight   *)
(* is documented to mean, also when rendering stops while the window is    *)
(* out of focus.                                                           *)
InFlightWhileFocused == window.is_focused => NotificationNotLost

(* Damage of a visible terminal whose lock is free is on its way to the    *)
(* screen: an event about it is queued or the panel is dirty.              *)
DamageNotForgotten ==
    \A p \in Visible :
        terminal[p].damage # "none" /\ ~terminal[p].reading =>
            \/ TerminalDamaged(p) \in events
            \/ RenderRoute(p) \in events
            \/ p \in dirty
            \/ ActiveChanged

(* A dirty panel of the shown tab, or a tab not yet drawn, has a redraw    *)
(* coming: from the platform, a throttling timer or a queued Render.       *)
DirtyIsDrawn ==
    (dirty \cap Visible # {} \/ ActiveChanged) =>
        window.os_redraw \/ timers # {} \/ Render \in events

(* The frame on the screen is of the shown tab unless the next redraw is   *)
(* going to present one.                                                   *)
ShownTabPresented == presented # current_index => Drawn # {}

(* Output of the shown tab reaches the screen: again and again there is a  *)
(* moment at which a redraw has taken all damage of a terminal, unless its *)
(* tab or panel or the window is hidden.                                   *)
OutputShown ==
    \A p \in Talking :
        []<>(p \notin Visible \/ window.is_occluded \/ terminal[p].damage = "none")
=============================================================================

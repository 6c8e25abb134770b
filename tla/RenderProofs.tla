---------------------------- MODULE RenderProofs ----------------------------
(***************************************************************************)
(* No wakeup is lost on the way from the PTY thread to the screen, for any *)
(* number of panels and tabs, with both renderer options off.  The four    *)
(* properties support each other and are inductive together, once two      *)
(* facts are added: a standing redraw request is known to the platform,    *)
(* and the renderer's first look at the window is the only time that       *)
(* damage needs no mark.                                                   *)
(***************************************************************************)
EXTENDS RenderPipeline, TLAPS

(* Both renderer options have their default. *)
DefaultOptions == ~disable_unfocused_render /\ ~disable_occluded_render

(* request_redraw returns early only when the platform has been asked. *)
RequestStands == window.redraw_requested => window.os_redraw

(* NotificationNotLost with the renderer's first look in place of a        *)
(* changed active panel.                                                   *)
FlagJustified ==
    \A p \in Visible :
        terminal[p].in_flight => TerminalDamaged(p) \in events \/ p \in dirty \/ last_active = 0

(* DamageNotForgotten, likewise. *)
DamageJustified ==
    \A p \in Visible :
        terminal[p].damage # "none" /\ ~terminal[p].reading =>
            \/ TerminalDamaged(p) \in events
            \/ RenderRoute(p) \in events
            \/ p \in dirty
            \/ last_active = 0

IInv ==
    /\ TypeOK
    /\ RequestStands
    /\ FlagJustified
    /\ DamageJustified
    /\ DirtyIsDrawn
    /\ ShownTabPresented

-----------------------------------------------------------------------------

(* Events of different kinds or panels are different. *)
LEMMA EventsDiffer ==
    /\ \A p, q : TerminalDamaged(p) # RenderRoute(q)
    /\ \A p : TerminalDamaged(p) # Render /\ RenderRoute(p) # Render
    /\ \A p, q : TerminalDamaged(p) = TerminalDamaged(q) => p = q
    /\ \A p, q : RenderRoute(p) = RenderRoute(q) => p = q
  BY DEF TerminalDamaged, RenderRoute, Render

(* The events sent are events. *)
LEMMA EventsAreEvents ==
    /\ \A p \in Panels : TerminalDamaged(p) \in Event /\ RenderRoute(p) \in Event
    /\ Render \in Event
  BY DEF Event

(* request_redraw and begin_render on the flags of the window. *)
LEMMA RedrawFlags ==
    ASSUME NEW w \in Window
    PROVE  /\ request_redraw(w) \in Window
           /\ begin_render(w) \in Window
           /\ (w.redraw_requested => w.os_redraw) => request_redraw(w).os_redraw
           /\ request_redraw(w).os_redraw \/ ~w.os_redraw
           /\ ~begin_render(w).redraw_requested
  BY DEF request_redraw, begin_render, Window

(* Initially the whole tab is to be drawn by the redraw a new window gets. *)
LEMMA InitIInv == Init => IInv
  <1> SUFFICES ASSUME Init PROVE IInv
    OBVIOUS
  <1>1. TypeOK
    BY RenderAssumption DEF Init, TypeOK, Terminal, Damage, Window
  <1>2. RequestStands /\ DirtyIsDrawn
    BY DEF Init, RequestStands, DirtyIsDrawn
  <1>3. FlagJustified /\ DamageJustified
    BY DEF Init, FlagJustified, DamageJustified
  <1>4. ShownTabPresented
    BY DEF Init, ShownTabPresented
  <1> QED
    BY <1>1, <1>2, <1>3, <1>4 DEF IInv

-----------------------------------------------------------------------------
(* The steps.  Each lemma says that one group of actions preserves IInv.   *)

(* What a redraw is going to draw depends on five variables only. *)
LEMMA DrawnDepends ==
    UNCHANGED <<dirty, current_index, current, hidden, last_active>> =>
        /\ Drawn' = Drawn
        /\ Visible' = Visible
        /\ ActiveChanged' = ActiveChanged
  BY DEF Drawn, DrawnWith, Visible, ActiveChanged, Grid

(* Marking panels dirty draws no less. *)
LEMMA DrawnGrows ==
    /\ dirty \subseteq dirty'
    /\ UNCHANGED <<current_index, current, hidden, last_active>>
    => /\ Drawn \subseteq Drawn'
       /\ Visible' = Visible
       /\ ActiveChanged' = ActiveChanged
  BY DEF Drawn, DrawnWith, Visible, ActiveChanged, Grid

(* The PTY thread sends no event away and damages under the lock: parsing. *)
LEMMA ParseIInv ==
    ASSUME IInv, NEW p \in Panels, NEW d \in Damage, NEW insert \in BOOLEAN,
           Parse(p, d, insert)
    PROVE  IInv'
  <1>1. UNCHANGED <<dirty, current_index, current, hidden, last_active, presented, window, timers>>
    BY DEF Parse
  <1>2. /\ Drawn' = Drawn
        /\ Visible' = Visible
        /\ ActiveChanged' = ActiveChanged
    BY <1>1, DrawnDepends
  <1>3. events \subseteq events'
    BY DEF Parse
  <1>4. Worse(terminal[p].damage, d) \in Damage
    BY DEF Worse, Damage
  <1>5. TypeOK'
    <2>1. terminal' \in [Panels -> Terminal]
      BY <1>4 DEF Parse, IInv, TypeOK, Terminal
    <2>2. events' \subseteq Event
      BY EventsAreEvents DEF Parse, IInv, TypeOK, mark_fully_damaged
    <2> QED
      BY <1>1, <2>1, <2>2 DEF IInv, TypeOK
  <1>6. \A q \in Panels : /\ terminal'[q].in_flight = terminal[q].in_flight
                          /\ q # p => terminal'[q] = terminal[q]
                          /\ q = p => terminal'[q].reading
    BY DEF Parse, IInv, TypeOK, Terminal
  <1>7. FlagJustified'
    BY <1>1, <1>2, <1>3, <1>6 DEF IInv, FlagJustified, Visible, Grid
  <1>8. DamageJustified'
    BY <1>1, <1>2, <1>3, <1>6 DEF IInv, DamageJustified, Visible, Grid
  <1>9. RequestStands' /\ DirtyIsDrawn' /\ ShownTabPresented'
    BY <1>1, <1>2, <1>3 DEF IInv, RequestStands, DirtyIsDrawn, ShownTabPresented
  <1> QED
    BY <1>5, <1>7, <1>8, <1>9 DEF IInv

(* Releasing the lock: damage is announced, or an announcement is already  *)
(* in flight, and that one is justified.                                   *)
LEMMA NotifyIInv ==
    ASSUME IInv, NEW p \in Panels, Notify(p)
    PROVE  IInv'
  <1>1. UNCHANGED <<dirty, current_index, current, hidden, last_active, presented, window, timers>>
    BY DEF Notify
  <1>2. /\ Drawn' = Drawn
        /\ Visible' = Visible
        /\ ActiveChanged' = ActiveChanged
    BY <1>1, DrawnDepends
  <1>3. events \subseteq events'
    BY DEF Notify
  <1>4. TypeOK'
    <2>1. terminal' \in [Panels -> Terminal]
      BY DEF Notify, IInv, TypeOK, Terminal
    <2>2. events' \subseteq Event
      BY EventsAreEvents DEF Notify, IInv, TypeOK
    <2> QED
      BY <1>1, <2>1, <2>2 DEF IInv, TypeOK
  <1>5. \A q \in Panels : q # p => terminal'[q] = terminal[q]
    BY DEF Notify, IInv, TypeOK
  <1>6. /\ terminal'[p].damage = terminal[p].damage
        /\ \/ terminal'[p].in_flight = terminal[p].in_flight
           \/ TerminalDamaged(p) \in events'
        /\ \/ terminal[p].damage = "none"
           \/ terminal[p].in_flight
           \/ TerminalDamaged(p) \in events'
    BY DEF Notify, IInv, TypeOK, Terminal
  <1>7. FlagJustified'
    BY <1>1, <1>2, <1>3, <1>5, <1>6 DEF IInv, FlagJustified, Visible, Grid
  <1>8. DamageJustified'
    BY <1>1, <1>2, <1>3, <1>5, <1>6 DEF IInv, FlagJustified, DamageJustified, Visible, Grid
  <1>9. RequestStands' /\ DirtyIsDrawn' /\ ShownTabPresented'
    BY <1>1, <1>2, <1>3 DEF IInv, RequestStands, DirtyIsDrawn, ShownTabPresented
  <1> QED
    BY <1>4, <1>7, <1>8, <1>9 DEF IInv

(* A panel is marked dirty before its event disappears. *)
LEMMA HandleTerminalDamagedIInv ==
    ASSUME IInv, DefaultOptions, NEW p \in Panels, HandleTerminalDamaged(p)
    PROVE  IInv'
  <1>1. UNCHANGED <<terminal, current_index, current, hidden, last_active, presented, timers>>
    BY DEF HandleTerminalDamaged
  <1>2. /\ dirty' = IF p \in Grid(current_index) THEN dirty \cup {p} ELSE dirty
        /\ window' = IF p \in Grid(current_index) THEN request_redraw(window) ELSE window
        /\ Visible \subseteq Grid(current_index)
    BY DEF HandleTerminalDamaged, may_render, DefaultOptions, Visible
  <1>3. /\ Drawn \subseteq Drawn'
        /\ Visible' = Visible
        /\ ActiveChanged' = ActiveChanged
    BY <1>1, <1>2, DrawnGrows
  <1>4. events' \subseteq events /\ events \subseteq events' \cup {TerminalDamaged(p)}
    BY DEF HandleTerminalDamaged, Take
  <1>5. window \in Window /\ window' \in Window
    BY <1>2, RedrawFlags DEF IInv, TypeOK
  <1>6. TypeOK'
    BY <1>1, <1>2, <1>4, <1>5 DEF IInv, TypeOK
  <1>7. RequestStands' /\ (p \in Grid(current_index) => window'.os_redraw)
    BY <1>2, <1>5, RedrawFlags DEF IInv, RequestStands
  <1>8. Render \in events <=> Render \in events'
    BY <1>4, EventsDiffer
  <1>9. DirtyIsDrawn'
    BY <1>1, <1>2, <1>3, <1>7, <1>8 DEF IInv, DirtyIsDrawn
  <1>10. \A q \in Visible : q # p /\ TerminalDamaged(q) \in events => TerminalDamaged(q) \in events'
    BY <1>4, EventsDiffer
  <1>11. \A q \in Visible : RenderRoute(q) \in events => RenderRoute(q) \in events'
    BY <1>4, EventsDiffer
  <1>12. FlagJustified'
    BY <1>1, <1>2, <1>3, <1>10 DEF IInv, FlagJustified
  <1>13. DamageJustified'
    BY <1>1, <1>2, <1>3, <1>10, <1>11 DEF IInv, DamageJustified
  <1>14. ShownTabPresented'
    BY <1>1, <1>3 DEF IInv, ShownTabPresented
  <1> QED
    BY <1>6, <1>7, <1>9, <1>12, <1>13, <1>14 DEF IInv

(* A throttled event leaves a timer in the place of the redraw. *)
LEMMA HandleRenderRouteIInv ==
    ASSUME IInv, DefaultOptions, NEW p \in Panels, NEW throttled \in BOOLEAN,
           HandleRenderRoute(p, throttled)
    PROVE  IInv'
  <1> DEFINE w == [window EXCEPT !.needs_render_after_occlusion = FALSE]
  <1>1. UNCHANGED <<terminal, current_index, current, hidden, last_active, presented>>
    BY DEF HandleRenderRoute
  <1>2. /\ dirty' = dirty \cup ({p} \cap Grid(current_index))
        /\ window' = IF throttled THEN w ELSE request_redraw(w)
        /\ timers' = IF throttled THEN timers \cup {p} ELSE timers
        /\ Visible \subseteq Grid(current_index)
    BY DEF HandleRenderRoute, may_render, DefaultOptions, Visible
  <1>3. /\ Drawn \subseteq Drawn'
        /\ Visible' = Visible
        /\ ActiveChanged' = ActiveChanged
    BY <1>1, <1>2, DrawnGrows
  <1>4. events' \subseteq events /\ events \subseteq events' \cup {RenderRoute(p)}
    BY DEF HandleRenderRoute, Take
  <1>5. /\ w \in Window
        /\ w.redraw_requested = window.redraw_requested
        /\ w.os_redraw = window.os_redraw
    BY DEF IInv, TypeOK, Window
  <1> HIDE DEF w
  <1>6. window' \in Window
    BY <1>2, <1>5, RedrawFlags
  <1>7. TypeOK'
    BY <1>1, <1>2, <1>4, <1>6 DEF IInv, TypeOK
  <1>8. RequestStands' /\ (window'.os_redraw \/ timers' # {})
    BY <1>2, <1>5, RedrawFlags DEF IInv, RequestStands
  <1>9. DirtyIsDrawn'
    BY <1>8 DEF DirtyIsDrawn
  <1>10. \A q \in Visible : TerminalDamaged(q) \in events => TerminalDamaged(q) \in events'
    BY <1>4, EventsDiffer
  <1>11. \A q \in Visible : q # p /\ RenderRoute(q) \in events => RenderRoute(q) \in events'
    BY <1>4, EventsDiffer
  <1>12. FlagJustified'
    BY <1>1, <1>2, <1>3, <1>10 DEF IInv, FlagJustified
  <1>13. DamageJustified'
    BY <1>1, <1>2, <1>3, <1>10, <1>11 DEF IInv, DamageJustified
  <1>14. ShownTabPresented'
    BY <1>1, <1>3 DEF IInv, ShownTabPresented
  <1> QED
    BY <1>7, <1>8, <1>9, <1>12, <1>13, <1>14 DEF IInv

(* A Render event turns into a request. *)
LEMMA HandleRenderIInv ==
    ASSUME IInv, DefaultOptions, HandleRender
    PROVE  IInv'
  <1> DEFINE w == [window EXCEPT !.needs_render_after_occlusion = FALSE]
  <1>1. UNCHANGED <<terminal, dirty, current_index, current, hidden, last_active, presented, timers>>
    BY DEF HandleRender
  <1>2. window' = request_redraw(w)
    BY DEF HandleRender, may_render, DefaultOptions
  <1>3. /\ Drawn' = Drawn
        /\ Visible' = Visible
        /\ ActiveChanged' = ActiveChanged
    BY <1>1, DrawnDepends
  <1>4. events' \subseteq events /\ events \subseteq events' \cup {Render}
    BY DEF HandleRender, Take
  <1>5. /\ w \in Window
        /\ w.redraw_requested = window.redraw_requested
        /\ w.os_redraw = window.os_redraw
    BY DEF IInv, TypeOK, Window
  <1> HIDE DEF w
  <1>6. TypeOK'
    BY <1>1, <1>2, <1>4, <1>5, RedrawFlags DEF IInv, TypeOK
  <1>7. window'.os_redraw
    BY <1>2, <1>5, RedrawFlags DEF IInv, RequestStands
  <1>8. RequestStands' /\ DirtyIsDrawn'
    BY <1>7 DEF RequestStands, DirtyIsDrawn
  <1>9. \A q \in Visible : /\ TerminalDamaged(q) \in events => TerminalDamaged(q) \in events'
                           /\ RenderRoute(q) \in events => RenderRoute(q) \in events'
    BY <1>4, EventsDiffer
  <1>10. FlagJustified' /\ DamageJustified'
    BY <1>1, <1>3, <1>9 DEF IInv, FlagJustified, DamageJustified
  <1>11. ShownTabPresented'
    BY <1>1, <1>3 DEF IInv, ShownTabPresented
  <1> QED
    BY <1>6, <1>8, <1>10, <1>11 DEF IInv

(* The timer hands over to the Render event it sends. *)
LEMMA TimerFiresIInv ==
    ASSUME IInv, NEW p \in Panels, TimerFires(p)
    PROVE  IInv'
  <1>1. UNCHANGED <<terminal, dirty, current_index, current, hidden, last_active, presented, window>>
    BY DEF TimerFires
  <1>2. /\ Drawn' = Drawn
        /\ Visible' = Visible
        /\ ActiveChanged' = ActiveChanged
    BY <1>1, DrawnDepends
  <1>3. events' = events \cup {Render} /\ timers' = timers \ {p}
    BY DEF TimerFires
  <1>4. TypeOK'
    BY <1>1, <1>3, EventsAreEvents DEF IInv, TypeOK
  <1>5. RequestStands' /\ DirtyIsDrawn'
    BY <1>1, <1>3 DEF IInv, RequestStands, DirtyIsDrawn
  <1>6. FlagJustified' /\ DamageJustified'
    BY <1>1, <1>2, <1>3 DEF IInv, FlagJustified, DamageJustified
  <1>7. ShownTabPresented'
    BY <1>1, <1>2 DEF IInv, ShownTabPresented
  <1> QED
    BY <1>4, <1>5, <1>6, <1>7 DEF IInv

(* Focus and occlusion withdraw no redraw from the platform. *)
LEMMA WindowIInv ==
    ASSUME IInv, NEW on \in BOOLEAN, Focused(on) \/ Occluded(on)
    PROVE  IInv'
  <1>1. UNCHANGED <<terminal, dirty, current_index, current, hidden, last_active, presented, events, timers>>
    BY DEF Focused, Occluded
  <1>2. /\ Drawn' = Drawn
        /\ Visible' = Visible
        /\ ActiveChanged' = ActiveChanged
    BY <1>1, DrawnDepends
  <1>3. /\ window' \in Window
        /\ window'.redraw_requested => window'.os_redraw
        /\ window.os_redraw => window'.os_redraw
    <2>1. CASE Focused(on)
      <3> DEFINE w == [window EXCEPT !.is_focused = on]
      <3>1. window' = IF on THEN request_redraw(w) ELSE w
        BY <2>1 DEF Focused
      <3>2. /\ w \in Window
            /\ w.redraw_requested = window.redraw_requested
            /\ w.os_redraw = window.os_redraw
        BY DEF IInv, TypeOK, Window
      <3> HIDE DEF w
      <3> QED
        BY <3>1, <3>2, RedrawFlags DEF IInv, RequestStands
    <2>2. CASE Occluded(on)
      BY <2>2 DEF Occluded, IInv, TypeOK, Window, RequestStands
    <2> QED
      BY <2>1, <2>2
  <1>4. TypeOK'
    BY <1>1, <1>3 DEF IInv, TypeOK
  <1>5. RequestStands' /\ DirtyIsDrawn'
    BY <1>1, <1>2, <1>3 DEF IInv, RequestStands, DirtyIsDrawn
  <1>6. FlagJustified' /\ DamageJustified'
    BY <1>1, <1>2 DEF IInv, FlagJustified, DamageJustified
  <1>7. ShownTabPresented'
    BY <1>1, <1>2 DEF IInv, ShownTabPresented
  <1> QED
    BY <1>4, <1>5, <1>6, <1>7 DEF IInv

(* A key or the wheel asks for a redraw once it has marked or damaged. *)
LEMMA InputIInv ==
    ASSUME IInv, Interact \/ ScrollDisplay
    PROVE  IInv'
  <1> DEFINE p == current[current_index]
  <1>1. UNCHANGED <<current_index, current, hidden, last_active, presented, timers>>
    BY DEF Interact, ScrollDisplay
  <1>2. p \in Panels
    BY DEF IInv, TypeOK, Grid
  <1>3. dirty \subseteq dirty' /\ dirty' \subseteq dirty \cup {p}
    BY DEF Interact, ScrollDisplay
  <1>4. /\ Drawn \subseteq Drawn'
        /\ Visible' = Visible
        /\ ActiveChanged' = ActiveChanged
    BY <1>1, <1>3, DrawnGrows
  <1>5. window' \in Window /\ window'.os_redraw
    BY RedrawFlags DEF Interact, ScrollDisplay, IInv, TypeOK, RequestStands
  <1>6. events \subseteq events' /\ events' \subseteq events \cup {RenderRoute(p)}
    BY DEF Interact, ScrollDisplay, mark_fully_damaged
  <1>7. terminal' \in [Panels -> Terminal]
    BY DEF Interact, ScrollDisplay, IInv, TypeOK, Terminal, Damage
  <1>8. TypeOK'
    BY <1>1, <1>2, <1>3, <1>5, <1>6, <1>7, EventsAreEvents DEF IInv, TypeOK
  <1>9. \A q \in Panels : /\ terminal'[q].in_flight = terminal[q].in_flight
                          /\ \/ terminal'[q] = terminal[q]
                             \/ RenderRoute(q) \in events'
                             \/ /\ terminal'[q].damage = terminal[q].damage
                                /\ terminal'[q].reading = terminal[q].reading
    BY DEF Interact, ScrollDisplay, mark_fully_damaged, IInv, TypeOK, Terminal
  <1>10. RequestStands' /\ DirtyIsDrawn'
    BY <1>5 DEF RequestStands, DirtyIsDrawn
  <1>11. FlagJustified'
    BY <1>1, <1>3, <1>4, <1>6, <1>9 DEF IInv, FlagJustified, Visible, Grid
  <1>12. DamageJustified'
    BY <1>1, <1>3, <1>4, <1>6, <1>9 DEF IInv, DamageJustified, Visible, Grid
  <1>13. ShownTabPresented'
    BY <1>1, <1>4 DEF IInv, ShownTabPresented
  <1> QED
    BY <1>8, <1>10, <1>11, <1>12, <1>13 DEF IInv

(* Switching to a tab marks all of it, whatever happened to it while it    *)
(* was hidden.                                                             *)
LEMMA SelectTabIInv ==
    ASSUME IInv, NEW t \in 0 .. Tabs - 1, SelectTab(t)
    PROVE  IInv'
  <1>1. /\ UNCHANGED <<terminal, current, hidden, last_active, presented, events, timers>>
        /\ current_index' = t
        /\ dirty' = dirty \cup Grid(t)
    BY DEF SelectTab
  <1>2. Visible' = Grid(t) \ hidden /\ current[t] \in Visible'
    BY <1>1 DEF Visible, Grid, IInv, TypeOK
  <1>3. window' \in Window /\ window'.os_redraw
    BY RedrawFlags DEF SelectTab, IInv, TypeOK, RequestStands
  <1>4. TypeOK'
    BY <1>1, <1>3 DEF IInv, TypeOK, Grid
  <1>5. RequestStands' /\ DirtyIsDrawn'
    BY <1>3 DEF RequestStands, DirtyIsDrawn
  <1>6. FlagJustified' /\ DamageJustified'
    BY <1>1, <1>2 DEF FlagJustified, DamageJustified
  <1>7. ShownTabPresented'
    <2>1. current[t] \in Drawn'
      BY <1>1, <1>2 DEF Drawn, DrawnWith
    <2> QED
      BY <2>1 DEF ShownTabPresented
  <1> QED
    BY <1>4, <1>5, <1>6, <1>7 DEF IInv

(* The newly selected panel is dirty, so the redraw presents a frame. *)
LEMMA SelectSplitIInv ==
    ASSUME IInv, NEW p \in Panels, SelectSplit(p)
    PROVE  IInv'
  <1>1. /\ UNCHANGED <<terminal, current_index, hidden, last_active, presented, events, timers>>
        /\ dirty' = dirty \cup {current[current_index], p}
        /\ current' = [current EXCEPT ![current_index] = p]
        /\ p \in Visible
    BY DEF SelectSplit
  <1>2. Visible' = Visible
    BY <1>1 DEF Visible, Grid
  <1>3. window' \in Window /\ window'.os_redraw
    BY RedrawFlags DEF SelectSplit, IInv, TypeOK, RequestStands
  <1>4. TypeOK'
    BY <1>1, <1>3 DEF IInv, TypeOK, Grid, Visible
  <1>5. RequestStands' /\ DirtyIsDrawn'
    BY <1>3 DEF RequestStands, DirtyIsDrawn
  <1>6. FlagJustified' /\ DamageJustified'
    BY <1>1, <1>2 DEF IInv, FlagJustified, DamageJustified
  <1>7. ShownTabPresented'
    <2>1. p \in Drawn'
      BY <1>1, <1>2 DEF Drawn, DrawnWith
    <2> QED
      BY <2>1 DEF ShownTabPresented
  <1> QED
    BY <1>4, <1>5, <1>6, <1>7 DEF IInv

(* Events announced by panels are events. *)
LEMMA AnnouncedAreEvents ==
    ASSUME IInv, NEW S \in SUBSET Panels
    PROVE  events \cup UNION {mark_fully_damaged(p) : p \in S} \subseteq Event
  <1>1. \A p \in Panels : mark_fully_damaged(p) \subseteq Event
    BY EventsAreEvents DEF mark_fully_damaged
  <1> QED
    BY <1>1 DEF IInv, TypeOK

(* A redraw takes the damage of what it draws and clears its flag; what it *)
(* does not draw is justified by a queued event, since a visible dirty     *)
(* panel is always drawn.                                                  *)
LEMMA RedrawIInv ==
    ASSUME IInv, NEW animates \in BOOLEAN, Redraw(animates)
    PROVE  IInv'
  <1> DEFINE active == current[current_index]
             w == begin_render(window)
             inserting == {p \in Drawn : terminal[p].insert}
  <1>1. /\ UNCHANGED <<current_index, current, hidden, timers>>
        /\ window' = IF active \in dirty' THEN request_redraw(w) ELSE w
        /\ last_active' = NodeOf[active]
        /\ terminal' = [p \in Panels |-> IF p \in Drawn THEN Snapshot(p) ELSE terminal[p]]
        /\ events' = events \cup UNION {mark_fully_damaged(p) : p \in inserting}
        /\ presented' = IF Drawn # {} \/ animates THEN current_index ELSE presented
        /\ dirty' = (dirty \ Drawn) \cup (IF animates THEN {active} ELSE {})
    BY DEF Redraw, Draw
  <1>2. active \in Visible /\ Visible \subseteq Panels
    BY DEF IInv, TypeOK, Grid, Visible
  <1>3. Drawn \subseteq Visible /\ Visible \cap dirty \subseteq Drawn
    BY DEF Drawn, DrawnWith
  <1>4. Drawn \in SUBSET Panels /\ inserting \in SUBSET Panels
    BY <1>2, <1>3
  <1>5. Visible' = Visible
    BY <1>1 DEF Visible, Grid
  <1>6. w \in Window /\ ~w.redraw_requested
    BY RedrawFlags DEF IInv, TypeOK
  <1> HIDE DEF w, inserting
  <1>7. window' \in Window /\ (active \in dirty' => window'.os_redraw)
    BY <1>1, <1>6, RedrawFlags
  <1>8. RequestStands'
    BY <1>1, <1>6, RedrawFlags DEF RequestStands
  <1>9. /\ terminal' \in [Panels -> Terminal]
        /\ last_active' \in Nat
        /\ events \subseteq events' /\ events' \subseteq Event
        /\ presented' \in 0 .. Tabs - 1
        /\ dirty' \subseteq Panels
    <2>1. terminal' \in [Panels -> Terminal]
      BY <1>1 DEF Snapshot, IInv, TypeOK, Terminal, Damage
    <2>2. events \subseteq events' /\ events' \subseteq Event
      BY <1>1, <1>4, AnnouncedAreEvents
    <2>3. last_active' \in Nat
      BY <1>1, <1>2, RenderAssumption
    <2> QED
      BY <1>1, <1>2, <2>1, <2>2, <2>3 DEF IInv, TypeOK
  <1>10. TypeOK'
    BY <1>1, <1>7, <1>9 DEF IInv, TypeOK, Grid
  <1>11. ~ActiveChanged'
    BY <1>1 DEF ActiveChanged
  <1>12. DirtyIsDrawn'
    BY <1>1, <1>3, <1>5, <1>7, <1>11 DEF DirtyIsDrawn
  <1>13. ASSUME NEW p \in Visible, p \notin Drawn
         PROVE  /\ terminal'[p] = terminal[p]
                /\ p \notin dirty
                /\ last_active # 0
    BY <1>1, <1>2, <1>3, <1>13, RenderAssumption DEF Drawn, DrawnWith
  <1>14. ASSUME NEW p \in Visible, p \in Drawn
         PROVE  terminal'[p].damage = "none" /\ ~terminal'[p].in_flight
    BY <1>1, <1>2, <1>14 DEF Snapshot, IInv, TypeOK, Terminal
  <1>15. FlagJustified'
    BY <1>5, <1>9, <1>13, <1>14 DEF IInv, FlagJustified
  <1>16. DamageJustified'
    BY <1>5, <1>9, <1>13, <1>14 DEF IInv, DamageJustified
  <1>17. ShownTabPresented'
    BY <1>1 DEF IInv, ShownTabPresented
  <1> QED
    BY <1>8, <1>10, <1>12, <1>15, <1>16, <1>17 DEF IInv

(* Selecting a panel by its side renders without a redraw of the platform; *)
(* the old panel is marked, so a frame is presented in any case.           *)
LEMMA SelectSplitSideIInv ==
    ASSUME IInv, NEW p \in Panels, NEW animates \in BOOLEAN, SelectSplitSide(p, animates)
    PROVE  IInv'
  <1> DEFINE active == current[current_index]
             drawn == DrawnWith(p, dirty \cup {active})
             inserting == {q \in drawn : terminal[q].insert}
  <1>1. /\ UNCHANGED <<current_index, hidden, timers>>
        /\ p \in Visible
        /\ current' = [current EXCEPT ![current_index] = p]
        /\ window' = request_redraw(window)
        /\ last_active' = NodeOf[p]
        /\ terminal' = [q \in Panels |-> IF q \in drawn THEN Snapshot(q) ELSE terminal[q]]
        /\ events' = events \cup UNION {mark_fully_damaged(q) : q \in inserting}
        /\ presented' = IF drawn # {} \/ animates THEN current_index ELSE presented
        /\ dirty' = (dirty \ drawn) \cup (IF animates THEN {p} ELSE {})
    BY DEF SelectSplitSide, Draw
  <1>2. active \in Visible /\ Visible \subseteq Panels
    BY DEF IInv, TypeOK, Grid, Visible
  <1>3. drawn \subseteq Visible /\ Visible \cap dirty \subseteq drawn /\ active \in drawn
    BY <1>2 DEF DrawnWith
  <1>4. drawn \in SUBSET Panels /\ inserting \in SUBSET Panels
    BY <1>2, <1>3
  <1>5. Visible' = Visible
    BY <1>1 DEF Visible, Grid
  <1>6. ASSUME NEW q \in Visible, q \notin drawn
        PROVE  last_active # 0
    BY <1>6, RenderAssumption DEF DrawnWith
  <1> HIDE DEF drawn, inserting
  <1>7. window' \in Window /\ window'.os_redraw
    BY <1>1, RedrawFlags DEF IInv, TypeOK, RequestStands
  <1>8. /\ terminal' \in [Panels -> Terminal]
        /\ last_active' \in Nat
        /\ events \subseteq events' /\ events' \subseteq Event
        /\ presented' = current_index
        /\ dirty' \subseteq Panels
    <2>1. terminal' \in [Panels -> Terminal]
      BY <1>1 DEF Snapshot, IInv, TypeOK, Terminal, Damage
    <2>2. events \subseteq events' /\ events' \subseteq Event
      BY <1>1, <1>4, AnnouncedAreEvents
    <2>3. last_active' \in Nat
      BY <1>1, RenderAssumption
    <2> QED
      BY <1>1, <1>3, <2>1, <2>2, <2>3 DEF IInv, TypeOK
  <1>9. TypeOK'
    BY <1>1, <1>7, <1>8 DEF IInv, TypeOK, Grid, Visible
  <1>10. RequestStands' /\ DirtyIsDrawn'
    BY <1>7 DEF RequestStands, DirtyIsDrawn
  <1>11. ASSUME NEW q \in Visible, q \notin drawn
         PROVE  terminal'[q] = terminal[q] /\ q \notin dirty /\ last_active # 0
    BY <1>1, <1>2, <1>3, <1>6, <1>11
  <1>12. ASSUME NEW q \in Visible, q \in drawn
         PROVE  terminal'[q].damage = "none" /\ ~terminal'[q].in_flight
    BY <1>1, <1>2, <1>12 DEF Snapshot, IInv, TypeOK, Terminal
  <1>13. FlagJustified'
    BY <1>5, <1>8, <1>11, <1>12 DEF IInv, FlagJustified
  <1>14. DamageJustified'
    BY <1>5, <1>8, <1>11, <1>12 DEF IInv, DamageJustified
  <1>15. ShownTabPresented'
    BY <1>1, <1>8 DEF ShownTabPresented
  <1> QED
    BY <1>9, <1>10, <1>13, <1>14, <1>15 DEF IInv

(* A zoom and its end draw all they make visible, so the damage of the     *)
(* panels that were hidden is taken, whatever became of their events.      *)
LEMMA ToggleSplitZoomIInv ==
    ASSUME IInv, NEW animates \in BOOLEAN, ToggleSplitZoom(animates)
    PROVE  IInv'
  <1> DEFINE active == current[current_index]
             inserting == {p \in Zoomed \ {active} : terminal[p].insert}
  <1>1. /\ UNCHANGED <<current_index, current, timers>>
        /\ window' = request_redraw(window)
        /\ hidden' = (hidden \cup Grid(current_index)) \ Zoomed
        /\ last_active' = NodeOf[active]
        /\ terminal' = [p \in Panels |-> IF p \in Zoomed THEN Snapshot(p) ELSE terminal[p]]
        /\ events' = events \cup UNION {mark_fully_damaged(p) : p \in inserting}
        /\ presented' = IF Zoomed # {} \/ animates THEN current_index ELSE presented
        /\ dirty' = (dirty \ Zoomed) \cup (IF animates THEN {active} ELSE {})
    BY DEF ToggleSplitZoom, Draw
  <1>2. active \in Grid(current_index) /\ Grid(current_index) \subseteq Panels
    BY DEF IInv, TypeOK, Grid
  <1>3. active \in Zoomed /\ Zoomed \subseteq Grid(current_index)
    BY <1>2 DEF Zoomed
  <1>4. Zoomed \in SUBSET Panels /\ inserting \in SUBSET Panels
    BY <1>2, <1>3
  <1>5. Visible' = Zoomed
    BY <1>1, <1>3 DEF Visible, Grid
  <1> HIDE DEF inserting
  <1>6. window' \in Window /\ window'.os_redraw
    BY <1>1, RedrawFlags DEF IInv, TypeOK, RequestStands
  <1>7. /\ terminal' \in [Panels -> Terminal]
        /\ last_active' \in Nat
        /\ events' \subseteq Event
        /\ presented' = current_index
        /\ dirty' \subseteq Panels
    <2>1. terminal' \in [Panels -> Terminal]
      BY <1>1 DEF Snapshot, IInv, TypeOK, Terminal, Damage
    <2>2. events' \subseteq Event
      BY <1>1, <1>4, AnnouncedAreEvents
    <2>3. last_active' \in Nat
      BY <1>1, <1>2, RenderAssumption
    <2> QED
      BY <1>1, <1>2, <1>3, <2>1, <2>2, <2>3 DEF IInv, TypeOK
  <1>8. hidden' \subseteq Panels /\ \A t \in 0 .. Tabs - 1 : current[t] \in Grid(t) \ hidden'
    <2>1. ASSUME NEW t \in 0 .. Tabs - 1 PROVE current[t] \notin hidden'
      <3>1. current[t] \in Grid(t) \ hidden
        BY DEF IInv, TypeOK
      <3>2. CASE t = current_index
        BY <3>2, <1>1, <1>3
      <3>3. CASE t # current_index
        BY <3>1, <3>3, <1>1 DEF Grid
      <3> QED
        BY <3>2, <3>3
    <2> QED
      BY <2>1, <1>1, <1>2 DEF IInv, TypeOK
  <1>9. TypeOK'
    BY <1>1, <1>6, <1>7, <1>8 DEF IInv, TypeOK, Grid
  <1>10. RequestStands' /\ DirtyIsDrawn'
    BY <1>6 DEF RequestStands, DirtyIsDrawn
  <1>11. \A p \in Zoomed : terminal'[p].damage = "none" /\ ~terminal'[p].in_flight
    BY <1>1, <1>4 DEF Snapshot, IInv, TypeOK, Terminal
  <1>12. FlagJustified' /\ DamageJustified'
    BY <1>5, <1>11 DEF FlagJustified, DamageJustified
  <1>13. ShownTabPresented'
    BY <1>1, <1>7 DEF ShownTabPresented
  <1> QED
    BY <1>9, <1>10, <1>12, <1>13 DEF IInv

(* Every step preserves IInv. *)
LEMMA NextIInv ==
    ASSUME DefaultOptions, IInv, [Next]_vars
    PROVE  IInv'
  <1>1. CASE UNCHANGED vars
    BY <1>1 DEF vars, IInv, TypeOK, RequestStands, FlagJustified, DamageJustified,
                DirtyIsDrawn, ShownTabPresented, ActiveChanged, Drawn, DrawnWith, Visible, Grid
  <1>2. CASE PtyThread
    BY <1>2, ParseIInv, NotifyIInv, RenderAssumption DEF PtyThread
  <1>3. CASE HandleEvent
    BY <1>3, HandleTerminalDamagedIInv, HandleRenderRouteIInv, HandleRenderIInv
       DEF HandleEvent
  <1>4. CASE \E p \in Panels : TimerFires(p)
    BY <1>4, TimerFiresIInv
  <1>5. CASE User
    BY <1>5, WindowIInv, InputIInv, SelectTabIInv, SelectSplitIInv, SelectSplitSideIInv,
       ToggleSplitZoomIInv DEF User
  <1>6. CASE \E animates \in BOOLEAN : Redraw(animates)
    BY <1>6, RedrawIInv
  <1> QED
    BY <1>1, <1>2, <1>3, <1>4, <1>5, <1>6 DEF Next

(* Before the renderer's first look every active panel is a new one, so    *)
(* the invariant gives the two properties of the runs.                     *)
LEMMA IInvImplies == IInv => NotificationNotLost /\ DamageNotForgotten
  <1> SUFFICES ASSUME IInv PROVE NotificationNotLost /\ DamageNotForgotten
    OBVIOUS
  <1>1. last_active = 0 => ActiveChanged
    BY RenderAssumption DEF IInv, TypeOK, Grid, ActiveChanged
  <1> QED
    BY <1>1 DEF IInv, FlagJustified, DamageJustified, NotificationNotLost, DamageNotForgotten

-----------------------------------------------------------------------------

(* The inductive invariant holds throughout. *)
THEOREM Invariance == DefaultOptions => (Spec => []IInv)
  <1> SUFFICES ASSUME DefaultOptions PROVE Spec => []IInv
    OBVIOUS
  <1>1. Init => IInv
    BY InitIInv
  <1>2. IInv /\ [Next]_vars => IInv'
    BY NextIInv
  <1> QED
    BY <1>1, <1>2, PTL DEF Spec

(* All variables keep their types, whatever the numbers of tabs and        *)
(* panels; the current panel of a tab is one of its panels.                *)
THEOREM TypeCorrect == DefaultOptions => (Spec => []TypeOK)
  <1> SUFFICES ASSUME DefaultOptions PROVE Spec => []TypeOK
    OBVIOUS
  <1>1. IInv => TypeOK
    BY DEF IInv
  <1> QED
    BY <1>1, Invariance, PTL

(* damage_event_in_flight never outlives the event or the mark that will   *)
(* clear it, so the PTY thread is never silenced for good.                 *)
THEOREM NotificationCorrect == DefaultOptions => (Spec => []NotificationNotLost)
  <1> SUFFICES ASSUME DefaultOptions PROVE Spec => []NotificationNotLost
    OBVIOUS
  <1>1. IInv => NotificationNotLost
    BY IInvImplies
  <1> QED
    BY <1>1, Invariance, PTL

(* Damage of a visible terminal whose lock is free has an event queued or  *)
(* its panel marked.                                                       *)
THEOREM DamageCorrect == DefaultOptions => (Spec => []DamageNotForgotten)
  <1> SUFFICES ASSUME DefaultOptions PROVE Spec => []DamageNotForgotten
    OBVIOUS
  <1>1. IInv => DamageNotForgotten
    BY IInvImplies
  <1> QED
    BY <1>1, Invariance, PTL

(* A visible panel that is marked dirty has a redraw coming. *)
THEOREM DirtyCorrect == DefaultOptions => (Spec => []DirtyIsDrawn)
  <1> SUFFICES ASSUME DefaultOptions PROVE Spec => []DirtyIsDrawn
    OBVIOUS
  <1>1. IInv => DirtyIsDrawn
    BY DEF IInv
  <1> QED
    BY <1>1, Invariance, PTL

(* The screen shows the selected tab, or the next redraw presents it. *)
THEOREM PresentedCorrect == DefaultOptions => (Spec => []ShownTabPresented)
  <1> SUFFICES ASSUME DefaultOptions PROVE Spec => []ShownTabPresented
    OBVIOUS
  <1>1. IInv => ShownTabPresented
    BY DEF IInv
  <1> QED
    BY <1>1, Invariance, PTL
=============================================================================

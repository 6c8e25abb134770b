------------------------------- MODULE Layout -------------------------------
(***************************************************************************)
(* The panels of one tab (frontends/rioterm/src/layout/mod.rs,             *)
(* ContextGrid): a tree of containers whose leaves are the panels.  A      *)
(* layout is                                                               *)
(*    inner      the panels, known by their route ids                      *)
(*    kids       the children of every container, in order                 *)
(*    columns    the containers that stack their children                  *)
(*    current    the panel with the focus                                  *)
(*    root       the panel that counts as the tab's first                  *)
(*    fits       the size in the root container's style is the window's    *)
(*    hidden     nodes whose style says Display::None                      *)
(*    saved      zoomed_panel_styles: the nodes of the snapshot and        *)
(*               whether its size fits; no nodes when there is none        *)
(*    misplaced  (ghost) what a zoom has led to: "focus" and "size", see   *)
(*               ZoomConsistent in module ContextManager                   *)
(* The container that a split makes for new panel r is -r, the root        *)
(* container is 0.  Panel sizes and positions are abstracted to what their *)
(* order can be.                                                           *)
(***************************************************************************)
EXTENDS Integers, Sequences, SequencesExt, FiniteSetsExt

root_node == 0

NotZoomed == [nodes |-> {}, fits |-> FALSE]

NewLayout(r) ==
    [inner |-> {r}, kids |-> [n \in {root_node} |-> <<r>>], columns |-> {}, current |-> r,
     root |-> r, fits |-> TRUE, hidden |-> {}, saved |-> NotZoomed, misplaced |-> {}]

Containers(g) == DOMAIN g.kids
Kids(g, n) == IF n \in Containers(g) THEN g.kids[n] ELSE <<>>

(* All that hangs below a node, and the node. *)
Subtree(g) ==
    LET below[n \in Containers(g) \cup g.inner] ==
            {n} \cup UNION {below[k] : k \in Range(Kids(g, n))}
    IN  below

(* collect_tree_nodes and collect_path_to_root *)
TreeNodes(g) == Subtree(g)[root_node]
PathTo(g, p) == {n \in TreeNodes(g) : p \in Subtree(g)[n]}

Parent(g, n) == CHOOSE c \in Containers(g) : n \in Range(g.kids[c])

VisiblePanels(g) == g.inner \ g.hidden
IsZoomed(g) == g.saved.nodes # {}

-----------------------------------------------------------------------------
(* get_ordered_keys sorts the visible panels by the top, then by the left  *)
(* edge.  Which of two panels comes first follows from the container where *)
(* their branches part, except for two panels that both have others above  *)
(* them.                                                                   *)

(* The panels along the top edge of a node. *)
TopEdge(g) ==
    LET top[n \in Containers(g) \cup g.inner] ==
            IF n \in g.inner THEN {n}
            ELSE IF n \in g.columns THEN top[g.kids[n][1]]
            ELSE UNION {top[k] : k \in Range(g.kids[n])}
    IN  top

(* p comes before q for sure: they are in branches i and j of container n. *)
Precedes(g, below, top, p, q) ==
    \E n \in Containers(g) : \E i, j \in DOMAIN g.kids[n] :
        /\ i # j /\ p \in below[g.kids[n][i]] /\ q \in below[g.kids[n][j]]
        /\ IF n \in g.columns THEN i < j
           ELSE p \in top[g.kids[n][i]] /\ (i < j \/ q \notin top[g.kids[n][j]])

get_ordered_keys(g) ==
    {keys \in SetToSeqs(VisiblePanels(g)) :
        \A i, j \in DOMAIN keys : j < i => ~Precedes(g, Subtree(g), TopEdge(g), keys[i], keys[j])}

(* The panel that keys holds d places behind the current one, 0 for none. *)
Neighbour(g, keys, d) ==
    LET i == IF \E k \in DOMAIN keys : keys[k] = g.current
             THEN (CHOOSE k \in DOMAIN keys : keys[k] = g.current) + d ELSE 0
    IN  IF i \in DOMAIN keys THEN keys[i] ELSE 0

-----------------------------------------------------------------------------
(* Zooming keeps the styles of all nodes aside and hides what is not on    *)
(* the way to the current panel.  The size of the window is one of the     *)
(* styles.                                                                 *)

(* restore_zoomed_panel_styles, ensure_unzoomed *)
Unzoomed(g) ==
    IF ~IsZoomed(g) THEN g
    ELSE [g EXCEPT !.hidden = @ \ g.saved.nodes, !.fits = g.saved.fits, !.saved = NotZoomed,
                   !.misplaced = (@ \ {"focus"}) \cup IF g.saved.fits THEN {} ELSE {"size"}]

Zoomed(g) ==
    IF Cardinality(g.inner) <= 1 \/ g.current \notin g.inner THEN g
    ELSE [g EXCEPT !.hidden = TreeNodes(g) \ (PathTo(g, g.current) \cup {root_node}),
                   !.saved = [nodes |-> TreeNodes(g), fits |-> g.fits]]

toggle_current_split_zoom(g) == IF IsZoomed(g) THEN Unzoomed(g) ELSE Zoomed(g)

(* The window has another size; resize and resize_inactive tell the tree. *)
Outgrown(g) == [g EXCEPT !.fits = FALSE, !.saved.fits = FALSE]
Resized(g) == [g EXCEPT !.fits = TRUE, !.misplaced = @ \ {"size"}]

-----------------------------------------------------------------------------

(* A child of a container gives way to some nodes, or none, at its index.  *)
ReplaceChild(children, child, nodes) ==
    LET idx == SelectInSeq(children, LAMBDA n : n = child)
    IN  IF idx = 0 THEN children
        ELSE SubSeq(children, 1, idx - 1) \o nodes \o SubSeq(children, idx + 1, Len(children))

(* split_panel: the current panel and the new one share a new container in *)
(* the place of the current one.                                           *)
split_panel(g, r, down) ==
    LET parent == Parent(g, g.current)
    IN  [g EXCEPT !.inner = @ \cup {r},
                  !.kids = [n \in Containers(g) \cup {-r} |->
                                IF n = -r THEN <<g.current, r>>
                                ELSE IF n = parent THEN ReplaceChild(@[n], g.current, <<-r>>)
                                ELSE @[n]],
                  !.columns = IF down THEN @ \cup {-r} ELSE @,
                  !.current = r]

Split(g, r, down) == IF g.current \in g.inner THEN split_panel(Unzoomed(g), r, down) ELSE g

WithoutContainer(g, c) ==
    [g EXCEPT !.kids = [n \in Containers(g) \ {c} |-> ReplaceChild(@[n], c, g.kids[c])],
              !.columns = @ \ {c}]

(* A plausible mistake: the container stays, around its last panel. *)
KeepsContainers(g) == g

(* A container with one child, or none, gives its place to it. *)
collapse_single_child_containers(g) ==
    FoldSet(LAMBDA c, h : WithoutContainer(h, c), g,
            {c \in Containers(g) \ {root_node} : Len(g.kids[c]) <= 1})

(* The next panel in the order, or the previous one of the last. *)
Heir(g, keys) ==
    IF Neighbour(g, keys, 1) # 0 THEN Neighbour(g, keys, 1) ELSE Neighbour(g, keys, -1)

Without(g, p) ==
    [g EXCEPT !.inner = @ \ {p}, !.kids = [n \in Containers(g) |-> ReplaceChild(@[n], p, <<>>)]]

(* The panels left when the current one of u is gone. *)
Inherited(left, u, keys, r) == [left EXCEPT !.current = Heir(u, keys), !.root = r]

(* remove_current: the new root is any panel, inner is a hash map. *)
remove_current(g) ==
    LET u == Unzoomed(g)
        left == collapse_single_child_containers(Without(u, u.current))
    IN  IF Cardinality(g.inner) <= 1 \/ g.current \notin g.inner THEN {u}
        ELSE {Inherited(left, u, keys, r) :
                keys \in get_ordered_keys(u),
                r \in IF u.root = u.current THEN left.inner ELSE {u.root}}

-----------------------------------------------------------------------------

(* Every split and removal rebuilds the tree by hand, next to the map of   *)
(* panels that the rest of the program uses: the leaves are the panels,    *)
(* each once, no container but the root's is without a choice, and focus   *)
(* and root are panels (current() panics otherwise).                       *)
LayoutSound(g) ==
    /\ TreeNodes(g) = Containers(g) \cup g.inner
    /\ \A n \in TreeNodes(g) \ {root_node} :
            \E c \in Containers(g) : \E i \in DOMAIN g.kids[c] :
                /\ g.kids[c][i] = n
                /\ \A d \in Containers(g) : \A j \in DOMAIN g.kids[d] :
                        g.kids[d][j] = n => c = d /\ i = j
    /\ \A c \in Containers(g) \ {root_node} : Len(g.kids[c]) >= 2
    /\ Len(g.kids[root_node]) = 1
    /\ {g.current, g.root} \subseteq g.inner /\ g.columns \subseteq Containers(g)

(* A zoom hides all panels but one, no node stays hidden without a         *)
(* snapshot to bring it back, and the snapshot knows every node.           *)
ZoomSound(g) ==
    /\ IF IsZoomed(g) THEN Cardinality(VisiblePanels(g)) = 1 /\ g.saved.nodes = TreeNodes(g)
       ELSE g.hidden = {}
    /\ g.current \in VisiblePanels(g) \/ "focus" \in g.misplaced
=============================================================================

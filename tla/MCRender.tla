------------------------------ MODULE MCRender ------------------------------
(* Two tabs, the first split in two; node ids start anew in every tab. *)
EXTENDS RenderPipeline, TLC

CONSTANTS left, right, other

TwoTabs == (left :> 0) @@ (right :> 0) @@ (other :> 1)
Nodes == (left :> 1) @@ (right :> 2) @@ (other :> 1)
=============================================================================

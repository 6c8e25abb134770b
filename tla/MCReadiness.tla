----------------------------- MODULE MCReadiness -----------------------------
(***************************************************************************)
(* The instance of run readiness: two senders race on channel c1 for the   *)
(* pending counter, and the node of c2 meets c1's in the queue; its sender *)
(* only goes away, which announces itself like a message.                  *)
(***************************************************************************)
EXTENDS Readiness

MCChannelOf == [s \in Senders |-> IF s = "s2" THEN "c2" ELSE "c1"]
MCMaxSends == [s \in Senders |-> IF s = "s2" THEN 0 ELSE 1]
=============================================================================

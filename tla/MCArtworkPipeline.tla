-------------------------- MODULE MCArtworkPipeline --------------------------
(***************************************************************************)
(* Two covers, three requests and a queue of one: enough for a leader in   *)
(* flight, another in the queue, and a third request that follows one of   *)
(* them, is refused, or comes from the next document.                      *)
(***************************************************************************)
EXTENDS ArtworkPipeline

CONSTANTS k1, k2
MCKey == {k1, k2}
=============================================================================

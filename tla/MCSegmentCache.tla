--------------------------- MODULE MCSegmentCache ---------------------------
(***************************************************************************)
(* SegmentCache on a small instance.                                       *)
(***************************************************************************)
EXTENDS SegmentCache, TLC

MCRequests == {<<1, 4>>, <<3, 6>>}
MCFutureRequests == {<<1, 4>>, <<1, 6>>}

MCSymmetry == Permutations(Clients)

=============================================================================

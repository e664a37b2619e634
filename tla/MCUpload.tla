------------------------------ MODULE MCUpload ------------------------------
(***************************************************************************)
(* Values of the constants of Upload for TLC.                              *)
(***************************************************************************)
EXTENDS Upload, TLC

CONSTANTS small, large

\* Two images of which the larger does not fit in the room of the smaller.
TwoImages == small :> 1 @@ large :> 2

=============================================================================

---------------------------- MODULE MCRedundancy ----------------------------
(***************************************************************************)
(* Redundancy with three stripes of two bytes.  The ranges written start   *)
(* and end inside stripes, cover two of them, and reach the end of the     *)
(* block, as a truncation does.                                            *)
(***************************************************************************)
EXTENDS Redundancy

MCRanges == {<<1, 3>>, <<2, 4>>, <<3, 6>>}
=============================================================================

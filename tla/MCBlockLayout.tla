---------------------------- MODULE MCBlockLayout ----------------------------
(* Instances of BlockLayout for TLC.                                        *)
EXTENDS BlockLayout

MCSizes == 1..160
=============================================================================

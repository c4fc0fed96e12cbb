---------------------------- MODULE MCNamespace ----------------------------
EXTENDS Namespace, TLC

NameSymmetry == Permutations(Names)

=============================================================================

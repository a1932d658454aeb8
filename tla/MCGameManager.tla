---------------------------- MODULE MCGameManager ----------------------------
EXTENDS GameManager, TLC

Symmetry == Permutations(Instances)

=============================================================================

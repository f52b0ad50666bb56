---- MODULE MCStateOffload ----
EXTENDS StateOffload, TLC

Symmetry == Permutations(Names)
====

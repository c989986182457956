---- MODULE MCNetServer ----
EXTENDS NetServer, TLC
WorkerSymmetry == Permutations(Workers)
====

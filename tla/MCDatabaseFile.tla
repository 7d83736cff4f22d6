--------------------------- MODULE MCDatabaseFile ---------------------------
(***************************************************************************)
(* DatabaseFile for TLC: its threads are interchangeable.                  *)
(***************************************************************************)
EXTENDS DatabaseFile, TLC

ThreadSymmetry == Permutations(Threads)
=============================================================================

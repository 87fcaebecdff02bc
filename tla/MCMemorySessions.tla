--------------------------- MODULE MCMemorySessions ---------------------------
(***************************************************************************)
(* MemorySessions with the numbers that TLC can take.                      *)
(***************************************************************************)
EXTENDS MemorySessions, TLC

MCPlaces == 1 .. 6

\* Maps are made at the first free place, whatever the names of the rest.
Symmetries == Permutations(SessionIds) \cup Permutations(Names) \cup Permutations(Values)

================================================================================

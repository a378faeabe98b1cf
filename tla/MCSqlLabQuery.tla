--------------------------- MODULE MCSqlLabQuery ---------------------------
(* Small instances of SqlLabQuery for TLC. *)
EXTENDS SqlLabQueryRefines, TLC

\* Requests and stop requests are interchangeable (safety runs only).
Symmetry == Permutations(Requests) \cup Permutations(Stoppers)
=============================================================================

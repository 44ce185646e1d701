---------------------------- MODULE MCJobQueue ----------------------------
(***************************************************************************)
(* Instances of JobQueue for TLC.                                          *)
(***************************************************************************)
EXTENDS JobQueue, TLC

CONSTANTS w1, w2, s1, s2, j1, j2, c1, c2

\* Workers, slots, jobs and clients are interchangeable (safety runs only).
Symmetry == Permutations(Workers) \cup Permutations(Slots)
                \cup Permutations(Jobs) \cup Permutations(Clients)

AllFaults == {"crash", "stall", "lost"}
CrashesOnly == {"crash"}

=============================================================================

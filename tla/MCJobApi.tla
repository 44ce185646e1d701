------------------------------ MODULE MCJobApi ------------------------------
(***************************************************************************)
(* An instance of JobApi for TLC.                                          *)
(***************************************************************************)
EXTENDS JobApi, TLC

CONSTANTS w1, w2, w3, s1, j1, c1, c2, q1, q2

\* Workers, clients and requests are interchangeable.
Symmetry == Permutations(Workers) \cup Permutations(Clients)
                \cup Permutations(Requests)

\* The runs this instance is after have one fault or one mishap (and the
\* step that makes a second).
OneMisfortune == faults + mishaps <= 1

\* Three calls of processNext meet once every create request has its answer;
\* before, the one at work is enough for a request to come upon a job in any
\* status.
OneCallUntilAnswered ==
    \/ \A q \in Requests : post[q].pc = "answered"
    \/ Cardinality({e \in Execs : exec[e].pc # "idle"}) <= 1

\* Two of the three workers go on serving.
OneStops == Cardinality({w \in Workers : mode[w] \in {"draining", "stopped"}}) <= 1

AllFaults == {"crash", "stall", "lost"}

=============================================================================

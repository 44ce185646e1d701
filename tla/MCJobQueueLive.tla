--------------------------- MODULE MCJobQueueLive ---------------------------
(***************************************************************************)
(* The queue under fairness, with the delays of its retries, for TLC.      *)
(***************************************************************************)
EXTENDS MCJobQueue, Backoff

\* The defaults of the worker, one that soon meets its cap, one that rounding
\* reaches, and a base above its cap.
MCSettings == {[base |-> 500, max |-> 15000], [base |-> 100, max |-> 300],
               [base |-> 1, max |-> 5], [base |-> 90, max |-> 70]}

=============================================================================

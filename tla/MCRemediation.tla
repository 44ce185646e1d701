--------------------------- MODULE MCRemediation ---------------------------
(***************************************************************************)
(* Instances of Remediation for TLC.                                       *)
(***************************************************************************)
EXTENDS Remediation, TLC

CONSTANTS f1, f2, f3, r1, p1, p2, k1, k2, t1, t2, c1, c2

\* Two findings about one resource, one that writes its tags and one that
\* writes its configuration, and one that nobody automates.
MCActionOf == [f \in Findings |-> ((f1 :> "add_missing_tag") @@ (f2 :> "enable_backup_policy")
                  @@ (f3 :> "manual_review"))[f]]
MCPlanInputs == [p \in Plans |-> IF p = p1 THEN {<<{f1}, FALSE>>}
                                 ELSE {<<Findings, FALSE>>, <<{f2}, TRUE>>}]
MCResourceOf == [f \in Findings |-> r1]

Symmetry == Permutations(Keys) \cup Permutations(Tokens) \cup Permutations(Clients)

=============================================================================

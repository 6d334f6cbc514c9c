---------------------------- MODULE MCPaidAnalysis ----------------------------
(* Instances of PaidAnalysis for TLC. *)
EXTENDS PaidAnalysis, MCStageAnswers

CONSTANTS w1, w2, t1, t2, a, b, k1, k2, none

\* The second version says the same as the first in its text; a text may be empty.
SameText == [x \in Inputs \X Upstream |->
    IF x[2] = "text" THEN none ELSE IF x[1] = 1 THEN a ELSE b]

\* Each behaviour has the workers, the confirmations and the disturbances of one of these.
Scenario(workers, tokens, kinds, n) ==
    [workers |-> workers, tokens |-> tokens, kinds |-> kinds, events |-> n]
Cases == {
    Scenario({w1, w2}, {t1}, {"lease", "killed"}, 2),
    Scenario({w1}, {t1, t2}, {"answers", "killed"}, 2),
    Scenario({w1}, {t1, t2}, {"expiry", "lease", "key"}, 2),
    Scenario({w1}, {t1, t2}, {"cancel", "owner", "improvement"}, 2)}
=============================================================================

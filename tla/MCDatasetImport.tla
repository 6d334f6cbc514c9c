---------------------------- MODULE MCDatasetImport ----------------------------
(* Two processes that import overlapping files in opposite orders, one that    *)
(* samples, and one whose mapping asks a question more.                        *)
EXTENDS DatasetImport

CONSTANTS i1, i2, k1, k2, k3, c1, c2, q1, q2

r(k) == [key |-> k, content |-> c1]
changed(k) == [key |-> k, content |-> c2]
NoSurvey == [exists |-> FALSE, published |-> FALSE, questions |-> {}]
Draft == [exists |-> TRUE, published |-> FALSE, questions |-> {q1}]
Published == [exists |-> TRUE, published |-> TRUE, questions |-> {q1}]

Case(f1, f2, l1, l2, m1, m2, first) ==
    [file |-> [i \in {i1, i2} |-> IF i = i1 THEN f1 ELSE f2],
     limit |-> [i \in {i1, i2} |-> IF i = i1 THEN l1 ELSE l2],
     mapping |-> [i \in {i1, i2} |-> IF i = i1 THEN m1 ELSE m2],
     survey |-> first]

Overlapping == Case(<<r(k1), r(k2), Invalid, r(k3)>>, <<r(k1), changed(k3), Invalid, r(k2)>>,
                    None, None, {q1}, {q1}, NoSurvey)
Crossing == Case(<<r(k1), r(k2)>>, <<r(k2), changed(k1), r(k1)>>, None, None, {q1}, {q1}, NoSurvey)
Sampling == Case(<<r(k1), r(k2), changed(k2), r(k3)>>, <<r(k3), r(k1)>>, 2, None, {q1}, {q1, q2}, Draft)
Extending == Case(<<r(k1), r(k1)>>, <<r(k2)>>, None, 1, {q1}, {q1, q2}, Published)
TwoProcesses == {Overlapping, Crossing, Sampling, Extending}
=============================================================================

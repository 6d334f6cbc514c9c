-------------------------- MODULE MCDefinitionSync --------------------------
(* Instances of DefinitionSync for TLC. *)
EXTENDS DefinitionSync, TLC

CONSTANTS s1, s2, x1, d1, d2, rows1, rows2

AllSurveys == {s1, s2, x1}
Dataset == {x1}
TwoDevices == {d1, d2}
TwoSources == {rows1, rows2}

Scenario(who, versions, links) == [who |-> who, versions |-> versions, links |-> links]

\* The bound of each survey that is used; the others are left out.
Only(s, n) == [t \in AllSurveys |-> IF t = s THEN n ELSE 0]
And(s, n, u, m) == [Only(s, n) EXCEPT ![u] = m]

\* Two editors; changes of two surveys whose transactions overlap; publication and what
\* follows; a change of owner under an edit; re-links; two registrations; a registration and
\* an editor.
Cases == {
    Scenario({"web", "node"}, Only(s1, 2), 1),
    Scenario({"node", "tab1"}, And(s1, 2, x1, 1), 1),
    Scenario({"web", "assign"}, Only(s1, 3), 1),
    Scenario({"node", "assign"}, Only(s1, 2), 1),
    Scenario({"web", "assign", "link"}, Only(s1, 2), 2),
    Scenario({"tab1", "tab2"}, Only(x1, 2), 1),
    Scenario({"tab1", "link"}, Only(x1, 1), 2),
    Scenario({"web", "tab1"}, Only(x1, 2), 1)}

\* A page of changes is read while old ones are deleted.
SlowReader == {Scenario({"web", "assign"}, And(s1, 2, s2, 2), 1)}

DeviceSymmetry == Permutations(Devices)
=============================================================================

---------------------------- MODULE MCImprovements ----------------------------
(* Instances of Improvements for TLC. *)
EXTENDS Improvements

CONSTANTS i1, i2, r1, r2, anna, annaReply, bob, home, work

TwoItems == {i1, i2}
TwoRequests == {r1, r2}
\* An account, a reply that left the same address, and another account.
ThreePeople == {anna, annaReply, bob}
BothAddresses == {home, work}
TwoAccounts == {anna, bob}
Shared == [p \in ThreePeople |-> IF p = bob THEN work ELSE home]

\* Moves of an item; a draft imported twice; a notice drafted while its item is archived; a
\* notice edited, confirmed, sent and retried, without and with killed processes.
Scenario(kinds, rows) == [kinds |-> kinds, items |-> rows]
Cases == {
    Scenario({"create", "move", "killed"}, 1),
    Scenario({"import"}, 2),
    Scenario({"create", "move", "draft"}, 1),
    Scenario({"create", "draft", "edit", "confirm", "retry"}, 1),
    Scenario({"create", "draft", "confirm", "retry", "killed"}, 1)}
Interrupted == {Scenario({"create", "draft", "confirm", "retry", "killed"}, 1)}
=============================================================================

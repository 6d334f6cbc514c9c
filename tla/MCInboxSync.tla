----------------------------- MODULE MCInboxSync -----------------------------
(* Instances of InboxSync for TLC. *)
EXTENDS InboxSync, TLC

CONSTANTS u1, u2, u3, answers, edited

TwoReplies == {u1, u2}
ThreeReplies == {u1, u2, u3}
OneContent == {answers}
TwoContents == {answers, edited}
NoReplies == {}
First == {u1}
Second == {u2}

\* Sound while u2 and u3 are in none of the special sets.
OrdinarySymmetry == Permutations(Replies \ {u1})
=============================================================================

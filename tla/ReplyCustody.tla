---------------------------- MODULE ReplyCustody ----------------------------
(***************************************************************************)
(* What the hand-over of replies from the website to the node promises:    *)
(* who answers for each reply.  InboxSync implements it.                   *)
(***************************************************************************)
CONSTANT Replies

VARIABLE custody

Init == custody = [u \in Replies |-> "respondent"]

\* The website takes the reply over from the respondent.
Accept(u) ==
    /\ custody[u] = "respondent"
    /\ custody' = [custody EXCEPT ![u] = "cloud"]

\* An operator gives a reply up that the cloud answers for.
GiveUp(u) ==
    /\ custody[u] = "cloud"
    /\ custody' = [custody EXCEPT ![u] = "given up"]

\* Replies reach the node's disk, where they stay.  One that was given up while the node
\* had it in hand is kept as well.
HandOver(replies) ==
    /\ \A u \in replies : custody[u] \in {"cloud", "given up"}
    /\ custody' = [u \in Replies |-> IF u \in replies THEN "node" ELSE custody[u]]

Next ==
    \/ \E u \in Replies : Accept(u) \/ GiveUp(u)
    \/ \E replies \in SUBSET Replies : HandOver(replies)

Spec == Init /\ [][Next]_custody
=============================================================================

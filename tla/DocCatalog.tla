----------------------------- MODULE DocCatalog -----------------------------
(***************************************************************************)
(* What the write path promises to searches: a document shows all chunks   *)
(* of one version of it, or none.  A replaced document is withdrawn before *)
(* its new version is published; nothing ever shows a mixture of versions. *)
(***************************************************************************)
EXTENDS Naturals

CONSTANTS Docs, Versions, Places, Sizes

VARIABLE shown   \* [Docs -> what a vector search can find of the document]

Version(d, v, p, n) ==
    {[doc |-> d, idx |-> i, path |-> p, by |-> v] : i \in 1..n}

\* The whole of some version of d.
Whole(d, S) == \E v \in Versions, p \in Places, n \in Sizes : S = Version(d, v, p, n)

Init == /\ DOMAIN shown = Docs
        /\ \A d \in Docs : shown[d] = {} \/ Whole(d, shown[d])

Publish(d) ==
    /\ shown[d] = {}
    /\ \E v \in Versions, p \in Places, n \in Sizes :
         shown' = [shown EXCEPT ![d] = Version(d, v, p, n)]

\* A deletion by path may withdraw several documents at once.
Withdraw == /\ DOMAIN shown' = Docs
            /\ \A d \in Docs : shown'[d] \in {shown[d], {}}

Next == Withdraw \/ \E d \in Docs : Publish(d)

Spec == Init /\ [][Next]_shown
=============================================================================

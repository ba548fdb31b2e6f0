----------------------------- MODULE MCProgress -----------------------------
(***************************************************************************)
(* The watches and the embedding client under the fairness of the event    *)
(* loop.  They share no state: one is looked at in each behaviour.         *)
(***************************************************************************)
EXTENDS WatchLoop, Embedding

VARIABLE part

Here(name) == part = name /\ UNCHANGED part

Init == part \in {"watch", "embedding"} /\ WatchInit /\ EmbInit

Next == \/ Here("watch") /\ WatchNext /\ UNCHANGED embVars
        \/ Here("embedding") /\ EmbNext /\ UNCHANGED watchVars

Spec == Init /\ [][Next]_<<part, watchVars, embVars>> /\ WatchFairness /\ EmbFairness

MCRequests == {<<"a", "d">>, <<"b", "a", "c">>}
=============================================================================

---------------------------- MODULE SnapshotFeed ----------------------------
(***************************************************************************)
(* What a desktop state subscription promises, whatever carries it: a      *)
(* subscriber starts from the snapshot of the moment it joins, is shown    *)
(* newer ones and never one again or out of order, may skip some, and is   *)
(* not left behind while it stays.                                         *)
(***************************************************************************)
EXTENDS Naturals

CONSTANT Subscribers

VARIABLES generation,  \* of the newest snapshot, 0 before the first
          live,        \* who has joined and not left
          view         \* the generation each subscriber has got to

vars == <<generation, live, view>>

Init ==
  /\ generation = 0
  /\ live = {}
  /\ view = [w \in Subscribers |-> 0]

Publish == generation' = generation + 1 /\ UNCHANGED <<live, view>>

\* Joining may publish first.
Join(w) ==
  /\ view[w] = 0
  /\ generation' \in {generation, generation + 1} \ {0}
  /\ live' = live \cup {w}
  /\ view' = [view EXCEPT ![w] = generation']

Deliver(w) ==
  /\ w \in live
  /\ \E g \in view[w] + 1 .. generation : view' = [view EXCEPT ![w] = g]
  /\ UNCHANGED <<generation, live>>

Leave(w) == w \in live /\ live' = live \ {w} /\ UNCHANGED <<generation, view>>

Next == Publish \/ \E w \in Subscribers : Join(w) \/ Deliver(w) \/ Leave(w)

Spec == Init /\ [][Next]_vars /\ \A w \in Subscribers : WF_vars(Deliver(w))
=============================================================================

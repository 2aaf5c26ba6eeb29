---------------------------- MODULE LatestFrame ----------------------------
(***************************************************************************)
(* What the frame exchange promises to its one producer and one consumer,  *)
(* without slots: the consumer is only ever handed the newest publication  *)
(* of the current generation, and what it holds does not change under it.  *)
(***************************************************************************)
CONSTANTS Frames, None

VARIABLES current,  \* the newest publication since the last invalidation
          inHand,   \* what the consumer is drawing
          shown     \* what the consumer drew last

lvars == <<current, inHand, shown>>

Init ==
  current = None /\ inHand = None /\ shown = None

Publish ==
  /\ current' \in Frames
  /\ UNCHANGED <<inHand, shown>>

Invalidate ==
  /\ current' = None
  /\ UNCHANGED <<inHand, shown>>

Begin ==
  /\ inHand = None
  /\ current # None
  /\ inHand' = current
  /\ UNCHANGED <<current, shown>>

End ==
  /\ inHand # None
  /\ inHand' = None
  /\ shown' \in {shown, inHand}
  /\ UNCHANGED current

Detach ==
  /\ inHand' = None
  /\ shown' = None
  /\ UNCHANGED current

Next == Publish \/ Invalidate \/ Begin \/ End \/ Detach

Spec == Init /\ [][Next]_lvars
=============================================================================

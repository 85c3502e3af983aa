----------------------------- MODULE LatestFrame -----------------------------
(***************************************************************************)
(* What the client's single-slot mailbox promises between the decoder and  *)
(* the renderer: frames are offered one after the other, and what the      *)
(* renderer gets is always the newest frame offered, never one it already  *)
(* had and never one that has been replaced.                               *)
(***************************************************************************)
EXTENDS Naturals

VARIABLES
    offered,    \* the newest frame offered, 0 before the first
    shown       \* the newest frame the renderer was given

Init == offered = 0 /\ shown = 0

Offer == offered' = offered + 1 /\ UNCHANGED shown

Show == shown < offered /\ shown' = offered /\ UNCHANGED offered

Next == Offer \/ Show

Spec == Init /\ [][Next]_<<offered, shown>>
=============================================================================

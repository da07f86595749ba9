------------------------------ MODULE MapStore ------------------------------
(***************************************************************************)
(* What the baked map promises to someone who bakes and previews: there is *)
(* either no map or a whole one, a map appears in one step, and a preview  *)
(* shows the map that is there, never a mixture and never an older one.    *)
(***************************************************************************)
CONSTANT Pictures, Nothing

VARIABLES store, shown

vars == <<store, shown>>

Init == store = Nothing /\ shown = Nothing

Lose    == store # Nothing /\ store' = Nothing /\ UNCHANGED shown
Publish == store = Nothing /\ store' \in Pictures /\ UNCHANGED shown
Show    == store # Nothing /\ shown' = store /\ UNCHANGED store
Clear   == shown # Nothing /\ shown' = Nothing /\ UNCHANGED store

Next == Lose \/ Publish \/ Show \/ Clear

Spec == Init /\ [][Next]_vars
=============================================================================

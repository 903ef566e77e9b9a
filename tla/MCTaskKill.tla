----------------------------- MODULE MCTaskKill -----------------------------
(***************************************************************************)
(* Two threads that may exit and one that never does; more slots are free   *)
(* in the instances that create threads.                                   *)
(***************************************************************************)
EXTENDS TaskKill

CONSTANTS a, b, idle, free, spare

ThreeSlots == <<a, b, idle>>
FourSlots == <<a, b, idle, free>>
FiveSlots == <<a, b, idle, free, spare>>
BootOrder == <<a, b, idle>>
=============================================================================

------------------------------ MODULE Graphics ------------------------------
(***************************************************************************)
(* The graphics memory allocator and the hardware composer in the process  *)
(* that loaded both: they share nothing but its end.                       *)
(***************************************************************************)
EXTENDS Gralloc, Hwcomposer

graphicsVars == <<grallocVars, hwcVars, up>>

Init == GrallocInit /\ HwcInit /\ up = TRUE

Next ==
  \/ GrallocNext /\ UNCHANGED hwcVars
  \/ HwcNext /\ UNCHANGED grallocVars

Spec == Init /\ [][Next]_graphicsVars

GraphicsTypeOK == GrallocTypeOK /\ HwcTypeOK
=============================================================================

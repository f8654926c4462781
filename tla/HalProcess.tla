----------------------------- MODULE HalProcess -----------------------------
(***************************************************************************)
(* What the graphics libraries of the old Shashlik share: the process that *)
(* loaded them (SurfaceFlinger, or an application), which ends when one of *)
(* them reads through a null pointer or calls LOG_ALWAYS_FATAL.            *)
(***************************************************************************)
EXTENDS Naturals, FiniteSets

CONSTANTS Faults,  \* which of the things that may fail do
          None     \* a null pointer

VARIABLE up
=============================================================================

------------------------------ MODULE MCLibrary ------------------------------
(* Small instances of Library.  base and arm are builds of one version for   *)
(* different ABIs, arm saved under the name base had; xapk and xapk2 are     *)
(* bundles of that version for different ABIs, at paths of their own.        *)
EXTENDS Library, TLC

CONSTANTS base, arm, xapk, xapk2, gui, cli

MCInfo == [f \in File |->
  [package |-> "com.example", version |-> 7, split |-> None,
   kind |-> IF f \in {xapk, xapk2} THEN "bundle" ELSE "apk",
   abis |-> IF f = base THEN "" ELSE IF f = xapk2 THEN "x86_64" ELSE "arm64-v8a"]]

MCPath == [f \in File |-> IF f = xapk THEN 2 ELSE IF f = xapk2 THEN 3 ELSE 1]
=============================================================================

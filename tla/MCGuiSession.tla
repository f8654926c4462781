---------------------------- MODULE MCGuiSession ----------------------------
(* A small instance of GuiSession: one file of three blocks for arm64, which *)
(* the format filter can hide, and whose bar moves by two blocks or more.    *)
EXTENDS GuiSession, TLC

CONSTANTS arm

MCArch == [v \in Variant |-> "arm64-v8a"]
MCKind == [v \in Variant |-> "Apk"]
=============================================================================

------------------------------ MODULE MCEmuTls ------------------------------
(***************************************************************************)
(* Two threads and two variables; the array has one element at first and   *)
(* grows for the second index.  As on Bionic one round of destructors is   *)
(* skipped and there are four: other destructors use variables in the      *)
(* first two, before and after the key's own, so that the array that round *)
(* 2 destroys is brought back.  There is memory for two objects: two of    *)
(* one thread or one of each.                                              *)
(***************************************************************************)
EXTENDS EmuTls

MCControls == {"a", "b"}
MCSizeOf == [c \in MCControls |-> IF c = "a" THEN 1 ELSE 3]
MCAlignOf == [c \in MCControls |-> IF c = "a" THEN 1 ELSE 8]
=============================================================================

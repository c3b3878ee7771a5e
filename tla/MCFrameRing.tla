---- MODULE MCFrameRing ----
(* FrameRing for TLC: two slots, index words of three bits that wrap after *)
(* the second of the frames.                                               *)
EXTENDS FrameRing
====

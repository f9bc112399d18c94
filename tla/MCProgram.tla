----------------------------- MODULE MCProgram -----------------------------
(* The whole program on small images: MCCPU gives it its programs. *)
EXTENDS MCCPU, Program
============================================================================

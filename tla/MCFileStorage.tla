--------------------------- MODULE MCFileStorage ----------------------------
(* Saves one after the other, and two saves that may overlap.              *)
EXTENDS FileStorage
=============================================================================

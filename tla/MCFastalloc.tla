------------------------------ MODULE MCFastalloc ------------------------------
(* Instance of Fastalloc: chunks of 4 bytes instead of 1024, requests on both *)
(* sides of every comparison the code makes with a chunk's size.              *)
EXTENDS Fastalloc, TLC

MCSizes == {0, 2, 3, 5}
Symmetry == Permutations(Handles)
================================================================================

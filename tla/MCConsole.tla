----------------------------- MODULE MCConsole ------------------------------
(* Every int of 5 bits is printed: in hexadecimal as an answer of the GPU,  *)
(* in decimal as a count, with the wrap from the greatest int to the least. *)
EXTENDS Console
=============================================================================

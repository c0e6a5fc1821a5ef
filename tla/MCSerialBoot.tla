---------------------------- MODULE MCSerialBoot ----------------------------
(***************************************************************************)
(* Instances of SerialBoot for TLC.                                        *)
(***************************************************************************)
EXTENDS SerialBoot

\* A chunk with a zero word, a chunk of zeros, and a short last chunk whose
\* word is 0xff.
SmallImage == <<3, 0, 0, 0, 7>>
=============================================================================

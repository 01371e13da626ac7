-------------------------- MODULE MCIec104Framing --------------------------
(* Instances of Iec104Framing for TLC. *)
EXTENDS Iec104Framing

\* Frames without a body (S and U), shorter and longer than a header.
Mixed == <<3, 0, 1, 4, 0, 2>>
=============================================================================

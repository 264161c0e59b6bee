----------------------------- MODULE MCSendPath -----------------------------
(***************************************************************************)
(* A short stream for SendPath: frames of one and two packets.             *)
(***************************************************************************)
EXTENDS SendPath

SendFrames == <<1, 2>>
=============================================================================

---------------------------- MODULE MCMediaStream ----------------------------
(* Small instances of MediaStream.                                         *)
EXTENDS MediaStream
=============================================================================

-------------------------- MODULE MCThumbnailProcess --------------------------
(* One run of FFmpeg that may write more than the output limit.            *)
EXTENDS ThumbnailProcess
=============================================================================

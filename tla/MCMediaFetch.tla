----------------------------- MODULE MCMediaFetch -----------------------------
(* Small instances of MediaFetch.                                          *)
EXTENDS MediaFetch
=============================================================================

------------------------------ MODULE MCFrontend ------------------------------
(* Small instances of Frontend.                                            *)
EXTENDS Frontend
=============================================================================

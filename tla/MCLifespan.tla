------------------------------ MODULE MCLifespan ------------------------------
(* Small instances of Lifespan.                                            *)
EXTENDS Lifespan
=============================================================================

-------------------------- MODULE MCAttemptLimiter --------------------------
(* More clients than the table holds; the clients are interchangeable.     *)
EXTENDS AttemptLimiter, TLC

MCSymmetry == Permutations(Clients)
=============================================================================

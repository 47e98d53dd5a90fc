------------------------ MODULE MCThumbnailCoordinator ------------------------
(* Token expiries for the instances of ThumbnailCoordinator: t1 expires    *)
(* first, the others not before the clock ends.  The requests are          *)
(* interchangeable.                                                        *)
EXTENDS ThumbnailCoordinator, TLC

CONSTANTS t1, t2, t3

MCTokens == {t1, t2, t3}
MCExpiry == [t \in MCTokens |-> IF t = t1 THEN 1 ELSE 2]
MCTwoTokens == {t1, t2}
MCTwoExpiry == [t \in MCTwoTokens |-> IF t = t1 THEN 1 ELSE 2]
MCSymmetry == Permutations(Requests)
=============================================================================

------------------------------ MODULE SlotPool ------------------------------
(***************************************************************************)
(* What the limiter promises, without its counters: a pool that knows the  *)
(* leases that are held and admits a request exactly when the leases held  *)
(* leave room for it.  RequestLimiter, which keeps only counters and a set *)
(* of clients, implements it.                                              *)
(***************************************************************************)
EXTENDS Integers, FiniteSets

CONSTANTS Clients, Leases, MaxExtractions, MaxDownloads, MaxDownloadsPerClient

VARIABLE held   (* the holders: records of a lease, its kind and its client *)

Of(k) == {h \in held : h.kind = k}
OfClient(k, c) == {h \in Of(k) : h.client = c}
IsHeld(l) == \E h \in held : h.lease = l

Room(k, c) ==
  \/ /\ k = "extraction"
     /\ OfClient(k, c) = {}
     /\ Cardinality(Of(k)) < MaxExtractions
  \/ /\ k = "download"
     /\ Cardinality(Of(k)) < MaxDownloads
     /\ Cardinality(OfClient(k, c)) < MaxDownloadsPerClient

PoolInit == held = {}

Take(l, k, c) ==
  /\ ~IsHeld(l)
  /\ Room(k, c)
  /\ held' = held \cup {[lease |-> l, kind |-> k, client |-> c]}

Return(l) ==
  /\ IsHeld(l)
  /\ held' = {h \in held : h.lease # l}

PoolNext ==
  \E l \in Leases :
    \/ \E k \in {"extraction", "download"}, c \in Clients : Take(l, k, c)
    \/ Return(l)

PoolSpec == PoolInit /\ [][PoolNext]_held
=============================================================================

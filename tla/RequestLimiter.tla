--------------------------- MODULE RequestLimiter ---------------------------
(***************************************************************************)
(* The slot limiter shared by the extraction, download and preview         *)
(* endpoints: class RequestLimiter and class Lease of api/limits.py.       *)
(*                                                                         *)
(* The limiter keeps a set of clients with a running extraction, a counter *)
(* of running downloads and a dictionary of running downloads by client.   *)
(* None of them says which lease took a slot; only the lease's own flag    *)
(* "released" keeps a second release from freeing the slot of another      *)
(* request.  No method awaits, so each one is a single step.               *)
(***************************************************************************)
EXTENDS Integers, FiniteSets

CONSTANTS
  Clients,                (* client identities                              *)
  Leases,                 (* identifiers of the Lease objects               *)
  MaxExtractions,         (* max_extractions                                *)
  MaxDownloads,           (* max_downloads                                  *)
  MaxDownloadsPerClient   (* max_downloads_per_client                       *)

ASSUME LimitsAssumption ==
  /\ MaxExtractions \in Nat
  /\ MaxDownloads \in Nat
  /\ MaxDownloadsPerClient \in Nat

ASSUME LeasesAssumption == IsFiniteSet(Leases)

VARIABLES
  activeExtractions,        (* _active_extractions, a set of clients        *)
  activeDownloads,          (* _active_downloads                            *)
  activeDownloadsByClient,  (* _active_downloads_by_client, partial         *)
  lease                     (* the Lease objects handed out so far          *)

limiterVars ==
  <<activeExtractions, activeDownloads, activeDownloadsByClient, lease>>

Kinds == {"extraction", "download"}

(* A Lease object; NoLease is an identifier no object has been made for.   *)
LeaseRecord == [kind : Kinds, client : Clients, released : BOOLEAN]
NoLease == [kind |-> "none"]

Held(l) == lease[l] # NoLease /\ ~lease[l].released

(* The leases of one kind, and of one kind and client, not yet released.   *)
HeldLeases(k) == {l \in Leases : Held(l) /\ lease[l].kind = k}
HeldBy(k, c) == {l \in HeldLeases(k) : lease[l].client = c}

(* An identifier of a released lease stands for a new object when it is    *)
(* handed out again: the released object is never released again then.     *)
Fresh(l) == ~Held(l)

(* dict.get(client, 0)                                                     *)
DownloadsOf(c) ==
  IF c \in DOMAIN activeDownloadsByClient
  THEN activeDownloadsByClient[c] ELSE 0

-----------------------------------------------------------------------------

LimiterInit ==
  /\ activeExtractions = {}
  /\ activeDownloads = 0
  /\ activeDownloadsByClient = [c \in {} |-> 0]
  /\ lease = [l \in Leases |-> NoLease]

HandOut(l, k, c) ==
  lease' = [lease EXCEPT ![l] = [kind |-> k, client |-> c, released |-> FALSE]]

ExtractionRefused(c) ==
  \/ c \in activeExtractions
  \/ Cardinality(activeExtractions) >= MaxExtractions

AcquireExtraction(l, c) ==
  /\ Fresh(l)
  /\ ~ExtractionRefused(c)
  /\ activeExtractions' = activeExtractions \cup {c}
  /\ HandOut(l, "extraction", c)
  /\ UNCHANGED <<activeDownloads, activeDownloadsByClient>>

(* Faulty variant: without the limit of a client.                          *)
DownloadRefusedGlobally(c) == activeDownloads >= MaxDownloads

DownloadRefused(c) ==
  \/ activeDownloads >= MaxDownloads
  \/ DownloadsOf(c) >= MaxDownloadsPerClient

AcquireDownload(l, c) ==
  /\ Fresh(l)
  /\ ~DownloadRefused(c)
  /\ activeDownloads' = activeDownloads + 1
  /\ activeDownloadsByClient' =
       [x \in DOMAIN activeDownloadsByClient \cup {c} |->
          IF x = c THEN DownloadsOf(c) + 1 ELSE activeDownloadsByClient[x]]
  /\ HandOut(l, "download", c)
  /\ UNCHANGED activeExtractions

(* RequestLimiter.release: it is told the kind and the client only.        *)
ReleaseExtractionSlot(c) ==
  /\ activeExtractions' = activeExtractions \ {c}
  /\ UNCHANGED <<activeDownloads, activeDownloadsByClient>>

ReleaseDownloadSlot(c) ==
  LET left == DownloadsOf(c) - 1 IN
  /\ activeDownloads' = IF activeDownloads > 0 THEN activeDownloads - 1 ELSE 0
  /\ activeDownloadsByClient' =
       IF left > 0
       THEN [activeDownloadsByClient EXCEPT ![c] = left]
       ELSE [x \in DOMAIN activeDownloadsByClient \ {c} |->
               activeDownloadsByClient[x]]
  /\ UNCHANGED activeExtractions

ReleaseSlot(k, c) ==
  \/ k = "extraction" /\ ReleaseExtractionSlot(c)
  \/ k = "download" /\ ReleaseDownloadSlot(c)

(* Faulty variant of Release: the flag "released" is not looked at.        *)
ReleaseAgain(l) ==
  /\ lease[l] # NoLease
  /\ ReleaseSlot(lease[l].kind, lease[l].client)
  /\ lease' = [lease EXCEPT ![l].released = TRUE]

(* Lease.release: every owner of the object may call it, and only the      *)
(* first call reaches the limiter.                                         *)
Release(l) ==
  /\ lease[l] # NoLease
  /\ IF lease[l].released
     THEN UNCHANGED limiterVars
     ELSE /\ ReleaseSlot(lease[l].kind, lease[l].client)
          /\ lease' = [lease EXCEPT ![l].released = TRUE]

LimiterNext ==
  \E l \in Leases :
    \/ \E c \in Clients : AcquireExtraction(l, c)
    \/ \E c \in Clients : AcquireDownload(l, c)
    \/ Release(l)

LimiterSpec == LimiterInit /\ [][LimiterNext]_limiterVars

-----------------------------------------------------------------------------

(* The limiter's variables have their types; counters kept in the          *)
(* dictionary are never zero, because release pops a client at zero        *)
(* (limits.py RequestLimiter.release).                                     *)
LimiterTypeOK ==
  /\ activeExtractions \in SUBSET Clients
  /\ activeDownloads \in Nat
  /\ DOMAIN activeDownloadsByClient \in SUBSET Clients
  /\ activeDownloadsByClient \in
       [DOMAIN activeDownloadsByClient -> Nat \ {0}]
  /\ lease \in [Leases -> LeaseRecord \cup {NoLease}]

(* The counters, which name no lease, agree at every moment with the       *)
(* leases that are really held: no release frees a slot twice, none is     *)
(* lost, and no client without a running download keeps an entry (the      *)
(* dictionary cannot grow with the clients ever seen).                     *)
DownloadAccounting ==
  /\ activeDownloads = Cardinality(HeldLeases("download"))
  /\ DOMAIN activeDownloadsByClient =
       {c \in Clients : HeldBy("download", c) # {}}
  /\ \A c \in Clients : DownloadsOf(c) = Cardinality(HeldBy("download", c))

(* A client is in the extraction set exactly while one lease of its is     *)
(* held, and it never holds two: the set has no count, so a second holder  *)
(* would be admitted or freed by mistake.                                  *)
ExtractionAccounting ==
  /\ activeExtractions = {lease[l].client : l \in HeldLeases("extraction")}
  /\ \A l1, l2 \in HeldLeases("extraction") :
       lease[l1].client = lease[l2].client => l1 = l2

(* The limits hold for the leases that are held, not only for the          *)
(* counters that stand for them.                                           *)
WithinLimits ==
  /\ Cardinality(HeldLeases("download")) <= MaxDownloads
  /\ \A c \in Clients :
       Cardinality(HeldBy("download", c)) <= MaxDownloadsPerClient
  /\ Cardinality(HeldLeases("extraction")) <= MaxExtractions

(* At every moment the three private fields say what is really held, and   *)
(* what is held is within the limits, in whatever order leases are taken   *)
(* and however often each is released (limits.py RequestLimiter, Lease).   *)
SlotsAccounted == DownloadAccounting /\ ExtractionAccounting /\ WithinLimits

(* The pool of SlotPool: what is held, without the counters.               *)
Holders ==
  {[lease |-> l, kind |-> lease[l].kind, client |-> lease[l].client] :
     l \in {x \in Leases : Held(x)}}

Pool == INSTANCE SlotPool WITH held <- Holders

(* The limiter implements the pool: it admits a request only when the      *)
(* leases really held leave room, and a release returns one lease and      *)
(* touches no other.                                                       *)
ImplementsPool == Pool!PoolSpec
=============================================================================

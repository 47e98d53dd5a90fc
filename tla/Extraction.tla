------------------------------ MODULE Extraction ------------------------------
(***************************************************************************)
(* An extraction from its slot to its media links:                         *)
(* ExtractionCoordinator.execute, shared by POST /api/extractions and the  *)
(* MCP tool, ExtractionService.extract and class TokenStore of             *)
(* security/tokens.py, over the limiter of RequestLimiter.  An extraction  *)
(* is named by the lease it takes.  The extractor is the only thing that   *)
(* is awaited: what follows it, from the reservation of the tokens to the  *)
(* release of the slot, is one step.                                       *)
(***************************************************************************)
EXTENDS RequestLimiter

CONSTANTS
  Capacity,    (* capacity of the token store                              *)
  Ttl,         (* ttl_seconds                                              *)
  Batches,     (* how many tokens the media of one post need               *)
  MaxIssued,   (* bound on the tokens ever issued                          *)
  MaxTime      (* bound on the clock                                       *)

ASSUME StoreAssumption ==
  /\ Capacity \in Nat
  /\ Ttl \in Nat \ {0}
  /\ Batches \subseteq Nat \ {0}
  /\ MaxIssued \in Nat /\ MaxTime \in Nat

VARIABLES
  now,       (* the monotonic clock                                        *)
  records,   (* _records                                                   *)
  issued,    (* number of tokens ever issued, which never repeat           *)
  granted,   (* history: the records named by the answers                  *)
  run        (* the state of each extraction                               *)

storeVars == <<records, issued, granted>>
vars == <<activeExtractions, activeDownloads, activeDownloadsByClient, lease,
          now, records, issued, granted, run>>

Record == [token : 1..MaxIssued, expires : 0..(MaxTime + Ttl)]
RunState == [pc : {"idle", "running", "answered", "failed", "full"},
             size : Batches \cup {0}]
Idle == [pc |-> "idle", size |-> 0]

Running(l) == run[l].pc = "running"

(* TokenStore.get finds the record and does not call it expired.           *)
Available(g) == g \in records /\ now <= g.expires

(* Faulty variants of Unexpired: a token at its deadline goes, and nothing *)
(* goes.                                                                   *)
UnexpiredStrictly == {r \in records : r.expires > now}
UnexpiredAlways == records

(* What purge_expired leaves.                                              *)
Unexpired == {r \in records : r.expires >= now}

NewRecords(n) ==
  {[token |-> t, expires |-> now + Ttl] : t \in (issued + 1)..(issued + n)}

-----------------------------------------------------------------------------

Begin(l, c) ==
  /\ AcquireExtraction(l, c)
  /\ run' = [run EXCEPT ![l] = [pc |-> "running", size |-> 0]]
  /\ UNCHANGED <<now, storeVars>>

(* Faulty variant of Ends: only an answer gives the slot back.             *)
EndsHolding(l, pc, n) ==
  /\ run' = [run EXCEPT ![l] = [pc |-> pc, size |-> n]]
  /\ IF pc = "answered" THEN Release(l) ELSE UNCHANGED limiterVars

(* The async with statement is left, in whatever way.                      *)
Ends(l, pc, n) ==
  /\ run' = [run EXCEPT ![l] = [pc |-> pc, size |-> n]]
  /\ Release(l)

(* The extractor fails or times out, finds no usable media, or the task is *)
(* cancelled.                                                              *)
ExtractionFails(l) ==
  /\ Running(l)
  /\ Ends(l, "failed", 0)
  /\ UNCHANGED <<now, storeVars>>

(* TokenStore.reserve for n tokens: all of them or none, after a purge.    *)
StoreFull(n) ==
  /\ Cardinality(Unexpired) + n > Capacity
  /\ records' = Unexpired
  /\ UNCHANGED <<issued, granted>>

Stored(n) ==
  /\ Cardinality(Unexpired) + n <= Capacity
  /\ issued + n <= MaxIssued
  /\ records' = Unexpired \cup NewRecords(n)
  /\ issued' = issued + n
  /\ granted' = granted \cup NewRecords(n)

Extracted(l, n) ==
  /\ Running(l)
  /\ \/ StoreFull(n) /\ Ends(l, "full", n)
     \/ Stored(n) /\ Ends(l, "answered", n)
  /\ UNCHANGED now

Tick ==
  /\ now < MaxTime
  /\ now' = now + 1
  /\ UNCHANGED <<limiterVars, storeVars, run>>

Init ==
  /\ LimiterInit
  /\ now = 0
  /\ records = {}
  /\ issued = 0
  /\ granted = {}
  /\ run = [l \in Leases |-> Idle]

Next ==
  \/ \E l \in Leases :
       \/ \E c \in Clients : Begin(l, c)
       \/ ExtractionFails(l)
       \/ \E n \in Batches : Extracted(l, n)
  \/ Tick

Spec == Init /\ [][Next]_vars

-----------------------------------------------------------------------------

(* The variables have their types.                                         *)
ExtractionTypeOK ==
  /\ now \in 0..MaxTime
  /\ records \subseteq Record
  /\ issued \in 0..MaxIssued
  /\ granted \subseteq Record
  /\ run \in [Leases -> RunState]

(* A slot is held exactly while its extraction runs, and a client has one  *)
(* extraction at a time; MCP calls share one client and compete with REST  *)
(* for the same slots (extraction_coordinator.py execute, limits.py).      *)
SlotIffRunning ==
  /\ \A l \in Leases : Held(l) <=> Running(l)
  /\ \A k, l \in Leases :
       Running(k) /\ Running(l) /\ lease[k].client = lease[l].client => k = l

(* Every link of an answer works until its deadline, that moment included, *)
(* however many extractions purge the store in between                     *)
(* (tokens.py get, purge_expired, reserve).                                *)
LinksLive == \A g \in granted : now <= g.expires => Available(g)

(* The store stays within its capacity and keeps no token that no answer   *)
(* names: a batch that does not fit leaves nothing behind                  *)
(* (tokens.py reserve).                                                    *)
WholeBatches ==
  /\ Cardinality(records) <= Capacity
  /\ records \subseteq granted

(* The promise of an answer: each of its links works until its deadline,   *)
(* and the store holds nothing but such links, within its capacity.        *)
LinksKept == LinksLive /\ WholeBatches

(* An extraction is told that the capacity is exceeded only when the links *)
(* that still work leave no room for it (tokens.py reserve).               *)
RefusedOnlyWhenFull ==
  [][\A l \in Leases :
       Running(l) /\ run'[l].pc = "full" =>
         Cardinality({g \in granted : now <= g.expires}) + run'[l].size
           > Capacity]_vars

(* Extractions use the limiter only as the limiter allows.                 *)
ImplementsLimiter == LimiterSpec
=============================================================================

------------------------- MODULE ThumbnailCoordinator -------------------------
(***************************************************************************)
(* Generated previews: ThumbnailCoordinator.get_or_generate over the cache *)
(* (services/thumbnail_cache.py), and the factory generate() that          *)
(* _generate_preview of api/routes.py hands to it.                         *)
(*                                                                         *)
(* The first request for a token owns a generation task; later ones await  *)
(* the same task behind asyncio.shield.  The lock is never held across an  *)
(* await, so that what it guards is one step.  The work of a generation    *)
(* (upstream fetch and FFmpeg) runs in a task below the generation task:   *)
(* _await_with_deadline cancels that task without waiting for it when the  *)
(* thumbnail timeout fires or the generation is cancelled.                 *)
(***************************************************************************)
EXTENDS ThumbnailCache

CONSTANTS
  Requests,         (* preview requests                                    *)
  Tokens,           (* preview tokens                                      *)
  NoRequest,        (* no entry in _inflight                               *)
  MaxConcurrency,   (* max_concurrency                                     *)
  Sizes,            (* sizes a generated JPEG may have                     *)
  Expiry,           (* expires_at of each token                            *)
  MaxTime           (* bound on the clock                                  *)

ASSUME CoordinatorAssumption ==
  /\ NoRequest \notin Requests
  /\ IsFiniteSet(Requests) /\ IsFiniteSet(Tokens)
  /\ MaxConcurrency \in Nat
  /\ Sizes \subseteq Nat
  /\ Expiry \in [Tokens -> Nat]
  /\ MaxTime \in Nat

VARIABLES
  now,        (* the monotonic clock                                       *)
  cache,      (* the cache                                                 *)
  inflight,   (* _inflight: the request that owns the token's task         *)
  active,     (* _active                                                   *)
  req         (* the local state of each request                           *)

vars == <<now, cache, inflight, active, req>>

Outcomes == {"ok", "bad", "error", "cancelled"}

RequestState ==
  [token : Tokens \cup {NoRequest},
   of : Requests \cup {NoRequest},   (* the owner of the task awaited      *)
   task : {"none", "running"} \cup Outcomes,   (* the task awaited         *)
   size : Sizes \cup {0},            (* size of the task's result          *)
   work : {"none", "running", "stopping"}]   (* the work of an owner       *)

NewRequest ==
  [token |-> NoRequest, of |-> NoRequest, task |-> "none", size |-> 0,
   work |-> "none"]

Owner(r) == req[r].of = r
Follower(r) == req[r].of \notin {r, NoRequest}
Waiting(r) == req[r].of # NoRequest

(* The identifier may stand for a new request: the last one was answered,  *)
(* its work is over and nobody awaits its task.                            *)
Free(r) ==
  /\ ~Waiting(r) /\ req[r].work = "none"
  /\ \A s \in Requests : req[s].of # r

(* What r awaited no longer matters once it is answered; its work may go   *)
(* on.                                                                     *)
Answered(r) == req' = [req EXCEPT ![r] = [NewRequest EXCEPT !.work = req[r].work]]

(* Faulty variant of Settle: the followers are not told.                   *)
SettleOwner(r, outcome, size, work) ==
  req' = [req EXCEPT
            ![r].task = IF @ = "running" THEN outcome ELSE @,
            ![r].size = size, ![r].work = work]

(* The generation task of r ends, for all who await it.                    *)
Settle(r, outcome, size, work) ==
  req' = [s \in Requests |->
            LET q == IF req[s].of = r /\ req[s].task = "running"
                     THEN [req[s] EXCEPT !.task = outcome, !.size = size]
                     ELSE req[s]
            IN  IF s = r THEN [q EXCEPT !.work = work] ELSE q]

-----------------------------------------------------------------------------
(* get_or_generate up to its first suspension.  The token store hands out  *)
(* a record until its expiry, that moment included.                        *)

Admissible(r, t) == Free(r) /\ now <= Expiry[t]

(* A cached JPEG or a cached failure answers at once.                      *)
ServeCached(r, t) ==
  /\ Admissible(r, t)
  /\ Lookup(cache, t, now) \in {"hit", "failed"}
  /\ cache' = AfterLookup(cache, t, now)
  /\ UNCHANGED <<now, inflight, active, req>>

Join(r, t) ==
  LET owner == inflight[t] IN
  /\ Admissible(r, t)
  /\ Lookup(cache, t, now) = "miss" /\ owner # NoRequest
  /\ cache' = AfterLookup(cache, t, now)
  /\ req' = [req EXCEPT ![r] =
                [token |-> t, of |-> owner, task |-> req[owner].task,
                 size |-> req[owner].size, work |-> "none"]]
  /\ UNCHANGED <<now, inflight, active>>

(* local_rate_limited: no generation slot is free, and there is no queue.  *)
Refuse(r, t) ==
  /\ Admissible(r, t)
  /\ Lookup(cache, t, now) = "miss" /\ inflight[t] = NoRequest
  /\ active >= MaxConcurrency
  /\ cache' = AfterLookup(cache, t, now)
  /\ UNCHANGED <<now, inflight, active, req>>

Own(r, t) ==
  /\ Admissible(r, t)
  /\ Lookup(cache, t, now) = "miss" /\ inflight[t] = NoRequest
  /\ active < MaxConcurrency
  /\ cache' = AfterLookup(cache, t, now)
  /\ req' = [req EXCEPT ![r] =
                [token |-> t, of |-> r, task |-> "running", size |-> 0,
                 work |-> "running"]]
  /\ inflight' = [inflight EXCEPT ![t] = r]
  /\ active' = active + 1
  /\ UNCHANGED now

-----------------------------------------------------------------------------
(* The generation task and the work below it.                              *)

(* The work ends, its process stopped and its response closed, with a      *)
(* JPEG, a deterministic failure or another error.                         *)
WorkEnds(r) ==
  /\ req[r].work = "running"
  /\ \/ \E size \in Sizes : Settle(r, "ok", size, "none")
     \/ \E outcome \in {"bad", "error"} : Settle(r, outcome, 0, "none")
  /\ UNCHANGED <<now, cache, inflight, active>>

(* The thumbnail timeout: the generation task fails at once, the work is   *)
(* cancelled and left to stop FFmpeg and to close its response.            *)
WorkTimesOut(r) ==
  /\ req[r].work = "running"
  /\ Settle(r, "error", 0, "stopping")
  /\ UNCHANGED <<now, cache, inflight, active>>

WorkStops(r) ==
  /\ req[r].work = "stopping"
  /\ req' = [req EXCEPT ![r].work = "none"]
  /\ UNCHANGED <<now, cache, inflight, active>>

(* Faulty variant of FreeSlot: the finished task stays in the dictionary.  *)
FreeSlotOnly(r) ==
  /\ UNCHANGED inflight
  /\ active' = IF active > 0 THEN active - 1 ELSE 0

(* The finally clause of the owner.                                        *)
FreeSlot(r) ==
  /\ inflight' = [inflight EXCEPT ![req[r].token] = NoRequest]
  /\ active' = IF active > 0 THEN active - 1 ELSE 0

(* The owner is cancelled, by the deadline of its response or its caller.  *)
(* It awaits the task itself, so that the task is cancelled with it, for   *)
(* the followers too; if the task is over, its result is dropped.          *)
OwnerCancelled(r) ==
  /\ Owner(r)
  /\ \/ /\ req[r].task = "running"
        /\ Settle(r, "cancelled", 0, "stopping")
        /\ UNCHANGED <<inflight, active>>
     \/ /\ req[r].task \in {"ok", "bad", "error"}
        /\ Answered(r)
        /\ FreeSlot(r)
  /\ UNCHANGED <<now, cache>>

(* The owner resumes: the result is cached, then the slot is given back.   *)
OwnerResumes(r) ==
  LET q == req[r] IN
  /\ Owner(r) /\ q.task # "running"
  /\ cache' =
       IF q.task = "ok" THEN PutSuccess(cache, q.token, q.size, Expiry[q.token], now)
       ELSE IF q.task = "bad" THEN PutFailure(cache, q.token, Expiry[q.token], now)
       ELSE cache
  /\ FreeSlot(r)
  /\ Answered(r)
  /\ UNCHANGED now

FollowerResumes(r) ==
  /\ Follower(r) /\ req[r].task # "running"
  /\ Answered(r)
  /\ UNCHANGED <<now, cache, inflight, active>>

(* A cancelled follower leaves the shared task alone.                      *)
FollowerCancelled(r) ==
  /\ Follower(r)
  /\ Answered(r)
  /\ UNCHANGED <<now, cache, inflight, active>>

Tick ==
  /\ now < MaxTime
  /\ now' = now + 1
  /\ UNCHANGED <<cache, inflight, active, req>>

Init ==
  /\ now = 0
  /\ cache = EmptyCache
  /\ inflight = [t \in Tokens |-> NoRequest]
  /\ active = 0
  /\ req = [r \in Requests |-> NewRequest]

Next ==
  \/ \E r \in Requests :
       \/ \E t \in Tokens :
            ServeCached(r, t) \/ Join(r, t) \/ Refuse(r, t) \/ Own(r, t)
       \/ WorkEnds(r) \/ WorkTimesOut(r) \/ WorkStops(r)
       \/ OwnerResumes(r) \/ OwnerCancelled(r)
       \/ FollowerResumes(r) \/ FollowerCancelled(r)
  \/ Tick

Spec == Init /\ [][Next]_vars

(* The work is bounded by the thumbnail timeout, its stop by the cleanup   *)
(* timeouts of ThumbnailGenerator, and a coroutine whose task is done is   *)
(* resumed by the event loop.                                              *)
Progress(r) ==
  WorkEnds(r) \/ WorkTimesOut(r) \/ WorkStops(r)
    \/ OwnerResumes(r) \/ FollowerResumes(r)

Fairness == \A r \in Requests : WF_vars(Progress(r))

FairSpec == Spec /\ Fairness

-----------------------------------------------------------------------------

(* The coordinator's variables have their types.                           *)
CoordinatorTypeOK ==
  /\ now \in 0..MaxTime
  /\ inflight \in [Tokens -> Requests \cup {NoRequest}]
  /\ active \in Nat
  /\ req \in [Requests -> RequestState]

(* _inflight names exactly the unfinished owners, at most one for a token, *)
(* and _active counts them: no interleaving of owners, followers and       *)
(* cancellations loses a slot or frees one twice, and none starts a second *)
(* generation of a token (thumbnail_cache.py get_or_generate).             *)
SlotAccounting ==
  /\ \A t \in Tokens, r \in Requests :
       inflight[t] = r <=> Owner(r) /\ req[r].token = t
  /\ active = Cardinality({t \in Tokens : inflight[t] # NoRequest})
  /\ active <= MaxConcurrency

(* Work that nobody waits for any more has been told to stop.              *)
NoOrphanWork ==
  \A r \in Requests :
    req[r].work = "running" => Owner(r) /\ req[r].task = "running"

(* Generations, their slots and their work go together.                    *)
GenerationsAccounted == SlotAccounting /\ NoOrphanWork

(* The counters of the cache agree with its entries at every moment.       *)
CacheAccounting == AccountingOf(cache)

(* A preview that is cached and still valid is lost only to newer entries  *)
(* of its kind, oldest first and no more than needed: a burst of failures  *)
(* cannot push out good previews, nor the reverse                          *)
(* (thumbnail_cache.py put_success, put_failure).                          *)
EvictionIsFair ==
  [][\A r \in Requests :
       Owner(r) /\ ~Owner(r)' =>
         EvictedFairly(cache, cache', req[r].token)]_vars

(* Every request gets an answer, whatever becomes of the request that owns *)
(* the generation it waits for.                                            *)
EveryRequestAnswered ==
  \A r \in Requests : []<>~Waiting(r)

(* Generation never exceeds the configured concurrency: OPERATIONS.md      *)
(* ("concurrency 1") and the test that a running slot is not released      *)
(* early say so of the generation itself, work that is being stopped       *)
(* included.                                                               *)
WorkWithinConcurrency ==
  Cardinality({r \in Requests : req[r].work # "none"}) <= MaxConcurrency
=============================================================================

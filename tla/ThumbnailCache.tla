---------------------------- MODULE ThumbnailCache ----------------------------
(***************************************************************************)
(* The methods of class ThumbnailCache (services/thumbnail_cache.py) as    *)
(* operators on the value of a cache: the OrderedDict, least recently used *)
(* entry first, and the two counters kept beside it.  A JPEG is            *)
(* represented by its size.                                                *)
(***************************************************************************)
EXTENDS SequencesExt, FiniteSetsExt, Restriction

CONSTANTS
  MaxBytes,      (* max_bytes                                              *)
  MaxNegative    (* max_negative_entries                                   *)

ASSUME CacheAssumption == MaxBytes \in Nat /\ MaxNegative \in Nat

EmptyCache == [entries |-> <<>>, bytes |-> 0, failures |-> 0]

Entries(c) == ToSet(c.entries)
Cached(c, t) == \E e \in Entries(c) : e.token = t
EntryOf(c, t) == CHOOSE e \in Entries(c) : e.token = t

Without(entries, T) ==
  Restricted(entries, {e \in ToSet(entries) : e.token \notin T})

(* Faulty variant of RemoveEntry: the size of a JPEG is not taken off.     *)
RemoveEntryOnly(c, t) ==
  IF ~Cached(c, t) THEN c
  ELSE [c EXCEPT !.entries = Without(@, {t}),
                 !.failures = IF EntryOf(c, t).ok THEN @ ELSE @ - 1]

(* _remove                                                                 *)
RemoveEntry(c, t) ==
  IF ~Cached(c, t) THEN c
  ELSE LET e == EntryOf(c, t) IN
       [entries |-> Without(c.entries, {t}),
        bytes |-> IF e.ok THEN c.bytes - e.size ELSE c.bytes,
        failures |-> IF e.ok THEN c.failures ELSE c.failures - 1]

(* What get answers, and what it does to the cache: an expired entry goes, *)
(* any other one becomes the most recently used.                           *)
Lookup(c, t, now) ==
  IF ~Cached(c, t) \/ now >= EntryOf(c, t).expires THEN "miss"
  ELSE IF EntryOf(c, t).ok THEN "hit" ELSE "failed"

AfterLookup(c, t, now) ==
  IF Lookup(c, t, now) = "miss" THEN RemoveEntry(c, t)
  ELSE [c EXCEPT !.entries = Append(Without(@, {t}), EntryOf(c, t))]

(* _evict_oldest_success and _evict_oldest_failure, called n times.        *)
OfKind(c, ok) == {i \in DOMAIN c.entries : c.entries[i].ok = ok}

(* Faulty variant: the most recently used entries.                         *)
Newest(c, ok, n) ==
  {c.entries[i].token :
     i \in {j \in OfKind(c, ok) :
              Cardinality({k \in OfKind(c, ok) : k >= j}) <= n}}

Oldest(c, ok, n) ==
  {c.entries[i].token :
     i \in {j \in OfKind(c, ok) :
              Cardinality({k \in OfKind(c, ok) : k <= j}) <= n}}

(* The bytes of the JPEGs in E, each by its number.                        *)
BytesIn(E) == Cardinality(UNION {{e} \X (1..e.size) : e \in E})

BytesOf(c, T) == BytesIn({e \in Entries(c) : e.ok /\ e.token \in T})

Evict(c, ok, n) ==
  LET T == Oldest(c, ok, n) IN
  [entries |-> Without(c.entries, T),
   bytes |-> c.bytes - BytesOf(c, T),
   failures |-> IF ok THEN c.failures ELSE c.failures - Cardinality(T)]

(* The loop of put_success stops at the first success whose removal makes  *)
(* room, and gives up when no success is left.                             *)
PutSuccess(c, t, size, expires, now) ==
  LET d == RemoveEntry(c, t)
      all == Cardinality(OfKind(d, TRUE))
      enough ==
        {n \in 0..all :
           d.bytes - BytesOf(d, Oldest(d, TRUE, n)) + size <= MaxBytes}
  IN
  IF size > MaxBytes \/ expires <= now THEN d
  ELSE IF enough = {} THEN Evict(d, TRUE, all)
  ELSE LET e == Evict(d, TRUE, Min(enough)) IN
       [e EXCEPT
          !.entries = Append(@, [token |-> t, ok |-> TRUE, size |-> size,
                                 expires |-> expires]),
          !.bytes = @ + size]

PutFailure(c, t, expires, now) ==
  LET d == RemoveEntry(c, t)
      e == Evict(d, FALSE, Max({0, d.failures - MaxNegative + 1}))
  IN
  IF expires <= now \/ MaxNegative = 0 THEN d
  ELSE [e EXCEPT
          !.entries = Append(@, [token |-> t, ok |-> FALSE, size |-> 0,
                                 expires |-> expires]),
          !.failures = @ + 1]

-----------------------------------------------------------------------------

(* The counters that decide about evictions agree with the entries, each   *)
(* token has one entry, and both bounds hold                               *)
(* (thumbnail_cache.py _remove, put_success, put_failure).                 *)
AccountingOf(c) ==
  /\ c.bytes = BytesIn({e \in Entries(c) : e.ok})
  /\ c.failures = Cardinality(OfKind(c, FALSE))
  /\ c.bytes <= MaxBytes
  /\ c.failures <= MaxNegative
  /\ \A i, j \in DOMAIN c.entries :
       c.entries[i].token = c.entries[j].token => i = j

(* From cache c to cache d, an unexpired entry e of another token than t   *)
(* was lost only to a new entry of its own kind, only as the least         *)
(* recently used of that kind, and only if keeping it and what was kept    *)
(* would have broken the bound.                                            *)
EvictedFairly(c, d, t) ==
  LET lost(ok) == {i \in OfKind(c, ok) :
                     c.entries[i].token # t /\ ~Cached(d, c.entries[i].token)}
  IN
  \A ok \in BOOLEAN : lost(ok) # {} =>
    /\ Cached(d, t) /\ EntryOf(d, t).ok = ok
    /\ \A i \in lost(ok), j \in OfKind(c, ok) \ lost(ok) :
         c.entries[j].token # t => i < j
    /\ IF ok
       THEN d.bytes + c.entries[Max(lost(ok))].size > MaxBytes
       ELSE d.failures = MaxNegative
=============================================================================

---------------------------- MODULE AttemptLimiter ----------------------------
(***************************************************************************)
(* Rolling request windows: class AttemptLimiter of api/limits.py.  Each   *)
(* client has a window for extractions and one for media requests, kept in *)
(* an OrderedDict of bounded size, least recently used client first; with  *)
(* the MCP reservation there are two more, for ordinary MCP POSTs and for  *)
(* cancellations, kept apart.  A window is a deque of the times of the     *)
(* attempts it admitted.  No method awaits, so each call is a single step. *)
(***************************************************************************)
EXTENDS Integers, FiniteSets, Sequences, Restriction

CONSTANTS
  Clients,          (* client identities                                   *)
  Mcp,              (* the fixed MCP bucket                                *)
  ReserveMcp,       (* reserve_mcp_cancellation                            *)
  ExtractionLimit,  (* extraction_limit                                    *)
  MediaLimit,       (* media_limit                                         *)
  Window,           (* window_seconds, in ticks                            *)
  TicksPerSecond,   (* the clock is finer than Retry-After                 *)
  MaxIdentities,    (* max_identities                                      *)
  MaxTime           (* bound on the clock                                  *)

(* The checks of __init__.                                                 *)
ASSUME AttemptAssumption ==
  /\ Mcp \notin Clients
  /\ ReserveMcp \in BOOLEAN
  /\ ExtractionLimit \in Nat \ {0}
  /\ ReserveMcp => ExtractionLimit >= 2
  /\ MediaLimit \in Nat \ {0}
  /\ MaxIdentities \in Nat \ {0}
  /\ Window \in Nat \ {0}
  /\ TicksPerSecond \in Nat \ {0}
  /\ MaxTime \in Nat

VARIABLES
  now,         (* the monotonic clock                                      *)
  identities,  (* the keys of _attempts in their order                     *)
  attempts,    (* the deques; empty for a client that is not retained      *)
  admitted,    (* history: the last Limit + 1 admissions of a window       *)
  promise,     (* history: earliest time a refusal told to retry at        *)
  lastUse      (* history: the last call of each retained client           *)

vars == <<now, identities, attempts, admitted, promise, lastUse>>

AttemptKinds == {"extraction", "media"}
PostKinds == {"regular", "cancellation"}

Windows ==
  (Clients \X AttemptKinds) \cup (IF ReserveMcp THEN {Mcp} \X PostKinds ELSE {})

Limit(w) ==
  IF w[2] = "extraction" THEN ExtractionLimit
  ELSE IF w[2] = "media" THEN MediaLimit
  ELSE IF w[2] = "regular" THEN ExtractionLimit - 1 ELSE 1

NoPromise == MaxTime + Window + TicksPerSecond + 1
Retained == {identities[i] : i \in DOMAIN identities}

(* Faulty variant of Pruned: everything goes with the oldest attempt.      *)
PrunedWhole(s) == IF s # <<>> /\ s[1] <= now - Window THEN <<>> ELSE s

(* _prune_attempts: the deque is in order of time, so that the attempts    *)
(* outside the window are its first ones.                                  *)
Pruned(s) ==
  SubSeq(s, Cardinality({i \in DOMAIN s : s[i] <= now - Window}) + 1, Len(s))

(* Faulty variant of Live: an attempt outside the window keeps a client.   *)
LiveUnpruned(c) == \E w \in Windows : w[1] = c /\ attempts[w] # <<>>

Live(c) == \E w \in Windows : w[1] = c /\ Pruned(attempts[w]) # <<>>
Full(w) == Len(Pruned(attempts[w])) >= Limit(w)

(* The clients left in the dictionary by _purge_expired.                   *)
Unpurged == Restricted(identities, {c \in Clients : Live(c)})

(* The client dropped to make room for c, and the dictionary after that.   *)
Evicted(c) ==
  IF Live(c) \/ Len(Unpurged) < MaxIdentities THEN {} ELSE {Head(Unpurged)}

(* Faulty variant of Used: a known client keeps its place.                 *)
UsedInPlace(c) ==
  IF Live(c) THEN Unpurged
  ELSE Append(Restricted(Unpurged, Clients \ Evicted(c)), c)

Used(c) ==
  Append(Restricted(Unpurged, Clients \ (Evicted(c) \cup {c})), c)

(* Faulty variant of RetryAfter: rounded down.                             *)
RetryAfterFloor(s) ==
  LET left == s[1] + Window - now IN
  IF left <= TicksPerSecond THEN 1 ELSE left \div TicksPerSecond

(* max(1, ceil(attempts[0] + window - now)), in seconds                    *)
RetryAfter(s) ==
  LET left == s[1] + Window - now IN
  IF left <= TicksPerSecond THEN 1
  ELSE (left + TicksPerSecond - 1) \div TicksPerSecond

-----------------------------------------------------------------------------

Recorded(s) == Append(s, now)

(* The history after one more admission; it starts anew with an eviction.  *)
Remembered(w) ==
  LET all == Append(admitted[w], now) IN
  IF Len(all) > Limit(w) + 1 THEN Tail(all) ELSE all

(* One attempt in window w, after the purge and with the windows of the    *)
(* clients in gone dropped: it is recorded, or refused with a time to      *)
(* retry at.  A refused attempt is not recorded.                           *)
Attempt(w, gone) ==
  LET kept == [v \in Windows |->
                 IF v[1] \in gone THEN <<>> ELSE Pruned(attempts[v])]
      told == now + RetryAfter(kept[w]) * TicksPerSecond
  IN
  \/ /\ ~Full(w)
     /\ attempts' = [kept EXCEPT ![w] = Recorded(@)]
     /\ admitted' = [v \in Windows |->
                       IF v = w THEN Remembered(v)
                       ELSE IF v[1] \in gone THEN <<>> ELSE admitted[v]]
     /\ promise' = [v \in Windows |->
                      IF v = w \/ v[1] \in gone THEN NoPromise ELSE promise[v]]
  \/ /\ Full(w)
     /\ attempts' = kept
     /\ promise' = [promise EXCEPT ![w] = IF told < @ THEN told ELSE @]
     /\ UNCHANGED admitted

(* acquire                                                                 *)
Acquire(kind, c) ==
  /\ identities' = Used(c)
  /\ Attempt(<<c, kind>>, Evicted(c))
  /\ lastUse' = [d \in Clients |->
                   IF d = c THEN now
                   ELSE IF d \in Retained' THEN lastUse[d] ELSE 0]
  /\ UNCHANGED now

(* acquire_mcp_post: it purges the clients as well.  McpBoundary takes the *)
(* steps that charge a POST.                                               *)
AcquireMcpPost(kind) ==
  /\ ReserveMcp
  /\ identities' = Unpurged
  /\ Attempt(<<Mcp, kind>>, {})
  /\ UNCHANGED <<now, lastUse>>

Tick ==
  /\ now < MaxTime
  /\ now' = now + 1
  /\ UNCHANGED <<identities, attempts, admitted, promise, lastUse>>

Init ==
  /\ now = 0
  /\ identities = <<>>
  /\ attempts = [w \in Windows |-> <<>>]
  /\ admitted = [w \in Windows |-> <<>>]
  /\ promise = [w \in Windows |-> NoPromise]
  /\ lastUse = [c \in Clients |-> 0]

Next ==
  \/ \E c \in Clients, kind \in AttemptKinds : Acquire(kind, c)
  \/ Tick

Spec == Init /\ [][Next]_vars

-----------------------------------------------------------------------------

(* Limit + 1 admissions in a row span at least the length of the window:   *)
(* no period of that length admits more than Limit attempts, however they  *)
(* were spread and whatever the other clients did.  Only a client evicted  *)
(* from the table starts anew (limits.py acquire).                         *)
RollingWindow ==
  \A w \in Windows :
    Len(admitted[w]) > Limit(w) =>
      admitted[w][Limit(w) + 1] - admitted[w][1] >= Window

(* A client that waited as long as Retry-After told it finds room, unless  *)
(* an attempt of its own was admitted since (limits.py retry_after;        *)
(* OPERATIONS.md line 524 tells clients to wait that long).                *)
RetryAfterHonoured ==
  \A w \in Windows : now >= promise[w] => ~Full(w)

(* The dictionary holds each client once, no more clients than configured, *)
(* and exactly those with attempts on record: its memory does not grow     *)
(* with the clients ever seen (limits.py _purge_expired).                  *)
NoIdleIdentity ==
  /\ Len(identities) <= MaxIdentities
  /\ \A i, j \in DOMAIN identities : identities[i] = identities[j] => i = j
  /\ \A c \in Clients :
       c \in Retained <=> \E w \in Windows : w[1] = c /\ attempts[w] # <<>>

(* A client with attempts inside the window is forgotten only when the     *)
(* table is full of such clients, and only if none of them was seen less   *)
(* recently (limits.py acquire, move_to_end and popitem).                  *)
ForgetsOnlyTheOldest ==
  [][\A c \in Clients : c \in Retained \ Retained' /\ Live(c) =>
       LET live == {d \in Retained : Live(d)} IN
       /\ Cardinality(live) = MaxIdentities
       /\ \A d \in live : lastUse[c] <= lastUse[d]]_vars
=============================================================================

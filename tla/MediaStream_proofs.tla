-------------------------- MODULE MediaStream_proofs --------------------------
(***************************************************************************)
(* Media streaming for any number of requests and media of any length: it  *)
(* uses the limiter as the limiter allows, the slot covers the upstream    *)
(* connection, what is delivered is the media, and the terminal event is   *)
(* unique and true.                                                        *)
(***************************************************************************)
EXTENDS MediaStream, RequestLimiter_proofs

(* The limiter takes a step of its own, or none.                           *)
LimiterStep == LimiterNext \/ UNCHANGED limiterVars

LEMMA CleanupStep ==
  ASSUME NEW r \in Streams, NEW p, NEW q, Cleanup(r, p, q)
  PROVE  LimiterStep
BY StreamsAssumption DEF Cleanup, LimiterStep, LimiterNext

LEMMA CloseNextStep ==
  ASSUME NEW r \in Streams, NEW p, NEW q, CloseNext(r, p, q)
  PROVE  LimiterStep
BY StreamsAssumption DEF CloseNext, LimiterStep, LimiterNext

LEMMA HandlerStep ==
  ASSUME NEW r \in Streams, Handler(r)
  PROVE  LimiterStep
<1>1. ASSUME NEW q, NEW e, Abandon(r, q, e) PROVE LimiterStep
  BY <1>1, StreamsAssumption DEF Abandon, LimiterStep, LimiterNext
<1>2. CASE FetchOk(r) \/ FetchUnusable(r) \/ FirstChunk(r) \/ FirstFails(r)
  BY <1>2 DEF FetchOk, FetchUnusable, FirstChunk, FirstFails, LimiterStep
<1>3. CASE FetchFails(r) \/ FetchLeft(r) \/ FailClosed(r)
  BY <1>1, <1>3 DEF FetchFails, FetchLeft, FailClosed
<1> QED
  BY <1>2, <1>3 DEF Handler

LEMMA BodyStep ==
  ASSUME NEW r \in Streams, Body(r)
  PROVE  LimiterStep
<1>1. ASSUME NEW q, NEW e, LeaveBody(r, q, e) PROVE LimiterStep
  BY <1>1, CleanupStep DEF LeaveBody
<1>2. CASE StartSent(r) \/ ChunkSent(r) \/ EndSent(r) \/ SendFails(r) \/ ReadChunk(r)
  BY <1>2 DEF StartSent, ChunkSent, EndSent, SendFails, ReadChunk, LimiterStep
<1>3. CASE ReadEnd(r) \/ ReadFails(r)
  BY <1>1, <1>3 DEF ReadEnd, ReadFails
<1>4. CASE ReadTruncated(r)
  BY <1>1, <1>4 DEF ReadTruncated, LimiterStep
<1>5. CASE ResumeClosed(r)
  BY <1>1, <1>5 DEF ResumeClosed, LimiterStep
<1>6. CASE RefetchOk(r)
  BY <1>1, <1>6 DEF RefetchOk, LimiterStep
<1>7. CASE RefetchFails(r)
  BY <1>1, <1>7 DEF RefetchFails
<1>8. CASE BodyCloses(r)
  BY <1>8, CloseNextStep DEF BodyCloses
<1> QED
  BY <1>2, <1>3, <1>4, <1>5, <1>6, <1>7, <1>8 DEF Body

LEMMA CallStep ==
  ASSUME NEW r \in Streams, Call(r) \/ CallerCancels(r)
  PROVE  LimiterStep
<1>1. ASSUME NEW q, NEW e, LeaveCall(r, q, e) PROVE LimiterStep
  BY <1>1, CleanupStep DEF LeaveCall
<1>2. CASE StreamReturns(r) \/ DrainEnds(r)
  BY <1>1, <1>2 DEF StreamReturns, DrainEnds
<1>3. CASE CallCloses(r)
  BY <1>3, CloseNextStep DEF CallCloses
<1>4. CASE CallerCancels(r)
  BY <1>1, <1>4 DEF CallerCancels, LimiterStep
<1> QED
  BY <1>2, <1>3, <1>4 DEF Call

(* Streaming uses the limiter only as the limiter allows                   *)
(* (routes.py _stream_media, which takes a lease and releases it).         *)
THEOREM StreamImplementsLimiter == Spec => ImplementsLimiter
<1>1. Init => LimiterInit
  BY DEF Init
<1>2. [Next]_vars => [LimiterNext]_limiterVars
  <2> SUFFICES ASSUME [Next]_vars PROVE LimiterStep
    BY DEF LimiterStep
  <2>1. ASSUME NEW r \in Streams, NEW c \in Clients, NEW preview \in BOOLEAN,
               Begin(r, c, preview)
        PROVE  LimiterStep
    BY <2>1, StreamsAssumption DEF Begin, LimiterStep, LimiterNext
  <2>2. ASSUME NEW r \in Streams, Handler(r) PROVE LimiterStep
    BY <2>2, HandlerStep
  <2>3. ASSUME NEW r \in Streams, Body(r) PROVE LimiterStep
    BY <2>3, BodyStep
  <2>4. ASSUME NEW r \in Streams, Call(r) \/ CallerCancels(r) PROVE LimiterStep
    BY <2>4, CallStep
  <2>5. ASSUME NEW r \in Streams, DeadlineFires(r) \/ Disconnect(r) \/ Detached(r)
        PROVE  LimiterStep
    BY <2>5 DEF DeadlineFires, Disconnect, Detached, DetachedFetchEnds,
       DetachedCloses, LimiterStep
  <2>6. ASSUME NEW l \in Leases \ Streams, OtherRequest(l) PROVE LimiterStep
    BY <2>6 DEF OtherRequest, LimiterStep, LimiterNext
  <2>7. CASE UNCHANGED vars
    BY <2>7 DEF vars, limiterVars, LimiterStep
  <2> QED
    BY <2>1, <2>2, <2>3, <2>4, <2>5, <2>6, <2>7 DEF Next
<1> QED
  BY <1>1, <1>2, PTL DEF Spec, ImplementsLimiter, LimiterSpec

(* Whatever the requests do, however they end, the limiter's accounting    *)
(* and limits hold (routes.py _stream_media over limits.py).               *)
COROLLARY StreamKeepsLimits == Spec => []SlotsAccounted
<1>1. LimiterInv => SlotsAccounted
  BY DEF LimiterInv, SlotsAccounted
<1> QED
  BY <1>1, StreamImplementsLimiter, LimiterInvariant, PTL DEF ImplementsLimiter

-----------------------------------------------------------------------------
(* What a request is and what it holds.  q is its local state and h says   *)
(* whether its slot is held.                                               *)

(* Without a stream task the handler holds the slot, and the first         *)
(* connection once the fetch has returned.                                 *)
Handling(q, h) ==
  /\ q.body = "none" <=> \/ q.pc \in {"idle", "fetch", "first", "failclose"}
                         \/ q.pc = "done" /\ ~q.cleaned
  /\ q.body = "none" =>
       /\ ~q.cleaned /\ ~q.attempted /\ q.sent = 0
       /\ q.first = "open" <=> q.pc \in {"first", "failclose"}
       /\ h <=> q.pc \in {"fetch", "first", "failclose"}
       /\ q.log # <<>> => q.pc = "done"
  /\ q.pc = "failclose" => q.error # "none"

(* A stream holds the slot until cleanup, and during cleanup exactly while *)
(* a connection is still open and one of the two callers is closing it:    *)
(* the other caller finds "cleaned" set and must not count on the slot.    *)
Cleaning(q, h) ==
  /\ q.body # "none" /\ ~q.cleaned => h /\ q.pc \in {"stream", "drain"}
  /\ q.cleaned =>
       /\ q.body # "none"
       /\ q.first = "open" \/ q.resumed = "open" <=> h
       /\ h <=> q.body = "closing" \/ q.pc = "cleanup"
  /\ q.body = "closing" => q.cleaned /\ q.pc # "cleanup"
  /\ q.pc = "cleanup" => q.cleaned
  /\ q.body \in {"sendEnd", "ended"} => q.cleaned

(* The second connection is opened only when the first one is closed.      *)
Resuming(q) ==
  /\ q.preview => ~q.attempted
  /\ ~q.attempted => q.resumed = "none" /\ q.body \notin {"rclose", "refetch"}
  /\ q.attempted => q.known
  /\ q.resumed # "none" => q.first = "closed"
  /\ /\ q.body \in {"start", "send", "read", "rclose"}
     /\ ~q.cleaned /\ q.resumed = "none"
     => q.first = "open"
  /\ q.body = "rclose" => q.first = "open"
  /\ q.body = "refetch" => q.first = "closed" /\ q.resumed = "none"

(* A download waits for its stream task, a preview need not.               *)
Downloading(q) ==
  ~q.preview =>
    /\ q.pc # "drain"
    /\ q.body \notin {"none", "ended", "failed"} => q.pc = "stream"
    /\ q.cleaned => q.body \in {"closing", "sendEnd", "ended", "failed"}

(* The terminal event and what it rests on.                                *)
Reporting(q, h) ==
  /\ q.log # <<>> => ~q.preview /\ ~h /\ (q.pc = "done" \/ q.body = "failed")
  /\ Len(q.log) <= 1
  /\ q.log = <<"completed">> => q.completed
  /\ q.pc = "done" /\ ~q.preview => q.log # <<>>
  /\ q.completed <=> q.body = "ended"
  /\ q.pc = "cleanup" /\ q.error = "none" => q.completed
  /\ q.body = "failed" => q.primary # "none"

(* What was sent is a prefix of the media, the next unit to read or send   *)
(* is the one after it, and a body that ends without an error has sent     *)
(* everything.                                                             *)
Delivering(q) ==
  /\ Len(q.out) = q.sent
  /\ \A i \in 1..Len(q.out) : q.out[i] = i - 1
  /\ q.body = "start" => q.sent = 0 /\ q.pos = 1
  /\ q.body = "send" => q.pos = q.sent + 1
  /\ q.body = "read" => q.pos = q.sent
  /\ q.known =>
       /\ q.body \in {"sendEnd", "ended"} => q.sent = Length
       /\ q.body = "closing" /\ q.primary = "none" => q.sent = Length

Sound(q, h) ==
  /\ Handling(q, h) /\ Cleaning(q, h) /\ Resuming(q)
  /\ Downloading(q) /\ Reporting(q, h) /\ Delivering(q)

StreamInv ==
  /\ StreamTypeOK
  /\ \A r \in Streams : Sound(st[r], Held(r))

-----------------------------------------------------------------------------
(* The fields that a step leaves alone.                                    *)

SameKind(p, q) ==
  p.preview = q.preview /\ p.known = q.known /\ p.attempted = q.attempted

SameUpstream(p, q) == p.first = q.first /\ p.resumed = q.resumed

SameData(p, q) == p.pos = q.pos /\ p.sent = q.sent /\ p.out = q.out

SameEnd(p, q) == p.completed = q.completed /\ p.primary = q.primary

Same(p, q) ==
  /\ SameKind(p, q) /\ SameUpstream(p, q) /\ SameData(p, q) /\ SameEnd(p, q)

USE DEF SameKind, SameUpstream, SameData, SameEnd, Same

LEMMA LoggedIs ==
  ASSUME NEW q \in RequestState, NEW e \in Terminals
  PROVE  LET p == Logged(q, e) IN
         /\ p \in RequestState /\ Same(p, q)
         /\ p.pc = q.pc /\ p.body = q.body /\ p.cleaned = q.cleaned
         /\ p.error = q.error
         /\ p.log = IF q.preview \/ q.log # <<>> THEN q.log ELSE <<e>>
<1>1. CASE q.preview \/ q.log # <<>>
  BY <1>1 DEF Logged
<1>2. CASE ~(q.preview \/ q.log # <<>>)
  <2>1. Append(q.log, e) = <<e>>
    <3>1. Append(<<>>, e) = <<e>>
      OBVIOUS
    <3>2. q.log = <<>>
      BY <1>2
    <3> QED
      BY <3>1, <3>2, Zenon
  <2> DEFINE p == [q EXCEPT !.log = <<e>>]
  <2>2. <<e>> \in Seq(Terminals)
    OBVIOUS
  <2>3. /\ p \in RequestState /\ Same(p, q)
        /\ p.pc = q.pc /\ p.body = q.body /\ p.cleaned = q.cleaned
        /\ p.error = q.error /\ p.log = <<e>>
    BY <2>2 DEF RequestState
  <2>4. Logged(q, e) = [q EXCEPT !.log = Append(q.log, e)]
    BY <1>2 DEF Logged, RequestState
  <2>5. Logged(q, e) = p
    BY <2>1, <2>4, Zenon
  <2> HIDE DEF p
  <2> QED
    BY <1>2, <2>3, <2>5
<1> QED
  BY <1>1, <1>2

(* body() ends: its error is the task's, and is logged.                    *)
LEMMA BodyEndsIs ==
  ASSUME NEW q \in RequestState
  PROVE  LET p == BodyEnds(q) IN
         /\ p \in RequestState /\ Same(p, q)
         /\ p.pc = q.pc /\ p.cleaned = q.cleaned /\ p.error = q.error
         /\ p.body = IF q.primary = "none" THEN "sendEnd" ELSE "failed"
         /\ p.log = IF q.primary = "none" \/ q.preview \/ q.log # <<>>
                    THEN q.log ELSE <<q.primary>>
<1>1. CASE q.primary = "none"
  BY <1>1 DEF BodyEnds, RequestState, BodyStates
<1>2. CASE q.primary # "none"
  <2> DEFINE x == [q EXCEPT !.body = "failed"]
  <2>1. /\ x \in RequestState /\ Same(x, q) /\ x.pc = q.pc
        /\ x.body = "failed" /\ x.cleaned = q.cleaned /\ x.error = q.error
        /\ x.log = q.log
    BY DEF RequestState, BodyStates
  <2>2. EventOf(q.primary) = q.primary /\ q.primary \in Terminals
    BY <1>2 DEF EventOf, RequestState, Errors, Terminals
  <2>3. BodyEnds(q) = Logged(x, q.primary)
    BY <1>2, <2>2 DEF BodyEnds
  <2> HIDE DEF x
  <2> QED
    BY <1>2, <2>1, <2>2, <2>3, LoggedIs
<1> QED
  BY <1>1, <1>2

(* __call__ ends: its error is logged, or success.                         *)
LEMMA CallEndsIs ==
  ASSUME NEW q \in RequestState
  PROVE  LET p == CallEnds(q) IN
         /\ p \in RequestState /\ Same(p, q)
         /\ p.pc = "done" /\ p.body = q.body /\ p.cleaned = q.cleaned
         /\ p.error = q.error
         /\ p.log = IF q.preview \/ q.log # <<>>
                    THEN q.log ELSE <<EventOf(q.error)>>
<1> DEFINE x == [q EXCEPT !.pc = "done"]
<1>1. /\ x \in RequestState /\ Same(x, q) /\ x.pc = "done"
      /\ x.body = q.body /\ x.cleaned = q.cleaned /\ x.error = q.error
      /\ x.log = q.log
  BY DEF RequestState, HandlerStates
<1>2. EventOf(q.error) \in Terminals
  BY DEF EventOf, RequestState, Errors, Terminals
<1>3. CallEnds(q) = Logged(x, EventOf(q.error))
  BY DEF CallEnds
<1> HIDE DEF x
<1> QED
  BY <1>1, <1>2, <1>3, LoggedIs

LEMMA CleanedIs ==
  ASSUME NEW q \in RequestState
  PROVE  LET p == [q EXCEPT !.cleaned = TRUE] IN
         /\ p \in RequestState /\ Same(p, q)
         /\ p.pc = q.pc /\ p.body = q.body /\ p.cleaned
         /\ p.error = q.error /\ p.log = q.log
BY DEF RequestState

LEMMA CloseOneIs ==
  ASSUME NEW q \in RequestState
  PROVE  LET p == CloseOne(q) IN
         /\ p \in RequestState
         /\ SameKind(p, q) /\ SameData(p, q) /\ SameEnd(p, q)
         /\ p.pc = q.pc /\ p.body = q.body /\ p.cleaned = q.cleaned
         /\ p.error = q.error /\ p.log = q.log
         /\ p.first = IF q.first = "open" THEN "closed" ELSE q.first
         /\ p.resumed = IF q.first = "open" THEN q.resumed ELSE "closed"
<1>1. CASE q.first = "open"
  BY <1>1 DEF CloseOne, RequestState, Connection
<1>2. CASE q.first # "open"
  BY <1>2 DEF CloseOne, RequestState, Connection
<1> QED
  BY <1>1, <1>2

LEMMA UpstreamIs ==
  ASSUME NEW q \in RequestState
  PROVE  Upstream(q) = {} <=> q.first # "open" /\ q.resumed # "open"
BY DEF Upstream, RequestState

-----------------------------------------------------------------------------
LEMMA ReleaseUnholds ==
  ASSUME LimiterTypeOK, NEW r \in Leases, Release(r)
  PROVE  /\ Held(r)' = FALSE
         /\ \A x \in Leases : x # r => lease'[x] = lease[x]
<1>1. CASE lease[r].released
  BY <1>1 DEF Release, limiterVars, Held
<1>2. CASE ~lease[r].released
  <2>1. Held(r) /\ lease' = [lease EXCEPT ![r].released = TRUE]
    BY <1>2 DEF Release, Held
  <2>2. /\ \A x \in Leases : x # r => lease'[x] = lease[x]
        /\ \A k : HeldLeases(k)' = HeldLeases(k) \ {r}
    BY <2>1, ReleaseHeld
  <2>3. ~Held(r)'
    BY <2>2 DEF HeldLeases
  <2> QED
    BY <2>2, <2>3
<1> QED
  BY <1>1, <1>2

LEMMA PutSound ==
  ASSUME StreamInv, NEW r \in Streams, NEW p \in RequestState, Put(r, p),
         \A x \in Leases : x # r => lease'[x] = lease[x],
         Sound(p, Held(r)')
  PROVE  StreamInv'
<1>1. st \in [Streams -> RequestState]
  BY DEF StreamInv, StreamTypeOK
<1>2. /\ st' \in [Streams -> RequestState]
      /\ st'[r] = p
      /\ \A x \in Streams : x # r => st'[x] = st[x]
  BY <1>1 DEF Put
<1>3. ASSUME NEW x \in Streams PROVE Sound(st'[x], Held(x)')
  <2>1. CASE x = r
    BY <1>2, <2>1, Zenon
  <2>2. CASE x # r
    <3>1. Held(x)' = Held(x)
      BY <2>2, StreamsAssumption DEF Held
    <3>2. Sound(st[x], Held(x))
      BY DEF StreamInv
    <3> QED
      BY <1>2, <2>2, <3>1, <3>2, Zenon
  <2> QED
    BY <2>1, <2>2
<1> QED
  BY <1>2, <1>3 DEF StreamInv, StreamTypeOK
-----------------------------------------------------------------------------
(* cleanup() of either caller.                                             *)

LEMMA CleanupSound ==
  ASSUME StreamInv, LimiterTypeOK, NEW r \in Streams,
         NEW closing \in RequestState, NEW ended \in RequestState,
         Cleanup(r, closing, ended),
         st[r].cleaned => Sound(ended, Held(r)),
         ~st[r].cleaned /\ Upstream(closing) = {} =>
           Sound([ended EXCEPT !.cleaned = TRUE], FALSE),
         ~st[r].cleaned /\ Upstream(closing) # {} =>
           Sound([closing EXCEPT !.cleaned = TRUE], Held(r))
  PROVE  StreamInv'
<1>1. CASE st[r].cleaned
  <2>1. Put(r, ended) /\ UNCHANGED limiterVars
    BY <1>1 DEF Cleanup
  <2>2. Held(r)' = Held(r) /\ \A x \in Leases : lease'[x] = lease[x]
    BY <2>1 DEF limiterVars, Held
  <2>3. Sound(ended, Held(r)')
    BY <1>1, <2>2, Zenon
  <2> QED
    BY <2>1, <2>2, <2>3, PutSound
<1>2. CASE ~st[r].cleaned /\ Upstream(closing) = {}
  <2> DEFINE p == [ended EXCEPT !.cleaned = TRUE]
  <2>1. Put(r, p) /\ Release(r)
    BY <1>2 DEF Cleanup
  <2>2. p \in RequestState
    BY CleanedIs
  <2>3. Sound(p, FALSE)
    BY <1>2
  <2> HIDE DEF p
  <2>4. Held(r)' = FALSE /\ \A x \in Leases : x # r => lease'[x] = lease[x]
    BY <2>1, ReleaseUnholds, StreamsAssumption
  <2>5. Sound(p, Held(r)')
    BY <2>3, <2>4, Zenon
  <2> QED
    BY <2>1, <2>2, <2>4, <2>5, PutSound
<1>3. CASE ~st[r].cleaned /\ Upstream(closing) # {}
  <2> DEFINE p == [closing EXCEPT !.cleaned = TRUE]
  <2>1. Put(r, p) /\ UNCHANGED limiterVars
    BY <1>3 DEF Cleanup
  <2>2. p \in RequestState
    BY CleanedIs
  <2>3. Sound(p, Held(r))
    BY <1>3
  <2> HIDE DEF p
  <2>4. Held(r)' = Held(r) /\ \A x \in Leases : lease'[x] = lease[x]
    BY <2>1 DEF limiterVars, Held
  <2>5. Sound(p, Held(r)')
    BY <2>3, <2>4, Zenon
  <2> QED
    BY <2>1, <2>2, <2>4, <2>5, PutSound
<1> QED
  BY <1>1, <1>2, <1>3

(* body() may leave with error e: q is its state, whose upstream           *)
(* connection the step itself may have opened or closed.                   *)
Leaving(q, e, h) ==
  /\ q.body \notin {"none", "closing", "sendEnd", "ended", "failed"}
  /\ q.pc \in {"stream", "drain", "cleanup", "done"}
  /\ ~q.cleaned => h /\ q.pc \in {"stream", "drain"}
  /\ q.cleaned => /\ q.preview
                  /\ q.first = "open" \/ q.resumed = "open" <=> h
                  /\ h <=> q.pc = "cleanup"
  /\ q.pc = "cleanup" => q.cleaned /\ q.error # "none"
  /\ ~q.preview => q.pc = "stream"
  /\ q.preview => ~q.attempted
  /\ ~q.attempted => q.resumed = "none"
  /\ q.attempted => q.known
  /\ q.resumed # "none" => q.first = "closed"
  /\ q.log = <<>> /\ ~q.completed
  /\ Len(q.out) = q.sent
  /\ \A i \in 1..Len(q.out) : q.out[i] = i - 1
  /\ q.known /\ e = "none" => q.sent = Length

LEMMA LeaveBodySound ==
  ASSUME StreamInv, LimiterTypeOK, NEW r \in Streams,
         NEW q \in RequestState, NEW e \in Errors, LeaveBody(r, q, e),
         q.cleaned = st[r].cleaned, Leaving(q, e, Held(r))
  PROVE  StreamInv'
<1> DEFINE p == [q EXCEPT !.primary = e]
           closing == [p EXCEPT !.body = "closing"]
           ended == BodyEnds(p)
           c == [closing EXCEPT !.cleaned = TRUE]
           x == [ended EXCEPT !.cleaned = TRUE]
<1>1. /\ p \in RequestState
      /\ SameKind(p, q) /\ SameUpstream(p, q) /\ SameData(p, q)
      /\ p.pc = q.pc /\ p.body = q.body /\ p.cleaned = q.cleaned
      /\ p.completed = q.completed /\ p.primary = e
      /\ p.error = q.error /\ p.log = q.log
  BY DEF RequestState
<1>2. Cleanup(r, closing, ended)
  BY DEF LeaveBody
<1>3. /\ closing \in RequestState /\ Same(closing, p)
      /\ closing.pc = p.pc /\ closing.body = "closing"
      /\ closing.cleaned = p.cleaned
      /\ closing.error = p.error /\ closing.log = p.log
  BY <1>1 DEF RequestState, BodyStates
<1> HIDE DEF p, closing
<1>4. /\ ended \in RequestState /\ Same(ended, p)
      /\ ended.pc = p.pc /\ ended.cleaned = p.cleaned /\ ended.error = p.error
      /\ ended.body = IF e = "none" THEN "sendEnd" ELSE "failed"
      /\ ended.log = IF e = "none" \/ q.preview \/ q.log # <<>>
                     THEN q.log ELSE <<e>>
  BY <1>1, BodyEndsIs
<1> HIDE DEF ended
<1>5. /\ c \in RequestState /\ Same(c, closing)
      /\ c.pc = closing.pc /\ c.body = closing.body /\ c.cleaned
      /\ c.error = closing.error /\ c.log = closing.log
  BY <1>3, CleanedIs
<1>6. /\ x \in RequestState /\ Same(x, ended)
      /\ x.pc = ended.pc /\ x.body = ended.body /\ x.cleaned
      /\ x.error = ended.error /\ x.log = ended.log
  BY <1>4, CleanedIs
<1> HIDE DEF c, x
<1>7. Upstream(closing) = {} <=> q.first # "open" /\ q.resumed # "open"
  BY <1>1, <1>3, UpstreamIs
<1>8. Len(<<>>) = 0 /\ Len(<<e>>) = 1 /\ <<e>> # <<>>
  OBVIOUS
<1>9. e = "none" \/ <<e>> # <<"completed">>
  BY DEF Errors
<1>10. Held(r) \in BOOLEAN
  BY DEF Held
<1>11. ASSUME st[r].cleaned PROVE Sound(ended, Held(r))
  BY <1>1, <1>4, <1>8, <1>9, <1>10, <1>11 DEF Leaving, Sound, Handling,
     Cleaning, Resuming, Downloading, Reporting, Delivering
<1>12. ASSUME ~st[r].cleaned, Upstream(closing) = {} PROVE Sound(x, FALSE)
  BY <1>1, <1>4, <1>6, <1>7, <1>8, <1>9, <1>10, <1>12 DEF Leaving, Sound,
     Handling, Cleaning, Resuming, Downloading, Reporting, Delivering
<1>13. ASSUME ~st[r].cleaned, Upstream(closing) # {} PROVE Sound(c, Held(r))
  BY <1>1, <1>3, <1>5, <1>7, <1>8, <1>10, <1>13 DEF Leaving, Sound, Handling,
     Cleaning, Resuming, Downloading, Reporting, Delivering
<1> QED
  BY <1>2, <1>3, <1>4, <1>11, <1>12, <1>13, CleanupSound DEF c, x

LEMMA LeaveCallSound ==
  ASSUME StreamInv, LimiterTypeOK, NEW r \in Streams,
         NEW q \in RequestState, NEW e \in Errors, LeaveCall(r, q, e),
         q.cleaned = st[r].cleaned, Sound(q, Held(r)),
         q.pc \in {"stream", "drain"},
         q.preview \/ StreamEnded(q), e = "none" => q.body = "ended"
  PROVE  StreamInv'
<1> DEFINE p == [q EXCEPT !.error = e]
           closing == [p EXCEPT !.pc = "cleanup"]
           ended == CallEnds(p)
           c == [closing EXCEPT !.cleaned = TRUE]
           x == [ended EXCEPT !.cleaned = TRUE]
<1>1. /\ p \in RequestState /\ Same(p, q)
      /\ p.pc = q.pc /\ p.body = q.body /\ p.cleaned = q.cleaned
      /\ p.error = e /\ p.log = q.log
  BY DEF RequestState
<1>2. Cleanup(r, closing, ended)
  BY DEF LeaveCall
<1>3. /\ closing \in RequestState /\ Same(closing, p)
      /\ closing.pc = "cleanup" /\ closing.body = p.body
      /\ closing.cleaned = p.cleaned
      /\ closing.error = p.error /\ closing.log = p.log
  BY <1>1 DEF RequestState, HandlerStates
<1> HIDE DEF p, closing
<1>4. /\ ended \in RequestState /\ Same(ended, p)
      /\ ended.pc = "done" /\ ended.body = p.body
      /\ ended.cleaned = p.cleaned /\ ended.error = p.error
      /\ ended.log = IF q.preview \/ q.log # <<>>
                     THEN q.log ELSE <<EventOf(e)>>
  BY <1>1, CallEndsIs
<1> HIDE DEF ended
<1>5. /\ c \in RequestState /\ Same(c, closing)
      /\ c.pc = closing.pc /\ c.body = closing.body /\ c.cleaned
      /\ c.error = closing.error /\ c.log = closing.log
  BY <1>3, CleanedIs
<1>6. /\ x \in RequestState /\ Same(x, ended)
      /\ x.pc = ended.pc /\ x.body = ended.body /\ x.cleaned
      /\ x.error = ended.error /\ x.log = ended.log
  BY <1>4, CleanedIs
<1> HIDE DEF c, x
<1>7. Upstream(closing) = {} <=> q.first # "open" /\ q.resumed # "open"
  BY <1>1, <1>3, UpstreamIs
<1>8. Len(<<>>) = 0 /\ Len(<<EventOf(e)>>) = 1 /\ <<EventOf(e)>> # <<>>
  OBVIOUS
<1>9. e = "none" \/ <<EventOf(e)>> # <<"completed">>
  BY DEF Errors, EventOf
<1>10. Held(r) \in BOOLEAN
  BY DEF Held
<1>11. ASSUME st[r].cleaned PROVE Sound(ended, Held(r))
  BY <1>1, <1>4, <1>8, <1>9, <1>10, <1>11 DEF StreamEnded, Sound, Handling,
     Cleaning, Resuming, Downloading, Reporting, Delivering
<1>12. ASSUME ~st[r].cleaned, Upstream(closing) = {} PROVE Sound(x, FALSE)
  BY <1>1, <1>4, <1>6, <1>7, <1>8, <1>9, <1>10, <1>12 DEF StreamEnded, Sound,
     Handling, Cleaning, Resuming, Downloading, Reporting, Delivering
<1>13. ASSUME ~st[r].cleaned, Upstream(closing) # {} PROVE Sound(c, Held(r))
  BY <1>1, <1>3, <1>5, <1>7, <1>8, <1>10, <1>13 DEF StreamEnded, Sound,
     Handling, Cleaning, Resuming, Downloading, Reporting, Delivering
<1> QED
  BY <1>2, <1>3, <1>4, <1>11, <1>12, <1>13, CleanupSound DEF c, x

(* The one connection that is open is closed: the caller releases the      *)
(* lease.                                                                  *)
LEMMA CloseNextSound ==
  ASSUME StreamInv, LimiterTypeOK, NEW r \in Streams,
         NEW more \in RequestState, NEW ended \in RequestState,
         CloseNext(r, more, ended),
         more.first # "open", more.resumed # "open", Sound(ended, FALSE)
  PROVE  StreamInv'
<1>1. Put(r, ended) /\ Release(r)
  BY UpstreamIs DEF CloseNext
<1>2. Held(r)' = FALSE /\ \A x \in Leases : x # r => lease'[x] = lease[x]
  BY <1>1, ReleaseUnholds, StreamsAssumption
<1>3. Sound(ended, Held(r)')
  BY <1>2, Zenon
<1> QED
  BY <1>1, <1>2, <1>3, PutSound

LEMMA BodyClosesSound ==
  ASSUME StreamInv, LimiterTypeOK, NEW r \in Streams, BodyCloses(r)
  PROVE  StreamInv'
<1> DEFINE s == st[r]
           c == CloseOne(s)
<1>1. s \in RequestState /\ Sound(s, Held(r)) /\ s.body = "closing"
  BY DEF StreamInv, StreamTypeOK, BodyCloses
<1>2. PICK cancelled \in BOOLEAN :
        LET e == IF cancelled /\ s.primary = "none" THEN "aborted" ELSE s.primary
            q == [c EXCEPT !.primary = e]
        IN  CloseNext(r, q, BodyEnds(q))
  BY DEF BodyCloses
<1> DEFINE e == IF cancelled /\ s.primary = "none" THEN "aborted" ELSE s.primary
           q == [c EXCEPT !.primary = e]
           ended == BodyEnds(q)
<1>3. CloseNext(r, q, ended)
  BY <1>2
<1> HIDE DEF s
<1>4. /\ c \in RequestState
      /\ SameKind(c, s) /\ SameData(c, s) /\ SameEnd(c, s)
      /\ c.pc = s.pc /\ c.body = s.body /\ c.cleaned = s.cleaned
      /\ c.error = s.error /\ c.log = s.log
      /\ c.first = IF s.first = "open" THEN "closed" ELSE s.first
      /\ c.resumed = IF s.first = "open" THEN s.resumed ELSE "closed"
  BY <1>1, CloseOneIs
<1>5. e \in Errors /\ (e = "none" => s.primary = "none")
  BY <1>1 DEF RequestState, Errors
<1> HIDE DEF c, e
<1>6. /\ q \in RequestState
      /\ SameKind(q, c) /\ SameUpstream(q, c) /\ SameData(q, c)
      /\ q.pc = c.pc /\ q.body = c.body /\ q.cleaned = c.cleaned
      /\ q.completed = c.completed /\ q.primary = e
      /\ q.error = c.error /\ q.log = c.log
  BY <1>4, <1>5 DEF RequestState
<1> HIDE DEF q
<1>7. /\ ended \in RequestState /\ Same(ended, q)
      /\ ended.pc = q.pc /\ ended.cleaned = q.cleaned /\ ended.error = q.error
      /\ ended.body = IF e = "none" THEN "sendEnd" ELSE "failed"
      /\ ended.log = IF e = "none" \/ q.preview \/ q.log # <<>>
                     THEN q.log ELSE <<e>>
  BY <1>6, BodyEndsIs
<1> HIDE DEF ended
<1>8. Len(<<>>) = 0 /\ Len(<<e>>) = 1 /\ <<e>> # <<>>
  OBVIOUS
<1>9. e = "none" \/ <<e>> # <<"completed">>
  BY <1>5 DEF Errors
<1>10. s.first \in Connection /\ s.resumed \in Connection
  BY <1>1 DEF RequestState
<1>11. q.first # "open" /\ q.resumed # "open"
  BY <1>1, <1>4, <1>6, <1>10 DEF Sound, Resuming
<1>12. Sound(ended, FALSE)
  BY <1>1, <1>4, <1>5, <1>6, <1>7, <1>8, <1>9, <1>11 DEF Sound, Handling,
     Cleaning, Resuming, Downloading, Reporting, Delivering
<1> QED
  BY <1>3, <1>6, <1>7, <1>11, <1>12, CloseNextSound

LEMMA CallClosesSound ==
  ASSUME StreamInv, LimiterTypeOK, NEW r \in Streams, CallCloses(r)
  PROVE  StreamInv'
<1> DEFINE s == st[r]
           c == CloseOne(s)
<1>1. s \in RequestState /\ Sound(s, Held(r)) /\ s.pc = "cleanup"
  BY DEF StreamInv, StreamTypeOK, CallCloses
<1>2. PICK cancelled \in BOOLEAN :
        LET e == IF cancelled /\ s.error = "none" THEN "aborted" ELSE s.error
            q == [c EXCEPT !.error = e]
        IN  CloseNext(r, q, CallEnds(q))
  BY DEF CallCloses
<1> DEFINE e == IF cancelled /\ s.error = "none" THEN "aborted" ELSE s.error
           q == [c EXCEPT !.error = e]
           ended == CallEnds(q)
<1>3. CloseNext(r, q, ended)
  BY <1>2
<1> HIDE DEF s
<1>4. /\ c \in RequestState
      /\ SameKind(c, s) /\ SameData(c, s) /\ SameEnd(c, s)
      /\ c.pc = s.pc /\ c.body = s.body /\ c.cleaned = s.cleaned
      /\ c.error = s.error /\ c.log = s.log
      /\ c.first = IF s.first = "open" THEN "closed" ELSE s.first
      /\ c.resumed = IF s.first = "open" THEN s.resumed ELSE "closed"
  BY <1>1, CloseOneIs
<1>5. e \in Errors /\ (e = "none" => s.error = "none")
  BY <1>1 DEF RequestState, Errors
<1> HIDE DEF c, e
<1>6. /\ q \in RequestState /\ Same(q, c)
      /\ q.pc = c.pc /\ q.body = c.body /\ q.cleaned = c.cleaned
      /\ q.error = e /\ q.log = c.log
  BY <1>4, <1>5 DEF RequestState
<1> HIDE DEF q
<1>7. /\ ended \in RequestState /\ Same(ended, q)
      /\ ended.pc = "done" /\ ended.body = q.body
      /\ ended.cleaned = q.cleaned /\ ended.error = q.error
      /\ ended.log = IF q.preview \/ q.log # <<>>
                     THEN q.log ELSE <<EventOf(e)>>
  BY <1>6, CallEndsIs
<1> HIDE DEF ended
<1>8. Len(<<>>) = 0 /\ Len(<<EventOf(e)>>) = 1 /\ <<EventOf(e)>> # <<>>
  OBVIOUS
<1>9. e = "none" \/ <<EventOf(e)>> # <<"completed">>
  BY <1>5 DEF Errors, EventOf
<1>10. s.first \in Connection /\ s.resumed \in Connection
  BY <1>1 DEF RequestState
<1>11. q.first # "open" /\ q.resumed # "open"
  BY <1>1, <1>4, <1>6, <1>10 DEF Sound, Resuming
<1>12. Sound(ended, FALSE)
  BY <1>1, <1>4, <1>5, <1>6, <1>7, <1>8, <1>9, <1>11 DEF Sound, Handling,
     Cleaning, Resuming, Downloading, Reporting, Delivering
<1> QED
  BY <1>3, <1>6, <1>7, <1>11, <1>12, CloseNextSound

-----------------------------------------------------------------------------
(* The handler.                                                            *)

(* A step that leaves the limiter alone.                                   *)
LEMMA QuietSound ==
  ASSUME StreamInv, NEW r \in Streams, NEW p \in RequestState, Put(r, p),
         UNCHANGED limiterVars, Sound(p, Held(r))
  PROVE  StreamInv'
<1>1. Held(r)' = Held(r) /\ \A x \in Leases : lease'[x] = lease[x]
  BY DEF limiterVars, Held
<1>2. Sound(p, Held(r)')
  BY <1>1, Zenon
<1> QED
  BY <1>1, <1>2, PutSound

(* A request without a stream task and with no connection open.            *)
Unstreamed(q) ==
  /\ q.body = "none" /\ ~q.cleaned /\ ~q.attempted /\ ~q.completed
  /\ q.first # "open" /\ q.resumed = "none"
  /\ q.resumed # "none" => q.first = "closed"
  /\ q.log = <<>> /\ q.sent = 0
  /\ Len(q.out) = q.sent
  /\ \A i \in 1..Len(q.out) : q.out[i] = i - 1

LEMMA AbandonSound ==
  ASSUME StreamInv, LimiterTypeOK, NEW r \in Streams,
         NEW q \in RequestState, NEW e \in {"failed", "aborted"},
         Abandon(r, q, e), Unstreamed(q)
  PROVE  StreamInv'
<1> DEFINE p == [q EXCEPT !.pc = "done", !.error = e]
           x == Logged(p, EventOf(e))
<1>1. /\ p \in RequestState /\ Same(p, q)
      /\ p.pc = "done" /\ p.body = q.body /\ p.cleaned = q.cleaned
      /\ p.error = e /\ p.log = q.log
  BY DEF RequestState, HandlerStates, Errors
<1>2. Release(r) /\ Put(r, x)
  BY DEF Abandon
<1> HIDE DEF p
<1>3. EventOf(e) = e /\ e \in Terminals
  BY DEF EventOf, Terminals
<1>4. /\ x \in RequestState /\ Same(x, p)
      /\ x.pc = p.pc /\ x.body = p.body /\ x.cleaned = p.cleaned
      /\ x.error = p.error
      /\ x.log = IF p.preview \/ p.log # <<>> THEN p.log ELSE <<e>>
  BY <1>1, <1>3, LoggedIs
<1> HIDE DEF x
<1>5. Len(<<>>) = 0 /\ Len(<<e>>) = 1 /\ <<e>> # <<>> /\ <<e>> # <<"completed">>
  OBVIOUS
<1>6. Sound(x, FALSE)
  BY <1>1, <1>4, <1>5 DEF Unstreamed, Sound, Handling, Cleaning, Resuming,
     Downloading, Reporting, Delivering
<1>7. Held(r)' = FALSE /\ \A y \in Leases : y # r => lease'[y] = lease[y]
  BY <1>2, ReleaseUnholds, StreamsAssumption
<1>8. Sound(x, Held(r)')
  BY <1>6, <1>7, Zenon
<1> QED
  BY <1>2, <1>4, <1>7, <1>8, PutSound

LEMMA HandlerSound ==
  ASSUME StreamInv, LimiterTypeOK, NEW r \in Streams, Handler(r)
  PROVE  StreamInv'
<1> DEFINE s == st[r]
<1>1. s \in RequestState /\ Sound(s, Held(r)) /\ Held(r) \in BOOLEAN
  BY DEF StreamInv, StreamTypeOK, Held
<1>2. CASE FetchOk(r)
  <2>1. PICK known \in BOOLEAN, resumable \in BOOLEAN :
          Put(r, [s EXCEPT !.pc = "first", !.first = "open",
                           !.known = known, !.resumable = resumable])
    BY <1>2 DEF FetchOk
  <2> DEFINE p == [s EXCEPT !.pc = "first", !.first = "open",
                            !.known = known, !.resumable = resumable]
  <2>2. s.pc = "fetch" /\ Put(r, p) /\ UNCHANGED limiterVars
    BY <1>2, <2>1 DEF FetchOk
  <2> HIDE DEF s
  <2>3. /\ p \in RequestState
        /\ SameData(p, s) /\ SameEnd(p, s)
        /\ p.preview = s.preview /\ p.attempted = s.attempted
        /\ p.pc = "first" /\ p.body = s.body /\ p.cleaned = s.cleaned
        /\ p.first = "open" /\ p.resumed = s.resumed
        /\ p.error = s.error /\ p.log = s.log
    BY <1>1 DEF RequestState, HandlerStates, Connection
  <2> HIDE DEF p
  <2>4. Sound(p, Held(r))
    BY <1>1, <2>2, <2>3 DEF Sound, Handling, Cleaning, Resuming, Downloading,
       Reporting, Delivering
  <2> QED
    BY <2>2, <2>3, <2>4, QuietSound
<1>3. CASE FetchUnusable(r)
  <2> DEFINE p == [s EXCEPT !.pc = "failclose", !.first = "open",
                            !.error = "failed"]
  <2>1. s.pc = "fetch" /\ Put(r, p) /\ UNCHANGED limiterVars
    BY <1>3 DEF FetchUnusable
  <2> HIDE DEF s
  <2>2. /\ p \in RequestState
        /\ SameKind(p, s) /\ SameData(p, s) /\ SameEnd(p, s)
        /\ p.pc = "failclose" /\ p.body = s.body /\ p.cleaned = s.cleaned
        /\ p.first = "open" /\ p.resumed = s.resumed
        /\ p.error = "failed" /\ p.log = s.log
    BY <1>1 DEF RequestState, HandlerStates, Connection, Errors
  <2> HIDE DEF p
  <2>3. Sound(p, Held(r))
    BY <1>1, <2>1, <2>2 DEF Sound, Handling, Cleaning, Resuming, Downloading,
       Reporting, Delivering
  <2> QED
    BY <2>1, <2>2, <2>3, QuietSound
<1>4. CASE FetchFails(r)
  <2>1. s.pc = "fetch" /\ Abandon(r, s, "failed")
    BY <1>4 DEF FetchFails
  <2> HIDE DEF s
  <2>2. Unstreamed(s)
    BY <1>1, <2>1 DEF Unstreamed, Sound, Handling, Cleaning, Resuming,
       Reporting, Delivering
  <2> QED
    BY <1>1, <2>1, <2>2, AbandonSound
<1>5. CASE FetchLeft(r)
  <2> DEFINE q == [s EXCEPT !.detached = "pending"]
  <2>1. PICK e \in {"failed", "aborted"} : Abandon(r, q, e)
    BY <1>5 DEF FetchLeft
  <2>2. s.pc = "fetch"
    BY <1>5 DEF FetchLeft
  <2> HIDE DEF s
  <2>3. /\ q \in RequestState /\ Same(q, s)
        /\ q.body = s.body /\ q.cleaned = s.cleaned /\ q.log = s.log
    BY <1>1 DEF RequestState
  <2> HIDE DEF q
  <2>4. Unstreamed(q)
    BY <1>1, <2>2, <2>3 DEF Unstreamed, Sound, Handling, Cleaning, Resuming,
       Reporting, Delivering
  <2> QED
    BY <2>1, <2>3, <2>4, AbandonSound
<1>6. CASE FirstChunk(r)
  <2> DEFINE p == [s EXCEPT !.pc = "stream", !.body = "start", !.pos = 1]
  <2>1. s.pc = "first" /\ Put(r, p) /\ UNCHANGED limiterVars
    BY <1>6 DEF FirstChunk
  <2> HIDE DEF s
  <2>2. 1 \in 0..Length
    BY LengthAssumption
  <2>3. /\ p \in RequestState
        /\ SameKind(p, s) /\ SameUpstream(p, s) /\ SameEnd(p, s)
        /\ p.pc = "stream" /\ p.body = "start" /\ p.cleaned = s.cleaned
        /\ p.pos = 1 /\ p.sent = s.sent /\ p.out = s.out
        /\ p.error = s.error /\ p.log = s.log
    BY <1>1, <2>2 DEF RequestState, HandlerStates, BodyStates
  <2> HIDE DEF p
  <2>4. Sound(p, Held(r))
    BY <1>1, <2>1, <2>3 DEF Sound, Handling, Cleaning, Resuming, Downloading,
       Reporting, Delivering
  <2> QED
    BY <2>1, <2>3, <2>4, QuietSound
<1>7. CASE FirstFails(r)
  <2>1. PICK e \in {"failed", "aborted"} :
          Put(r, [s EXCEPT !.pc = "failclose", !.error = e])
    BY <1>7 DEF FirstFails
  <2> DEFINE p == [s EXCEPT !.pc = "failclose", !.error = e]
  <2>2. s.pc = "first" /\ Put(r, p) /\ UNCHANGED limiterVars
    BY <1>7, <2>1 DEF FirstFails
  <2> HIDE DEF s
  <2>3. /\ p \in RequestState /\ Same(p, s)
        /\ p.pc = "failclose" /\ p.body = s.body /\ p.cleaned = s.cleaned
        /\ p.error = e /\ p.log = s.log
    BY <1>1 DEF RequestState, HandlerStates, Errors
  <2> HIDE DEF p
  <2>4. Sound(p, Held(r))
    BY <1>1, <2>2, <2>3 DEF Sound, Handling, Cleaning, Resuming, Downloading,
       Reporting, Delivering
  <2> QED
    BY <2>2, <2>3, <2>4, QuietSound
<1>8. CASE FailClosed(r)
  <2> DEFINE q == [s EXCEPT !.first = "closed"]
  <2>1. s.pc = "failclose" /\ Abandon(r, q, s.error)
    BY <1>8 DEF FailClosed
  <2> HIDE DEF s
  <2>2. s.error \in {"failed", "aborted"}
    BY <1>1, <2>1 DEF RequestState, Errors, Sound, Handling
  <2>3. /\ q \in RequestState
        /\ SameKind(q, s) /\ SameData(q, s) /\ SameEnd(q, s)
        /\ q.first = "closed" /\ q.resumed = s.resumed
        /\ q.body = s.body /\ q.cleaned = s.cleaned /\ q.log = s.log
    BY <1>1 DEF RequestState, Connection
  <2> HIDE DEF q
  <2>4. Unstreamed(q)
    BY <1>1, <2>1, <2>3 DEF Unstreamed, Sound, Handling, Cleaning, Resuming,
       Reporting, Delivering
  <2> QED
    BY <2>1, <2>2, <2>3, <2>4, AbandonSound
<1> QED
  BY <1>2, <1>3, <1>4, <1>5, <1>6, <1>7, <1>8 DEF Handler

-----------------------------------------------------------------------------
(* The stream task.                                                        *)

(* One more unit is delivered, the next one.                               *)
LEMMA NextUnit ==
  ASSUME NEW n \in 0..Length, NEW s \in Seq(0..Length), Len(s) = n,
         \A i \in 1..Len(s) : s[i] = i - 1
  PROVE  /\ Append(s, n) \in Seq(0..Length)
         /\ Len(Append(s, n)) = n + 1
         /\ \A i \in 1..Len(Append(s, n)) : Append(s, n)[i] = i - 1
<1>1. /\ Append(s, n) \in Seq(0..Length)
      /\ Len(Append(s, n)) = n + 1
      /\ Append(s, n)[n + 1] = n
      /\ \A i \in 1..n : Append(s, n)[i] = s[i]
  BY LengthAssumption
<1> DEFINE t == Append(s, n)
<1> HIDE DEF t
<1>2. \A i \in 1..(n + 1) : t[i] = i - 1
  <2>1. t[n + 1] = n /\ \A i \in 1..n : t[i] = s[i]
    BY <1>1 DEF t
  <2> QED
    BY <2>1
<1> QED
  BY <1>1, <1>2 DEF t

(* body() may leave from wherever it awaits.                               *)
LEMMA MayLeave ==
  ASSUME NEW s \in RequestState, NEW h \in BOOLEAN, Sound(s, h),
         s.body \in {"read", "rclose", "refetch"}, NEW q \in RequestState,
         SameKind(q, s), SameData(q, s), SameEnd(q, s),
         q.pc = s.pc, q.body = s.body, q.cleaned = s.cleaned,
         q.error = s.error, q.log = s.log,
         NEW e \in Errors, q.known /\ e = "none" => q.sent = Length,
         \/ SameUpstream(q, s)
         \/ s.body # "read" /\ q.first = "closed"
  PROVE  Leaving(q, e, h)
<1>1. /\ s.pc \in {"stream", "drain", "cleanup", "done"}
      /\ ~s.completed /\ s.log = <<>>
      /\ s.cleaned => s.preview
      /\ ~s.preview => s.pc = "stream"
  BY DEF RequestState, HandlerStates, Sound, Handling, Downloading, Reporting
<1>2. s.pc = "cleanup" => s.cleaned /\ s.error # "none"
  BY <1>1 DEF Sound, Cleaning, Reporting
<1>3. s.body # "read" => s.attempted /\ ~s.preview
  BY DEF Sound, Resuming
<1> QED
  BY <1>1, <1>2, <1>3 DEF Leaving, Sound, Cleaning, Resuming, Delivering

LEMMA SendSound ==
  ASSUME StreamInv, LimiterTypeOK, NEW r \in Streams,
         \/ StartSent(r) \/ ChunkSent(r) \/ EndSent(r) \/ SendFails(r)
         \/ ReadChunk(r)
  PROVE  StreamInv'
<1> DEFINE s == st[r]
<1>1. s \in RequestState /\ Sound(s, Held(r)) /\ Held(r) \in BOOLEAN
  BY DEF StreamInv, StreamTypeOK, Held
<1>2. CASE StartSent(r)
  <2> DEFINE p == [s EXCEPT !.body = "send"]
  <2>1. s.body = "start" /\ Put(r, p) /\ UNCHANGED limiterVars
    BY <1>2 DEF StartSent
  <2> HIDE DEF s
  <2>2. /\ p \in RequestState /\ Same(p, s)
        /\ p.pc = s.pc /\ p.body = "send" /\ p.cleaned = s.cleaned
        /\ p.error = s.error /\ p.log = s.log
    BY <1>1 DEF RequestState, BodyStates
  <2> HIDE DEF p
  <2>3. Sound(p, Held(r))
    BY <1>1, <2>1, <2>2 DEF Sound, Handling, Cleaning, Resuming, Downloading,
       Reporting, Delivering
  <2> QED
    BY <2>1, <2>2, <2>3, QuietSound
<1>3. CASE ChunkSent(r)
  <2> DEFINE p == [s EXCEPT !.body = "read", !.sent = @ + 1,
                            !.out = Append(@, s.pos - 1)]
  <2>1. s.body = "send" /\ Put(r, p) /\ UNCHANGED limiterVars
    BY <1>3 DEF ChunkSent
  <2> HIDE DEF s
  <2>2. /\ s.sent \in 0..Length /\ s.pos \in 0..Length
        /\ s.out \in Seq(0..Length)
    BY <1>1 DEF RequestState
  <2>3. /\ s.pos = s.sent + 1 /\ Len(s.out) = s.sent
        /\ \A i \in 1..Len(s.out) : s.out[i] = i - 1
    BY <1>1, <2>1 DEF Sound, Delivering
  <2>4. s.pos - 1 = s.sent /\ s.sent + 1 \in 0..Length
    BY <2>2, <2>3, LengthAssumption
  <2> DEFINE t == Append(s.out, s.pos - 1)
  <2>5. /\ t \in Seq(0..Length) /\ Len(t) = s.sent + 1
        /\ \A i \in 1..Len(t) : t[i] = i - 1
    BY <2>2, <2>3, <2>4, NextUnit
  <2>6. p = [s EXCEPT !.body = "read", !.sent = s.sent + 1, !.out = t]
    BY <1>1 DEF RequestState
  <2> HIDE DEF p, t
  <2>7. /\ p \in RequestState
        /\ SameKind(p, s) /\ SameUpstream(p, s) /\ SameEnd(p, s)
        /\ p.pc = s.pc /\ p.body = "read" /\ p.cleaned = s.cleaned
        /\ p.pos = s.pos /\ p.sent = s.sent + 1 /\ p.out = t
        /\ p.error = s.error /\ p.log = s.log
    BY <1>1, <2>4, <2>5, <2>6 DEF RequestState, BodyStates
  <2>8. Delivering(p)
    BY <2>3, <2>5, <2>7 DEF Delivering
  <2>9. Sound(p, Held(r))
    BY <1>1, <2>1, <2>7, <2>8 DEF Sound, Handling, Cleaning, Resuming,
       Downloading, Reporting
  <2> QED
    BY <2>1, <2>7, <2>9, QuietSound
<1>4. CASE EndSent(r)
  <2> DEFINE p == [s EXCEPT !.body = "ended", !.completed = TRUE]
  <2>1. s.body = "sendEnd" /\ Put(r, p) /\ UNCHANGED limiterVars
    BY <1>4 DEF EndSent
  <2> HIDE DEF s
  <2>2. /\ p \in RequestState
        /\ SameKind(p, s) /\ SameUpstream(p, s) /\ SameData(p, s)
        /\ p.pc = s.pc /\ p.body = "ended" /\ p.cleaned = s.cleaned
        /\ p.completed /\ p.error = s.error /\ p.log = s.log
    BY <1>1 DEF RequestState, BodyStates
  <2> HIDE DEF p
  <2>3. Sound(p, Held(r))
    BY <1>1, <2>1, <2>2 DEF Sound, Handling, Cleaning, Resuming, Downloading,
       Reporting, Delivering
  <2> QED
    BY <2>1, <2>2, <2>3, QuietSound
<1>5. CASE SendFails(r)
  <2>1. PICK e \in {"failed", "aborted"} :
          Put(r, [s EXCEPT !.body = "failed", !.primary = e])
    BY <1>5 DEF SendFails
  <2> DEFINE p == [s EXCEPT !.body = "failed", !.primary = e]
  <2>2. /\ s.body \in {"start", "send", "sendEnd"}
        /\ Put(r, p) /\ UNCHANGED limiterVars
    BY <1>5, <2>1 DEF SendFails
  <2> HIDE DEF s
  <2>3. /\ p \in RequestState
        /\ SameKind(p, s) /\ SameUpstream(p, s) /\ SameData(p, s)
        /\ p.pc = s.pc /\ p.body = "failed" /\ p.cleaned = s.cleaned
        /\ p.completed = s.completed /\ p.primary = e
        /\ p.error = s.error /\ p.log = s.log
    BY <1>1 DEF RequestState, BodyStates, Errors
  <2> HIDE DEF p
  <2>4. Sound(p, Held(r))
    BY <1>1, <2>2, <2>3 DEF Sound, Handling, Cleaning, Resuming, Downloading,
       Reporting, Delivering
  <2> QED
    BY <2>2, <2>3, <2>4, QuietSound
<1>6. CASE ReadChunk(r)
  <2> DEFINE p == [s EXCEPT !.body = "send", !.pos = @ + 1]
  <2>1. s.body = "read" /\ s.pos < Length /\ Put(r, p) /\ UNCHANGED limiterVars
    BY <1>6 DEF ReadChunk
  <2> HIDE DEF s
  <2>2. s.pos \in 0..Length
    BY <1>1 DEF RequestState
  <2>3. s.pos + 1 \in 0..Length
    BY <2>1, <2>2, LengthAssumption
  <2>4. /\ p \in RequestState
        /\ SameKind(p, s) /\ SameUpstream(p, s) /\ SameEnd(p, s)
        /\ p.pc = s.pc /\ p.body = "send" /\ p.cleaned = s.cleaned
        /\ p.pos = s.pos + 1 /\ p.sent = s.sent /\ p.out = s.out
        /\ p.error = s.error /\ p.log = s.log
    BY <1>1, <2>3 DEF RequestState, BodyStates
  <2> HIDE DEF p
  <2>5. Sound(p, Held(r))
    BY <1>1, <2>1, <2>4 DEF Sound, Handling, Cleaning, Resuming, Downloading,
       Reporting, Delivering
  <2> QED
    BY <2>1, <2>4, <2>5, QuietSound
<1> QED
  BY <1>2, <1>3, <1>4, <1>5, <1>6

LEMMA ReadSound ==
  ASSUME StreamInv, LimiterTypeOK, NEW r \in Streams,
         ReadEnd(r) \/ ReadTruncated(r) \/ ReadFails(r)
  PROVE  StreamInv'
<1> DEFINE s == st[r]
<1>1. /\ s \in RequestState /\ Sound(s, Held(r)) /\ Held(r) \in BOOLEAN
      /\ s.body = "read"
  BY DEF StreamInv, StreamTypeOK, Held, ReadEnd, ReadTruncated, ReadFails
<1>2. ASSUME NEW e \in Errors, s.known /\ e = "none" => s.sent = Length,
             LeaveBody(r, s, e)
      PROVE  StreamInv'
  <2> HIDE DEF s
  <2>1. Leaving(s, e, Held(r))
    BY <1>1, <1>2, MayLeave
  <2> QED
    BY <1>1, <1>2, <2>1, LeaveBodySound DEF s
<1>3. CASE ReadEnd(r)
  <2> DEFINE e == IF s.attempted /\ s.sent < Length THEN "failed" ELSE "none"
  <2>1. LeaveBody(r, s, e) /\ (Declared(s) => s.pos = Length)
    BY <1>3 DEF ReadEnd
  <2> HIDE DEF s
  <2>2. s.pos = s.sent /\ s.sent \in 0..Length /\ (s.attempted => s.known)
    BY <1>1 DEF RequestState, Sound, Resuming, Delivering
  <2>3. s.known /\ e = "none" => s.sent = Length
    BY <2>1, <2>2, LengthAssumption DEF Declared
  <2>4. e \in Errors
    BY DEF Errors
  <2> HIDE DEF e
  <2> QED
    BY <1>2, <2>1, <2>3, <2>4
<1>4. CASE ReadTruncated(r)
  <2>1. CASE ~CanResume(s)
    <3>1. LeaveBody(r, s, "failed")
      BY <1>4, <2>1 DEF ReadTruncated
    <3> QED
      BY <1>2, <3>1 DEF Errors
  <2>2. CASE CanResume(s)
    <3> DEFINE p == [s EXCEPT !.body = "rclose", !.attempted = TRUE]
    <3>1. Put(r, p) /\ UNCHANGED limiterVars
      BY <1>4, <2>2 DEF ReadTruncated
    <3> HIDE DEF s
    <3>2. ~s.preview /\ ~s.attempted /\ s.known
      BY <2>2 DEF CanResume
    <3>3. /\ p \in RequestState
          /\ SameUpstream(p, s) /\ SameData(p, s) /\ SameEnd(p, s)
          /\ p.preview = s.preview /\ p.known = s.known /\ p.attempted
          /\ p.pc = s.pc /\ p.body = "rclose" /\ p.cleaned = s.cleaned
          /\ p.error = s.error /\ p.log = s.log
      BY <1>1 DEF RequestState, BodyStates
    <3> HIDE DEF p
    <3>4. Sound(p, Held(r))
      BY <1>1, <3>2, <3>3 DEF Sound, Handling, Cleaning, Resuming,
         Downloading, Reporting, Delivering
    <3> QED
      BY <3>1, <3>3, <3>4, QuietSound
  <2> QED
    BY <2>1, <2>2
<1>5. CASE ReadFails(r)
  <2>1. PICK e \in {"failed", "aborted"} : LeaveBody(r, s, e)
    BY <1>5 DEF ReadFails
  <2> QED
    BY <1>2, <2>1 DEF Errors
<1> QED
  BY <1>3, <1>4, <1>5

LEMMA ResumeSound ==
  ASSUME StreamInv, LimiterTypeOK, NEW r \in Streams,
         ResumeClosed(r) \/ RefetchOk(r) \/ RefetchFails(r)
  PROVE  StreamInv'
<1> DEFINE s == st[r]
<1>1. /\ s \in RequestState /\ Sound(s, Held(r)) /\ Held(r) \in BOOLEAN
      /\ s.body \in {"rclose", "refetch"}
  BY DEF StreamInv, StreamTypeOK, Held, ResumeClosed, RefetchOk, RefetchFails
<1>2. s.attempted /\ s.first \in {"open", "closed"} /\ s.resumed = "none"
  <2> HIDE DEF s
  <2> QED
    BY <1>1 DEF Sound, Resuming, Cleaning, RequestState, Connection
<1>3. ASSUME NEW q \in RequestState, NEW e \in {"failed", "aborted"},
             LeaveBody(r, q, e),
             SameKind(q, s), SameData(q, s), SameEnd(q, s),
             q.pc = s.pc, q.body = s.body, q.cleaned = s.cleaned,
             q.error = s.error, q.log = s.log, q.first = "closed"
      PROVE  StreamInv'
  <2>1. e \in Errors /\ e # "none"
    BY DEF Errors
  <2> HIDE DEF s
  <2>2. Leaving(q, e, Held(r))
    BY <1>1, <1>3, <2>1, MayLeave
  <2> QED
    BY <1>1, <1>3, <2>1, <2>2, LeaveBodySound DEF s
<1>4. CASE ResumeClosed(r)
  <2> DEFINE q == CloseOne(s)
             p == [q EXCEPT !.body = "refetch"]
  <2>1. s.body = "rclose"
    BY <1>4 DEF ResumeClosed
  <2>2. \/ Put(r, p) /\ UNCHANGED limiterVars
        \/ LeaveBody(r, q, "aborted")
    BY <1>4 DEF ResumeClosed
  <2> HIDE DEF s
  <2>3. s.first = "open"
    BY <1>1, <2>1 DEF Sound, Resuming
  <2>4. /\ q \in RequestState
        /\ SameKind(q, s) /\ SameData(q, s) /\ SameEnd(q, s)
        /\ q.pc = s.pc /\ q.body = s.body /\ q.cleaned = s.cleaned
        /\ q.error = s.error /\ q.log = s.log
        /\ q.first = "closed" /\ q.resumed = "none"
    BY <1>1, <1>2, <2>3, CloseOneIs
  <2> HIDE DEF q
  <2>5. CASE LeaveBody(r, q, "aborted")
    BY <1>3, <2>4, <2>5
  <2>6. CASE Put(r, p) /\ UNCHANGED limiterVars
    <3>1. /\ p \in RequestState /\ Same(p, q)
          /\ p.pc = q.pc /\ p.body = "refetch" /\ p.cleaned = q.cleaned
          /\ p.error = q.error /\ p.log = q.log
      BY <2>4 DEF RequestState, BodyStates
    <3> HIDE DEF p
    <3>2. Sound(p, Held(r))
      BY <1>1, <1>2, <2>1, <2>4, <3>1 DEF Sound, Handling, Cleaning, Resuming,
         Downloading, Reporting, Delivering
    <3> QED
      BY <2>6, <3>1, <3>2, QuietSound
  <2> QED
    BY <2>2, <2>5, <2>6
<1>5. CASE RefetchOk(r)
  <2> DEFINE q == [s EXCEPT !.resumed = "open"]
  <2>1. s.body = "refetch"
    BY <1>5 DEF RefetchOk
  <2>2. PICK a \in RangeResponse :
          \/ /\ ValidResume(a, s.sent)
             /\ Put(r, [q EXCEPT !.body = "read", !.pos = a.start,
                                 !.rknown = a.length])
             /\ UNCHANGED limiterVars
          \/ LeaveBody(r, q, "failed")
    BY <1>5 DEF RefetchOk
  <2> HIDE DEF s
  <2>3. s.first = "closed"
    BY <1>1, <2>1 DEF Sound, Resuming
  <2>4. /\ q \in RequestState
        /\ SameKind(q, s) /\ SameData(q, s) /\ SameEnd(q, s)
        /\ q.pc = s.pc /\ q.body = s.body /\ q.cleaned = s.cleaned
        /\ q.error = s.error /\ q.log = s.log
        /\ q.first = "closed" /\ q.resumed = "open"
    BY <1>1, <2>3 DEF RequestState, Connection
  <2> HIDE DEF q
  <2>5. CASE LeaveBody(r, q, "failed")
    BY <1>3, <2>4, <2>5
  <2>6. CASE /\ ValidResume(a, s.sent)
             /\ Put(r, [q EXCEPT !.body = "read", !.pos = a.start,
                                 !.rknown = a.length])
             /\ UNCHANGED limiterVars
    <3> DEFINE p == [q EXCEPT !.body = "read", !.pos = a.start,
                              !.rknown = a.length]
    <3>1. a.start = s.sent /\ a.length \in BOOLEAN /\ s.sent \in 0..Length
      BY <1>1, <2>6 DEF ValidResume, RangeResponse, RequestState
    <3>2. /\ p \in RequestState
          /\ SameKind(p, q) /\ SameUpstream(p, q) /\ SameEnd(p, q)
          /\ p.pos = s.sent /\ p.sent = q.sent /\ p.out = q.out
          /\ p.pc = q.pc /\ p.body = "read" /\ p.cleaned = q.cleaned
          /\ p.error = q.error /\ p.log = q.log
      BY <2>4, <3>1 DEF RequestState, BodyStates
    <3>3. Put(r, p) /\ UNCHANGED limiterVars
      BY <2>6
    <3> HIDE DEF p
    <3>4. Sound(p, Held(r))
      BY <1>1, <1>2, <2>1, <2>4, <3>2 DEF Sound, Handling, Cleaning, Resuming,
         Downloading, Reporting, Delivering
    <3> QED
      BY <3>2, <3>3, <3>4, QuietSound
  <2> QED
    BY <2>2, <2>5, <2>6
<1>6. CASE RefetchFails(r)
  <2> DEFINE q == [s EXCEPT !.detached = "pending"]
  <2>1. s.body = "refetch"
    BY <1>6 DEF RefetchFails
  <2>2. LeaveBody(r, s, "failed") \/ LeaveBody(r, q, "aborted")
    BY <1>6 DEF RefetchFails
  <2>3. s.first = "closed"
    <3> HIDE DEF s
    <3> QED
      BY <1>1, <2>1 DEF Sound, Resuming
  <2>4. CASE LeaveBody(r, s, "failed")
    BY <1>1, <1>3, <2>3, <2>4
  <2>5. CASE LeaveBody(r, q, "aborted")
    <3>1. /\ q \in RequestState /\ Same(q, s)
          /\ q.pc = s.pc /\ q.body = s.body /\ q.cleaned = s.cleaned
          /\ q.error = s.error /\ q.log = s.log
      <4> HIDE DEF s
      <4> QED
        BY <1>1 DEF RequestState
    <3> HIDE DEF q, s
    <3> QED
      BY <1>3, <2>3, <2>5, <3>1
  <2> QED
    BY <2>2, <2>4, <2>5
<1> QED
  BY <1>4, <1>5, <1>6

LEMMA BodySound ==
  ASSUME StreamInv, LimiterTypeOK, NEW r \in Streams, Body(r)
  PROVE  StreamInv'
BY SendSound, ReadSound, ResumeSound, BodyClosesSound DEF Body

-----------------------------------------------------------------------------
(* __call__, the environment and the other requests.                       *)

LEMMA CallSound ==
  ASSUME StreamInv, LimiterTypeOK, NEW r \in Streams,
         Call(r) \/ CallerCancels(r)
  PROVE  StreamInv'
<1> DEFINE s == st[r]
           q == [s EXCEPT !.cancel = "caller"]
<1>1. s \in RequestState /\ Sound(s, Held(r)) /\ Held(r) \in BOOLEAN
  BY DEF StreamInv, StreamTypeOK, Held
<1>2. /\ q \in RequestState /\ Same(q, s)
      /\ q.pc = s.pc /\ q.body = s.body /\ q.cleaned = s.cleaned
      /\ q.error = s.error /\ q.log = s.log
  <2> HIDE DEF s
  <2> QED
    BY <1>1 DEF RequestState, Cancels
<1>3. Sound(q, Held(r))
  <2> HIDE DEF s, q
  <2> QED
    BY <1>1, <1>2 DEF Sound, Handling, Cleaning, Resuming, Downloading,
       Reporting, Delivering
<1>4. CASE StreamReturns(r)
  <2>1. /\ s.pc = "stream" /\ StreamEnded(s)
        /\ LeaveCall(r, s, StreamError(s))
    BY <1>4 DEF StreamReturns
  <2>2. /\ StreamError(s) \in Errors
        /\ StreamError(s) = "none" => s.body = "ended"
    <3> HIDE DEF s
    <3> QED
      BY <1>1, <2>1 DEF StreamError, StreamEnded, RequestState, Errors, Sound,
         Reporting
  <2> QED
    BY <1>1, <2>1, <2>2, LeaveCallSound
<1>5. CASE DrainEnds(r)
  <2>1. s.pc = "drain" /\ LeaveCall(r, s, "failed")
    BY <1>5 DEF DrainEnds
  <2>2. s.preview /\ "failed" \in Errors
    <3> HIDE DEF s
    <3> QED
      BY <1>1, <2>1 DEF Sound, Downloading, Errors
  <2> QED
    BY <1>1, <2>1, <2>2, LeaveCallSound
<1>6. CASE CallCloses(r)
  BY <1>6, CallClosesSound
<1>7. CASE CallerCancels(r)
  <2>1. /\ s.pc \in {"stream", "drain"}
        /\ \/ Put(r, q) /\ UNCHANGED limiterVars
           \/ (s.preview \/ StreamEnded(s)) /\ LeaveCall(r, q, "aborted")
    BY <1>7 DEF CallerCancels
  <2>2. q.cleaned = st[r].cleaned
    BY <1>2
  <2> HIDE DEF s, q
  <2>3. CASE Put(r, q) /\ UNCHANGED limiterVars
    BY <1>2, <1>3, <2>3, QuietSound
  <2>4. CASE (s.preview \/ StreamEnded(s)) /\ LeaveCall(r, q, "aborted")
    <3>1. /\ q.preview \/ StreamEnded(q)
          /\ q.pc \in {"stream", "drain"} /\ "aborted" \in Errors
      BY <1>2, <2>1, <2>4 DEF StreamEnded, Errors
    <3> QED
      BY <1>2, <1>3, <2>2, <2>4, <3>1, LeaveCallSound
  <2> QED
    BY <2>1, <2>3, <2>4
<1> QED
  BY <1>4, <1>5, <1>6, <1>7 DEF Call

(* The deadline, a disconnect, and the fetch left behind.                  *)
LEMMA EnvironmentSound ==
  ASSUME StreamInv, NEW r \in Streams,
         DeadlineFires(r) \/ Disconnect(r) \/ Detached(r)
  PROVE  StreamInv'
<1> DEFINE s == st[r]
<1>1. s \in RequestState /\ Sound(s, Held(r)) /\ Held(r) \in BOOLEAN
  BY DEF StreamInv, StreamTypeOK, Held
<1>2. UNCHANGED limiterVars
  BY DEF DeadlineFires, Disconnect, Detached, DetachedFetchEnds, DetachedCloses
<1>3. ASSUME NEW p \in RequestState, Put(r, p), Same(p, s),
             p.body = s.body, p.cleaned = s.cleaned,
             p.error = s.error, p.log = s.log,
             \/ p.pc = s.pc
             \/ s.pc = "stream" /\ s.preview /\ p.pc = "drain"
      PROVE  StreamInv'
  <2> HIDE DEF s
  <2>1. Sound(p, Held(r))
    BY <1>1, <1>3 DEF Sound, Handling, Cleaning, Resuming, Downloading,
       Reporting, Delivering
  <2> QED
    BY <1>2, <1>3, <2>1, QuietSound
<1>4. CASE DeadlineFires(r)
  <2> DEFINE p == [s EXCEPT !.pc = "drain", !.cancel = "deadline"]
  <2>1. s.pc = "stream" /\ s.preview /\ Put(r, p)
    BY <1>4 DEF DeadlineFires
  <2> HIDE DEF s
  <2>2. /\ p \in RequestState /\ Same(p, s)
        /\ p.pc = "drain" /\ p.body = s.body /\ p.cleaned = s.cleaned
        /\ p.error = s.error /\ p.log = s.log
    BY <1>1 DEF RequestState, HandlerStates, Cancels
  <2> HIDE DEF p
  <2> QED
    BY <1>3, <2>1, <2>2
<1>5. CASE Disconnect(r)
  <2> DEFINE p == [s EXCEPT !.cancel = "disconnect"]
  <2>1. Put(r, p)
    BY <1>5 DEF Disconnect
  <2> HIDE DEF s
  <2>2. /\ p \in RequestState /\ Same(p, s)
        /\ p.pc = s.pc /\ p.body = s.body /\ p.cleaned = s.cleaned
        /\ p.error = s.error /\ p.log = s.log
    BY <1>1 DEF RequestState, Cancels
  <2> HIDE DEF p
  <2> QED
    BY <1>3, <2>1, <2>2
<1>6. CASE Detached(r)
  <2>1. PICK d \in {"none", "open"} : Put(r, [s EXCEPT !.detached = d])
    BY <1>6 DEF Detached, DetachedFetchEnds, DetachedCloses
  <2> DEFINE p == [s EXCEPT !.detached = d]
  <2>2. Put(r, p)
    BY <2>1
  <2> HIDE DEF s
  <2>3. /\ p \in RequestState /\ Same(p, s)
        /\ p.pc = s.pc /\ p.body = s.body /\ p.cleaned = s.cleaned
        /\ p.error = s.error /\ p.log = s.log
    BY <1>1 DEF RequestState
  <2> HIDE DEF p
  <2> QED
    BY <1>3, <2>2, <2>3
<1> QED
  BY <1>4, <1>5, <1>6

(* A request that has begun, or the state before.                          *)
LEMMA NewSound ==
  /\ NewRequest \in RequestState
  /\ Sound(NewRequest, FALSE)
  /\ \A preview \in BOOLEAN :
       LET p == [NewRequest EXCEPT !.pc = "fetch", !.preview = preview] IN
       p \in RequestState /\ Sound(p, TRUE)
<1>1. /\ <<>> \in Seq(0..Length) /\ <<>> \in Seq(Terminals)
      /\ Len(<<>>) = 0 /\ 0 \in 0..Length
  BY LengthAssumption
<1>2. NewRequest \in RequestState
  BY <1>1 DEF NewRequest, RequestState, HandlerStates, BodyStates, Connection,
     Errors, Cancels
<1>3. Sound(NewRequest, FALSE)
  BY <1>1 DEF NewRequest, Sound, Handling, Cleaning, Resuming, Downloading,
     Reporting, Delivering
<1>4. ASSUME NEW preview \in BOOLEAN
      PROVE  LET p == [NewRequest EXCEPT !.pc = "fetch", !.preview = preview]
             IN  p \in RequestState /\ Sound(p, TRUE)
  <2> DEFINE n == NewRequest
             p == [n EXCEPT !.pc = "fetch", !.preview = preview]
  <2>1. /\ n.body = "none" /\ ~n.cleaned /\ ~n.attempted /\ ~n.completed
        /\ n.first = "none" /\ n.resumed = "none" /\ n.log = <<>>
        /\ n.sent = 0 /\ n.out = <<>> /\ ~n.known
    BY DEF NewRequest
  <2>2. n \in RequestState
    BY <1>2
  <2> HIDE DEF n
  <2>3. /\ p \in RequestState
        /\ SameUpstream(p, n) /\ SameData(p, n) /\ SameEnd(p, n)
        /\ p.known = n.known /\ p.attempted = n.attempted
        /\ p.pc = "fetch" /\ p.body = n.body /\ p.cleaned = n.cleaned
        /\ p.error = n.error /\ p.log = n.log
    BY <2>2 DEF RequestState, HandlerStates
  <2> HIDE DEF p
  <2>4. Sound(p, TRUE)
    BY <1>1, <2>1, <2>3 DEF Sound, Handling, Cleaning, Resuming, Downloading,
       Reporting, Delivering
  <2> QED
    BY <2>3, <2>4 DEF n, p
<1> QED
  BY <1>2, <1>3, <1>4

LEMMA BeginSound ==
  ASSUME StreamInv, LimiterTypeOK, NEW r \in Streams,
         NEW c \in Clients, NEW preview \in BOOLEAN, Begin(r, c, preview)
  PROVE  StreamInv'
<1> DEFINE p == [NewRequest EXCEPT !.pc = "fetch", !.preview = preview]
<1>1. Put(r, p) /\ Fresh(r) /\ HandOut(r, "download", c)
  BY DEF Begin, AcquireDownload
<1>2. p \in RequestState /\ Sound(p, TRUE)
  BY NewSound
<1> HIDE DEF p
<1>3. /\ lease'[r] = [kind |-> "download", client |-> c, released |-> FALSE]
      /\ \A x \in Leases : x # r => lease'[x] = lease[x]
  BY <1>1, HandOutHeld, StreamsAssumption DEF Kinds
<1>4. Held(r)' = TRUE
  BY <1>3 DEF Held, NoLease
<1>5. Sound(p, Held(r)')
  BY <1>2, <1>4, Zenon
<1> QED
  BY <1>1, <1>2, <1>3, <1>5, PutSound

LEMMA OtherSound ==
  ASSUME StreamInv, LimiterTypeOK, NEW l \in Leases \ Streams, OtherRequest(l)
  PROVE  StreamInv'
<1>1. \A x \in Leases : x # l => lease'[x] = lease[x]
  <2>1. ASSUME NEW c \in Clients, AcquireDownload(l, c) \/ AcquireExtraction(l, c)
        PROVE  \A x \in Leases : x # l => lease'[x] = lease[x]
    BY <2>1, HandOutHeld DEF AcquireDownload, AcquireExtraction, Kinds
  <2> QED
    BY <2>1, ReleaseUnholds DEF OtherRequest
<1>2. \A x \in Streams : Held(x)' = Held(x)
  BY <1>1, StreamsAssumption DEF Held
<1>3. st' = st
  BY DEF OtherRequest
<1>4. ASSUME NEW x \in Streams PROVE Sound(st'[x], Held(x)')
  <2>1. Sound(st[x], Held(x))
    BY DEF StreamInv
  <2> QED
    BY <1>2, <1>3, <2>1, Zenon
<1> QED
  BY <1>3, <1>4 DEF StreamInv, StreamTypeOK

LEMMA StreamStep ==
  ASSUME StreamInv, LimiterTypeOK, [Next]_vars
  PROVE  StreamInv'
<1>1. ASSUME NEW r \in Streams,
             \/ Handler(r) \/ Body(r) \/ Call(r) \/ DeadlineFires(r)
             \/ Disconnect(r) \/ CallerCancels(r) \/ Detached(r)
      PROVE  StreamInv'
  BY <1>1, HandlerSound, BodySound, CallSound, EnvironmentSound
<1>2. CASE UNCHANGED vars
  <2>1. ASSUME NEW x \in Streams PROVE Sound(st'[x], Held(x)')
    <3>1. st' = st /\ Held(x)' = Held(x)
      BY <1>2 DEF vars, Held
    <3>2. Sound(st[x], Held(x))
      BY DEF StreamInv
    <3> QED
      BY <3>1, <3>2, Zenon
  <2> QED
    BY <1>2, <2>1 DEF vars, StreamInv, StreamTypeOK
<1> QED
  BY <1>1, <1>2, BeginSound, OtherSound DEF Next

(* In every behaviour each request keeps to what it holds.                 *)
THEOREM StreamInvariant == Spec => [](StreamInv /\ LimiterTypeOK)
<1>1. Init => StreamInv
  <2> SUFFICES ASSUME Init PROVE StreamInv
    OBVIOUS
  <2>1. \A r \in Streams : st[r] = NewRequest /\ Held(r) = FALSE
    BY StreamsAssumption DEF Init, LimiterInit, Held
  <2>2. \A r \in Streams : Sound(st[r], Held(r))
    BY <2>1, NewSound, Zenon
  <2> QED
    BY <2>2, NewSound DEF StreamInv, StreamTypeOK, Init
<1>2. LimiterInv => LimiterTypeOK
  BY DEF LimiterInv
<1>3. StreamInv /\ LimiterTypeOK /\ [Next]_vars => StreamInv'
  BY StreamStep
<1>4. Spec => []LimiterTypeOK
  BY <1>2, StreamImplementsLimiter, LimiterInvariant, PTL DEF ImplementsLimiter
<1> QED
  BY <1>1, <1>3, <1>4, PTL DEF Spec

(* The slot covers the upstream connection, which is the only one, and     *)
(* nothing is left when the request has settled (routes.py cleanup,        *)
(* cleanup_failed_response, cleanup_detached_fetch).                       *)
THEOREM UpstreamCovered == Spec => []UpstreamCoveredBySlot
<1>1. StreamInv => UpstreamCoveredBySlot
  <2> SUFFICES ASSUME StreamInv, NEW r \in Streams
               PROVE  /\ Upstream(st[r]) # {} => Held(r)
                      /\ Cardinality(Upstream(st[r])) <= 1
                      /\ Settled(r) => ~Held(r) /\ Upstream(st[r]) = {}
    BY DEF UpstreamCoveredBySlot
  <2> DEFINE s == st[r]
             U == Upstream(s)
  <2>1. s \in RequestState /\ Sound(s, Held(r)) /\ Held(r) \in BOOLEAN
    BY DEF StreamInv, StreamTypeOK, Held
  <2>2. Settled(r) => /\ s.pc \in {"idle", "done"}
                      /\ s.body \in {"none", "ended", "failed"}
    BY DEF Settled
  <2> HIDE DEF s
  <2>3. U = {} <=> s.first # "open" /\ s.resumed # "open"
    BY <2>1, UpstreamIs
  <2>4. ~(s.first = "open" /\ s.resumed = "open")
    BY <2>1 DEF Sound, Resuming
  <2>5. U # {} => Held(r)
    BY <2>1, <2>3 DEF Sound, Handling, Cleaning, Resuming
  <2>6. Settled(r) => ~Held(r) /\ U = {}
    BY <2>1, <2>2, <2>3 DEF Sound, Handling, Cleaning, Resuming
  <2>7. U = {} \/ U = {"first"} \/ U = {"resumed"}
    <3>1. s["first"] = s.first /\ s["resumed"] = s.resumed
      BY <2>1 DEF RequestState
    <3>2. U = {x \in {"first", "resumed"} : s[x] = "open"}
      BY DEF Upstream
    <3> HIDE DEF U
    <3> QED
      BY <2>4, <3>1, <3>2
  <2>8. Cardinality(U) <= 1
    <3>1. /\ Cardinality({}) = 0
          /\ Cardinality({"first"}) = 1 /\ Cardinality({"resumed"}) = 1
      BY FS_EmptySet, FS_Singleton
    <3> HIDE DEF U
    <3> QED
      BY <2>7, <3>1
  <2> QED
    BY <2>5, <2>6, <2>8 DEF s
<1> QED
  BY <1>1, StreamInvariant, PTL

(* Every unit is delivered once and in order, and success means all of     *)
(* them (routes.py body, resume_offset, the checks after the loop).        *)
THEOREM WholeDelivery == Spec => []DeliveredWhole
<1>1. StreamInv => DeliveredWhole
  <2> SUFFICES ASSUME StreamInv, NEW r \in Streams
               PROVE  /\ Len(st[r].out) = st[r].sent
                      /\ \A i \in 1..Len(st[r].out) : st[r].out[i] = i - 1
                      /\ st[r].completed /\ st[r].known =>
                           Len(st[r].out) = Length
    BY DEF DeliveredWhole, StreamInv
  <2>1. Sound(st[r], Held(r))
    BY DEF StreamInv
  <2> QED
    BY <2>1 DEF Sound, Reporting, Delivering
<1> QED
  BY <1>1, StreamInvariant, PTL

(* The terminal event of a download is unique, comes after its slot, and   *)
(* is not a false success (routes.py log_terminal).                        *)
THEOREM TerminalEventUnique == Spec => []OneTerminalEvent
<1>1. StreamInv => OneTerminalEvent
  BY DEF StreamInv, OneTerminalEvent, Sound, Reporting
<1> QED
  BY <1>1, StreamInvariant, PTL

-----------------------------------------------------------------------------
(* The resume.                                                             *)

(* A step that sends no Range request of r.                                *)
NoRequest(r) == st'[r].body = st[r].body \/ st'[r].body # "refetch"

LEMMA PutIs ==
  ASSUME StreamTypeOK, NEW r \in Streams, NEW p, Put(r, p)
  PROVE  st'[r] = p /\ \A x \in Streams : x # r => st'[x] = st[x]
BY DEF StreamTypeOK, Put

LEMMA CleanupBody ==
  ASSUME StreamTypeOK, NEW r \in Streams,
         NEW closing \in RequestState, NEW ended \in RequestState,
         Cleanup(r, closing, ended)
  PROVE  /\ st'[r].body \in {closing.body, ended.body}
         /\ \A x \in Streams : x # r => st'[x] = st[x]
<1> DEFINE c == [closing EXCEPT !.cleaned = TRUE]
           x == [ended EXCEPT !.cleaned = TRUE]
<1>1. Put(r, ended) \/ Put(r, x) \/ Put(r, c)
  BY DEF Cleanup
<1>2. c.body = closing.body /\ x.body = ended.body
  BY CleanedIs
<1> HIDE DEF c, x
<1> QED
  BY <1>1, <1>2, PutIs

LEMMA LeaveBodyBody ==
  ASSUME StreamTypeOK, NEW r \in Streams,
         NEW q \in RequestState, NEW e \in Errors, LeaveBody(r, q, e)
  PROVE  /\ st'[r].body \in {"closing", "sendEnd", "failed"}
         /\ \A x \in Streams : x # r => st'[x] = st[x]
<1> DEFINE p == [q EXCEPT !.primary = e]
           closing == [p EXCEPT !.body = "closing"]
<1>1. p \in RequestState /\ Cleanup(r, closing, BodyEnds(p))
  BY DEF LeaveBody, RequestState
<1> HIDE DEF p
<1>2. closing \in RequestState /\ closing.body = "closing"
  BY <1>1 DEF RequestState, BodyStates
<1> HIDE DEF closing
<1>3. BodyEnds(p) \in RequestState /\ BodyEnds(p).body \in {"sendEnd", "failed"}
  BY <1>1, BodyEndsIs
<1> QED
  BY <1>1, <1>2, <1>3, CleanupBody

LEMMA LeaveCallBody ==
  ASSUME StreamTypeOK, NEW r \in Streams,
         NEW q \in RequestState, NEW e \in Errors, LeaveCall(r, q, e)
  PROVE  /\ st'[r].body = q.body
         /\ \A x \in Streams : x # r => st'[x] = st[x]
<1> DEFINE p == [q EXCEPT !.error = e]
           closing == [p EXCEPT !.pc = "cleanup"]
<1>1. p \in RequestState /\ p.body = q.body /\ Cleanup(r, closing, CallEnds(p))
  BY DEF LeaveCall, RequestState
<1> HIDE DEF p
<1>2. closing \in RequestState /\ closing.body = p.body
  BY <1>1 DEF RequestState, HandlerStates
<1> HIDE DEF closing
<1>3. CallEnds(p) \in RequestState /\ CallEnds(p).body = p.body
  BY <1>1, CallEndsIs
<1> QED
  BY <1>1, <1>2, <1>3, CleanupBody

LEMMA HandlerBody ==
  ASSUME StreamTypeOK, NEW r \in Streams, Handler(r)
  PROVE  NoRequest(r) /\ \A x \in Streams : x # r => st'[x] = st[x]
<1> DEFINE s == st[r]
<1>1. s \in RequestState
  BY DEF StreamTypeOK
<1>2. ASSUME NEW q \in RequestState, NEW e \in Errors, q.body = s.body,
             Abandon(r, q, e)
      PROVE  NoRequest(r) /\ \A x \in Streams : x # r => st'[x] = st[x]
  <2> DEFINE p == [q EXCEPT !.pc = "done", !.error = e]
  <2>1. p \in RequestState /\ p.body = q.body
    BY DEF RequestState, HandlerStates
  <2>2. Put(r, Logged(p, EventOf(e)))
    BY <1>2 DEF Abandon
  <2> HIDE DEF p
  <2>3. EventOf(e) \in Terminals
    BY DEF EventOf, Errors, Terminals
  <2>4. Logged(p, EventOf(e)).body = p.body
    BY <2>1, <2>3, LoggedIs
  <2> QED
    BY <1>2, <2>1, <2>2, <2>4, PutIs DEF NoRequest
<1>3. CASE FetchOk(r) \/ FetchUnusable(r) \/ FirstChunk(r) \/ FirstFails(r)
  <2>1. ASSUME NEW p, Put(r, p), p.body = s.body \/ p.body = "start"
        PROVE  NoRequest(r) /\ \A x \in Streams : x # r => st'[x] = st[x]
    BY <2>1, PutIs DEF NoRequest
  <2>2. CASE FetchOk(r)
    <3>1. PICK known \in BOOLEAN, resumable \in BOOLEAN :
            Put(r, [s EXCEPT !.pc = "first", !.first = "open",
                             !.known = known, !.resumable = resumable])
      BY <2>2 DEF FetchOk
    <3>2. [s EXCEPT !.pc = "first", !.first = "open", !.known = known,
                    !.resumable = resumable].body = s.body
      BY <1>1 DEF RequestState
    <3> QED
      BY <2>1, <3>1, <3>2
  <2>3. CASE FetchUnusable(r)
    <3>1. Put(r, [s EXCEPT !.pc = "failclose", !.first = "open",
                           !.error = "failed"])
      BY <2>3 DEF FetchUnusable
    <3>2. [s EXCEPT !.pc = "failclose", !.first = "open",
                    !.error = "failed"].body = s.body
      BY <1>1 DEF RequestState
    <3> QED
      BY <2>1, <3>1, <3>2
  <2>4. CASE FirstChunk(r)
    <3>1. Put(r, [s EXCEPT !.pc = "stream", !.body = "start", !.pos = 1])
      BY <2>4 DEF FirstChunk
    <3>2. [s EXCEPT !.pc = "stream", !.body = "start", !.pos = 1].body = "start"
      BY <1>1 DEF RequestState
    <3> QED
      BY <2>1, <3>1, <3>2
  <2>5. CASE FirstFails(r)
    <3>1. PICK e \in {"failed", "aborted"} :
            Put(r, [s EXCEPT !.pc = "failclose", !.error = e])
      BY <2>5 DEF FirstFails
    <3>2. [s EXCEPT !.pc = "failclose", !.error = e].body = s.body
      BY <1>1 DEF RequestState
    <3> QED
      BY <2>1, <3>1, <3>2
  <2> QED
    BY <1>3, <2>2, <2>3, <2>4, <2>5
<1>4. CASE FetchFails(r)
  BY <1>1, <1>2, <1>4 DEF FetchFails, Errors
<1>5. CASE FetchLeft(r)
  <2> DEFINE q == [s EXCEPT !.detached = "pending"]
  <2>1. PICK e \in Errors : Abandon(r, q, e)
    BY <1>5 DEF FetchLeft, Errors
  <2>2. q \in RequestState /\ q.body = s.body
    BY <1>1 DEF RequestState
  <2> QED
    BY <1>2, <2>1, <2>2
<1>6. CASE FailClosed(r)
  <2> DEFINE q == [s EXCEPT !.first = "closed"]
  <2>1. Abandon(r, q, s.error)
    BY <1>6 DEF FailClosed
  <2>2. q \in RequestState /\ q.body = s.body /\ s.error \in Errors
    BY <1>1 DEF RequestState, Connection
  <2> QED
    BY <1>2, <2>1, <2>2
<1> QED
  BY <1>3, <1>4, <1>5, <1>6 DEF Handler

LEMMA BodyBody ==
  ASSUME StreamTypeOK, NEW r \in Streams, Body(r), ~ResumeClosed(r)
  PROVE  NoRequest(r) /\ \A x \in Streams : x # r => st'[x] = st[x]
<1> DEFINE s == st[r]
<1>1. s \in RequestState
  BY DEF StreamTypeOK
<1>2. ASSUME NEW q \in RequestState, NEW e \in Errors, LeaveBody(r, q, e)
      PROVE  NoRequest(r) /\ \A x \in Streams : x # r => st'[x] = st[x]
  BY <1>2, LeaveBodyBody DEF NoRequest
<1>3. ASSUME NEW p, Put(r, p), p.body # "refetch"
      PROVE  NoRequest(r) /\ \A x \in Streams : x # r => st'[x] = st[x]
  BY <1>3, PutIs DEF NoRequest
<1>4. CASE StartSent(r)
  <2>1. [s EXCEPT !.body = "send"].body = "send"
    BY <1>1 DEF RequestState
  <2> QED
    BY <1>3, <1>4, <2>1 DEF StartSent
<1>5. CASE ChunkSent(r)
  <2> DEFINE p == [s EXCEPT !.body = "read", !.sent = @ + 1,
                            !.out = Append(@, s.pos - 1)]
  <2>1. Put(r, p)
    BY <1>5 DEF ChunkSent
  <2>2. p.body = "read"
    BY <1>1 DEF RequestState
  <2> QED
    BY <1>3, <2>1, <2>2
<1>6. CASE EndSent(r)
  <2>1. [s EXCEPT !.body = "ended", !.completed = TRUE].body = "ended"
    BY <1>1 DEF RequestState
  <2> QED
    BY <1>3, <1>6, <2>1 DEF EndSent
<1>7. CASE SendFails(r)
  <2>1. PICK e \in Errors : Put(r, [s EXCEPT !.body = "failed", !.primary = e])
    BY <1>7 DEF SendFails, Errors
  <2>2. [s EXCEPT !.body = "failed", !.primary = e].body = "failed"
    BY <1>1 DEF RequestState
  <2> QED
    BY <1>3, <2>1, <2>2
<1>8. CASE ReadChunk(r)
  <2> DEFINE p == [s EXCEPT !.body = "send", !.pos = @ + 1]
  <2>1. Put(r, p)
    BY <1>8 DEF ReadChunk
  <2>2. p.body = "send"
    BY <1>1 DEF RequestState
  <2> QED
    BY <1>3, <2>1, <2>2
<1>9. CASE ReadEnd(r)
  <2>1. PICK e \in Errors : LeaveBody(r, s, e)
    BY <1>9 DEF ReadEnd, Errors
  <2> QED
    BY <1>1, <1>2, <2>1
<1>10. CASE ReadTruncated(r)
  <2>1. [s EXCEPT !.body = "rclose", !.attempted = TRUE].body = "rclose"
    BY <1>1 DEF RequestState
  <2> QED
    BY <1>1, <1>2, <1>3, <1>10, <2>1 DEF ReadTruncated, Errors
<1>11. CASE ReadFails(r)
  <2>1. PICK e \in Errors : LeaveBody(r, s, e)
    BY <1>11 DEF ReadFails, Errors
  <2> QED
    BY <1>1, <1>2, <2>1
<1>12. CASE RefetchOk(r)
  <2> DEFINE q == [s EXCEPT !.resumed = "open"]
  <2>1. PICK a \in RangeResponse :
          \/ Put(r, [q EXCEPT !.body = "read", !.pos = a.start,
                              !.rknown = a.length])
          \/ LeaveBody(r, q, "failed")
    BY <1>12 DEF RefetchOk
  <2>2. q \in RequestState
    BY <1>1 DEF RequestState, Connection
  <2> HIDE DEF q
  <2>3. [q EXCEPT !.body = "read", !.pos = a.start,
                  !.rknown = a.length].body = "read"
    BY <2>2 DEF RequestState
  <2> QED
    BY <1>2, <1>3, <2>1, <2>2, <2>3 DEF Errors
<1>13. CASE RefetchFails(r)
  <2> DEFINE q == [s EXCEPT !.detached = "pending"]
  <2>1. LeaveBody(r, s, "failed") \/ LeaveBody(r, q, "aborted")
    BY <1>13 DEF RefetchFails
  <2>2. q \in RequestState
    BY <1>1 DEF RequestState
  <2> QED
    BY <1>1, <1>2, <2>1, <2>2 DEF Errors
<1>14. CASE BodyCloses(r)
  <2> DEFINE c == CloseOne(s)
  <2>1. PICK cancelled \in BOOLEAN :
          LET e == IF cancelled /\ s.primary = "none" THEN "aborted"
                   ELSE s.primary
              q == [c EXCEPT !.primary = e]
          IN  CloseNext(r, q, BodyEnds(q))
    BY <1>14 DEF BodyCloses
  <2> DEFINE e == IF cancelled /\ s.primary = "none" THEN "aborted"
                  ELSE s.primary
             q == [c EXCEPT !.primary = e]
  <2>2. CloseNext(r, q, BodyEnds(q))
    BY <2>1
  <2>3. e \in Errors
    BY <1>1 DEF RequestState, Errors
  <2>4. c \in RequestState /\ c.body = "closing"
    BY <1>1, <1>14, CloseOneIs DEF BodyCloses
  <2> HIDE DEF c, e
  <2>5. q \in RequestState /\ q.body = "closing"
    BY <2>3, <2>4 DEF RequestState
  <2> HIDE DEF q
  <2>6. BodyEnds(q).body # "refetch"
    BY <2>5, BodyEndsIs
  <2> QED
    BY <1>3, <2>2, <2>5, <2>6 DEF CloseNext
<1> QED
  BY <1>4, <1>5, <1>6, <1>7, <1>8, <1>9, <1>10, <1>11, <1>12, <1>13, <1>14
     DEF Body

LEMMA CallBody ==
  ASSUME StreamTypeOK, NEW r \in Streams, Call(r) \/ CallerCancels(r)
  PROVE  NoRequest(r) /\ \A x \in Streams : x # r => st'[x] = st[x]
<1> DEFINE s == st[r]
<1>1. s \in RequestState
  BY DEF StreamTypeOK
<1>2. ASSUME NEW q \in RequestState, NEW e \in Errors, q.body = s.body,
             LeaveCall(r, q, e)
      PROVE  NoRequest(r) /\ \A x \in Streams : x # r => st'[x] = st[x]
  BY <1>2, LeaveCallBody DEF NoRequest
<1>3. CASE StreamReturns(r) \/ DrainEnds(r)
  <2>1. StreamError(s) \in Errors
    BY <1>1 DEF StreamError, RequestState, Errors
  <2> QED
    BY <1>1, <1>2, <1>3, <2>1 DEF StreamReturns, DrainEnds, Errors
<1>4. CASE CallCloses(r)
  <2> DEFINE c == CloseOne(s)
  <2>1. PICK cancelled \in BOOLEAN :
          LET e == IF cancelled /\ s.error = "none" THEN "aborted"
                   ELSE s.error
              q == [c EXCEPT !.error = e]
          IN  CloseNext(r, q, CallEnds(q))
    BY <1>4 DEF CallCloses
  <2> DEFINE e == IF cancelled /\ s.error = "none" THEN "aborted" ELSE s.error
             q == [c EXCEPT !.error = e]
  <2>2. CloseNext(r, q, CallEnds(q))
    BY <2>1
  <2>3. e \in Errors
    BY <1>1 DEF RequestState, Errors
  <2>4. c \in RequestState /\ c.body = s.body
    BY <1>1, CloseOneIs
  <2> HIDE DEF c, e
  <2>5. q \in RequestState /\ q.body = s.body
    BY <2>3, <2>4 DEF RequestState
  <2> HIDE DEF q
  <2>6. CallEnds(q).body = s.body
    BY <2>5, CallEndsIs
  <2> QED
    BY <2>2, <2>5, <2>6, PutIs DEF CloseNext, NoRequest
<1>5. CASE CallerCancels(r)
  <2> DEFINE q == [s EXCEPT !.cancel = "caller"]
  <2>1. Put(r, q) \/ LeaveCall(r, q, "aborted")
    BY <1>5 DEF CallerCancels
  <2>2. q \in RequestState /\ q.body = s.body
    BY <1>1 DEF RequestState, Cancels
  <2> HIDE DEF q
  <2> QED
    BY <1>2, <2>1, <2>2, PutIs DEF Errors, NoRequest
<1> QED
  BY <1>3, <1>4, <1>5 DEF Call

(* Only the close of the first connection leads to a Range request.        *)
LEMMA OnlyResumeRequests ==
  ASSUME StreamTypeOK, NEW r \in Streams, Next, ~NoRequest(r)
  PROVE  ResumeClosed(r)
<1>1. ASSUME NEW y \in Streams,
             \/ \E c \in Clients, preview \in BOOLEAN : Begin(y, c, preview)
             \/ DeadlineFires(y) \/ Disconnect(y) \/ Detached(y)
      PROVE  NoRequest(y) /\ \A x \in Streams : x # y => st'[x] = st[x]
  <2> DEFINE s == st[y]
  <2>1. s \in RequestState
    BY DEF StreamTypeOK
  <2>2. ASSUME NEW p, Put(y, p), p.body = s.body \/ p.body = "none"
        PROVE  NoRequest(y) /\ \A x \in Streams : x # y => st'[x] = st[x]
    BY <2>2, PutIs DEF NoRequest
  <2>3. ASSUME NEW c \in Clients, NEW preview \in BOOLEAN, Begin(y, c, preview)
        PROVE  NoRequest(y) /\ \A x \in Streams : x # y => st'[x] = st[x]
    <3>1. [NewRequest EXCEPT !.pc = "fetch", !.preview = preview].body = "none"
      BY DEF NewRequest
    <3> QED
      BY <2>2, <2>3, <3>1 DEF Begin
  <2>4. CASE DeadlineFires(y)
    <3>1. [s EXCEPT !.pc = "drain", !.cancel = "deadline"].body = s.body
      BY <2>1 DEF RequestState
    <3> QED
      BY <2>2, <2>4, <3>1 DEF DeadlineFires
  <2>5. CASE Disconnect(y)
    <3>1. [s EXCEPT !.cancel = "disconnect"].body = s.body
      BY <2>1 DEF RequestState
    <3> QED
      BY <2>2, <2>5, <3>1 DEF Disconnect
  <2>6. CASE Detached(y)
    <3>1. PICK d : Put(y, [s EXCEPT !.detached = d])
      BY <2>6 DEF Detached, DetachedFetchEnds, DetachedCloses
    <3>2. [s EXCEPT !.detached = d].body = s.body
      BY <2>1 DEF RequestState
    <3> QED
      BY <2>2, <3>1, <3>2
  <2> QED
    BY <1>1, <2>3, <2>4, <2>5, <2>6
<1>2. ASSUME NEW y \in Streams, ResumeClosed(y)
      PROVE  \A x \in Streams : x # y => st'[x] = st[x]
  <2> DEFINE q == CloseOne(st[y])
  <2>1. \/ Put(y, [q EXCEPT !.body = "refetch"])
        \/ LeaveBody(y, q, "aborted")
    BY <1>2 DEF ResumeClosed
  <2>2. q \in RequestState
    BY CloseOneIs DEF StreamTypeOK
  <2> HIDE DEF q
  <2> QED
    BY <2>1, <2>2, PutIs, LeaveBodyBody DEF Errors
<1>3. ASSUME NEW l \in Leases \ Streams, OtherRequest(l) PROVE FALSE
  BY <1>3 DEF OtherRequest, NoRequest
<1>4. PICK y \in Streams :
        \/ \E c \in Clients, preview \in BOOLEAN : Begin(y, c, preview)
        \/ Handler(y) \/ Body(y) \/ Call(y) \/ DeadlineFires(y)
        \/ Disconnect(y) \/ CallerCancels(y) \/ Detached(y)
  BY <1>3 DEF Next
<1>5. CASE y = r
  BY <1>1, <1>4, <1>5, HandlerBody, BodyBody, CallBody
<1>6. CASE y # r
  <2>1. st'[r] = st[r]
    BY <1>1, <1>2, <1>4, <1>6, HandlerBody, BodyBody, CallBody
  <2> QED
    BY <2>1 DEF NoRequest
<1> QED
  BY <1>5, <1>6

(* The single resume happens under the slot, with the first connection     *)
(* closed and a stream nobody cancelled (routes.py body).                  *)
THEOREM ResumesUnderSlot == Spec => ResumeUnderSlot
<1> DEFINE Resume(r) ==
      st[r].body # "refetch" /\ st'[r].body = "refetch" =>
        /\ Held(r) /\ Held(r)'
        /\ ~st[r].preview
        /\ st'[r].first = "closed" /\ st[r].resumed = "none"
        /\ st[r].cancel \notin {"caller", "deadline"}
<1>1. StreamInv /\ [Next]_vars => [\A r \in Streams : Resume(r)]_vars
  <2> SUFFICES ASSUME StreamInv, Next, NEW r \in Streams,
                      st[r].body # "refetch", st'[r].body = "refetch"
               PROVE  /\ Held(r) /\ Held(r)'
                      /\ ~st[r].preview
                      /\ st'[r].first = "closed" /\ st[r].resumed = "none"
                      /\ st[r].cancel \notin {"caller", "deadline"}
    OBVIOUS
  <2> DEFINE s == st[r]
             q == CloseOne(s)
             p == [q EXCEPT !.body = "refetch"]
  <2>1. s \in RequestState /\ Sound(s, Held(r)) /\ StreamTypeOK
    BY DEF StreamInv, StreamTypeOK
  <2>2. ResumeClosed(r)
    BY <2>1, OnlyResumeRequests DEF NoRequest
  <2>3. s.body = "rclose"
    BY <2>2 DEF ResumeClosed
  <2>4. q \in RequestState
    BY <2>1, CloseOneIs
  <2>5. ~LeaveBody(r, q, "aborted")
    <3> HIDE DEF q
    <3> QED
      BY <2>1, <2>4, LeaveBodyBody DEF Errors
  <2>6. Put(r, p) /\ UNCHANGED limiterVars /\ Undisturbed(r)
    BY <2>2, <2>5 DEF ResumeClosed
  <2>7. Held(r) /\ ~s.preview /\ s.first = "open" /\ s.resumed = "none"
    <3> HIDE DEF s
    <3> QED
      BY <2>1, <2>3 DEF Sound, Handling, Cleaning, Resuming,
         Downloading, RequestState, Connection
  <2>8. p.first = "closed"
    <3>1. q.first = "closed"
      BY <2>1, <2>7, CloseOneIs
    <3> HIDE DEF q
    <3> QED
      BY <2>4, <3>1 DEF RequestState
  <2>9. st'[r] = p
    BY <2>1, <2>6, PutIs
  <2>10. Held(r)'
    BY <2>6, <2>7 DEF limiterVars, Held
  <2> QED
    BY <2>6, <2>7, <2>8, <2>9, <2>10 DEF Undisturbed
<1> QED
  BY <1>1, StreamInvariant, PTL DEF Spec, ResumeUnderSlot
=============================================================================

--------------------------- MODULE MediaFetch_proofs ---------------------------
(***************************************************************************)
(* For any number of redirects, any limits and any destination policy, a   *)
(* fetch keeps what OwnedConnection promises, checks every hop, and hands  *)
(* on bodies that are whole.                                               *)
(***************************************************************************)
EXTENDS MediaFetch, TLAPS

FetchTypes ==
  /\ hop \in Hops
  /\ url \in Urls
  /\ location \in Urls \cup {NoUrl}
  /\ conn \in [Hops -> {"none", "opening", "held", "given", "stray", "late",
                        "gone"}]
  /\ peer \in [Hops -> Urls \cup {NoUrl}]
  /\ expired \in BOOLEAN

(* What the await that fetch is suspended in says of the connection of its *)
(* hop: only when fetch is over may it be in other hands.                  *)
Await ==
  /\ pc \in {"validating", "connecting", "draining", "headers", "redirecting",
             "abandoning", "over"}
  /\ pc = "validating" => conn[hop] = "none"
  /\ pc = "connecting" => conn[hop] = "opening"
  /\ pc \in {"draining", "headers"} => conn[hop] = "held"
  /\ pc \in {"redirecting", "abandoning"} => conn[hop] = "gone"
  /\ pc = "over" => conn[hop] \in {"none", "gone", "given", "stray", "late"}
  /\ pc = "over" <=> answer # "none"
  /\ conn[hop] = "given" => answer = "response"
  /\ pc = "abandoning" => raising \in {"error", "cancelled"}

FetchInv == FetchTypes /\ Await /\ EveryHopIsChecked

LEMMA InitFetch == Init => FetchInv
<1> SUFFICES ASSUME Init PROVE FetchInv
  OBVIOUS
<1>1. 0 \in Hops /\ \A h \in Hops : ~(h < 0)
  BY FetchAssumption DEF Hops
<1>2. conn = [h \in Hops |-> "none"]
  BY DEF Init
<1>3. FetchTypes
  BY <1>1 DEF Init, FetchTypes
<1>4. Await
  BY <1>1 DEF Init, Await
<1>5. EveryHopIsChecked
  BY <1>1, <1>2 DEF Init, EveryHopIsChecked
<1> QED
  BY <1>3, <1>4, <1>5 DEF FetchInv

(* Every step of fetch keeps the invariant.                                *)
LEMMA ResumeKeeps ==
  ASSUME FetchInv, FetchResumes
  PROVE  FetchInv'
<1> USE FetchAssumption DEF FetchInv, FetchTypes, Await, EveryHopIsChecked,
        Hops, SetConn, Ends, GoesTo
<1>1. CASE TargetValid \/ TargetRefused
  BY <1>1, FetchResumes DEF FetchResumes, TargetValid, TargetRefused, netVars
<1>2. CASE Connected \/ WriteFails \/ ConnectFails
  BY <1>2, FetchResumes
     DEF FetchResumes, Connected, WriteFails, ConnectFails, Abandon
<1>3. CASE LeaveConnecting("error")
  BY <1>3, FetchResumes DEF FetchResumes, LeaveConnecting
<1>4. CASE Drained \/ ExchangeFails \/ Responds
  BY <1>4, FetchResumes
     DEF FetchResumes, Drained, ExchangeFails, Responds, Abandon, netVars
<1>5. ASSUME NEW to \in Urls \cup {NoUrl}, Redirects(to) PROVE FetchInv'
  BY <1>5, FetchResumes DEF FetchResumes, Redirects
<1>6. CASE RedirectClosed
  <2>1. CASE location = NoUrl \/ hop = MaxRedirects \/ expired
    BY <1>6, <2>1, FetchResumes DEF FetchResumes, RedirectClosed, netVars
  <2>2. CASE ~(location = NoUrl \/ hop = MaxRedirects \/ expired)
    <3>1. hop + 1 \in Hops /\ location \in Urls
      BY <2>2
    <3> QED
      BY <1>6, <2>2, <3>1, FetchResumes
         DEF FetchResumes, RedirectClosed, NextHop, netVars
  <2> QED
    BY <2>1, <2>2
<1>7. CASE Abandoned
  BY <1>7, FetchResumes DEF FetchResumes, Abandoned, netVars
<1> QED
  BY <1>1, <1>2, <1>3, <1>4, <1>5, <1>6, <1>7 DEF FetchResumes

LEMMA FetchStep == FetchInv /\ [Next]_vars => FetchInv'
<1> SUFFICES ASSUME FetchInv, [Next]_vars PROVE FetchInv'
  OBVIOUS
<1> USE DEF FetchInv, FetchTypes, Await, EveryHopIsChecked, Hops, fetchVars,
        netVars
<1>1. CASE FetchResumes
  BY <1>1, ResumeKeeps
<1>2. CASE Cancelled
  BY <1>2, FetchAssumption
     DEF Cancelled, LeaveConnecting, Abandon, SetConn, Ends
<1>3. CASE DeadlinePasses
  BY <1>3 DEF DeadlinePasses
<1>4. ASSUME NEW h \in Hops, Settles(h) PROVE FetchInv'
  <2>1. h = hop
    BY <1>4 DEF Settles, StrayEnds, LateCloses
  <2> QED
    BY <1>4, <2>1 DEF Settles, StrayEnds, LateCloses
<1>5. CASE CallerReads
  BY <1>5 DEF CallerReads
<1>6. CASE CallerCloses
  BY <1>6 DEF CallerCloses, SetConn
<1>7. CASE UNCHANGED vars
  BY <1>7 DEF vars
<1> QED
  BY <1>1, <1>2, <1>3, <1>4, <1>5, <1>6, <1>7 DEF Next

THEOREM FetchInvariant == Spec => []FetchInv
BY InitFetch, FetchStep, PTL DEF Spec

(* A connection is opened only to a URL accepted for that hop, one at a    *)
(* time and at most max_redirects + 1 of them.                             *)
THEOREM HopsAreChecked == Spec => []EveryHopIsChecked
<1>1. FetchInv => EveryHopIsChecked
  BY DEF FetchInv
<1> QED
  BY <1>1, FetchInvariant, PTL

-----------------------------------------------------------------------------

(* The view of the abstract owner.                                         *)
LEMMA SeenAtHop ==
  ASSUME FetchInv
  PROVE  /\ \A h \in Hops : Seen[h] = IF conn[h] = "late" THEN "stray" ELSE conn[h]
         /\ \A h \in Hops \ {hop} : Seen[h] \in {"none", "gone"}
BY DEF Seen, FetchInv, FetchTypes, EveryHopIsChecked, Hops

LEMMA SeenAfter ==
  ASSUME FetchInv, NEW s \in {"opening", "held", "given", "stray", "late", "gone"},
         conn' = [conn EXCEPT ![hop] = s]
  PROVE  Seen' = [Seen EXCEPT ![hop] = IF s = "late" THEN "stray" ELSE s]
BY DEF Seen, FetchInv, FetchTypes

(* A step of fetch is one of the owner's, or one it does not see.          *)
LEMMA ResumeIsOwned ==
  ASSUME FetchInv, FetchResumes
  PROVE  Owned!OwnedNext \/ UNCHANGED Owned!connectionVars
<1> USE DEF Owned!connectionVars, Owned!Unused, Owned!Failure, SetConn, Ends,
            GoesTo
<1>0. /\ hop \in Hops /\ Await
      /\ \A h \in Hops \ {hop} : Seen[h] \in {"none", "gone"}
      /\ Seen[hop] = IF conn[hop] = "late" THEN "stray" ELSE conn[hop]
  BY SeenAtHop DEF FetchInv, FetchTypes
<1>a. ASSUME UNCHANGED conn PROVE UNCHANGED Seen
  BY <1>a DEF Seen
<1> HIDE DEF Seen
<1>1. CASE TargetValid
  <2>1. Seen' = [Seen EXCEPT ![hop] = "opening"]
    BY <1>1, SeenAfter DEF TargetValid
  <2> QED
    BY <1>0, <1>1, <2>1 DEF TargetValid, Await, Owned!OwnedNext, Owned!Opens
<1>2. CASE TargetRefused
  BY <1>0, <1>a, <1>2
     DEF TargetRefused, netVars, Await, Owned!OwnedNext, Owned!Fails
<1>3. CASE Connected
  <2>1. Seen' = [Seen EXCEPT ![hop] = "held"]
    BY <1>3, SeenAfter DEF Connected
  <2> QED
    BY <1>0, <1>3, <2>1 DEF Connected, Await, Owned!OwnedNext, Owned!Connects
<1>4. CASE WriteFails \/ ConnectFails \/ ExchangeFails
  <2>1. Seen' = [Seen EXCEPT ![hop] = "gone"]
    BY <1>4, SeenAfter DEF WriteFails, ConnectFails, ExchangeFails, Abandon
  <2> QED
    BY <1>0, <1>4, <2>1 DEF WriteFails, ConnectFails, ExchangeFails, Abandon,
       Await, Owned!OwnedNext, Owned!Drops
<1>5. CASE LeaveConnecting("error")
  <2>1. Seen' = [Seen EXCEPT ![hop] = "stray"]
    BY <1>5, SeenAfter DEF LeaveConnecting
  <2> QED
    BY <1>0, <1>5, <2>1
       DEF LeaveConnecting, Await, Owned!OwnedNext, Owned!LeavesBehind
<1>6. CASE Drained
  BY <1>a, <1>6 DEF Drained, netVars
<1>7. CASE Responds
  <2>1. Seen' = [Seen EXCEPT ![hop] = "given"]
    BY <1>7, SeenAfter DEF Responds
  <2> QED
    BY <1>0, <1>7, <2>1 DEF Responds, Await, Owned!OwnedNext, Owned!Gives
<1>8. ASSUME NEW to \in Urls \cup {NoUrl}, Redirects(to)
      PROVE  Owned!OwnedNext
  <2>1. Seen' = [Seen EXCEPT ![hop] = "gone"]
    BY <1>8, SeenAfter DEF Redirects
  <2> QED
    BY <1>0, <1>8, <2>1 DEF Redirects, Await, Owned!OwnedNext, Owned!Drops
<1>9. CASE RedirectClosed
  <2>1. UNCHANGED conn /\ (answer' = "error" \/ UNCHANGED answer)
    BY <1>9 DEF RedirectClosed, NextHop, netVars
  <2> QED
    BY <1>0, <1>a, <1>9, <2>1
       DEF RedirectClosed, Await, Owned!OwnedNext, Owned!Fails
<1>10. CASE Abandoned
  BY <1>0, <1>a, <1>10
     DEF Abandoned, netVars, Await, Owned!OwnedNext, Owned!Fails
<1> QED
  BY <1>1, <1>2, <1>3, <1>4, <1>5, <1>6, <1>7, <1>8, <1>9, <1>10
     DEF FetchResumes

LEMMA OwnedStep == FetchInv /\ [Next]_vars => [Owned!OwnedNext]_Owned!connectionVars
<1> SUFFICES ASSUME FetchInv, [Next]_vars
             PROVE  Owned!OwnedNext \/ UNCHANGED Owned!connectionVars
  OBVIOUS
<1> USE DEF Owned!connectionVars, Owned!Unused, Owned!Failure, SetConn, Ends,
            fetchVars
<1>0. /\ hop \in Hops /\ Await
      /\ \A h \in Hops \ {hop} : Seen[h] \in {"none", "gone"}
      /\ \A h \in Hops : Seen[h] = IF conn[h] = "late" THEN "stray" ELSE conn[h]
  BY SeenAtHop DEF FetchInv, FetchTypes
<1>a. ASSUME UNCHANGED conn PROVE UNCHANGED Seen
  BY <1>a DEF Seen
<1> HIDE DEF Seen
<1>1. CASE FetchResumes
  BY <1>1, ResumeIsOwned
<1>2. CASE Cancelled
  <2>1. CASE pc = "connecting"
    <3>1. Seen' = [Seen EXCEPT ![hop] = "stray"] /\ answer' = "cancelled"
      BY <1>2, <2>1, SeenAfter DEF Cancelled, LeaveConnecting
    <3> QED
      BY <1>0, <2>1, <3>1 DEF Await, Owned!OwnedNext, Owned!LeavesBehind
  <2>2. CASE pc \in {"draining", "headers"}
    <3>1. Seen' = [Seen EXCEPT ![hop] = "gone"] /\ answer' = answer
      BY <1>2, <2>2, SeenAfter DEF Cancelled, Abandon
    <3> QED
      BY <1>0, <2>2, <3>1 DEF Await, Owned!OwnedNext, Owned!Drops
  <2>3. CASE pc \in {"validating", "redirecting", "abandoning"}
    <3>1. UNCHANGED conn /\ answer' = "cancelled"
      BY <1>2, <2>3 DEF Cancelled, netVars
    <3> QED
      BY <1>0, <1>a, <2>3, <3>1 DEF Await, Owned!OwnedNext, Owned!Fails
  <2> QED
    BY <1>2, <2>1, <2>2, <2>3 DEF Cancelled
<1>3. CASE DeadlinePasses \/ CallerReads
  BY <1>a, <1>3 DEF DeadlinePasses, CallerReads, netVars
<1>4. ASSUME NEW h \in Hops, Settles(h)
      PROVE  Owned!OwnedNext \/ UNCHANGED Owned!connectionVars
  <2>1. h = hop /\ UNCHANGED answer
    BY <1>4 DEF Settles, StrayEnds, LateCloses, FetchInv, FetchTypes,
       EveryHopIsChecked, Hops
  <2>2. Seen[hop] = "stray"
    BY <1>0, <1>4, <2>1 DEF Settles, StrayEnds, LateCloses
  <2>3. CASE conn' = [conn EXCEPT ![hop] = "gone"]
    <3>1. Seen' = [Seen EXCEPT ![hop] = "gone"]
      BY <2>3, SeenAfter
    <3> QED
      BY <1>0, <2>1, <2>2, <3>1 DEF Owned!OwnedNext, Owned!StrayEnds
  <2>4. CASE conn' = [conn EXCEPT ![hop] = "late"]
    <3>1. Seen' = [Seen EXCEPT ![hop] = "stray"]
      BY <2>4, SeenAfter
    <3>2. UNCHANGED Seen
      BY <2>2, <3>1 DEF Seen
    <3> QED
      BY <2>1, <3>2
  <2> QED
    BY <1>4, <2>1, <2>3, <2>4 DEF Settles, StrayEnds, LateCloses
<1>5. CASE CallerCloses
  <2>1. Seen' = [Seen EXCEPT ![hop] = "gone"]
    BY <1>5, SeenAfter DEF CallerCloses
  <2> QED
    BY <1>0, <1>5, <2>1 DEF CallerCloses, Owned!OwnedNext, Owned!CallerCloses
<1>6. CASE UNCHANGED vars
  BY <1>a, <1>6 DEF vars, netVars
<1> QED
  BY <1>1, <1>2, <1>3, <1>4, <1>5, <1>6 DEF Next

(* MediaClient.fetch keeps what the owner of a connection is promised.     *)
THEOREM FetchKeepsTheConnection == Spec => KeepsTheConnection
<1>1. Init => Owned!OwnedInit
  BY DEF Init, Owned!OwnedInit, Seen
<1> QED
  BY <1>1, FetchInvariant, OwnedStep, PTL
     DEF Spec, KeepsTheConnection, Owned!OwnedSpec

-----------------------------------------------------------------------------

(* What is known of a body: what was taken and handed on stays within its  *)
(* bounds, and each state says how far the framing has come.               *)
Bodies ==
  [state : {"none", "read", "size", "data", "crlf", "trailer", "done",
            "truncated", "failed"},
   framing : Framings, preview : BOOLEAN, limit : Nat, left : Nat,
   announced : Nat, taken : Nat, passed : Nat, signed : BOOLEAN]

Within(b) ==
  /\ b \in Bodies
  /\ b.passed <= b.taken /\ b.taken <= b.limit /\ b.limit <= MaxBytes
  /\ b.framing # "close" => b.taken <= b.announced
  /\ b.preview /\ b.passed > 0 => b.signed

Framed(b) ==
  /\ b.state = "read" =>
       /\ b.framing # "chunked"
       /\ b.framing = "length" => b.left > 0 /\ b.announced = b.taken + b.left
  /\ b.state \in {"size", "data", "crlf", "trailer"} => b.framing = "chunked"
  /\ b.state \in {"size", "crlf", "trailer"} => b.announced = b.taken
  /\ b.state = "data" =>
       b.left > 0 /\ b.announced = b.taken + b.left /\ b.announced <= b.limit
  /\ b.state = "done" =>
       b.passed = b.taken /\ (b.framing # "close" => b.taken = b.announced)
  /\ b.state = "truncated" => b.framing = "length" /\ b.taken < b.announced

BodyInv(b) == Within(b) /\ Framed(b)

LEMMA FailKeeps ==
  ASSUME NEW b, Within(b)
  PROVE  BodyInv(Fail(b)) /\ Fail(b).state = "failed"
<1> SUFFICES ASSUME NEW c \in Bodies, c = b
             PROVE  BodyInv(Fail(c)) /\ Fail(c).state = "failed"
  BY Zenon DEF Within
<1>1. Within(c)
  BY Zenon
<1> DEFINE f == [c EXCEPT !.state = "failed"]
<1>2. /\ f \in Bodies /\ f.state = "failed"
      /\ f.framing = c.framing /\ f.preview = c.preview /\ f.limit = c.limit
      /\ f.announced = c.announced /\ f.taken = c.taken
      /\ f.passed = c.passed /\ f.signed = c.signed
  BY DEF Bodies
<1> HIDE DEF f
<1>3. BodyInv(f)
  BY <1>1, <1>2 DEF BodyInv, Within, Framed
<1>4. Fail(c) = f
  BY Zenon DEF Fail, f
<1> QED
  BY <1>2, <1>3, <1>4, Zenon

(* A body ends normally only where its framing does.                       *)
LEMMA FinishedKeeps ==
  ASSUME NEW b, Within(b), b.framing # "close" => b.taken = b.announced
  PROVE  BodyInv(Finished(b))
<1> SUFFICES ASSUME NEW c \in Bodies, c = b
             PROVE  BodyInv(Finished(c))
  BY Zenon DEF Within
<1>1. Within(c) /\ (c.framing # "close" => c.taken = c.announced)
  BY Zenon
<1> DEFINE d == [c EXCEPT !.state = "done", !.passed = c.taken]
<1>2. /\ d \in Bodies /\ d.state = "done"
      /\ d.framing = c.framing /\ d.preview = c.preview /\ d.limit = c.limit
      /\ d.announced = c.announced /\ d.taken = c.taken
      /\ d.passed = c.taken /\ d.signed = c.signed
  BY DEF Bodies
<1> HIDE DEF d
<1>3. CASE c.preview /\ c.passed = 0 /\ (c.taken = 0 \/ ~c.signed)
  <2>1. Finished(c) = Fail(c)
    BY <1>3, Zenon DEF Finished
  <2> QED
    BY <1>1, <2>1, FailKeeps, Zenon
<1>4. CASE ~(c.preview /\ c.passed = 0 /\ (c.taken = 0 \/ ~c.signed))
  <2>1. Finished(c) = d
    BY <1>4, Zenon DEF Finished, d
  <2>2. BodyInv(d)
    BY <1>1, <1>2, <1>4 DEF BodyInv, Within, Framed, Bodies
  <2> QED
    BY <2>1, <2>2, Zenon
<1> QED
  BY <1>3, <1>4

(* Units just read are handed on, held back or refused; nothing else       *)
(* changes.                                                                *)
LEMMA PassedKeeps ==
  ASSUME NEW b, Within(b), Validated <=> ~b.preview \/ b.passed > 0
  PROVE  /\ Within(Passed(b))
         /\ Passed(b).state \in {b.state, "failed"}
         /\ Passed(b).framing = b.framing /\ Passed(b).left = b.left
         /\ Passed(b).announced = b.announced /\ Passed(b).taken = b.taken
         /\ Passed(b).limit = b.limit
<1> SUFFICES ASSUME NEW c \in Bodies, c = b
             PROVE  /\ Within(Passed(c))
                    /\ Passed(c).state \in {c.state, "failed"}
                    /\ Passed(c).framing = c.framing /\ Passed(c).left = c.left
                    /\ Passed(c).announced = c.announced
                    /\ Passed(c).taken = c.taken /\ Passed(c).limit = c.limit
  BY Zenon DEF Within
<1>1. Within(c) /\ (Validated <=> ~c.preview \/ c.passed > 0)
  BY Zenon
<1> DEFINE p == [c EXCEPT !.passed = c.taken]
           f == [c EXCEPT !.state = "failed"]
<1>2. /\ p \in Bodies /\ p.state = c.state /\ p.left = c.left
      /\ p.framing = c.framing /\ p.preview = c.preview /\ p.limit = c.limit
      /\ p.announced = c.announced /\ p.taken = c.taken
      /\ p.passed = c.taken /\ p.signed = c.signed
  BY DEF Bodies
<1>3. /\ f \in Bodies /\ f.state = "failed" /\ f.left = c.left
      /\ f.framing = c.framing /\ f.preview = c.preview /\ f.limit = c.limit
      /\ f.announced = c.announced /\ f.taken = c.taken
      /\ f.passed = c.passed /\ f.signed = c.signed
  BY DEF Bodies
<1>4. \/ Passed(c) = c \/ Passed(c) = f
      \/ Passed(c) = p /\ (Validated \/ c.signed)
  BY Zenon DEF Passed, Fail
<1> HIDE DEF p, f
<1>5. Validated \/ c.signed => Within(p)
  BY <1>1, <1>2 DEF Within, Bodies
<1>6. Within(f)
  BY <1>1, <1>3 DEF Within
<1>7. CASE Passed(c) = c
  BY <1>1, <1>7, Zenon
<1>8. CASE Passed(c) = p /\ (Validated \/ c.signed)
  BY <1>2, <1>5, <1>8, Zenon
<1>9. CASE Passed(c) = f
  BY <1>3, <1>6, <1>9, Zenon
<1> QED
  BY <1>4, <1>7, <1>8, <1>9

LEMMA BeginsKeeps ==
  ASSUME NEW framing \in Framings, NEW declared \in Nat, NEW limit \in Nat,
         NEW preview \in BOOLEAN, NEW signed \in BOOLEAN, limit <= MaxBytes,
         BodyBegins(framing, declared, limit, preview, signed)
  PROVE  BodyInv(body')
<1> DEFINE start == [NoBody EXCEPT !.framing = framing, !.preview = preview,
                                   !.limit = limit, !.signed = signed]
           size == [start EXCEPT !.state = "size"]
           stream == [start EXCEPT !.state = "read"]
           known == [start EXCEPT !.state = "read", !.left = declared,
                                  !.announced = declared]
<1> USE BodyAssumption
<1>1. /\ start \in Bodies /\ start.framing = framing /\ start.limit = limit
      /\ start.announced = 0 /\ start.taken = 0 /\ start.passed = 0
  BY DEF NoBody, Bodies
<1>2. /\ size \in Bodies /\ size.framing = framing /\ size.limit = limit
      /\ size.announced = 0 /\ size.taken = 0 /\ size.passed = 0
      /\ size.state = "size"
  BY DEF NoBody, Bodies
<1>3. /\ stream \in Bodies /\ stream.framing = framing
      /\ stream.limit = limit /\ stream.announced = 0 /\ stream.taken = 0
      /\ stream.passed = 0 /\ stream.state = "read"
  BY DEF NoBody, Bodies
<1>4. /\ known \in Bodies /\ known.framing = framing /\ known.limit = limit
      /\ known.announced = declared /\ known.taken = 0 /\ known.passed = 0
      /\ known.state = "read" /\ known.left = declared
  BY DEF NoBody, Bodies
<1>5. body' = IF framing = "chunked" THEN size
              ELSE IF framing = "close" THEN stream
              ELSE IF DeclaredTooLong(declared, limit) THEN Fail(start)
              ELSE IF declared = 0 THEN Finished(start)
              ELSE known
  BY Zenon DEF BodyBegins
<1> HIDE DEF start, size, stream, known
<1>6. Within(start)
  BY <1>1 DEF Within
<1>7. CASE framing = "chunked"
  <2>1. BodyInv(size)
    BY <1>2, <1>7 DEF BodyInv, Within, Framed
  <2> QED
    BY <1>5, <1>7, <2>1, Zenon
<1>8. CASE framing = "close"
  <2>1. BodyInv(stream)
    BY <1>3, <1>8 DEF BodyInv, Within, Framed
  <2> QED
    BY <1>5, <1>8, <2>1, Zenon
<1>9. CASE framing = "length"
  <2>1. CASE DeclaredTooLong(declared, limit)
    <3>1. body' = Fail(start)
      BY <1>5, <1>9, <2>1
    <3> QED
      BY <1>6, <3>1, FailKeeps, Zenon
  <2>2. CASE ~DeclaredTooLong(declared, limit) /\ declared = 0
    <3>1. body' = Finished(start)
      BY <1>5, <1>9, <2>2
    <3>2. start.taken = start.announced
      BY <1>1
    <3> QED
      BY <1>6, <3>1, <3>2, FinishedKeeps, Zenon
  <2>3. CASE ~DeclaredTooLong(declared, limit) /\ declared # 0
    <3>1. body' = known
      BY <1>5, <1>9, <2>3
    <3>2. BodyInv(known)
      BY <1>4, <1>9, <2>3 DEF BodyInv, Within, Framed
    <3> QED
      BY <3>1, <3>2, Zenon
  <2> QED
    BY <2>1, <2>2, <2>3
<1> QED
  BY <1>7, <1>8, <1>9 DEF Framings

(* What an update of the counters leaves as it was.                        *)
Count(c, t, l) == [c EXCEPT !.taken = t, !.left = l]
Announce(c, l, a) == [c EXCEPT !.state = "data", !.left = l, !.announced = a]

SameKind(m, c) ==
  /\ m \in Bodies
  /\ m.framing = c.framing /\ m.preview = c.preview /\ m.limit = c.limit
  /\ m.passed = c.passed /\ m.signed = c.signed

LEMMA Counted ==
  ASSUME NEW c \in Bodies, NEW t \in Nat, NEW l \in Nat
  PROVE  /\ SameKind(Count(c, t, l), c)
         /\ Count(c, t, l).state = c.state
         /\ Count(c, t, l).announced = c.announced
         /\ Count(c, t, l).taken = t /\ Count(c, t, l).left = l
BY DEF Bodies, Count, SameKind

LEMMA Announced ==
  ASSUME NEW c \in Bodies, NEW l \in Nat, NEW a \in Nat
  PROVE  /\ SameKind(Announce(c, l, a), c)
         /\ Announce(c, l, a).state = "data"
         /\ Announce(c, l, a).taken = c.taken
         /\ Announce(c, l, a).announced = a /\ Announce(c, l, a).left = l
BY DEF Bodies, Announce, SameKind

(* One read of a body with a declared length, or with none.                *)
LEMMA ReadKeeps ==
  ASSUME BodyInv(body), NEW n \in Nat, ReadSome(n)
  PROVE  BodyInv(body')
<1>1. PICK c \in Bodies : c = body
  BY Zenon DEF BodyInv, Within
<1> DEFINE more == [c EXCEPT !.taken = c.taken + n,
                             !.left = IF Unbounded THEN c.left ELSE c.left - n]
<1> USE BodyAssumption
<1>2. /\ Within(c) /\ Framed(c) /\ c.state = "read"
      /\ (Unbounded <=> c.framing = "close")
      /\ (Validated <=> ~c.preview \/ c.passed > 0)
      /\ body.taken = c.taken /\ body.limit = c.limit /\ body.left = c.left
  BY <1>1, Zenon DEF ReadSome, BodyInv, Unbounded, Validated
<1>3. /\ n > 0 /\ (c.framing # "close" => n <= c.left)
  BY <1>2 DEF ReadSome, AtMost, Bodies, Framed, Framings
<1>4. /\ more \in Bodies /\ more.state = "read"
      /\ more.framing = c.framing /\ more.preview = c.preview
      /\ more.limit = c.limit /\ more.announced = c.announced
      /\ more.taken = c.taken + n /\ more.passed = c.passed
      /\ more.signed = c.signed
      /\ (c.framing # "close" => more.left = c.left - n)
  <2>1. PICK t \in Nat, l \in Nat :
          /\ t = c.taken + n
          /\ l = IF Unbounded THEN c.left ELSE c.left - n
    BY <1>2, <1>3 DEF Bodies
  <2>2. more = Count(c, t, l)
    BY <2>1, Zenon DEF Count
  <2> HIDE DEF more
  <2>3. /\ SameKind(more, c) /\ more.state = c.state
        /\ more.announced = c.announced /\ more.taken = t /\ more.left = l
    BY <2>2, Counted
  <2> QED
    BY <1>2, <2>1, <2>3 DEF SameKind
<1>5. body' = IF c.taken + n > c.limit THEN Fail(c)
              ELSE IF Passed(more).state = "read" /\ ~Unbounded
                      /\ Passed(more).left = 0
              THEN Finished(Passed(more))
              ELSE Passed(more)
  BY <1>1, Zenon DEF ReadSome
<1> HIDE DEF more
<1>6. CASE c.taken + n > c.limit
  BY <1>2, <1>5, <1>6, FailKeeps, Zenon DEF BodyInv
<1>7. CASE c.taken + n <= c.limit
  <2> DEFINE next == Passed(more)
  <2>1. Within(more) /\ (Validated <=> ~more.preview \/ more.passed > 0)
    BY <1>2, <1>3, <1>4, <1>7 DEF Within, Framed, Bodies, Framings
  <2>2. /\ Within(next) /\ next.state \in {"read", "failed"}
        /\ next.framing = c.framing /\ next.left = more.left
        /\ next.announced = c.announced /\ next.taken = c.taken + n
    BY <1>4, <2>1, PassedKeeps, Zenon
  <2>3. next.framing = "length" =>
          next.announced = next.taken + next.left /\ next.left \in Nat
    BY <1>2, <1>3, <1>4, <2>2 DEF Framed, Bodies
  <2>4. body' = IF next.state = "read" /\ ~Unbounded /\ next.left = 0
                THEN Finished(next) ELSE next
    <3>1. ~(c.taken + n > c.limit)
      BY <1>2, <1>7 DEF Bodies
    <3> QED
      BY <1>5, <3>1, Zenon
  <2>5. c.framing \in {"length", "close"}
    BY <1>2 DEF Framed, Bodies, Framings
  <2> HIDE DEF next
  <2>6. CASE next.state = "read" /\ ~Unbounded /\ next.left = 0
    <3>1. next.taken = next.announced
      BY <1>2, <2>2, <2>3, <2>5, <2>6 DEF Within, Bodies
    <3>2. body' = Finished(next)
      BY <2>4, <2>6
    <3> QED
      BY <2>2, <3>1, <3>2, FinishedKeeps, Zenon
  <2>7. CASE ~(next.state = "read" /\ ~Unbounded /\ next.left = 0)
    <3>1. Framed(next)
      BY <1>2, <2>2, <2>3, <2>5, <2>7 DEF Framed
    <3>2. body' = next
      BY <2>4, <2>7
    <3> QED
      BY <2>2, <3>1, <3>2, Zenon DEF BodyInv
  <2> QED
    BY <2>6, <2>7
<1> QED
  BY <1>2, <1>6, <1>7 DEF Bodies

LEMMA EofKeeps ==
  ASSUME BodyInv(body), ReadEof
  PROVE  BodyInv(body')
<1>1. PICK c \in Bodies : c = body
  BY Zenon DEF BodyInv, Within
<1> DEFINE t == [c EXCEPT !.state = "truncated"]
<1>2. /\ Within(c) /\ Framed(c) /\ c.state = "read"
      /\ (Unbounded <=> c.framing = "close")
  BY <1>1, Zenon DEF ReadEof, BodyInv, Unbounded
<1>3. /\ t \in Bodies /\ t.state = "truncated"
      /\ t.framing = c.framing /\ t.preview = c.preview /\ t.limit = c.limit
      /\ t.announced = c.announced /\ t.taken = c.taken
      /\ t.passed = c.passed /\ t.signed = c.signed
  BY DEF Bodies
<1>4. body' = IF Unbounded THEN Finished(c) ELSE t
  BY <1>1, Zenon DEF ReadEof
<1> HIDE DEF t
<1>5. CASE Unbounded
  BY <1>2, <1>4, <1>5, FinishedKeeps, Zenon
<1>6. CASE ~Unbounded
  <2>1. BodyInv(t)
    BY <1>2, <1>3, <1>6 DEF BodyInv, Within, Framed, Bodies, Framings
  <2> QED
    BY <1>4, <1>6, <2>1, Zenon
<1> QED
  BY <1>5, <1>6

LEMMA SizeKeeps ==
  ASSUME BodyInv(body), NEW k \in Nat, SizeLine(k)
  PROVE  BodyInv(body')
<1>1. PICK c \in Bodies : c = body
  BY Zenon DEF BodyInv, Within
<1> DEFINE last == [c EXCEPT !.state = "trailer"]
           chunk == [c EXCEPT !.state = "data", !.left = k,
                              !.announced = c.announced + k]
<1>2. Within(c) /\ Framed(c) /\ c.state = "size"
  BY <1>1, Zenon DEF SizeLine, BodyInv
<1>3. /\ last \in Bodies /\ last.state = "trailer"
      /\ last.framing = c.framing /\ last.preview = c.preview
      /\ last.limit = c.limit /\ last.announced = c.announced
      /\ last.taken = c.taken /\ last.passed = c.passed
      /\ last.signed = c.signed
  BY DEF Bodies
<1>4. /\ chunk \in Bodies /\ chunk.state = "data" /\ chunk.left = k
      /\ chunk.framing = c.framing /\ chunk.preview = c.preview
      /\ chunk.limit = c.limit /\ chunk.announced = c.announced + k
      /\ chunk.taken = c.taken /\ chunk.passed = c.passed
      /\ chunk.signed = c.signed
  <2>1. PICK a \in Nat : a = c.announced + k
    BY DEF Bodies
  <2>2. chunk = Announce(c, k, a)
    BY <2>1, Zenon DEF Announce
  <2> HIDE DEF chunk
  <2>3. /\ SameKind(chunk, c) /\ chunk.state = "data"
        /\ chunk.taken = c.taken /\ chunk.announced = a /\ chunk.left = k
    BY <2>2, Announced
  <2> QED
    BY <2>1, <2>3 DEF SameKind
<1>5. body' = IF k = 0 THEN last
              ELSE IF c.taken + k > c.limit THEN Fail(c)
              ELSE chunk
  BY <1>1, Zenon DEF SizeLine
<1> HIDE DEF last, chunk
<1>6. CASE k = 0
  <2>1. BodyInv(last)
    BY <1>2, <1>3 DEF BodyInv, Within, Framed
  <2> QED
    BY <1>5, <1>6, <2>1, Zenon
<1>7. CASE k # 0 /\ c.taken + k > c.limit
  BY <1>2, <1>5, <1>7, FailKeeps, Zenon
<1>8. CASE k # 0 /\ ~(c.taken + k > c.limit)
  <2>1. BodyInv(chunk)
    BY <1>2, <1>4, <1>8 DEF BodyInv, Within, Framed, Bodies
  <2> QED
    BY <1>5, <1>8, <2>1, Zenon
<1> QED
  BY <1>6, <1>7, <1>8

LEMMA ChunkKeeps ==
  ASSUME BodyInv(body), ChunkData
  PROVE  BodyInv(body')
<1>1. PICK c \in Bodies : c = body
  BY Zenon DEF BodyInv, Within
<1> DEFINE n == AtMost(c.left)
           more == [c EXCEPT !.taken = c.taken + n, !.left = c.left - n]
<1> USE BodyAssumption
<1>2. /\ Within(c) /\ Framed(c) /\ c.state = "data"
      /\ (Validated <=> ~c.preview \/ c.passed > 0)
  BY <1>1, Zenon DEF ChunkData, BodyInv, Validated
<1>3. n \in Nat /\ n > 0 /\ n <= c.left
  BY <1>2 DEF AtMost, Bodies, Framed
<1>4. body' = IF Passed(more).state = "data" /\ Passed(more).left = 0
              THEN [Passed(more) EXCEPT !.state = "crlf"] ELSE Passed(more)
  BY <1>1, Zenon DEF ChunkData
<1> HIDE DEF n
<1>5. /\ more \in Bodies /\ more.state = "data" /\ more.left = c.left - n
      /\ more.framing = c.framing /\ more.preview = c.preview
      /\ more.limit = c.limit /\ more.announced = c.announced
      /\ more.taken = c.taken + n /\ more.passed = c.passed
      /\ more.signed = c.signed
  <2>1. PICK t \in Nat, l \in Nat : t = c.taken + n /\ l = c.left - n
    BY <1>3 DEF Bodies
  <2>2. more = Count(c, t, l)
    BY <2>1, Zenon DEF Count
  <2> HIDE DEF more
  <2>3. /\ SameKind(more, c) /\ more.state = c.state
        /\ more.announced = c.announced /\ more.taken = t /\ more.left = l
    BY <2>2, Counted
  <2> QED
    BY <1>2, <2>1, <2>3 DEF SameKind
<1> HIDE DEF more
<1>6. Within(more) /\ (Validated <=> ~more.preview \/ more.passed > 0)
  BY <1>2, <1>3, <1>5 DEF Within, Framed, Bodies
<1>7. PICK next \in Bodies : next = Passed(more)
  BY <1>6, PassedKeeps, Zenon DEF Within
<1>8. /\ Within(next) /\ next.state \in {"data", "failed"}
      /\ next.framing = c.framing /\ next.left = c.left - n
      /\ next.announced = c.announced /\ next.taken = c.taken + n
      /\ next.limit = c.limit
  BY <1>5, <1>6, <1>7, PassedKeeps, Zenon
<1> DEFINE whole == [next EXCEPT !.state = "crlf"]
<1>9. /\ whole \in Bodies /\ whole.state = "crlf"
      /\ whole.framing = next.framing /\ whole.preview = next.preview
      /\ whole.limit = next.limit /\ whole.announced = next.announced
      /\ whole.taken = next.taken /\ whole.passed = next.passed
      /\ whole.signed = next.signed
  BY DEF Bodies
<1>10. body' = IF next.state = "data" /\ next.left = 0 THEN whole ELSE next
  BY <1>4, <1>7, Zenon
<1> HIDE DEF whole
<1>11. next.announced = next.taken + next.left /\ next.announced <= next.limit
  BY <1>2, <1>3, <1>8 DEF Framed, Bodies
<1>12. CASE next.state = "data" /\ next.left = 0
  <2>1. BodyInv(whole)
    BY <1>2, <1>8, <1>9, <1>11, <1>12 DEF BodyInv, Within, Framed, Bodies
  <2> QED
    BY <1>10, <1>12, <2>1, Zenon
<1>13. CASE ~(next.state = "data" /\ next.left = 0)
  <2>1. BodyInv(next)
    BY <1>2, <1>8, <1>11, <1>13 DEF BodyInv, Framed, Bodies
  <2> QED
    BY <1>10, <1>13, <2>1, Zenon
<1> QED
  BY <1>12, <1>13

LEMMA ChunkEndKeeps ==
  ASSUME BodyInv(body), ChunkEnds
  PROVE  BodyInv(body')
<1>1. PICK c \in Bodies : c = body
  BY Zenon DEF BodyInv, Within
<1> DEFINE s == [c EXCEPT !.state = "size"]
<1>2. Within(c) /\ Framed(c) /\ c.state = "crlf"
  BY <1>1, Zenon DEF ChunkEnds, BodyInv
<1>3. /\ s \in Bodies /\ s.state = "size"
      /\ s.framing = c.framing /\ s.preview = c.preview /\ s.limit = c.limit
      /\ s.announced = c.announced /\ s.taken = c.taken
      /\ s.passed = c.passed /\ s.signed = c.signed
  BY DEF Bodies
<1>4. body' = s
  BY <1>1, Zenon DEF ChunkEnds
<1> HIDE DEF s
<1>5. BodyInv(s)
  BY <1>2, <1>3 DEF BodyInv, Within, Framed
<1> QED
  BY <1>4, <1>5, Zenon

LEMMA BodyStep ==
  ASSUME BodyInv(body), BodyNext \/ ReadFails
  PROVE  BodyInv(body')
<1> USE BodyAssumption
<1>1. ASSUME NEW framing \in Framings, NEW declared \in 0..(MaxBytes + 1),
             NEW callerMax \in CallerMax \cup {MaxBytes},
             NEW preview \in BOOLEAN, NEW signed \in BOOLEAN,
             BodyBegins(framing, declared,
                        IF callerMax < MaxBytes THEN callerMax ELSE MaxBytes,
                        preview, signed)
      PROVE  BodyInv(body')
  <2>1. PICK limit \in Nat :
          /\ limit = IF callerMax < MaxBytes THEN callerMax ELSE MaxBytes
          /\ limit <= MaxBytes
    OBVIOUS
  <2>2. BodyBegins(framing, declared, limit, preview, signed)
    BY <1>1, <2>1, Zenon
  <2>3. declared \in Nat
    OBVIOUS
  <2> QED
    BY <2>1, <2>2, <2>3, BeginsKeeps, Zenon
<1>2. CASE BodyRefused \/ ReadFails
  BY <1>2, FailKeeps, Zenon DEF BodyRefused, ReadFails, BodyInv
<1>3. ASSUME NEW n \in 1..ChunkSize, ReadSome(n) PROVE BodyInv(body')
  <2>1. n \in Nat
    OBVIOUS
  <2> QED
    BY <1>3, <2>1, ReadKeeps, Zenon
<1>4. ASSUME NEW k \in 0..(MaxBytes + 1), SizeLine(k) PROVE BodyInv(body')
  <2>1. k \in Nat
    OBVIOUS
  <2> QED
    BY <1>4, <2>1, SizeKeeps, Zenon
<1>5. CASE TrailersEnd
  <2>1. body.state = "trailer" /\ body' = Finished(body)
    BY <1>5 DEF TrailersEnd
  <2>2. body.announced = body.taken
    BY <2>1 DEF BodyInv, Framed
  <2> QED
    BY <2>1, <2>2, FinishedKeeps, Zenon DEF BodyInv
<1>6. CASE ReadEof \/ ChunkData \/ ChunkEnds
  BY <1>6, EofKeeps, ChunkKeeps, ChunkEndKeeps, Zenon
<1> QED
  BY <1>1, <1>2, <1>3, <1>4, <1>5, <1>6, Zenon DEF BodyNext, BodyReads

(* A body handed on by the media client is whole, within its limits, and   *)
(* of the type it claims if it is a preview.                               *)
THEOREM BodiesAreWhole == Spec => []BodyIsWhole
<1> DEFINE Sound == BodyInv(body)
<1>1. Init => Sound
  <2> SUFFICES ASSUME Init PROVE BodyInv(body)
    OBVIOUS
  <2>1. BodyInv(NoBody)
    BY BodyAssumption DEF BodyInv, Within, Framed, Bodies, NoBody, Framings
  <2> QED
    BY <2>1, Zenon DEF Init
<1>2. Sound /\ [Next]_vars => Sound'
  <2> SUFFICES ASSUME BodyInv(body), [Next]_vars PROVE BodyInv(body')
    OBVIOUS
  <2>1. UNCHANGED body \/ BodyNext \/ ReadFails
    BY DEF Next, FetchResumes, Cancelled, DeadlinePasses, Settles, StrayEnds,
       LateCloses, CallerReads, CallerCloses, vars
  <2>2. CASE UNCHANGED body
    BY <2>2, Zenon
  <2> QED
    BY <2>1, <2>2, BodyStep
<1>3. Sound => BodyIsWhole
  BY DEF BodyInv, Within, Framed, BodyIsWhole, Unbounded
<1> HIDE DEF Sound
<1> QED
  BY <1>1, <1>2, <1>3, PTL DEF Spec
=============================================================================

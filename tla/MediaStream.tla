----------------------------- MODULE MediaStream -----------------------------
(***************************************************************************)
(* One GET of a media token, from the slot it takes to the slot it gives   *)
(* back: download_media / preview_media, _stream_media and                 *)
(* DeadlineStreamingResponse of api/routes.py, over the limiter of         *)
(* RequestLimiter.  A request is named by the lease it takes; the leases   *)
(* of other requests come and go with it.                                  *)
(*                                                                         *)
(* Two coroutines run for a request.  pc is the handler and then           *)
(* DeadlineStreamingResponse.__call__; body is the stream task: the        *)
(* generator body() and the send of what it yields.  A preview has a       *)
(* deadline and its stream task is a task of its own, which __call__ may   *)
(* leave behind; a download has none and __call__ waits for the stream.    *)
(* Code between two awaits is one step.  Every await is bounded by a       *)
(* timeout of the code, so that an await that fails, times out or is       *)
(* cancelled is an outcome of the step that ends it.                       *)
(*                                                                         *)
(* A unit of the media is what one upstream read returns; the media has    *)
(* Length units, numbered from 0.                                          *)
(***************************************************************************)
EXTENDS RequestLimiter, Sequences

CONSTANTS
  Streams,  (* the leases of the requests that stream                       *)
  Length    (* units of one media resource                                  *)

ASSUME LengthAssumption == Length \in Nat \ {0}

ASSUME StreamsAssumption == Streams \subseteq Leases

VARIABLE st       (* the local state of each request                       *)

vars == <<activeExtractions, activeDownloads, activeDownloadsByClient, lease, st>>

HandlerStates ==
  {"idle", "fetch", "first", "failclose", "stream", "drain", "cleanup", "done"}
BodyStates ==
  {"none", "start", "send", "read", "rclose", "refetch", "closing",
   "sendEnd", "ended", "failed"}
Connection == {"none", "open", "closed"}
(* "aborted" is CancelledError or ClientDisconnect, "failed" any other.    *)
Errors == {"none", "failed", "aborted"}
Cancels == {"none", "disconnect", "caller", "deadline"}
Terminals == {"completed", "aborted", "failed"}

RequestState ==
  [pc : HandlerStates,
   body : BodyStates,
   preview : BOOLEAN,       (* the preview endpoint, which has a deadline   *)
   resumable : BOOLEAN,     (* X or Instagram, video, initial status 200    *)
   known : BOOLEAN,         (* the first response declares its length       *)
   attempted : BOOLEAN,     (* resume_attempted                             *)
   rknown : BOOLEAN,        (* the resumed response declares its length     *)
   first : Connection,      (* the first upstream response                  *)
   resumed : Connection,    (* the response of the Range request            *)
   detached : {"none", "pending", "open"},  (* a fetch left behind          *)
   pos : 0..Length,         (* next unit of the current iterator            *)
   sent : 0..Length,        (* bytes_streamed                               *)
   out : Seq(0..Length),    (* the units delivered downstream               *)
   cleaned : BOOLEAN,       (* cleaned                                      *)
   cancel : Cancels,        (* who cancelled the stream task                *)
   completed : BOOLEAN,     (* response_completed                           *)
   primary : Errors,        (* how the stream task ended                    *)
   error : Errors,          (* stream_error, or the error of the handler    *)
   log : Seq(Terminals)]    (* terminal events logged                       *)

NewRequest ==
  [pc |-> "idle", body |-> "none", preview |-> FALSE, resumable |-> FALSE,
   known |-> FALSE, attempted |-> FALSE, rknown |-> FALSE, first |-> "none",
   resumed |-> "none", detached |-> "none", pos |-> 0, sent |-> 0,
   out |-> <<>>, cleaned |-> FALSE, cancel |-> "none", completed |-> FALSE,
   primary |-> "none", error |-> "none", log |-> <<>>]

Put(r, q) == st' = [st EXCEPT ![r] = q]

(* Nothing of the request runs any more, neither its coroutines nor a      *)
(* fetch left behind.                                                      *)
Settled(r) ==
  /\ st[r].pc \in {"idle", "done"}
  /\ st[r].body \in {"none", "ended", "failed"}
  /\ st[r].detached = "none"

Upstream(q) == {x \in {"first", "resumed"} : q[x] = "open"}

(* Faulty variant of Logged: every call logs.                              *)
LoggedAlways(q, event) ==
  IF q.preview THEN q ELSE [q EXCEPT !.log = Append(@, event)]

(* log_terminal: only downloads log, and only the first call does.         *)
Logged(q, event) ==
  IF q.preview \/ q.log # <<>> THEN q ELSE [q EXCEPT !.log = Append(@, event)]

EventOf(e) == IF e = "none" THEN "completed" ELSE e

-----------------------------------------------------------------------------
(* The handler: token lookup, slot, fetch, first chunk.                    *)

(* A request that finds no room raises at once and leaves no state.        *)
Begin(r, c, preview) ==
  /\ Settled(r)
  /\ AcquireDownload(r, c)
  /\ Put(r, [NewRequest EXCEPT !.pc = "fetch", !.preview = preview])

(* Faulty variant of Abandon: the slot is freed in the limiter behind the  *)
(* back of the lease.                                                      *)
AbandonLease(r, q, e) ==
  /\ ReleaseDownloadSlot(lease[r].client)
  /\ UNCHANGED lease
  /\ Put(r, Logged([q EXCEPT !.pc = "done", !.error = e], EventOf(e)))

(* The handler ends with error e before any response is streamed and with  *)
(* nothing to close: cleanup_failed_response(None), log_terminal, raise.   *)
Abandon(r, q, e) ==
  /\ Release(r)
  /\ Put(r, Logged([q EXCEPT !.pc = "done", !.error = e], EventOf(e)))

FetchOk(r) ==
  /\ st[r].pc = "fetch"
  /\ \E known, resumable \in BOOLEAN :
       Put(r, [st[r] EXCEPT !.pc = "first", !.first = "open",
                            !.known = known, !.resumable = resumable])
  /\ UNCHANGED limiterVars

(* A response whose Content-Length is malformed or too large.              *)
FetchUnusable(r) ==
  /\ st[r].pc = "fetch"
  /\ Put(r, [st[r] EXCEPT !.pc = "failclose", !.first = "open",
                          !.error = "failed"])
  /\ UNCHANGED limiterVars

FetchFails(r) ==
  /\ st[r].pc = "fetch"
  /\ Abandon(r, st[r], "failed")

(* The deadline of a preview, or the cancellation of the caller, leaves    *)
(* the fetch behind; its response, if one comes, is closed by the callback.*)
FetchLeft(r) ==
  /\ st[r].pc = "fetch"
  /\ \E e \in {"failed", "aborted"} :
       /\ e = "failed" => st[r].preview
       /\ Abandon(r, [st[r] EXCEPT !.detached = "pending"], e)

FirstChunk(r) ==
  /\ st[r].pc = "first"
  /\ Put(r, [st[r] EXCEPT !.pc = "stream", !.body = "start", !.pos = 1])
  /\ UNCHANGED limiterVars

(* An empty body, a wrong type or signature, a timeout or a cancellation.  *)
FirstFails(r) ==
  /\ st[r].pc = "first"
  /\ \E e \in {"failed", "aborted"} :
       Put(r, [st[r] EXCEPT !.pc = "failclose", !.error = e])
  /\ UNCHANGED limiterVars

(* cleanup_failed_response(response) ends its bounded close; a timeout or  *)
(* a cancellation of the close is swallowed.                               *)
FailClosed(r) ==
  /\ st[r].pc = "failclose"
  /\ Abandon(r, [st[r] EXCEPT !.first = "closed"], st[r].error)

Handler(r) ==
  \/ FetchOk(r) \/ FetchUnusable(r) \/ FetchFails(r) \/ FetchLeft(r)
  \/ FirstChunk(r) \/ FirstFails(r) \/ FailClosed(r)

-----------------------------------------------------------------------------
(* cleanup(): the first caller closes what is open and gives the slot back.*)
(* "closing" is the state of the caller while a close is awaited, "ended"  *)
(* its state once cleanup has returned.                                    *)

(* Faulty variant: the slot is given back before the connection is closed. *)
CleanupReleasingFirst(r, closing, ended) ==
  \/ /\ st[r].cleaned
     /\ Put(r, ended)
     /\ UNCHANGED limiterVars
  \/ /\ ~st[r].cleaned
     /\ Put(r, [(IF Upstream(closing) = {} THEN ended ELSE closing)
                 EXCEPT !.cleaned = TRUE])
     /\ Release(r)

Cleanup(r, closing, ended) ==
  \/ /\ st[r].cleaned
     /\ Put(r, ended)
     /\ UNCHANGED limiterVars
  \/ /\ ~st[r].cleaned
     /\ Upstream(closing) = {}
     /\ Put(r, [ended EXCEPT !.cleaned = TRUE])
     /\ Release(r)
  \/ /\ ~st[r].cleaned
     /\ Upstream(closing) # {}
     /\ Put(r, [closing EXCEPT !.cleaned = TRUE])
     /\ UNCHANGED limiterVars

(* One close has ended, in the order of open_responses.                    *)
CloseOne(q) ==
  IF q.first = "open" THEN [q EXCEPT !.first = "closed"]
                      ELSE [q EXCEPT !.resumed = "closed"]

(* The caller goes on closing, or releases the lease and is done.          *)
CloseNext(r, more, ended) ==
  IF Upstream(more) = {}
  THEN Put(r, ended) /\ Release(r)
  ELSE Put(r, more) /\ UNCHANGED limiterVars

-----------------------------------------------------------------------------
(* The stream task.                                                        *)

(* body() has run its finally clause: an error ends the task, and without  *)
(* one the final empty message is sent.                                    *)
BodyEnds(q) ==
  IF q.primary = "none" THEN [q EXCEPT !.body = "sendEnd"]
  ELSE Logged([q EXCEPT !.body = "failed"], EventOf(q.primary))

LeaveBody(r, q, e) ==
  LET p == [q EXCEPT !.primary = e] IN
  Cleanup(r, [p EXCEPT !.body = "closing"], BodyEnds(p))

(* A task cancelled by its parent takes no other step; the cancel scope of *)
(* a client disconnect may reach the task one step later.                  *)
Undisturbed(r) == st[r].cancel \in {"none", "disconnect"}

StartSent(r) ==
  /\ st[r].body = "start" /\ Undisturbed(r)
  /\ Put(r, [st[r] EXCEPT !.body = "send"])
  /\ UNCHANGED limiterVars

(* The unit yielded last, number pos - 1, has been sent.                   *)
ChunkSent(r) ==
  /\ st[r].body = "send" /\ Undisturbed(r)
  /\ Put(r, [st[r] EXCEPT !.body = "read", !.sent = @ + 1,
                          !.out = Append(@, st[r].pos - 1)])
  /\ UNCHANGED limiterVars

EndSent(r) ==
  /\ st[r].body = "sendEnd"
  /\ Put(r, [st[r] EXCEPT !.body = "ended", !.completed = TRUE])
  /\ UNCHANGED limiterVars

(* A send times out, finds the client gone or is cancelled: body() stays   *)
(* suspended at its yield and runs no finally clause.                      *)
SendFails(r) ==
  /\ st[r].body \in {"start", "send", "sendEnd"}
  /\ \E e \in {"failed", "aborted"} :
       /\ e = "failed" => Undisturbed(r)
       /\ Put(r, [st[r] EXCEPT !.body = "failed", !.primary = e])
  /\ UNCHANGED limiterVars

(* The length declared for what the current iterator reads.                *)
Declared(q) == IF q.attempted THEN q.rknown ELSE q.known

ReadChunk(r) ==
  /\ st[r].body = "read" /\ Undisturbed(r)
  /\ st[r].pos < Length
  /\ Put(r, [st[r] EXCEPT !.body = "send", !.pos = @ + 1])
  /\ UNCHANGED limiterVars

(* Faulty variant of ReadEnd: the total is not checked after a resume.     *)
ReadEndUnchecked(r) ==
  /\ st[r].body = "read" /\ Undisturbed(r)
  /\ Declared(st[r]) => st[r].pos = Length
  /\ LeaveBody(r, st[r], "none")

(* StopAsyncIteration: all that was declared has been read, or the         *)
(* connection of an undeclared body ended.  A resumed body must have       *)
(* reached the total.                                                      *)
ReadEnd(r) ==
  /\ st[r].body = "read" /\ Undisturbed(r)
  /\ Declared(st[r]) => st[r].pos = Length
  /\ LeaveBody(r, st[r],
       IF st[r].attempted /\ st[r].sent < Length THEN "failed" ELSE "none")

(* Faulty variant: a second truncation is resumed as well.                 *)
CanResumeAgain(q) ==
  /\ ~q.preview
  /\ q.resumable
  /\ q.known
  /\ 0 < q.sent /\ q.sent < Length

CanResume(q) ==
  /\ ~q.preview
  /\ ~q.attempted
  /\ q.resumable
  /\ q.known
  /\ 0 < q.sent /\ q.sent < Length

(* MediaTruncatedError: the connection ended before the declared length.   *)
ReadTruncated(r) ==
  /\ st[r].body = "read" /\ Undisturbed(r)
  /\ Declared(st[r]) /\ st[r].pos < Length
  /\ \/ /\ CanResume(st[r])
        /\ Put(r, [st[r] EXCEPT !.body = "rclose", !.attempted = TRUE])
        /\ UNCHANGED limiterVars
     \/ /\ ~CanResume(st[r])
        /\ LeaveBody(r, st[r], "failed")

(* A read error, a timeout, a size limit, the deadline of a preview, or a  *)
(* cancellation.                                                           *)
ReadFails(r) ==
  /\ st[r].body = "read"
  /\ \E e \in {"failed", "aborted"} :
       /\ e = "failed" => Undisturbed(r)
       /\ e = "aborted" => st[r].cancel # "none"
       /\ LeaveBody(r, st[r], e)

(* The first response is closed before the Range request; a cancellation   *)
(* of that close ends the stream instead.                                  *)
ResumeClosed(r) ==
  LET q == CloseOne(st[r]) IN
  /\ st[r].body = "rclose"
  /\ \/ /\ Undisturbed(r)
        /\ Put(r, [q EXCEPT !.body = "refetch"])
        /\ UNCHANGED limiterVars
     \/ /\ st[r].cancel # "none"
        /\ LeaveBody(r, q, "aborted")

(* What a server may answer to a Range request: partial is status 206,     *)
(* start where its body begins, consistent that end, total, type and       *)
(* length agree with the first response.  Without status 206 the body is   *)
(* the whole media.                                                        *)
RangeResponse ==
  {a \in [partial : BOOLEAN, start : 0..(Length - 1),
          consistent : BOOLEAN, length : BOOLEAN] :
     ~a.partial => a.start = 0}

(* validate_resume_response                                                *)
ValidResume(a, offset) ==
  /\ a.partial
  /\ a.start = offset
  /\ a.consistent

RefetchOk(r) ==
  /\ st[r].body = "refetch" /\ Undisturbed(r)
  /\ \E a \in RangeResponse :
       LET q == [st[r] EXCEPT !.resumed = "open"] IN
       \/ /\ ValidResume(a, st[r].sent)
          /\ Put(r, [q EXCEPT !.body = "read", !.pos = a.start,
                              !.rknown = a.length])
          /\ UNCHANGED limiterVars
       \/ /\ ~ValidResume(a, st[r].sent)
          /\ LeaveBody(r, q, "failed")

RefetchFails(r) ==
  /\ st[r].body = "refetch"
  /\ \/ /\ Undisturbed(r)
        /\ LeaveBody(r, st[r], "failed")
     \/ /\ st[r].cancel # "none"
        /\ LeaveBody(r, [st[r] EXCEPT !.detached = "pending"], "aborted")

(* One close awaited by the finally clause of body() ends.  A cancellation *)
(* of it is the task's error unless it has one already.                    *)
BodyCloses(r) ==
  /\ st[r].body = "closing"
  /\ \E cancelled \in BOOLEAN :
       LET e == IF cancelled /\ st[r].primary = "none" THEN "aborted"
                ELSE st[r].primary
           q == [CloseOne(st[r]) EXCEPT !.primary = e] IN
       /\ cancelled => st[r].cancel # "none"
       /\ CloseNext(r, q, BodyEnds(q))

Body(r) ==
  \/ StartSent(r) \/ ChunkSent(r) \/ EndSent(r) \/ SendFails(r)
  \/ ReadChunk(r) \/ ReadEnd(r) \/ ReadTruncated(r) \/ ReadFails(r)
  \/ ResumeClosed(r) \/ RefetchOk(r) \/ RefetchFails(r) \/ BodyCloses(r)

-----------------------------------------------------------------------------
(* DeadlineStreamingResponse.__call__                                      *)

StreamEnded(q) == q.body \in {"ended", "failed"}
StreamError(q) == IF q.body = "ended" THEN "none" ELSE q.primary

CallEnds(q) == Logged([q EXCEPT !.pc = "done"], EventOf(q.error))

(* The stream is over for the caller with error e: clean up, then report.  *)
LeaveCall(r, q, e) ==
  LET p == [q EXCEPT !.error = e] IN
  Cleanup(r, [p EXCEPT !.pc = "cleanup"], CallEnds(p))

StreamReturns(r) ==
  /\ st[r].pc = "stream"
  /\ StreamEnded(st[r])
  /\ LeaveCall(r, st[r], StreamError(st[r]))

(* The deadline of a preview cancels the stream task and waits for it.     *)
DeadlineFires(r) ==
  /\ st[r].pc = "stream" /\ st[r].preview
  /\ ~StreamEnded(st[r])
  /\ Put(r, [st[r] EXCEPT !.pc = "drain", !.cancel = "deadline"])
  /\ UNCHANGED limiterVars

(* The cancelled stream task ends, or is left behind after one second.     *)
DrainEnds(r) ==
  /\ st[r].pc = "drain"
  /\ LeaveCall(r, st[r], "failed")

CallCloses(r) ==
  /\ st[r].pc = "cleanup"
  /\ \E cancelled \in BOOLEAN :
       LET e == IF cancelled /\ st[r].error = "none" THEN "aborted"
                ELSE st[r].error
           q == [CloseOne(st[r]) EXCEPT !.error = e] IN
       CloseNext(r, q, CallEnds(q))

Call(r) == StreamReturns(r) \/ DrainEnds(r) \/ CallCloses(r)

-----------------------------------------------------------------------------
(* The environment: the client, the server that runs the handler, and the  *)
(* fetches left behind.                                                    *)

(* http.disconnect cancels the scope of the stream task.                   *)
Disconnect(r) ==
  /\ st[r].pc = "stream" /\ ~StreamEnded(st[r]) /\ st[r].cancel = "none"
  /\ Put(r, [st[r] EXCEPT !.cancel = "disconnect"])
  /\ UNCHANGED limiterVars

(* The task of the request is cancelled while it streams.  A download      *)
(* waits for its stream, which is the same task; a preview leaves its      *)
(* stream task behind and cleans up.                                       *)
CallerCancels(r) ==
  LET q == [st[r] EXCEPT !.cancel = "caller"] IN
  /\ st[r].pc \in {"stream", "drain"}
  /\ \/ /\ ~st[r].preview /\ ~StreamEnded(st[r]) /\ st[r].cancel # "caller"
        /\ Put(r, q)
        /\ UNCHANGED limiterVars
     \/ /\ st[r].preview \/ StreamEnded(st[r])
        /\ LeaveCall(r, q, "aborted")

(* A fetch left behind fails, which closes its own connection, or yields a *)
(* response; cleanup_detached_fetch closes that.                           *)
DetachedFetchEnds(r) ==
  /\ st[r].detached = "pending"
  /\ \E d \in {"none", "open"} : Put(r, [st[r] EXCEPT !.detached = d])
  /\ UNCHANGED limiterVars

(* Faulty variant: the callback leaves a response of a finished request.   *)
DetachedClosesIfRunning(r) ==
  /\ st[r].detached = "open" /\ st[r].pc # "done"
  /\ Put(r, [st[r] EXCEPT !.detached = "none"])
  /\ UNCHANGED limiterVars

DetachedCloses(r) ==
  /\ st[r].detached = "open"
  /\ Put(r, [st[r] EXCEPT !.detached = "none"])
  /\ UNCHANGED limiterVars

Detached(r) == DetachedFetchEnds(r) \/ DetachedCloses(r)

Init == LimiterInit /\ st = [r \in Streams |-> NewRequest]

(* An extraction, or the download of another request: the preview that     *)
(* _generate_preview makes, for one.                                       *)
OtherRequest(l) ==
  /\ \/ \E c \in Clients : AcquireDownload(l, c) \/ AcquireExtraction(l, c)
     \/ Release(l)
  /\ UNCHANGED st

Next ==
  \/ \E l \in Leases \ Streams : OtherRequest(l)
  \/ \E r \in Streams :
       \/ \E c \in Clients, preview \in BOOLEAN : Begin(r, c, preview)
       \/ Handler(r)
       \/ Body(r)
       \/ Call(r)
       \/ DeadlineFires(r)
       \/ Disconnect(r)
       \/ CallerCancels(r)
       \/ Detached(r)

Spec == Init /\ [][Next]_vars

(* Each await of the code is bounded: connects, reads and writes by the    *)
(* client's timeouts, a send by send_timeout, a close by one second.  No   *)
(* client, caller or deadline has to do anything.                          *)
Fairness ==
  \A r \in Streams :
    /\ WF_vars(Handler(r))
    /\ WF_vars(Body(r))
    /\ WF_vars(Call(r))
    /\ WF_vars(Detached(r))

FairSpec == Spec /\ Fairness

-----------------------------------------------------------------------------

StreamTypeOK == st \in [Streams -> RequestState]

(* An upstream connection that a request owns is covered by its slot, and  *)
(* there is never more than one: the limit on downloads really limits the  *)
(* connections, also in the middle of a resume or of a cleanup that is     *)
(* interrupted.  Whatever ended the request, once nothing of it runs any   *)
(* more its slot is free and no connection is open, including that of a    *)
(* fetch left behind (routes.py cleanup, close_response_once,              *)
(* cleanup_failed_response, cleanup_detached_fetch).                       *)
UpstreamCoveredBySlot ==
  \A r \in Streams :
    /\ Upstream(st[r]) # {} => Held(r)
    /\ Cardinality(Upstream(st[r])) <= 1
    /\ Settled(r) => ~Held(r) /\ Upstream(st[r]) = {}

(* The client receives the units of the media in order, without a gap or   *)
(* a repetition, also across a resume, and a download whose length was     *)
(* declared ends normally only when every unit was delivered; a truncated  *)
(* one is aborted, resumed or not (routes.py body, resume_offset and the   *)
(* checks after the loop).                                                 *)
DeliveredWhole ==
  /\ StreamTypeOK
  /\ \A r \in Streams :
       /\ Len(st[r].out) = st[r].sent
       /\ \A i \in 1..Len(st[r].out) : st[r].out[i] = i - 1
       /\ st[r].completed /\ st[r].known => Len(st[r].out) = Length

(* A download logs one terminal event, after its slot was given back, and  *)
(* logs success only if the response was completed (routes.py              *)
(* log_terminal; OPERATIONS.md calls the terminal event unique).           *)
OneTerminalEvent ==
  \A r \in Streams :
    /\ Len(st[r].log) <= 1
    /\ st[r].log # <<>> => ~Held(r)
    /\ st[r].log = <<"completed">> => st[r].completed
    /\ st[r].pc = "done" /\ ~st[r].preview => st[r].log # <<>>

(* A Range request is sent only for a download that holds its slot, whose  *)
(* first connection is closed, whose stream nobody has cancelled and that  *)
(* had no Range request answered before (routes.py body, the comment on    *)
(* line 788; OPERATIONS.md line 325 promises a single resume).             *)
ResumeUnderSlot ==
  [][\A r \in Streams :
       st[r].body # "refetch" /\ st'[r].body = "refetch" =>
         /\ Held(r) /\ Held(r)'
         /\ ~st[r].preview
         /\ st'[r].first = "closed" /\ st[r].resumed = "none"
         /\ st[r].cancel \notin {"caller", "deadline"}]_vars

(* Streaming uses the limiter only as the limiter allows.                  *)
ImplementsLimiter == LimiterSpec

(* A slot that is taken always comes back, and a fetch left behind does    *)
(* not keep a connection for ever (routes.py cleanup,                      *)
(* cleanup_detached_fetch).                                                *)
SlotsComeBack ==
  \A r \in Streams :
    /\ []<>~Held(r)
    /\ []<>(st[r].detached = "none")
=============================================================================

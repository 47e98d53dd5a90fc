------------------------------ MODULE MediaFetch ------------------------------
(***************************************************************************)
(* One fetch of the media client: MediaClient.fetch, _validate_target,     *)
(* _fetch_target and _close_writer of network/media_client.py with         *)
(* _await_bounded and its cleanup of what comes too late, followed by the  *)
(* body (MediaBody) and the close by the caller.  Each hop of a redirect   *)
(* validates its URL and opens a connection of its own.  Timers are steps  *)
(* that may come at any moment of the await they bound.                    *)
(***************************************************************************)
EXTENDS MediaBody

CONSTANTS
  Urls,          (* media URLs and redirect locations                      *)
  Allowed,       (* those the destination policy accepts                   *)
  NoUrl,
  MaxRedirects,  (* max_redirects                                          *)
  HasDeadline,   (* total_timeout is set                                   *)
  MaxCancels     (* bound on the cancellations by the caller               *)

ASSUME FetchAssumption ==
  /\ Allowed \subseteq Urls
  /\ NoUrl \notin Urls
  /\ MaxRedirects \in Nat
  /\ HasDeadline \in BOOLEAN
  /\ MaxCancels \in Nat

VARIABLES
  pc,        (* the await fetch is suspended in                            *)
  hop,       (* redirect_count                                             *)
  url,       (* current_url                                                *)
  location,  (* where the response redirects to                            *)
  raising,   (* the answer that the close of a failed writer delays        *)
  answer,    (* what fetch returned or raised                              *)
  conn,      (* the connection of each hop: none, opening, held by fetch,  *)
             (* given to the caller, stray or late if left behind, or gone *)
  peer,      (* the URL it was opened for                                  *)
  expired,   (* the deadline has passed                                    *)
  cancels    (* cancellations delivered                                    *)

fetchVars == <<pc, hop, url, location, raising, answer>>
netVars == <<conn, peer>>
vars == <<fetchVars, netVars, expired, cancels, body>>

Hops == 0..MaxRedirects

SetConn(s) == conn' = [conn EXCEPT ![hop] = s]

(* fetch is over.                                                          *)
Ends(a) ==
  /\ pc' = "over" /\ answer' = a
  /\ UNCHANGED <<hop, url, location, raising>>

GoesTo(await) ==
  /\ pc' = await
  /\ UNCHANGED <<hop, url, location, raising, answer>>

(* Faulty variant of Abandon: the writer is left to the garbage collector. *)
AbandonOpen(a) ==
  /\ raising' = a
  /\ pc' = "abandoning"
  /\ UNCHANGED <<hop, url, location, answer, netVars>>

(* _close_writer: the writer is closed at once, the wait for it follows.   *)
Abandon(a) ==
  /\ SetConn("gone")
  /\ raising' = a
  /\ pc' = "abandoning"
  /\ UNCHANGED <<hop, url, location, answer, peer>>

-----------------------------------------------------------------------------

(* The destination policy has answered.  Behind it _fetch_target checks    *)
(* the deadline before it opens a connection.                              *)
TargetValid ==
  /\ pc = "validating"
  /\ url \in Allowed /\ ~expired
  /\ SetConn("opening")
  /\ peer' = [peer EXCEPT ![hop] = url]
  /\ GoesTo("connecting")

TargetRefused ==
  /\ pc = "validating"
  /\ Ends("error")
  /\ UNCHANGED netVars

(* The connection is there; the request is written and drained, unless     *)
(* the write fails or the deadline has passed.                             *)
Connected ==
  /\ pc = "connecting"
  /\ ~expired
  /\ SetConn("held")
  /\ GoesTo("draining")
  /\ UNCHANGED peer

WriteFails ==
  /\ pc = "connecting"
  /\ Abandon("error")

ConnectFails ==
  /\ pc = "connecting"
  /\ SetConn("gone")
  /\ Ends("error")
  /\ UNCHANGED peer

(* A timeout or a cancellation: the task that connects is told to stop and *)
(* is not waited for.                                                      *)
LeaveConnecting(a) ==
  /\ pc = "connecting"
  /\ SetConn("stray")
  /\ Ends(a)
  /\ UNCHANGED peer

Drained ==
  /\ pc = "draining"
  /\ ~expired
  /\ GoesTo("headers")
  /\ UNCHANGED netVars

(* A timeout, an error, a passed deadline or a malformed head.             *)
ExchangeFails ==
  /\ pc \in {"draining", "headers"}
  /\ Abandon("error")

(* The head of a response that is not a redirect.                          *)
Responds ==
  /\ pc = "headers"
  /\ ~expired
  /\ SetConn("given")
  /\ Ends("response")
  /\ UNCHANGED peer

(* The head of a redirect: its connection is closed before the next hop.   *)
Redirects(to) ==
  /\ pc = "headers"
  /\ ~expired
  /\ SetConn("gone")
  /\ location' = to
  /\ pc' = "redirecting"
  /\ UNCHANGED <<hop, url, raising, answer, peer>>

(* Faulty variant of NextHop: the location is followed as it is.           *)
NextHopUnchecked ==
  /\ hop' = hop + 1 /\ url' = location
  /\ pc' = "connecting"
  /\ conn' = [conn EXCEPT ![hop + 1] = "opening"]
  /\ peer' = [peer EXCEPT ![hop + 1] = location]
  /\ UNCHANGED <<location, raising, answer>>

NextHop ==
  /\ hop' = hop + 1 /\ url' = location
  /\ pc' = "validating"
  /\ UNCHANGED <<location, raising, answer, netVars>>

(* The close of the redirect has ended, well or not.  A next hop needs a   *)
(* location, is one of so many, and comes before the deadline.             *)
RedirectClosed ==
  /\ pc = "redirecting"
  /\ IF location = NoUrl \/ hop = MaxRedirects \/ expired
     THEN Ends("error") /\ UNCHANGED netVars
     ELSE NextHop

(* The wait for the closed writer has ended, or has taken a second.        *)
Abandoned ==
  /\ pc = "abandoning"
  /\ Ends(raising)
  /\ UNCHANGED netVars

(* The caller is cancelled at the await that fetch is suspended in.        *)
Cancelled ==
  /\ pc # "over" /\ cancels < MaxCancels
  /\ cancels' = cancels + 1
  /\ \/ pc = "connecting" /\ LeaveConnecting("cancelled")
     \/ pc \in {"draining", "headers"} /\ Abandon("cancelled")
     \/ /\ pc \in {"validating", "redirecting", "abandoning"}
        /\ Ends("cancelled")
        /\ UNCHANGED netVars
  /\ UNCHANGED <<expired, body>>

FetchResumes ==
  /\ \/ TargetValid \/ TargetRefused
     \/ Connected \/ WriteFails \/ ConnectFails \/ LeaveConnecting("error")
     \/ Drained \/ ExchangeFails \/ Responds
     \/ \E to \in Urls \cup {NoUrl} : Redirects(to)
     \/ RedirectClosed \/ Abandoned
  /\ UNCHANGED <<expired, cancels, body>>

-----------------------------------------------------------------------------
(* What else happens.                                                      *)

DeadlinePasses ==
  /\ HasDeadline /\ ~expired
  /\ expired' = TRUE
  /\ UNCHANGED <<fetchVars, netVars, cancels, body>>

(* _observe_task_result: the task that was given up ends as told, or it    *)
(* has connected and a task is started to close what it returned.          *)
StrayEnds(h) ==
  /\ conn[h] = "stray"
  /\ \E s \in {"late", "gone"} : conn' = [conn EXCEPT ![h] = s]
  /\ UNCHANGED <<fetchVars, peer, expired, cancels, body>>

(* Faulty variant of LateCloses: the peer is waited for first.             *)
LateWaits(h) ==
  /\ conn[h] = "late"
  /\ UNCHANGED vars

(* _close_detached_open_connection: closed at once, the wait is bounded.   *)
LateCloses(h) ==
  /\ conn[h] = "late"
  /\ conn' = [conn EXCEPT ![h] = "gone"]
  /\ UNCHANGED <<fetchVars, peer, expired, cancels, body>>

Settles(h) == StrayEnds(h) \/ LateCloses(h)

(* The caller reads the body of the response it was given; each read finds *)
(* out first whether the deadline has passed.                              *)
CallerReads ==
  /\ answer = "response" /\ conn[hop] = "given"
  /\ IF expired /\ body.state # "none" THEN ReadFails ELSE BodyNext
  /\ UNCHANGED <<fetchVars, netVars, expired, cancels>>

(* MediaResponse.close                                                     *)
CallerCloses ==
  /\ answer = "response" /\ conn[hop] = "given"
  /\ SetConn("gone")
  /\ UNCHANGED <<fetchVars, peer, expired, cancels, body>>

Init ==
  /\ pc = "validating"
  /\ hop = 0
  /\ url \in Urls
  /\ location = NoUrl
  /\ raising = "none"
  /\ answer = "none"
  /\ conn = [h \in Hops |-> "none"]
  /\ peer = [h \in Hops |-> NoUrl]
  /\ expired = FALSE
  /\ cancels = 0
  /\ body = NoBody

Next ==
  \/ FetchResumes
  \/ Cancelled
  \/ DeadlinePasses
  \/ \E h \in Hops : Settles(h)
  \/ CallerReads
  \/ CallerCloses

Spec == Init /\ [][Next]_vars

(* Each await of fetch is bounded (connect_timeout, read_timeout, the      *)
(* second of _close_writer), and the loop runs the callback of a task that *)
(* was cancelled and the cleanup it starts.                                *)
FairSpec ==
  /\ Spec
  /\ WF_vars(FetchResumes)
  /\ \A h \in Hops : WF_vars(Settles(h))

-----------------------------------------------------------------------------

(* The state as the abstract owner sees it: that a stray attempt succeeded *)
(* after all makes no difference.                                          *)
Seen == [h \in Hops |-> IF conn[h] = "late" THEN "stray" ELSE conn[h]]

Owned == INSTANCE OwnedConnection WITH Attempts <- Hops, connection <- Seen

(* However a hop fails, times out, is cancelled or redirects, connections  *)
(* are opened one at a time, each is closed before fetch fails or goes on, *)
(* the caller gets the last one and no other, and the only thing a failed  *)
(* fetch leaves behind is an attempt to connect that is seen to            *)
(* (network/media_client.py fetch, _fetch_target, _close_writer,           *)
(* _await_bounded).                                                        *)
KeepsTheConnection == Owned!OwnedSpec

(* A connection is opened only to a URL that the policy accepted for that  *)
(* very hop, and there are at most max_redirects + 1: a redirect leads     *)
(* nowhere the first URL could not have led (network/media_client.py       *)
(* fetch).                                                                 *)
EveryHopIsChecked ==
  \A h \in Hops :
    /\ conn[h] # "none" => peer[h] \in Allowed
    /\ h > hop => conn[h] = "none"
    /\ h < hop => conn[h] = "gone"

(* A fetch comes to an end whatever the upstream does, and a connection    *)
(* that was made too late is closed (network/media_client.py               *)
(* _await_bounded, _close_detached_open_connection).                       *)
FetchSettles ==
  /\ <>(answer # "none")
  /\ \A h \in Hops : conn[h] \in {"stray", "late"} ~> conn[h] = "gone"
=============================================================================

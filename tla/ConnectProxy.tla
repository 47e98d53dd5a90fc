---------------------------- MODULE ConnectProxy ----------------------------
(***************************************************************************)
(* The loopback CONNECT proxy of network/connect_proxy.py: one handler per *)
(* connection of an extractor, each in its own task.  An action is what a  *)
(* handler does from one await to the next; _run_with_deadline may end any *)
(* of them with a timeout, leaving the operation behind, and close_clients *)
(* may cancel the handler in any of them.                                  *)
(***************************************************************************)
EXTENDS Integers, Sequences

CONSTANT Handlers

VARIABLES
  pc,           (* the await each handler is suspended in                  *)
  tasks,        (* _client_tasks                                           *)
  client,       (* transport of the connection from the extractor          *)
  upstream,     (* and of the one to the destination                       *)
  relay,        (* the task of _relay with its two copies                  *)
  established,  (* tunnel_established                                      *)
  replies,      (* status lines written to the client                      *)
  told          (* whether close_clients has cancelled it: no, now or was  *)

handlerVars ==
  <<pc, tasks, client, upstream, relay, established, replies, told>>

HandlerAwaits ==
  {"reading", "validating", "connecting", "draining", "relaying", "refusing",
   "closing"}

Running(h) == pc[h] \in HandlerAwaits

GoTo(h, await) == pc' = [pc EXCEPT ![h] = await]

Undisturbed(h, await) == pc[h] = await /\ told[h] # "now"

(* The operation a handler gives up: a connection that comes too late is   *)
(* left to its observer, a relay is told to stop.                          *)
Given(c) == IF c = "opening" THEN "stray" ELSE c
Stopped(r) == IF r = "running" THEN "winding" ELSE r

(* Faulty variant of CloseWriters: what the client sees is all there is.   *)
CloseClient(h, up) ==
  /\ client' = [client EXCEPT ![h] = IF @ = "open" THEN "closing" ELSE @]
  /\ upstream' = [upstream EXCEPT ![h] = up]

(* _close_writers up to its await: both are closed, whatever their state.  *)
CloseWriters(h, up) ==
  /\ client' = [client EXCEPT ![h] = IF @ = "open" THEN "closing" ELSE @]
  /\ upstream' = [upstream EXCEPT ![h] = IF up = "open" THEN "closed" ELSE up]

(* The handler's finally.                                                  *)
Finish(h, up) ==
  /\ GoTo(h, "closing")
  /\ CloseWriters(h, up)
  /\ UNCHANGED <<tasks, established, replies>>

(* An error that handle_client catches: the client is told only if it has  *)
(* not been told that there is a tunnel.                                   *)
Refuse(h, up) ==
  IF established[h]
  THEN Finish(h, up)
  ELSE /\ GoTo(h, "refusing")
       /\ replies' = [replies EXCEPT ![h] = Append(@, "403")]
       /\ upstream' = [upstream EXCEPT ![h] = up]
       /\ UNCHANGED <<tasks, client, established>>

-----------------------------------------------------------------------------

(* A connection is accepted and the handler runs up to its first await.    *)
Accept(h) ==
  /\ pc[h] = "none"
  /\ GoTo(h, "reading")
  /\ tasks' = tasks \cup {h}
  /\ client' = [client EXCEPT ![h] = "open"]
  /\ UNCHANGED <<upstream, relay, established, replies, told>>

(* The head of the request, well formed.                                   *)
RequestRead(h) ==
  /\ Undisturbed(h, "reading")
  /\ GoTo(h, "validating")
  /\ UNCHANGED <<tasks, client, upstream, relay, established, replies, told>>

TargetAllowed(h) ==
  /\ Undisturbed(h, "validating")
  /\ GoTo(h, "connecting")
  /\ upstream' = [upstream EXCEPT ![h] = "opening"]
  /\ UNCHANGED <<tasks, client, relay, established, replies, told>>

(* The client has left, the request is malformed or too long, or its       *)
(* target is not allowed; or the time is up.                               *)
RequestFails(h) ==
  /\ Undisturbed(h, "reading") \/ Undisturbed(h, "validating")
  /\ Refuse(h, upstream[h])
  /\ UNCHANGED <<relay, told>>

(* to_thread finds no thread to run in any more: not caught.               *)
ValidationBreaks(h) ==
  /\ Undisturbed(h, "validating")
  /\ Finish(h, upstream[h])
  /\ UNCHANGED <<relay, told>>

(* Faulty variant of Connected: the tunnel counts once it has been drained.*)
ConnectedUnmarked(h) ==
  /\ Undisturbed(h, "connecting")
  /\ GoTo(h, "draining")
  /\ upstream' = [upstream EXCEPT ![h] = "open"]
  /\ replies' = [replies EXCEPT ![h] = Append(@, "200")]
  /\ UNCHANGED <<tasks, client, relay, established, told>>

Connected(h) ==
  /\ Undisturbed(h, "connecting")
  /\ GoTo(h, "draining")
  /\ upstream' = [upstream EXCEPT ![h] = "open"]
  /\ established' = [established EXCEPT ![h] = TRUE]
  /\ replies' = [replies EXCEPT ![h] = Append(@, "200")]
  /\ UNCHANGED <<tasks, client, relay, told>>

(* The connection is refused, or takes too long.                           *)
ConnectFails(h) ==
  /\ Undisturbed(h, "connecting")
  /\ \E up \in {"none", "stray"} : Refuse(h, up)
  /\ UNCHANGED <<relay, told>>

Drained(h) ==
  /\ Undisturbed(h, "draining")
  /\ GoTo(h, "relaying")
  /\ relay' = [relay EXCEPT ![h] = "running"]
  /\ UNCHANGED <<tasks, client, upstream, established, replies, told>>

DrainFails(h) ==
  /\ Undisturbed(h, "draining")
  /\ Refuse(h, upstream[h])
  /\ UNCHANGED <<relay, told>>

(* _relay has returned or raised, or the time is up.                       *)
RelayReturns(h) ==
  /\ Undisturbed(h, "relaying")
  /\ relay[h] = "over"
  /\ Finish(h, upstream[h])
  /\ UNCHANGED <<relay, told>>

RelayTimesOut(h) ==
  /\ Undisturbed(h, "relaying")
  /\ relay' = [relay EXCEPT ![h] = Stopped(@)]
  /\ Finish(h, upstream[h])
  /\ UNCHANGED told

(* The refusal is drained, or not in time.                                 *)
Refused(h) ==
  /\ Undisturbed(h, "refusing")
  /\ Finish(h, upstream[h])
  /\ UNCHANGED <<relay, told>>

(* Both transports are closed, or have had a tenth of a second.            *)
WritersClosed(h) ==
  /\ Undisturbed(h, "closing")
  /\ GoTo(h, "gone")
  /\ tasks' = tasks \ {h}
  /\ UNCHANGED <<client, upstream, relay, established, replies, told>>

(* The cancellation arrives: the finally runs, or what was left of it ends.*)
Cancelled(h) ==
  /\ Running(h) /\ told[h] = "now"
  /\ told' = [told EXCEPT ![h] = "was"]
  /\ IF pc[h] = "closing"
     THEN /\ GoTo(h, "gone")
          /\ tasks' = tasks \ {h}
          /\ UNCHANGED <<client, upstream, relay, established, replies>>
     ELSE /\ Finish(h, Given(upstream[h]))
          /\ relay' = [relay EXCEPT ![h] = Stopped(@)]

HandlerStep(h) ==
  \/ RequestRead(h) \/ TargetAllowed(h) \/ RequestFails(h)
  \/ ValidationBreaks(h) \/ Connected(h) \/ ConnectFails(h)
  \/ Drained(h) \/ DrainFails(h) \/ RelayReturns(h) \/ RelayTimesOut(h)
  \/ Refused(h) \/ WritersClosed(h) \/ Cancelled(h)

-----------------------------------------------------------------------------

(* One side closes, or a copy fails: the other copy is told to stop and    *)
(* has a tenth of a second to do so.                                       *)
SideCloses(h) ==
  /\ relay[h] = "running"
  /\ relay' = [relay EXCEPT ![h] = "winding"]
  /\ UNCHANGED <<pc, tasks, client, upstream, established, replies, told>>

RelayOver(h) ==
  /\ relay[h] = "winding"
  /\ relay' = [relay EXCEPT ![h] = "over"]
  /\ UNCHANGED <<pc, tasks, client, upstream, established, replies, told>>

(* _observe_late_connection: what was connected after all is closed.       *)
StrayCloses(h) ==
  /\ upstream[h] = "stray"
  /\ upstream' = [upstream EXCEPT ![h] = "closed"]
  /\ UNCHANGED <<pc, tasks, client, relay, established, replies, told>>

(* The transport is lost: the extractor is gone, or everything written to  *)
(* it before the close has been taken.                                     *)
ClientLost(h) ==
  /\ client[h] \in {"open", "closing"}
  /\ client' = [client EXCEPT ![h] = "lost"]
  /\ UNCHANGED <<pc, tasks, upstream, relay, established, replies, told>>

LoopStep(h) == SideCloses(h) \/ RelayOver(h) \/ StrayCloses(h) \/ ClientLost(h)

HandlerInit ==
  /\ pc = [h \in Handlers |-> "none"]
  /\ tasks = {}
  /\ client = [h \in Handlers |-> "none"]
  /\ upstream = [h \in Handlers |-> "none"]
  /\ relay = [h \in Handlers |-> "none"]
  /\ established = [h \in Handlers |-> FALSE]
  /\ replies = [h \in Handlers |-> <<>>]
  /\ told = [h \in Handlers |-> "no"]

-----------------------------------------------------------------------------

(* Whatever times out, fails or is cancelled, a connection to a            *)
(* destination that is open belongs to a handler that close_clients can    *)
(* still reach; a handler that has unregistered itself leaves nothing open *)
(* and no relay that has not been told to stop (network/connect_proxy.py   *)
(* handle_client, _close_writers, close_clients).                          *)
TunnelsAreAccounted ==
  \A h \in Handlers :
    /\ upstream[h] \in {"opening", "open"} => h \in tasks
    /\ pc[h] = "gone" =>
         /\ h \notin tasks
         /\ client[h] # "open"
         /\ relay[h] # "running"

(* The extractor gets one answer at most: after the 200 whatever follows   *)
(* belongs to the tunnel, so that no 403 is ever put into the encrypted    *)
(* stream, and after a 403 nothing is relayed (network/connect_proxy.py    *)
(* handle_client).                                                         *)
AnswersOnce ==
  \A h \in Handlers :
    /\ Len(replies[h]) <= 1
    /\ relay[h] # "none" => replies[h] = <<"200">>
=============================================================================

----------------------------- MODULE McpBoundary -----------------------------
(***************************************************************************)
(* POSTs to /mcp: McpBoundaryMiddleware and McpRequestRegistry of          *)
(* mcp/middleware.py, and call_tool of mcp/server.py.  The middleware      *)
(* reads the body, decides whether the message cancels a tool call that is *)
(* active in the same session, charges the POST to one of the two MCP      *)
(* windows of the attempt limiter, and hands it on to the SDK, which       *)
(* starts tool calls when it gets to them.  A call registers itself for    *)
(* the time it runs, which is what the decision looks at.  What follows    *)
(* the read of the body has no await, so that decision and charge are one  *)
(* step.                                                                   *)
(***************************************************************************)
EXTENDS AttemptLimiter

CONSTANTS
  Posts,      (* POSTs that are in progress at the same time               *)
  Messages,   (* the messages clients send                                 *)
  NoSession,  (* a POST without mcp-session-id                             *)
  Canonical,  (* coerce_request_id of the SDK: 1 and "1" are one id        *)
  MaxActive   (* max_active                                                *)

(* legacy: the protocol version is one of the handshake versions; only     *)
(* then does the SDK cancel by notification.                               *)
MessageShape(m) ==
  /\ m.kind \in {"call", "cancel", "other", "invalid"}
  /\ m.id \in DOMAIN Canonical
  /\ m.legacy \in BOOLEAN

ASSUME BoundaryAssumption ==
  /\ ReserveMcp
  /\ IsFiniteSet(Posts)
  /\ \A m \in Messages : MessageShape(m)
  /\ MaxActive \in Nat

VARIABLES
  post,   (* where each POST is: its handler, then the tool call it became *)
  active  (* _active: how many calls are registered under a key            *)

boundaryVars == <<vars, post, active>>

NoKey == <<>>
Key(m) ==
  IF m.session = NoSession THEN NoKey ELSE <<m.session, Canonical[m.id]>>
Keys == {Key(m) : m \in Messages} \ {NoKey}

ActiveCount == Cardinality({k \in Keys : active[k] > 0})

FreePost == [pc |-> "free"]
InState(p, pc) == post[p].pc = pc

(* The calls that are under way and have registered themselves.            *)
RegisteredCalls(k) ==
  {p \in Posts :
     InState(p, "running") /\ post[p].registered /\ Key(post[p].msg) = k}

(* Faulty variant of Contains: any session's call will do.                 *)
ContainsAnywhere(m) == \E k \in Keys : active[k] > 0 /\ k[2] = Canonical[m.id]

(* contains                                                                *)
Contains(m) == Key(m) # NoKey /\ active[Key(m)] > 0

(* _is_active_cancellation                                                 *)
IsActiveCancellation(m) == m.kind = "cancel" /\ m.legacy /\ Contains(m)

(* begin; call_tool asks for it in the handshake versions only.            *)
CanRegister(m) ==
  /\ m.legacy
  /\ Key(m) # NoKey
  /\ active[Key(m)] > 0 \/ ActiveCount < MaxActive

(* Faulty variant of Finished: a call that could not register, because     *)
(* the registry was full or the protocol is a later one, takes back an     *)
(* entry all the same.                                                     *)
FinishedAlways(p) ==
  LET k == Key(post[p].msg) IN
  IF k # NoKey /\ active[k] > 0 THEN [active EXCEPT ![k] = @ - 1] ELSE active

(* finish, in the finally clause of call_tool                              *)
Finished(p) ==
  IF post[p].registered THEN [active EXCEPT ![Key(post[p].msg)] = @ - 1]
  ELSE active

-----------------------------------------------------------------------------

(* The headers are in order and the body is being received.                *)
Arrive(p) ==
  /\ InState(p, "free")
  /\ \E m \in Messages :
       post' = [post EXCEPT ![p] = [pc |-> "reading", msg |-> m]]
  /\ UNCHANGED <<vars, active>>

(* _read_body: the client disconnects, or sends more than the limit; it is *)
(* not charged.                                                            *)
BodyAbandoned(p) ==
  /\ InState(p, "reading")
  /\ post' = [post EXCEPT ![p] = FreePost]
  /\ UNCHANGED <<vars, active>>

(* The body is there: the POST is charged, and goes on to the SDK unless   *)
(* its window is full or it cannot be parsed.                              *)
BodyRead(p) ==
  /\ InState(p, "reading")
  /\ LET m == post[p].msg
         kind == IF IsActiveCancellation(m) THEN "cancellation" ELSE "regular"
     IN
     /\ AcquireMcpPost(kind)
     /\ post' = [post EXCEPT ![p] =
                   IF Full(<<Mcp, kind>>) \/ m.kind = "invalid" THEN FreePost
                   ELSE [pc |-> "dispatched", msg |-> m]]
  /\ UNCHANGED active

(* The SDK answers by itself: a notification, a message that is not a tool *)
(* call, or one that it refuses.  call_tool answers at once for the name   *)
(* of another tool.                                                        *)
SdkAnswers(p) ==
  /\ InState(p, "dispatched")
  /\ post' = [post EXCEPT ![p] = FreePost]
  /\ UNCHANGED <<vars, active>>

(* call_tool, up to the await of the extraction                            *)
CallBegins(p) ==
  /\ InState(p, "dispatched")
  /\ LET m == post[p].msg IN
     /\ m.kind = "call"
     /\ post' = [post EXCEPT ![p] =
                   [pc |-> "running", msg |-> m, registered |-> CanRegister(m)]]
     /\ active' = IF CanRegister(m) THEN [active EXCEPT ![Key(m)] = @ + 1]
                  ELSE active
  /\ UNCHANGED vars

(* execute_tool answers, fails or is cancelled.                            *)
CallEnds(p) ==
  /\ InState(p, "running")
  /\ active' = Finished(p)
  /\ post' = [post EXCEPT ![p] = FreePost]
  /\ UNCHANGED vars

(* Time passes.  Attempts of REST clients are left out: they have windows  *)
(* of their own (AttemptLimiter).                                          *)
TimePasses == Tick /\ UNCHANGED <<post, active>>

BoundaryInit ==
  /\ Init
  /\ post = [p \in Posts |-> FreePost]
  /\ active = [k \in Keys |-> 0]

BoundaryNext ==
  \/ \E p \in Posts :
       \/ Arrive(p)
       \/ BodyAbandoned(p)
       \/ BodyRead(p)
       \/ SdkAnswers(p)
       \/ CallBegins(p)
       \/ CallEnds(p)
  \/ TimePasses

BoundarySpec == BoundaryInit /\ [][BoundaryNext]_boundaryVars

-----------------------------------------------------------------------------

(* The registry counts exactly the calls that are under way and registered *)
(* themselves, whatever calls share a key, could not register or end in    *)
(* which order, and it keeps within its bound (mcp/middleware.py begin and *)
(* finish, mcp/server.py call_tool).                                       *)
RegistryTellsTheTruth ==
  /\ \A k \in Keys : active[k] = Cardinality(RegisteredCalls(k))
  /\ ActiveCount <= MaxActive

(* The MCP windows together admit no more than ExtractionLimit POSTs in    *)
(* the length of a window, and ordinary POSTs, however many, leave room    *)
(* for a cancellation if none came in that time; who waits as long as told *)
(* finds room (limits.py acquire_mcp_post; OPERATIONS.md line 182: nine    *)
(* ordinary POSTs and one kept for a cancellation).                        *)
PostsWithinWindow ==
  LET recent(kind) ==
        {i \in DOMAIN admitted[<<Mcp, kind>>] :
           admitted[<<Mcp, kind>>][i] > now - Window}
  IN
  /\ Cardinality(recent("regular")) + Cardinality(recent("cancellation"))
       <= ExtractionLimit
  /\ Full(<<Mcp, "cancellation">>) => recent("cancellation") # {}
  /\ RetryAfterHonoured

(* A POST is charged to the reserve exactly if it cancels a call that is   *)
(* registered and under way in its own session at the moment of the        *)
(* charge: neither a call of another session, nor one that is over or has  *)
(* not begun, opens the reserve, and the cancellation of a call that is    *)
(* under way never competes with ordinary POSTs (mcp/middleware.py         *)
(* __call__, _is_active_cancellation).  The windows keep that promise (see *)
(* PostsWithinWindow).                                                     *)
ReserveIsForActiveCalls ==
  /\ []PostsWithinWindow
  /\ [][LET Charged(kind) == admitted'[<<Mcp, kind>>] # admitted[<<Mcp, kind>>]
            Cancels(m) ==
              /\ m.kind = "cancel"
              /\ m.legacy
              /\ \E q \in Posts :
                   /\ InState(q, "running") /\ post[q].registered
                   /\ post[q].msg.session = m.session
                   /\ Canonical[post[q].msg.id] = Canonical[m.id]
        IN
        \A p \in Posts :
          InState(p, "reading") /\ post'[p] # post[p] =>
            /\ Charged("cancellation") => Cancels(post[p].msg)
            /\ Charged("regular") => ~Cancels(post[p].msg)]_boundaryVars
=============================================================================

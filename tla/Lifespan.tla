------------------------------ MODULE Lifespan ------------------------------
(***************************************************************************)
(* The lifespan of create_app in app.py around the CONNECT proxy: the      *)
(* proxy is started first, then the MCP manager, and both are stopped in   *)
(* the opposite order whatever fails in between.  The MCP manager is       *)
(* external: it starts or fails, and may not stop.                         *)
(***************************************************************************)
EXTENDS ConnectProxy

CONSTANT McpEnabled

ASSUME McpEnabledAssumption == McpEnabled \in BOOLEAN

VARIABLES
  life,       (* where the lifespan is suspended                           *)
  listening,  (* the proxy's server accepts connections                    *)
  failed,     (* the lifespan will raise                                   *)
  awaited     (* the handlers that close_clients waits for                 *)

lifeVars == <<life, listening, failed, awaited>>
vars == <<handlerVars, lifeVars>>

Attached(h) == client[h] \in {"open", "closing"}

(* The outer finally: the server is closed, the wait for it begins.        *)
Shut(failing) ==
  /\ life' = "waiting"
  /\ listening' = FALSE
  /\ failed' = (failed \/ failing)
  /\ UNCHANGED <<handlerVars, awaited>>

(* close_clients up to its await                                           *)
CloseClients ==
  /\ awaited' = tasks
  /\ told' = [h \in Handlers |-> IF h \in tasks THEN "now" ELSE told[h]]
  /\ life' = IF tasks = {} THEN "stopped" ELSE "clearing"
  /\ UNCHANGED <<pc, tasks, client, upstream, relay, established, replies>>

-----------------------------------------------------------------------------

ProxyServes ==
  /\ life = "starting"
  /\ life' = IF McpEnabled THEN "entering" ELSE "serving"
  /\ listening' = TRUE
  /\ UNCHANGED <<handlerVars, failed, awaited>>

(* The port is taken: there is nothing to clean up.                        *)
ProxyFails ==
  /\ life = "starting"
  /\ life' = "stopped" /\ failed' = TRUE
  /\ UNCHANGED <<handlerVars, listening, awaited>>

McpStarts ==
  /\ life = "entering"
  /\ life' = "serving"
  /\ UNCHANGED <<handlerVars, listening, failed, awaited>>

McpFails ==
  /\ life = "entering"
  /\ Shut(TRUE)

(* The application server ends the lifespan.                               *)
Stop ==
  /\ life = "serving"
  /\ IF McpEnabled
     THEN life' = "leaving" /\ UNCHANGED <<handlerVars, listening, failed, awaited>>
     ELSE Shut(FALSE)

(* The MCP manager stops, or its five seconds are over.                    *)
McpStops ==
  /\ life = "leaving"
  /\ \E failing \in BOOLEAN : Shut(failing)

(* Server.wait_closed: no connection is attached to the server.            *)
ServerClosed ==
  /\ life = "waiting"
  /\ \A h \in Handlers : ~Attached(h)
  /\ CloseClients
  /\ UNCHANGED <<listening, failed>>

(* Faulty variant of WaitTimesOut: close_clients is not in the finally.    *)
WaitTimesOutAtOnce ==
  /\ life = "waiting"
  /\ life' = "stopped" /\ failed' = TRUE
  /\ UNCHANGED <<handlerVars, listening, awaited>>

(* Faulty variant of WaitTimesOut: wait_closed is not bounded.             *)
WaitGoesOn ==
  /\ life = "waiting"
  /\ UNCHANGED vars

(* Its five seconds are over: close_clients is called all the same.        *)
WaitTimesOut ==
  /\ life = "waiting"
  /\ \E h \in Handlers : Attached(h)
  /\ failed' = TRUE
  /\ CloseClients
  /\ UNCHANGED listening

(* The handlers have ended, or a tenth of a second or what was left of the *)
(* five is over.                                                           *)
ClientsClosed ==
  /\ life = "clearing"
  /\ life' = "stopped"
  /\ \/ UNCHANGED failed
     \/ awaited \cap tasks # {} /\ failed' = TRUE
  /\ awaited' = {}
  /\ UNCHANGED <<handlerVars, listening>>

(* An accepted handler registers before anything else can happen: the      *)
(* server counts the connection from the same turn of the loop.            *)
Accepts(h) == listening /\ Accept(h) /\ UNCHANGED lifeVars

Starting == ProxyServes \/ ProxyFails \/ McpStarts \/ McpFails \/ Stop

Stopping == McpStops \/ ServerClosed \/ WaitTimesOut \/ ClientsClosed

Init ==
  /\ HandlerInit
  /\ life = "starting"
  /\ listening = FALSE
  /\ failed = FALSE
  /\ awaited = {}

Next ==
  \/ Starting
  \/ Stopping
  \/ \E h \in Handlers :
       \/ Accepts(h)
       \/ HandlerStep(h) /\ UNCHANGED lifeVars
       \/ LoopStep(h) /\ UNCHANGED lifeVars

Spec == Init /\ [][Next]_vars

(* Each await of a handler ends by its deadline, those of the shutdown are *)
(* bounded by five seconds and a tenth, and the loop runs the callbacks.   *)
(* Nothing is assumed of the extractors, of the MCP manager or of the      *)
(* moment when the server is stopped.                                      *)
FairSpec ==
  /\ Spec
  /\ WF_vars(Stopping)
  /\ \A h \in Handlers :
       /\ WF_vars(HandlerStep(h) /\ UNCHANGED lifeVars)
       /\ WF_vars((RelayOver(h) \/ StrayCloses(h)) /\ UNCHANGED lifeVars)

-----------------------------------------------------------------------------

(* Whichever part of the start or of the shutdown fails, once the lifespan *)
(* is over the proxy accepts nothing, every handler that still runs has    *)
(* been told to stop, and no tunnel is open that will not be closed when   *)
(* its handler notices (app.py lifespan, whose docstring promises that any *)
(* partial failure still cleans up what was acquired).                     *)
ShutdownReachesAll ==
  life = "stopped" =>
    /\ ~listening
    /\ \A h \in tasks : told[h] # "no"
    /\ \A h \in Handlers : upstream[h] = "open" => told[h] = "now"

(* The shutdown ends although clients may never leave and the MCP manager  *)
(* may never stop, and each tunnel and each connection that was made too   *)
(* late is closed (app.py lifespan, network/connect_proxy.py close_clients,*)
(* _run_with_deadline, _observe_late_connection).                          *)
ShutdownEnds ==
  /\ life \in {"leaving", "waiting"} ~> life = "stopped"
  /\ \A h \in Handlers :
       /\ h \in tasks ~> h \notin tasks
       /\ upstream[h] = "stray" ~> upstream[h] = "closed"
       /\ relay[h] = "running" ~> relay[h] = "over"
=============================================================================

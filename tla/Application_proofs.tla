-------------------------- MODULE Application_proofs --------------------------
(***************************************************************************)
(* The two ends of the application.  Its lifespan: for any number of       *)
(* connections through the proxy and any order of the failures, tunnels    *)
(* are accounted for, the extractor is answered once, and the shutdown     *)
(* reaches every handler.  Its page: for any number of groups, images and  *)
(* requests, a batch shows what happens, one image at a time is loading    *)
(* and none is lost, and cards that are gone stay quiet.                   *)
(***************************************************************************)
EXTENDS Lifespan, Frontend, Restriction_proofs, SequenceTheorems, TLAPS

HandlerTypes ==
  /\ pc \in [Handlers -> {"none", "gone"} \cup HandlerAwaits]
  /\ client \in [Handlers -> {"none", "open", "closing", "lost"}]
  /\ upstream \in [Handlers -> {"none", "opening", "open", "stray", "closed"}]
  /\ relay \in [Handlers -> {"none", "running", "winding", "over"}]
  /\ established \in [Handlers -> BOOLEAN]
  /\ replies \in [Handlers -> {<<>>, <<"200">>, <<"403">>}]
  /\ told \in [Handlers -> {"no", "now", "was"}]
  /\ tasks \subseteq Handlers

(* What the await of a handler says of its connections.                    *)
Connections(h) ==
  /\ h \in tasks <=> Running(h)
  /\ upstream[h] = "opening" => pc[h] = "connecting"
  /\ upstream[h] = "open" => pc[h] \in {"draining", "relaying"}
  /\ pc[h] \in {"closing", "gone"} => client[h] # "open"
  /\ told[h] = "was" => pc[h] \in {"closing", "gone"}

(* What it says of the answer and of the relay.                            *)
Answer(h) ==
  /\ established[h] => replies[h] = <<"200">>
  /\ pc[h] \in {"draining", "relaying"} => established[h]
  /\ pc[h] \in {"none", "reading", "validating", "connecting"} =>
       ~established[h] /\ replies[h] = <<>>
  /\ pc[h] = "refusing" => ~established[h]
  /\ relay[h] # "none" => established[h] /\ pc[h] # "draining"
  /\ relay[h] = "running" => pc[h] = "relaying"

(* What the lifespan says of all handlers.                                 *)
Phase ==
  /\ life \in {"starting", "waiting", "clearing", "stopped"} => ~listening
  /\ life = "starting" => tasks = {}
  /\ life \in {"clearing", "stopped"} => \A h \in tasks : told[h] # "no"

HandlerInv == HandlerTypes /\ \A h \in Handlers : Connections(h) /\ Answer(h)

LifespanInv == HandlerInv /\ Phase

LEMMA InitLifespanInv == Init => LifespanInv
BY DEF Init, HandlerInit, LifespanInv, HandlerInv, HandlerTypes, Connections,
       Answer, Phase, Running, HandlerAwaits

(* A step changes what belongs to one handler, and leaves it in an await   *)
(* that goes with its connections and its answer.                          *)
LEMMA HandlerStepKeeps ==
  ASSUME HandlerInv, NEW h \in Handlers, HandlerStep(h)
  PROVE  HandlerInv'
<1> USE DEF HandlerInv, HandlerTypes, Connections, Answer, Running,
            HandlerAwaits, Undisturbed, GoTo
<1>0. Append(<<>>, "200") = <<"200">> /\ Append(<<>>, "403") = <<"403">>
  OBVIOUS
<1>1. CASE RequestRead(h)
  BY <1>1 DEF RequestRead
<1>2. CASE TargetAllowed(h)
  BY <1>2 DEF TargetAllowed
<1>3. CASE RequestFails(h)
  <2>1. ~established[h] /\ replies[h] = <<>>
    BY <1>3 DEF RequestFails
  <2>2. replies' = [replies EXCEPT ![h] = Append(replies[h], "403")]
    BY <1>3, <2>1 DEF RequestFails, Refuse
  <2>3. Append(replies[h], "403") = <<"403">>
    BY <1>0, <2>1, Zenon
  <2>4. replies' = [replies EXCEPT ![h] = <<"403">>]
    BY <2>2, <2>3, Zenon
  <2>5. /\ pc[h] \in {"reading", "validating"}
        /\ pc' = [pc EXCEPT ![h] = "refusing"]
        /\ upstream' = [upstream EXCEPT ![h] = upstream[h]]
        /\ UNCHANGED <<tasks, client, established, relay, told>>
    BY <1>3, <2>1 DEF RequestFails, Refuse
  <2>6. upstream' = upstream
    BY <2>5
  <2>7. HandlerTypes'
    BY <2>4, <2>5, <2>6
  <2>8. \A k \in Handlers : Connections(k)'
    BY <2>5, <2>6
  <2>9. \A k \in Handlers : Answer(k)'
    BY <2>1, <2>4, <2>5
  <2> QED
    BY <2>7, <2>8, <2>9
<1>4. CASE ValidationBreaks(h)
  BY <1>4, SMTT(20) DEF ValidationBreaks, Finish, CloseWriters
<1>5. CASE Connected(h)
  BY <1>5, <1>0 DEF Connected
<1>6. CASE ConnectFails(h)
  <2>1. ~established[h] /\ replies[h] = <<>>
    BY <1>6 DEF ConnectFails
  <2>2. PICK up \in {"none", "stray"} : Refuse(h, up)
    BY <1>6 DEF ConnectFails
  <2>3. replies' = [replies EXCEPT ![h] = Append(replies[h], "403")]
    BY <2>1, <2>2 DEF Refuse
  <2>4. Append(replies[h], "403") = <<"403">>
    BY <1>0, <2>1, Zenon
  <2>5. replies' = [replies EXCEPT ![h] = <<"403">>]
    BY <2>3, <2>4, Zenon
  <2> QED
    BY <1>6, <2>1, <2>2, <2>5 DEF ConnectFails, Refuse
<1>7. CASE Drained(h)
  BY <1>7 DEF Drained
<1>8. CASE DrainFails(h)
  BY <1>8 DEF DrainFails, Refuse, Finish, CloseWriters
<1>9. CASE RelayReturns(h)
  BY <1>9 DEF RelayReturns, Finish, CloseWriters
<1>10. CASE RelayTimesOut(h)
  BY <1>10, SMTT(20) DEF RelayTimesOut, Finish, CloseWriters, Stopped
<1>11. CASE Refused(h)
  BY <1>11 DEF Refused, Finish, CloseWriters
<1>12. CASE WritersClosed(h)
  BY <1>12 DEF WritersClosed
<1>13. CASE Cancelled(h)
  BY <1>13, SMTT(30) DEF Cancelled, Finish, CloseWriters, Given, Stopped
<1> QED
  BY <1>1, <1>2, <1>3, <1>4, <1>5, <1>6, <1>7, <1>8, <1>9, <1>10, <1>11,
     <1>12, <1>13 DEF HandlerStep

LEMMA LoopStepKeeps ==
  ASSUME HandlerInv, NEW h \in Handlers, LoopStep(h)
  PROVE  HandlerInv'
BY DEF HandlerInv, HandlerTypes, Connections, Answer, Running, HandlerAwaits,
       LoopStep, SideCloses, RelayOver, StrayCloses, ClientLost

LEMMA AcceptKeeps ==
  ASSUME HandlerInv, NEW h \in Handlers, Accept(h)
  PROVE  HandlerInv'
BY DEF HandlerInv, HandlerTypes, Connections, Answer, Running, HandlerAwaits,
       Accept, GoTo

(* No step of a handler registers another one or takes a cancellation back.*)
LEMMA StepsRegisterNobody ==
  ASSUME HandlerInv, NEW h \in Handlers, HandlerStep(h) \/ LoopStep(h)
  PROVE  tasks' \subseteq tasks /\ \A g \in tasks' : told[g] # "no" => told'[g] # "no"
<1> USE DEF HandlerInv, HandlerTypes
<1>1. CASE LoopStep(h)
  BY <1>1 DEF LoopStep, SideCloses, RelayOver, StrayCloses, ClientLost
<1>2. CASE WritersClosed(h) \/ Cancelled(h)
  BY <1>2 DEF WritersClosed, Cancelled, Finish
<1>3. CASE HandlerStep(h) /\ ~(WritersClosed(h) \/ Cancelled(h))
  BY <1>3 DEF HandlerStep, RequestRead, TargetAllowed, RequestFails,
     ValidationBreaks, Connected, ConnectFails, Drained, DrainFails,
     RelayReturns, RelayTimesOut, Refused, Refuse, Finish
<1> QED
  BY <1>1, <1>2, <1>3

LEMMA CloseClientsKeeps ==
  ASSUME LifespanInv, CloseClients, ~listening, ~listening'
  PROVE  LifespanInv'
BY DEF LifespanInv, HandlerInv, HandlerTypes, Connections, Answer, Phase,
       Running, HandlerAwaits, CloseClients

LEMMA LifespanStep == LifespanInv /\ [Next]_vars => LifespanInv'
<1> SUFFICES ASSUME LifespanInv, [Next]_vars PROVE LifespanInv'
  OBVIOUS
<1> USE DEF LifespanInv
<1>1. ASSUME UNCHANGED handlerVars PROVE HandlerInv'
  BY <1>1 DEF handlerVars, HandlerInv, HandlerTypes, Connections, Answer,
     Running
<1>2. ASSUME NEW h \in Handlers, Accepts(h) PROVE LifespanInv'
  <2>1. HandlerInv'
    BY <1>2, AcceptKeeps DEF Accepts
  <2>2. Phase'
    BY <1>2 DEF Accepts, Phase, lifeVars
  <2> QED
    BY <2>1, <2>2
<1>3. ASSUME NEW h \in Handlers, HandlerStep(h) \/ LoopStep(h),
             UNCHANGED lifeVars
      PROVE  LifespanInv'
  <2>1. HandlerInv'
    BY <1>3, HandlerStepKeeps, LoopStepKeeps
  <2>2. tasks' \subseteq tasks /\ \A g \in tasks' : told[g] # "no" => told'[g] # "no"
    BY <1>3, StepsRegisterNobody
  <2>3. Phase'
    BY <1>3, <2>2 DEF Phase, lifeVars
  <2> QED
    BY <2>1, <2>3
<1>4. CASE Starting
  <2>1. UNCHANGED handlerVars
    BY <1>4 DEF Starting, ProxyServes, ProxyFails, McpStarts, McpFails, Stop,
       Shut
  <2>2. Phase'
    BY <1>4, <2>1 DEF Starting, ProxyServes, ProxyFails, McpStarts, McpFails,
       Stop, Shut, Phase, handlerVars
  <2> QED
    BY <1>1, <2>1, <2>2
<1>5. CASE McpStops \/ ClientsClosed
  <2>1. UNCHANGED handlerVars
    BY <1>5 DEF McpStops, ClientsClosed, Shut
  <2>2. Phase'
    BY <1>5, <2>1 DEF McpStops, ClientsClosed, Shut, Phase, handlerVars
  <2> QED
    BY <1>1, <2>1, <2>2
<1>6. CASE ServerClosed \/ WaitTimesOut
  BY <1>6, CloseClientsKeeps DEF ServerClosed, WaitTimesOut, Phase
<1>7. CASE UNCHANGED vars
  BY <1>1, <1>7 DEF vars, handlerVars, lifeVars, Phase
<1> QED
  BY <1>2, <1>3, <1>4, <1>5, <1>6, <1>7 DEF Next, Stopping

(* The invariant holds of the application.                                 *)
THEOREM LifespanInvariant == Spec => []LifespanInv
BY InitLifespanInv, LifespanStep, PTL DEF Spec

(* Whatever times out, fails or is cancelled, an open tunnel belongs to a  *)
(* registered handler, and one that is gone leaves nothing open.           *)
THEOREM TunnelsAccounted == Spec => []TunnelsAreAccounted
<1>1. LifespanInv => TunnelsAreAccounted
  BY DEF LifespanInv, HandlerInv, Connections, Answer, TunnelsAreAccounted,
         Running, HandlerAwaits
<1> QED
  BY <1>1, LifespanInvariant, PTL

(* No 403 follows a 200, and nothing is relayed without one.               *)
THEOREM AnsweredOnce == Spec => []AnswersOnce
<1>1. LifespanInv => AnswersOnce
  <2> SUFFICES ASSUME LifespanInv, NEW h \in Handlers
               PROVE  /\ Len(replies[h]) <= 1
                      /\ relay[h] # "none" => replies[h] = <<"200">>
    BY DEF AnswersOnce
  <2>1. replies[h] \in {<<>>, <<"200">>, <<"403">>}
    BY DEF LifespanInv, HandlerInv, HandlerTypes
  <2>2. Len(<<>>) <= 1 /\ Len(<<"200">>) <= 1 /\ Len(<<"403">>) <= 1
    OBVIOUS
  <2>3. Len(replies[h]) <= 1
    BY <2>1, <2>2, Zenon
  <2>4. relay[h] # "none" => replies[h] = <<"200">>
    BY DEF LifespanInv, HandlerInv, Answer
  <2> QED
    BY <2>3, <2>4
<1> QED
  BY <1>1, LifespanInvariant, PTL

(* When the lifespan is over, nothing is accepted any more and every       *)
(* handler that still runs has been told to stop.                          *)
THEOREM ShutdownReached == Spec => []ShutdownReachesAll
<1>1. LifespanInv => ShutdownReachesAll
  BY DEF LifespanInv, HandlerInv, HandlerTypes, Connections, Phase,
         ShutdownReachesAll, Running, HandlerAwaits
<1> QED
  BY <1>1, LifespanInvariant, PTL

-----------------------------------------------------------------------------
(* The batch and the active request.                                       *)

Statuses == {"pending", "running", "success", "error", "stopped"}

RunTypes ==
  /\ extractionGeneration \in Nat
  /\ activeExtraction.purpose \in {"none", "single", "batch", "group"}
  /\ run \in [active : BOOLEAN, generation : Nat, stopped : BOOLEAN,
              items : Seq(Statuses)]

(* Item i of an active run is the one that runs.                           *)
RunsAt(i) ==
  /\ i \in DOMAIN run.items
  /\ run.items[i] = "running"
  /\ \A j \in 1..(i - 1) : run.items[j] \in {"success", "error"}
  /\ \A j \in (i + 1)..Len(run.items) :
       run.items[j] = IF run.stopped THEN "stopped" ELSE "pending"

(* While a run is active no other request starts, so that the generation   *)
(* stays the one of the run.                                               *)
RunInv ==
  /\ RunTypes
  /\ run.active <=> activeExtraction.purpose = "batch"
  /\ run.active =>
       /\ run.generation = extractionGeneration
       /\ \E i \in DOMAIN run.items : RunsAt(i)
  /\ ~run.active =>
       \A i \in DOMAIN run.items : run.items[i] \in {"success", "error", "stopped"}

(* What the run invariant says of the batch.                               *)
LEMMA RunTells == RunInv => BatchTellsTheTruth
BY DEF RunInv, RunTypes, RunsAt, BatchTellsTheTruth

(* No run has been started at first.                                       *)
LEMMA InitRunInv == PageInit => RunInv
BY DEF PageInit, NoRun, NoExtraction, RunInv, RunTypes, Statuses

(* The item whose request is under way is the one that runs.               *)
LEMMA CurrentRuns ==
  ASSUME RunTypes, NEW i \in Nat, RunsAt(i)
  PROVE  Current = i
<1>1. \A j \in DOMAIN run.items : run.items[j] = "running" => j = i
  <2> TAKE j \in DOMAIN run.items
  <2> HAVE run.items[j] = "running"
  <2>1. DOMAIN run.items = 1..Len(run.items) /\ Len(run.items) \in Nat /\ j \in Nat
    BY DEF RunTypes
  <2>2. ~(j < i) /\ ~(j > i)
    BY <2>1 DEF RunsAt
  <2> QED
    BY <2>1, <2>2
<1> QED
  BY <1>1 DEF Current, RunsAt

(* An answer settles the item that runs and starts the next, or ends the   *)
(* run.                                                                    *)
LEMMA AnsweredKeepsRun ==
  ASSUME RunInv, NEW ok \in BOOLEAN, NEW n \in 0..MaxPreviews, BatchAnswered(ok, n)
  PROVE  RunInv'
<1>1. run.active /\ run.generation = extractionGeneration
  BY DEF BatchAnswered, RunInv
<1>2. PICK i \in Nat : RunsAt(i)
  BY <1>1 DEF RunInv, RunTypes
<1>3. Current = i
  BY <1>2, CurrentRuns DEF RunInv
<1> DEFINE status == IF ok THEN "success" ELSE "error"
           items == [run.items EXCEPT ![i] = status]
<1>4. Continue(items, i) /\ extractionGeneration' = extractionGeneration
      /\ activeExtraction.purpose = "batch"
  BY <1>1, <1>3 DEF BatchAnswered
<1>5. /\ run.items \in Seq(Statuses) /\ Len(run.items) \in Nat
      /\ DOMAIN run.items = 1..Len(run.items) /\ i \in 1..Len(run.items)
  BY <1>2 DEF RunInv, RunTypes, RunsAt
<1>6. /\ items \in Seq(Statuses) /\ Len(items) = Len(run.items)
      /\ DOMAIN items = 1..Len(run.items)
      /\ \A j \in 1..Len(run.items) : items[j] = IF j = i THEN status ELSE run.items[j]
  BY <1>5 DEF Statuses
<1>7. \A j \in 1..i : items[j] \in {"success", "error"}
  BY <1>2, <1>5, <1>6 DEF RunsAt
<1>8. \A j \in (i + 1)..Len(items) :
         items[j] = IF run.stopped THEN "stopped" ELSE "pending"
  BY <1>2, <1>5, <1>6 DEF RunsAt
<1> HIDE DEF items
<1>9. CASE run.stopped \/ i = Len(items)
  <2> DEFINE left == IF run.stopped THEN StopPending(items) ELSE items
  <2>1. /\ run' = [run EXCEPT !.active = FALSE, !.items = left]
        /\ activeExtraction' = NoExtraction
    BY <1>4, <1>9 DEF Continue
  <2>2. /\ left \in Seq(Statuses) /\ Len(left) = Len(items)
        /\ \A j \in DOMAIN left : left[j] \in {"success", "error", "stopped"}
    <3>1. CASE run.stopped
      <4>1. left = StopPending(items)
        BY <3>1
      <4>2. /\ DOMAIN left = 1..Len(items)
            /\ \A j \in 1..Len(items) :
                 left[j] = IF items[j] = "pending" THEN "stopped" ELSE items[j]
        BY <4>1, <1>6 DEF StopPending
      <4>3. left = [j \in 1..Len(items) |-> left[j]]
        BY <4>1, <1>6 DEF StopPending
      <4> HIDE DEF left
      <4>4. \A j \in 1..Len(items) : left[j] \in {"success", "error", "stopped"}
        <5> TAKE j \in 1..Len(items)
        <5>1. j \in 1..i \/ j \in (i + 1)..Len(items)
          BY <1>5, <1>6
        <5>2. items[j] \in {"success", "error"} \/ items[j] = "stopped"
          BY <5>1, <1>7, <1>8, <3>1
        <5>3. left[j] = IF items[j] = "pending" THEN "stopped" ELSE items[j]
          BY <4>2
        <5> QED
          BY <5>2, <5>3
      <4>5. \A j \in 1..Len(items) : left[j] \in Statuses
        BY <4>4 DEF Statuses
      <4>6. Len(items) \in Nat
        BY <1>5, <1>6
      <4>7. left \in Seq(Statuses) /\ Len(left) = Len(items)
        BY <4>2, <4>3, <4>5, <4>6
      <4> QED
        BY <4>2, <4>4, <4>7
    <3>2. CASE ~run.stopped
      BY <3>2, <1>5, <1>6, <1>7, <1>9
    <3> QED
      BY <3>1, <3>2
  <2> HIDE DEF left
  <2>3. /\ run' \in [active : BOOLEAN, generation : Nat, stopped : BOOLEAN,
                     items : Seq(Statuses)]
        /\ run'.active = FALSE /\ run'.items = left
    BY <2>1, <2>2 DEF RunInv, RunTypes
  <2> QED
    BY <2>1, <2>2, <2>3, <1>4 DEF RunInv, RunTypes, NoExtraction
<1>10. CASE ~(run.stopped \/ i = Len(items))
  <2> DEFINE next == [items EXCEPT ![i + 1] = "running"]
  <2>1. run' = [run EXCEPT !.items = next] /\ activeExtraction' = activeExtraction
    BY <1>4, <1>10 DEF Continue
  <2>2. i + 1 \in 1..Len(items)
    BY <1>5, <1>6, <1>10
  <2>3. /\ next \in Seq(Statuses) /\ Len(next) = Len(items)
        /\ DOMAIN next = 1..Len(items)
        /\ \A j \in 1..Len(items) : next[j] = IF j = i + 1 THEN "running" ELSE items[j]
    BY <1>5, <1>6, <2>2 DEF Statuses
  <2> HIDE DEF next
  <2>4. /\ run' \in [active : BOOLEAN, generation : Nat, stopped : BOOLEAN,
                     items : Seq(Statuses)]
        /\ run'.active = run.active /\ run'.items = next /\ run'.stopped = run.stopped
        /\ run'.generation = run.generation
    BY <2>1, <2>3 DEF RunInv, RunTypes
  <2>5. RunsAt(i + 1)'
    <3>1. \A j \in 1..((i + 1) - 1) : next[j] \in {"success", "error"}
      BY <1>5, <1>6, <1>7, <2>3
    <3>2. \A j \in ((i + 1) + 1)..Len(next) : next[j] = "pending"
      <4> TAKE j \in ((i + 1) + 1)..Len(next)
      <4>1. j \in 1..Len(items) /\ j \in (i + 1)..Len(items) /\ j # i + 1
        BY <1>5, <1>6, <2>3
      <4>2. items[j] = "pending"
        BY <4>1, <1>8, <1>10
      <4>3. next[j] = items[j]
        BY <4>1, <2>3
      <4> QED
        BY <4>2, <4>3
    <3> QED
      BY <3>1, <3>2, <2>2, <2>3, <2>4, <1>10 DEF RunsAt
  <2>6. i + 1 \in DOMAIN run'.items
    BY <2>5 DEF RunsAt
  <2> QED
    BY <2>1, <2>4, <2>5, <2>6, <1>1, <1>4 DEF RunInv, RunTypes
<1> QED
  BY <1>9, <1>10

(* A stop takes what is pending and leaves what runs.                      *)
LEMMA StopKeepsRun ==
  ASSUME RunInv, StopBatch
  PROVE  RunInv'
<1>1. run.active /\ ~run.stopped
  BY DEF StopBatch
<1>2. PICK i \in Nat : RunsAt(i)
  BY <1>1 DEF RunInv, RunTypes
<1> DEFINE items == StopPending(run.items)
<1>3. /\ run.items \in Seq(Statuses) /\ Len(run.items) \in Nat
      /\ DOMAIN run.items = 1..Len(run.items) /\ i \in 1..Len(run.items)
  BY <1>2 DEF RunInv, RunTypes, RunsAt
<1>4. /\ items = [j \in 1..Len(run.items) |-> items[j]]
      /\ \A j \in 1..Len(run.items) :
           items[j] = IF run.items[j] = "pending" THEN "stopped" ELSE run.items[j]
  BY <1>3 DEF StopPending
<1> HIDE DEF items
<1>5. \A j \in 1..Len(run.items) : items[j] \in Statuses
  <2> TAKE j \in 1..Len(run.items)
  <2>1. run.items[j] \in Statuses
    BY <1>3
  <2> QED
    BY <2>1, <1>4 DEF Statuses
<1>6. items \in Seq(Statuses) /\ DOMAIN items = 1..Len(run.items)
      /\ Len(items) = Len(run.items)
  BY <1>3, <1>4, <1>5
<1>7. /\ run' = [run EXCEPT !.stopped = TRUE, !.items = items]
      /\ UNCHANGED <<extractionGeneration, activeExtraction>>
  BY DEF StopBatch, items
<1>8. /\ run' \in [active : BOOLEAN, generation : Nat, stopped : BOOLEAN,
                   items : Seq(Statuses)]
      /\ run'.active = run.active /\ run'.items = items /\ run'.stopped = TRUE
      /\ run'.generation = run.generation
  BY <1>6, <1>7 DEF RunInv, RunTypes
<1>9. RunsAt(i)'
  <2>1. items[i] = "running"
    BY <1>2, <1>3, <1>4 DEF RunsAt
  <2>2. \A j \in 1..(i - 1) : items[j] \in {"success", "error"}
    <3> TAKE j \in 1..(i - 1)
    <3>1. j \in 1..Len(run.items) /\ run.items[j] \in {"success", "error"}
      BY <1>2, <1>3 DEF RunsAt
    <3> QED
      BY <3>1, <1>4
  <2>3. \A j \in (i + 1)..Len(items) : items[j] = "stopped"
    <3> TAKE j \in (i + 1)..Len(items)
    <3>1. j \in 1..Len(run.items) /\ j \in (i + 1)..Len(run.items)
      BY <1>3, <1>6
    <3>2. run.items[j] = "pending"
      BY <3>1, <1>1, <1>2 DEF RunsAt
    <3> QED
      BY <3>1, <3>2, <1>4
  <2> QED
    BY <2>1, <2>2, <2>3, <1>3, <1>6, <1>8 DEF RunsAt
<1>10. i \in DOMAIN run'.items
  BY <1>9 DEF RunsAt
<1> QED
  BY <1>1, <1>7, <1>8, <1>9, <1>10 DEF RunInv, RunTypes

(* A batch starts with its first item.                                     *)
LEMMA BatchStartsRun ==
  ASSUME RunInv, NEW size \in 1..MaxBatch, AnalyzeBatch(size)
  PROVE  RunInv'
<1> DEFINE items == [i \in 1..size |-> IF i = 1 THEN "running" ELSE "pending"]
<1>1. size \in Nat /\ size >= 1
  BY PageAssumption
<1>2. items \in Seq(Statuses) /\ DOMAIN items = 1..size /\ Len(items) = size
  BY <1>1 DEF Statuses
<1>3. items[1] = "running" /\ \A j \in 2..size : items[j] = "pending"
  BY <1>1
<1>4. run' = [active |-> TRUE, generation |-> extractionGeneration + 1,
              stopped |-> FALSE, items |-> items]
      /\ extractionGeneration' = extractionGeneration + 1
      /\ activeExtraction'.purpose = "batch"
  BY DEF AnalyzeBatch
<1> HIDE DEF items
<1>5. /\ run' \in [active : BOOLEAN, generation : Nat, stopped : BOOLEAN,
                   items : Seq(Statuses)]
      /\ run'.active = TRUE /\ run'.items = items /\ run'.stopped = FALSE
      /\ run'.generation = extractionGeneration + 1
  BY <1>2, <1>4 DEF RunInv, RunTypes
<1>6. RunsAt(1)'
  BY <1>1, <1>2, <1>3, <1>5 DEF RunsAt
<1>7. 1 \in DOMAIN run'.items
  BY <1>6 DEF RunsAt
<1> QED
  BY <1>4, <1>5, <1>6, <1>7 DEF RunInv, RunTypes

(* What does not touch the run may only end or start other requests.       *)
LEMMA RunStays ==
  ASSUME RunInv, UNCHANGED <<run, extractionGeneration>>, activeExtraction'.purpose \in
           {"none", "single", "group"} \/ UNCHANGED activeExtraction,
         run.active => UNCHANGED activeExtraction
  PROVE  RunInv'
BY DEF RunInv, RunTypes, RunsAt

(* Every step of the page keeps the run invariant.                         *)
LEMMA StepKeepsRun ==
  ASSUME RunInv, [PageNext]_pageVars
  PROVE  RunInv'
<1>1. CASE Analyze
  <2>1. ~run.active /\ UNCHANGED run
        /\ extractionGeneration' = extractionGeneration + 1
        /\ activeExtraction'.purpose = "single"
    BY <1>1 DEF Analyze, Locked
  <2> QED
    BY <2>1 DEF RunInv, RunTypes
<1>2. CASE \E size \in 1..MaxBatch : AnalyzeBatch(size)
  BY <1>2, BatchStartsRun
<1>3. CASE StopBatch
  BY <1>3, StopKeepsRun
<1>4. CASE \E g \in DOMAIN preview.group : ReAnalyzeGroup(g)
  <2>1. ~run.active /\ UNCHANGED <<run, extractionGeneration>>
        /\ activeExtraction'.purpose = "group"
    BY <1>4 DEF ReAnalyzeGroup, Locked
  <2> QED
    BY <2>1, RunStays
<1>5. ASSUME NEW ok \in BOOLEAN, NEW n \in 0..MaxPreviews,
             SingleAnswered(ok, n) \/ BatchAnswered(ok, n) \/ GroupAnswered(ok, n)
      PROVE  RunInv'
  <2>1. CASE SingleAnswered(ok, n)
    <3>1. ~run.active /\ UNCHANGED <<run, extractionGeneration>>
          /\ activeExtraction'.purpose = "none"
      BY <2>1 DEF SingleAnswered, NoExtraction, RunInv
    <3> QED
      BY <3>1, RunStays
  <2>2. CASE BatchAnswered(ok, n)
    BY <2>2, AnsweredKeepsRun
  <2>3. CASE GroupAnswered(ok, n)
    <3>1. ~run.active /\ UNCHANGED <<run, extractionGeneration>>
          /\ activeExtraction'.purpose = "none"
      BY <2>3 DEF GroupAnswered, NoExtraction, RunInv
    <3> QED
      BY <3>1, RunStays
  <2> QED
    BY <1>5, <2>1, <2>2, <2>3
<1>6. CASE \E e \in DOMAIN preview.entry :
             RetryTimer(e) \/ \E loaded \in BOOLEAN : ImageEvent(e, loaded)
  <2>1. UNCHANGED <<run, extractionGeneration, activeExtraction>>
    BY <1>6 DEF RetryTimer, ImageEvent, analysisVars
  <2> QED
    BY <2>1, RunStays
<1>7. CASE UNCHANGED pageVars
  <2>1. UNCHANGED <<run, extractionGeneration, activeExtraction>>
    BY <1>7 DEF pageVars, analysisVars
  <2> QED
    BY <2>1, RunStays
<1> QED
  BY <1>1, <1>2, <1>3, <1>4, <1>5, <1>6, <1>7 DEF PageNext, Progress, Answered

(* For any batch, any answers and a stop at any moment, what the page      *)
(* shows of each item of a batch is what happened to it (static/app.js     *)
(* analyzeBatch, stopBatch).                                               *)
THEOREM BatchesTellTheTruth == PageSpec => []BatchTellsTheTruth
<1>1. PageSpec => []RunInv
  BY InitRunInv, StepKeepsRun, PTL DEF PageSpec
<1> QED
  BY <1>1, RunTells, PTL

-----------------------------------------------------------------------------
(* The preview queue.                                                      *)

EntryType ==
  [group : Nat, generation : Nat, groupGeneration : Nat, attempts : Nat,
   visual : {"image", "fallback"}, load : {"idle", "loading", "late", "loaded"}]

GroupType == [generation : Nat, images : SUBSET Nat, shown : BOOLEAN]

PreviewTypes(p) ==
  /\ p \in [generation : Nat, queue : Seq(Nat), active : Nat \cup {NoEntry},
            timers : SUBSET Nat, entry : Seq(EntryType), group : Seq(GroupType)]
  /\ \A i \in DOMAIN p.queue : p.queue[i] \in DOMAIN p.entry
  /\ p.active # NoEntry => p.active \in DOMAIN p.entry
  /\ p.timers \subseteq DOMAIN p.entry
  /\ \A e \in DOMAIN p.entry : p.entry[e].group \in DOMAIN p.group
  /\ \A g \in DOMAIN p.group : p.group[g].images \subseteq DOMAIN p.entry

(* Being active, queued and to be retried exclude each other, and there is *)
(* an attempt left for what is queued or to be retried.                    *)
Placed(p) ==
  /\ \A i, j \in DOMAIN p.queue : p.queue[i] = p.queue[j] => i = j
  /\ \A i \in DOMAIN p.queue : p.queue[i] # p.active /\ p.queue[i] \notin p.timers
  /\ p.active \notin p.timers
  /\ \A i \in DOMAIN p.queue : p.entry[p.queue[i]].attempts < MaxAttempts
  /\ \A e \in p.timers : p.entry[e].attempts < MaxAttempts

Waits(p, e) ==
  p.active = e \/ e \in p.timers \/ \E i \in DOMAIN p.queue : p.queue[i] = e

(* What is known of one entry: a card on the page has not been outdated by *)
(* a generation, an image that lost its source belongs to no such card,    *)
(* and what is still to be loaded waits in one of the places.              *)
EntryFacts(p, e) ==
  /\ p.entry[e].attempts <= MaxAttempts
  /\ p.entry[e].load = "loading" <=> p.active = e
  /\ p.active = e => IsCurrent(p, e)
  /\ p.entry[e].load = "late" => Superseded(p, e)
  /\ ~Superseded(p, e) =>
       /\ p.entry[e].generation = p.generation
       /\ p.entry[e].groupGeneration = p.group[p.entry[e].group].generation
  /\ ~Superseded(p, e) /\ p.entry[e].visual = "image" /\ p.entry[e].load # "loaded" =>
       Waits(p, e)

QueueInv(p) ==
  /\ PreviewTypes(p)
  /\ Placed(p)
  /\ \A e \in DOMAIN p.entry : EntryFacts(p, e)

Pumped(p) == p.queue # <<>> => p.active # NoEntry

(* The group that is analysed again is one of the page.                    *)
GroupKnown ==
  activeExtraction.purpose = "group" => activeExtraction.group \in DOMAIN preview.group

PreviewsInv == QueueInv(preview) /\ Pumped(preview) /\ GroupKnown

(* What SupersededStaysQuiet says of a step from p to q, which loses no    *)
(* entry and no group.                                                     *)
Quiet(p, q) ==
  /\ DOMAIN p.group \subseteq DOMAIN q.group
  /\ \A e \in DOMAIN p.entry :
       /\ e \in DOMAIN q.entry
       /\ Superseded(p, e) =>
            /\ Superseded(q, e)
            /\ q.entry[e].attempts = p.entry[e].attempts
            /\ q.entry[e].visual = p.entry[e].visual

(* Two quiet steps are one.                                                *)
LEMMA QuietTwice ==
  ASSUME NEW p, NEW q, NEW r, Quiet(p, q), Quiet(q, r)
  PROVE  Quiet(p, r)
BY DEF Quiet

(* The queue invariant is what the property asks.                          *)
LEMMA OneIsLoading == PreviewsInv => OnePreviewAtATime
<1> SUFFICES ASSUME PreviewsInv
             PROVE  OnePreviewAtATime
  OBVIOUS
<1> DEFINE p == preview
           At(e) == {i \in DOMAIN p.queue : p.queue[i] = e}
           Held(e) ==
             (IF p.active = e THEN 1 ELSE 0) + (IF e \in p.timers THEN 1 ELSE 0)
             + Cardinality(At(e))
<1>1. PreviewTypes(p) /\ Placed(p) /\ Pumped(p)
      /\ \A e \in DOMAIN p.entry : EntryFacts(p, e)
  BY DEF PreviewsInv, QueueInv
<1>2. \A e \in DOMAIN p.entry : Unsettled(e) => Held(e) = 1
  <2> SUFFICES ASSUME NEW e \in DOMAIN p.entry, Unsettled(e)
               PROVE  Held(e) = 1
    OBVIOUS
  <2>1. Waits(p, e)
    BY <1>1 DEF Unsettled, EntryFacts
  <2>2. CASE \E i \in DOMAIN p.queue : p.queue[i] = e
    <3> PICK i \in DOMAIN p.queue : p.queue[i] = e
      BY <2>2
    <3>1. At(e) = {i} /\ p.active # e /\ e \notin p.timers
      BY <1>1 DEF Placed
    <3>2. Cardinality(At(e)) = 1
      BY <3>1, FS_Singleton
    <3> QED
      BY <3>1, <3>2
  <2>3. CASE ~\E i \in DOMAIN p.queue : p.queue[i] = e
    <3>1. At(e) = {}
      BY <2>3
    <3>2. Cardinality(At(e)) = 0
      BY <3>1, FS_EmptySet
    <3>3. p.active = e <=> e \notin p.timers
      BY <1>1, <2>1, <2>3 DEF Placed, Waits
    <3> QED
      BY <3>2, <3>3
  <2> QED
    BY <2>2, <2>3
<1>3. \A e \in DOMAIN p.entry :
        /\ p.entry[e].load = "loading" <=> p.active = e
        /\ p.entry[e].attempts <= MaxAttempts
        /\ p.active = e => ~Superseded(p, e)
  BY <1>1 DEF EntryFacts, IsCurrent, Superseded
<1> QED
  BY <1>1, <1>2, <1>3 DEF OnePreviewAtATime, Pumped

(* Cards that stay as they are: only places, loads and attempts change.    *)
SameCards(p, q) ==
  /\ q.group = p.group /\ q.generation = p.generation
  /\ DOMAIN q.entry = DOMAIN p.entry
  /\ \A e \in DOMAIN p.entry :
       /\ q.entry[e].group = p.entry[e].group
       /\ q.entry[e].generation = p.entry[e].generation
       /\ q.entry[e].groupGeneration = p.entry[e].groupGeneration
       /\ q.entry[e].visual = p.entry[e].visual

(* Then the same entries are current and the same are superseded.          *)
LEMMA SameCardsSame ==
  ASSUME NEW p, NEW q, SameCards(p, q), NEW e \in DOMAIN p.entry
  PROVE  /\ IsCurrent(q, e) <=> IsCurrent(p, e)
         /\ Superseded(q, e) <=> Superseded(p, e)
BY DEF SameCards, IsCurrent, Superseded

(* With the invariant, an entry is current if its card is on the page and  *)
(* shows an image.                                                         *)
LEMMA CurrentMeans ==
  ASSUME NEW p, NEW e, EntryFacts(p, e)
  PROVE  IsCurrent(p, e) <=> ~Superseded(p, e) /\ p.entry[e].visual = "image"
BY DEF EntryFacts, IsCurrent, Superseded

-----------------------------------------------------------------------------
(* pumpPreviewQueue.                                                       *)

Started(p, l) ==
  [p EXCEPT !.queue = SubSeq(p.queue, l + 1, Len(p.queue)),
            !.active = p.queue[l],
            !.entry[p.queue[l]].attempts = @ + 1,
            !.entry[p.queue[l]].load = "loading"]

(* A set of positions has a least one, and Min finds it.                   *)
LEMMA LeastPosition ==
  ASSUME NEW n \in Nat, NEW P \in SUBSET (1..n), P # {}
  PROVE  Min(P) \in P /\ \A i \in P : Min(P) <= i
<1>1. Cardinality(P) \in 0..n /\ Cardinality(P) # 0
  BY Places, FS_EmptySet
<1>2. 1 \in 1..Cardinality(P)
  BY <1>1
<1>3. PICK k \in P : Place(P, k) = 1
  BY <1>2, Places
<1>4. \A i \in P : ~(i < k)
  <2> TAKE i \in P
  <2> SUFFICES ASSUME i < k
               PROVE  FALSE
    OBVIOUS
  <2>1. Place(P, i) < Place(P, k) /\ Place(P, i) \in 1..Cardinality(P)
    BY Places
  <2> QED
    BY <1>1, <1>3, <2>1
<1>5. \A i \in P : k <= i
  BY <1>4
<1> QED
  BY <1>5 DEF Min

(* Nothing to do, nothing to start, or the first current entry is started. *)
LEMMA PumpCases ==
  ASSUME NEW p, PreviewTypes(p)
  PROVE  \/ p.active # NoEntry /\ Pump(p) = p
         \/ /\ p.active = NoEntry /\ Pump(p) = [p EXCEPT !.queue = <<>>]
            /\ \A i \in 1..Len(p.queue) : ~IsCurrent(p, p.queue[i])
         \/ \E l \in 1..Len(p.queue) :
              /\ p.active = NoEntry /\ Pump(p) = Started(p, l)
              /\ IsCurrent(p, p.queue[l])
              /\ \A i \in 1..(l - 1) : ~IsCurrent(p, p.queue[i])
<1> DEFINE I == {i \in 1..Len(p.queue) : IsCurrent(p, p.queue[i])}
           live == IF I # {} THEN Min(I) ELSE 0
<1>1. Len(p.queue) \in Nat
  BY DEF PreviewTypes
<1>2. Pump(p) = IF p.active # NoEntry THEN p
                ELSE IF live = 0 THEN [p EXCEPT !.queue = <<>>]
                ELSE Started(p, live)
  BY DEF Pump, SelectInSeq, Started
<1>3. CASE p.active # NoEntry
  BY <1>2, <1>3
<1>4. CASE p.active = NoEntry /\ I = {}
  BY <1>2, <1>4
<1>5. CASE p.active = NoEntry /\ I # {}
  <2>1. I \in SUBSET (1..Len(p.queue))
    OBVIOUS
  <2>2. live \in I /\ \A i \in I : live <= i
    BY <1>1, <1>5, <2>1, LeastPosition
  <2>3. live \in 1..Len(p.queue) /\ live # 0 /\ IsCurrent(p, p.queue[live])
    BY <2>2
  <2>4. \A i \in 1..(live - 1) : ~IsCurrent(p, p.queue[i])
    <3> TAKE i \in 1..(live - 1)
    <3>1. live \in 1..Len(p.queue)
      BY <2>3
    <3> HIDE DEF live
    <3>2. i \in 1..Len(p.queue) /\ ~(live <= i)
      BY <1>1, <3>1
    <3> QED
      BY <2>2, <3>2
  <2>5. Pump(p) = Started(p, live)
    BY <1>2, <1>5, <2>3
  <2> HIDE DEF live
  <2> QED
    BY <1>5, <2>3, <2>4, <2>5
<1> QED
  BY <1>3, <1>4, <1>5

(* The state after an entry was started, field by field.                   *)
LEMMA StartedFields ==
  ASSUME NEW p, PreviewTypes(p), NEW l \in 1..Len(p.queue)
  PROVE  LET q == Started(p, l)  x == p.queue[l] IN
         /\ x \in DOMAIN p.entry /\ DOMAIN q.entry = DOMAIN p.entry
         /\ q.generation = p.generation /\ q.group = p.group /\ q.timers = p.timers
         /\ q.active = x
         /\ Len(q.queue) = Len(p.queue) - l
         /\ \A i \in 1..Len(q.queue) : q.queue[i] = p.queue[l + i]
         /\ \A e \in DOMAIN p.entry : e # x => q.entry[e] = p.entry[e]
         /\ q.entry[x] = [p.entry[x] EXCEPT !.attempts = @ + 1, !.load = "loading"]
         /\ q \in [generation : Nat, queue : Seq(Nat), active : Nat \cup {NoEntry},
                   timers : SUBSET Nat, entry : Seq(EntryType),
                   group : Seq(GroupType)]
<1> DEFINE x == p.queue[l]
           y == [p.entry[x] EXCEPT !.attempts = @ + 1, !.load = "loading"]
           entries == [p.entry EXCEPT ![x] = y]
           rest == SubSeq(p.queue, l + 1, Len(p.queue))
           q == Started(p, l)
<1>1. /\ Len(p.queue) \in Nat /\ p.queue \in Seq(Nat)
      /\ x \in DOMAIN p.entry /\ x \in Nat /\ p.entry \in Seq(EntryType)
  BY DEF PreviewTypes
<1>2. p.entry[x] \in EntryType
  BY <1>1
<1>3. y \in EntryType
  <2>1. \A c \in EntryType : [c EXCEPT !.attempts = @ + 1, !.load = "loading"] \in EntryType
    <3> TAKE c \in EntryType
    <3>1. c.attempts + 1 \in Nat
      BY DEF EntryType
    <3>2. \A k \in Nat : [c EXCEPT !.attempts = k, !.load = "loading"] \in EntryType
      BY DEF EntryType
    <3> QED
      BY <3>1, <3>2
  <2> QED
    BY <1>2, <2>1
<1> HIDE DEF y
<1>4. /\ entries \in Seq(EntryType) /\ DOMAIN entries = DOMAIN p.entry
      /\ entries[x] = y /\ \A e \in DOMAIN p.entry : e # x => entries[e] = p.entry[e]
  BY <1>1, <1>3
<1>5. /\ rest \in Seq(Nat) /\ Len(rest) = Len(p.queue) - l
      /\ \A i \in 1..Len(rest) : rest[i] = p.queue[l + i]
  <2>1. l + 1 \in 1..(Len(p.queue) + 1) /\ l \in Nat
    BY <1>1
  <2>2. rest \in Seq(Nat) /\ Len(rest) = Len(p.queue) - l
    BY <1>1, <2>1
  <2>3. \A i \in 1..Len(rest) : rest[i] = p.queue[l + i]
    BY <1>1, <2>1, <2>2
  <2> QED
    BY <2>2, <2>3
<1> HIDE DEF entries, rest, x
<1>6. q = [p EXCEPT !.queue = rest, !.active = x, !.entry = entries]
  <2>1. p = [generation |-> p.generation, queue |-> p.queue, active |-> p.active,
             timers |-> p.timers, entry |-> p.entry, group |-> p.group]
    BY DEF PreviewTypes
  <2>2. [p.entry EXCEPT ![x] = [[p.entry[x] EXCEPT !.attempts = @ + 1]
                                  EXCEPT !.load = "loading"]] = entries
    BY <1>1, <1>2 DEF entries, y, EntryType
  <2> QED
    BY <1>1, <1>2, <2>1, <2>2 DEF Started, rest, x, entries, y
<1> HIDE DEF q
<1>7. q \in [generation : Nat, queue : Seq(Nat), active : Nat \cup {NoEntry},
             timers : SUBSET Nat, entry : Seq(EntryType), group : Seq(GroupType)]
      /\ q.queue = rest /\ q.active = x /\ q.entry = entries
      /\ q.generation = p.generation /\ q.group = p.group /\ q.timers = p.timers
  BY <1>1, <1>4, <1>5, <1>6 DEF PreviewTypes
<1> QED
  BY <1>1, <1>4, <1>5, <1>7 DEF q, x, y

(* No entry is NoEntry, and only entries are to be retried.                *)
LEMMA EntriesAreEntries ==
  ASSUME NEW p, PreviewTypes(p)
  PROVE  NoEntry \notin DOMAIN p.entry /\ p.timers \subseteq DOMAIN p.entry
<1>1. p.entry \in Seq(EntryType)
  BY DEF PreviewTypes
<1>2. DOMAIN p.entry \subseteq Nat \ {0}
  BY <1>1
<1> QED
  BY <1>2, PreviewAssumption DEF PreviewTypes

(* Starting the first current entry keeps the invariant.                   *)
LEMMA StartedKeeps ==
  ASSUME NEW p, QueueInv(p), p.active = NoEntry,
         NEW l \in 1..Len(p.queue), IsCurrent(p, p.queue[l]),
         \A i \in 1..(l - 1) : ~IsCurrent(p, p.queue[i])
  PROVE  QueueInv(Started(p, l)) /\ Quiet(p, Started(p, l))
<1> DEFINE x == p.queue[l]
           q == Started(p, l)
<1>1. PreviewTypes(p) /\ Placed(p)
  BY DEF QueueInv
<1>2. /\ x \in DOMAIN p.entry /\ DOMAIN q.entry = DOMAIN p.entry
      /\ q.generation = p.generation /\ q.group = p.group /\ q.timers = p.timers
      /\ q.active = x
      /\ Len(q.queue) = Len(p.queue) - l
      /\ \A i \in 1..Len(q.queue) : q.queue[i] = p.queue[l + i]
      /\ \A e \in DOMAIN p.entry : e # x => q.entry[e] = p.entry[e]
      /\ q.entry[x] = [p.entry[x] EXCEPT !.attempts = @ + 1, !.load = "loading"]
      /\ q \in [generation : Nat, queue : Seq(Nat), active : Nat \cup {NoEntry},
                timers : SUBSET Nat, entry : Seq(EntryType),
                group : Seq(GroupType)]
  BY <1>1, StartedFields, Zenon
<1> HIDE DEF q
<1>3. /\ Len(p.queue) \in Nat /\ l \in 1..Len(p.queue)
      /\ DOMAIN p.queue = 1..Len(p.queue) /\ DOMAIN q.queue = 1..Len(q.queue)
      /\ p.entry \in Seq(EntryType) /\ NoEntry \notin DOMAIN p.entry
      /\ p.timers \subseteq DOMAIN p.entry
  <2>1. p.queue \in Seq(Nat) /\ p.entry \in Seq(EntryType)
    BY <1>1 DEF PreviewTypes
  <2>2. q.queue \in Seq(Nat)
    BY <1>2
  <2>3. NoEntry \notin DOMAIN p.entry /\ p.timers \subseteq DOMAIN p.entry
    BY <1>1, EntriesAreEntries
  <2> QED
    BY <2>1, <2>2, <2>3
<1>4. \A i \in DOMAIN q.queue :
        /\ l + i \in DOMAIN p.queue /\ l + i # l
        /\ q.queue[i] = p.queue[l + i] /\ q.queue[i] # x
  <2> TAKE i \in DOMAIN q.queue
  <2>1. l + i \in DOMAIN p.queue /\ l + i # l /\ l \in DOMAIN p.queue
    <3>1. i \in 1..Len(q.queue) /\ Len(q.queue) = Len(p.queue) - l
      BY <1>2, <1>3
    <3>2. Len(p.queue) \in Nat /\ l \in 1..Len(p.queue)
      BY <1>3
    <3>3. l + i \in 1..Len(p.queue) /\ l + i # l
      BY <3>1, <3>2
    <3> QED
      BY <1>3, <3>3
  <2>2. p.queue[l + i] # p.queue[l]
    BY <1>1, <2>1 DEF Placed
  <2> QED
    BY <1>2, <1>3, <2>1, <2>2
<1>5. /\ p.entry[x] \in EntryType
      /\ q.entry[x].load = "loading" /\ q.entry[x].attempts = p.entry[x].attempts + 1
      /\ q.entry[x].group = p.entry[x].group
      /\ q.entry[x].generation = p.entry[x].generation
      /\ q.entry[x].groupGeneration = p.entry[x].groupGeneration
      /\ q.entry[x].visual = p.entry[x].visual
      /\ p.entry[x].attempts \in Nat
  <2>1. p.entry[x] \in EntryType
    BY <1>2, <1>3
  <2> QED
    BY <1>2, <2>1 DEF EntryType
<1>6. SameCards(p, q)
  BY <1>2, <1>5 DEF SameCards
<1>7. x # NoEntry /\ x \notin p.timers /\ p.entry[x].attempts < MaxAttempts
      /\ l \in DOMAIN p.queue
  BY <1>1, <1>2, <1>3 DEF Placed
<1>8. PreviewTypes(q)
  <2>1. \A i \in DOMAIN q.queue : q.queue[i] \in DOMAIN q.entry
    BY <1>1, <1>2, <1>4 DEF PreviewTypes
  <2>2. \A e \in DOMAIN q.entry : q.entry[e].group \in DOMAIN q.group
    BY <1>1, <1>6 DEF PreviewTypes, SameCards
  <2>3. \A g \in DOMAIN q.group : q.group[g].images \subseteq DOMAIN q.entry
    BY <1>1, <1>2 DEF PreviewTypes
  <2> QED
    BY <1>2, <1>3, <2>1, <2>2, <2>3 DEF PreviewTypes
<1>9. Placed(q)
  <2>1. \A i, j \in DOMAIN q.queue : q.queue[i] = q.queue[j] => i = j
    <3> SUFFICES ASSUME NEW i \in DOMAIN q.queue, NEW j \in DOMAIN q.queue,
                        q.queue[i] = q.queue[j]
                 PROVE  i = j
      OBVIOUS
    <3>1. l + i = l + j
      BY <1>1, <1>4 DEF Placed
    <3> QED
      BY <1>2, <1>3, <3>1
  <2>2. \A i \in DOMAIN q.queue : q.queue[i] # q.active /\ q.queue[i] \notin q.timers
    <3> TAKE i \in DOMAIN q.queue
    <3>1. p.queue[l + i] \notin p.timers
      BY <1>1, <1>4 DEF Placed
    <3> QED
      BY <1>2, <1>4, <3>1
  <2>3. \A i \in DOMAIN q.queue : q.entry[q.queue[i]].attempts < MaxAttempts
    <3> TAKE i \in DOMAIN q.queue
    <3>1. q.queue[i] \in DOMAIN p.entry /\ q.queue[i] # x
          /\ p.entry[q.queue[i]].attempts < MaxAttempts
      BY <1>1, <1>4 DEF Placed, PreviewTypes
    <3> QED
      BY <1>2, <3>1
  <2>4. \A e \in q.timers : q.entry[e].attempts < MaxAttempts
    BY <1>1, <1>2, <1>3, <1>7 DEF Placed
  <2> QED
    BY <1>2, <1>7, <2>1, <2>2, <2>3, <2>4 DEF Placed
<1>10. \A e \in DOMAIN q.entry : EntryFacts(q, e)
  <2> TAKE e \in DOMAIN q.entry
  <2>1. e \in DOMAIN p.entry /\ EntryFacts(p, e) /\ e # NoEntry
    BY <1>2, <1>3 DEF QueueInv
  <2>2. /\ IsCurrent(q, e) <=> IsCurrent(p, e)
        /\ Superseded(q, e) <=> Superseded(p, e)
    BY <1>6, <2>1, SameCardsSame
  <2>3. CASE e = x
    <3>1. q.entry[e].attempts <= MaxAttempts
      BY <1>5, <1>7, <2>3, PreviewAssumption
    <3> QED
      BY <1>2, <1>5, <1>6, <2>1, <2>2, <2>3, <3>1 DEF EntryFacts, Waits, SameCards
  <2>4. CASE e # x
    <3>1. q.entry[e] = p.entry[e] /\ p.entry[e].load # "loading"
      BY <1>2, <2>1, <2>4 DEF EntryFacts
    <3>2. ASSUME IsCurrent(p, e), Waits(p, e)
          PROVE  Waits(q, e)
      <4>1. CASE e \in p.timers
        BY <1>2, <4>1 DEF Waits
      <4>2. CASE e \notin p.timers
        <5>1. PICK i \in DOMAIN p.queue : p.queue[i] = e
          BY <2>1, <3>2, <4>2 DEF Waits
        <5>2. ~(i < l) /\ i # l
          <6>1. i < l => i \in 1..(l - 1)
            BY <1>3
          <6> QED
            BY <2>4, <3>2, <5>1, <6>1
        <5>3. i - l \in DOMAIN q.queue /\ l + (i - l) = i
          <6>1. Len(q.queue) = Len(p.queue) - l /\ DOMAIN q.queue = 1..Len(q.queue)
            BY <1>2, <1>3
          <6>2. i \in 1..Len(p.queue) /\ l \in 1..Len(p.queue) /\ Len(p.queue) \in Nat
            BY <1>3, <5>1
          <6>3. i \in Nat /\ l \in Nat /\ l < i /\ i <= Len(p.queue)
            BY <5>2, <6>2
          <6>4. i - l \in 1..(Len(p.queue) - l) /\ l + (i - l) = i
            BY <6>2, <6>3
          <6> QED
            BY <6>1, <6>4
        <5>4. q.queue[i - l] = e
          <6>1. q.queue[i - l] = p.queue[l + (i - l)]
            BY <1>4, <5>3
          <6> QED
            BY <5>1, <5>3, <6>1
        <5> QED
          BY <5>3, <5>4 DEF Waits
      <4> QED
        BY <4>1, <4>2
    <3>3. IsCurrent(p, e) <=> ~Superseded(p, e) /\ p.entry[e].visual = "image"
      BY <2>1, CurrentMeans
    <3> QED
      BY <1>2, <2>1, <2>2, <2>4, <3>1, <3>2, <3>3 DEF EntryFacts
  <2> QED
    BY <2>3, <2>4
<1>11. Quiet(p, q)
  <2> SUFFICES ASSUME NEW e \in DOMAIN p.entry, Superseded(p, e)
               PROVE  /\ Superseded(q, e)
                      /\ q.entry[e].attempts = p.entry[e].attempts
                      /\ q.entry[e].visual = p.entry[e].visual
    BY <1>2 DEF Quiet
  <2>1. e # x
    BY DEF IsCurrent, Superseded
  <2> QED
    BY <1>2, <1>6, <2>1, SameCardsSame
<1> QED
  BY <1>8, <1>9, <1>10, <1>11 DEF QueueInv, q

(* So does dropping a queue in which nothing is current.                   *)
LEMMA EmptiedKeeps ==
  ASSUME NEW p, QueueInv(p), p.active = NoEntry,
         \A i \in 1..Len(p.queue) : ~IsCurrent(p, p.queue[i])
  PROVE  LET q == [p EXCEPT !.queue = <<>>] IN
         QueueInv(q) /\ Quiet(p, q) /\ Pumped(q)
<1> DEFINE q == [p EXCEPT !.queue = <<>>]
<1>1. PreviewTypes(p) /\ Placed(p) /\ DOMAIN p.queue = 1..Len(p.queue)
  BY DEF QueueInv, PreviewTypes
<1>2. /\ q \in [generation : Nat, queue : Seq(Nat), active : Nat \cup {NoEntry},
                timers : SUBSET Nat, entry : Seq(EntryType),
                group : Seq(GroupType)]
      /\ q.queue = <<>> /\ DOMAIN q.queue = {}
      /\ q.generation = p.generation /\ q.group = p.group /\ q.timers = p.timers
      /\ q.active = p.active /\ q.entry = p.entry
  <2>1. <<>> \in Seq(Nat) /\ DOMAIN <<>> = {}
    OBVIOUS
  <2> DEFINE none == <<>>
  <2> HIDE DEF none
  <2>2. none \in Seq(Nat) => [p EXCEPT !.queue = none] \in
            [generation : Nat, queue : Seq(Nat), active : Nat \cup {NoEntry},
             timers : SUBSET Nat, entry : Seq(EntryType), group : Seq(GroupType)]
    BY <1>1 DEF PreviewTypes
  <2>3. q \in [generation : Nat, queue : Seq(Nat), active : Nat \cup {NoEntry},
               timers : SUBSET Nat, entry : Seq(EntryType), group : Seq(GroupType)]
    BY <2>1, <2>2 DEF none
  <2>4. /\ q.queue = <<>>
        /\ q.generation = p.generation /\ q.group = p.group /\ q.timers = p.timers
        /\ q.active = p.active /\ q.entry = p.entry
    BY <1>1 DEF PreviewTypes
  <2> QED
    BY <2>1, <2>3, <2>4
<1> HIDE DEF q
<1>3. SameCards(p, q)
  BY <1>2 DEF SameCards
<1>4. PreviewTypes(q) /\ Placed(q) /\ Pumped(q)
  BY <1>1, <1>2 DEF PreviewTypes, Placed, Pumped
<1>5. \A e \in DOMAIN q.entry : EntryFacts(q, e)
  <2> TAKE e \in DOMAIN q.entry
  <2>1. e \in DOMAIN p.entry /\ EntryFacts(p, e)
    BY <1>2 DEF QueueInv
  <2>2. /\ IsCurrent(q, e) <=> IsCurrent(p, e)
        /\ Superseded(q, e) <=> Superseded(p, e)
    BY <1>3, <2>1, SameCardsSame
  <2>3. IsCurrent(p, e) /\ Waits(p, e) => Waits(q, e)
    BY <1>1, <1>2 DEF Waits
  <2>4. IsCurrent(p, e) <=> ~Superseded(p, e) /\ p.entry[e].visual = "image"
    BY <2>1, CurrentMeans
  <2> QED
    BY <1>2, <2>1, <2>2, <2>3, <2>4 DEF EntryFacts
<1>6. Quiet(p, q)
  BY <1>2, <1>3, SameCardsSame DEF Quiet
<1> QED
  BY <1>4, <1>5, <1>6 DEF QueueInv, q

(* pumpPreviewQueue keeps the invariant and leaves an active image, if any *)
(* is queued.                                                              *)
LEMMA PumpKeeps ==
  ASSUME NEW p, QueueInv(p)
  PROVE  QueueInv(Pump(p)) /\ Pumped(Pump(p)) /\ Quiet(p, Pump(p))
<1>1. PreviewTypes(p)
  BY DEF QueueInv
<1>2. CASE p.active # NoEntry /\ Pump(p) = p
  BY <1>2 DEF Pumped, Quiet
<1>3. CASE /\ p.active = NoEntry /\ Pump(p) = [p EXCEPT !.queue = <<>>]
           /\ \A i \in 1..Len(p.queue) : ~IsCurrent(p, p.queue[i])
  BY <1>3, EmptiedKeeps
<1>4. ASSUME NEW l \in 1..Len(p.queue),
             /\ p.active = NoEntry /\ Pump(p) = Started(p, l)
             /\ IsCurrent(p, p.queue[l])
             /\ \A i \in 1..(l - 1) : ~IsCurrent(p, p.queue[i])
      PROVE  QueueInv(Pump(p)) /\ Pumped(Pump(p)) /\ Quiet(p, Pump(p))
  <2>1. QueueInv(Started(p, l)) /\ Quiet(p, Started(p, l))
    BY <1>4, StartedKeeps
  <2>2. Started(p, l).active = p.queue[l] /\ p.queue[l] \in DOMAIN p.entry
    <3>1. p \in [generation : Nat, queue : Seq(Nat), active : Nat \cup {NoEntry},
                timers : SUBSET Nat, entry : Seq(EntryType), group : Seq(GroupType)]
      BY <1>1 DEF PreviewTypes
    <3>2. l \in DOMAIN p.queue
      BY <3>1
    <3> QED
      BY <1>1, <3>1, <3>2 DEF Started, PreviewTypes
  <2>3. p.queue[l] # NoEntry
    BY <1>1, <2>2, EntriesAreEntries
  <2> QED
    BY <1>4, <2>1, <2>2, <2>3 DEF Pumped
<1> QED
  BY <1>1, <1>2, <1>3, <1>4, PumpCases

-----------------------------------------------------------------------------
(* completePreviewAttempt.                                                 *)

PreviewRecords ==
  [generation : Nat, queue : Seq(Nat), active : Nat \cup {NoEntry},
   timers : SUBSET Nat, entry : Seq(EntryType), group : Seq(GroupType)]

(* The active entry x comes to rest: loaded, to be retried, or replaced.   *)
Rests(p, q, x) ==
  \/ /\ q.timers = p.timers
     /\ q.entry[x].load = "loaded" /\ q.entry[x].visual = p.entry[x].visual
  \/ /\ q.timers = p.timers \cup {x} /\ p.entry[x].attempts < MaxAttempts
     /\ q.entry[x].load = "idle" /\ q.entry[x].visual = p.entry[x].visual
  \/ /\ q.timers = p.timers
     /\ q.entry[x].load = "idle" /\ q.entry[x].visual = "fallback"

(* An entry that comes to rest keeps the invariant.                        *)
LEMMA RestKeeps ==
  ASSUME NEW p, QueueInv(p), NEW x \in DOMAIN p.entry, p.active = x,
         NEW q \in PreviewRecords,
         q.generation = p.generation, q.group = p.group, q.queue = p.queue,
         q.active = NoEntry, DOMAIN q.entry = DOMAIN p.entry,
         \A e \in DOMAIN p.entry : e # x => q.entry[e] = p.entry[e],
         q.entry[x].group = p.entry[x].group,
         q.entry[x].generation = p.entry[x].generation,
         q.entry[x].groupGeneration = p.entry[x].groupGeneration,
         q.entry[x].attempts = p.entry[x].attempts,
         Rests(p, q, x)
  PROVE  QueueInv(q) /\ Quiet(p, q)
<1>1. PreviewTypes(p) /\ Placed(p) /\ NoEntry \notin DOMAIN p.entry
      /\ p.timers \subseteq DOMAIN p.entry
  BY EntriesAreEntries DEF QueueInv
<1>2. \A e \in DOMAIN p.entry :
        /\ q.entry[e].group = p.entry[e].group
        /\ q.entry[e].generation = p.entry[e].generation
        /\ q.entry[e].groupGeneration = p.entry[e].groupGeneration
        /\ q.entry[e].attempts = p.entry[e].attempts
  OBVIOUS
<1>3. \A e \in DOMAIN p.entry : Superseded(q, e) <=> Superseded(p, e)
  BY <1>2 DEF Superseded
<1>4. q.timers \subseteq p.timers \cup {x} /\ p.timers \subseteq q.timers
      /\ \A e \in q.timers : q.entry[e].attempts < MaxAttempts
  <2>1. q.timers \subseteq p.timers \cup {x} /\ p.timers \subseteq q.timers
        /\ (x \in q.timers => p.entry[x].attempts < MaxAttempts \/ x \in p.timers)
    BY DEF Rests
  <2>2. \A e \in q.timers : p.entry[e].attempts < MaxAttempts
    BY <1>1, <2>1 DEF Placed
  <2> QED
    BY <1>1, <1>2, <2>1, <2>2
<1>5. PreviewTypes(q)
  <2>1. \A i \in DOMAIN q.queue : q.queue[i] \in DOMAIN q.entry
    BY <1>1 DEF PreviewTypes
  <2>2. \A e \in DOMAIN q.entry : q.entry[e].group \in DOMAIN q.group
    BY <1>1, <1>2 DEF PreviewTypes
  <2>3. \A g \in DOMAIN q.group : q.group[g].images \subseteq DOMAIN q.entry
    BY <1>1 DEF PreviewTypes
  <2> QED
    BY <1>1, <1>4, <2>1, <2>2, <2>3 DEF PreviewTypes, PreviewRecords
<1>6. Placed(q)
  <2>1. \A i \in DOMAIN q.queue :
          /\ p.queue[i] \in DOMAIN p.entry /\ p.queue[i] # x
          /\ p.queue[i] \notin p.timers /\ p.entry[p.queue[i]].attempts < MaxAttempts
    BY <1>1 DEF Placed, PreviewTypes
  <2>2. \A i \in DOMAIN q.queue :
          /\ q.queue[i] # NoEntry /\ q.queue[i] \notin q.timers
          /\ q.entry[q.queue[i]].attempts < MaxAttempts
    BY <1>1, <1>2, <1>4, <2>1
  <2>3. \A i, j \in DOMAIN q.queue : q.queue[i] = q.queue[j] => i = j
    BY <1>1 DEF Placed
  <2>4. q.active \notin q.timers
    BY <1>1, <1>4
  <2> QED
    BY <1>4, <2>2, <2>3, <2>4 DEF Placed
<1>7. \A e \in DOMAIN q.entry : EntryFacts(q, e)
  <2> TAKE e \in DOMAIN q.entry
  <2>1. e \in DOMAIN p.entry /\ EntryFacts(p, e) /\ e # NoEntry
    BY <1>1 DEF QueueInv
  <2>2. CASE e = x
    <3>1. /\ q.entry[e].load # "loading" /\ q.entry[e].load # "late"
          /\ q.entry[e].visual = "image" /\ q.entry[e].load # "loaded" => e \in q.timers
      BY <2>2 DEF Rests
    <3> QED
      BY <1>2, <1>3, <2>1, <2>2, <3>1 DEF EntryFacts, Waits
  <2>3. CASE e # x
    <3>1. q.entry[e] = p.entry[e] /\ p.active # e /\ p.entry[e].load # "loading"
      BY <2>1, <2>3 DEF EntryFacts
    <3>2. Waits(p, e) => Waits(q, e)
      BY <1>4, <3>1 DEF Waits
    <3> QED
      BY <1>2, <1>3, <2>1, <3>1, <3>2 DEF EntryFacts
  <2> QED
    BY <2>2, <2>3
<1>8. Quiet(p, q)
  <2>1. ~Superseded(p, x)
    BY DEF QueueInv, EntryFacts, IsCurrent, Superseded
  <2> QED
    BY <1>2, <1>3, <2>1 DEF Quiet
<1> QED
  BY <1>5, <1>6, <1>7, <1>8 DEF QueueInv

(* An event of the active image.                                           *)
LEMMA ActiveEventKeeps ==
  ASSUME NEW p, QueueInv(p), NEW e \in DOMAIN p.entry, p.entry[e].load = "loading",
         NEW loaded \in BOOLEAN
  PROVE  LET v == IF loaded THEN "loaded" ELSE "idle"
             q == Complete([p EXCEPT !.entry[e].load = v], e, loaded)
         IN QueueInv(q) /\ Pumped(q) /\ Quiet(p, q)
<1> DEFINE v == IF loaded THEN "loaded" ELSE "idle"
           c == [p.entry[e] EXCEPT !.load = v]
           entries == [p.entry EXCEPT ![e] = c]
           p1 == [p EXCEPT !.entry[e].load = v]
           p2 == [p EXCEPT !.entry = entries, !.active = NoEntry]
<1>1. PreviewTypes(p) /\ EntryFacts(p, e) /\ p \in PreviewRecords
  BY DEF QueueInv, PreviewTypes, PreviewRecords
<1>2. p.active = e /\ IsCurrent(p, e) /\ p.entry[e].visual = "image"
  BY <1>1 DEF EntryFacts, IsCurrent
<1>3. p.entry[e] \in EntryType /\ p.entry \in Seq(EntryType)
      /\ v \in {"loaded", "idle"}
  BY <1>1 DEF PreviewRecords
<1> HIDE DEF v
<1>4. /\ c \in EntryType /\ c.load = v
      /\ c.group = p.entry[e].group /\ c.generation = p.entry[e].generation
      /\ c.groupGeneration = p.entry[e].groupGeneration
      /\ c.attempts = p.entry[e].attempts /\ c.visual = p.entry[e].visual
  BY <1>3 DEF EntryType
<1> HIDE DEF c
<1>5. /\ entries \in Seq(EntryType) /\ DOMAIN entries = DOMAIN p.entry
      /\ entries[e] = c
      /\ \A d \in DOMAIN p.entry : d # e => entries[d] = p.entry[d]
  BY <1>3, <1>4
<1> HIDE DEF entries
<1>6. p1 = [p EXCEPT !.entry = entries]
  BY <1>1, <1>3 DEF entries, c, PreviewRecords, EntryType
<1>7. p1.active = e /\ p1.generation = p.generation /\ p1.group = p.group
      /\ p1.entry = entries
  BY <1>1, <1>2, <1>6 DEF PreviewRecords
<1>8. [p1 EXCEPT !.active = NoEntry] = p2
  BY <1>1, <1>6 DEF PreviewRecords
<1>9. /\ p2 \in PreviewRecords
      /\ p2.generation = p.generation /\ p2.group = p.group /\ p2.queue = p.queue
      /\ p2.active = NoEntry /\ p2.entry = entries /\ p2.timers = p.timers
  BY <1>1, <1>5 DEF PreviewRecords
<1> HIDE DEF p1, p2
<1>10. IsCurrent(p1, e) /\ IsCurrent(p2, e)
  BY <1>2, <1>4, <1>5, <1>7, <1>9 DEF IsCurrent
<1> DEFINE q == Complete(p1, e, loaded)
<1>11. q = IF loaded THEN Pump(p2) ELSE Failed(p2, e)
  BY <1>7, <1>8, <1>10 DEF Complete
<1>12. CASE loaded
  <2>1. Rests(p, p2, e)
    BY <1>4, <1>5, <1>9, <1>12 DEF Rests, v
  <2>2. QueueInv(p2) /\ Quiet(p, p2)
    BY <1>2, <1>4, <1>5, <1>9, <2>1, RestKeeps
  <2>3. q = Pump(p2)
    BY <1>11, <1>12
  <2> QED
    BY <2>2, <2>3, PumpKeeps, QuietTwice DEF p1, v
<1>13. CASE ~loaded /\ p.entry[e].attempts < MaxAttempts
  <2> DEFINE p3 == [p2 EXCEPT !.timers = @ \cup {e}]
  <2>1. q = Pump(p3)
    BY <1>4, <1>5, <1>9, <1>11, <1>13 DEF Failed
  <2>2. /\ p3 \in PreviewRecords
        /\ p3.generation = p.generation /\ p3.group = p.group /\ p3.queue = p.queue
        /\ p3.active = NoEntry /\ p3.entry = entries /\ p3.timers = p.timers \cup {e}
    <3>1. e \in Nat
      BY <1>3
    <3> QED
      BY <1>9, <3>1 DEF PreviewRecords
  <2> HIDE DEF p3
  <2>3. Rests(p, p3, e)
    BY <1>4, <1>5, <2>2, <1>13 DEF Rests, v
  <2>4. QueueInv(p3) /\ Quiet(p, p3)
    BY <1>2, <1>4, <1>5, <2>2, <2>3, RestKeeps
  <2> QED
    BY <2>1, <2>4, PumpKeeps, QuietTwice DEF p1, v
<1>14. CASE ~loaded /\ ~(p.entry[e].attempts < MaxAttempts)
  <2> DEFINE b == [c EXCEPT !.visual = "fallback"]
             last == [entries EXCEPT ![e] = b]
             p3 == [p2 EXCEPT !.entry = last]
  <2>1. q = Pump(p3)
    <3>1. q = Pump([p2 EXCEPT !.entry[e].visual = "fallback"])
      BY <1>4, <1>5, <1>9, <1>10, <1>11, <1>14 DEF Failed, Fallback
    <3>2. [p2 EXCEPT !.entry[e].visual = "fallback"] = p3
      BY <1>4, <1>5, <1>9 DEF PreviewRecords, EntryType
    <3> QED
      BY <3>1, <3>2
  <2>2. /\ b \in EntryType /\ b.load = v /\ b.visual = "fallback"
        /\ b.group = c.group /\ b.generation = c.generation
        /\ b.groupGeneration = c.groupGeneration /\ b.attempts = c.attempts
    BY <1>4 DEF EntryType
  <2> HIDE DEF b
  <2>3. /\ last \in Seq(EntryType) /\ DOMAIN last = DOMAIN p.entry /\ last[e] = b
        /\ \A d \in DOMAIN p.entry : d # e => last[d] = p.entry[d]
    BY <1>5, <2>2
  <2> HIDE DEF last
  <2>4. /\ p3 \in PreviewRecords
        /\ p3.generation = p.generation /\ p3.group = p.group /\ p3.queue = p.queue
        /\ p3.active = NoEntry /\ p3.entry = last /\ p3.timers = p.timers
    BY <1>9, <2>3 DEF PreviewRecords
  <2> HIDE DEF p3
  <2>5. Rests(p, p3, e)
    BY <2>2, <2>3, <2>4, <1>14 DEF Rests, v
  <2>6. QueueInv(p3) /\ Quiet(p, p3)
    BY <1>2, <1>4, <2>2, <2>3, <2>4, <2>5, RestKeeps
  <2> QED
    BY <2>1, <2>6, PumpKeeps, QuietTwice DEF p1, v
<1> QED
  BY <1>12, <1>13, <1>14 DEF p1, v

(* An event that is late changes nothing.                                  *)
LEMMA LateEventKeeps ==
  ASSUME NEW p, QueueInv(p), NEW e \in DOMAIN p.entry, p.entry[e].load = "late",
         NEW loaded \in BOOLEAN
  PROVE  Complete([p EXCEPT !.entry[e].load = "late"], e, loaded) = p
<1>1. p \in PreviewRecords /\ p.entry[e] \in EntryType /\ p.entry \in Seq(EntryType)
  BY DEF QueueInv, PreviewTypes, PreviewRecords
<1>2. [p.entry[e] EXCEPT !.load = "late"] = p.entry[e]
  BY <1>1 DEF EntryType
<1>3. [p.entry EXCEPT ![e] = p.entry[e]] = p.entry
  BY <1>1
<1>4. [p EXCEPT !.entry[e].load = "late"] = p
  BY <1>1, <1>2, <1>3 DEF PreviewRecords
<1>5. ~IsCurrent(p, e)
  BY DEF QueueInv, EntryFacts, IsCurrent, Superseded
<1> QED
  BY <1>4, <1>5 DEF Complete

-----------------------------------------------------------------------------
(* schedulePreviewRetry: the timer.                                        *)

(* The callback of the timer queues its entry again if that is current.    *)
LEMMA RetryKeeps ==
  ASSUME NEW p, QueueInv(p), Pumped(p), NEW e \in p.timers
  PROVE  QueueInv(Retry(p, e)) /\ Pumped(Retry(p, e)) /\ Quiet(p, Retry(p, e))
<1> DEFINE q == [p EXCEPT !.timers = @ \ {e}]
           r == [q EXCEPT !.queue = Append(@, e)]
<1>1. /\ PreviewTypes(p) /\ Placed(p) /\ p \in PreviewRecords
      /\ e \in DOMAIN p.entry /\ NoEntry \notin DOMAIN p.entry
      /\ p.timers \subseteq DOMAIN p.entry /\ p.queue \in Seq(Nat)
      /\ e \in Nat
  BY EntriesAreEntries DEF QueueInv, PreviewTypes, PreviewRecords
<1>2. /\ q \in PreviewRecords
      /\ q.generation = p.generation /\ q.group = p.group /\ q.queue = p.queue
      /\ q.active = p.active /\ q.entry = p.entry /\ q.timers = p.timers \ {e}
  BY <1>1 DEF PreviewRecords
<1>3. SameCards(p, q)
  BY <1>2 DEF SameCards
<1> DEFINE longer == Append(p.queue, e)
<1>4. /\ longer \in Seq(Nat) /\ DOMAIN longer = 1..(Len(p.queue) + 1)
      /\ longer[Len(p.queue) + 1] = e
      /\ \A i \in DOMAIN p.queue : i \in DOMAIN longer /\ longer[i] = p.queue[i]
      /\ \A i \in DOMAIN longer : i \in DOMAIN p.queue \/ i = Len(p.queue) + 1
      /\ Len(p.queue) + 1 \in DOMAIN longer
  BY <1>1
<1> HIDE DEF longer
<1>5. /\ r \in PreviewRecords
      /\ r.generation = p.generation /\ r.group = p.group /\ r.queue = longer
      /\ r.active = p.active /\ r.entry = p.entry /\ r.timers = p.timers \ {e}
  <2>1. r = [q EXCEPT !.queue = longer]
    BY <1>2 DEF longer
  <2> HIDE DEF q, r
  <2> QED
    BY <1>2, <1>4, <2>1 DEF PreviewRecords
<1> HIDE DEF q, r
<1>6. SameCards(p, r)
  BY <1>5 DEF SameCards
<1>7. Retry(p, e) = IF IsCurrent(q, e) THEN Pump(r) ELSE q
  BY DEF Retry, q, r
<1>8. CASE IsCurrent(q, e)
  <2>1. PreviewTypes(r)
    <3>1. \A i \in DOMAIN r.queue : r.queue[i] \in DOMAIN r.entry
      BY <1>1, <1>4, <1>5 DEF PreviewTypes
    <3> QED
      BY <1>1, <1>5, <3>1 DEF PreviewTypes, PreviewRecords
  <2>2. \A i \in DOMAIN p.queue : p.queue[i] # e
    BY <1>1 DEF Placed
  <2>3. Placed(r)
    <3>1. \A i, j \in DOMAIN r.queue : r.queue[i] = r.queue[j] => i = j
      <4>1. \A i, j \in DOMAIN p.queue : p.queue[i] = p.queue[j] => i = j
        BY <1>1 DEF Placed
      <4> QED
        BY <1>4, <1>5, <2>2, <4>1
    <3>2. \A i \in DOMAIN r.queue :
            /\ r.queue[i] # r.active /\ r.queue[i] \notin r.timers
            /\ r.entry[r.queue[i]].attempts < MaxAttempts
      BY <1>1, <1>4, <1>5 DEF Placed
    <3> QED
      BY <1>1, <1>5, <3>1, <3>2 DEF Placed
  <2>4. \A d \in DOMAIN r.entry : EntryFacts(r, d)
    <3> TAKE d \in DOMAIN r.entry
    <3>1. d \in DOMAIN p.entry /\ EntryFacts(p, d)
      BY <1>5 DEF QueueInv
    <3>2. /\ IsCurrent(r, d) <=> IsCurrent(p, d)
          /\ Superseded(r, d) <=> Superseded(p, d)
      BY <1>6, <3>1, SameCardsSame
    <3>3. Waits(p, d) => Waits(r, d)
      BY <1>4, <1>5 DEF Waits
    <3> QED
      BY <1>5, <3>1, <3>2, <3>3 DEF EntryFacts
  <2>5. QueueInv(r)
    BY <2>1, <2>3, <2>4 DEF QueueInv
  <2>6. Quiet(p, r)
    BY <1>5, <1>6, SameCardsSame DEF Quiet
  <2>7. Retry(p, e) = Pump(r)
    BY <1>7, <1>8
  <2> QED
    BY <2>5, <2>6, <2>7, PumpKeeps, QuietTwice
<1>9. CASE ~IsCurrent(q, e)
  <2>1. PreviewTypes(q) /\ Placed(q) /\ Pumped(q)
    BY <1>1, <1>2 DEF PreviewTypes, PreviewRecords, Placed, Pumped
  <2>2. ~IsCurrent(p, e)
    BY <1>1, <1>3, <1>9, SameCardsSame
  <2>3. \A d \in DOMAIN q.entry : EntryFacts(q, d)
    <3> TAKE d \in DOMAIN q.entry
    <3>1. d \in DOMAIN p.entry /\ EntryFacts(p, d)
      BY <1>2 DEF QueueInv
    <3>2. /\ IsCurrent(q, d) <=> IsCurrent(p, d)
          /\ Superseded(q, d) <=> Superseded(p, d)
      BY <1>3, <3>1, SameCardsSame
    <3>3. d # e /\ Waits(p, d) => Waits(q, d)
      BY <1>2 DEF Waits
    <3>4. IsCurrent(p, d) <=> ~Superseded(p, d) /\ p.entry[d].visual = "image"
      BY <3>1, CurrentMeans
    <3> QED
      BY <1>2, <2>2, <3>1, <3>2, <3>3, <3>4 DEF EntryFacts
  <2>4. Quiet(p, q)
    BY <1>2, <1>3, SameCardsSame DEF Quiet
  <2>5. Retry(p, e) = q
    BY <1>7, <1>9
  <2> QED
    BY <2>1, <2>3, <2>4, <2>5 DEF QueueInv
<1> QED
  BY <1>8, <1>9

-----------------------------------------------------------------------------
(* clearResults and renderResults.                                         *)

(* removeAttribute('src') of the active image, if there is one.            *)
LEMMA DropFields ==
  ASSUME NEW p, PreviewTypes(p)
  PROVE  LET q == DropActive(p) IN
         /\ q \in PreviewRecords
         /\ q.generation = p.generation /\ q.group = p.group
         /\ q.queue = p.queue /\ q.timers = p.timers /\ q.active = NoEntry
         /\ DOMAIN q.entry = DOMAIN p.entry
         /\ \A e \in DOMAIN p.entry :
              /\ q.entry[e].group = p.entry[e].group
              /\ q.entry[e].generation = p.entry[e].generation
              /\ q.entry[e].groupGeneration = p.entry[e].groupGeneration
              /\ q.entry[e].attempts = p.entry[e].attempts
              /\ q.entry[e].visual = p.entry[e].visual
              /\ q.entry[e].load = IF e = p.active THEN "late" ELSE p.entry[e].load
<1> DEFINE q == DropActive(p)
           x == p.active
           c == [p.entry[x] EXCEPT !.load = "late"]
           entries == [p.entry EXCEPT ![x] = c]
<1>1. p \in PreviewRecords /\ p.entry \in Seq(EntryType)
      /\ NoEntry \notin DOMAIN p.entry
  BY EntriesAreEntries DEF PreviewTypes, PreviewRecords
<1>2. CASE x = NoEntry
  <2>1. q = p
    BY <1>2 DEF DropActive
  <2> QED
    BY <1>1, <1>2, <2>1 DEF PreviewRecords
<1>3. CASE x # NoEntry
  <2>1. x \in DOMAIN p.entry /\ p.entry[x] \in EntryType
    BY <1>1, <1>3 DEF PreviewTypes
  <2>2. /\ c \in EntryType /\ c.load = "late"
        /\ c.group = p.entry[x].group /\ c.generation = p.entry[x].generation
        /\ c.groupGeneration = p.entry[x].groupGeneration
        /\ c.attempts = p.entry[x].attempts /\ c.visual = p.entry[x].visual
    BY <2>1 DEF EntryType
  <2>3. q = [p EXCEPT !.active = NoEntry, !.entry = entries]
    BY <1>1, <1>3, <2>1 DEF DropActive, PreviewRecords, EntryType
  <2> HIDE DEF c
  <2>4. /\ entries \in Seq(EntryType) /\ DOMAIN entries = DOMAIN p.entry
        /\ entries[x] = c /\ \A e \in DOMAIN p.entry : e # x => entries[e] = p.entry[e]
    BY <1>1, <2>1, <2>2
  <2> HIDE DEF entries, q
  <2>5. /\ q \in PreviewRecords /\ q.entry = entries /\ q.active = NoEntry
        /\ q.generation = p.generation /\ q.group = p.group
        /\ q.queue = p.queue /\ q.timers = p.timers
    BY <1>1, <2>3, <2>4 DEF PreviewRecords
  <2>6. \A e \in DOMAIN p.entry :
              /\ q.entry[e].group = p.entry[e].group
              /\ q.entry[e].generation = p.entry[e].generation
              /\ q.entry[e].groupGeneration = p.entry[e].groupGeneration
              /\ q.entry[e].attempts = p.entry[e].attempts
              /\ q.entry[e].visual = p.entry[e].visual
              /\ q.entry[e].load = IF e = x THEN "late" ELSE p.entry[e].load
    BY <2>2, <2>4, <2>5
  <2> QED
    BY <2>4, <2>5, <2>6 DEF q
<1> QED
  BY <1>2, <1>3

(* clearResults leaves nothing on the page and nothing in the queue.       *)
LEMMA ClearKeeps ==
  ASSUME NEW p, QueueInv(p)
  PROVE  LET q == ClearResults(p) IN QueueInv(q) /\ Pumped(q) /\ Quiet(p, q)
<1> DEFINE d == DropActive(p)
           l == [d EXCEPT !.generation = @ + 1, !.queue = <<>>, !.timers = {}]
           groups == [g \in DOMAIN p.group |->
                        [p.group[g] EXCEPT !.shown = FALSE, !.images = {}]]
           q == ClearResults(p)
<1>1. PreviewTypes(p) /\ p.group \in Seq(GroupType) /\ p.generation \in Nat
      /\ NoEntry \notin DOMAIN p.entry
  BY EntriesAreEntries DEF QueueInv, PreviewTypes
<1>2. /\ d \in PreviewRecords
      /\ d.generation = p.generation /\ d.group = p.group
      /\ d.active = NoEntry /\ DOMAIN d.entry = DOMAIN p.entry
      /\ \A e \in DOMAIN p.entry :
              /\ d.entry[e].group = p.entry[e].group
              /\ d.entry[e].attempts = p.entry[e].attempts
              /\ d.entry[e].visual = p.entry[e].visual
              /\ d.entry[e].load = IF e = p.active THEN "late" ELSE p.entry[e].load
  BY <1>1, DropFields
<1> HIDE DEF d
<1>3. \A g \in DOMAIN p.group :
        /\ groups[g] \in GroupType /\ ~groups[g].shown /\ groups[g].images = {}
  <2> TAKE g \in DOMAIN p.group
  <2>1. p.group[g] \in GroupType
    BY <1>1
  <2> QED
    BY <2>1 DEF GroupType
<1>4. groups \in Seq(GroupType) /\ DOMAIN groups = DOMAIN p.group
  <2>1. DOMAIN p.group = 1..Len(p.group) /\ Len(p.group) \in Nat
    BY <1>1
  <2>2. groups = [g \in DOMAIN p.group |-> groups[g]]
    OBVIOUS
  <2> HIDE DEF groups
  <2>3. groups = [g \in 1..Len(p.group) |-> groups[g]]
    BY <2>1, <2>2
  <2>4. \A g \in 1..Len(p.group) : groups[g] \in GroupType
    BY <2>1, <1>3
  <2>5. groups \in [1..Len(p.group) -> GroupType]
    BY <2>3, <2>4
  <2> QED
    BY <2>1, <2>5
<1>5. l.group = p.group
  BY <1>2 DEF PreviewRecords
<1>6. q = [l EXCEPT !.group = groups]
  BY <1>2, <1>5 DEF ClearResults, CancelLoading, d, PreviewRecords
<1> HIDE DEF groups
<1> DEFINE none == <<>>
<1>7. none \in Seq(Nat) /\ DOMAIN none = {} /\ p.generation + 1 \in Nat
  BY <1>1
<1>8. q = [d EXCEPT !.generation = p.generation + 1, !.queue = none, !.timers = {},
                    !.group = groups]
  BY <1>2, <1>6 DEF PreviewRecords
<1> HIDE DEF none, q
<1>9. /\ q \in PreviewRecords /\ q.entry = d.entry /\ q.active = NoEntry
      /\ q.generation = p.generation + 1 /\ q.group = groups
      /\ q.queue = none /\ q.timers = {}
  BY <1>2, <1>4, <1>7, <1>8 DEF PreviewRecords
<1>10. PreviewTypes(q)
  <2>1. \A e \in DOMAIN q.entry : q.entry[e].group \in DOMAIN q.group
    BY <1>1, <1>2, <1>4, <1>9 DEF PreviewTypes
  <2>2. \A g \in DOMAIN q.group : q.group[g].images \subseteq DOMAIN q.entry
    BY <1>3, <1>4, <1>9
  <2> QED
    BY <1>7, <1>9, <2>1, <2>2 DEF PreviewTypes, PreviewRecords
<1>11. Placed(q)
  BY <1>7, <1>9 DEF Placed
<1>12. \A e \in DOMAIN q.entry : Superseded(q, e)
  BY <1>1, <1>2, <1>3, <1>4, <1>9 DEF Superseded, PreviewTypes
<1>13. \A e \in DOMAIN q.entry : EntryFacts(q, e)
  <2> TAKE e \in DOMAIN q.entry
  <2>1. e \in DOMAIN p.entry /\ EntryFacts(p, e)
    BY <1>2, <1>9 DEF QueueInv
  <2> QED
    BY <1>1, <1>2, <1>9, <1>12, <2>1 DEF EntryFacts
<1>14. Quiet(p, q)
  BY <1>2, <1>4, <1>9, <1>12 DEF Quiet
<1>15. Pumped(q)
  BY <1>9 DEF Pumped, none
<1> QED
  BY <1>10, <1>11, <1>13, <1>14, <1>15 DEF QueueInv, q

(* The cards of group g make way for n new ones.  Until then what is known *)
(* of its entries is only that none of them is active.                     *)
Cleared(p, g) ==
  /\ PreviewTypes(p)
  /\ Placed(p)
  /\ \A e \in DOMAIN p.entry :
       IF p.entry[e].group = g
       THEN /\ p.entry[e].load # "loading" /\ p.active # e
            /\ p.entry[e].attempts <= MaxAttempts
       ELSE EntryFacts(p, e)

NewEntry(p, g) ==
  [group |-> g, generation |-> p.generation,
   groupGeneration |-> p.group[g].generation,
   attempts |-> 0, visual |-> "image", load |-> "idle"]

(* The state after n cards were rendered, field by field.                  *)
LEMMA CardsFields ==
  ASSUME NEW p, PreviewTypes(p), NEW g \in DOMAIN p.group, NEW n \in Nat
  PROVE  LET q == RenderCards(p, g, n)  count == Len(p.entry) IN
         /\ q \in PreviewRecords /\ count \in Nat /\ DOMAIN p.entry = 1..count
         /\ q.generation = p.generation /\ q.timers = p.timers /\ q.active = p.active
         /\ DOMAIN q.entry = 1..(count + n)
         /\ \A e \in 1..count : q.entry[e] = p.entry[e]
         /\ \A e \in (count + 1)..(count + n) : q.entry[e] = NewEntry(p, g)
         /\ DOMAIN p.queue = 1..Len(p.queue) /\ Len(p.queue) \in Nat
         /\ DOMAIN q.queue = 1..(Len(p.queue) + n)
         /\ \A i \in 1..Len(p.queue) : q.queue[i] = p.queue[i]
         /\ \A i \in 1..n : q.queue[Len(p.queue) + i] = count + i
         /\ DOMAIN q.group = DOMAIN p.group
         /\ \A h \in DOMAIN p.group : h # g => q.group[h] = p.group[h]
         /\ q.group[g].generation = p.group[g].generation
         /\ q.group[g].images = (count + 1)..(count + n) /\ q.group[g].shown
<1> DEFINE count == Len(p.entry)
           new == [i \in 1..n |-> NewEntry(p, g)]
           numbers == [i \in 1..n |-> count + i]
           entries == p.entry \o new
           queue == p.queue \o numbers
           card == [p.group[g] EXCEPT !.images = (count + 1)..(count + n),
                                      !.shown = TRUE]
           groups == [p.group EXCEPT ![g] = card]
           q == RenderCards(p, g, n)
<1>1. /\ p \in PreviewRecords /\ p.entry \in Seq(EntryType) /\ p.queue \in Seq(Nat)
      /\ p.group \in Seq(GroupType) /\ p.group[g] \in GroupType
      /\ g \in Nat /\ count \in Nat /\ p.generation \in Nat
  BY DEF PreviewTypes, PreviewRecords
<1>2. NewEntry(p, g) \in EntryType
  BY <1>1 DEF NewEntry, EntryType, GroupType
<1>3. new \in Seq(EntryType) /\ Len(new) = n /\ \A i \in 1..n : new[i] = NewEntry(p, g)
  BY <1>2
<1>4. numbers \in Seq(Nat) /\ Len(numbers) = n /\ \A i \in 1..n : numbers[i] = count + i
  BY <1>1
<1>5. card \in GroupType /\ card.generation = p.group[g].generation
      /\ card.images = (count + 1)..(count + n) /\ card.shown
  <2> DEFINE I == (count + 1)..(count + n)
  <2>1. I \in SUBSET Nat
    BY <1>1
  <2> HIDE DEF I
  <2>2. /\ [p.group[g] EXCEPT !.images = I, !.shown = TRUE] \in GroupType
        /\ [p.group[g] EXCEPT !.images = I, !.shown = TRUE].images = I
        /\ [p.group[g] EXCEPT !.images = I, !.shown = TRUE].shown = TRUE
        /\ [p.group[g] EXCEPT !.images = I, !.shown = TRUE].generation = p.group[g].generation
    BY <1>1, <2>1 DEF GroupType
  <2> QED
    BY <2>2 DEF I
<1>6. q = [p EXCEPT !.entry = entries, !.queue = queue, !.group = groups]
  BY <1>1 DEF RenderCards, NewEntry, PreviewRecords, GroupType
<1> HIDE DEF count, new, numbers, card
<1>7. /\ entries \in Seq(EntryType) /\ DOMAIN entries = 1..(count + n)
      /\ \A e \in 1..count : entries[e] = p.entry[e]
      /\ \A e \in (count + 1)..(count + n) : entries[e] = NewEntry(p, g)
  <2>1. entries \in Seq(EntryType) /\ Len(entries) = count + n
        /\ \A e \in 1..(count + n) :
             entries[e] = IF e <= count THEN p.entry[e] ELSE new[e - count]
    BY <1>1, <1>3, ConcatProperties, Zenon DEF count
  <2>2. \A e \in (count + 1)..(count + n) : e - count \in 1..n /\ ~(e <= count)
                                           /\ e \in 1..(count + n)
    BY <1>1
  <2>3. \A e \in 1..count : e <= count /\ e \in 1..(count + n)
    BY <1>1
  <2> HIDE DEF entries
  <2> QED
    BY <1>3, <2>1, <2>2, <2>3
<1>8. /\ queue \in Seq(Nat) /\ DOMAIN queue = 1..(Len(p.queue) + n)
      /\ \A i \in 1..Len(p.queue) : queue[i] = p.queue[i]
      /\ \A i \in 1..n : queue[Len(p.queue) + i] = count + i
  <2> DEFINE m == Len(p.queue)
  <2>1. m \in Nat /\ queue \in Seq(Nat) /\ Len(queue) = m + n
        /\ \A i \in 1..(m + n) :
             queue[i] = IF i <= m THEN p.queue[i] ELSE numbers[i - m]
    <3>1. p.queue \in Seq(Nat) /\ numbers \in Seq(Nat) /\ Len(numbers) = n
          /\ Len(p.queue) \in Nat
      BY <1>1, <1>4
    <3> QED
      BY <3>1, ConcatProperties, Zenon
  <2> HIDE DEF m, queue
  <2>2. \A i \in 1..n : m + i \in 1..(m + n) /\ ~(m + i <= m) /\ (m + i) - m = i
    BY <2>1
  <2>3. \A i \in 1..m : i <= m /\ i \in 1..(m + n)
    BY <2>1
  <2>4. \A i \in 1..m : queue[i] = p.queue[i]
    BY <2>1, <2>3
  <2>5. \A i \in 1..n : queue[m + i] = count + i
    BY <1>4, <2>1, <2>2
  <2>6. DOMAIN queue = 1..(m + n)
    BY <2>1
  <2> QED
    BY <2>1, <2>4, <2>5, <2>6 DEF m
<1>9. /\ groups \in Seq(GroupType) /\ DOMAIN groups = DOMAIN p.group
      /\ groups[g] = card /\ \A h \in DOMAIN p.group : h # g => groups[h] = p.group[h]
  BY <1>1, <1>5
<1> HIDE DEF entries, queue, groups, q
<1>10. /\ q \in PreviewRecords /\ q.entry = entries /\ q.queue = queue
       /\ q.group = groups /\ q.generation = p.generation
       /\ q.timers = p.timers /\ q.active = p.active
  BY <1>1, <1>6, <1>7, <1>8, <1>9 DEF PreviewRecords
<1>11. DOMAIN p.entry = 1..count /\ DOMAIN p.queue = 1..Len(p.queue)
       /\ Len(p.queue) \in Nat
  BY <1>1 DEF count
<1> QED
  BY <1>1, <1>5, <1>7, <1>8, <1>9, <1>10, <1>11 DEF count, q

(* The new cards restore the invariant.                                    *)
LEMMA CardsKeep ==
  ASSUME NEW p, NEW g \in DOMAIN p.group, Cleared(p, g), NEW n \in Nat
  PROVE  QueueInv(RenderCards(p, g, n)) /\ Quiet(p, RenderCards(p, g, n))
<1> DEFINE q == RenderCards(p, g, n)
           count == Len(p.entry)
           m == Len(p.queue)
<1>1. PreviewTypes(p) /\ Placed(p) /\ NoEntry \notin DOMAIN p.entry
      /\ p.timers \subseteq DOMAIN p.entry /\ NoEntry \notin Nat \ {0}
  BY EntriesAreEntries, PreviewAssumption DEF Cleared
<1>2. /\ q \in PreviewRecords /\ count \in Nat /\ DOMAIN p.entry = 1..count
      /\ q.generation = p.generation /\ q.timers = p.timers /\ q.active = p.active
      /\ DOMAIN q.entry = 1..(count + n)
      /\ \A e \in 1..count : q.entry[e] = p.entry[e]
      /\ \A e \in (count + 1)..(count + n) : q.entry[e] = NewEntry(p, g)
      /\ DOMAIN p.queue = 1..m /\ m \in Nat
      /\ DOMAIN q.queue = 1..(m + n)
      /\ \A i \in 1..m : q.queue[i] = p.queue[i]
      /\ \A i \in 1..n : q.queue[m + i] = count + i
      /\ DOMAIN q.group = DOMAIN p.group
      /\ \A h \in DOMAIN p.group : h # g => q.group[h] = p.group[h]
      /\ q.group[g].generation = p.group[g].generation
      /\ q.group[g].images = (count + 1)..(count + n) /\ q.group[g].shown
  BY <1>1, CardsFields, Zenon
<1> HIDE DEF q, count, m
<1>3. \A e \in DOMAIN q.entry : e \in DOMAIN p.entry \/ e \in (count + 1)..(count + n)
  BY <1>2
<1>4. \A e \in DOMAIN p.entry : e \in DOMAIN q.entry /\ q.entry[e] = p.entry[e]
                                /\ e \notin (count + 1)..(count + n)
  BY <1>2
<1>5. \A i \in DOMAIN q.queue :
        \/ i \in DOMAIN p.queue /\ q.queue[i] = p.queue[i]
        \/ /\ i - m \in 1..n /\ q.queue[i] = count + (i - m)
           /\ q.queue[i] \in (count + 1)..(count + n)
  <2> TAKE i \in DOMAIN q.queue
  <2>1. i \in 1..m \/ (i - m \in 1..n /\ m + (i - m) = i)
    BY <1>2
  <2>2. i - m \in 1..n => count + (i - m) \in (count + 1)..(count + n)
    BY <1>2
  <2>3. CASE i \in 1..m
    BY <1>2, <2>3
  <2>4. CASE i - m \in 1..n /\ m + (i - m) = i
    <3>1. q.queue[m + (i - m)] = count + (i - m)
      BY <1>2, <2>4
    <3> QED
      BY <2>2, <2>4, <3>1
  <2> QED
    BY <2>1, <2>3, <2>4
<1>6. \A e \in (count + 1)..(count + n) :
        /\ e \notin DOMAIN p.entry /\ e \notin p.timers /\ e # p.active
        /\ e \in DOMAIN q.entry /\ e # NoEntry
        /\ q.entry[e].group = g /\ q.entry[e].generation = q.generation
        /\ q.entry[e].groupGeneration = q.group[g].generation
        /\ q.entry[e].attempts = 0 /\ q.entry[e].visual = "image"
        /\ q.entry[e].load = "idle"
  <2> TAKE e \in (count + 1)..(count + n)
  <2>1. e \in Nat \ {0} /\ e \notin DOMAIN p.entry /\ e \in DOMAIN q.entry
    BY <1>2
  <2>2. e # NoEntry /\ e \notin p.timers /\ e # p.active
    BY <1>1, <2>1 DEF PreviewTypes
  <2> QED
    BY <1>2, <2>1, <2>2 DEF NewEntry
<1>7. PreviewTypes(q)
  <2>1. \A i \in DOMAIN q.queue : q.queue[i] \in DOMAIN q.entry
    BY <1>1, <1>4, <1>5, <1>6 DEF PreviewTypes
  <2>2. \A e \in DOMAIN q.entry : q.entry[e].group \in DOMAIN q.group
    <3> TAKE e \in DOMAIN q.entry
    <3>1. CASE e \in DOMAIN p.entry
      <4>1. p.entry[e].group \in DOMAIN p.group
        BY <1>1, <3>1 DEF PreviewTypes
      <4> QED
        BY <1>2, <1>4, <3>1, <4>1
    <3>2. CASE e \in (count + 1)..(count + n)
      BY <1>2, <1>6, <3>2
    <3> QED
      BY <1>3, <3>1, <3>2
  <2>3. \A h \in DOMAIN q.group : q.group[h].images \subseteq DOMAIN q.entry
    <3> TAKE h \in DOMAIN q.group
    <3>1. CASE h = g
      BY <1>2, <1>6, <3>1
    <3>2. CASE h # g
      BY <1>1, <1>2, <1>4, <3>2 DEF PreviewTypes
    <3> QED
      BY <3>1, <3>2
  <2>4. q.active # NoEntry => q.active \in DOMAIN q.entry
    BY <1>1, <1>2, <1>4 DEF PreviewTypes
  <2>5. q.timers \subseteq DOMAIN q.entry
    BY <1>1, <1>2, <1>4
  <2> QED
    BY <1>2, <2>1, <2>2, <2>3, <2>4, <2>5 DEF PreviewTypes, PreviewRecords
<1>8. \A i \in DOMAIN p.queue :
        /\ p.queue[i] \in DOMAIN p.entry /\ p.queue[i] \notin p.timers
        /\ p.queue[i] # p.active /\ p.entry[p.queue[i]].attempts < MaxAttempts
  BY <1>1 DEF PreviewTypes, Placed
<1>9. Placed(q)
  <2>1. \A i, j \in DOMAIN q.queue : q.queue[i] = q.queue[j] => i = j
    <3> SUFFICES ASSUME NEW i \in DOMAIN q.queue, NEW j \in DOMAIN q.queue,
                        q.queue[i] = q.queue[j]
                 PROVE  i = j
      OBVIOUS
    <3>1. CASE i \in DOMAIN p.queue /\ q.queue[i] = p.queue[i]
      <4>1. j \in DOMAIN p.queue /\ q.queue[j] = p.queue[j]
        BY <1>5, <1>6, <1>8, <3>1
      <4> QED
        BY <1>1, <3>1, <4>1 DEF Placed
    <3>2. CASE /\ i - m \in 1..n /\ q.queue[i] = count + (i - m)
               /\ q.queue[i] \in (count + 1)..(count + n)
      <4>1. q.queue[j] \notin DOMAIN p.entry
        BY <1>6, <3>2
      <4>2. j - m \in 1..n /\ q.queue[j] = count + (j - m)
        BY <1>5, <1>8, <4>1
      <4>3. i \in Nat /\ j \in Nat /\ m \in Nat /\ count \in Nat
        BY <1>2
      <4>4. count + (i - m) = count + (j - m)
        BY <3>2, <4>2
      <4> QED
        BY <4>3, <4>4
    <3> QED
      BY <1>5, <3>1, <3>2
  <2>2. \A i \in DOMAIN q.queue :
          /\ q.queue[i] # q.active /\ q.queue[i] \notin q.timers
          /\ q.entry[q.queue[i]].attempts < MaxAttempts
    <3> TAKE i \in DOMAIN q.queue
    <3>1. CASE i \in DOMAIN p.queue /\ q.queue[i] = p.queue[i]
      <4>1. /\ q.queue[i] \in DOMAIN p.entry /\ q.queue[i] \notin p.timers
            /\ q.queue[i] # p.active /\ p.entry[q.queue[i]].attempts < MaxAttempts
        BY <1>8, <3>1
      <4> QED
        BY <1>2, <1>4, <4>1
    <3>2. CASE q.queue[i] \in (count + 1)..(count + n)
      BY <1>2, <1>6, <3>2, PreviewAssumption
    <3> QED
      BY <1>5, <3>1, <3>2
  <2>3. \A e \in q.timers : q.entry[e].attempts < MaxAttempts
    BY <1>1, <1>2, <1>4 DEF Placed
  <2>4. q.active \notin q.timers
    BY <1>1, <1>2 DEF Placed
  <2> QED
    BY <2>1, <2>2, <2>3, <2>4 DEF Placed
<1>10. \A e \in DOMAIN p.entry :
         IF p.entry[e].group = g THEN Superseded(q, e)
         ELSE /\ Superseded(q, e) <=> Superseded(p, e)
              /\ IsCurrent(q, e) <=> IsCurrent(p, e)
  <2> TAKE e \in DOMAIN p.entry
  <2>1. q.entry[e] = p.entry[e] /\ e \notin q.group[g].images
    BY <1>2, <1>4
  <2>2. p.entry[e].group \in DOMAIN p.group
    BY <1>1 DEF PreviewTypes
  <2>3. p.entry[e].group # g => q.group[p.entry[e].group] = p.group[p.entry[e].group]
    BY <1>2, <2>2
  <2> QED
    BY <1>2, <2>1, <2>3 DEF Superseded, IsCurrent
<1>11. \A e \in DOMAIN q.entry : EntryFacts(q, e)
  <2> TAKE e \in DOMAIN q.entry
  <2>1. CASE e \in DOMAIN p.entry
    <3>1. q.entry[e] = p.entry[e] /\ q.active = p.active
      BY <1>2, <1>4, <2>1
    <3>2. CASE p.entry[e].group = g
      <4>1. Superseded(q, e)
        BY <1>10, <2>1, <3>2
      <4>2. /\ p.entry[e].load # "loading" /\ p.active # e
            /\ p.entry[e].attempts <= MaxAttempts
        BY <2>1, <3>2 DEF Cleared
      <4> QED
        BY <3>1, <4>1, <4>2 DEF EntryFacts
    <3>3. CASE p.entry[e].group # g
      <4>1. EntryFacts(p, e)
        BY <2>1, <3>3 DEF Cleared
      <4>2. /\ Superseded(q, e) <=> Superseded(p, e)
            /\ IsCurrent(q, e) <=> IsCurrent(p, e)
        BY <1>10, <2>1, <3>3
      <4>3. \A i \in DOMAIN p.queue : i \in DOMAIN q.queue /\ q.queue[i] = p.queue[i]
        BY <1>2
      <4>4. Waits(p, e) => Waits(q, e)
        BY <1>2, <4>3 DEF Waits
      <4>5. q.group[p.entry[e].group] = p.group[p.entry[e].group]
        BY <1>1, <1>2, <2>1, <3>3 DEF PreviewTypes
      <4> QED
        BY <1>2, <3>1, <4>1, <4>2, <4>4, <4>5 DEF EntryFacts
    <3> QED
      BY <3>2, <3>3
  <2>2. CASE e \in (count + 1)..(count + n)
    <3> DEFINE i == e - count
    <3>1. i \in 1..n /\ count + i = e
      <4>1. count \in Nat
        BY <1>2
      <4> QED
        BY <2>2, <4>1
    <3> HIDE DEF i
    <3>2. m + i \in DOMAIN q.queue
      <4>1. m \in Nat /\ DOMAIN q.queue = 1..(m + n)
        BY <1>2
      <4> QED
        BY <3>1, <4>1
    <3>3. q.queue[m + i] = e
      BY <1>2, <3>1
    <3>4. Waits(q, e)
      BY <3>2, <3>3 DEF Waits
    <3>5. 0 <= MaxAttempts
      BY PreviewAssumption
    <3> QED
      BY <1>2, <1>6, <2>2, <3>4, <3>5 DEF EntryFacts
  <2> QED
    BY <1>3, <2>1, <2>2
<1>12. Quiet(p, q)
  BY <1>2, <1>4, <1>10 DEF Quiet
<1> QED
  BY <1>7, <1>9, <1>11, <1>12 DEF QueueInv, q

(* The cards of a new group.                                               *)
LEMMA NewGroupKeeps ==
  ASSUME NEW p, QueueInv(p), NEW n \in Nat
  PROVE  LET q == RenderNew(p, n) IN QueueInv(q) /\ Pumped(q) /\ Quiet(p, q)
<1> DEFINE empty == [generation |-> 0, images |-> {}, shown |-> FALSE]
           groups == Append(p.group, empty)
           q == [p EXCEPT !.group = groups]
           g == Len(p.group) + 1
<1>1. PreviewTypes(p) /\ Placed(p) /\ p \in PreviewRecords
      /\ p.group \in Seq(GroupType) /\ Len(p.group) \in Nat
      /\ DOMAIN p.group = 1..Len(p.group)
  BY DEF QueueInv, PreviewTypes, PreviewRecords
<1>2. empty \in GroupType /\ empty.images = {}
  BY DEF GroupType
<1> HIDE DEF empty
<1>3. /\ groups \in Seq(GroupType) /\ Len(groups) = g /\ DOMAIN groups = 1..g
      /\ \A h \in DOMAIN p.group : groups[h] = p.group[h] /\ h \in DOMAIN groups
      /\ groups[g] = empty
      /\ \A h \in DOMAIN groups : h \in DOMAIN p.group \/ h = g
      /\ g \in DOMAIN groups /\ g \notin DOMAIN p.group
  BY <1>1, <1>2
<1> HIDE DEF groups, g
<1>4. /\ q \in PreviewRecords /\ q.group = groups /\ q.generation = p.generation
      /\ q.queue = p.queue /\ q.active = p.active /\ q.timers = p.timers
      /\ q.entry = p.entry
  BY <1>1, <1>3 DEF PreviewRecords
<1>5. RenderNew(p, n) = Pump(RenderCards(q, g, n))
  BY <1>1, <1>3, <1>4 DEF RenderNew, groups, empty, PreviewRecords
<1> HIDE DEF q
<1>6. PreviewTypes(q)
  <2>1. \A e \in DOMAIN q.entry : q.entry[e].group \in DOMAIN q.group
    BY <1>1, <1>3, <1>4 DEF PreviewTypes
  <2>2. \A h \in DOMAIN q.group : q.group[h].images \subseteq DOMAIN q.entry
    BY <1>1, <1>2, <1>3, <1>4 DEF PreviewTypes
  <2> QED
    BY <1>1, <1>4, <2>1, <2>2 DEF PreviewTypes, PreviewRecords
<1>7. Placed(q)
  BY <1>1, <1>4 DEF Placed
<1>8. \A e \in DOMAIN p.entry :
        /\ p.entry[e].group \in DOMAIN p.group /\ p.entry[e].group # g
        /\ q.group[p.entry[e].group] = p.group[p.entry[e].group]
  BY <1>1, <1>3, <1>4 DEF PreviewTypes
<1>9. \A e \in DOMAIN p.entry :
        /\ Superseded(q, e) <=> Superseded(p, e)
        /\ IsCurrent(q, e) <=> IsCurrent(p, e)
  BY <1>4, <1>8 DEF Superseded, IsCurrent
<1>10. \A e \in DOMAIN p.entry : EntryFacts(q, e)
  <2> TAKE e \in DOMAIN p.entry
  <2>1. EntryFacts(p, e) /\ (Waits(p, e) <=> Waits(q, e))
    BY <1>4 DEF QueueInv, Waits
  <2> QED
    BY <1>4, <1>8, <1>9, <2>1 DEF EntryFacts
<1>11. Cleared(q, g) /\ g \in DOMAIN q.group
  BY <1>3, <1>4, <1>6, <1>7, <1>8, <1>10 DEF Cleared
<1>12. Quiet(p, q)
  BY <1>3, <1>4, <1>9 DEF Quiet
<1>13. QueueInv(RenderCards(q, g, n)) /\ Quiet(q, RenderCards(q, g, n))
  BY <1>11, CardsKeep
<1> QED
  BY <1>5, <1>12, <1>13, PumpKeeps, QuietTwice

(* The queue rest has k places, and f takes each to its place in s; rest   *)
(* has what s has of keep.                                                 *)
KeptBy(rest, s, keep, k, f) ==
  /\ rest \in Seq(Nat) /\ DOMAIN rest = 1..k
  /\ \A i \in 1..k : f[i] \in DOMAIN s /\ rest[i] = s[f[i]] /\ s[f[i]] \in keep
  /\ \A i, j \in 1..k : f[i] = f[j] => i = j
  /\ \A i \in DOMAIN s : s[i] \in keep => \E j \in 1..k : f[j] = i

(* What is left of a queue once some entries were filtered out.            *)
LEMMA KeptQueue ==
  ASSUME NEW s \in Seq(Nat), NEW keep
  PROVE  \E k \in Nat : \E f : KeptBy(Restricted(s, keep), s, keep, k, f)
<1> DEFINE rest == Restricted(s, keep)
           n == Len(s)
           P == Chosen(s, keep)
           c == Cardinality(P)
<1>1. n \in Nat /\ DOMAIN s = 1..n
  OBVIOUS
<1> HIDE DEF n
<1>2. /\ c \in 0..n
      /\ \E e : /\ Enumerates(e, c, P)
                /\ Restricted(s, keep) = [i \in 1..c |-> s[e[i]]]
  BY <1>1, RestrictedFacts
<1>3. PICK e : Enumerates(e, c, P) /\ Restricted(s, keep) = [i \in 1..c |-> s[e[i]]]
  BY <1>2
<1>4. \A i \in P : i \in DOMAIN s /\ s[i] \in keep
  BY DEF Chosen
<1>5. \A i \in DOMAIN s : s[i] \in keep => i \in P
  BY DEF Chosen
<1>6. c \in Nat
  BY <1>1, <1>2
<1> HIDE DEF c, P
<1>7. \A i \in 1..c : e[i] \in P
  BY <1>3 DEF Enumerates
<1>8. \A i, j \in 1..c : e[i] = e[j] => i = j
  <2> SUFFICES ASSUME NEW i \in 1..c, NEW j \in 1..c, e[i] = e[j], i # j
               PROVE  FALSE
    OBVIOUS
  <2>1. i < j \/ j < i
    BY <1>6
  <2>2. e[i] < e[j] \/ e[j] < e[i]
    BY <1>3, <2>1 DEF Enumerates
  <2>3. e[i] \in Nat
    BY <1>1, <1>4, <1>7
  <2> QED
    BY <2>2, <2>3
<1>9. \A i \in 1..c : s[e[i]] \in Nat
  BY <1>1, <1>4, <1>7
<1>10. rest \in Seq(Nat) /\ DOMAIN rest = 1..c /\ \A i \in 1..c : rest[i] = s[e[i]]
  BY <1>3, <1>6, <1>9
<1>11. \A i \in DOMAIN s : s[i] \in keep => \E j \in 1..c : e[j] = i
  BY <1>3, <1>5 DEF Enumerates
<1> HIDE DEF rest
<1>12. \A i \in 1..c : e[i] \in DOMAIN s /\ s[e[i]] \in keep
  BY <1>4, <1>7
<1>13. KeptBy(rest, s, keep, c, e)
  BY <1>8, <1>10, <1>11, <1>12 DEF KeptBy
<1> QED
  BY <1>6, <1>13, Zenon DEF rest

(* invalidateGroupPreviews.                                                *)
LEMMA InvalidatedIsCleared ==
  ASSUME NEW p, QueueInv(p), NEW g \in DOMAIN p.group
  PROVE  LET q == InvalidateGroup(p, g) IN
         Cleared(q, g) /\ Quiet(p, q) /\ g \in DOMAIN q.group
<1> DEFINE keep == Others(p, g)
           d == IF p.active \in keep THEN p ELSE DropActive(p)
           rest == Restricted(p.queue, keep)
           card == [p.group[g] EXCEPT !.generation = @ + 1]
           groups == [p.group EXCEPT ![g] = card]
           q == InvalidateGroup(p, g)
<1>1. PreviewTypes(p) /\ Placed(p) /\ p \in PreviewRecords
      /\ p.group \in Seq(GroupType) /\ p.group[g] \in GroupType
      /\ p.queue \in Seq(Nat) /\ Len(p.queue) \in Nat
      /\ DOMAIN p.queue = 1..Len(p.queue)
      /\ NoEntry \notin DOMAIN p.entry /\ p.timers \subseteq DOMAIN p.entry
  <2>1. PreviewTypes(p) /\ Placed(p) /\ p \in PreviewRecords
    BY DEF QueueInv, PreviewTypes, PreviewRecords
  <2>2. p.group \in Seq(GroupType) /\ p.queue \in Seq(Nat)
    BY <2>1 DEF PreviewRecords
  <2>3. NoEntry \notin DOMAIN p.entry /\ p.timers \subseteq DOMAIN p.entry
    BY <2>1, EntriesAreEntries
  <2> QED
    BY <2>1, <2>2, <2>3
<1>2. /\ d \in PreviewRecords
      /\ d.generation = p.generation /\ d.group = p.group
      /\ d.queue = p.queue /\ d.timers = p.timers
      /\ d.active = (IF p.active \in keep THEN p.active ELSE NoEntry)
      /\ DOMAIN d.entry = DOMAIN p.entry
      /\ \A e \in DOMAIN p.entry :
           /\ d.entry[e].group = p.entry[e].group
           /\ d.entry[e].generation = p.entry[e].generation
           /\ d.entry[e].groupGeneration = p.entry[e].groupGeneration
           /\ d.entry[e].attempts = p.entry[e].attempts
           /\ d.entry[e].visual = p.entry[e].visual
           /\ d.entry[e].load = IF e = p.active /\ e \notin keep
                                THEN "late" ELSE p.entry[e].load
  <2>1. CASE p.active \in keep
    BY <1>1, <2>1
  <2>2. CASE p.active \notin keep
    <3>1. d = DropActive(p)
      BY <2>2
    <3> HIDE DEF d, keep
    <3> QED
      BY <1>1, <2>2, <3>1, DropFields
  <2> QED
    BY <2>1, <2>2
<1>3. \A e \in DOMAIN p.entry : e \in keep <=> p.entry[e].group # g
  BY DEF Others
<1> HIDE DEF d, keep
<1>4. PICK k \in Nat : \E f : KeptBy(rest, p.queue, keep, k, f)
  <2>1. p.queue \in Seq(Nat)
    BY <1>1
  <2> QED
    BY <2>1, KeptQueue, Zenon
<1> PICK f : KeptBy(rest, p.queue, keep, k, f)
  BY <1>4
<1>16. /\ rest \in Seq(Nat) /\ DOMAIN rest = 1..k
       /\ \A i \in 1..k : f[i] \in DOMAIN p.queue /\ rest[i] = p.queue[f[i]]
                          /\ p.queue[f[i]] \in keep
       /\ \A i, j \in 1..k : f[i] = f[j] => i = j
       /\ \A i \in DOMAIN p.queue : p.queue[i] \in keep => \E j \in 1..k : f[j] = i
  BY DEF KeptBy
<1>5. /\ card \in GroupType /\ card.images = p.group[g].images
      /\ card.shown = p.group[g].shown
  <2>1. p.group[g].generation + 1 \in Nat
    BY <1>1 DEF GroupType
  <2> DEFINE x == p.group[g].generation + 1
  <2> HIDE DEF x
  <2>2. x \in Nat => [p.group[g] EXCEPT !.generation = x] \in GroupType
    BY <1>1 DEF GroupType
  <2>3. card = [p.group[g] EXCEPT !.generation = x]
    BY <1>1 DEF x, GroupType
  <2> QED
    BY <1>1, <2>1, <2>2, <2>3 DEF x, GroupType
<1>6. q = [d EXCEPT !.group = groups, !.queue = rest]
  <2>1. q = [d EXCEPT !.group[g].generation = @ + 1, !.queue = Restricted(@, keep)]
    BY DEF InvalidateGroup, d, keep
  <2>2. d.group[g] = p.group[g] /\ d.queue = p.queue
    BY <1>2
  <2> QED
    BY <1>1, <1>2, <2>1, <2>2 DEF PreviewRecords, GroupType
<1> HIDE DEF card, rest
<1>7. /\ groups \in Seq(GroupType) /\ DOMAIN groups = DOMAIN p.group
      /\ groups[g] = card /\ \A h \in DOMAIN p.group : h # g => groups[h] = p.group[h]
  BY <1>1, <1>5
<1> HIDE DEF groups, q
<1>8. /\ q \in PreviewRecords /\ q.group = groups /\ q.queue = rest
      /\ q.generation = p.generation /\ q.timers = p.timers
      /\ q.active = d.active /\ q.entry = d.entry
  BY <1>2, <1>16, <1>6, <1>7 DEF PreviewRecords
<1>9. \A h \in DOMAIN p.group :
        q.group[h].images = p.group[h].images /\ q.group[h].shown = p.group[h].shown
  BY <1>5, <1>7, <1>8
<1>10. \A e \in DOMAIN p.entry :
         /\ p.entry[e].group \in DOMAIN p.group
         /\ Superseded(q, e) <=> Superseded(p, e)
  BY <1>1, <1>2, <1>8, <1>9 DEF Superseded, PreviewTypes
<1>11. \A i \in DOMAIN q.queue :
         /\ q.queue[i] \in DOMAIN p.entry /\ q.queue[i] \in keep
         /\ q.queue[i] # p.active /\ q.queue[i] \notin p.timers
         /\ p.entry[q.queue[i]].attempts < MaxAttempts
  <2> TAKE i \in DOMAIN q.queue
  <2>1. f[i] \in DOMAIN p.queue /\ q.queue[i] = p.queue[f[i]] /\ q.queue[i] \in keep
    BY <1>16, <1>8
  <2> QED
    BY <1>1, <2>1 DEF Placed, PreviewTypes
<1>12. PreviewTypes(q)
  <2>1. \A e \in DOMAIN q.entry : q.entry[e].group \in DOMAIN q.group
    BY <1>2, <1>7, <1>8, <1>10
  <2>2. \A h \in DOMAIN q.group : q.group[h].images \subseteq DOMAIN q.entry
    <3> TAKE h \in DOMAIN q.group
    <3>1. h \in DOMAIN p.group /\ DOMAIN q.entry = DOMAIN p.entry
      BY <1>2, <1>7, <1>8
    <3>2. p.group[h].images \subseteq DOMAIN p.entry
      BY <1>1, <3>1 DEF PreviewTypes
    <3> QED
      BY <1>9, <3>1, <3>2
  <2>3. q.active # NoEntry => q.active \in DOMAIN q.entry
    BY <1>1, <1>2, <1>8 DEF PreviewTypes
  <2> QED
    BY <1>1, <1>2, <1>8, <1>11, <2>1, <2>2, <2>3 DEF PreviewTypes, PreviewRecords
<1>13. Placed(q)
  <2>1. \A i, j \in DOMAIN q.queue : q.queue[i] = q.queue[j] => i = j
    <3> SUFFICES ASSUME NEW i \in DOMAIN q.queue, NEW j \in DOMAIN q.queue,
                        q.queue[i] = q.queue[j]
                 PROVE  i = j
      OBVIOUS
    <3>1. i \in 1..k /\ j \in 1..k /\ p.queue[f[i]] = p.queue[f[j]]
          /\ f[i] \in DOMAIN p.queue /\ f[j] \in DOMAIN p.queue
      BY <1>16, <1>8
    <3>2. f[i] = f[j]
      BY <1>1, <3>1 DEF Placed
    <3> QED
      BY <1>16, <3>1, <3>2
  <2>2. q.active = p.active \/ q.active = NoEntry
    BY <1>2, <1>8
  <2>3. \A i \in DOMAIN q.queue :
          /\ q.queue[i] # q.active /\ q.queue[i] \notin q.timers
          /\ q.entry[q.queue[i]].attempts < MaxAttempts
    BY <1>1, <1>2, <1>8, <1>11, <2>2
  <2>4. q.active \notin q.timers /\ \A e \in q.timers : q.entry[e].attempts < MaxAttempts
    BY <1>1, <1>2, <1>8, <2>2 DEF Placed
  <2> QED
    BY <2>1, <2>3, <2>4 DEF Placed
<1>14. ASSUME NEW e \in DOMAIN q.entry
       PROVE  IF q.entry[e].group = g
              THEN /\ q.entry[e].load # "loading" /\ q.active # e
                   /\ q.entry[e].attempts <= MaxAttempts
              ELSE EntryFacts(q, e)
  <2>1. e \in DOMAIN p.entry /\ EntryFacts(p, e) /\ e # NoEntry
        /\ q.entry[e].group = p.entry[e].group
        /\ q.entry[e].attempts = p.entry[e].attempts
    BY <1>1, <1>2, <1>8 DEF QueueInv
  <2>2. CASE p.entry[e].group = g
    <3>1. e \notin keep /\ q.active # e
      BY <1>2, <1>3, <1>8, <2>1, <2>2
    <3>2. q.entry[e].load # "loading"
      BY <1>2, <1>8, <2>1, <3>1 DEF EntryFacts
    <3>3. p.entry[e].attempts <= MaxAttempts
      BY <2>1 DEF EntryFacts
    <3> QED
      BY <2>1, <2>2, <3>1, <3>2, <3>3
  <2>3. CASE p.entry[e].group # g
    <3>1. e \in keep /\ q.group[p.entry[e].group] = p.group[p.entry[e].group]
      BY <1>3, <1>7, <1>8, <1>10, <2>1, <2>3
    <3>2. /\ q.entry[e].load = p.entry[e].load
          /\ q.entry[e].visual = p.entry[e].visual
          /\ q.entry[e].generation = p.entry[e].generation
          /\ q.entry[e].groupGeneration = p.entry[e].groupGeneration
          /\ q.active = e <=> p.active = e
      BY <1>2, <1>8, <2>1, <3>1
    <3>3. IsCurrent(q, e) <=> IsCurrent(p, e)
      BY <1>8, <2>1, <3>1, <3>2 DEF IsCurrent
    <3>4. Waits(p, e) => Waits(q, e)
      <4>1. ASSUME NEW i \in DOMAIN p.queue, p.queue[i] = e
            PROVE  \E j \in DOMAIN q.queue : q.queue[j] = e
        BY <1>16, <1>8, <3>1, <4>1
      <4> QED
        BY <1>8, <3>2, <4>1 DEF Waits
    <3> QED
      BY <1>8, <1>10, <2>1, <2>3, <3>1, <3>2, <3>3, <3>4 DEF EntryFacts
  <2> QED
    BY <2>1, <2>2, <2>3
<1>15. Quiet(p, q)
  BY <1>2, <1>7, <1>8, <1>10 DEF Quiet
<1> QED
  BY <1>7, <1>8, <1>12, <1>13, <1>14, <1>15 DEF Cleared, q

(* The cards of a group that was analysed again.                           *)
LEMMA SameGroupKeeps ==
  ASSUME NEW p, QueueInv(p), NEW g \in DOMAIN p.group, NEW n \in Nat
  PROVE  LET q == RenderAgain(p, g, n) IN QueueInv(q) /\ Pumped(q) /\ Quiet(p, q)
<1> DEFINE i == InvalidateGroup(p, g)
<1>1. Cleared(i, g) /\ Quiet(p, i) /\ g \in DOMAIN i.group
  BY InvalidatedIsCleared
<1> HIDE DEF i
<1>2. QueueInv(RenderCards(i, g, n)) /\ Quiet(i, RenderCards(i, g, n))
  BY <1>1, CardsKeep
<1>3. RenderAgain(p, g, n) = Pump(RenderCards(i, g, n))
  BY DEF RenderAgain, i
<1> QED
  BY <1>1, <1>2, <1>3, PumpKeeps, QuietTwice

-----------------------------------------------------------------------------
(* The steps of the page.                                                  *)

(* There is no preview at first.                                           *)
LEMMA InitPreviewsInv == PageInit => PreviewsInv
<1> SUFFICES ASSUME PageInit
             PROVE  PreviewsInv
  OBVIOUS
<1> DEFINE p == preview
<1>1. /\ p.generation = 0 /\ p.queue = <<>> /\ p.active = NoEntry
      /\ p.timers = {} /\ p.entry = <<>> /\ p.group = <<>>
      /\ p = [generation |-> 0, queue |-> <<>>, active |-> NoEntry, timers |-> {},
              entry |-> <<>>, group |-> <<>>]
  BY DEF PageInit, NoPreviews
<1>2. \A S : <<>> \in Seq(S) /\ DOMAIN <<>> = {}
  OBVIOUS
<1>3. PreviewTypes(p)
  <2>1. p.queue \in Seq(Nat) /\ p.entry \in Seq(EntryType) /\ p.group \in Seq(GroupType)
    BY <1>1, <1>2
  <2> QED
    BY <1>1, <1>2, <2>1 DEF PreviewTypes
<1>4. Placed(p) /\ Pumped(p)
  BY <1>1, <1>2 DEF Placed, Pumped
<1>5. \A e \in DOMAIN p.entry : EntryFacts(p, e)
  BY <1>1, <1>2
<1>6. GroupKnown
  BY DEF PageInit, NoExtraction, GroupKnown
<1> QED
  BY <1>3, <1>4, <1>5, <1>6 DEF PreviewsInv, QueueInv

(* What every step of the page does to the queue.                          *)
KeepsQueue ==
  QueueInv(preview') /\ Pumped(preview') /\ Quiet(preview, preview')

(* A step that leaves the queue alone is quiet.                            *)
LEMMA StaysKeepsQueue ==
  ASSUME PreviewsInv, UNCHANGED preview
  PROVE  KeepsQueue
BY DEF PreviewsInv, KeepsQueue, Quiet

(* An answer renders cards in a new group, in its own, or none.            *)
LEMMA AnsweredKeepsQueue ==
  ASSUME PreviewsInv, NEW ok \in BOOLEAN, NEW n \in 0..MaxPreviews,
         SingleAnswered(ok, n) \/ BatchAnswered(ok, n) \/ GroupAnswered(ok, n)
  PROVE  KeepsQueue
<1>1. n \in Nat /\ QueueInv(preview)
  BY PageAssumption DEF PreviewsInv
<1>2. CASE preview' = preview
  BY <1>2, StaysKeepsQueue
<1>3. CASE preview' = RenderNew(preview, n)
  BY <1>1, <1>3, NewGroupKeeps DEF KeepsQueue
<1>4. ASSUME GroupAnswered(ok, n),
             preview' = RenderAgain(preview, activeExtraction.group, n)
      PROVE  KeepsQueue
  <2>1. activeExtraction.group \in DOMAIN preview.group
    BY <1>4 DEF GroupAnswered, PreviewsInv, GroupKnown
  <2> QED
    BY <1>1, <1>4, <2>1, SameGroupKeeps DEF KeepsQueue
<1> QED
  BY <1>2, <1>3, <1>4 DEF SingleAnswered, BatchAnswered, GroupAnswered

(* An event of an image, in time or late.                                  *)
LEMMA EventKeepsQueue ==
  ASSUME PreviewsInv, NEW e \in DOMAIN preview.entry, NEW loaded \in BOOLEAN,
         ImageEvent(e, loaded)
  PROVE  KeepsQueue
<1>1. QueueInv(preview)
  BY DEF PreviewsInv
<1>2. CASE preview.entry[e].load = "late"
  <2>1. preview' = Complete([preview EXCEPT !.entry[e].load = "late"], e, loaded)
    BY <1>2 DEF ImageEvent
  <2>2. preview' = preview
    BY <1>1, <1>2, <2>1, LateEventKeeps
  <2> QED
    BY <2>2, StaysKeepsQueue
<1>3. CASE preview.entry[e].load = "loading"
  <2> DEFINE v == IF loaded THEN "loaded" ELSE "idle"
  <2>1. preview' = Complete([preview EXCEPT !.entry[e].load = v], e, loaded)
    BY <1>3 DEF ImageEvent
  <2> QED
    BY <1>1, <1>3, <2>1, ActiveEventKeeps DEF KeepsQueue
<1> QED
  BY <1>2, <1>3 DEF ImageEvent

(* Every step of the page keeps the queue.                                 *)
LEMMA StepKeepsQueue ==
  ASSUME PreviewsInv, [PageNext]_pageVars
  PROVE  KeepsQueue
<1>1. CASE Analyze
  BY <1>1, ClearKeeps DEF Analyze, PreviewsInv, KeepsQueue
<1>2. CASE \E size \in 1..MaxBatch : AnalyzeBatch(size)
  BY <1>2, StaysKeepsQueue DEF AnalyzeBatch
<1>3. CASE StopBatch
  BY <1>3, StaysKeepsQueue DEF StopBatch
<1>4. CASE \E g \in DOMAIN preview.group : ReAnalyzeGroup(g)
  BY <1>4, StaysKeepsQueue DEF ReAnalyzeGroup
<1>5. CASE Answered
  BY <1>5, AnsweredKeepsQueue DEF Answered
<1>6. ASSUME NEW e \in DOMAIN preview.entry, RetryTimer(e)
      PROVE  KeepsQueue
  BY <1>6, RetryKeeps DEF RetryTimer, PreviewsInv, KeepsQueue
<1>7. ASSUME NEW e \in DOMAIN preview.entry, NEW loaded \in BOOLEAN,
             ImageEvent(e, loaded)
      PROVE  KeepsQueue
  BY <1>7, EventKeepsQueue
<1>8. CASE UNCHANGED pageVars
  BY <1>8, StaysKeepsQueue DEF pageVars
<1> QED
  BY <1>1, <1>2, <1>3, <1>4, <1>5, <1>6, <1>7, <1>8 DEF PageNext, Progress

(* An analysis of a group starts with one that is on the page.             *)
LEMMA StepKeepsGroup ==
  ASSUME PreviewsInv, [PageNext]_pageVars
  PROVE  GroupKnown'
<1>1. DOMAIN preview.group \subseteq DOMAIN preview'.group
  BY StepKeepsQueue DEF KeepsQueue, Quiet
<1>2. CASE UNCHANGED activeExtraction
  BY <1>1, <1>2 DEF PreviewsInv, GroupKnown
<1>3. CASE activeExtraction'.purpose # "group"
  BY <1>3 DEF GroupKnown
<1>4. ASSUME NEW g \in DOMAIN preview.group, ReAnalyzeGroup(g)
      PROVE  GroupKnown'
  BY <1>1, <1>4 DEF ReAnalyzeGroup, GroupKnown
<1>5. CASE Answered
  BY <1>2, <1>3, <1>5 DEF Answered, SingleAnswered, BatchAnswered, GroupAnswered,
       Continue, NoExtraction
<1>6. CASE Analyze \/ \E size \in 1..MaxBatch : AnalyzeBatch(size)
  BY <1>3, <1>6 DEF Analyze, AnalyzeBatch
<1>7. CASE StopBatch \/ UNCHANGED pageVars
  BY <1>2, <1>7 DEF StopBatch, analysisVars, pageVars
<1>8. CASE \E e \in DOMAIN preview.entry :
             RetryTimer(e) \/ \E loaded \in BOOLEAN : ImageEvent(e, loaded)
  BY <1>2, <1>8 DEF RetryTimer, ImageEvent, analysisVars
<1> QED
  BY <1>4, <1>5, <1>6, <1>7, <1>8 DEF PageNext, Progress

(* The invariant holds of the page.                                        *)
LEMMA PreviewsInvHolds == PageSpec => []PreviewsInv
<1>1. PreviewsInv /\ [PageNext]_pageVars => PreviewsInv'
  BY StepKeepsQueue, StepKeepsGroup DEF KeepsQueue, PreviewsInv
<1> QED
  BY <1>1, InitPreviewsInv, PTL DEF PageSpec

(* For any number of groups, images, attempts and events that come late,   *)
(* one image at most is loading, it is one of the page, and every image    *)
(* that is still to come has its one place (static/app.js                  *)
(* pumpPreviewQueue).                                                      *)
THEOREM OneIsLoadedAtATime == PageSpec => []OnePreviewAtATime
BY PreviewsInvHolds, OneIsLoading, PTL

(* Whatever still comes for a card that is gone, its image is given no     *)
(* source again and nothing takes its place (static/app.js                 *)
(* isCurrentPreviewEntry).                                                 *)
THEOREM SupersededIsQuiet == PageSpec => SupersededStaysQuiet
<1>1. PreviewsInv /\ [PageNext]_pageVars =>
        [\A e \in DOMAIN preview.entry :
           Superseded(preview, e) =>
             /\ Superseded(preview', e)
             /\ preview'.entry[e].attempts = preview.entry[e].attempts
             /\ preview'.entry[e].visual = preview.entry[e].visual]_pageVars
  BY StepKeepsQueue DEF KeepsQueue, Quiet
<1> QED
  BY <1>1, PreviewsInvHolds, PTL DEF PageSpec, SupersededStaysQuiet
=============================================================================

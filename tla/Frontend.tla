------------------------------ MODULE Frontend ------------------------------
(***************************************************************************)
(* The page of static/app.js: single and batch analyses, the re-analysis   *)
(* of a group, and the previews of what they show (PreviewQueue).  A step  *)
(* is a handler of the page with the continuations that run before the     *)
(* next event.  The server and the images are external: they answer in any *)
(* order.  The recovery of a group is offered after a download that failed *)
(* whenever the user tries one; downloads themselves are left out.         *)
(***************************************************************************)
EXTENDS PreviewQueue

CONSTANTS
  MaxBatch,      (* MAX_BATCH_URLS                                         *)
  MaxPreviews,   (* bound on the previews of one result                    *)
  MaxGroups,     (* bounds on the results ever shown, on the images of     *)
  MaxEntries,    (* theirs and on the requests of the user                 *)
  MaxRequests

ASSUME PageAssumption == MaxBatch \in Nat /\ MaxPreviews \in Nat

VARIABLES
  preview,              (* the state of PreviewQueue                       *)
  extractionGeneration,
  activeExtraction,     (* the request under way: its purpose, the         *)
                        (* generation it belongs to, and its group         *)
  run,                  (* the batch run that was started last             *)
  recoveryGeneration,   (* of each group                                   *)
  requests              (* requests of the user so far                     *)

analysisVars == <<extractionGeneration, activeExtraction, run, recoveryGeneration>>
pageVars == <<preview, analysisVars, requests>>

NoExtraction == [purpose |-> "none", generation |-> 0, group |-> 0]
NoRun == [active |-> FALSE, generation |-> 0, stopped |-> FALSE, items |-> <<>>]

Locked == activeExtraction.purpose # "none" \/ run.active

(* Room for a result with n previews in a new group or in an old one.      *)
Room(n, groups) ==
  /\ Len(preview.entry) + n <= MaxEntries
  /\ Len(preview.group) + groups <= MaxGroups

UserActs == requests < MaxRequests /\ requests' = requests + 1

(* Faulty variant of StopPending: the one that is running is stopped, too. *)
StopAll(items) ==
  [i \in DOMAIN items |->
     IF items[i] \in {"pending", "running"} THEN "stopped" ELSE items[i]]

(* stopPendingBatchItems                                                   *)
StopPending(items) ==
  [i \in DOMAIN items |-> IF items[i] = "pending" THEN "stopped" ELSE items[i]]

-----------------------------------------------------------------------------

(* analyze, up to the request                                              *)
Analyze ==
  /\ ~Locked
  /\ UserActs
  /\ extractionGeneration' = extractionGeneration + 1
  /\ preview' = ClearResults(preview)
  /\ activeExtraction' =
       [purpose |-> "single", generation |-> extractionGeneration + 1, group |-> 0]
  /\ UNCHANGED <<run, recoveryGeneration>>

(* The answer of the server: a result with n previews, or an error.        *)
SingleAnswered(ok, n) ==
  /\ activeExtraction.purpose = "single"
  /\ activeExtraction' = NoExtraction
  /\ LET shows == ok /\ activeExtraction.generation = extractionGeneration IN
     /\ shows => Room(n, 1)
     /\ preview' = IF shows THEN RenderNew(preview, n) ELSE preview
     /\ recoveryGeneration' =
          IF shows THEN Append(recoveryGeneration, 0) ELSE recoveryGeneration
  /\ UNCHANGED <<extractionGeneration, run, requests>>

(* analyzeBatch, up to its first request                                   *)
AnalyzeBatch(size) ==
  /\ ~Locked
  /\ UserActs
  /\ extractionGeneration' = extractionGeneration + 1
  /\ run' = [active |-> TRUE, generation |-> extractionGeneration + 1,
             stopped |-> FALSE,
             items |-> [i \in 1..size |-> IF i = 1 THEN "running" ELSE "pending"]]
  /\ activeExtraction' =
       [purpose |-> "batch", generation |-> extractionGeneration + 1, group |-> 0]
  /\ UNCHANGED <<preview, recoveryGeneration>>

Current == CHOOSE i \in DOMAIN run.items : run.items[i] = "running"

(* The loop goes on: the next item is requested, or the run is over.       *)
Continue(items, i) ==
  IF run.stopped \/ i = Len(items)
  THEN /\ run' = [run EXCEPT !.active = FALSE,
                             !.items = IF run.stopped THEN StopPending(items) ELSE items]
       /\ activeExtraction' = NoExtraction
  ELSE /\ run' = [run EXCEPT !.items = [items EXCEPT ![i + 1] = "running"]]
       /\ UNCHANGED activeExtraction

BatchAnswered(ok, n) ==
  /\ activeExtraction.purpose = "batch"
  /\ IF run.generation # extractionGeneration
     THEN /\ run' = [run EXCEPT !.active = FALSE]
          /\ activeExtraction' = NoExtraction
          /\ UNCHANGED <<preview, recoveryGeneration>>
     ELSE /\ ok => Room(n, 1)
          /\ Continue([run.items EXCEPT ![Current] = IF ok THEN "success" ELSE "error"],
                      Current)
          /\ preview' = IF ok THEN RenderNew(preview, n) ELSE preview
          /\ recoveryGeneration' =
               IF ok THEN Append(recoveryGeneration, 0) ELSE recoveryGeneration
  /\ UNCHANGED <<extractionGeneration, requests>>

(* stopBatch                                                               *)
StopBatch ==
  /\ run.active
  /\ ~run.stopped   (* the button is disabled                              *)
  /\ run' = [run EXCEPT !.stopped = TRUE, !.items = StopPending(@)]
  /\ UNCHANGED <<preview, extractionGeneration, activeExtraction,
                 recoveryGeneration, requests>>

(* reAnalyzeGroup, up to the request                                       *)
ReAnalyzeGroup(g) ==
  /\ ~Locked
  /\ UserActs
  /\ preview.group[g].shown
  /\ recoveryGeneration' = [recoveryGeneration EXCEPT ![g] = @ + 1]
  /\ activeExtraction' =
       [purpose |-> "group", generation |-> recoveryGeneration[g] + 1, group |-> g]
  /\ UNCHANGED <<preview, extractionGeneration, run>>

GroupAnswered(ok, n) ==
  /\ activeExtraction.purpose = "group"
  /\ LET g == activeExtraction.group
         shows == ok /\ activeExtraction.generation = recoveryGeneration[g]
     IN
     /\ shows => Room(n, 0)
     /\ preview' = IF shows THEN RenderAgain(preview, g, n) ELSE preview
  /\ activeExtraction' = NoExtraction
  /\ UNCHANGED <<extractionGeneration, run, recoveryGeneration, requests>>

Answered ==
  \E ok \in BOOLEAN, n \in 0..MaxPreviews :
    /\ ok \/ n = 0
    /\ SingleAnswered(ok, n) \/ BatchAnswered(ok, n) \/ GroupAnswered(ok, n)

-----------------------------------------------------------------------------

(* An image loads or fails, in time or late.                               *)
ImageEvent(e, loaded) ==
  /\ LET load == preview.entry[e].load IN
     /\ load \in {"loading", "late"}
     /\ preview' =
          Complete([preview EXCEPT !.entry[e].load =
                      IF load = "late" THEN "late"
                      ELSE IF loaded THEN "loaded" ELSE "idle"],
                   e, loaded)
  /\ UNCHANGED <<analysisVars, requests>>

RetryTimer(e) ==
  /\ e \in preview.timers
  /\ preview' = Retry(preview, e)
  /\ UNCHANGED <<analysisVars, requests>>

(* What happens of itself.                                                 *)
Progress ==
  \/ Answered
  \/ \E e \in DOMAIN preview.entry :
       RetryTimer(e) \/ \E loaded \in BOOLEAN : ImageEvent(e, loaded)

PageInit ==
  /\ preview = NoPreviews
  /\ extractionGeneration = 0
  /\ activeExtraction = NoExtraction
  /\ run = NoRun
  /\ recoveryGeneration = <<>>
  /\ requests = 0

PageNext ==
  \/ Analyze
  \/ \E size \in 1..MaxBatch : AnalyzeBatch(size)
  \/ StopBatch
  \/ \E g \in DOMAIN preview.group : ReAnalyzeGroup(g)
  \/ Progress

PageSpec == PageInit /\ [][PageNext]_pageVars

(* A request gets an answer, as the service bounds each extraction and the *)
(* browser reports a lost connection; an image that is given a source      *)
(* loads or fails, and timers fire.  It is enough that one of these goes   *)
(* on, for each starts only so many others.                                *)
FairPageSpec == PageSpec /\ WF_pageVars(Progress)

-----------------------------------------------------------------------------

(* The card of the entry has been replaced or cleared.                     *)
Superseded(p, e) ==
  LET g == p.entry[e].group IN ~p.group[g].shown \/ e \notin p.group[g].images

Unsettled(e) ==
  /\ e \in DOMAIN preview.entry
  /\ ~Superseded(preview, e)
  /\ preview.entry[e].visual = "image" /\ preview.entry[e].load # "loaded"

(* However groups are rendered, replaced and cleared while images load,    *)
(* fail and are retried, one image at most is loading and it belongs to a  *)
(* card on the page; each image still to come is the one that loads, or is *)
(* queued or to be retried, in one of these ways and once; and the queue   *)
(* never stands still (static/app.js pumpPreviewQueue,                     *)
(* invalidateGroupPreviews, completePreviewAttempt).                       *)
OnePreviewAtATime ==
  LET p == preview
      Places(e) ==
        (IF p.active = e THEN 1 ELSE 0) + (IF e \in p.timers THEN 1 ELSE 0)
        + Cardinality({i \in DOMAIN p.queue : p.queue[i] = e})
  IN
  /\ \A e \in DOMAIN p.entry :
       /\ p.entry[e].load = "loading" <=> p.active = e
       /\ p.entry[e].attempts <= MaxAttempts
       /\ p.active = e => ~Superseded(p, e)
       /\ Unsettled(e) => Places(e) = 1
  /\ p.queue # <<>> => p.active # NoEntry

(* Once its card is gone, an entry stays as it is whatever events and      *)
(* timers still come for it: its image is given no source again and        *)
(* nothing takes its place (static/app.js isCurrentPreviewEntry,           *)
(* schedulePreviewRetry).                                                  *)
SupersededStaysQuiet ==
  [][\A e \in DOMAIN preview.entry :
       Superseded(preview, e) =>
         /\ Superseded(preview', e)
         /\ preview'.entry[e].attempts = preview.entry[e].attempts
         /\ preview'.entry[e].visual = preview.entry[e].visual]_pageVars

(* The queue of a batch tells what happens: while the run is active one    *)
(* item is running and its request is the only one, what came before it    *)
(* has succeeded or failed, and what follows is all pending, or stopped    *)
(* once the user has said so; and when it is over nothing is left pending  *)
(* or running (static/app.js analyzeBatch, stopBatch, requestExtraction).  *)
BatchTellsTheTruth ==
  LET items == run.items
      settled == {"success", "error"}
  IN
  /\ run.active <=> activeExtraction.purpose = "batch"
  /\ IF run.active
     THEN \E i \in DOMAIN items :
            /\ items[i] = "running"
            /\ \A j \in 1..(i - 1) : items[j] \in settled
            /\ \A j \in (i + 1)..Len(items) :
                 items[j] = IF run.stopped THEN "stopped" ELSE "pending"
     ELSE \A i \in DOMAIN items : items[i] \in settled \cup {"stopped"}

(* Every card on the page ends up with its picture or with the tile that   *)
(* stands for one, unless it is replaced, and every batch comes to its end *)
(* (static/app.js completePreviewAttempt, analyzeBatch).                   *)
PreviewsSettle ==
  []<>(~run.active /\ \A e \in DOMAIN preview.entry : ~Unsettled(e))
=============================================================================

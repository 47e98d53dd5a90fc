--------------------------- MODULE ExtractorProcess ---------------------------
(***************************************************************************)
(* One run of gallery-dl: GalleryDlRunner.extract and _communicate of      *)
(* extractor/gallery_dl.py, the two tasks that read the pipes, the task    *)
(* that waits for the exit, and _stop_extraction_process.  Timers are      *)
(* steps that may come at any moment of the await they bound; the child    *)
(* may write, exit, hang or ignore SIGTERM as it likes.  A unit of output  *)
(* stands for a byte.                                                      *)
(***************************************************************************)
EXTENDS Naturals, FiniteSetsExt

CONSTANTS
  OutputLimit,   (* extraction_output_limit                                *)
  StderrLimit,   (* _EXTRACTION_STDERR_LIMIT                               *)
  ReadChunk,     (* _EXTRACTION_READ_CHUNK                                 *)
  PipeSize,      (* what a pipe and its stream reader hold                 *)
  MaxWritten,    (* bound on what the child writes to each pipe            *)
  MaxCancels,    (* bound on the cancellations by the caller               *)
  TargetKind     (* kind of the validated target                           *)

ASSUME ExtractorAssumption ==
  /\ OutputLimit \in Nat /\ StderrLimit \in Nat
  /\ ReadChunk \in Nat \ {0} /\ PipeSize \in Nat \ {0}
  /\ MaxWritten \in Nat /\ MaxCancels \in Nat
  /\ TargetKind \in {"post", "story"}

VARIABLES
  pc,        (* where extract is                                           *)
  error,     (* the exception in flight, "none" on the way of a result     *)
  outcome,   (* what extract returned or raised                            *)
  task,      (* the two readers and the task of process.wait()             *)
  kept,      (* length of what each reader has kept                        *)
  child,     (* the process: "none", "running" or "dead"                   *)
  signal,    (* the last signal sent to it                                 *)
  exit,      (* its exit code and what its output amounts to               *)
  pipe,      (* what each pipe holds                                       *)
  written,   (* what the child has written to each pipe                    *)
  cancels    (* cancellations delivered                                    *)

callerVars == <<pc, error, outcome, cancels>>
childVars == <<child, signal, exit, pipe, written>>
processVars == <<callerVars, task, kept, childVars>>

Streams == {"stdout", "stderr"}
Tasks == Streams \cup {"wait"}
Reports == {"blank", "malformed", "empty", "directories", "errors", "media"}

Alive == child = "running"
Failed(t) == task[t] \in {"overLimit", "ioError"}
Settled(t) == task[t] \notin {"running", "cancelling"}
AllSettled == \A t \in Tasks : Settled(t)
ErrorOf(t) == IF task[t] = "overLimit" THEN "output_limit" ELSE "io"

(* What extract makes of the exit code and of the events of the output:    *)
(* errors are mapped before media are looked at.                           *)
Verdict ==
  IF exit.code # 0 \/ exit.report = "errors" THEN "platform_error"
  ELSE IF exit.report \in {"blank", "malformed"} THEN "invalid_output"
  ELSE IF exit.report = "directories" THEN "no_media"
  ELSE IF exit.report # "empty" THEN "records"
  ELSE IF TargetKind = "story" THEN "story_unavailable" ELSE "empty_output"

Verdicts ==
  {"platform_error", "invalid_output", "story_unavailable", "empty_output",
   "no_media", "records"}
Failures == {"start", "timeout", "output_limit", "io"}

-----------------------------------------------------------------------------
(* The child.                                                              *)

ChildWrites(s) ==
  /\ Alive /\ signal # "kill"
  /\ pipe[s] < PipeSize /\ written[s] < MaxWritten
  /\ pipe' = [pipe EXCEPT ![s] = @ + 1]
  /\ written' = [written EXCEPT ![s] = @ + 1]
  /\ UNCHANGED <<callerVars, task, kept, child, signal, exit>>

ChildExits(code, report) ==
  /\ Alive /\ signal # "kill"
  /\ report = "blank" <=> written["stdout"] = 0
  /\ child' = "dead"
  /\ exit' = [code |-> code, report |-> report]
  /\ UNCHANGED <<callerVars, task, kept, signal, pipe, written>>

ChildDies ==
  /\ Alive /\ signal # "none"
  /\ child' = "dead"
  /\ UNCHANGED <<callerVars, task, kept, signal, exit, pipe, written>>

(* process.terminate() and process.kill(); a dead process gets no signal.  *)
Signal(s) ==
  /\ signal' = IF Alive THEN s ELSE signal
  /\ UNCHANGED child

-----------------------------------------------------------------------------
(* The tasks.                                                              *)

LimitOf(s) == IF s = "stdout" THEN OutputLimit ELSE StderrLimit

(* Faulty variant of ReadSize: no room to see one byte too many.           *)
ReadSizeExact(s) ==
  IF s = "stdout" THEN Min({ReadChunk, OutputLimit - kept[s]}) ELSE ReadChunk

(* At most one byte more than the limit is taken from stdout.              *)
ReadSize(s) ==
  IF s = "stdout" THEN Min({ReadChunk, OutputLimit - kept[s] + 1}) ELSE ReadChunk

(* Faulty variant of ReadOn: a full buffer ends the reader of either pipe. *)
ReadUntilFull(s, n) ==
  IF kept[s] + n <= LimitOf(s) THEN "running"
  ELSE IF s = "stdout" THEN "overLimit" ELSE "done"

(* What becomes of a reader that got n units: stdout fails beyond its      *)
(* limit, stderr is read on.                                               *)
ReadOn(s, n) ==
  IF s = "stdout" /\ kept[s] + n > OutputLimit THEN "overLimit" ELSE "running"

KeptAfter(s, n) ==
  IF ReadOn(s, n) = "running" THEN Min({kept[s] + n, LimitOf(s)}) ELSE kept[s]

(* A read returns n units.                                                 *)
Read(s, n) ==
  /\ task[s] = "running" /\ n <= pipe[s] /\ n <= ReadSize(s)
  /\ pipe' = [pipe EXCEPT ![s] = @ - n]
  /\ task' = [task EXCEPT ![s] = ReadOn(s, n)]
  /\ kept' = [kept EXCEPT ![s] = KeptAfter(s, n)]
  /\ UNCHANGED <<callerVars, child, signal, exit, written>>

(* An empty read ends the reader: at the end of the pipe, or when nothing  *)
(* was asked for.                                                          *)
EndOfStream(s) ==
  /\ task[s] = "running"
  /\ (~Alive /\ pipe[s] = 0) \/ ReadSize(s) = 0
  /\ task' = [task EXCEPT ![s] = "done"]
  /\ UNCHANGED <<callerVars, kept, childVars>>

ReadFails(s) ==
  /\ task[s] = "running"
  /\ task' = [task EXCEPT ![s] = "ioError"]
  /\ UNCHANGED <<callerVars, kept, childVars>>

(* process.wait() ends some time after the exit, or never: it may depend   *)
(* on pipes that nobody reads any more.                                    *)
WaitEnds ==
  /\ task["wait"] = "running" /\ ~Alive
  /\ task' = [task EXCEPT !["wait"] = "done"]
  /\ UNCHANGED <<callerVars, kept, childVars>>

TaskCancelled(t) ==
  /\ task[t] = "cancelling"
  /\ task' = [task EXCEPT ![t] = "cancelled"]
  /\ UNCHANGED <<callerVars, kept, childVars>>

-----------------------------------------------------------------------------
(* The caller.                                                             *)

StartFails ==
  /\ pc = "idle"
  /\ pc' = "ended" /\ error' = "start" /\ outcome' = "start"
  /\ UNCHANGED <<cancels, task, kept, childVars>>

Start ==
  /\ pc = "idle"
  /\ pc' = "waiting"
  /\ child' = "running"
  /\ task' = [t \in Tasks |-> "running"]
  /\ UNCHANGED <<error, outcome, cancels, kept, signal, exit, pipe, written>>

(* _cleanup_extraction_tasks, entered with the exception e in flight.      *)
EnterCleanup(e) ==
  /\ pc' = "cleanup" /\ error' = e
  /\ task' = [t \in Tasks |-> IF Settled(t) THEN task[t] ELSE "cancelling"]

(* _stop_extraction_process: SIGTERM, and SIGKILL if the wait for the exit *)
(* times out or is cancelled.                                              *)
StopBegins(e) ==
  /\ Signal("term")
  /\ IF task["wait"] = "done" THEN EnterCleanup(e)
     ELSE pc' = "terminating" /\ error' = e /\ UNCHANGED task

(* Faulty variant of Kill: a second bounded wait without a second signal.  *)
KillForgotten(e) ==
  /\ UNCHANGED <<child, signal>>
  /\ IF task["wait"] = "done" THEN EnterCleanup(e)
     ELSE pc' = "killing" /\ error' = e /\ UNCHANGED task

Kill(e) ==
  /\ Signal("kill")
  /\ IF task["wait"] = "done" THEN EnterCleanup(e)
     ELSE pc' = "killing" /\ error' = e /\ UNCHANGED task

(* asyncio.wait returns and all is read.                                   *)
Communicated ==
  /\ pc = "waiting" /\ AllSettled
  /\ \A t \in Tasks : ~Failed(t)
  /\ EnterCleanup("none")
  /\ UNCHANGED <<outcome, cancels, kept, childVars>>

(* It returns with a reader that failed, timed out at the same time or not.*)
ReaderFailed(t) ==
  /\ pc = "waiting" /\ Failed(t)
  /\ StopBegins(ErrorOf(t))
  /\ UNCHANGED <<outcome, cancels, kept, exit, pipe, written>>

WaitTimesOut ==
  /\ pc = "waiting" /\ ~AllSettled
  /\ \A t \in Tasks : ~Failed(t)
  /\ StopBegins("timeout")
  /\ UNCHANGED <<outcome, cancels, kept, exit, pipe, written>>

Terminated ==
  /\ pc = "terminating" /\ task["wait"] = "done"
  /\ EnterCleanup(error)
  /\ UNCHANGED <<outcome, cancels, kept, childVars>>

(* Faulty variant of TerminateTimesOut: the wait for the exit is unbounded. *)
TerminateWaits ==
  /\ pc = "terminating" /\ task["wait"] = "done"
  /\ Kill(error)
  /\ UNCHANGED <<outcome, cancels, kept, exit, pipe, written>>

TerminateTimesOut ==
  /\ pc = "terminating" /\ task["wait"] # "done"
  /\ Kill(error)
  /\ UNCHANGED <<outcome, cancels, kept, exit, pipe, written>>

(* The second wait is left when the exit is seen or after its timeout.     *)
Killed ==
  /\ pc = "killing"
  /\ EnterCleanup(error)
  /\ UNCHANGED <<outcome, cancels, kept, childVars>>

(* The tasks are waited for in vain at most for the cleanup timeout; then  *)
(* the exception in flight is raised, or the output judged.                *)
CleanupEnds ==
  /\ pc = "cleanup"
  /\ pc' = "ended"
  /\ outcome' = IF error = "none" THEN Verdict ELSE error
  /\ UNCHANGED <<error, cancels, task, kept, childVars>>

(* The caller is cancelled; the await it is delivered at decides what is   *)
(* done.  A child that was being started is disposed of by asyncio.        *)
CallerCancelled ==
  /\ cancels < MaxCancels
  /\ cancels' = cancels + 1
  /\ \/ /\ pc \in {"idle", "cleanup"}
        /\ pc' = "ended" /\ error' = "cancelled" /\ outcome' = "cancelled"
        /\ UNCHANGED <<task, child, signal>>
     \/ pc = "waiting" /\ StopBegins("cancelled") /\ UNCHANGED outcome
     \/ pc = "terminating" /\ Kill("cancelled") /\ UNCHANGED outcome
     \/ /\ pc = "killing" /\ EnterCleanup("cancelled")
        /\ UNCHANGED <<outcome, child, signal>>
  /\ UNCHANGED <<kept, exit, pipe, written>>

-----------------------------------------------------------------------------

ProcessInit ==
  /\ pc = "idle" /\ error = "none" /\ outcome = "none" /\ cancels = 0
  /\ task = [t \in Tasks |-> "none"]
  /\ kept = [s \in Streams |-> 0]
  /\ child = "none" /\ signal = "none"
  /\ exit = [code |-> 0, report |-> "blank"]
  /\ pipe = [s \in Streams |-> 0]
  /\ written = [s \in Streams |-> 0]

ChildNext ==
  \/ \E s \in Streams : ChildWrites(s)
  \/ \E code \in {0, 1}, report \in Reports : ChildExits(code, report)
  \/ ChildDies

TaskNext ==
  \/ \E s \in Streams :
       \/ \E n \in 1..PipeSize : Read(s, n)
       \/ EndOfStream(s) \/ ReadFails(s)
  \/ WaitEnds
  \/ \E t \in Tasks : TaskCancelled(t)

CallerNext ==
  \/ StartFails \/ Start
  \/ Communicated \/ WaitTimesOut
  \/ \E s \in Streams : ReaderFailed(s)
  \/ Terminated \/ TerminateTimesOut \/ Killed \/ CleanupEnds
  \/ CallerCancelled

ProcessNext == ChildNext \/ TaskNext \/ CallerNext

ProcessSpec == ProcessInit /\ [][ProcessNext]_processVars

(* The event loop and its timers resume the caller.  Nothing is assumed of *)
(* the child, of its pipes or of the task that waits for it.               *)
Resumes ==
  \/ StartFails \/ Start
  \/ Communicated \/ WaitTimesOut
  \/ \E s \in Streams : ReaderFailed(s)
  \/ Terminated \/ TerminateTimesOut \/ Killed \/ CleanupEnds

FairProcessSpec == ProcessSpec /\ WF_processVars(Resumes)

-----------------------------------------------------------------------------

(* A child that is stuck on a full pipe has a reader that will empty it,   *)
(* or one whose failure is about to stop it: gallery-dl may be as verbose  *)
(* as it likes without running into the timeout.  Yet no more is kept of a *)
(* stream than its limit (_read_extraction_stream, which reads stderr on   *)
(* beyond what it keeps).                                                  *)
NoStarvedChild ==
  /\ pc = "waiting" /\ Alive =>
       \A s \in Streams : pipe[s] = PipeSize =>
         task[s] = "running" \/ \E t \in Tasks : Failed(t)
  /\ \A s \in Streams : kept[s] <= LimitOf(s)

(* The answer is taken from the output only if the child exited by itself  *)
(* and every byte of its stdout was kept; records are returned only of a   *)
(* successful exit without error events (extract; OPERATIONS.md line 474:  *)
(* after a timeout, a limit or a cancellation the exit code says nothing). *)
VerdictOnWholeOutput ==
  outcome \in Verdicts =>
    /\ child = "dead" /\ signal = "none"
    /\ kept["stdout"] = written["stdout"]
    /\ outcome = "records" => exit.code = 0 /\ exit.report = "media"

(* The extraction ends although the child may ignore SIGTERM, keep its     *)
(* pipes open and never be seen to exit (_stop_extraction_process).        *)
ExtractionEnds == [](pc # "idle" => <>(pc = "ended"))

(* The child as its owner knows it: with SIGKILL it is as good as gone.    *)
Process ==
  IF child = "none" THEN "none"
  ELSE IF signal = "kill" \/ (child = "dead" /\ signal # "none") THEN "stopped"
  ELSE IF child = "dead" THEN "exited" ELSE "running"

Answer ==
  IF pc # "ended" THEN "none"
  ELSE IF outcome = "cancelled" THEN "cancelled"
  ELSE IF outcome = "records" THEN "value" ELSE "error"

Owner == INSTANCE OwnedProcess
           WITH process <- Process, answer <- Answer, asked <- cancels > 0

(* Whatever happens, the child is not left running, the caller gets one    *)
(* answer, and a cancelled caller its cancellation (GalleryDlRunner).      *)
KeepsTheChild == Owner!OwnerSpec
=============================================================================

--------------------------- MODULE ThumbnailProcess ---------------------------
(***************************************************************************)
(* One run of FFmpeg: ThumbnailGenerator.generate of services/thumbnail.py *)
(* with its tasks: one feeds the source to stdin, one collects stdout, one *)
(* discards stderr, one waits for the exit.  Timers are steps that may     *)
(* come at any moment of the await they bound; source and child do as they *)
(* like.  A unit of input or output stands for a byte.                     *)
(***************************************************************************)
EXTENDS Naturals

CONSTANTS
  OutputLimit,   (* output_bytes                                           *)
  PipeSize,      (* what the stdout pipe and its reader hold               *)
  MaxWritten,    (* bound on what FFmpeg writes                            *)
  MaxCancels     (* bound on the cancellations by the caller               *)

ASSUME ThumbnailAssumption ==
  /\ OutputLimit \in Nat /\ PipeSize \in Nat \ {0}
  /\ MaxWritten \in Nat /\ MaxCancels \in Nat

VARIABLES
  pc,        (* where generate is                                          *)
  error,     (* the exception in flight, "none" on the way of a result     *)
  outcome,   (* what generate returned or raised                           *)
  cancels,   (* cancellations delivered                                    *)
  task,      (* the four tasks                                             *)
  kept,      (* length of the output collected                             *)
  child,     (* the process: "none", "running" or "dead"                   *)
  signal,    (* the last signal sent to it                                 *)
  exit,      (* its exit code, and whether it wrote a proper JPEG          *)
  pipe,      (* what the stdout pipe holds                                 *)
  written    (* what FFmpeg has written                                    *)

callerVars == <<pc, error, outcome, cancels>>
childVars == <<child, signal, exit, pipe, written>>
processVars == <<callerVars, task, kept, childVars>>

Tasks == {"feed", "collect", "discard", "wait"}

Alive == child = "running"
Failed(t) == task[t] \in {"failed", "tooLarge"}

(* The feeder's last act, closing stdin, is awaited for up to a second: it *)
(* is known by then how the feeder will end.                               *)
Closing == {"closingDone", "closingFailed", "closingTooLarge"}
Settled(t) == task[t] \notin {"running", "cancelling"} \cup Closing
AllSettled == \A t \in Tasks : Settled(t)

(* "badMedia" is an error marked deterministic, which the cache may keep. *)
ErrorOf(t) == IF task[t] = "tooLarge" THEN "badMedia" ELSE "failed"

-----------------------------------------------------------------------------
(* The child.                                                              *)

FfmpegWrites ==
  /\ Alive /\ signal # "kill"
  /\ pipe < PipeSize /\ written < MaxWritten
  /\ pipe' = pipe + 1 /\ written' = written + 1
  /\ UNCHANGED <<callerVars, task, kept, child, signal, exit>>

FfmpegExits(code, jpeg) ==
  /\ Alive /\ signal # "kill"
  /\ jpeg => written > 0
  /\ child' = "dead" /\ exit' = [code |-> code, jpeg |-> jpeg]
  /\ UNCHANGED <<callerVars, task, kept, signal, pipe, written>>

FfmpegDies ==
  /\ Alive /\ signal # "none"
  /\ child' = "dead"
  /\ UNCHANGED <<callerVars, task, kept, signal, exit, pipe, written>>

(* process.terminate() and process.kill(); a dead process gets no signal.  *)
Signal(s) ==
  /\ signal' = IF Alive THEN s ELSE signal
  /\ UNCHANGED child

-----------------------------------------------------------------------------
(* The tasks.                                                              *)

Becomes(t, status) ==
  /\ task' = [task EXCEPT ![t] = status]
  /\ UNCHANGED <<callerVars, kept, childVars>>

(* The feeder ends with the source, with FFmpeg's end of the pipe, with an *)
(* error of the source or with its size limit.                             *)
FeedCloses(status) == task["feed"] = "running" /\ Becomes("feed", status)

(* stdin is closed, or the feeder no longer waits for that.                *)
FeedEnds ==
  \/ task["feed"] = "closingDone" /\ Becomes("feed", "done")
  \/ task["feed"] = "closingFailed" /\ Becomes("feed", "failed")
  \/ task["feed"] = "closingTooLarge" /\ Becomes("feed", "tooLarge")

CollectFrom(n) == IF kept + n > OutputLimit THEN "tooLarge" ELSE "running"

Collected(n) == IF CollectFrom(n) = "running" THEN kept + n ELSE kept

(* At most one byte more than the limit is read.                           *)
Collect(n) ==
  /\ task["collect"] = "running"
  /\ n <= pipe /\ n <= OutputLimit - kept + 1
  /\ pipe' = pipe - n
  /\ task' = [task EXCEPT !["collect"] = CollectFrom(n)]
  /\ kept' = Collected(n)
  /\ UNCHANGED <<callerVars, child, signal, exit, written>>

CollectEnds ==
  /\ task["collect"] = "running"
  /\ \/ ~Alive /\ pipe = 0 /\ Becomes("collect", "done")
     \/ Becomes("collect", "failed")

DiscardEnds ==
  /\ task["discard"] = "running"
  /\ \/ ~Alive /\ Becomes("discard", "done")
     \/ Becomes("discard", "failed")

(* process.wait() ends some time after the exit, or never.                 *)
WaitEnds == task["wait"] = "running" /\ ~Alive /\ Becomes("wait", "done")

TaskCancelled(t) == task[t] = "cancelling" /\ Becomes(t, "cancelled")

-----------------------------------------------------------------------------
(* The caller.                                                             *)

(* The source is empty, not what its type says, over its size limit or     *)
(* cut; or FFmpeg cannot be started.                                       *)
PreparationFails(e) ==
  /\ pc = "preparing"
  /\ pc' = "ended" /\ error' = e /\ outcome' = e
  /\ UNCHANGED <<cancels, task, kept, childVars>>

Start ==
  /\ pc = "preparing"
  /\ pc' = "working"
  /\ child' = "running"
  /\ task' = [t \in Tasks |-> "running"]
  /\ UNCHANGED <<error, outcome, cancels, kept, signal, exit, pipe, written>>

(* What a settled run amounts to: exit code first, then the JPEG.          *)
Verdict == IF exit.code # 0 \/ ~exit.jpeg THEN "badMedia" ELSE "none"

(* The finally clause: every way out passes through _stop_process.         *)
EnterStop(e) ==
  /\ pc' = "terminating" /\ error' = e
  /\ Signal("term")

(* Faulty variant of Finished: the exit is judged as soon as it is seen.   *)
FinishedEarly == pc = "working" /\ task["wait"] = "done"

Finished == pc = "working" /\ AllSettled /\ \A t \in Tasks : ~Failed(t)

Judged ==
  /\ Finished
  /\ EnterStop(Verdict)
  /\ UNCHANGED <<outcome, cancels, task, kept, exit, pipe, written>>

(* The tasks are cancelled and waited for, up to a second.                 *)
Aborts(e) ==
  /\ pc' = "aborting" /\ error' = e
  /\ task' = [t \in Tasks |-> IF Settled(t) THEN task[t] ELSE "cancelling"]

(* Failures of the tasks come before the timeout and the verdict.          *)
TaskFailed(t) ==
  /\ pc = "working" /\ Failed(t)
  /\ Aborts(ErrorOf(t))
  /\ UNCHANGED <<outcome, cancels, kept, childVars>>

ProcessTimesOut ==
  /\ pc = "working" /\ ~AllSettled
  /\ \A t \in Tasks : ~Failed(t)
  /\ Aborts("failed")
  /\ UNCHANGED <<outcome, cancels, kept, childVars>>

Aborted ==
  /\ pc = "aborting"
  /\ EnterStop(error)
  /\ UNCHANGED <<outcome, cancels, task, kept, exit, pipe, written>>

Ends(e) ==
  /\ pc' = "ended" /\ error' = e
  /\ outcome' = IF e = "none" THEN "thumbnail" ELSE e

Terminated ==
  /\ pc = "terminating" /\ ~Alive
  /\ Ends(error)
  /\ UNCHANGED <<cancels, task, kept, childVars>>

(* Faulty variant of Kill: a process that resists is given up.             *)
KillGivesUp(e) == Ends(e) /\ UNCHANGED <<child, signal>>

(* SIGKILL; if the process is already known to be dead, that is the end.   *)
Kill(e) ==
  /\ Signal("kill")
  /\ \/ pc' = "killing" /\ error' = e /\ UNCHANGED outcome
     \/ ~Alive /\ Ends(e)

(* Faulty variant of TerminateTimesOut: the wait for the exit is unbounded. *)
TerminateWaits ==
  /\ pc = "terminating" /\ ~Alive
  /\ Kill(error)
  /\ UNCHANGED <<cancels, task, kept, exit, pipe, written>>

TerminateTimesOut ==
  /\ pc = "terminating"
  /\ Kill(error)
  /\ UNCHANGED <<cancels, task, kept, exit, pipe, written>>

(* The exit is seen, or no longer waited for.                              *)
Killed ==
  /\ pc = "killing"
  /\ Ends(error)
  /\ UNCHANGED <<cancels, task, kept, childVars>>

(* The caller is cancelled; the await it is delivered at decides what is   *)
(* done.  A child that was being started is disposed of by asyncio.        *)
CallerCancelled ==
  /\ cancels < MaxCancels
  /\ cancels' = cancels + 1
  /\ \/ pc \in {"preparing", "killing"} /\ Ends("cancelled")
          /\ UNCHANGED <<task, child, signal>>
     \/ pc = "working" /\ Aborts("cancelled")
          /\ UNCHANGED <<outcome, child, signal>>
     \/ pc = "aborting" /\ EnterStop("cancelled") /\ UNCHANGED <<outcome, task>>
     \/ pc = "terminating" /\ Kill("cancelled") /\ UNCHANGED task
  /\ UNCHANGED <<kept, exit, pipe, written>>

-----------------------------------------------------------------------------

ProcessInit ==
  /\ pc = "preparing" /\ error = "none" /\ outcome = "none" /\ cancels = 0
  /\ task = [t \in Tasks |-> "none"]
  /\ kept = 0
  /\ child = "none" /\ signal = "none"
  /\ exit = [code |-> 0, jpeg |-> FALSE]
  /\ pipe = 0 /\ written = 0

ChildNext ==
  \/ FfmpegWrites
  \/ \E code \in {0, 1}, jpeg \in BOOLEAN : FfmpegExits(code, jpeg)
  \/ FfmpegDies

TaskNext ==
  \/ \E status \in Closing : FeedCloses(status)
  \/ FeedEnds
  \/ \E n \in 1..PipeSize : Collect(n)
  \/ CollectEnds \/ DiscardEnds \/ WaitEnds
  \/ \E t \in Tasks : TaskCancelled(t)

Resumes ==
  \/ \E e \in {"badMedia", "failed"} : PreparationFails(e)
  \/ Start
  \/ Judged \/ ProcessTimesOut
  \/ \E t \in Tasks : TaskFailed(t)
  \/ Aborted \/ Terminated \/ TerminateTimesOut \/ Killed

ProcessNext == ChildNext \/ TaskNext \/ Resumes \/ CallerCancelled

ProcessSpec == ProcessInit /\ [][ProcessNext]_processVars

(* The event loop, its timers and the read timeout of the source resume    *)
(* the caller.  Nothing is assumed of FFmpeg, its pipes or the tasks.      *)
FairProcessSpec == ProcessSpec /\ WF_processVars(Resumes)

-----------------------------------------------------------------------------

(* An error that the cache keeps for the life of the token is never due to *)
(* a source that was cut or to a signal of ours: a failing source closes   *)
(* stdin, and FFmpeg may well exit with an error before the feeder's own   *)
(* failure is seen (generate, deterministic; thumbnail_cache.py line 157). *)
OnlyTheMediaIsBlamed ==
  outcome = "badMedia" /\ child # "none" =>
    \/ \E t \in {"feed", "collect"} : task[t] = "tooLarge"
    \/ child = "dead" /\ signal = "none" /\ \A t \in Tasks : task[t] = "done"

(* A thumbnail is the whole output of an FFmpeg that exited by itself and  *)
(* successfully, within the output limit (generate, _collect_output).      *)
ThumbnailIsWhole ==
  outcome = "thumbnail" =>
    /\ child = "dead" /\ signal = "none" /\ exit.code = 0 /\ exit.jpeg
    /\ kept = written /\ kept <= OutputLimit

(* Whatever is said of the media rests on a run of FFmpeg that was neither *)
(* cut short nor fed short (generate).                                     *)
VerdictFitsTheRun == OnlyTheMediaIsBlamed /\ ThumbnailIsWhole

(* The generation ends although FFmpeg may ignore SIGTERM, keep its pipes  *)
(* open and never be seen to exit (generate, _stop_process).               *)
GenerationEnds == <>(pc = "ended")

(* The child as its owner knows it: with SIGKILL it is as good as gone.    *)
Process ==
  IF child = "none" THEN "none"
  ELSE IF signal = "kill" \/ (child = "dead" /\ signal # "none") THEN "stopped"
  ELSE IF child = "dead" THEN "exited" ELSE "running"

Answer ==
  IF outcome \in {"none", "cancelled"} THEN outcome
  ELSE IF outcome = "thumbnail" THEN "value" ELSE "error"

Owned == INSTANCE OwnedProcess
           WITH process <- Process, answer <- Answer, asked <- cancels > 0

(* Whatever happens, FFmpeg is not left running, the caller gets one       *)
(* answer, and a cancelled caller its cancellation (ThumbnailGenerator).   *)
KeepsFfmpeg == Owned!OwnerSpec
=============================================================================

----------------------------- MODULE OwnedProcess -----------------------------
(***************************************************************************)
(* What a caller is promised by code that runs a child process for it:     *)
(* whatever fails, times out or is cancelled, there is one answer, it      *)
(* comes when the child has exited or was stopped for good, a value comes  *)
(* only of a child that was left to exit by itself, and a caller that was  *)
(* cancelled sees the cancellation.  ExtractorProcess and ThumbnailProcess *)
(* implement it.                                                           *)
(***************************************************************************)

VARIABLES
  process,   (* "none", "running", "exited" by itself, or "stopped"        *)
  answer,    (* "none" until there is one: "value", "error", "cancelled"   *)
  asked      (* the caller was cancelled                                   *)

ownerVars == <<process, answer, asked>>

Answers == {"value", "error", "cancelled"}

OwnerInit == process = "none" /\ answer = "none" /\ asked = FALSE

Starts ==
  /\ process = "none" /\ answer = "none" /\ ~asked
  /\ process' = "running"
  /\ UNCHANGED <<answer, asked>>

Exits ==
  /\ process = "running"
  /\ process' = "exited"
  /\ UNCHANGED <<answer, asked>>

(* The child may be stopped because its caller is cancelled.               *)
Stops ==
  /\ process = "running" /\ answer = "none"
  /\ process' = "stopped"
  /\ asked' \in {asked, TRUE}
  /\ UNCHANGED answer

Cancels ==
  /\ answer = "none"
  /\ asked' = TRUE
  /\ UNCHANGED <<process, answer>>

(* The cancellation may come at the last moment.                           *)
AnswersWith(a) ==
  /\ answer = "none" /\ process # "running"
  /\ asked' \in {asked, TRUE}
  /\ asked' <=> a = "cancelled"
  /\ a = "value" => process = "exited"
  /\ answer' = a
  /\ UNCHANGED process

OwnerNext ==
  \/ Starts \/ Exits \/ Stops \/ Cancels
  \/ \E a \in Answers : AnswersWith(a)

OwnerSpec == OwnerInit /\ [][OwnerNext]_ownerVars
=============================================================================

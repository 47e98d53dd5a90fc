--------------------------- MODULE OwnedConnection ---------------------------
(***************************************************************************)
(* What a caller is promised by code that opens connections for it: there  *)
(* is one connection at a time, the caller gets the last one or none at    *)
(* all, and when there is an answer nothing is left behind but, at most,   *)
(* the attempt to open one that was given up, and that is seen to as well. *)
(* MediaFetch implements it.                                               *)
(***************************************************************************)

CONSTANT Attempts

VARIABLES
  connection,  (* of each attempt                                          *)
  answer       (* "none", "response", "error" or "cancelled"               *)

connectionVars == <<connection, answer>>

Unused == {"none", "gone"}
Failure == {"error", "cancelled"}

OwnedInit ==
  /\ connection = [a \in Attempts |-> "none"]
  /\ answer = "none"

Opens(a) ==
  /\ answer = "none"
  /\ connection[a] = "none"
  /\ \A b \in Attempts : connection[b] \in Unused
  /\ connection' = [connection EXCEPT ![a] = "opening"]
  /\ UNCHANGED answer

Connects(a) ==
  /\ connection[a] = "opening"
  /\ connection' = [connection EXCEPT ![a] = "held"]
  /\ UNCHANGED answer

(* An attempt fails, or its connection is closed, with or without an end   *)
(* of the whole.                                                           *)
Drops(a) ==
  /\ connection[a] \in {"opening", "held"}
  /\ connection' = [connection EXCEPT ![a] = "gone"]
  /\ answer' \in {"none"} \cup Failure

(* The attempt is given up: it may still succeed, without anyone to take   *)
(* the connection.                                                         *)
LeavesBehind(a) ==
  /\ connection[a] = "opening"
  /\ connection' = [connection EXCEPT ![a] = "stray"]
  /\ answer' \in Failure

StrayEnds(a) ==
  /\ connection[a] = "stray"
  /\ connection' = [connection EXCEPT ![a] = "gone"]
  /\ UNCHANGED answer

Gives(a) ==
  /\ connection[a] = "held"
  /\ connection' = [connection EXCEPT ![a] = "given"]
  /\ answer' = "response"

Fails ==
  /\ answer = "none"
  /\ \A b \in Attempts : connection[b] \in Unused
  /\ answer' \in Failure
  /\ UNCHANGED connection

CallerCloses(a) ==
  /\ connection[a] = "given"
  /\ connection' = [connection EXCEPT ![a] = "gone"]
  /\ UNCHANGED answer

OwnedNext ==
  \/ Fails
  \/ \E a \in Attempts :
       \/ Opens(a) \/ Connects(a) \/ Drops(a) \/ LeavesBehind(a)
       \/ StrayEnds(a) \/ Gives(a) \/ CallerCloses(a)

OwnedSpec == OwnedInit /\ [][OwnedNext]_connectionVars
=============================================================================

---------------------------- MODULE Thumbnail_proofs ----------------------------
(***************************************************************************)
(* Generated previews: their coordination, for any number of requests and  *)
(* tokens, any concurrency and any cache, and the run of FFmpeg, for any   *)
(* limits, pipes and number of cancellations.  The run keeps what          *)
(* OwnedProcess promises, and an error that may be cached is never due to  *)
(* a cut source or to a signal of ours.                                    *)
(***************************************************************************)
EXTENDS ThumbnailCoordinator, ThumbnailProcess, Restriction_proofs,
        FiniteSetTheorems, SequenceTheorems, TLAPS

Busy == {t \in Tokens : inflight[t] # NoRequest}

OwnersHaveTokens == \A r \in Requests : Owner(r) => req[r].token \in Tokens

FlightInv == CoordinatorTypeOK /\ OwnersHaveTokens /\ SlotAccounting

LEMMA BusyFinite == IsFiniteSet(Busy) /\ Cardinality(Busy) \in Nat
<1>1. Busy \in SUBSET Tokens
  BY DEF Busy
<1> QED
  BY <1>1, CoordinatorAssumption, FS_Subset, FS_CardinalityType

LEMMA InitFlight == Init => FlightInv
<1> SUFFICES ASSUME Init PROVE FlightInv
  OBVIOUS
<1>1. CoordinatorTypeOK
  BY CoordinatorAssumption DEF Init, CoordinatorTypeOK, NewRequest, RequestState, Outcomes
<1>2. Busy = {}
  BY DEF Init, Busy
<1>3. active = Cardinality(Busy)
  BY <1>2, FS_EmptySet DEF Init
<1>4. \A r \in Requests : req[r].of = NoRequest
  BY DEF Init, NewRequest
<1>5. \A r \in Requests : ~Owner(r)
  BY <1>4, CoordinatorAssumption DEF Owner
<1>6. \A t \in Tokens, r \in Requests : inflight[t] # r
  BY CoordinatorAssumption DEF Init
<1>7. active <= MaxConcurrency
  BY CoordinatorAssumption DEF Init
<1> QED
  BY <1>1, <1>3, <1>5, <1>6, <1>7 DEF FlightInv, SlotAccounting, OwnersHaveTokens, Busy

-----------------------------------------------------------------------------

(* A step that leaves the owners and their tokens, the dictionary and the  *)
(* counter alone keeps the accounting.                                     *)
LEMMA OwnersUntouched ==
  ASSUME FlightInv, UNCHANGED <<inflight, active>>,
         \A r \in Requests : Owner(r)' <=> Owner(r),
         \A r \in Requests : Owner(r) => req'[r].token = req[r].token
  PROVE  OwnersHaveTokens' /\ SlotAccounting'
BY DEF FlightInv, OwnersHaveTokens, SlotAccounting

(* Replacing the task, the result and the work of a request's state.       *)
LEMMA StateUpdate ==
  ASSUME NEW q \in RequestState,
         NEW t \in {"none", "running"} \cup Outcomes,
         NEW size \in Sizes \cup {0},
         NEW work \in {"none", "running", "stopping"}
  PROVE  /\ [q EXCEPT !.task = t, !.size = size] \in RequestState
         /\ [q EXCEPT !.task = t, !.size = size].of = q.of
         /\ [q EXCEPT !.task = t, !.size = size].token = q.token
         /\ [q EXCEPT !.work = work] \in RequestState
         /\ [q EXCEPT !.work = work].of = q.of
         /\ [q EXCEPT !.work = work].token = q.token
BY DEF RequestState

(* The end of a generation task changes no owner and no token.             *)
LEMMA SettleStep ==
  ASSUME CoordinatorTypeOK, NEW r \in Requests,
         NEW out \in Outcomes, NEW size \in Sizes \cup {0},
         NEW work \in {"none", "running", "stopping"},
         Settle(r, out, size, work)
  PROVE  /\ req' \in [Requests -> RequestState]
         /\ \A s \in Requests :
              req'[s].of = req[s].of /\ req'[s].token = req[s].token
<1> DEFINE q(s) == IF req[s].of = r /\ req[s].task = "running"
                   THEN [req[s] EXCEPT !.task = out, !.size = size]
                   ELSE req[s]
           after(s) == IF s = r THEN [q(s) EXCEPT !.work = work] ELSE q(s)
<1>1. req' = [s \in Requests |-> after(s)]
  BY DEF Settle
<1>2. ASSUME NEW s \in Requests
      PROVE  /\ after(s) \in RequestState
             /\ after(s).of = req[s].of /\ after(s).token = req[s].token
  <2>1. req[s] \in RequestState
    BY DEF CoordinatorTypeOK
  <2>2. /\ q(s) \in RequestState
        /\ q(s).of = req[s].of /\ q(s).token = req[s].token
    <3>1. CASE req[s].of = r /\ req[s].task = "running"
      <4>1. out \in {"none", "running"} \cup Outcomes
        OBVIOUS
      <4>2. PICK p \in RequestState : p = req[s]
        BY <2>1
      <4>3. q(s) = [p EXCEPT !.task = out, !.size = size]
        BY <3>1, <4>2, Zenon
      <4>4. /\ [p EXCEPT !.task = out, !.size = size] \in RequestState
            /\ [p EXCEPT !.task = out, !.size = size].of = p.of
            /\ [p EXCEPT !.task = out, !.size = size].token = p.token
        BY <4>1, StateUpdate
      <4> HIDE DEF q
      <4> QED
        BY <4>2, <4>3, <4>4, Zenon
    <3>2. CASE ~(req[s].of = r /\ req[s].task = "running")
      BY <2>1, <3>2
    <3> QED
      BY <3>1, <3>2
  <2> HIDE DEF q
  <2>3. /\ [q(s) EXCEPT !.work = work] \in RequestState
        /\ [q(s) EXCEPT !.work = work].of = q(s).of
        /\ [q(s) EXCEPT !.work = work].token = q(s).token
    BY <2>2, StateUpdate
  <2> QED
    BY <2>2, <2>3
<1> HIDE DEF after
<1> QED
  BY <1>1, <1>2

(* What an answered request leaves behind.                                 *)
LEMMA AnsweredStep ==
  ASSUME CoordinatorTypeOK, NEW r \in Requests, Answered(r)
  PROVE  /\ req' \in [Requests -> RequestState]
         /\ req'[r].of = NoRequest
         /\ \A s \in Requests : s # r => req'[s] = req[s]
<1>1. req \in [Requests -> RequestState]
  BY DEF CoordinatorTypeOK
<1>2. [NewRequest EXCEPT !.work = req[r].work] =
        [token |-> NoRequest, of |-> NoRequest, task |-> "none", size |-> 0,
         work |-> req[r].work]
  BY DEF NewRequest
<1>3. req'[r] = [token |-> NoRequest, of |-> NoRequest, task |-> "none",
                 size |-> 0, work |-> req[r].work]
  BY <1>1, <1>2 DEF Answered
<1>4. req[r].work \in {"none", "running", "stopping"}
  BY <1>1 DEF RequestState
<1>5. req'[r] \in RequestState
  BY <1>3, <1>4 DEF RequestState
<1>6. \A s \in Requests : s # r => req'[s] = req[s]
  BY <1>1 DEF Answered
<1>7. req' \in [Requests -> RequestState]
  BY <1>1, <1>5, <1>6 DEF Answered
<1> QED
  BY <1>3, <1>6, <1>7

-----------------------------------------------------------------------------
(* The actions.                                                            *)

LEMMA JoinInv ==
  ASSUME FlightInv, NEW r \in Requests, NEW t \in Tokens, Join(r, t)
  PROVE  FlightInv'
<1> DEFINE owner == inflight[t]
<1>1. CoordinatorTypeOK
  BY DEF FlightInv
<1>2. owner \in Requests /\ owner # r
  BY <1>1, CoordinatorAssumption
     DEF CoordinatorTypeOK, Join, Admissible, Free, Waiting, FlightInv,
         SlotAccounting, Owner
<1>3. ~Owner(r)
  BY CoordinatorAssumption DEF Join, Admissible, Free, Waiting, Owner
<1>4. req' = [req EXCEPT ![r] =
                [token |-> t, of |-> owner, task |-> req[owner].task,
                 size |-> req[owner].size, work |-> "none"]]
  BY DEF Join
<1>5. /\ req[owner].task \in {"none", "running"} \cup Outcomes
      /\ req[owner].size \in Sizes \cup {0}
  BY <1>1, <1>2 DEF CoordinatorTypeOK, RequestState
<1>6. req' \in [Requests -> RequestState]
  BY <1>1, <1>2, <1>4, <1>5 DEF CoordinatorTypeOK, RequestState
<1>7. CoordinatorTypeOK'
  BY <1>1, <1>6 DEF CoordinatorTypeOK, Join
<1>8. req'[r].of = owner
  BY <1>1, <1>4 DEF CoordinatorTypeOK
<1>9. \A s \in Requests : s # r => req'[s] = req[s]
  BY <1>1, <1>4 DEF CoordinatorTypeOK
<1>10. \A s \in Requests : Owner(s)' <=> Owner(s)
  BY <1>2, <1>3, <1>8, <1>9 DEF Owner
<1>11. \A s \in Requests : Owner(s) => req'[s].token = req[s].token
  BY <1>3, <1>9
<1> QED
  BY <1>7, <1>10, <1>11, OwnersUntouched DEF FlightInv, Join

LEMMA OwnInv ==
  ASSUME FlightInv, NEW r \in Requests, NEW t \in Tokens, Own(r, t)
  PROVE  FlightInv'
<1>1. CoordinatorTypeOK /\ OwnersHaveTokens /\ SlotAccounting
  BY DEF FlightInv
<1>2. /\ inflight[t] = NoRequest /\ active < MaxConcurrency
      /\ inflight' = [inflight EXCEPT ![t] = r]
      /\ active' = active + 1
      /\ now' = now
  BY DEF Own
<1>3. ~Owner(r)
  BY CoordinatorAssumption DEF Own, Admissible, Free, Waiting, Owner
<1>4. req' = [req EXCEPT ![r] =
                [token |-> t, of |-> r, task |-> "running", size |-> 0,
                 work |-> "running"]]
  BY DEF Own
<1>5. CoordinatorTypeOK'
  BY <1>1, <1>2, <1>4 DEF CoordinatorTypeOK, RequestState
<1>6. /\ req'[r].of = r /\ req'[r].token = t
      /\ \A s \in Requests : s # r => req'[s] = req[s]
  BY <1>1, <1>4 DEF CoordinatorTypeOK
<1>7. \A s \in Requests : Owner(s)' <=> Owner(s) \/ s = r
  BY <1>6 DEF Owner
<1>8. OwnersHaveTokens'
  BY <1>1, <1>6, <1>7 DEF OwnersHaveTokens
<1>9. /\ inflight'[t] = r
      /\ \A u \in Tokens : u # t => inflight'[u] = inflight[u]
  BY <1>1, <1>2 DEF CoordinatorTypeOK
<1>10. ASSUME NEW u \in Tokens, NEW s \in Requests
       PROVE  inflight'[u] = s <=> Owner(s)' /\ req'[s].token = u
  <2>1. inflight[u] = s <=> Owner(s) /\ req[s].token = u
    BY <1>1 DEF SlotAccounting
  <2>2. ~(Owner(s) /\ req[s].token = t)
    BY <1>1, <1>2, CoordinatorAssumption DEF SlotAccounting
  <2> QED
    BY <1>3, <1>6, <1>7, <1>9, <2>1, <2>2
<1>11. Busy' = Busy \cup {t} /\ t \notin Busy
  BY <1>2, <1>9, CoordinatorAssumption DEF Busy
<1>12. Cardinality(Busy') = Cardinality(Busy) + 1
  BY <1>11, BusyFinite, FS_AddElement
<1>13. active = Cardinality(Busy) /\ active \in Nat
  BY <1>1 DEF SlotAccounting, Busy, CoordinatorTypeOK
<1>14. active' = Cardinality(Busy')
  BY <1>2, <1>12, <1>13
<1>15. active' <= MaxConcurrency
  BY <1>2, <1>13, CoordinatorAssumption
<1> QED
  BY <1>5, <1>8, <1>10, <1>14, <1>15 DEF FlightInv, SlotAccounting, Busy

(* The end of a task keeps the invariant, however it ends.                 *)
LEMMA SettleInv ==
  ASSUME FlightInv, NEW r \in Requests,
         NEW out \in Outcomes, NEW size \in Sizes \cup {0},
         NEW work \in {"none", "running", "stopping"},
         Settle(r, out, size, work),
         UNCHANGED <<now, inflight, active>>
  PROVE  FlightInv'
<1>1. CoordinatorTypeOK
  BY DEF FlightInv
<1>2. /\ req' \in [Requests -> RequestState]
      /\ \A s \in Requests :
           req'[s].of = req[s].of /\ req'[s].token = req[s].token
  BY <1>1, SettleStep
<1>3. CoordinatorTypeOK'
  BY <1>1, <1>2 DEF CoordinatorTypeOK
<1>4. \A s \in Requests : Owner(s)' <=> Owner(s)
  BY <1>2 DEF Owner
<1> QED
  BY <1>2, <1>3, <1>4, OwnersUntouched DEF FlightInv

LEMMA WorkStopsInv ==
  ASSUME FlightInv, NEW r \in Requests, WorkStops(r)
  PROVE  FlightInv'
<1>1. CoordinatorTypeOK
  BY DEF FlightInv
<1>2. PICK q \in RequestState : q = req[r]
  BY <1>1 DEF CoordinatorTypeOK
<1>3. req' = [req EXCEPT ![r] = [q EXCEPT !.work = "none"]]
  BY <1>2, Zenon DEF WorkStops
<1>4. /\ [q EXCEPT !.work = "none"] \in RequestState
      /\ [q EXCEPT !.work = "none"].of = q.of
      /\ [q EXCEPT !.work = "none"].token = q.token
  BY DEF RequestState
<1>5. PICK p \in RequestState :
        p = [q EXCEPT !.work = "none"] /\ p.of = q.of /\ p.token = q.token
  BY <1>4
<1>6. req' = [req EXCEPT ![r] = p]
  BY <1>3, <1>5, Zenon
<1>7. /\ req' \in [Requests -> RequestState]
      /\ \A s \in Requests :
           req'[s].of = req[s].of /\ req'[s].token = req[s].token
  BY <1>1, <1>2, <1>5, <1>6 DEF CoordinatorTypeOK
<1>8. CoordinatorTypeOK'
  BY <1>1, <1>7 DEF CoordinatorTypeOK, WorkStops
<1>9. \A s \in Requests : Owner(s)' <=> Owner(s)
  BY <1>7 DEF Owner
<1> QED
  BY <1>7, <1>8, <1>9, OwnersUntouched DEF FlightInv, WorkStops

(* A follower that is answered was no owner.                               *)
LEMMA FollowerInv ==
  ASSUME FlightInv, NEW r \in Requests,
         FollowerResumes(r) \/ FollowerCancelled(r)
  PROVE  FlightInv'
<1>1. CoordinatorTypeOK
  BY DEF FlightInv
<1>2. /\ Follower(r) /\ Answered(r)
      /\ UNCHANGED <<now, inflight, active>>
  BY DEF FollowerResumes, FollowerCancelled
<1>3. /\ req' \in [Requests -> RequestState]
      /\ req'[r].of = NoRequest
      /\ \A s \in Requests : s # r => req'[s] = req[s]
  BY <1>1, <1>2, AnsweredStep
<1>4. CoordinatorTypeOK'
  BY <1>1, <1>2, <1>3 DEF CoordinatorTypeOK
<1>5. \A s \in Requests : Owner(s)' <=> Owner(s)
  BY <1>2, <1>3, CoordinatorAssumption DEF Owner, Follower
<1>6. \A s \in Requests : Owner(s) => req'[s].token = req[s].token
  BY <1>2, <1>3 DEF Owner, Follower
<1> QED
  BY <1>2, <1>4, <1>5, <1>6, OwnersUntouched DEF FlightInv

(* The finally clause of an owner: its slot, and no other, is free.        *)
LEMMA FreeSlotInv ==
  ASSUME FlightInv, NEW r \in Requests, Owner(r), Answered(r), FreeSlot(r),
         UNCHANGED now
  PROVE  FlightInv'
<1> DEFINE t == req[r].token
<1>1. CoordinatorTypeOK /\ OwnersHaveTokens /\ SlotAccounting
  BY DEF FlightInv
<1>2. t \in Tokens
  BY <1>1 DEF OwnersHaveTokens
<1>3. inflight[t] = r
  BY <1>1, <1>2 DEF SlotAccounting
<1>4. /\ req' \in [Requests -> RequestState]
      /\ req'[r].of = NoRequest
      /\ \A s \in Requests : s # r => req'[s] = req[s]
  BY <1>1, AnsweredStep
<1>5. /\ inflight' \in [Tokens -> Requests \cup {NoRequest}]
      /\ inflight'[t] = NoRequest
      /\ \A u \in Tokens : u # t => inflight'[u] = inflight[u]
  BY <1>1, <1>2 DEF FreeSlot, CoordinatorTypeOK
<1>6. Busy' = Busy \ {t} /\ t \in Busy
  BY <1>2, <1>3, <1>5, CoordinatorAssumption DEF Busy
<1>7. Cardinality(Busy \ {t}) = Cardinality(Busy) - 1
  BY <1>6, BusyFinite, FS_RemoveElement
<1>8. Cardinality(Busy') \in Nat
  BY <1>6, BusyFinite, FS_RemoveElement, FS_CardinalityType
<1>9. active = Cardinality(Busy) /\ active \in Nat /\ active <= MaxConcurrency
  BY <1>1 DEF SlotAccounting, Busy, CoordinatorTypeOK
<1>10. Cardinality(Busy') = active - 1
  BY <1>6, <1>7, <1>9
<1>11. active' = Cardinality(Busy') /\ active' \in Nat /\ active' <= MaxConcurrency
  BY <1>8, <1>9, <1>10, CoordinatorAssumption DEF FreeSlot
<1>12. CoordinatorTypeOK'
  BY <1>1, <1>4, <1>5, <1>11 DEF CoordinatorTypeOK
<1>13. \A s \in Requests : Owner(s)' <=> Owner(s) /\ s # r
  BY <1>4, CoordinatorAssumption DEF Owner
<1>14. OwnersHaveTokens'
  BY <1>1, <1>4, <1>13 DEF OwnersHaveTokens
<1>15. ASSUME NEW u \in Tokens, NEW s \in Requests
       PROVE  inflight'[u] = s <=> Owner(s)' /\ req'[s].token = u
  <2>1. inflight[u] = s <=> Owner(s) /\ req[s].token = u
    BY <1>1 DEF SlotAccounting
  <2>2. inflight[t] = s <=> Owner(s) /\ req[s].token = t
    BY <1>1, <1>2 DEF SlotAccounting
  <2>3. CASE u = t
    BY <1>3, <1>4, <1>5, <1>13, <2>2, <2>3, CoordinatorAssumption
  <2>4. CASE u # t
    BY <1>4, <1>5, <1>13, <2>1, <2>4
  <2> QED
    BY <2>3, <2>4
<1> QED
  BY <1>11, <1>12, <1>14, <1>15 DEF FlightInv, SlotAccounting, Busy

LEMMA StepFlight == FlightInv /\ [Next]_vars => FlightInv'
<1> SUFFICES ASSUME FlightInv, [Next]_vars PROVE FlightInv'
  OBVIOUS
<1>1. ASSUME NEW r \in Requests, NEW t \in Tokens,
             ServeCached(r, t) \/ Refuse(r, t)
      PROVE  FlightInv'
  <2>1. UNCHANGED <<now, inflight, active, req>>
    BY <1>1 DEF ServeCached, Refuse
  <2> QED
    BY <2>1 DEF FlightInv, CoordinatorTypeOK, OwnersHaveTokens,
       SlotAccounting, Owner
<1>2. ASSUME NEW r \in Requests, NEW t \in Tokens, Join(r, t)
      PROVE  FlightInv'
  BY <1>2, JoinInv
<1>3. ASSUME NEW r \in Requests, NEW t \in Tokens, Own(r, t)
      PROVE  FlightInv'
  BY <1>3, OwnInv
<1>4. ASSUME NEW r \in Requests, WorkEnds(r) PROVE FlightInv'
  <2>1. ASSUME NEW size \in Sizes, Settle(r, "ok", size, "none") PROVE FlightInv'
    BY <1>4, <2>1, SettleInv DEF WorkEnds, Outcomes
  <2>2. ASSUME NEW out \in {"bad", "error"}, Settle(r, out, 0, "none")
        PROVE  FlightInv'
    BY <1>4, <2>2, SettleInv DEF WorkEnds, Outcomes
  <2> QED
    BY <1>4, <2>1, <2>2 DEF WorkEnds
<1>5. ASSUME NEW r \in Requests, WorkTimesOut(r) PROVE FlightInv'
  BY <1>5, SettleInv DEF WorkTimesOut, Outcomes
<1>6. ASSUME NEW r \in Requests, WorkStops(r) PROVE FlightInv'
  BY <1>6, WorkStopsInv
<1>7. ASSUME NEW r \in Requests, OwnerResumes(r) PROVE FlightInv'
  BY <1>7, FreeSlotInv DEF OwnerResumes
<1>8. ASSUME NEW r \in Requests, OwnerCancelled(r) PROVE FlightInv'
  <2>1. Owner(r) /\ UNCHANGED now
    BY <1>8 DEF OwnerCancelled
  <2>2. CASE Settle(r, "cancelled", 0, "stopping") /\ UNCHANGED <<inflight, active>>
    BY <2>1, <2>2, SettleInv DEF Outcomes
  <2>3. CASE Answered(r) /\ FreeSlot(r)
    BY <2>1, <2>3, FreeSlotInv
  <2> QED
    BY <1>8, <2>2, <2>3 DEF OwnerCancelled
<1>9. ASSUME NEW r \in Requests, FollowerResumes(r) \/ FollowerCancelled(r)
      PROVE  FlightInv'
  BY <1>9, FollowerInv
<1>10. CASE Tick
  BY <1>10, CoordinatorAssumption
     DEF Tick, FlightInv, CoordinatorTypeOK, OwnersHaveTokens, SlotAccounting,
         Owner
<1>11. CASE UNCHANGED vars
  BY <1>11 DEF vars, FlightInv, CoordinatorTypeOK, OwnersHaveTokens,
     SlotAccounting, Owner
<1> QED
  BY <1>1, <1>2, <1>3, <1>4, <1>5, <1>6, <1>7, <1>8, <1>9, <1>10, <1>11
     DEF Next

-----------------------------------------------------------------------------
(* Work that goes on has an owner that waits for it.                       *)

(* The end of a task stops its own work and leaves that of other owners.   *)
LEMMA SettleWork ==
  ASSUME CoordinatorTypeOK, NoOrphanWork, NEW r \in Requests,
         NEW out \in Outcomes, NEW size \in Sizes \cup {0},
         NEW work \in {"none", "stopping"},
         Settle(r, out, size, work)
  PROVE  NoOrphanWork'
<1> DEFINE q(s) == IF req[s].of = r /\ req[s].task = "running"
                   THEN [req[s] EXCEPT !.task = out, !.size = size]
                   ELSE req[s]
           after(s) == IF s = r THEN [q(s) EXCEPT !.work = work] ELSE q(s)
<1>1. req' = [s \in Requests |-> after(s)]
  BY DEF Settle
<1>2. ASSUME NEW s \in Requests
      PROVE  q(s) \in RequestState /\ q(s).work = req[s].work
  <2>1. PICK p \in RequestState : p = req[s]
    BY DEF CoordinatorTypeOK
  <2>2. /\ [p EXCEPT !.task = out, !.size = size] \in RequestState
        /\ [p EXCEPT !.task = out, !.size = size].work = p.work
    BY DEF RequestState
  <2>3. CASE req[s].of = r /\ req[s].task = "running"
    <3>1. q(s) = [p EXCEPT !.task = out, !.size = size]
      BY <2>1, <2>3, Zenon
    <3> HIDE DEF q
    <3> QED
      BY <2>1, <2>2, <3>1, Zenon
  <2>4. CASE ~(req[s].of = r /\ req[s].task = "running")
    BY <2>1, <2>4
  <2> QED
    BY <2>3, <2>4
<1>3. \A s \in Requests : req[s].of # r => q(s) = req[s]
  OBVIOUS
<1>4. after(r).work = work
  <2>1. PICK p \in RequestState : p = q(r)
    BY <1>2
  <2>2. [p EXCEPT !.work = work].work = work
    BY DEF RequestState
  <2>3. after(r) = [p EXCEPT !.work = work]
    BY <2>1, Zenon
  <2> HIDE DEF after, q
  <2> QED
    BY <2>2, <2>3, Zenon
<1>5. \A s \in Requests : s # r => after(s) = q(s)
  OBVIOUS
<1> HIDE DEF after, q
<1>6. ASSUME NEW s \in Requests, req'[s].work = "running"
      PROVE  (Owner(s) /\ req[s].task = "running")'
  <2>1. req'[s] = after(s)
    BY <1>1
  <2>2. s # r
    BY <1>4, <1>6, <2>1
  <2>3. req[s].work = "running"
    BY <1>2, <1>5, <1>6, <2>1, <2>2
  <2>4. req[s].of = s /\ req[s].task = "running"
    BY <2>3 DEF NoOrphanWork, Owner
  <2>5. req'[s] = req[s]
    BY <1>3, <1>5, <2>1, <2>2, <2>4
  <2> QED
    BY <2>4, <2>5 DEF Owner
<1> QED
  BY <1>6 DEF NoOrphanWork

(* A step that changes one request, to one whose work is not running.      *)
LEMMA IdleWork ==
  ASSUME NoOrphanWork, NEW r \in Requests,
         req'[r].work # "running",
         \A s \in Requests : s # r => req'[s] = req[s]
  PROVE  NoOrphanWork'
BY DEF NoOrphanWork, Owner

LEMMA StepWork == FlightInv /\ NoOrphanWork /\ [Next]_vars => NoOrphanWork'
<1> SUFFICES ASSUME FlightInv, NoOrphanWork, [Next]_vars PROVE NoOrphanWork'
  OBVIOUS
<1>1. CoordinatorTypeOK
  BY DEF FlightInv
<1>2. req \in [Requests -> RequestState]
  BY <1>1 DEF CoordinatorTypeOK
<1>3. ASSUME UNCHANGED req PROVE NoOrphanWork'
  BY <1>3 DEF NoOrphanWork, Owner
<1>4. ASSUME NEW r \in Requests, Answered(r), req[r].work # "running"
      PROVE  NoOrphanWork'
  <2>1. req'[r].work # "running"
    <3>1. [NewRequest EXCEPT !.work = req[r].work] =
            [token |-> NoRequest, of |-> NoRequest, task |-> "none",
             size |-> 0, work |-> req[r].work]
      BY DEF NewRequest
    <3>2. req'[r] = [token |-> NoRequest, of |-> NoRequest, task |-> "none",
                     size |-> 0, work |-> req[r].work]
      BY <1>2, <1>4, <3>1 DEF Answered
    <3> QED
      BY <1>4, <3>2
  <2> QED
    BY <1>1, <1>4, <2>1, AnsweredStep, IdleWork
<1>5. ASSUME NEW r \in Requests, NEW t \in Tokens, Join(r, t)
      PROVE  NoOrphanWork'
  <2>1. req' = [req EXCEPT ![r] =
                  [token |-> t, of |-> inflight[t],
                   task |-> req[inflight[t]].task,
                   size |-> req[inflight[t]].size, work |-> "none"]]
    BY <1>5 DEF Join
  <2>2. /\ req'[r].work = "none"
        /\ \A s \in Requests : s # r => req'[s] = req[s]
    BY <1>2, <2>1
  <2> QED
    BY <2>2, IdleWork
<1>6. ASSUME NEW r \in Requests, NEW t \in Tokens, Own(r, t)
      PROVE  NoOrphanWork'
  <2>1. req' = [req EXCEPT ![r] =
                  [token |-> t, of |-> r, task |-> "running", size |-> 0,
                   work |-> "running"]]
    BY <1>6 DEF Own
  <2>2. /\ req'[r].of = r /\ req'[r].task = "running"
        /\ \A s \in Requests : s # r => req'[s] = req[s]
    BY <1>2, <2>1
  <2> QED
    BY <2>2 DEF NoOrphanWork, Owner
<1>7. ASSUME NEW r \in Requests, WorkEnds(r) PROVE NoOrphanWork'
  <2>1. ASSUME NEW size \in Sizes, Settle(r, "ok", size, "none")
        PROVE  NoOrphanWork'
    BY <1>1, <2>1, SettleWork DEF Outcomes
  <2>2. ASSUME NEW out \in {"bad", "error"}, Settle(r, out, 0, "none")
        PROVE  NoOrphanWork'
    BY <1>1, <2>2, SettleWork DEF Outcomes
  <2> QED
    BY <1>7, <2>1, <2>2 DEF WorkEnds
<1>8. ASSUME NEW r \in Requests, WorkTimesOut(r) PROVE NoOrphanWork'
  BY <1>1, <1>8, SettleWork DEF WorkTimesOut, Outcomes
<1>9. ASSUME NEW r \in Requests, WorkStops(r) PROVE NoOrphanWork'
  <2>1. PICK q \in RequestState : q = req[r]
    BY <1>2
  <2>2. req' = [req EXCEPT ![r] = [q EXCEPT !.work = "none"]]
    BY <1>9, <2>1, Zenon DEF WorkStops
  <2> DEFINE p == [q EXCEPT !.work = "none"]
  <2>3. p.work = "none"
    BY DEF RequestState
  <2> HIDE DEF p
  <2>4. req' = [req EXCEPT ![r] = p]
    BY <2>2, Zenon DEF p
  <2>5. /\ req'[r].work = "none"
        /\ \A s \in Requests : s # r => req'[s] = req[s]
    BY <1>2, <2>3, <2>4
  <2> QED
    BY <2>5, IdleWork
<1>10. ASSUME NEW r \in Requests, OwnerResumes(r) PROVE NoOrphanWork'
  BY <1>4, <1>10 DEF OwnerResumes, NoOrphanWork
<1>11. ASSUME NEW r \in Requests, OwnerCancelled(r) PROVE NoOrphanWork'
  <2>1. CASE Settle(r, "cancelled", 0, "stopping")
    BY <1>1, <2>1, SettleWork DEF Outcomes
  <2>2. CASE req[r].task \in {"ok", "bad", "error"} /\ Answered(r)
    BY <1>4, <2>2 DEF NoOrphanWork
  <2> QED
    BY <1>11, <2>1, <2>2 DEF OwnerCancelled
<1>12. ASSUME NEW r \in Requests, FollowerResumes(r) \/ FollowerCancelled(r)
       PROVE  NoOrphanWork'
  BY <1>4, <1>12 DEF FollowerResumes, FollowerCancelled, Follower, Owner,
                     NoOrphanWork
<1>13. CASE UNCHANGED vars
  BY <1>3, <1>13 DEF vars
<1>14. CASE Tick
  BY <1>3, <1>14 DEF Tick
<1>15. ASSUME NEW r \in Requests, NEW t \in Tokens,
              ServeCached(r, t) \/ Refuse(r, t)
       PROVE  NoOrphanWork'
  BY <1>3, <1>15 DEF ServeCached, Refuse
<1> QED
  BY <1>5, <1>6, <1>7, <1>8, <1>9, <1>10, <1>11, <1>12, <1>13, <1>14, <1>15
     DEF Next

LEMMA InitWork == Init => NoOrphanWork
BY DEF Init, NewRequest, NoOrphanWork

(* One generation for a token, one slot for a generation: the dictionary   *)
(* names exactly the unfinished owners, the counter counts them and stays  *)
(* within the configured concurrency; and nothing is generated that nobody *)
(* waits for (thumbnail_cache.py ThumbnailCoordinator.get_or_generate).    *)
THEOREM CoordinatorAccounting ==
  Spec => [](CoordinatorTypeOK /\ GenerationsAccounted)
<1>1. FlightInv /\ NoOrphanWork => CoordinatorTypeOK /\ GenerationsAccounted
  BY DEF FlightInv, GenerationsAccounted
<1> QED
  BY <1>1, InitFlight, StepFlight, InitWork, StepWork, PTL DEF Spec

-----------------------------------------------------------------------------
(* The cache: its entries.                                                 *)

Entry == [token : Tokens, ok : BOOLEAN, size : Nat, expires : Nat]

(* Each token has one entry.                                               *)
Distinct(s) == \A i, j \in DOMAIN s : s[i].token = s[j].token => i = j

(* What an injective function maps I to is as many as I.                   *)
LEMMA ImageCounted ==
  ASSUME NEW I, IsFiniteSet(I), NEW g, I \subseteq DOMAIN g,
         \A i, j \in I : g[i] = g[j] => i = j
  PROVE  /\ IsFiniteSet({g[i] : i \in I})
         /\ Cardinality({g[i] : i \in I}) = Cardinality(I)
<1> DEFINE T == {g[i] : i \in I}
           h == [i \in I |-> g[i]]
<1>1. h \in [I -> T] /\ \A i \in I : h[i] = g[i]
  OBVIOUS
<1>2. \A y \in T : \E i \in I : h[i] = y
  OBVIOUS
<1>3. IsInjective(h)
  BY <1>1, Zenon DEF IsInjective
<1> HIDE DEF h, T
<1>4. h \in Injection(I, T) /\ h \in Surjection(I, T)
  BY <1>1, <1>2, <1>3, Zenon DEF Injection, Surjection
<1>5. IsFiniteSet(T) /\ Cardinality(T) = Cardinality(I)
  BY <1>4, FS_Surjection, Zenon
<1> QED
  BY <1>5 DEF T

(* Without drops the entries of the tokens in T and keeps the others in    *)
(* their order: p tells where in s they were.                              *)
Embeds(p, r, s) ==
  /\ p \in [DOMAIN r -> DOMAIN s]
  /\ \A k \in DOMAIN r : r[k] = s[p[k]]
  /\ \A k, l \in DOMAIN r : k < l => p[k] < p[l]

LEMMA WithoutFacts ==
  ASSUME NEW s \in Seq(Entry), Distinct(s), NEW T
  PROVE  /\ Without(s, T) \in Seq(Entry)
         /\ Distinct(Without(s, T))
         /\ ToSet(Without(s, T)) = {e \in ToSet(s) : e.token \notin T}
         /\ \E p : Embeds(p, Without(s, T), s)
<1> DEFINE S == {e \in ToSet(s) : e.token \notin T}
           r == Without(s, T)
           P == Chosen(s, S)
           m == Cardinality(P)
           n == Len(s)
<1>1. n \in Nat /\ DOMAIN s = 1..n /\ \A i \in 1..n : s[i] \in Entry
  OBVIOUS
<1>2. r = Restricted(s, S)
  BY Zenon DEF Without
<1>3. S = {s[i] : i \in P} /\ P \in SUBSET DOMAIN s
  BY DEF Chosen, ToSet
<1> HIDE DEF r, S, n
<1>4. m \in 0..n /\ \E p : Enumerates(p, m, P) /\ r = [k \in 1..m |-> s[p[k]]]
  <2>1. n \in Nat /\ DOMAIN s = 1..n
    BY <1>1
  <2> QED
    BY <1>2, <2>1, RestrictedFacts
<1>5. PICK p : Enumerates(p, m, P) /\ r = [k \in 1..m |-> s[p[k]]]
  BY <1>4
<1>6. m \in Nat
  BY <1>1, <1>4
<1> HIDE DEF P, m
<1>7. /\ p \in [1..m -> P] /\ DOMAIN r = 1..m
      /\ \A k \in 1..m : r[k] = s[p[k]] /\ p[k] \in DOMAIN s
      /\ \A k, l \in 1..m : k < l => p[k] < p[l]
      /\ \A i \in P : \E k \in 1..m : p[k] = i
  BY <1>3, <1>5, Zenon DEF Enumerates
<1>8. p \in [1..m -> DOMAIN s]
  BY <1>3, <1>7, Zenon
<1>9. Embeds(p, r, s)
  BY <1>7, <1>8, Zenon DEF Embeds
<1>10. ToSet(r) = S
  <2>1. \A e \in ToSet(r) : e \in S
    BY <1>3, <1>7, Zenon DEF ToSet
  <2>2. \A e \in S : e \in ToSet(r)
    <3> TAKE e \in S
    <3>1. PICK i \in P : s[i] = e
      BY <1>3, Zenon
    <3>2. PICK k \in 1..m : p[k] = i
      BY <1>7, Zenon
    <3>3. k \in DOMAIN r /\ r[k] = e
      BY <1>7, <3>1, <3>2, Zenon
    <3> QED
      BY <3>3, Zenon DEF ToSet
  <2> QED
    BY <2>1, <2>2, Zenon
<1>11. \A k \in 1..m : r[k] \in Entry
  BY <1>1, <1>7
<1>12. r \in Seq(Entry)
  BY <1>5, <1>6, <1>11
<1>13. Distinct(r)
  <2> SUFFICES ASSUME NEW k \in 1..m, NEW l \in 1..m, r[k].token = r[l].token
               PROVE  k = l
    BY <1>7, Zenon DEF Distinct
  <2>1. p[k] = p[l]
    <3>1. /\ p[k] \in DOMAIN s /\ p[l] \in DOMAIN s
          /\ s[p[k]].token = s[p[l]].token
      BY <1>7, Zenon
    <3> QED
      BY <3>1, Zenon DEF Distinct
  <2>2. ~(p[k] < p[l]) /\ ~(p[l] < p[k])
    <3>1. p[k] \in Nat
      BY <1>1, <1>7
    <3> QED
      BY <2>1, <3>1
  <2>3. ~(k < l) /\ ~(l < k)
    BY <1>7, <2>2, Zenon
  <2> QED
    BY <1>6, <2>3
<1> QED
  BY <1>9, <1>10, <1>12, <1>13 DEF r, S

(* As many entries, and as many tokens, as positions.                      *)
LEMMA PositionsCounted ==
  ASSUME NEW s \in Seq(Entry), Distinct(s), NEW I \in SUBSET DOMAIN s
  PROVE  /\ IsFiniteSet(I) /\ Cardinality(I) \in Nat
         /\ IsFiniteSet({s[i] : i \in I})
         /\ Cardinality({s[i] : i \in I}) = Cardinality(I)
         /\ Cardinality({s[i].token : i \in I}) = Cardinality(I)
<1> DEFINE n == Len(s)
           g == [i \in I |-> s[i].token]
<1>1. n \in Nat /\ DOMAIN s = 1..n
  OBVIOUS
<1> HIDE DEF n
<1>2. IsFiniteSet(I) /\ Cardinality(I) \in Nat
  <2>1. IsFiniteSet(1..n) /\ I \in SUBSET (1..n)
    BY <1>1, SizeUpTo
  <2>2. IsFiniteSet(I)
    BY <2>1, FS_Subset, Zenon
  <2> QED
    BY <2>2, FS_CardinalityType
<1>3. \A i, j \in I : s[i] = s[j] => i = j
  BY Zenon DEF Distinct
<1>4. /\ IsFiniteSet({s[i] : i \in I})
      /\ Cardinality({s[i] : i \in I}) = Cardinality(I)
  BY <1>2, <1>3, ImageCounted
<1>5. /\ I \subseteq DOMAIN g
      /\ \A i, j \in I : g[i] = g[j] => i = j
  BY Zenon DEF Distinct
<1>6. {s[i].token : i \in I} = {g[i] : i \in I}
  OBVIOUS
<1> HIDE DEF g
<1>7. Cardinality({g[i] : i \in I}) = Cardinality(I)
  BY <1>2, <1>5, ImageCounted
<1> QED
  BY <1>2, <1>4, <1>6, <1>7

-----------------------------------------------------------------------------
(* The bytes of sets of entries.                                           *)

Bytes(E) == UNION {{e} \X (1..e.size) : e \in E}

LEMMA BytesCounted ==
  ASSUME NEW E \in SUBSET Entry, IsFiniteSet(E)
  PROVE  IsFiniteSet(Bytes(E)) /\ BytesIn(E) \in Nat
<1> DEFINE T == {{e} \X (1..e.size) : e \in E}
           g == [e \in E |-> {e} \X (1..e.size)]
<1>1. g \in Surjection(E, T)
  <2>1. g \in [E -> T] /\ \A y \in T : \E e \in E : g[e] = y
    OBVIOUS
  <2> HIDE DEF g, T
  <2> QED
    BY <2>1, Zenon DEF Surjection
<1>2. IsFiniteSet(T)
  <2> HIDE DEF g, T
  <2> QED
    BY <1>1, FS_Surjection, Zenon
<1>3. \A e \in E : IsFiniteSet({e} \X (1..e.size))
  <2> TAKE e \in E
  <2>1. IsFiniteSet({e}) /\ IsFiniteSet(1..e.size)
    BY FS_Singleton, SizeUpTo DEF Entry
  <2> QED
    BY <2>1, FS_Product, Zenon
<1>4. IsFiniteSet(UNION T)
  <2>1. \A y \in T : IsFiniteSet(y)
    BY <1>3, Zenon
  <2> HIDE DEF T
  <2> QED
    BY <1>2, <2>1, FS_UNION, Zenon
<1>5. IsFiniteSet(Bytes(E))
  BY <1>4, Zenon DEF Bytes
<1>6. BytesIn(E) = Cardinality(Bytes(E))
  BY Zenon DEF Bytes, BytesIn
<1> QED
  BY <1>5, <1>6, FS_CardinalityType

(* Bytes of sets that are apart add up.                                    *)
LEMMA BytesApart ==
  ASSUME NEW E \in SUBSET Entry, IsFiniteSet(E),
         NEW F \in SUBSET Entry, IsFiniteSet(F), E \cap F = {}
  PROVE  BytesIn(E \cup F) = BytesIn(E) + BytesIn(F)
<1>1. Bytes(E \cup F) = Bytes(E) \cup Bytes(F)
  BY DEF Bytes
<1>2. Bytes(E) \cap Bytes(F) = {}
  <2> SUFFICES ASSUME NEW x \in Bytes(E), x \in Bytes(F) PROVE FALSE
    OBVIOUS
  <2>1. PICK e \in E : x \in {e} \X (1..e.size)
    BY Zenon DEF Bytes
  <2>2. PICK f \in F : x \in {f} \X (1..f.size)
    BY Zenon DEF Bytes
  <2>3. x[1] = e /\ x[1] = f
    BY <2>1, <2>2
  <2> QED
    BY <2>3
<1>3. IsFiniteSet(Bytes(E)) /\ IsFiniteSet(Bytes(F))
      /\ BytesIn(E) \in Nat /\ BytesIn(F) \in Nat
  BY BytesCounted
<1>4. Cardinality(Bytes(E) \cup Bytes(F))
        = Cardinality(Bytes(E)) + Cardinality(Bytes(F))
          - Cardinality(Bytes(E) \cap Bytes(F))
  BY <1>3, FS_Union
<1>5. /\ BytesIn(E) = Cardinality(Bytes(E))
      /\ BytesIn(F) = Cardinality(Bytes(F))
      /\ BytesIn(E \cup F) = Cardinality(Bytes(E \cup F))
  BY Zenon DEF Bytes, BytesIn
<1>6. Cardinality(Bytes(E) \cap Bytes(F)) = 0
  BY <1>2, FS_EmptySet
<1>7. BytesIn(E \cup F) = BytesIn(E) + BytesIn(F) - 0
  BY <1>1, <1>4, <1>5, <1>6, Zenon
<1> QED
  BY <1>3, <1>7

LEMMA BytesOfFew ==
  /\ BytesIn({}) = 0
  /\ \A e \in Entry : BytesIn({e}) = e.size
<1>1. BytesIn({}) = 0
  <2>1. {{e} \X (1..e.size) : e \in {}} = {}
    OBVIOUS
  <2>2. UNION {} = {}
    OBVIOUS
  <2>3. BytesIn({}) = Cardinality({})
    BY <2>1, <2>2, Zenon DEF BytesIn
  <2> QED
    BY <2>3, FS_EmptySet
<1>2. ASSUME NEW e \in Entry PROVE BytesIn({e}) = e.size
  <2> DEFINE n == e.size
             B == {e} \X (1..n)
             g == [i \in 1..n |-> <<e, i>>]
  <2>1. n \in Nat
    BY DEF Entry
  <2>2. BytesIn({e}) = Cardinality(B)
    <3>1. UNION {{d} \X (1..d.size) : d \in {e}} = B
      OBVIOUS
    <3> QED
      BY <3>1, Zenon DEF BytesIn
  <2> HIDE DEF n
  <2>3. IsFiniteSet(1..n) /\ Cardinality(1..n) = n
    BY <2>1, SizeUpTo
  <2>4. 1..n \subseteq DOMAIN g /\ \A i, j \in 1..n : g[i] = g[j] => i = j
    OBVIOUS
  <2>5. B = {g[i] : i \in 1..n}
    OBVIOUS
  <2> HIDE DEF g, B
  <2>6. Cardinality(B) = n
    <3> DEFINE I == 1..n
    <3>1. /\ IsFiniteSet(I) /\ Cardinality(I) = n /\ B = {g[i] : i \in I}
          /\ I \subseteq DOMAIN g /\ \A i, j \in I : g[i] = g[j] => i = j
      BY <2>3, <2>4, <2>5
    <3> HIDE DEF I
    <3>2. Cardinality({g[i] : i \in I}) = Cardinality(I)
      BY <3>1, ImageCounted
    <3> QED
      BY <3>1, <3>2
  <2> QED
    BY <2>2, <2>6 DEF n
<1> QED
  BY <1>1, <1>2

-----------------------------------------------------------------------------
(* Caches that are accounted for.                                          *)

Caches == [entries : Seq(Entry), bytes : Nat, failures : Nat]
Good(c) == {e \in Entries(c) : e.ok}
Bad(c) == {e \in Entries(c) : ~e.ok}

Counted(c) == c \in Caches /\ AccountingOf(c)

LEMMA EntriesFacts ==
  ASSUME NEW c, c.entries \in Seq(Entry), Distinct(c.entries)
  PROVE  /\ Entries(c) \in SUBSET Entry /\ IsFiniteSet(Entries(c))
         /\ Good(c) \in SUBSET Entry /\ IsFiniteSet(Good(c))
         /\ Bad(c) \in SUBSET Entry /\ IsFiniteSet(Bad(c))
         /\ BytesIn(Good(c)) \in Nat /\ Cardinality(Bad(c)) \in Nat
         /\ Cardinality(OfKind(c, FALSE)) = Cardinality(Bad(c))
         /\ \A e, d \in Entries(c) : e.token = d.token => e = d
<1> DEFINE s == c.entries
<1>1. Entries(c) = {s[i] : i \in DOMAIN s}
  BY DEF Entries, ToSet
<1>2. \A i \in DOMAIN s : s[i] \in Entry
  OBVIOUS
<1>3. s \in Seq(Entry) /\ Distinct(s)
  OBVIOUS
<1>4. OfKind(c, FALSE) = {i \in DOMAIN s : s[i].ok = FALSE}
  BY DEF OfKind
<1> HIDE DEF s
<1>5. IsFiniteSet(Entries(c))
  <2>1. DOMAIN s \in SUBSET DOMAIN s
    OBVIOUS
  <2> QED
    BY <1>1, <1>3, <2>1, PositionsCounted
<1>6. Entries(c) \in SUBSET Entry
  BY <1>1, <1>2
<1>7. Good(c) \in SUBSET Entries(c) /\ Bad(c) \in SUBSET Entries(c)
  BY DEF Good, Bad
<1>8. /\ Good(c) \in SUBSET Entry /\ IsFiniteSet(Good(c))
      /\ Bad(c) \in SUBSET Entry /\ IsFiniteSet(Bad(c))
  BY <1>5, <1>6, <1>7, FS_Subset, Zenon
<1>9. BytesIn(Good(c)) \in Nat /\ Cardinality(Bad(c)) \in Nat
  BY <1>8, BytesCounted, FS_CardinalityType
<1>10. Cardinality(OfKind(c, FALSE)) = Cardinality(Bad(c))
  <2> DEFINE I == OfKind(c, FALSE)
  <2>1. I \in SUBSET DOMAIN s
    BY <1>4
  <2>2. Bad(c) = {s[i] : i \in I}
    <3>1. \A e \in Entry : ~e.ok <=> e.ok = FALSE
      BY Zenon DEF Entry
    <3>2. Bad(c) = {e \in {s[i] : i \in DOMAIN s} : e.ok = FALSE}
      BY <1>1, <1>2, <3>1 DEF Bad
    <3> QED
      BY <1>4, <3>2
  <2> HIDE DEF I
  <2>3. Cardinality({s[i] : i \in I}) = Cardinality(I)
    BY <1>3, <2>1, PositionsCounted
  <2> QED
    BY <2>2, <2>3 DEF I
<1>11. \A e, d \in Entries(c) : e.token = d.token => e = d
  BY <1>1, <1>3, Zenon DEF Distinct
<1> QED
  BY <1>5, <1>6, <1>8, <1>9, <1>10, <1>11

(* What it takes to be accounted for, said of the set of entries.          *)
LEMMA CountedIs ==
  ASSUME NEW c \in Caches
  PROVE  Counted(c) <=> /\ Distinct(c.entries)
                        /\ c.bytes = BytesIn(Good(c))
                        /\ c.failures = Cardinality(Bad(c))
                        /\ c.bytes <= MaxBytes /\ c.failures <= MaxNegative
<1>1. c.entries \in Seq(Entry)
  BY DEF Caches
<1>2. Distinct(c.entries) =>
        Cardinality(OfKind(c, FALSE)) = Cardinality(Bad(c))
  BY <1>1, EntriesFacts
<1> QED
  BY <1>2, Zenon DEF Counted, AccountingOf, Distinct, Good

LEMMA CacheOf ==
  ASSUME NEW s \in Seq(Entry), Distinct(s), NEW b \in Nat, NEW f \in Nat,
         b = BytesIn({e \in ToSet(s) : e.ok}),
         f = Cardinality({e \in ToSet(s) : ~e.ok}),
         b <= MaxBytes, f <= MaxNegative,
         NEW c, c = [entries |-> s, bytes |-> b, failures |-> f]
  PROVE  Counted(c) /\ Entries(c) = ToSet(s)
<1>1. c \in Caches /\ c.entries = s /\ c.bytes = b /\ c.failures = f
  BY DEF Caches
<1>2. Entries(c) = ToSet(s)
  BY <1>1, Zenon DEF Entries
<1>3. Good(c) = {e \in ToSet(s) : e.ok} /\ Bad(c) = {e \in ToSet(s) : ~e.ok}
  BY <1>2, Zenon DEF Good, Bad
<1> QED
  BY <1>1, <1>2, <1>3, CountedIs, Zenon

(* One more entry, of a token that has none.                               *)
LEMMA AppendEntry ==
  ASSUME NEW s \in Seq(Entry), Distinct(s), NEW e \in Entry,
         \A x \in ToSet(s) : x.token # e.token
  PROVE  /\ Append(s, e) \in Seq(Entry) /\ Distinct(Append(s, e))
         /\ ToSet(Append(s, e)) = ToSet(s) \cup {e}
<1> DEFINE n == Len(s)
           r == Append(s, e)
<1>1. /\ n \in Nat /\ DOMAIN s = 1..n
      /\ r \in Seq(Entry) /\ DOMAIN r = 1..(n + 1)
      /\ \A i \in 1..n : r[i] = s[i]
      /\ r[n + 1] = e
  BY AppendProperties
<1> HIDE DEF n, r
<1>2. \A i \in 1..(n + 1) : i \in 1..n \/ i = n + 1
  BY <1>1
<1>3. \A i \in 1..n : i \in 1..(n + 1)
  BY <1>1
<1>4. n + 1 \in 1..(n + 1)
  BY <1>1
<1>5. \A i \in 1..n : s[i].token # e.token
  BY <1>1, Zenon DEF ToSet
<1>6. Distinct(r)
  <2> SUFFICES ASSUME NEW i \in 1..(n + 1), NEW j \in 1..(n + 1),
                      r[i].token = r[j].token
               PROVE  i = j
    BY <1>1, Zenon DEF Distinct
  <2>1. CASE i \in 1..n /\ j \in 1..n
    BY <1>1, <2>1, Zenon DEF Distinct
  <2>2. CASE i = n + 1 \/ j = n + 1
    BY <1>1, <1>2, <1>5, <2>2, Zenon
  <2> QED
    BY <1>2, <2>1, <2>2, Zenon
<1>7. ToSet(r) = ToSet(s) \cup {e}
  <2>1. \A x \in ToSet(r) : x \in ToSet(s) \cup {e}
    BY <1>1, <1>2, Zenon DEF ToSet
  <2>2. \A x \in ToSet(s) \cup {e} : x \in ToSet(r)
    <3>1. \A x \in ToSet(s) : x \in ToSet(r)
      BY <1>1, <1>3, Zenon DEF ToSet
    <3>2. e \in ToSet(r)
      BY <1>1, <1>4, Zenon DEF ToSet
    <3> QED
      BY <3>1, <3>2
  <2> QED
    BY <2>1, <2>2
<1> QED
  BY <1>1, <1>6, <1>7 DEF r

-----------------------------------------------------------------------------
(* The methods keep the accounts.                                          *)

LEMMA CachedIs ==
  ASSUME NEW c, NEW t, Cached(c, t)
  PROVE  EntryOf(c, t) \in Entries(c) /\ EntryOf(c, t).token = t
BY Zenon DEF Cached, EntryOf

LEMMA RemoveKeeps ==
  ASSUME NEW c, Counted(c), NEW t
  PROVE  /\ Counted(RemoveEntry(c, t))
         /\ Entries(RemoveEntry(c, t)) = {e \in Entries(c) : e.token # t}
         /\ \E p : Embeds(p, RemoveEntry(c, t).entries, c.entries)
<1> DEFINE d == RemoveEntry(c, t)
           s == c.entries
           r == Without(s, {t})
           e == EntryOf(c, t)
<1>1. /\ c \in Caches /\ Distinct(s) /\ s \in Seq(Entry)
      /\ c.bytes = BytesIn(Good(c)) /\ c.failures = Cardinality(Bad(c))
      /\ c.bytes <= MaxBytes /\ c.failures <= MaxNegative
      /\ c.bytes \in Nat /\ c.failures \in Nat
  <2>1. c \in Caches
    BY DEF Counted
  <2>2. s \in Seq(Entry) /\ c.bytes \in Nat /\ c.failures \in Nat
    BY <2>1 DEF Caches
  <2> QED
    BY <2>1, <2>2, CountedIs, Zenon
<1>2. /\ Good(c) \in SUBSET Entry /\ IsFiniteSet(Good(c))
      /\ Bad(c) \in SUBSET Entry /\ IsFiniteSet(Bad(c))
      /\ \A x, y \in Entries(c) : x.token = y.token => x = y
      /\ Entries(c) \in SUBSET Entry
  BY <1>1, EntriesFacts
<1>3. CASE ~Cached(c, t)
  <2>1. d = c
    BY <1>3, Zenon DEF RemoveEntry
  <2>2. \A x \in Entries(c) : x.token # t
    BY <1>3, Zenon DEF Cached
  <2>3. Embeds([k \in DOMAIN s |-> k], s, s)
    <3> DEFINE p == [k \in DOMAIN s |-> k]
    <3>1. p \in [DOMAIN s -> DOMAIN s] /\ \A k \in DOMAIN s : p[k] = k
      OBVIOUS
    <3> HIDE DEF p
    <3> QED
      BY <3>1, Zenon DEF Embeds
  <2>4. Entries(c) = {x \in Entries(c) : x.token # t}
    BY <2>2
  <2>5. \E p : Embeds(p, d.entries, s)
    BY <2>1, <2>3, Zenon
  <2> QED
    BY <2>1, <2>4, <2>5, Zenon
<1>4. CASE Cached(c, t)
  <2>1. e \in Entries(c) /\ e.token = t /\ e \in Entry
    BY <1>2, <1>4, CachedIs
  <2>2. /\ r \in Seq(Entry) /\ Distinct(r)
        /\ ToSet(r) = {x \in ToSet(s) : x.token \notin {t}}
        /\ \E p : Embeds(p, r, s)
    BY <1>1, WithoutFacts
  <2>3. d = [entries |-> r,
             bytes |-> IF e.ok THEN c.bytes - e.size ELSE c.bytes,
             failures |-> IF e.ok THEN c.failures ELSE c.failures - 1]
    BY <1>4, Zenon DEF RemoveEntry
  <2>4. ToSet(r) = Entries(c) \ {e}
    <3>1. ToSet(s) = Entries(c)
      BY Zenon DEF Entries
    <3>2. \A x \in Entries(c) : x.token = t <=> x = e
      BY <1>2, <2>1, Zenon
    <3> QED
      BY <2>2, <3>1, <3>2
  <2>5. {x \in Entries(c) : x.token # t} = Entries(c) \ {e}
    BY <1>2, <2>1
  <2> DEFINE J == {x \in ToSet(r) : x.ok}
             F == {x \in ToSet(r) : ~x.ok}
             b == d.bytes
             f == d.failures
  <2> HIDE DEF e, r, d, s
  <2>6. /\ b \in Nat /\ f \in Nat
        /\ b = BytesIn(J) /\ f = Cardinality(F)
        /\ b <= MaxBytes /\ f <= MaxNegative
    <3>1. MaxBytes \in Nat /\ MaxNegative \in Nat
      BY CacheAssumption
    <3>2. CASE e.ok
      <4>1. J = Good(c) \ {e} /\ F = Bad(c) /\ Good(c) = J \cup {e}
            /\ J \cap {e} = {}
        BY <2>1, <2>4, <3>2 DEF Good, Bad
      <4>2. J \in SUBSET Good(c) /\ {e} \in SUBSET Entry
        BY <2>1, <4>1
      <4> HIDE DEF J, F
      <4>3. J \in SUBSET Entry /\ IsFiniteSet(J) /\ IsFiniteSet({e})
        <5>1. IsFiniteSet(J)
          BY <1>2, <4>2, FS_Subset, Zenon
        <5> QED
          BY <1>2, <4>2, <5>1, FS_Singleton
      <4>4. BytesIn(J \cup {e}) = BytesIn(J) + BytesIn({e})
        BY <4>1, <4>2, <4>3, BytesApart
      <4>5. BytesIn({e}) = e.size /\ e.size \in Nat /\ BytesIn(J) \in Nat
        BY <2>1, <4>3, BytesOfFew, BytesCounted DEF Entry
      <4>6. c.bytes = BytesIn(J) + e.size
        BY <1>1, <4>1, <4>4, <4>5, Zenon
      <4>7. d.bytes = c.bytes - e.size /\ d.failures = c.failures
        BY <2>3, <3>2
      <4> DEFINE x == c.bytes
                 y == e.size
                 z == BytesIn(J)
      <4>8. x \in Nat /\ y \in Nat /\ z \in Nat /\ x = z + y /\ x <= MaxBytes
        BY <1>1, <4>5, <4>6
      <4> HIDE DEF x, y, z
      <4>9. x - y = z /\ z <= MaxBytes
        BY <3>1, <4>8
      <4>10. b = z /\ f = c.failures
        BY <4>7, <4>9 DEF x, y
      <4> QED
        BY <1>1, <4>1, <4>5, <4>9, <4>10, Zenon DEF z
    <3>3. CASE ~e.ok
      <4>1. J = Good(c) /\ F = Bad(c) \ {e} /\ e \in Bad(c)
        BY <2>1, <2>4, <3>3 DEF Good, Bad
      <4> HIDE DEF J, F
      <4>2. Cardinality(Bad(c) \ {e}) = Cardinality(Bad(c)) - 1
            /\ IsFiniteSet(Bad(c) \ {e})
        BY <1>2, <4>1, FS_RemoveElement
      <4>3. Cardinality(Bad(c) \ {e}) \in Nat
        BY <4>2, FS_CardinalityType
      <4>4. d.bytes = c.bytes /\ d.failures = c.failures - 1
        BY <2>3, <3>3
      <4> QED
        BY <1>1, <3>1, <4>1, <4>2, <4>3, <4>4
    <3> QED
      BY <3>2, <3>3
  <2>7. d = [entries |-> r, bytes |-> b, failures |-> f]
    BY <2>3
  <2>8. Counted(d) /\ Entries(d) = ToSet(r)
    <3> HIDE DEF b, f
    <3> QED
      BY <2>2, <2>6, <2>7, CacheOf
  <2>9. d.entries = r
    BY <2>3
  <2> QED
    BY <2>2, <2>4, <2>5, <2>8, <2>9, Zenon DEF d, s
<1> QED
  BY <1>3, <1>4

(* What the facts about entries say of a cache that is accounted for.      *)
LEMMA CountedFacts ==
  ASSUME NEW c, Counted(c)
  PROVE  /\ c \in Caches /\ c.entries \in Seq(Entry) /\ Distinct(c.entries)
         /\ c.bytes \in Nat /\ c.failures \in Nat
         /\ c.bytes = BytesIn(Good(c)) /\ c.failures = Cardinality(Bad(c))
         /\ c.bytes <= MaxBytes /\ c.failures <= MaxNegative
         /\ c.failures = Cardinality(OfKind(c, FALSE))
<1>1. c \in Caches
  BY DEF Counted
<1>2. c.entries \in Seq(Entry) /\ c.bytes \in Nat /\ c.failures \in Nat
  BY <1>1 DEF Caches
<1>3. /\ Distinct(c.entries)
      /\ c.bytes = BytesIn(Good(c)) /\ c.failures = Cardinality(Bad(c))
      /\ c.bytes <= MaxBytes /\ c.failures <= MaxNegative
  BY <1>1, CountedIs, Zenon
<1>4. Cardinality(OfKind(c, FALSE)) = Cardinality(Bad(c))
  BY <1>2, <1>3, EntriesFacts
<1> QED
  BY <1>1, <1>2, <1>3, <1>4

(* The n least recently used entries of a kind: positions and entries.     *)
Eldest(c, ok, n) ==
  {j \in OfKind(c, ok) : Place(OfKind(c, ok), j) <= n}
Evicted(c, ok, n) == {c.entries[i] : i \in Eldest(c, ok, n)}

LEMMA EldestFacts ==
  ASSUME NEW c, Counted(c), NEW ok \in BOOLEAN, NEW n \in Nat
  PROVE  /\ Evicted(c, ok, n) \in SUBSET Entries(c)
         /\ \A e \in Evicted(c, ok, n) : e.ok = ok
         /\ \A e \in Entries(c) :
              e.token \in Oldest(c, ok, n) <=> e \in Evicted(c, ok, n)
         /\ LET all == Cardinality(OfKind(c, ok)) IN
            /\ all \in Nat
            /\ Cardinality(Oldest(c, ok, n)) = IF n <= all THEN n ELSE all
            /\ Cardinality(Evicted(c, ok, n)) = IF n <= all THEN n ELSE all
<1> DEFINE s == c.entries
           K == OfKind(c, ok)
           I == Eldest(c, ok, n)
           all == Cardinality(K)
           size == IF n <= all THEN n ELSE all
<1>1. s \in Seq(Entry) /\ Distinct(s)
  BY CountedFacts
<1>2. K \in SUBSET DOMAIN s /\ \A i \in K : s[i].ok = ok
  BY DEF OfKind
<1>3. I = {i \in K : Place(K, i) <= n}
  BY DEF Eldest
<1>4. /\ Evicted(c, ok, n) = {s[i] : i \in I}
      /\ Entries(c) = {s[i] : i \in DOMAIN s}
  BY DEF Evicted, Entries, ToSet
<1>5. Oldest(c, ok, n) = {s[i].token : i \in I}
  BY Zenon DEF Oldest, Eldest, Place
<1> HIDE DEF s, K, I
<1>6. /\ Len(s) \in Nat /\ K \in SUBSET (1..Len(s))
      /\ I \in SUBSET DOMAIN s
  BY <1>1, <1>2, <1>3
<1>7. all \in Nat /\ Cardinality(I) = size
  <2>1. IsFiniteSet(K) /\ all \in 0..Len(s)
    BY <1>6, Places
  <2>2. Cardinality(I) = size
    BY <1>3, <1>6, FirstFew
  <2> QED
    BY <1>6, <2>1, <2>2
<1>8. /\ Cardinality({s[i] : i \in I}) = Cardinality(I)
      /\ Cardinality({s[i].token : i \in I}) = Cardinality(I)
  BY <1>1, <1>6, PositionsCounted
<1>9. Evicted(c, ok, n) \in SUBSET Entries(c)
  BY <1>4, <1>6
<1>10. \A e \in Evicted(c, ok, n) : e.ok = ok
  BY <1>2, <1>3, <1>4
<1>11. \A e \in Entries(c) :
         e.token \in Oldest(c, ok, n) <=> e \in Evicted(c, ok, n)
  <2> TAKE e \in Entries(c)
  <2>1. PICK i \in DOMAIN s : e = s[i]
    BY <1>4
  <2>2. ASSUME e.token \in Oldest(c, ok, n) PROVE e \in Evicted(c, ok, n)
    <3>1. PICK j \in I : s[i].token = s[j].token
      BY <1>5, <2>1, <2>2
    <3>2. i = j
      BY <1>1, <1>6, <2>1, <3>1, Zenon DEF Distinct
    <3> QED
      BY <1>4, <2>1, <3>2
  <2>3. ASSUME e \in Evicted(c, ok, n) PROVE e.token \in Oldest(c, ok, n)
    <3>1. PICK j \in I : e = s[j]
      BY <1>4, <2>3
    <3> QED
      BY <1>5, <3>1
  <2> QED
    BY <2>2, <2>3
<1>12. /\ Cardinality(Oldest(c, ok, n)) = size
       /\ Cardinality(Evicted(c, ok, n)) = size
  BY <1>4, <1>5, <1>7, <1>8, Zenon
<1> QED
  BY <1>7, <1>9, <1>10, <1>11, <1>12 DEF K

(* Evictions keep the accounts, and take no more than they should.         *)
LEMMA EvictKeeps ==
  ASSUME NEW c, Counted(c), NEW ok \in BOOLEAN, NEW n \in Nat
  PROVE  LET d == Evict(c, ok, n) IN
         /\ Counted(d)
         /\ Entries(d) = Entries(c) \ Evicted(c, ok, n)
         /\ ok => /\ BytesOf(c, Oldest(c, ok, n)) = BytesIn(Evicted(c, ok, n))
                  /\ BytesIn(Evicted(c, ok, n)) \in Nat
                  /\ d.bytes = c.bytes - BytesIn(Evicted(c, ok, n))
                  /\ d.failures = c.failures
         /\ ~ok => /\ d.failures = c.failures
                                   - (IF n <= c.failures THEN n ELSE c.failures)
                   /\ d.bytes = c.bytes
<1> DEFINE d == Evict(c, ok, n)
           T == Oldest(c, ok, n)
           X == Evicted(c, ok, n)
           r == Without(c.entries, T)
           J == {e \in ToSet(r) : e.ok}
           F == {e \in ToSet(r) : ~e.ok}
           b == c.bytes - BytesOf(c, T)
           f == IF ok THEN c.failures ELSE c.failures - Cardinality(T)
<1>1. /\ c.entries \in Seq(Entry) /\ Distinct(c.entries)
      /\ c.bytes \in Nat /\ c.failures \in Nat
      /\ c.bytes = BytesIn(Good(c)) /\ c.failures = Cardinality(Bad(c))
      /\ c.bytes <= MaxBytes /\ c.failures <= MaxNegative
      /\ c.failures = Cardinality(OfKind(c, FALSE))
  BY CountedFacts
<1>2. /\ Good(c) \in SUBSET Entry /\ IsFiniteSet(Good(c))
      /\ Bad(c) \in SUBSET Entry /\ IsFiniteSet(Bad(c))
      /\ Entries(c) \in SUBSET Entry /\ IsFiniteSet(Entries(c))
  BY <1>1, EntriesFacts
<1>3. /\ X \in SUBSET Entries(c) /\ \A e \in X : e.ok = ok
      /\ \A e \in Entries(c) : e.token \in T <=> e \in X
  BY EldestFacts, Zenon
<1>4. r \in Seq(Entry) /\ Distinct(r) /\ ToSet(r) = {e \in ToSet(c.entries) : e.token \notin T}
  BY <1>1, WithoutFacts, Zenon
<1>5. d = [entries |-> r, bytes |-> b, failures |-> f]
  BY Zenon DEF Evict
<1>11. LET all == Cardinality(OfKind(c, ok)) IN
       /\ Cardinality(T) = IF n <= all THEN n ELSE all
       /\ Cardinality(X) = IF n <= all THEN n ELSE all
  BY EldestFacts, Zenon
<1> HIDE DEF d, T, X, r
<1>6. ToSet(r) = Entries(c) \ X
  <2>1. ToSet(c.entries) = Entries(c)
    BY Zenon DEF Entries
  <2> QED
    BY <1>3, <1>4, <2>1
<1>7. IsFiniteSet(X) /\ X \in SUBSET Entry
  <2>1. IsFiniteSet(X)
    BY <1>2, <1>3, FS_Subset, Zenon
  <2> QED
    BY <1>2, <1>3, <2>1
<1>8. MaxBytes \in Nat /\ MaxNegative \in Nat
  BY CacheAssumption
<1>9. CASE ok
  <2>1. J = Good(c) \ X /\ F = Bad(c) /\ Good(c) = J \cup X /\ J \cap X = {}
        /\ {e \in Entries(c) : e.ok /\ e.token \in T} = X
    BY <1>3, <1>6, <1>9 DEF Good, Bad
  <2>2. J \in SUBSET Good(c)
    BY <2>1
  <2> HIDE DEF J, F
  <2>3. IsFiniteSet(J) /\ J \in SUBSET Entry
    <3>1. IsFiniteSet(J)
      BY <1>2, <2>2, FS_Subset, Zenon
    <3> QED
      BY <1>2, <2>2, <3>1
  <2>4. BytesIn(J \cup X) = BytesIn(J) + BytesIn(X)
    BY <1>7, <2>1, <2>3, BytesApart
  <2>5. BytesOf(c, T) = BytesIn(X)
    BY <2>1, Zenon DEF BytesOf
  <2> DEFINE x == c.bytes
             y == BytesIn(X)
             z == BytesIn(J)
  <2>6. x \in Nat /\ y \in Nat /\ z \in Nat /\ x = z + y /\ x <= MaxBytes
    <3>1. z \in Nat /\ y \in Nat
      BY <1>7, <2>3, BytesCounted
    <3>2. x = z + y
      BY <1>1, <2>1, <2>4, Zenon
    <3> QED
      BY <1>1, <3>1, <3>2
  <2>7. b = x - y /\ f = c.failures
    BY <1>9, <2>5
  <2> HIDE DEF x, y, z, b, f
  <2>8. b = z /\ z <= MaxBytes
    BY <1>8, <2>6, <2>7
  <2>9. Counted(d) /\ Entries(d) = ToSet(r)
    <3>1. b \in Nat /\ f \in Nat /\ b <= MaxBytes /\ f <= MaxNegative
      BY <1>1, <2>6, <2>7, <2>8
    <3>2. /\ b = BytesIn({e \in ToSet(r) : e.ok})
          /\ f = Cardinality({e \in ToSet(r) : ~e.ok})
      BY <1>1, <2>1, <2>7, <2>8, Zenon DEF z, J, F
    <3> QED
      BY <1>4, <1>5, <3>1, <3>2, CacheOf
  <2>10. d.bytes = b /\ d.failures = f
    BY <1>5
  <2> QED
    BY <1>6, <1>9, <2>5, <2>6, <2>7, <2>9, <2>10, Zenon DEF d, T, X, x, y
<1>10. CASE ~ok
  <2> DEFINE l == IF n <= c.failures THEN n ELSE c.failures
  <2>1. J = Good(c) /\ F = Bad(c) \ X /\ X \in SUBSET Bad(c)
        /\ {e \in Entries(c) : e.ok /\ e.token \in T} = {}
    BY <1>3, <1>6, <1>10 DEF Good, Bad
  <2>2. Cardinality(T) = l /\ Cardinality(X) = l
    <3>1. ok = FALSE
      BY <1>10
    <3>2. Cardinality(OfKind(c, ok)) = c.failures
      BY <1>1, <3>1, Zenon
    <3> QED
      BY <1>11, <3>2, Zenon
  <2>3. l \in Nat /\ l <= c.failures
    <3> DEFINE z == c.failures
    <3>1. z \in Nat
      BY <1>1
    <3> HIDE DEF z
    <3>2. (IF n <= z THEN n ELSE z) \in Nat /\ (IF n <= z THEN n ELSE z) <= z
      BY <3>1
    <3> QED
      BY <3>2 DEF z
  <2> HIDE DEF l, J, F
  <2>4. Bad(c) \cap X = X
    BY <2>1
  <2>5. Cardinality(F) = c.failures - l
    <3>1. Cardinality(Bad(c) \ X) = Cardinality(Bad(c)) - Cardinality(Bad(c) \cap X)
      BY <1>2, FS_Difference
    <3> QED
      BY <1>1, <2>1, <2>2, <2>4, <3>1, Zenon
  <2>6. b = c.bytes /\ f = c.failures - l
    <3>1. BytesOf(c, T) = BytesIn({e \in Entries(c) : e.ok /\ e.token \in T})
      BY DEF BytesOf
    <3>2. BytesOf(c, T) = 0
      BY <2>1, <3>1, BytesOfFew
    <3>3. f = c.failures - Cardinality(T)
      BY <1>10
    <3>4. b = c.bytes
      BY <1>1, <3>2
    <3> QED
      BY <2>2, <3>3, <3>4
  <2> HIDE DEF b, f
  <2>7. Counted(d) /\ Entries(d) = ToSet(r)
    <3> DEFINE z == c.failures
    <3>3. /\ z \in Nat /\ z <= MaxNegative /\ l \in Nat /\ l <= z
          /\ f = z - l
      BY <1>1, <2>3, <2>6
    <3>4. b \in Nat /\ b <= MaxBytes
      BY <1>1, <2>6
    <3> HIDE DEF z
    <3>5. f \in Nat /\ f <= MaxNegative
      BY <1>8, <3>3
    <3>1. b \in Nat /\ f \in Nat /\ b <= MaxBytes /\ f <= MaxNegative
      BY <3>4, <3>5
    <3>2. /\ b = BytesIn({e \in ToSet(r) : e.ok})
          /\ f = Cardinality({e \in ToSet(r) : ~e.ok})
      BY <1>1, <2>1, <2>5, <2>6, Zenon DEF J, F
    <3> QED
      BY <1>4, <1>5, <3>1, <3>2, CacheOf
  <2>8. d.bytes = b /\ d.failures = f
    BY <1>5
  <2> QED
    BY <1>6, <1>10, <2>6, <2>7, <2>8, Zenon DEF d, X, l
<1> QED
  BY <1>9, <1>10, Zenon

(* The least and the greatest of a set of small numbers.                   *)
LEMMA Extremes ==
  ASSUME NEW n \in Nat, NEW P \in SUBSET (1..n), P # {}
  PROVE  /\ \E i \in P : \A j \in P : i <= j
         /\ \E i \in P : \A j \in P : j <= i
<1> DEFINE m == Cardinality(P)
<1>1. /\ m \in 0..n /\ IsFiniteSet(P)
      /\ \A i \in P : Place(P, i) \in 1..m
      /\ \A i, j \in P : i < j => Place(P, i) < Place(P, j)
      /\ \A k \in 1..m : \E i \in P : Place(P, i) = k
  BY Places, Zenon
<1>2. m # 0
  BY <1>1, FS_EmptySet
<1> HIDE DEF m
<1>3. 1 \in 1..m /\ m \in 1..m
  BY <1>1, <1>2
<1>4. PICK i \in P : Place(P, i) = 1
  BY <1>1, <1>3, Zenon
<1>5. PICK k \in P : Place(P, k) = m
  BY <1>1, <1>3, Zenon
<1>6. ASSUME NEW j \in P PROVE i <= j /\ j <= k
  <2>1. Place(P, j) \in 1..m
    BY <1>1, Zenon
  <2>2. ~(Place(P, j) < Place(P, i)) /\ ~(Place(P, k) < Place(P, j))
    <3> DEFINE x == Place(P, j)
    <3>1. x \in 1..m
      BY <2>1
    <3> HIDE DEF x
    <3>2. ~(x < 1) /\ ~(m < x)
      BY <1>1, <3>1
    <3> QED
      BY <1>4, <1>5, <3>2 DEF x
  <2>3. ~(j < i) /\ ~(k < j)
    BY <1>1, <2>2, Zenon
  <2> QED
    BY <2>3
<1> QED
  BY <1>6

LEMMA LeastOf ==
  ASSUME NEW n \in Nat, NEW S \in SUBSET (0..n), S # {}
  PROVE  Min(S) \in S /\ \A x \in S : Min(S) <= x
<1> DEFINE P == {x + 1 : x \in S}
<1>1. P \in SUBSET (1..(n + 1)) /\ P # {} /\ n + 1 \in Nat
  <2>1. \A x \in S : x + 1 \in 1..(n + 1)
    OBVIOUS
  <2>2. P # {}
    OBVIOUS
  <2> QED
    BY <2>1, <2>2
<1>2. PICK i \in P : \A j \in P : i <= j
  <2> HIDE DEF P
  <2> QED
    BY <1>1, Extremes
<1>3. PICK x \in S : i = x + 1
  OBVIOUS
<1>4. \A y \in S : x <= y
  <2> TAKE y \in S
  <2>1. y + 1 \in P
    OBVIOUS
  <2>2. i <= y + 1
    BY <1>2, <2>1
  <2> QED
    BY <1>3, <2>2
<1> QED
  BY <1>4, Zenon DEF Min

LEMMA GreatestOf ==
  ASSUME NEW n \in Nat, NEW P \in SUBSET (1..n), P # {}
  PROVE  Max(P) \in P /\ \A x \in P : x <= Max(P)
<1>1. PICK i \in P : \A j \in P : j <= i
  BY Extremes
<1>2. \A j \in P : i >= j
  BY <1>1
<1>3. Max(P) \in P /\ \A x \in P : Max(P) >= x
  BY <1>2, Zenon DEF Max
<1> HIDE DEF Max
<1> QED
  BY <1>3

(* One more entry in a cache.                                              *)
LEMMA AppendKeeps ==
  ASSUME NEW c, Counted(c), NEW e \in Entry,
         \A x \in Entries(c) : x.token # e.token,
         NEW d, d.entries = Append(c.entries, e),
         d = [entries |-> d.entries, bytes |-> d.bytes, failures |-> d.failures],
         d.bytes \in Nat, d.failures \in Nat,
         e.ok => d.bytes = c.bytes + e.size /\ d.failures = c.failures,
         ~e.ok => d.bytes = c.bytes /\ d.failures = c.failures + 1,
         d.bytes <= MaxBytes, d.failures <= MaxNegative
  PROVE  Counted(d) /\ Entries(d) = Entries(c) \cup {e}
<1>1. /\ c.entries \in Seq(Entry) /\ Distinct(c.entries)
      /\ c.bytes \in Nat /\ c.failures \in Nat
      /\ c.bytes = BytesIn(Good(c)) /\ c.failures = Cardinality(Bad(c))
  BY CountedFacts
<1>2. /\ Good(c) \in SUBSET Entry /\ IsFiniteSet(Good(c))
      /\ Bad(c) \in SUBSET Entry /\ IsFiniteSet(Bad(c))
  BY <1>1, EntriesFacts
<1>3. ToSet(c.entries) = Entries(c) /\ ToSet(d.entries) = Entries(d)
  BY Zenon DEF Entries
<1>4. /\ d.entries \in Seq(Entry) /\ Distinct(d.entries)
      /\ Entries(d) = Entries(c) \cup {e}
  <2>1. \A x \in ToSet(c.entries) : x.token # e.token
    BY <1>3, Zenon
  <2>2. /\ Append(c.entries, e) \in Seq(Entry) /\ Distinct(Append(c.entries, e))
        /\ ToSet(Append(c.entries, e)) = ToSet(c.entries) \cup {e}
    BY <1>1, <2>1, AppendEntry
  <2> QED
    BY <1>3, <2>2
<1>5. e \notin Entries(c)
  OBVIOUS
<1>6. d.bytes = BytesIn(Good(d)) /\ d.failures = Cardinality(Bad(d))
  <2>1. CASE e.ok
    <3>1. /\ Good(d) = Good(c) \cup {e} /\ Bad(d) = Bad(c)
          /\ Good(c) \cap {e} = {}
      BY <1>4, <1>5, <2>1 DEF Good, Bad
    <3>2. BytesIn(Good(c) \cup {e}) = BytesIn(Good(c)) + BytesIn({e})
      <4>1. {e} \in SUBSET Entry /\ IsFiniteSet({e})
        BY FS_Singleton
      <4> QED
        BY <1>2, <3>1, <4>1, BytesApart
    <3>3. BytesIn({e}) = e.size
      BY BytesOfFew
    <3>4. d.bytes = c.bytes + e.size /\ d.failures = c.failures
      BY <2>1
    <3> QED
      BY <1>1, <3>1, <3>2, <3>3, <3>4, Zenon
  <2>2. CASE ~e.ok
    <3>1. /\ Good(d) = Good(c) /\ Bad(d) = Bad(c) \cup {e}
          /\ e \notin Bad(c)
      BY <1>4, <1>5, <2>2 DEF Good, Bad
    <3>2. Cardinality(Bad(c) \cup {e}) = Cardinality(Bad(c)) + 1
      BY <1>2, <3>1, FS_AddElement
    <3>3. d.bytes = c.bytes /\ d.failures = c.failures + 1
      BY <2>2
    <3> QED
      BY <1>1, <3>1, <3>2, <3>3, Zenon
  <2> QED
    BY <2>1, <2>2, Zenon
<1>7. d \in Caches
  BY <1>4 DEF Caches
<1>8. Counted(d)
  BY <1>4, <1>6, <1>7, CountedIs, Zenon
<1> QED
  BY <1>4, <1>8, Zenon

LEMMA LookupKeeps ==
  ASSUME NEW c, Counted(c), NEW t, NEW m
  PROVE  Counted(AfterLookup(c, t, m))
<1> DEFINE d == AfterLookup(c, t, m)
           e == EntryOf(c, t)
           r == Without(c.entries, {t})
<1>1. CASE Lookup(c, t, m) = "miss"
  <2>1. d = RemoveEntry(c, t)
    BY <1>1, Zenon DEF AfterLookup
  <2>2. Counted(RemoveEntry(c, t))
    BY RemoveKeeps, Zenon
  <2> QED
    BY <2>1, <2>2
<1>2. CASE Lookup(c, t, m) # "miss"
  <2>1. Cached(c, t)
    BY <1>2, Zenon DEF Lookup
  <2>2. /\ c \in Caches /\ c.entries \in Seq(Entry) /\ Distinct(c.entries)
        /\ c.bytes \in Nat /\ c.failures \in Nat
        /\ c.bytes = BytesIn(Good(c)) /\ c.failures = Cardinality(Bad(c))
        /\ c.bytes <= MaxBytes /\ c.failures <= MaxNegative
    BY CountedFacts
  <2>3. Entries(c) \in SUBSET Entry
        /\ \A x, y \in Entries(c) : x.token = y.token => x = y
    BY <2>2, EntriesFacts
  <2>4. e \in Entries(c) /\ e.token = t
    BY <2>1, CachedIs
  <2>5. /\ r \in Seq(Entry) /\ Distinct(r)
        /\ ToSet(r) = {x \in ToSet(c.entries) : x.token \notin {t}}
    BY <2>2, WithoutFacts
  <2>6. ToSet(c.entries) = Entries(c)
    BY Zenon DEF Entries
  <2>7. d = [c EXCEPT !.entries = Append(r, e)]
    BY <1>2, Zenon DEF AfterLookup
  <2> HIDE DEF d, e, r
  <2>8. e \in Entry /\ \A x \in ToSet(r) : x.token # e.token
    BY <2>3, <2>4, <2>5
  <2>9. /\ Append(r, e) \in Seq(Entry) /\ Distinct(Append(r, e))
        /\ ToSet(Append(r, e)) = ToSet(r) \cup {e}
    BY <2>5, <2>8, AppendEntry
  <2>10. ToSet(Append(r, e)) = Entries(c)
    <3>1. \A x \in Entries(c) : x.token = t => x = e
      BY <2>3, <2>4, Zenon
    <3> QED
      BY <2>4, <2>5, <2>6, <2>9, <3>1
  <2> DEFINE s == Append(r, e)
  <2>11. s \in Seq(Entry) /\ Distinct(s) /\ ToSet(s) = Entries(c)
    BY <2>9, <2>10
  <2>12. d = [entries |-> s, bytes |-> c.bytes, failures |-> c.failures]
    BY <2>2, <2>7 DEF Caches
  <2>13. /\ c.bytes = BytesIn({x \in ToSet(s) : x.ok})
         /\ c.failures = Cardinality({x \in ToSet(s) : ~x.ok})
    BY <2>2, <2>11, Zenon DEF Good, Bad
  <2> HIDE DEF s
  <2>14. Counted(d)
    BY <2>2, <2>11, <2>12, <2>13, CacheOf
  <2> QED
    BY <2>14, Zenon DEF d
<1> QED
  BY <1>1, <1>2, Zenon

(* put_success: the entry of the token goes, then, if the JPEG may be kept *)
(* at all, as few of the oldest JPEGs as make room for it.                 *)
LEMMA PutSuccessIs ==
  ASSUME NEW c, Counted(c), NEW t \in Tokens, NEW size \in Nat,
         NEW expires \in Nat, NEW m
  PROVE  LET d == RemoveEntry(c, t)
             k == PutSuccess(c, t, size, expires, m)
             e == [token |-> t, ok |-> TRUE, size |-> size, expires |-> expires]
         IN
         /\ Counted(k)
         /\ k = d \/ \E n \in Nat :
              LET v == Evict(d, TRUE, n) IN
              /\ k = [entries |-> Append(v.entries, e),
                      bytes |-> v.bytes + size, failures |-> v.failures]
              /\ Entries(k) = Entries(v) \cup {e}
              /\ n <= Cardinality(OfKind(d, TRUE))
              /\ n # 0 => d.bytes - BytesIn(Evicted(d, TRUE, n - 1)) + size
                            > MaxBytes
<1> DEFINE d == RemoveEntry(c, t)
           k == PutSuccess(c, t, size, expires, m)
           e == [token |-> t, ok |-> TRUE, size |-> size, expires |-> expires]
           all == Cardinality(OfKind(d, TRUE))
           Room(n) == d.bytes - BytesOf(d, Oldest(d, TRUE, n)) + size
           enough == {n \in 0..all : Room(n) <= MaxBytes}
<1>1. Counted(d) /\ Entries(d) = {x \in Entries(c) : x.token # t}
  BY RemoveKeeps
<1>2. /\ d.bytes \in Nat /\ d.failures \in Nat /\ d.bytes = BytesIn(Good(d))
      /\ d.entries \in Seq(Entry) /\ Distinct(d.entries)
      /\ d.bytes <= MaxBytes /\ d.failures <= MaxNegative
  <2> HIDE DEF d
  <2> QED
    BY <1>1, CountedFacts
<1>3. CASE size > MaxBytes \/ expires <= m
  <2>1. k = d
    BY <1>3, Zenon DEF PutSuccess
  <2> QED
    BY <1>1, <2>1, Zenon
<1>4. CASE ~(size > MaxBytes \/ expires <= m)
  <2>1. size <= MaxBytes /\ MaxBytes \in Nat /\ MaxNegative \in Nat
    BY <1>4, CacheAssumption
  <2>2. all \in Nat
    <3>1. /\ IsFiniteSet(OfKind(d, TRUE)) /\ all \in 0..Len(d.entries)
          /\ Len(d.entries) \in Nat
      <4>1. OfKind(d, TRUE) \in SUBSET (1..Len(d.entries)) /\ Len(d.entries) \in Nat
        <5> HIDE DEF d
        <5> QED
          BY <1>2 DEF OfKind
      <4> HIDE DEF d
      <4> QED
        BY <4>1, Places, Zenon
    <3> HIDE DEF d, all
    <3> QED
      BY <3>1
  <2>3. \A n \in Nat : /\ Evict(d, TRUE, n).bytes
                             = d.bytes - BytesIn(Evicted(d, TRUE, n))
                       /\ Evict(d, TRUE, n).failures = d.failures
                       /\ BytesOf(d, Oldest(d, TRUE, n))
                             = BytesIn(Evicted(d, TRUE, n))
                       /\ BytesIn(Evicted(d, TRUE, n)) \in Nat
                       /\ Counted(Evict(d, TRUE, n))
                       /\ Entries(Evict(d, TRUE, n))
                            = Entries(d) \ Evicted(d, TRUE, n)
    <3> HIDE DEF d
    <3> QED
      BY <1>1, EvictKeeps, Zenon
  <2>4. all \in enough
    <3>1. Evicted(d, TRUE, all) = Good(d)
      <4>1. Eldest(d, TRUE, all) = OfKind(d, TRUE)
        <5>1. \A i \in OfKind(d, TRUE) : Place(OfKind(d, TRUE), i) \in 1..all
          <6>1. OfKind(d, TRUE) \in SUBSET (1..Len(d.entries))
                /\ Len(d.entries) \in Nat
            <7> HIDE DEF d
            <7> QED
              BY <1>2 DEF OfKind
          <6> HIDE DEF d
          <6> QED
            BY <6>1, Places, Zenon
        <5>2. \A x \in 1..all : x <= all
          <6> HIDE DEF all
          <6> QED
            BY <2>2
        <5> HIDE DEF d, all
        <5> QED
          BY <5>1, <5>2, Zenon DEF Eldest
      <4>2. \A x \in Entry : x.ok <=> x.ok = TRUE
        BY Zenon DEF Entry
      <4>3. Entries(d) = {d.entries[i] : i \in DOMAIN d.entries}
        BY DEF Entries, ToSet
      <4>4. \A i \in DOMAIN d.entries : d.entries[i] \in Entry
        <5> HIDE DEF d
        <5> QED
          BY <1>2
      <4>5. Evicted(d, TRUE, all)
              = {d.entries[i] : i \in {j \in DOMAIN d.entries :
                                         d.entries[j].ok = TRUE}}
        <5> HIDE DEF d, all
        <5> QED
          BY <4>1, Zenon DEF Evicted, OfKind
      <4> HIDE DEF d, all
      <4> QED
        BY <4>2, <4>3, <4>4, <4>5 DEF Good
    <3>2. Room(all) = d.bytes - BytesIn(Good(d)) + size
      <4> HIDE DEF d, all
      <4> QED
        BY <2>2, <2>3, <3>1
    <3>3. Room(all) = size
      <4> HIDE DEF d, all, Room
      <4> QED
        BY <1>2, <3>2
    <3> HIDE DEF d, all, Room
    <3> QED
      BY <2>1, <2>2, <3>3
  <2> DEFINE n == Min(enough)
             v == Evict(d, TRUE, n)
             b == v.bytes + size
             f == v.failures
  <2>5. n \in enough /\ \A x \in enough : n <= x
    <3>1. enough \in SUBSET (0..all) /\ enough # {}
      BY <2>4
    <3> HIDE DEF enough, all
    <3> QED
      BY <2>2, <3>1, LeastOf, Zenon
  <2>6. k = [v EXCEPT !.entries = Append(@, e), !.bytes = @ + size]
    <3>1. enough # {}
      BY <2>4
    <3> QED
      BY <1>4, <3>1, Zenon DEF PutSuccess
  <2> HIDE DEF n, k
  <2>7. n \in Nat /\ n <= all /\ Room(n) <= MaxBytes
    <3> HIDE DEF Room, all
    <3> QED
      BY <2>2, <2>5
  <2>8. n # 0 => Room(n - 1) > MaxBytes
    <3> SUFFICES ASSUME n # 0, ~(Room(n - 1) > MaxBytes) PROVE FALSE
      OBVIOUS
    <3>1. Room(n - 1) \in Int
      <4>1. n - 1 \in Nat
        BY <2>7
      <4> DEFINE y == BytesOf(d, Oldest(d, TRUE, n - 1))
      <4>2. y \in Nat /\ d.bytes \in Nat
        <5> HIDE DEF d
        <5> QED
          BY <1>2, <2>3, <4>1
      <4> HIDE DEF y, d
      <4>3. d.bytes - y + size \in Int
        BY <4>2
      <4> QED
        BY <4>3 DEF y
    <3>2. n - 1 \in enough
      <4> HIDE DEF Room, all
      <4> QED
        BY <2>1, <2>2, <2>7, <3>1
    <3>3. n <= n - 1
      BY <2>5, <3>2, Zenon
    <3> QED
      BY <2>7, <3>3
  <2>9. /\ v.bytes = d.bytes - BytesIn(Evicted(d, TRUE, n))
        /\ v.failures = d.failures /\ Counted(v)
        /\ Entries(v) = Entries(d) \ Evicted(d, TRUE, n)
        /\ BytesOf(d, Oldest(d, TRUE, n)) = BytesIn(Evicted(d, TRUE, n))
    BY <2>3, <2>7, Zenon
  <2> HIDE DEF d, all
  <2>10. v \in Caches /\ v.bytes \in Nat /\ v.failures \in Nat
    <3> HIDE DEF v
    <3> QED
      BY <2>9, CountedFacts
  <2>11. Room(n) = b
    BY <2>9
  <2> HIDE DEF v, Room
  <2>12. k = [entries |-> Append(v.entries, e), bytes |-> b, failures |-> f]
    BY <2>6, <2>10 DEF Caches
  <2>13. e \in Entry /\ e.token = t /\ e.ok /\ e.size = size
    BY DEF Entry
  <2> HIDE DEF e
  <2>14. \A x \in Entries(v) : x.token # e.token
    BY <1>1, <2>9, <2>13, Zenon DEF d
  <2>15. b \in Nat /\ b <= MaxBytes /\ f \in Nat /\ f <= MaxNegative
    <3>1. b \in Nat
      BY <2>10
    <3>2. b <= MaxBytes
      <4> HIDE DEF b
      <4> QED
        BY <2>7, <2>11, Zenon
    <3>3. f \in Nat /\ f <= MaxNegative
      BY <1>2, <2>9, <2>10, Zenon
    <3> QED
      BY <3>1, <3>2, <3>3
  <2>16. Counted(k) /\ Entries(k) = Entries(v) \cup {e}
    <3>1. /\ k.entries = Append(v.entries, e)
          /\ k.bytes = v.bytes + e.size /\ k.failures = v.failures
          /\ k = [entries |-> k.entries, bytes |-> k.bytes, failures |-> k.failures]
      BY <2>12, <2>13
    <3>2. Counted(v) /\ e \in Entry /\ e.ok
      BY <2>9, <2>13, Zenon
    <3>3. k.bytes = b /\ k.failures = f
      BY <2>12
    <3>4. /\ k.bytes \in Nat /\ k.bytes <= MaxBytes
          /\ k.failures \in Nat /\ k.failures <= MaxNegative
      BY <2>15, <3>3, Zenon
    <3> QED
      BY <2>14, <3>1, <3>2, <3>4, AppendKeeps, Zenon
  <2>17. n # 0 => d.bytes - BytesIn(Evicted(d, TRUE, n - 1)) + size > MaxBytes
    <3> SUFFICES ASSUME n # 0
                 PROVE  d.bytes - BytesIn(Evicted(d, TRUE, n - 1)) + size > MaxBytes
      OBVIOUS
    <3>1. n - 1 \in Nat
      BY <2>7
    <3>2. BytesOf(d, Oldest(d, TRUE, n - 1)) = BytesIn(Evicted(d, TRUE, n - 1))
      BY <2>3, <3>1, Zenon
    <3> QED
      BY <2>8, <3>2 DEF Room
  <2> QED
    BY <2>7, <2>12, <2>16, <2>17, Zenon DEF d, k, e, v, b, f, all
<1> QED
  BY <1>3, <1>4, Zenon

-----------------------------------------------------------------------------
(* What evictions take.                                                    *)

(* Where the entries that an eviction takes were before the entry of t     *)
(* was removed.                                                            *)
Taken(c, t, ok, n) ==
  {i \in OfKind(c, ok) :
     c.entries[i] \in Evicted(RemoveEntry(c, t), ok, n)}

(* The position in c of each position in what removing t leaves.           *)
LEMMA Positions ==
  ASSUME NEW c, Counted(c), NEW t, NEW ok \in BOOLEAN,
         NEW d, d = RemoveEntry(c, t), NEW K, K = OfKind(d, ok)
  PROVE  /\ \E p : Embeds(p, d.entries, c.entries)
         /\ K \in SUBSET (1..Len(d.entries)) /\ Len(d.entries) \in Nat
         /\ \A i \in OfKind(c, ok) : c.entries[i].token # t =>
              \E q \in K : d.entries[q] = c.entries[i]
<1>1. /\ Counted(d) /\ Entries(d) = {x \in Entries(c) : x.token # t}
      /\ \E p : Embeds(p, d.entries, c.entries)
  BY RemoveKeeps
<1>2. d.entries \in Seq(Entry)
  BY <1>1, CountedFacts
<1>3. /\ Len(d.entries) \in Nat /\ DOMAIN d.entries = 1..Len(d.entries)
      /\ K = {j \in DOMAIN d.entries : d.entries[j].ok = ok}
  <2>1. K = {j \in DOMAIN d.entries : d.entries[j].ok = ok}
    BY Zenon DEF OfKind
  <2> QED
    BY <1>2, <2>1
<1>4. K \in SUBSET (1..Len(d.entries))
  BY <1>3
<1>5. ASSUME NEW i \in OfKind(c, ok), c.entries[i].token # t
      PROVE  \E q \in K : d.entries[q] = c.entries[i]
  <2>1. i \in DOMAIN c.entries /\ c.entries[i].ok = ok
    BY DEF OfKind
  <2>2. c.entries[i] \in Entries(c)
    BY <2>1 DEF Entries, ToSet
  <2>3. c.entries[i] \in Entries(d)
    BY <1>1, <1>5, <2>2
  <2>4. PICK q \in DOMAIN d.entries : d.entries[q] = c.entries[i]
    BY <2>3, Zenon DEF Entries, ToSet
  <2> QED
    BY <1>3, <2>1, <2>4, Zenon
<1> QED
  BY <1>1, <1>3, <1>4, <1>5, Zenon

(* The ones taken are the least recently used of their kind.               *)
LEMMA TakenAreOldest ==
  ASSUME NEW c, Counted(c), NEW t, NEW ok \in BOOLEAN, NEW n \in Nat,
         NEW i \in Taken(c, t, ok, n),
         NEW j \in OfKind(c, ok), j \notin Taken(c, t, ok, n),
         c.entries[j].token # t
  PROVE  i < j
<1> DEFINE d == RemoveEntry(c, t)
           K == OfKind(d, ok)
<1>0. d = RemoveEntry(c, t) /\ K = OfKind(d, ok)
  OBVIOUS
<1> HIDE DEF d, K
<1>1. /\ \E p : Embeds(p, d.entries, c.entries)
      /\ K \in SUBSET (1..Len(d.entries)) /\ Len(d.entries) \in Nat
      /\ \E q \in K : d.entries[q] = c.entries[j]
  <2>1. /\ \E p : Embeds(p, d.entries, c.entries)
        /\ K \in SUBSET (1..Len(d.entries)) /\ Len(d.entries) \in Nat
    BY <1>0, Positions, Zenon
  <2>2. \E q \in K : d.entries[q] = c.entries[j]
    BY <1>0, Positions
  <2> QED
    BY <2>1, <2>2
<1>2. c.entries \in Seq(Entry) /\ Distinct(c.entries)
  BY CountedFacts
<1>3. /\ i \in OfKind(c, ok)
      /\ c.entries[i] \in Evicted(d, ok, n) /\ c.entries[j] \notin Evicted(d, ok, n)
  BY <1>0, Zenon DEF Taken
<1>4. PICK p : Embeds(p, d.entries, c.entries)
  BY <1>1, Zenon
<1>5. PICK k \in Eldest(d, ok, n) : d.entries[k] = c.entries[i]
  BY <1>3, Zenon DEF Evicted
<1>6. PICK l \in K : d.entries[l] = c.entries[j]
  BY <1>1, Zenon
<1>7. k \in K /\ Place(K, k) <= n /\ ~(Place(K, l) <= n)
  <2>1. l \notin Eldest(d, ok, n)
    BY <1>3, <1>6, Zenon DEF Evicted
  <2> QED
    BY <1>0, <1>5, <2>1, Zenon DEF Eldest
<1>8. k \in DOMAIN d.entries /\ l \in DOMAIN d.entries
  BY <1>0, <1>7, Zenon DEF OfKind
<1>9. i \in DOMAIN c.entries /\ j \in DOMAIN c.entries
  BY <1>3, Zenon DEF OfKind
<1>10. p[k] = i /\ p[l] = j
  <2>1. /\ p[k] \in DOMAIN c.entries /\ c.entries[p[k]] = c.entries[i]
        /\ p[l] \in DOMAIN c.entries /\ c.entries[p[l]] = c.entries[j]
    BY <1>4, <1>5, <1>6, <1>8, Zenon DEF Embeds
  <2>2. \A x, y \in DOMAIN c.entries : c.entries[x] = c.entries[y] => x = y
    BY <1>2, Zenon DEF Distinct
  <2> QED
    BY <1>9, <2>1, <2>2, Zenon
<1>11. k < l
  <2>1. /\ Place(K, k) \in 1..Cardinality(K) /\ Place(K, l) \in 1..Cardinality(K)
        /\ Cardinality(K) \in 0..Len(d.entries)
        /\ l < k => Place(K, l) < Place(K, k)
    BY <1>1, <1>7, Places, Zenon
  <2> DEFINE x == Place(K, k)
             y == Place(K, l)
             m == Cardinality(K)
  <2>2. /\ x \in 1..m /\ y \in 1..m /\ m \in Nat
        /\ x <= n /\ ~(y <= n) /\ (l < k => y < x)
    <3>1. m \in Nat
      BY <1>1, <2>1
    <3> QED
      BY <1>7, <2>1, <3>1, Zenon
  <2>3. x # y => k # l
    BY Zenon
  <2> HIDE DEF x, y, m
  <2>4. x # y /\ ~(y < x)
    BY <2>2
  <2>5. k \in Nat /\ l \in Nat
    BY <1>1, <1>7
  <2> QED
    BY <2>2, <2>3, <2>4, <2>5
<1> QED
  BY <1>4, <1>8, <1>10, <1>11, Zenon DEF Embeds

(* The last one taken makes the difference between n and n - 1 of them.    *)
LEMMA LastTaken ==
  ASSUME NEW c, Counted(c), NEW t, NEW n \in Nat,
         NEW d, d = RemoveEntry(c, t),
         n # 0, n <= Cardinality(OfKind(d, TRUE))
  PROVE  BytesIn(Evicted(d, TRUE, n))
           = BytesIn(Evicted(d, TRUE, n - 1))
             + c.entries[Max(Taken(c, t, TRUE, n))].size
<1> DEFINE K == OfKind(d, TRUE)
           T == Taken(c, t, TRUE, n)
           m == Cardinality(K)
<1>1. /\ \E p : Embeds(p, d.entries, c.entries)
      /\ K \in SUBSET (1..Len(d.entries)) /\ Len(d.entries) \in Nat
  BY Positions, Zenon
<1>2. Counted(d)
  BY RemoveKeeps
<1>3. /\ d.entries \in Seq(Entry) /\ Distinct(d.entries)
      /\ c.entries \in Seq(Entry) /\ Distinct(c.entries)
  BY <1>2, CountedFacts
<1>4. /\ m \in Nat
      /\ \A i \in K : Place(K, i) \in 1..m
      /\ \A i, j \in K : i < j => Place(K, i) < Place(K, j)
      /\ \A i, j \in K : Place(K, i) = Place(K, j) => i = j
      /\ \A k \in 1..m : \E i \in K : Place(K, i) = k
  <2>1. /\ m \in 0..Len(d.entries)
        /\ \A i \in K : Place(K, i) \in 1..m
        /\ \A i, j \in K : i < j => Place(K, i) < Place(K, j)
        /\ \A i, j \in K : Place(K, i) = Place(K, j) => i = j
        /\ \A k \in 1..m : \E i \in K : Place(K, i) = k
    <3> HIDE DEF K
    <3> QED
      BY <1>1, Places, Zenon
  <2>2. m \in Nat
    <3> HIDE DEF m
    <3> QED
      BY <1>1, <2>1
  <2> QED
    BY <2>1, <2>2, Zenon
<1>5. n \in 1..m
  <2>1. n <= m
    OBVIOUS
  <2> HIDE DEF m
  <2> QED
    BY <1>4, <2>1
<1>6. PICK q \in K : Place(K, q) = n
  BY <1>4, <1>5, Zenon
<1>7. PICK p : Embeds(p, d.entries, c.entries)
  BY <1>1, Zenon
<1> DEFINE i == p[q]
           z == d.entries[q]
<1>8. q \in DOMAIN d.entries /\ z.ok = TRUE
  BY Zenon DEF OfKind
<1>9. i \in DOMAIN c.entries /\ z = c.entries[i]
  BY <1>7, <1>8, Zenon DEF Embeds
<1>10. n <= n /\ n - 1 \in Nat
  OBVIOUS
<1>11. z \in Evicted(d, TRUE, n)
  BY <1>6, <1>10, Zenon DEF Eldest, Evicted
<1>12. i \in T
  BY <1>8, <1>9, <1>11, Zenon DEF Taken, OfKind
<1>13. T \in SUBSET (1..Len(c.entries)) /\ Len(c.entries) \in Nat
  <2>1. T \in SUBSET DOMAIN c.entries
    BY DEF Taken, OfKind
  <2> HIDE DEF T
  <2> QED
    BY <1>3, <2>1
<1> HIDE DEF m, K, T, i, z
<1>14. ASSUME NEW j \in T PROVE j <= i
  <2>1. c.entries[j] \in Evicted(d, TRUE, n)
    BY Zenon DEF T, Taken
  <2>2. PICK k \in Eldest(d, TRUE, n) : d.entries[k] = c.entries[j]
    BY <2>1, Zenon DEF Evicted
  <2>3. k \in K /\ Place(K, k) <= n /\ k \in DOMAIN d.entries
    BY Zenon DEF K, Eldest, OfKind
  <2>4. j \in DOMAIN c.entries
    BY <1>3, <1>13
  <2>5. p[k] = j
    <3>1. p[k] \in DOMAIN c.entries /\ c.entries[p[k]] = c.entries[j]
      BY <1>7, <2>2, <2>3, Zenon DEF Embeds
    <3>2. \A x, y \in DOMAIN c.entries : c.entries[x] = c.entries[y] => x = y
      BY <1>3, Zenon DEF Distinct
    <3> QED
      BY <2>4, <3>1, <3>2, Zenon
  <2>6. ~(q < k)
    <3>1. ~(Place(K, q) < Place(K, k))
      <4> DEFINE x == Place(K, k)
      <4>1. x \in 1..m /\ x <= n
        BY <1>4, <2>3, Zenon
      <4> HIDE DEF x
      <4>2. ~(n < x)
        BY <1>4, <4>1
      <4> QED
        BY <1>6, <4>2 DEF x
    <3> QED
      BY <1>4, <2>3, <3>1, Zenon
  <2>7. q \in Nat /\ k \in Nat /\ i \in Nat /\ j \in Nat
    <3>1. i \in 1..Len(c.entries) /\ j \in 1..Len(c.entries)
      BY <1>12, <1>13
    <3>2. q \in 1..Len(d.entries) /\ k \in 1..Len(d.entries)
      BY <1>1, <2>3 DEF K
    <3> QED
      BY <1>1, <1>13, <3>1, <3>2
  <2>8. CASE k = q
    BY <2>5, <2>7, <2>8 DEF i
  <2>9. CASE k < q
    <3>1. j < i
      BY <1>7, <1>8, <2>3, <2>5, <2>9, Zenon DEF Embeds, i
    <3> QED
      BY <2>7, <3>1
  <2> QED
    BY <2>6, <2>7, <2>8, <2>9
<1>15. Max(T) = i
  <2>1. T # {}
    BY <1>12
  <2>2. Max(T) \in T /\ \A x \in T : x <= Max(T)
    BY <1>13, <2>1, GreatestOf
  <2>3. Max(T) <= i /\ i <= Max(T)
    BY <1>12, <1>14, <2>2
  <2>4. Max(T) \in Nat /\ i \in Nat
    <3> DEFINE x == Max(T)
    <3>1. x \in T
      BY <2>2
    <3> HIDE DEF x
    <3>2. x \in Nat /\ i \in Nat
      BY <1>12, <1>13, <3>1
    <3> QED
      BY <3>2 DEF x
  <2> DEFINE x == Max(T)
  <2>5. x \in Nat /\ i \in Nat /\ x <= i /\ i <= x
    BY <2>3, <2>4
  <2> HIDE DEF x
  <2>6. x = i
    BY <2>5
  <2> QED
    BY <2>6 DEF x
<1> DEFINE E == Evicted(d, TRUE, n - 1)
<1>16. Eldest(d, TRUE, n) = Eldest(d, TRUE, n - 1) \cup {q}
       /\ q \notin Eldest(d, TRUE, n - 1)
  <2>1. \A x \in K : /\ Place(K, x) <= n <=> Place(K, x) <= n - 1 \/ x = q
                     /\ x = q => ~(Place(K, x) <= n - 1)
    <3> TAKE x \in K
    <3> DEFINE y == Place(K, x)
    <3>1. y \in 1..m /\ (y = n <=> x = q)
      BY <1>4, <1>6, Zenon
    <3> HIDE DEF y
    <3>2. /\ y <= n <=> y <= n - 1 \/ y = n
          /\ y = n => ~(y <= n - 1)
      BY <1>4, <3>1
    <3> QED
      BY <3>1, <3>2 DEF y
  <2>2. \A x : x \in Eldest(d, TRUE, n) <=> x \in K /\ Place(K, x) <= n
    BY Zenon DEF Eldest, K
  <2>3. \A x : x \in Eldest(d, TRUE, n - 1) <=> x \in K /\ Place(K, x) <= n - 1
    BY Zenon DEF Eldest, K
  <2> QED
    BY <1>6, <2>1, <2>2, <2>3, Zenon
<1>17. Evicted(d, TRUE, n) = E \cup {z}
  <2>1. \A x : Evicted(d, TRUE, x) = {d.entries[k] : k \in Eldest(d, TRUE, x)}
    BY Zenon DEF Evicted
  <2> HIDE DEF E
  <2>2. E = {d.entries[k] : k \in Eldest(d, TRUE, n - 1)}
    BY <2>1, Zenon DEF E
  <2>3. Evicted(d, TRUE, n) = {d.entries[k] : k \in Eldest(d, TRUE, n)}
    BY <2>1, Zenon
  <2> DEFINE A == Eldest(d, TRUE, n - 1)
             B == Eldest(d, TRUE, n)
             f == d.entries
  <2>4. B = A \cup {q} /\ E = {f[k] : k \in A} /\ z = f[q]
    BY <1>16, <2>2, Zenon DEF z
  <2>5. Evicted(d, TRUE, n) = {f[k] : k \in B}
    BY <2>3
  <2> HIDE DEF A, B, f
  <2> QED
    BY <2>4, <2>5
<1>18. z \notin E
  <2> SUFFICES ASSUME z \in E PROVE FALSE
    OBVIOUS
  <2>1. PICK k \in Eldest(d, TRUE, n - 1) : d.entries[k] = d.entries[q]
    BY Zenon DEF Evicted, z
  <2>2. k \in DOMAIN d.entries
    BY Zenon DEF Eldest, OfKind
  <2>3. k = q
    BY <1>3, <1>8, <2>1, <2>2, Zenon DEF Distinct
  <2> QED
    BY <1>16, <2>1, <2>3, Zenon
<1>19. /\ E \in SUBSET Entry /\ IsFiniteSet(E)
       /\ z \in Entry
  <2>1. Entries(d) \in SUBSET Entry /\ IsFiniteSet(Entries(d))
    BY <1>3, EntriesFacts
  <2>2. E \in SUBSET Entries(d)
    BY <1>2, <1>10, EldestFacts, Zenon
  <2>3. Evicted(d, TRUE, n) \in SUBSET Entries(d)
    BY <1>2, EldestFacts, Zenon
  <2> HIDE DEF E
  <2>4. IsFiniteSet(E)
    BY <2>1, <2>2, FS_Subset, Zenon
  <2> QED
    BY <1>11, <2>1, <2>2, <2>3, <2>4
<1> HIDE DEF E
<1>20. BytesIn(E \cup {z}) = BytesIn(E) + BytesIn({z})
  <2>1. {z} \in SUBSET Entry /\ IsFiniteSet({z}) /\ E \cap {z} = {}
    BY <1>18, <1>19, FS_Singleton
  <2> QED
    BY <1>19, <2>1, BytesApart
<1>21. BytesIn({z}) = z.size
  BY <1>19, BytesOfFew
<1> QED
  BY <1>9, <1>15, <1>17, <1>20, <1>21, Zenon DEF T, E

LEMMA NoneTaken ==
  ASSUME NEW c, Counted(c), NEW t, NEW ok \in BOOLEAN, NEW n \in Nat, n = 0
  PROVE  Taken(c, t, ok, n) = {}
<1> SUFFICES ASSUME NEW i \in Taken(c, t, ok, n) PROVE FALSE
  OBVIOUS
<1> DEFINE d == RemoveEntry(c, t)
           K == OfKind(d, ok)
<1>1. c.entries[i] \in Evicted(d, ok, n)
  BY Zenon DEF Taken
<1>2. PICK j \in Eldest(d, ok, n) : d.entries[j] = c.entries[i]
  BY <1>1, Zenon DEF Evicted
<1>3. j \in K /\ Place(K, j) <= n
  BY <1>2, Zenon DEF Eldest
<1>4. K \in SUBSET (1..Len(d.entries)) /\ Len(d.entries) \in Nat
  BY Positions, Zenon
<1> DEFINE x == Place(K, j)
           m == Cardinality(K)
<1>5. x \in 1..m /\ m \in 0..Len(d.entries) /\ x <= n
  <2> HIDE DEF K
  <2> QED
    BY <1>3, <1>4, Places, Zenon
<1> HIDE DEF x, m
<1> QED
  BY <1>4, <1>5

(* Losing nothing is fair.                                                 *)
LEMMA NothingLost ==
  ASSUME NEW c, NEW k, NEW t,
         \A e \in Entries(c) : e.token # t => e \in Entries(k)
  PROVE  EvictedFairly(c, k, t)
<1> DEFINE lost(o) == {i \in OfKind(c, o) :
                         c.entries[i].token # t
                           /\ ~Cached(k, c.entries[i].token)}
<1>1. ASSUME NEW o, NEW i \in lost(o) PROVE FALSE
  <2>1. i \in DOMAIN c.entries /\ c.entries[i].token # t
        /\ ~Cached(k, c.entries[i].token)
    BY <1>1 DEF OfKind
  <2>2. c.entries[i] \in Entries(c)
    BY <2>1 DEF Entries, ToSet
  <2> QED
    BY <2>1, <2>2, Zenon DEF Cached
<1>2. \A o : lost(o) = {}
  <2> HIDE DEF lost
  <2> QED
    BY <1>1
<1> QED
  BY <1>2, Zenon DEF EvictedFairly

(* So is losing what an eviction takes for an entry of the same kind, if   *)
(* the bound asks for it.                                                  *)
LEMMA EvictionFair ==
  ASSUME NEW c, Counted(c), NEW t, NEW ok \in BOOLEAN, NEW n \in Nat,
         NEW d, d = RemoveEntry(c, t), NEW k, Counted(k),
         NEW e, e.token = t, e.ok = ok,
         Entries(k) = (Entries(d) \ Evicted(d, ok, n)) \cup {e},
         NEW T, T = Taken(c, t, ok, n),
         T # {} /\ ok => k.bytes + c.entries[Max(T)].size > MaxBytes,
         T # {} /\ ~ok => k.failures = MaxNegative
  PROVE  EvictedFairly(c, k, t)
<1> DEFINE lost(o) == {i \in OfKind(c, o) :
                         c.entries[i].token # t
                           /\ ~Cached(k, c.entries[i].token)}
<1>1. /\ Counted(d) /\ Entries(d) = {x \in Entries(c) : x.token # t}
  BY RemoveKeeps
<1>2. /\ \A x, y \in Entries(d) : x.token = y.token => x = y
      /\ \A x, y \in Entries(k) : x.token = y.token => x = y
  <2>1. d.entries \in Seq(Entry) /\ Distinct(d.entries)
    BY <1>1, CountedFacts
  <2>2. k.entries \in Seq(Entry) /\ Distinct(k.entries)
    BY CountedFacts
  <2> QED
    BY <2>1, <2>2, EntriesFacts
<1>3. /\ Evicted(d, ok, n) \in SUBSET Entries(d)
      /\ \A x \in Evicted(d, ok, n) : x.ok = ok
  BY <1>1, EldestFacts, Zenon
<1>4. ASSUME NEW o, NEW i \in lost(o) PROVE o = ok /\ i \in T
  <2>1. i \in OfKind(c, o) /\ i \in DOMAIN c.entries /\ c.entries[i].ok = o
        /\ c.entries[i].token # t /\ ~Cached(k, c.entries[i].token)
    BY <1>4 DEF OfKind
  <2>2. c.entries[i] \in Entries(c)
    BY <2>1 DEF Entries, ToSet
  <2>3. c.entries[i] \in Entries(d) /\ c.entries[i] \notin Entries(k)
    BY <1>1, <2>1, <2>2, Zenon DEF Cached
  <2>4. c.entries[i] \in Evicted(d, ok, n)
    BY <2>3
  <2>5. o = ok
    BY <1>3, <2>1, <2>4, Zenon
  <2> QED
    BY <2>1, <2>4, <2>5, Zenon DEF Taken
<1>5. ASSUME NEW i \in T PROVE i \in lost(ok)
  <2>1. i \in OfKind(c, ok) /\ c.entries[i] \in Evicted(d, ok, n)
    BY <1>5, Zenon DEF Taken
  <2>2. c.entries[i] \in Entries(d) /\ c.entries[i].token # t
    BY <1>1, <1>3, <2>1
  <2>3. ASSUME Cached(k, c.entries[i].token) PROVE FALSE
    <3>1. PICK y \in Entries(k) : y.token = c.entries[i].token
      BY <2>3, Zenon DEF Cached
    <3>2. y \in Entries(d) /\ y \notin Evicted(d, ok, n)
      BY <2>2, <3>1
    <3> QED
      BY <1>2, <2>1, <2>2, <3>1, <3>2, Zenon
  <2> QED
    BY <2>1, <2>2, <2>3
<1>6. lost(ok) = T
  <2> HIDE DEF lost
  <2> QED
    BY <1>4, <1>5, Zenon
<1>7. Cached(k, t) /\ EntryOf(k, t).ok = ok
  <2>1. e \in Entries(k)
    OBVIOUS
  <2>2. Cached(k, t)
    BY <2>1, Zenon DEF Cached
  <2>3. EntryOf(k, t) \in Entries(k) /\ EntryOf(k, t).token = t
    BY <2>2, CachedIs, Zenon
  <2>4. EntryOf(k, t) = e
    BY <1>2, <2>1, <2>3, Zenon
  <2> QED
    BY <2>2, <2>4
<1>8. ASSUME NEW i \in T, NEW j \in OfKind(c, ok) \ T, c.entries[j].token # t
      PROVE  i < j
  BY <1>8, TakenAreOldest, Zenon
<1>9. ASSUME NEW o \in BOOLEAN, lost(o) # {}
      PROVE  /\ Cached(k, t) /\ EntryOf(k, t).ok = o
             /\ \A i \in lost(o), j \in OfKind(c, o) \ lost(o) :
                  c.entries[j].token # t => i < j
             /\ IF o
                THEN k.bytes + c.entries[Max(lost(o))].size > MaxBytes
                ELSE k.failures = MaxNegative
  <2>1. o = ok
    <3> HIDE DEF lost
    <3> QED
      BY <1>4, <1>9, Zenon
  <2>2. lost(o) = T /\ T # {}
    <3> HIDE DEF lost
    <3> QED
      BY <1>6, <1>9, <2>1, Zenon
  <2>3. \A i \in T, j \in OfKind(c, ok) \ T : c.entries[j].token # t => i < j
    <3> HIDE DEF lost
    <3> QED
      BY <1>8, Zenon
  <2>4. IF ok THEN k.bytes + c.entries[Max(T)].size > MaxBytes
        ELSE k.failures = MaxNegative
    BY <2>2
  <2> HIDE DEF lost
  <2> QED
    BY <1>7, <2>1, <2>2, <2>3, <2>4, Zenon
<1> QED
  BY <1>9, Zenon DEF EvictedFairly

LEMMA PutSuccessFair ==
  ASSUME NEW c, Counted(c), NEW t \in Tokens, NEW size \in Nat,
         NEW expires \in Nat, NEW m
  PROVE  EvictedFairly(c, PutSuccess(c, t, size, expires, m), t)
<1> DEFINE d == RemoveEntry(c, t)
           k == PutSuccess(c, t, size, expires, m)
           e == [token |-> t, ok |-> TRUE, size |-> size, expires |-> expires]
           v(n) == Evict(d, TRUE, n)
<1>1. /\ Counted(d) /\ Entries(d) = {x \in Entries(c) : x.token # t}
  BY RemoveKeeps
<1>2. /\ Counted(k)
      /\ k = d \/ \E n \in Nat :
           /\ k = [entries |-> Append(v(n).entries, e),
                   bytes |-> v(n).bytes + size, failures |-> v(n).failures]
           /\ Entries(k) = Entries(v(n)) \cup {e}
           /\ n <= Cardinality(OfKind(d, TRUE))
           /\ n # 0 => d.bytes - BytesIn(Evicted(d, TRUE, n - 1)) + size
                         > MaxBytes
  BY PutSuccessIs, Zenon
<1>3. CASE k = d
  <2>1. \A x \in Entries(c) : x.token # t => x \in Entries(k)
    BY <1>1, <1>3
  <2> QED
    BY <2>1, NothingLost, Zenon
<1>4. CASE k # d
  <2>1. PICK n \in Nat :
           /\ k = [entries |-> Append(v(n).entries, e),
                   bytes |-> v(n).bytes + size, failures |-> v(n).failures]
           /\ Entries(k) = Entries(v(n)) \cup {e}
           /\ n <= Cardinality(OfKind(d, TRUE))
           /\ n # 0 => d.bytes - BytesIn(Evicted(d, TRUE, n - 1)) + size
                         > MaxBytes
    BY <1>2, <1>4, Zenon
  <2> DEFINE T == Taken(c, t, TRUE, n)
             b == BytesIn(Evicted(d, TRUE, n - 1))
             s == c.entries[Max(T)].size
  <2>2. /\ Entries(v(n)) = Entries(d) \ Evicted(d, TRUE, n)
        /\ v(n).bytes = d.bytes - BytesIn(Evicted(d, TRUE, n))
        /\ BytesIn(Evicted(d, TRUE, n)) \in Nat
    <3> HIDE DEF d
    <3> QED
      BY <1>1, EvictKeeps, Zenon
  <2>3. ASSUME T # {} PROVE k.bytes + s > MaxBytes
    <3>1. n # 0
      BY <2>3, NoneTaken, Zenon
    <3>2. BytesIn(Evicted(d, TRUE, n)) = b + s
      BY <2>1, <3>1, LastTaken, Zenon
    <3>3. d.bytes - b + size > MaxBytes
      BY <2>1, <3>1, Zenon
    <3>4. b \in Nat /\ d.bytes \in Nat
      <4>1. n - 1 \in Nat
        BY <3>1
      <4> HIDE DEF d
      <4>2. b \in Nat
        BY <1>1, <4>1, EvictKeeps, Zenon
      <4> QED
        BY <1>1, <4>2, CountedFacts
    <3>5. s \in Nat
      <4>1. c.entries \in Seq(Entry)
        BY CountedFacts
      <4>2. T \in SUBSET DOMAIN c.entries
        BY DEF Taken, OfKind
      <4> HIDE DEF T
      <4>3. T \in SUBSET (1..Len(c.entries)) /\ Len(c.entries) \in Nat
        BY <4>1, <4>2
      <4>4. Max(T) \in T
        BY <2>3, <4>3, GreatestOf, Zenon
      <4> DEFINE x == Max(T)
      <4>5. x \in DOMAIN c.entries
        BY <4>2, <4>4
      <4> HIDE DEF x
      <4>6. c.entries[x] \in Entry
        BY <4>1, <4>5
      <4>7. c.entries[x].size \in Nat
        BY <4>6 DEF Entry
      <4> QED
        BY <4>7 DEF x
    <3>6. k.bytes = d.bytes - (b + s) + size
      <4>1. k.bytes = v(n).bytes + size
        BY <2>1
      <4> QED
        BY <2>2, <3>2, <4>1, Zenon
    <3> DEFINE x == d.bytes
    <3>7. k.bytes = x - (b + s) + size /\ x - b + size > MaxBytes /\ x \in Nat
      BY <3>3, <3>4, <3>6
    <3> HIDE DEF x, b, s, k
    <3>8. x - (b + s) + size + s > MaxBytes
      BY <3>4, <3>5, <3>7, CacheAssumption
    <3> QED
      BY <3>7, <3>8, Zenon
  <2>4. e.token = t /\ e.ok = TRUE
    OBVIOUS
  <2>5. d = RemoveEntry(c, t)
    OBVIOUS
  <2>6. Entries(k) = (Entries(d) \ Evicted(d, TRUE, n)) \cup {e}
    BY <2>1, <2>2, Zenon
  <2>7. /\ T # {} /\ TRUE => k.bytes + s > MaxBytes
        /\ T # {} /\ ~TRUE => k.failures = MaxNegative
    BY <2>3
  <2>8. T = Taken(c, t, TRUE, n)
    OBVIOUS
  <2> HIDE DEF d, e, k, T
  <2>9. EvictedFairly(c, k, t)
    BY <1>2, <2>4, <2>5, <2>6, <2>7, <2>8, EvictionFair
  <2> QED
    BY <2>9 DEF k
<1> QED
  BY <1>3, <1>4, Zenon

(* put_failure: the oldest failure goes if there are already as many as    *)
(* may be kept.                                                            *)
LEMMA PutFailureFair ==
  ASSUME NEW c, Counted(c), NEW t \in Tokens, NEW expires \in Nat, NEW m,
         NEW k, k = PutFailure(c, t, expires, m)
  PROVE  Counted(k) /\ EvictedFairly(c, k, t)
<1> DEFINE d == RemoveEntry(c, t)
           e == [token |-> t, ok |-> FALSE, size |-> 0, expires |-> expires]
           n == Max({0, d.failures - MaxNegative + 1})
           v == Evict(d, FALSE, n)
<1>0. d = RemoveEntry(c, t)
  OBVIOUS
<1>1. Counted(d) /\ Entries(d) = {x \in Entries(c) : x.token # t}
  BY RemoveKeeps
<1>2. /\ d.bytes \in Nat /\ d.failures \in Nat
      /\ d.bytes <= MaxBytes /\ d.failures <= MaxNegative
  <2> HIDE DEF d
  <2> QED
    BY <1>1, CountedFacts
<1>3. CASE expires <= m \/ MaxNegative = 0
  <2>1. k = d
    BY <1>3, Zenon DEF PutFailure
  <2>2. \A x \in Entries(c) : x.token # t => x \in Entries(k)
    BY <1>1, <2>1
  <2>3. EvictedFairly(c, k, t)
    BY <2>2, NothingLost, Zenon
  <2> QED
    BY <1>1, <2>1, <2>3
<1>4. CASE ~(expires <= m \/ MaxNegative = 0)
  <2> DEFINE x == d.failures
             y == v.failures
  <2>1. /\ x \in Nat /\ x <= MaxNegative /\ MaxNegative \in Nat
        /\ MaxNegative # 0
    BY <1>2, <1>4, CacheAssumption
  <2>2. /\ n \in {0, 1}
        /\ n = 0 => x + 1 <= MaxNegative
        /\ n = 1 => x = MaxNegative
    <3> HIDE DEF d
    <3>1. n = Max({0, x - MaxNegative + 1})
      OBVIOUS
    <3> HIDE DEF n, x
    <3>2. x - MaxNegative + 1 \in Int /\ x - MaxNegative + 1 <= 1
      BY <2>1
    <3>3. ASSUME NEW a \in Int
          PROVE  Max({0, a}) = IF a > 0 THEN a ELSE 0
      BY DEF Max
    <3>4. n = IF x - MaxNegative + 1 > 0 THEN x - MaxNegative + 1 ELSE 0
      BY <3>1, <3>2, <3>3
    <3> QED
      BY <2>1, <3>4
  <2>3. k = [v EXCEPT !.entries = Append(@, e), !.failures = @ + 1]
    BY <1>4, Zenon DEF PutFailure
  <2> HIDE DEF n, d
  <2>4. n \in Nat
    BY <2>2
  <2>5. /\ Counted(v) /\ Entries(v) = Entries(d) \ Evicted(d, FALSE, n)
        /\ v.failures = d.failures - (IF n <= d.failures THEN n ELSE d.failures)
        /\ v.bytes = d.bytes
    BY <1>1, <2>4, EvictKeeps, Zenon
  <2> HIDE DEF v
  <2>6. v \in Caches /\ v.bytes \in Nat /\ v.failures \in Nat
    BY <2>5, CountedFacts
  <2>7. /\ k.entries = Append(v.entries, e)
        /\ k.bytes = v.bytes /\ k.failures = v.failures + 1
        /\ k = [entries |-> k.entries, bytes |-> k.bytes, failures |-> k.failures]
    BY <2>3, <2>6 DEF Caches
  <2>8. y + 1 <= MaxNegative /\ (n # 0 => y + 1 = MaxNegative)
    <3>1. y = x - (IF n <= x THEN n ELSE x) /\ y \in Nat
      BY <2>5, <2>6
    <3> HIDE DEF x, y
    <3> QED
      BY <2>1, <2>2, <3>1
  <2>9. /\ k.failures \in Nat /\ k.failures <= MaxNegative
        /\ k.bytes \in Nat /\ k.bytes <= MaxBytes
        /\ n # 0 => k.failures = MaxNegative
    BY <1>2, <2>5, <2>6, <2>7, <2>8
  <2>10. e \in Entry /\ e.token = t /\ ~e.ok
    BY DEF Entry
  <2> HIDE DEF e
  <2>11. \A z \in Entries(v) : z.token # e.token
    BY <1>1, <2>5, <2>10, Zenon
  <2>12. Counted(k) /\ Entries(k) = Entries(v) \cup {e}
    BY <2>5, <2>7, <2>9, <2>10, <2>11, AppendKeeps, Zenon
  <2>13. Entries(k) = (Entries(d) \ Evicted(d, FALSE, n)) \cup {e}
    BY <2>5, <2>12, Zenon
  <2> DEFINE T == Taken(c, t, FALSE, n)
  <2>14. T # {} => k.failures = MaxNegative
    <3>1. n = 0 => T = {}
      BY NoneTaken
    <3> HIDE DEF T
    <3> QED
      BY <2>9, <3>1
  <2> DEFINE ok == FALSE
  <2>15. /\ ok \in BOOLEAN /\ e.ok = ok /\ T = Taken(c, t, ok, n)
         /\ Entries(k) = (Entries(d) \ Evicted(d, ok, n)) \cup {e}
         /\ T # {} /\ ok => k.bytes + c.entries[Max(T)].size > MaxBytes
         /\ T # {} /\ ~ok => k.failures = MaxNegative
    BY <2>10, <2>13, <2>14 DEF Entry
  <2> HIDE DEF ok, T
  <2>16. EvictedFairly(c, k, t)
    BY <1>0, <2>4, <2>10, <2>12, <2>15, EvictionFair
  <2> QED
    BY <2>12, <2>16
<1> QED
  BY <1>3, <1>4, Zenon

-----------------------------------------------------------------------------
(* The cache along the behaviours of the coordinator.                      *)

LEMMA InitCache == Init => Counted(cache)
<1> SUFFICES ASSUME Init PROVE Counted(cache)
  OBVIOUS
<1> DEFINE s == <<>>
<1>1. cache = [entries |-> s, bytes |-> 0, failures |-> 0]
  BY DEF Init, EmptyCache
<1>2. s \in Seq(Entry) /\ Distinct(s) /\ ToSet(s) = {}
  BY DEF Distinct, ToSet
<1>3. {e \in ToSet(s) : e.ok} = {} /\ {e \in ToSet(s) : ~e.ok} = {}
  BY <1>2
<1>4. /\ BytesIn({e \in ToSet(s) : e.ok}) = 0
      /\ Cardinality({e \in ToSet(s) : ~e.ok}) = 0
  BY <1>3, BytesOfFew, FS_EmptySet
<1>5. 0 \in Nat /\ 0 <= MaxBytes /\ 0 <= MaxNegative
  BY CacheAssumption
<1> HIDE DEF s
<1> QED
  BY <1>1, <1>2, <1>4, <1>5, CacheOf

(* What an owner hands to the cache has its type.                          *)
LEMMA OwnersResult ==
  ASSUME FlightInv, NEW r \in Requests, Owner(r)
  PROVE  /\ req[r].token \in Tokens /\ req[r].size \in Nat
         /\ Expiry[req[r].token] \in Nat
<1>1. req[r].token \in Tokens
  BY DEF FlightInv, OwnersHaveTokens
<1>2. req[r].size \in Sizes \cup {0}
  <2>1. req[r] \in RequestState
    BY DEF FlightInv, CoordinatorTypeOK
  <2> QED
    BY <2>1 DEF RequestState
<1>3. \A x \in Sizes \cup {0} : x \in Nat
  BY CoordinatorAssumption
<1>4. \A t \in Tokens : Expiry[t] \in Nat
  BY CoordinatorAssumption
<1> QED
  BY <1>1, <1>2, <1>3, <1>4, Zenon

LEMMA StepCache == FlightInv /\ Counted(cache) /\ [Next]_vars => Counted(cache)'
<1> SUFFICES ASSUME FlightInv, Counted(cache), [Next]_vars
             PROVE  Counted(cache')
  OBVIOUS
<1>1. CASE UNCHANGED cache
  BY <1>1
<1>2. ASSUME NEW t, cache' = AfterLookup(cache, t, now)
      PROVE  Counted(cache')
  BY <1>2, LookupKeeps
<1>3. ASSUME NEW r \in Requests, OwnerResumes(r)
      PROVE  Counted(cache')
  <2>1. /\ req[r].token \in Tokens /\ req[r].size \in Nat
        /\ Expiry[req[r].token] \in Nat
    BY <1>3, OwnersResult DEF OwnerResumes
  <2>2. CASE req[r].task = "ok"
    <3>1. cache' = PutSuccess(cache, req[r].token, req[r].size,
                              Expiry[req[r].token], now)
      BY <1>3, <2>2, Zenon DEF OwnerResumes
    <3>2. Counted(PutSuccess(cache, req[r].token, req[r].size,
                             Expiry[req[r].token], now))
      BY <2>1, PutSuccessIs, Zenon
    <3> QED
      BY <3>1, <3>2
  <2>3. CASE req[r].task = "bad"
    <3>1. cache' = PutFailure(cache, req[r].token, Expiry[req[r].token], now)
      BY <1>3, <2>3 DEF OwnerResumes
    <3> QED
      BY <2>1, <3>1, PutFailureFair
  <2>4. CASE req[r].task \notin {"ok", "bad"}
    BY <1>1, <1>3, <2>4 DEF OwnerResumes
  <2> QED
    BY <2>2, <2>3, <2>4
<1>4. CASE UNCHANGED vars
  BY <1>1, <1>4 DEF vars
<1> QED
  BY <1>1, <1>2, <1>3, <1>4
     DEF Next, ServeCached, Join, Refuse, Own, WorkEnds, WorkTimesOut, WorkStops,
         OwnerCancelled, FollowerResumes, FollowerCancelled, Tick

(* The counters by which the cache decides about evictions agree with its  *)
(* entries at every moment, each token has one entry, and both bounds      *)
(* hold, for any bounds, tokens, sizes and number of requests              *)
(* (thumbnail_cache.py _remove, put_success, put_failure).                 *)
THEOREM CacheIsAccounted == Spec => []CacheAccounting
<1>1. Counted(cache) => CacheAccounting
  BY Zenon DEF Counted, CacheAccounting
<1> QED
  BY <1>1, InitFlight, StepFlight, InitCache, StepCache, PTL DEF Spec

(* An owner that stays: nobody but itself ends its wait.                   *)
LEMMA OwnersStay ==
  ASSUME FlightInv, NEW s \in Requests, Owner(s), NEW r \in Requests,
         NEW t \in Tokens, Join(r, t) \/ Own(r, t)
  PROVE  Owner(s)'
<1>1. req \in [Requests -> RequestState] /\ NoRequest \notin Requests
  BY CoordinatorAssumption DEF FlightInv, CoordinatorTypeOK
<1>2. s # r
  BY <1>1 DEF Join, Own, Admissible, Free, Waiting, Owner
<1>3. \E q : req' = [req EXCEPT ![r] = q]
  BY Zenon DEF Join, Own
<1>4. req'[s] = req[s]
  BY <1>1, <1>2, <1>3
<1> QED
  BY <1>4 DEF Owner

LEMMA StepFair ==
  ASSUME FlightInv, Counted(cache), [Next]_vars,
         NEW s \in Requests, Owner(s), ~Owner(s)'
  PROVE  EvictedFairly(cache, cache', req[s].token)
<1>1. CASE cache' = cache
  <2>1. \A e \in Entries(cache) : e.token # req[s].token => e \in Entries(cache')
    BY <1>1
  <2> QED
    BY <2>1, NothingLost, Zenon
<1>2. ASSUME NEW r \in Requests, OwnerResumes(r)
      PROVE  EvictedFairly(cache, cache', req[s].token)
  <2>1. r = s
    <3>1. req \in [Requests -> RequestState]
      BY DEF FlightInv, CoordinatorTypeOK
    <3>2. \E q : req' = [req EXCEPT ![r] = q]
      BY <1>2, Zenon DEF OwnerResumes, Answered
    <3>3. r # s => req'[s] = req[s]
      BY <3>1, <3>2
    <3> QED
      BY <3>3 DEF Owner
  <2>2. /\ req[s].token \in Tokens /\ req[s].size \in Nat
        /\ Expiry[req[s].token] \in Nat
    BY OwnersResult
  <2>3. CASE req[s].task = "ok"
    <3>1. cache' = PutSuccess(cache, req[s].token, req[s].size,
                              Expiry[req[s].token], now)
      BY <1>2, <2>1, <2>3, Zenon DEF OwnerResumes
    <3>2. EvictedFairly(cache,
                        PutSuccess(cache, req[s].token, req[s].size,
                                   Expiry[req[s].token], now),
                        req[s].token)
      BY <2>2, PutSuccessFair, Zenon
    <3> QED
      BY <3>1, <3>2
  <2>4. CASE req[s].task = "bad"
    <3>1. cache' = PutFailure(cache, req[s].token, Expiry[req[s].token], now)
      BY <1>2, <2>1, <2>4 DEF OwnerResumes
    <3> QED
      BY <2>2, <3>1, PutFailureFair
  <2>5. CASE req[s].task \notin {"ok", "bad"}
    BY <1>1, <1>2, <2>1, <2>5 DEF OwnerResumes
  <2> QED
    BY <2>3, <2>4, <2>5
<1>3. ASSUME NEW r \in Requests, NEW t \in Tokens,
             ServeCached(r, t) \/ Refuse(r, t)
      PROVE  FALSE
  BY <1>3 DEF ServeCached, Refuse, Owner
<1>4. ASSUME NEW r \in Requests, NEW t \in Tokens, Join(r, t) \/ Own(r, t)
      PROVE  FALSE
  BY <1>4, OwnersStay
<1>5. CASE UNCHANGED vars
  BY <1>1, <1>5 DEF vars
<1> QED
  BY <1>1, <1>2, <1>3, <1>4, <1>5
     DEF Next, WorkEnds, WorkTimesOut, WorkStops, OwnerCancelled,
         FollowerResumes, FollowerCancelled, Tick

(* A preview that is cached and still valid is lost only to newer entries  *)
(* of its kind, oldest first and no more than the bound asks for, at any   *)
(* bounds and in any order of calls                                        *)
(* (thumbnail_cache.py put_success, put_failure).                          *)
THEOREM EvictionsAreFair == Spec => EvictionIsFair
<1>1. FlightInv /\ Counted(cache) /\ [Next]_vars =>
        [\A r \in Requests :
           Owner(r) /\ ~Owner(r)' =>
             EvictedFairly(cache, cache', req[r].token)]_vars
  BY StepFair
<1> QED
  BY <1>1, InitFlight, StepFlight, InitCache, StepCache, PTL
     DEF Spec, EvictionIsFair

-----------------------------------------------------------------------------

PcTypes ==
  /\ pc \in {"preparing", "working", "aborting", "terminating", "killing",
             "ended"}
  /\ child \in {"none", "running", "dead"}
  /\ signal \in {"none", "term", "kill"}
  /\ cancels \in Nat
  /\ error \in {"none", "badMedia", "failed", "cancelled"}
  /\ task = [t \in Tasks |-> task[t]]

Gone == child # "running" \/ signal = "kill"

(* The reasons for an error that may be cached, once FFmpeg was started.   *)
Excess == \E t \in {"feed", "collect"} : task[t] = "tooLarge"
ExitedAlone ==
  child = "dead" /\ signal = "none" /\ \A t \in Tasks : task[t] = "done"

(* What is known of the tasks.                                             *)
TaskPhases ==
  /\ child = "none" => \A t \in Tasks : task[t] = "none"
  /\ pc = "working" =>
       \A t \in Tasks :
         /\ task[t] \in {"running", "done", "failed", "tooLarge"} \cup Closing
         /\ task[t] = "tooLarge" => t \in {"feed", "collect"}
  /\ task["wait"] = "done" => child = "dead"

(* What is known of the child and of the cancellations at each await.      *)
Phases ==
  /\ pc = "preparing" => child = "none" /\ cancels = 0
  /\ child = "none" => signal = "none"
  /\ pc = "working" => child # "none" /\ signal = "none" /\ cancels = 0
  /\ pc \in {"aborting", "terminating", "killing"} =>
       child # "none" /\ (error = "cancelled" <=> cancels > 0)
  /\ pc = "aborting" => error # "none" /\ signal = "none"
  /\ pc \in {"killing", "ended"} => Gone
  /\ pc \in {"terminating", "killing"} /\ error = "none" =>
       child = "dead" /\ signal = "none"
  /\ pc = "ended" <=> outcome # "none"
  /\ outcome \in {"none", "thumbnail", "badMedia", "failed", "cancelled"}
  /\ pc = "ended" => (outcome = "cancelled" <=> cancels > 0)
  /\ outcome = "thumbnail" => child = "dead" /\ signal = "none"

(* An error that may be cached is in flight only for one of the reasons.   *)
Reasons ==
  /\ pc \in {"aborting", "terminating", "killing"} /\ error = "badMedia" =>
       Excess \/ ExitedAlone
  /\ OnlyTheMediaIsBlamed

ChildInv == PcTypes /\ TaskPhases /\ Phases /\ Reasons

LEMMA InitChildInv == ProcessInit => ChildInv
BY DEF ProcessInit, ChildInv, PcTypes, TaskPhases, Phases, Gone, Tasks, Reasons,
       OnlyTheMediaIsBlamed

(* What is known at an await stays known, whatever the step.               *)
LEMMA ChildInvStep == ChildInv /\ [ProcessNext]_processVars => ChildInv'
<1> SUFFICES ASSUME ChildInv, [ProcessNext]_processVars PROVE ChildInv'
  OBVIOUS
<1> USE DEF ChildInv, PcTypes, TaskPhases, Phases, Reasons,
            OnlyTheMediaIsBlamed, Gone,
            Excess, ExitedAlone, Alive, Tasks, Closing, callerVars
<1>1. ASSUME ChildNext PROVE ChildInv'
  BY <1>1 DEF ChildNext, FfmpegWrites, FfmpegExits, FfmpegDies
<1>2. ASSUME TaskNext PROVE ChildInv'
  <2> USE DEF childVars, Becomes
  <2>1. ASSUME NEW status \in Closing, FeedCloses(status) PROVE ChildInv'
    BY <2>1 DEF FeedCloses
  <2>2. CASE FeedEnds
    BY <2>2 DEF FeedEnds
  <2>3. ASSUME NEW n \in 1..PipeSize, Collect(n) PROVE ChildInv'
    BY <2>3 DEF Collect, CollectFrom
  <2>4. CASE CollectEnds \/ DiscardEnds
    BY <2>4 DEF CollectEnds, DiscardEnds
  <2>5. CASE WaitEnds
    BY <2>5 DEF WaitEnds
  <2>6. ASSUME NEW t \in Tasks, TaskCancelled(t) PROVE ChildInv'
    BY <2>6 DEF TaskCancelled
  <2> QED
    BY <1>2, <2>1, <2>2, <2>3, <2>4, <2>5, <2>6 DEF TaskNext
<1>3. ASSUME Resumes PROVE ChildInv'
  <2> USE DEF childVars
  <2>1. CASE Start
    BY <2>1 DEF Start
  <2>2. ASSUME NEW e \in {"badMedia", "failed"}, PreparationFails(e)
        PROVE  ChildInv'
    <3>1. /\ pc = "preparing" /\ pc' = "ended" /\ error' = e /\ outcome' = e
          /\ UNCHANGED <<cancels, task, child, signal>>
      BY <2>2 DEF PreparationFails
    <3>2. PcTypes'
      BY <3>1
    <3>3. Phases'
      BY <3>1
    <3>4. Reasons'
      BY <3>1
    <3>5. TaskPhases'
      BY <3>1
    <3> QED
      BY <3>2, <3>3, <3>4, <3>5
  <2>3. CASE Judged
    <3>1. /\ \A t \in Tasks : task[t] = "done"
          /\ pc = "working" /\ pc' = "terminating" /\ error' = Verdict
          /\ child = "dead"
          /\ UNCHANGED <<outcome, cancels, task, child>>
      BY <2>3 DEF Judged, Finished, AllSettled, Settled, Failed, EnterStop,
                  Signal
    <3>2. signal' = signal /\ signal = "none"
      BY <2>3, <3>1 DEF Judged, EnterStop, Signal
    <3>3. Verdict \in {"none", "badMedia"}
      BY DEF Verdict
    <3> QED
      BY <3>1, <3>2, <3>3
  <2>4. ASSUME NEW t \in Tasks, TaskFailed(t) PROVE ChildInv'
    <3>1. /\ pc = "working" /\ pc' = "aborting"
          /\ error' \in {"badMedia", "failed"}
          /\ UNCHANGED <<outcome, cancels, child, signal>>
          /\ task[t] \in {"failed", "tooLarge"}
          /\ error' = "badMedia" => task[t] = "tooLarge"
      BY <2>4 DEF TaskFailed, Failed, Aborts, ErrorOf
    <3>2. /\ task' = [u \in Tasks |-> IF Settled(u) THEN task[u]
                                      ELSE "cancelling"]
          /\ Settled(t)
      BY <2>4, <3>1 DEF TaskFailed, Aborts, Settled
    <3>3. \A u \in Tasks : task'[u] = task[u] \/ task'[u] = "cancelling"
      BY <3>2
    <3>4. task'[t] = task[t]
      BY <3>2
    <3> QED
      BY <3>1, <3>2, <3>3, <3>4
  <2>8. CASE ProcessTimesOut
    <3>1. /\ pc = "working" /\ pc' = "aborting" /\ error' = "failed"
          /\ UNCHANGED <<outcome, cancels, child, signal>>
      BY <2>8 DEF ProcessTimesOut, Aborts
    <3>2. task' = [u \in Tasks |-> IF Settled(u) THEN task[u]
                                   ELSE "cancelling"]
      BY <2>8 DEF ProcessTimesOut, Aborts
    <3>3. \A u \in Tasks : task'[u] = task[u] \/ task'[u] = "cancelling"
      BY <3>2
    <3> QED
      BY <3>1, <3>2, <3>3
  <2>5. CASE Aborted
    BY <2>5 DEF Aborted, EnterStop, Signal
  <2>6. CASE Terminated \/ Killed
    BY <2>6 DEF Terminated, Killed, Ends
  <2>7. CASE TerminateTimesOut
    BY <2>7 DEF TerminateTimesOut, Kill, Signal, Ends
  <2> QED
    BY <1>3, <2>1, <2>2, <2>3, <2>4, <2>5, <2>6, <2>7, <2>8
       DEF Resumes
<1>4. CASE CallerCancelled
  <2>1. cancels' = cancels + 1 /\ cancels' > 0 /\ cancels' \in Nat
    BY <1>4 DEF CallerCancelled
  <2>2. CASE pc \in {"preparing", "killing"}
    BY <1>4, <2>1, <2>2 DEF CallerCancelled, Ends
  <2>3. CASE pc = "working"
    <3>1. /\ pc' = "aborting" /\ error' = "cancelled"
          /\ UNCHANGED <<outcome, child, signal>>
      BY <1>4, <2>3 DEF CallerCancelled, Aborts
    <3>2. task' = [u \in Tasks |-> IF Settled(u) THEN task[u]
                                   ELSE "cancelling"]
      BY <1>4, <2>3 DEF CallerCancelled, Aborts
    <3>3. \A u \in Tasks : task'[u] = task[u] \/ task'[u] = "cancelling"
      BY <3>2
    <3> QED
      BY <2>1, <2>3, <3>1, <3>2, <3>3
  <2>4. CASE pc = "aborting"
    BY <1>4, <2>1, <2>4 DEF CallerCancelled, EnterStop, Signal
  <2>5. CASE pc = "terminating"
    BY <1>4, <2>1, <2>5 DEF CallerCancelled, Kill, Signal, Ends
  <2> QED
    BY <1>4, <2>2, <2>3, <2>4, <2>5 DEF CallerCancelled
<1>5. CASE UNCHANGED processVars
  BY <1>5 DEF processVars, childVars
<1> QED
  BY <1>1, <1>2, <1>3, <1>4, <1>5 DEF ProcessNext

(* Each step is a step of the owner, or one that the owner does not see.   *)
LEMMA OwnerStep == ChildInv /\ [ProcessNext]_processVars => [Owned!OwnerNext]_Owned!ownerVars
<1> SUFFICES ASSUME ChildInv, [ProcessNext]_processVars
             PROVE  Owned!OwnerNext \/ UNCHANGED Owned!ownerVars
  OBVIOUS
<1> USE DEF ChildInv, PcTypes, Phases, Gone, Alive, callerVars,
            Owned!ownerVars, Process, Answer
<1>1. ASSUME ChildNext PROVE Owned!OwnerNext \/ UNCHANGED Owned!ownerVars
  BY <1>1 DEF ChildNext, FfmpegWrites, FfmpegExits, FfmpegDies,
              Owned!OwnerNext, Owned!Exits, Owned!Stops
<1>2. ASSUME TaskNext PROVE UNCHANGED Owned!ownerVars
  BY <1>2 DEF TaskNext, FeedCloses, FeedEnds, Collect, CollectEnds,
              DiscardEnds, WaitEnds, TaskCancelled, Becomes, childVars
<1>3. ASSUME NEW e, Ends(e), UNCHANGED <<cancels, child, signal>>,
             pc # "ended", Gone,
             e = "none" => child = "dead" /\ signal = "none",
             e \in {"none", "badMedia", "failed", "cancelled"},
             e = "cancelled" <=> cancels > 0
      PROVE  Owned!OwnerNext
  <2>1. Answer = "none" /\ Process # "running" /\ UNCHANGED Process
    BY <1>3
  <2>2. Answer' \in Owned!Answers /\ (Answer' = "cancelled" <=> cancels > 0)
        /\ (Answer' = "value" => Process = "exited")
    BY <1>3 DEF Ends, Owned!Answers
  <2> HIDE DEF Process, Answer
  <2> QED
    BY <1>3, <2>1, <2>2 DEF Owned!OwnerNext, Owned!AnswersWith
<1>4. ASSUME Resumes PROVE Owned!OwnerNext \/ UNCHANGED Owned!ownerVars
  <2> USE DEF childVars
  <2>1. ASSUME NEW e \in {"badMedia", "failed"}, PreparationFails(e)
        PROVE  Owned!OwnerNext
    BY <1>3, <2>1 DEF PreparationFails, Ends
  <2>2. CASE Start
    BY <2>2 DEF Start, Owned!Starts, Owned!OwnerNext
  <2>3. CASE Judged
    BY <2>3 DEF Judged, Finished, EnterStop, Signal
  <2>4. ASSUME NEW t \in Tasks, TaskFailed(t) PROVE UNCHANGED Owned!ownerVars
    BY <2>4 DEF TaskFailed, Aborts
  <2>5. CASE ProcessTimesOut
    BY <2>5 DEF ProcessTimesOut, Aborts
  <2>6. CASE Aborted
    BY <2>6 DEF Aborted, EnterStop, Signal
  <2>7. CASE Terminated \/ Killed
    BY <1>3, <2>7 DEF Terminated, Killed
  <2>8. CASE TerminateTimesOut
    <3>1. CASE pc' = "killing"
      BY <2>8, <3>1 DEF TerminateTimesOut, Kill, Signal, Ends,
                        Owned!OwnerNext, Owned!Stops
    <3>2. CASE ~Alive /\ Ends(error)
      BY <1>3, <2>8, <3>2 DEF TerminateTimesOut, Kill, Signal
    <3> QED
      BY <2>8, <3>1, <3>2 DEF TerminateTimesOut, Kill
  <2> QED
    BY <1>4, <2>1, <2>2, <2>3, <2>4, <2>5, <2>6, <2>7, <2>8 DEF Resumes
<1>5. CASE CallerCancelled
  <2>1. cancels' = cancels + 1 /\ cancels' > 0
    BY <1>5 DEF CallerCancelled
  <2>2. ASSUME UNCHANGED <<Process, Answer>>, Answer = "none"
        PROVE  Owned!OwnerNext
    <3> HIDE DEF Process, Answer
    <3> QED
      BY <2>1, <2>2 DEF Owned!OwnerNext, Owned!Cancels
  <2>3. ASSUME UNCHANGED Process, Answer = "none", Answer' = "cancelled",
               Process # "running"
        PROVE  Owned!OwnerNext
    <3> HIDE DEF Process, Answer
    <3> QED
      BY <2>1, <2>3 DEF Owned!OwnerNext, Owned!AnswersWith, Owned!Answers
  <2>4. CASE pc \in {"preparing", "killing"}
    BY <1>5, <2>3, <2>4 DEF CallerCancelled, Ends
  <2>5. CASE pc \in {"working", "aborting"}
    <3>1. UNCHANGED outcome /\ UNCHANGED child /\ outcome = "none"
      BY <1>5, <2>5 DEF CallerCancelled, Aborts, EnterStop, Signal
    <3>2. UNCHANGED Process
      <4>1. UNCHANGED signal \/ (signal' = "term" /\ Alive /\ signal # "kill")
        BY <1>5, <2>5 DEF CallerCancelled, Aborts, EnterStop, Signal
      <4> QED
        BY <3>1, <4>1
    <3> QED
      BY <2>2, <3>1, <3>2
  <2>6. CASE pc = "terminating" /\ ~Alive
    <3>1. UNCHANGED Process /\ Answer = "none" /\ Process # "running"
      BY <1>5, <2>6 DEF CallerCancelled, Kill, Signal
    <3>2. CASE pc' = "killing" /\ UNCHANGED outcome
      <4>1. UNCHANGED Answer
        BY <3>2
      <4> QED
        BY <2>2, <3>1, <4>1
    <3>3. CASE Ends("cancelled")
      <4>1. Answer' = "cancelled"
        BY <3>3 DEF Ends
      <4> QED
        BY <2>3, <3>1, <4>1
    <3> QED
      BY <1>5, <2>6, <3>2, <3>3 DEF CallerCancelled, Kill
  <2>7. CASE pc = "terminating" /\ Alive
    <3>1. UNCHANGED Answer /\ Answer = "none" /\ Process' = "stopped"
          /\ Process \in {"running", "stopped"}
      BY <1>5, <2>7 DEF CallerCancelled, Kill, Signal
    <3> HIDE DEF Process, Answer
    <3> QED
      BY <2>1, <3>1 DEF Owned!OwnerNext, Owned!Stops, Owned!Cancels
  <2> QED
    BY <1>5, <2>4, <2>5, <2>6, <2>7 DEF CallerCancelled
<1>6. CASE UNCHANGED processVars
  BY <1>6 DEF processVars, childVars
<1> QED
  BY <1>1, <1>2, <1>4, <1>5, <1>6 DEF ProcessNext

LEMMA AlwaysChildInv == ProcessSpec => []ChildInv
BY InitChildInv, ChildInvStep, PTL DEF ProcessSpec

(* The generator implements what the owner of a child is promised.         *)
THEOREM GeneratorKeepsFfmpeg == ProcessSpec => KeepsFfmpeg
<1>1. ProcessInit => Owned!OwnerInit
  BY DEF ProcessInit, Owned!OwnerInit, Process, Answer
<1> QED
  BY <1>1, AlwaysChildInv, OwnerStep, PTL DEF ProcessSpec, KeepsFfmpeg, Owned!OwnerSpec

(* Whatever is cached as a failure of the media is one.                    *)
THEOREM CachedFailuresAreTheMedias == ProcessSpec => []OnlyTheMediaIsBlamed
<1>1. ChildInv => OnlyTheMediaIsBlamed
  BY DEF ChildInv, Reasons
<1> QED
  BY <1>1, AlwaysChildInv, PTL

-----------------------------------------------------------------------------
(* What is collected is what was written.                                  *)

(* While the collector runs, what FFmpeg wrote was collected or is in the  *)
(* pipe; a run that is not aborted has a collector that is done.           *)
OutputInv ==
  /\ kept \in 0..OutputLimit /\ pipe \in Nat /\ written \in Nat
  /\ child = "none" => kept = 0 /\ pipe = 0 /\ written = 0
  /\ task["collect"] \in {"running", "done"} => kept + pipe = written
  /\ task["collect"] = "done" => child = "dead" /\ pipe = 0
  /\ pc \in {"terminating", "killing"} /\ error = "none" =>
       task["collect"] = "done" /\ exit.code = 0 /\ exit.jpeg
  /\ ThumbnailIsWhole

LEMMA InitOutput == ProcessInit => OutputInv
BY ThumbnailAssumption DEF ProcessInit, OutputInv, ThumbnailIsWhole, Tasks

LEMMA OutputStep == ChildInv /\ OutputInv /\ [ProcessNext]_processVars => OutputInv'
<1> SUFFICES ASSUME ChildInv, OutputInv, [ProcessNext]_processVars PROVE OutputInv'
  OBVIOUS
<1> USE ThumbnailAssumption
        DEF ChildInv, PcTypes, TaskPhases, Phases, OutputInv,
            ThumbnailIsWhole, Gone, Alive, Tasks, Closing, callerVars
<1>1. ASSUME ChildNext PROVE OutputInv'
  BY <1>1 DEF ChildNext, FfmpegWrites, FfmpegExits, FfmpegDies
<1>2. ASSUME TaskNext PROVE OutputInv'
  <2> USE DEF childVars, Becomes
  <2>1. ASSUME NEW status \in Closing, FeedCloses(status) PROVE OutputInv'
    BY <2>1 DEF FeedCloses
  <2>2. CASE FeedEnds
    BY <2>2 DEF FeedEnds
  <2>3. ASSUME NEW n \in 1..PipeSize, Collect(n) PROVE OutputInv'
    BY <2>3 DEF Collect, CollectFrom, Collected
  <2>4. CASE CollectEnds \/ DiscardEnds
    BY <2>4 DEF CollectEnds, DiscardEnds
  <2>5. CASE WaitEnds
    BY <2>5 DEF WaitEnds
  <2>6. ASSUME NEW t \in Tasks, TaskCancelled(t) PROVE OutputInv'
    BY <2>6 DEF TaskCancelled
  <2> QED
    BY <1>2, <2>1, <2>2, <2>3, <2>4, <2>5, <2>6 DEF TaskNext
<1>3. ASSUME NEW e, Aborts(e), e # "none", pc = "working", outcome' = outcome,
             UNCHANGED <<kept, childVars>>
      PROVE  OutputInv'
  <2>1. task'["collect"] = task["collect"] \/ task'["collect"] = "cancelling"
    BY <1>3 DEF Aborts
  <2> QED
    BY <1>3, <2>1 DEF Aborts, childVars
<1>4. ASSUME Resumes PROVE OutputInv'
  <2> USE DEF childVars
  <2>1. CASE Start
    BY <2>1 DEF Start
  <2>2. ASSUME NEW e \in {"badMedia", "failed"}, PreparationFails(e)
        PROVE  OutputInv'
    BY <2>2 DEF PreparationFails
  <2>3. CASE Judged
    <3>1. /\ task["collect"] = "done" /\ pc' = "terminating"
          /\ error' = Verdict
          /\ UNCHANGED <<outcome, task, kept, child, exit, pipe, written>>
      BY <2>3 DEF Judged, Finished, AllSettled, Settled, Failed, EnterStop,
                  Signal
    <3>2. Verdict = "none" => exit.code = 0 /\ exit.jpeg
      BY DEF Verdict
    <3>3. outcome = "none"
      BY <2>3 DEF Judged, Finished
    <3> QED
      BY <3>1, <3>2, <3>3
  <2>4. ASSUME NEW t \in Tasks, TaskFailed(t) PROVE OutputInv'
    BY <1>3, <2>4 DEF TaskFailed, ErrorOf
  <2>5. CASE ProcessTimesOut
    BY <1>3, <2>5 DEF ProcessTimesOut
  <2>6. CASE Aborted
    BY <2>6 DEF Aborted, EnterStop, Signal
  <2>7. CASE Terminated \/ Killed
    BY <2>7 DEF Terminated, Killed, Ends
  <2>8. CASE TerminateTimesOut
    BY <2>8 DEF TerminateTimesOut, Kill, Signal, Ends
  <2> QED
    BY <1>4, <2>1, <2>2, <2>3, <2>4, <2>5, <2>6, <2>7, <2>8 DEF Resumes
<1>5. CASE CallerCancelled
  <2>1. CASE pc \in {"preparing", "killing"}
    BY <1>5, <2>1 DEF CallerCancelled, Ends
  <2>2. CASE pc = "working"
    BY <1>3, <1>5, <2>2 DEF CallerCancelled, childVars
  <2>3. CASE pc = "aborting"
    BY <1>5, <2>3 DEF CallerCancelled, EnterStop, Signal
  <2>4. CASE pc = "terminating"
    BY <1>5, <2>4 DEF CallerCancelled, Kill, Signal, Ends
  <2> QED
    BY <1>5, <2>1, <2>2, <2>3, <2>4 DEF CallerCancelled
<1>6. CASE UNCHANGED processVars
  BY <1>6 DEF processVars, childVars
<1> QED
  BY <1>1, <1>2, <1>4, <1>5, <1>6 DEF ProcessNext

(* A thumbnail is the whole output of a successful run, and a failure that *)
(* may be cached is the media's (ThumbnailGenerator.generate).             *)
THEOREM VerdictsFitTheRun == ProcessSpec => []VerdictFitsTheRun
<1>1. ChildInv /\ OutputInv => VerdictFitsTheRun
  BY DEF ChildInv, Reasons, OutputInv, VerdictFitsTheRun
<1> QED
  BY <1>1, InitOutput, OutputStep, InitChildInv, ChildInvStep, PTL DEF ProcessSpec
=============================================================================

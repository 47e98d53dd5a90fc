-------------------------- MODULE Extraction_proofs --------------------------
(***************************************************************************)
(* Extractions and their media links for any clients, capacity and         *)
(* lifetime: every link works until its deadline, batches are stored whole *)
(* and within the capacity, and a slot is held exactly while an extraction *)
(* runs.  And what an extraction awaits: for any limits, pipes and number  *)
(* of cancellations, a run of gallery-dl keeps what OwnedProcess promises, *)
(* a result comes only of a child that exited by itself, and the child is  *)
(* read on.                                                                *)
(***************************************************************************)
EXTENDS Extraction, ExtractorProcess, RequestLimiter_proofs

(* The limiter takes a step of its own, or none.                           *)
THEOREM ExtractionImplementsLimiter == Spec => ImplementsLimiter
<1>1. Init => LimiterInit
  BY DEF Init
<1>2. [Next]_vars => [LimiterNext]_limiterVars
  <2> SUFFICES ASSUME [Next]_vars PROVE LimiterNext \/ UNCHANGED limiterVars
    OBVIOUS
  <2>1. ASSUME NEW l \in Leases, NEW p, NEW n, Ends(l, p, n)
        PROVE  LimiterNext
    BY <2>1 DEF Ends, LimiterNext
  <2>2. ASSUME NEW l \in Leases, NEW c \in Clients, Begin(l, c)
        PROVE  LimiterNext
    BY <2>2 DEF Begin, LimiterNext
  <2>3. ASSUME NEW l \in Leases, ExtractionFails(l) PROVE LimiterNext
    BY <2>1, <2>3 DEF ExtractionFails
  <2>4. ASSUME NEW l \in Leases, NEW n \in Batches, Extracted(l, n)
        PROVE  LimiterNext
    BY <2>1, <2>4 DEF Extracted
  <2>5. CASE Tick \/ UNCHANGED vars
    BY <2>5 DEF Tick, vars, limiterVars
  <2> QED
    BY <2>2, <2>3, <2>4, <2>5 DEF Next
<1> QED
  BY <1>1, <1>2, PTL DEF Spec, ImplementsLimiter, LimiterSpec

-----------------------------------------------------------------------------
(* The store.                                                              *)

(* The records are among those that answers name, which are numbered by    *)
(* the tokens issued so far; what is missing from the store has expired.   *)
StoreInv ==
  /\ ExtractionTypeOK
  /\ IsFiniteSet(records)
  /\ LinksLive
  /\ WholeBatches

LEMMA UnexpiredFacts ==
  ASSUME StoreInv
  PROVE  /\ Unexpired = {g \in granted : now <= g.expires}
         /\ IsFiniteSet(Unexpired)
         /\ Cardinality(Unexpired) \in Nat
         /\ Cardinality(Unexpired) <= Cardinality(records)
<1>1. \A g \in granted : g.expires \in Nat
  BY StoreAssumption DEF StoreInv, ExtractionTypeOK, Record
<1>2. now \in Nat
  BY StoreAssumption DEF StoreInv, ExtractionTypeOK
<1>3. Unexpired = {g \in granted : now <= g.expires}
  BY <1>1, <1>2 DEF StoreInv, Unexpired, LinksLive, WholeBatches, Available
<1>4. Unexpired \in SUBSET records
  BY DEF Unexpired
<1> QED
  BY <1>3, <1>4, FS_Subset, FS_CardinalityType DEF StoreInv

LEMMA NewRecordsFacts ==
  ASSUME StoreInv, NEW n \in Batches, issued + n <= MaxIssued
  PROVE  /\ NewRecords(n) \subseteq Record
         /\ IsFiniteSet(NewRecords(n))
         /\ Cardinality(NewRecords(n)) \in Nat
         /\ Cardinality(NewRecords(n)) <= n
<1> DEFINE I == (issued + 1)..(issued + n)
           f == [t \in I |-> [token |-> t, expires |-> now + Ttl]]
<1>1. n \in Nat /\ issued \in Nat /\ now \in 0..MaxTime
  BY StoreAssumption DEF StoreInv, ExtractionTypeOK
<1>2. NewRecords(n) \subseteq Record
  BY <1>1, StoreAssumption DEF NewRecords, Record
<1>3. IsFiniteSet(I) /\ Cardinality(I) <= n
  <2>1. PICK a \in Int, b \in Int : a = issued + 1 /\ b = issued + n
    BY <1>1
  <2>2. IsFiniteSet(a..b) /\ Cardinality(a..b) = IF a > b THEN 0 ELSE b - a + 1
    BY FS_Interval
  <2>3. Cardinality(a..b) <= n
    BY <1>1, <2>1, <2>2
  <2> QED
    BY <2>1, <2>2, <2>3
<1>4. f \in Surjection(I, NewRecords(n))
  BY DEF Surjection, NewRecords
<1>5. IsFiniteSet(NewRecords(n)) /\ Cardinality(NewRecords(n)) <= Cardinality(I)
  BY <1>3, <1>4, FS_Surjection
<1> QED
  BY <1>1, <1>2, <1>3, <1>5, FS_CardinalityType

LEMMA StoreFullInv ==
  ASSUME StoreInv, NEW n \in Batches, StoreFull(n), UNCHANGED now, run' \in [Leases -> RunState]
  PROVE  StoreInv'
<1>1. records' \subseteq records /\ records' = Unexpired
  BY DEF StoreFull, Unexpired
<1>2. IsFiniteSet(records)' /\ WholeBatches'
  <2>1. Cardinality(records) \in Nat
    BY FS_CardinalityType DEF StoreInv
  <2> QED
    BY <1>1, <2>1, UnexpiredFacts, StoreAssumption
       DEF StoreInv, WholeBatches, StoreFull
<1>3. LinksLive'
  BY <1>1, UnexpiredFacts DEF StoreFull, LinksLive, Available
<1> QED
  BY <1>1, <1>2, <1>3 DEF StoreInv, ExtractionTypeOK, StoreFull

LEMMA StoredInv ==
  ASSUME StoreInv, NEW n \in Batches, Stored(n), UNCHANGED now, run' \in [Leases -> RunState]
  PROVE  StoreInv'
<1> DEFINE U == Unexpired
           N == NewRecords(n)
<1>1. records' = U \cup N /\ granted' = granted \cup N /\ issued' = issued + n
  BY DEF Stored
<1>2. /\ IsFiniteSet(U) /\ Cardinality(U) \in Nat /\ Cardinality(U) + n <= Capacity
      /\ N \subseteq Record /\ IsFiniteSet(N)
      /\ Cardinality(N) \in Nat /\ Cardinality(N) <= n
  BY UnexpiredFacts, NewRecordsFacts DEF Stored
<1>3. IsFiniteSet(U \cup N) /\ Cardinality(U \cup N) <= Capacity
  <2>1. U \cap N \in SUBSET U
    OBVIOUS
  <2>2. Cardinality(U \cap N) \in Nat
    BY <1>2, <2>1, FS_Subset, FS_CardinalityType
  <2>3. Cardinality(U \cup N) = Cardinality(U) + Cardinality(N) - Cardinality(U \cap N)
    BY <1>2, FS_Union
  <2>4. IsFiniteSet(U \cup N)
    BY <1>2, FS_Union
  <2>5. n \in Nat /\ Capacity \in Nat
    BY StoreAssumption
  <2> HIDE DEF U, N
  <2> QED
    BY <1>2, <2>2, <2>3, <2>4, <2>5
<1>4. U \subseteq granted
  BY DEF Unexpired, StoreInv, WholeBatches
<1>5. ExtractionTypeOK'
  <2>1. issued' \in 0..MaxIssued
    BY <1>1, StoreAssumption DEF StoreInv, ExtractionTypeOK, Stored
  <2>2. records' \subseteq Record /\ granted' \subseteq Record
    BY <1>1, <1>2, <1>4 DEF StoreInv, ExtractionTypeOK
  <2> QED
    BY <2>1, <2>2 DEF StoreInv, ExtractionTypeOK
<1>6. LinksLive'
  BY <1>1, UnexpiredFacts DEF LinksLive, Available
<1> QED
  BY <1>1, <1>3, <1>4, <1>5, <1>6 DEF StoreInv, WholeBatches

LEMMA StoreUntouched ==
  ASSUME StoreInv, UNCHANGED storeVars, now' \in 0..MaxTime, now' >= now,
         run' \in [Leases -> RunState]
  PROVE  StoreInv'
<1>1. \A g \in granted : g.expires \in Nat
  BY StoreAssumption DEF StoreInv, ExtractionTypeOK, Record
<1>2. now \in Nat /\ now' \in Nat
  BY StoreAssumption DEF StoreInv, ExtractionTypeOK
<1>3. LinksLive'
  BY <1>1, <1>2 DEF StoreInv, LinksLive, Available, storeVars
<1> QED
  BY <1>3 DEF StoreInv, storeVars, ExtractionTypeOK, WholeBatches

LEMMA InitStore == Init => StoreInv
BY StoreAssumption, FS_EmptySet
   DEF Init, StoreInv, ExtractionTypeOK, LinksLive, WholeBatches, Idle, RunState

LEMMA StepStore == StoreInv /\ [Next]_vars => StoreInv'
<1> SUFFICES ASSUME StoreInv, [Next]_vars PROVE StoreInv'
  OBVIOUS
<1>1. run \in [Leases -> RunState] /\ now \in 0..MaxTime
  BY DEF StoreInv, ExtractionTypeOK
<1>2. ASSUME NEW l \in Leases, NEW c \in Clients, Begin(l, c) PROVE StoreInv'
  <2>1. run' \in [Leases -> RunState]
    BY <1>1, <1>2 DEF Begin, RunState
  <2> QED
    BY <1>1, <1>2, <2>1, StoreUntouched, StoreAssumption DEF Begin
<1>3. ASSUME NEW l \in Leases, ExtractionFails(l) PROVE StoreInv'
  <2>1. run' \in [Leases -> RunState]
    BY <1>1, <1>3 DEF ExtractionFails, Ends, RunState
  <2> QED
    BY <1>1, <1>3, <2>1, StoreUntouched, StoreAssumption DEF ExtractionFails
<1>4. ASSUME NEW l \in Leases, NEW n \in Batches, Extracted(l, n) PROVE StoreInv'
  <2>1. run' \in [Leases -> RunState]
    BY <1>1, <1>4 DEF Extracted, Ends, RunState
  <2> QED
    BY <1>4, <2>1, StoreFullInv, StoredInv DEF Extracted
<1>5. CASE Tick
  BY <1>1, <1>5, StoreUntouched, StoreAssumption DEF Tick
<1>6. CASE UNCHANGED vars
  BY <1>1, <1>6, StoreUntouched, StoreAssumption DEF vars, storeVars
<1> QED
  BY <1>2, <1>3, <1>4, <1>5, <1>6 DEF Next

(* Every link of an answer works until its deadline, and the store keeps   *)
(* whole batches within its capacity, for any lifetimes and batch sizes    *)
(* (tokens.py reserve, get, purge_expired).                                *)
THEOREM LinksKeepTheirPromise == Spec => []LinksKept
<1>1. StoreInv => LinksKept
  BY DEF StoreInv, LinksKept
<1> QED
  BY <1>1, InitStore, StepStore, PTL DEF Spec

(* A batch is refused only when the links that still work leave no room    *)
(* (tokens.py reserve, the purge before the check).                        *)
THEOREM RefusalsAreJustified == Spec => RefusedOnlyWhenFull
<1> DEFINE Justified ==
      \A l \in Leases :
        Running(l) /\ run'[l].pc = "full" =>
          Cardinality({g \in granted : now <= g.expires}) + run'[l].size > Capacity
<1>1. StoreInv /\ [Next]_vars => [Justified]_vars
  <2> SUFFICES ASSUME StoreInv, Next, NEW l \in Leases,
                      Running(l), run'[l].pc = "full"
               PROVE  Cardinality({g \in granted : now <= g.expires})
                        + run'[l].size > Capacity
    OBVIOUS
  <2>1. run \in [Leases -> RunState] /\ run[l].pc = "running"
    BY DEF StoreInv, ExtractionTypeOK, Running
  <2>2. PICK k \in Leases, n \in Batches : Extracted(k, n) /\ StoreFull(n) /\ Ends(k, "full", n)
    BY <2>1 DEF Next, Begin, ExtractionFails, Extracted, Ends, Tick
  <2>3. k = l /\ run'[l].size = n
    BY <2>1, <2>2 DEF Ends
  <2> QED
    BY <2>2, <2>3, UnexpiredFacts DEF StoreFull
<1> QED
  BY <1>1, InitStore, StepStore, PTL DEF Spec, RefusedOnlyWhenFull

-----------------------------------------------------------------------------
(* The slots.                                                              *)

RunInv ==
  /\ LimiterTypeOK
  /\ ExtractionTypeOK
  /\ \A l \in Leases : Held(l) <=> Running(l)
  /\ \A l \in Leases : Held(l) => lease[l].kind = "extraction"

LEMMA EndsRun ==
  ASSUME RunInv, NEW l \in Leases, Running(l), NEW p, NEW n,
         p # "running", Ends(l, p, n)
  PROVE  /\ \A x \in Leases : Held(x)' <=> Running(x)'
         /\ \A x \in Leases : Held(x)' => lease'[x].kind = "extraction"
<1>1. Held(l)
  BY DEF RunInv
<1>2. lease' = [lease EXCEPT ![l].released = TRUE]
  BY <1>1 DEF Ends, Release, Held
<1>3. /\ ~Held(l)'
      /\ \A x \in Leases : x # l => lease'[x] = lease[x]
  <2>1. lease \in [Leases -> LeaseRecord \cup {NoLease}]
    BY DEF RunInv, LimiterTypeOK
  <2>2. PICK m \in LeaseRecord : m = lease[l]
    BY <1>1, <2>1 DEF Held
  <2>3. lease'[l] = [lease[l] EXCEPT !.released = TRUE]
    BY <1>2, <2>1
  <2>4. lease'[l] = [m EXCEPT !.released = TRUE]
    BY <2>2, <2>3, Zenon
  <2>5. lease'[l].released
    BY <2>4 DEF LeaseRecord
  <2> QED
    BY <1>2, <2>1, <2>5 DEF Held
<1>4. /\ \A x \in Leases : x # l => run'[x] = run[x]
      /\ run'[l] = [pc |-> p, size |-> n]
  BY DEF Ends, RunInv, ExtractionTypeOK
<1> QED
  BY <1>3, <1>4 DEF RunInv, Running, Held

LEMMA StepRun ==
  ASSUME RunInv, LimiterTypeOK', ExtractionTypeOK', [Next]_vars
  PROVE  RunInv'
<1> USE DEF RunInv
<1>1. ASSUME NEW l \in Leases, NEW c \in Clients, Begin(l, c) PROVE RunInv'
  <2>1. Fresh(l) /\ HandOut(l, "extraction", c)
    BY <1>1 DEF Begin, AcquireExtraction
  <2>2. /\ lease'[l] = [kind |-> "extraction", client |-> c, released |-> FALSE]
        /\ \A x \in Leases : x # l => lease'[x] = lease[x]
    BY <2>1 DEF HandOut, LimiterTypeOK
  <2>3. /\ \A x \in Leases : x # l => run'[x] = run[x]
        /\ run'[l].pc = "running"
    BY <1>1 DEF Begin, ExtractionTypeOK
  <2> QED
    BY <2>2, <2>3 DEF Held, Running, NoLease
<1>2. ASSUME NEW l \in Leases, ExtractionFails(l) PROVE RunInv'
  BY <1>2, EndsRun DEF ExtractionFails
<1>3. ASSUME NEW l \in Leases, NEW n \in Batches, Extracted(l, n) PROVE RunInv'
  BY <1>3, EndsRun DEF Extracted
<1>4. CASE Tick \/ UNCHANGED vars
  BY <1>4 DEF Tick, vars, limiterVars, Held, Running
<1> QED
  BY <1>1, <1>2, <1>3, <1>4 DEF Next

(* A slot is held exactly while its extraction runs, and no client has two *)
(* extractions at once (extraction_coordinator.py execute, limits.py).     *)
THEOREM SlotsFollowExtractions == Spec => []SlotIffRunning
<1>1. Init => RunInv
  BY InitStore, InitInv
     DEF Init, RunInv, StoreInv, LimiterInv, LimiterInit, Held, Running, Idle
<1>2. StoreInv => ExtractionTypeOK
  BY DEF StoreInv
<1>3. LimiterInv => LimiterTypeOK /\ ExtractionAccounting
  BY DEF LimiterInv
<1>4. RunInv /\ ExtractionAccounting => SlotIffRunning
  BY DEF RunInv, ExtractionAccounting, SlotIffRunning, HeldLeases
<1> QED
  BY <1>1, <1>2, <1>3, <1>4, StepRun, InitStore, StepStore, LimiterInvariant,
     ExtractionImplementsLimiter, PTL DEF Spec, ImplementsLimiter

-----------------------------------------------------------------------------
(* One run of the extractor: what is known of the child at each await.     *)

PcTypes ==
  /\ pc \in {"idle", "waiting", "terminating", "killing", "cleanup", "ended"}
  /\ child \in {"none", "running", "dead"}
  /\ signal \in {"none", "term", "kill"}
  /\ cancels \in Nat
  /\ error \in {"none", "cancelled"} \cup Failures
  /\ task = [t \in Tasks |-> task[t]]

(* The caller is past the point where the child might go on running.       *)
Gone == child # "running" \/ signal = "kill"

(* What is known of the child and of the cancellations at each await.      *)
Phases ==
  /\ pc = "idle" => child = "none" /\ signal = "none" /\ cancels = 0
  /\ pc = "waiting" => /\ child # "none" /\ signal = "none" /\ cancels = 0
                       /\ task["wait"] \in {"running", "done"}
  /\ pc \in {"terminating", "killing"} => error # "none"
  /\ pc \in {"terminating", "killing", "cleanup"} =>
       child # "none" /\ (error = "cancelled" <=> cancels > 0)
  /\ pc \in {"killing", "cleanup", "ended"} => Gone
  /\ pc = "cleanup" /\ error = "none" => child = "dead" /\ signal = "none"
  /\ pc = "ended" => (outcome = "cancelled" <=> cancels > 0)
  /\ child = "none" => \A t \in Tasks : task[t] = "none"
  /\ task["wait"] = "done" => child = "dead"

ChildInv == PcTypes /\ Phases

LEMMA InitChildInv == ProcessInit => ChildInv
BY DEF ProcessInit, ChildInv, PcTypes, Phases, Gone, Tasks, Streams, Failures

(* What is known at an await stays known, whatever the step.               *)
LEMMA ChildInvStep == ChildInv /\ [ProcessNext]_processVars => ChildInv'
<1> SUFFICES ASSUME ChildInv, [ProcessNext]_processVars PROVE ChildInv'
  OBVIOUS
<1> USE DEF ChildInv, PcTypes, Phases, Gone, Alive, Tasks, Streams, Failures,
            callerVars
<1>1. ASSUME ChildNext PROVE ChildInv'
  BY <1>1 DEF ChildNext, ChildWrites, ChildExits, ChildDies
<1>2. ASSUME TaskNext PROVE ChildInv'
  <2>1. ASSUME NEW s \in Streams, NEW n \in 1..PipeSize, Read(s, n)
        PROVE  ChildInv'
    <3>1. UNCHANGED <<pc, error, outcome, cancels, child, signal>>
      BY <2>1 DEF Read
    <3>2. \A x : [task EXCEPT ![s] = x]["wait"] = task["wait"]
      OBVIOUS
    <3>3. \A x : [task EXCEPT ![s] = x] =
                   [t \in Tasks |-> [task EXCEPT ![s] = x][t]]
      OBVIOUS
    <3> QED
      BY <2>1, <3>1, <3>2, <3>3 DEF Read
  <2>2. ASSUME NEW s \in Streams, EndOfStream(s) \/ ReadFails(s)
        PROVE  ChildInv'
    BY <2>2 DEF EndOfStream, ReadFails, childVars
  <2>3. CASE WaitEnds
    BY <2>3 DEF WaitEnds, childVars
  <2>4. ASSUME NEW t \in Tasks, TaskCancelled(t) PROVE ChildInv'
    BY <2>4 DEF TaskCancelled, childVars
  <2> QED
    BY <1>2, <2>1, <2>2, <2>3, <2>4 DEF TaskNext
<1>3. ASSUME CallerNext PROVE ChildInv'
  <2> USE DEF childVars, EnterCleanup, Settled
  <2>1. CASE StartFails \/ Start
    BY <2>1 DEF StartFails, Start
  <2>2. CASE Communicated
    BY <2>2 DEF Communicated, AllSettled
  <2>3. ASSUME NEW s \in Streams, ReaderFailed(s) PROVE ChildInv'
    BY <2>3 DEF ReaderFailed, StopBegins, Signal, ErrorOf
  <2>4. CASE WaitTimesOut
    BY <2>4 DEF WaitTimesOut, StopBegins, Signal
  <2>5. CASE Terminated
    BY <2>5 DEF Terminated
  <2>6. CASE TerminateTimesOut
    BY <2>6 DEF TerminateTimesOut, Kill, Signal
  <2>7. CASE Killed
    BY <2>7 DEF Killed
  <2>8. CASE CleanupEnds
    BY <2>8 DEF CleanupEnds, Verdict
  <2>9. CASE CallerCancelled
    BY <2>9 DEF CallerCancelled, StopBegins, Kill, Signal
  <2> QED
    BY <1>3, <2>1, <2>2, <2>3, <2>4, <2>5, <2>6, <2>7, <2>8, <2>9
       DEF CallerNext
<1>4. CASE UNCHANGED processVars
  BY <1>4 DEF processVars, childVars
<1> QED
  BY <1>1, <1>2, <1>3, <1>4 DEF ProcessNext

(* Each step is a step of the owner, or one that the owner does not see.   *)
LEMMA OwnerStep == ChildInv /\ [ProcessNext]_processVars => [Owner!OwnerNext]_Owner!ownerVars
<1> SUFFICES ASSUME ChildInv, [ProcessNext]_processVars
             PROVE  Owner!OwnerNext \/ UNCHANGED Owner!ownerVars
  OBVIOUS
<1> USE DEF ChildInv, PcTypes, Phases, Gone, Alive, callerVars,
            Failures, Owner!ownerVars, Process, Answer
<1>1. ASSUME ChildNext PROVE Owner!OwnerNext \/ UNCHANGED Owner!ownerVars
  BY <1>1 DEF ChildNext, ChildWrites, ChildExits, ChildDies,
              Owner!OwnerNext, Owner!Exits, Owner!Stops
<1>2. ASSUME TaskNext PROVE UNCHANGED Owner!ownerVars
  BY <1>2 DEF TaskNext, Read, EndOfStream, ReadFails, WaitEnds, TaskCancelled,
              childVars
<1>3. ASSUME CallerNext PROVE Owner!OwnerNext \/ UNCHANGED Owner!ownerVars
  <2> USE DEF childVars, EnterCleanup, Owner!OwnerNext, Owner!Answers
  <2>1. CASE StartFails
    BY <2>1 DEF StartFails, Owner!AnswersWith
  <2>2. CASE Start
    BY <2>2 DEF Start, Owner!Starts
  <2>3. CASE Communicated
    BY <2>3 DEF Communicated
  <2>4. ASSUME NEW s \in Streams, ReaderFailed(s)
        PROVE  UNCHANGED Owner!ownerVars
    BY <2>4 DEF ReaderFailed, StopBegins, Signal, ErrorOf
  <2>5. CASE WaitTimesOut
    BY <2>5 DEF WaitTimesOut, StopBegins, Signal
  <2>6. CASE Terminated
    BY <2>6 DEF Terminated
  <2>7. CASE TerminateTimesOut
    BY <2>7 DEF TerminateTimesOut, Kill, Signal, Owner!Stops
  <2>8. CASE Killed
    BY <2>8 DEF Killed
  <2>9. CASE CleanupEnds
    <3>1. /\ pc = "cleanup" /\ pc' = "ended"
          /\ outcome' = IF error = "none" THEN Verdict ELSE error
          /\ UNCHANGED <<cancels, child, signal>>
      BY <2>9 DEF CleanupEnds
    <3>2. Verdict # "cancelled"
      BY DEF Verdict
    <3>3. Answer = "none" /\ Process # "running" /\ UNCHANGED Process
      BY <3>1
    <3>4. Answer' = "cancelled" <=> cancels > 0
      BY <3>1, <3>2
    <3>5. Answer' = "value" => Process = "exited"
      <4>1. CASE outcome' = "records" /\ error = "none"
        BY <3>1, <4>1
      <4>2. CASE outcome' = "records" /\ error # "none"
        BY <3>1, <4>2
      <4> QED
        BY <4>1, <4>2
    <3>6. Answer' \in Owner!Answers
      BY <3>1
    <3> HIDE DEF Process, Answer
    <3> QED
      BY <3>1, <3>3, <3>4, <3>5, <3>6 DEF Owner!AnswersWith
  <2>10. CASE CallerCancelled
    <3>1. cancels' = cancels + 1 /\ cancels' > 0
      BY <2>10 DEF CallerCancelled
    <3>2. CASE pc \in {"idle", "cleanup"}
      <4>1. Answer = "none" /\ Process # "running" /\ UNCHANGED Process
        BY <2>10, <3>2 DEF CallerCancelled
      <4>2. Answer' = "cancelled"
        BY <2>10, <3>2 DEF CallerCancelled
      <4> HIDE DEF Process, Answer
      <4> QED
        BY <3>1, <4>1, <4>2 DEF Owner!AnswersWith
    <3>3. CASE pc = "waiting"
      <4>1. UNCHANGED <<Process, Answer>> /\ Answer = "none"
        BY <2>10, <3>3 DEF CallerCancelled, StopBegins, Signal
      <4> HIDE DEF Process, Answer
      <4> QED
        BY <3>1, <4>1 DEF Owner!Cancels
    <3>4. CASE pc = "terminating" /\ Alive
      <4>1. UNCHANGED Answer /\ Answer = "none"
        BY <2>10, <3>4 DEF CallerCancelled, Kill, Signal
      <4>2. Process \in {"running", "stopped"} /\ Process' = "stopped"
        BY <2>10, <3>4 DEF CallerCancelled, Kill, Signal
      <4> HIDE DEF Process, Answer
      <4> QED
        BY <3>1, <4>1, <4>2 DEF Owner!Stops, Owner!Cancels
    <3>5. CASE (pc = "terminating" /\ ~Alive) \/ pc = "killing"
      <4>1. UNCHANGED <<Process, Answer>> /\ Answer = "none"
        BY <2>10, <3>5 DEF CallerCancelled, Kill, Signal
      <4> HIDE DEF Process, Answer
      <4> QED
        BY <3>1, <4>1 DEF Owner!Cancels
    <3> QED
      BY <2>10, <3>2, <3>3, <3>4, <3>5 DEF CallerCancelled
  <2> QED
    BY <1>3, <2>1, <2>2, <2>3, <2>4, <2>5, <2>6, <2>7, <2>8, <2>9, <2>10
       DEF CallerNext
<1>4. CASE UNCHANGED processVars
  BY <1>4 DEF processVars, childVars
<1> QED
  BY <1>1, <1>2, <1>3, <1>4 DEF ProcessNext

(* The extractor implements what the owner of a child is promised.         *)
THEOREM ExtractorKeepsTheChild == ProcessSpec => KeepsTheChild
<1>1. ProcessInit => Owner!OwnerInit
  BY DEF ProcessInit, Owner!OwnerInit, Process, Answer
<1>2. ProcessSpec => []ChildInv
  BY InitChildInv, ChildInvStep, PTL DEF ProcessSpec
<1> QED
  BY <1>1, <1>2, OwnerStep, PTL DEF ProcessSpec, KeepsTheChild, Owner!OwnerSpec

-----------------------------------------------------------------------------
(* The output.                                                             *)

(* Nothing of stdout is lost before the limit: what was written is kept or *)
(* still in the pipe, and a reader that is done has left nothing there.    *)
OutputInv ==
  /\ kept \in [Streams -> Nat] /\ pipe \in [Streams -> Nat]
  /\ written \in [Streams -> Nat]
  /\ kept["stdout"] <= OutputLimit
  /\ exit \in [code : {0, 1}, report : Reports]
  /\ pc = "waiting" =>
       task["stdout"] \in {"running", "done", "overLimit", "ioError"}
  /\ task["stdout"] # "overLimit" =>
       kept["stdout"] + pipe["stdout"] = written["stdout"]
  /\ task["stdout"] = "done" => child = "dead" /\ pipe["stdout"] = 0
  /\ pc = "cleanup" /\ error = "none" => task["stdout"] = "done"
  /\ outcome \in Verdicts => pc = "ended"
  /\ VerdictOnWholeOutput

LEMMA InitOutputInv == ProcessInit => OutputInv
BY ExtractorAssumption
   DEF ProcessInit, OutputInv, VerdictOnWholeOutput, Streams, Tasks, Verdicts, Reports

LEMMA LesserOfTwo ==
  ASSUME NEW a \in Nat, NEW b \in Nat
  PROVE  /\ Min({a, b}) \in Nat /\ Min({a, b}) <= a /\ Min({a, b}) <= b
         /\ Min({a, b}) \in {a, b}
BY DEF Min

(* The reader of stdout asks for at least one byte.                        *)
LEMMA AsksForMore ==
  ASSUME OutputInv, NEW s \in Streams
  PROVE  ReadSize(s) \in Nat /\ ReadSize(s) >= 1
<1>1. OutputLimit - kept["stdout"] + 1 \in Nat /\ ReadChunk \in Nat
  BY ExtractorAssumption DEF OutputInv, Streams
<1>2. OutputLimit - kept["stdout"] + 1 >= 1 /\ ReadChunk >= 1
  BY <1>1, ExtractorAssumption DEF OutputInv, Streams
<1>3. Min({ReadChunk, OutputLimit - kept["stdout"] + 1}) \in Nat \ {0}
  BY <1>1, <1>2, LesserOfTwo
<1> QED
  BY <1>1, <1>2, <1>3 DEF ReadSize

LEMMA OutputInvStep == ChildInv /\ OutputInv /\ [ProcessNext]_processVars => OutputInv'
<1> SUFFICES ASSUME ChildInv, OutputInv, [ProcessNext]_processVars PROVE OutputInv'
  OBVIOUS
<1> USE ExtractorAssumption DEF OutputInv, VerdictOnWholeOutput, Alive,
        callerVars
<1>1. ASSUME ChildNext PROVE OutputInv'
  <2>1. ASSUME NEW s \in Streams, ChildWrites(s) PROVE OutputInv'
    BY <2>1 DEF ChildWrites, Streams
  <2>2. ASSUME NEW code \in {0, 1}, NEW report \in Reports,
               ChildExits(code, report)
        PROVE  OutputInv'
    BY <2>2 DEF ChildExits
  <2>3. CASE ChildDies
    BY <2>3 DEF ChildDies
  <2> QED
    BY <1>1, <2>1, <2>2, <2>3 DEF ChildNext
<1>2. ASSUME TaskNext PROVE OutputInv'
  <2>1. ASSUME NEW n \in 1..PipeSize, Read("stdout", n) PROVE OutputInv'
    <3>1. /\ n \in Nat /\ n <= pipe["stdout"]
          /\ pipe' = [pipe EXCEPT !["stdout"] = @ - n]
          /\ task' = [task EXCEPT !["stdout"] = ReadOn("stdout", n)]
          /\ kept' = [kept EXCEPT !["stdout"] = KeptAfter("stdout", n)]
          /\ task["stdout"] = "running"
          /\ UNCHANGED <<pc, error, outcome, child, signal, exit, written>>
      BY <2>1 DEF Read
    <3>2. CASE kept["stdout"] + n > OutputLimit
      <4>1. ReadOn("stdout", n) = "overLimit"
            /\ KeptAfter("stdout", n) = kept["stdout"]
        BY <3>2 DEF ReadOn, KeptAfter
      <4> QED
        BY <3>1, <4>1 DEF ChildInv, PcTypes, Streams, Tasks
    <3>3. CASE ~(kept["stdout"] + n > OutputLimit)
      <4>1. kept["stdout"] + n \in Nat /\ kept["stdout"] + n <= OutputLimit
        BY <3>1, <3>3 DEF Streams
      <4>2. ReadOn("stdout", n) = "running"
        BY <3>3 DEF ReadOn
      <4>3. Min({kept["stdout"] + n, OutputLimit}) = kept["stdout"] + n
        BY <4>1, LesserOfTwo
      <4>4. KeptAfter("stdout", n) = kept["stdout"] + n
        BY <4>2, <4>3 DEF KeptAfter, LimitOf
      <4> QED
        BY <3>1, <4>1, <4>2, <4>4 DEF ChildInv, PcTypes, Streams, Tasks
    <3> QED
      BY <3>2, <3>3
  <2>2. ASSUME NEW n \in 1..PipeSize, Read("stderr", n) PROVE OutputInv'
    <3>1. kept["stderr"] + n \in Nat /\ StderrLimit \in Nat
      BY DEF Streams
    <3>2. KeptAfter("stderr", n) \in Nat
      BY <3>1, LesserOfTwo DEF KeptAfter, LimitOf, Streams
    <3> QED
      BY <2>2, <3>2 DEF Read, ChildInv, PcTypes, Streams, Tasks
  <2>3. ASSUME NEW s \in Streams, EndOfStream(s) PROVE OutputInv'
    <3>1. ReadSize(s) # 0
      BY AsksForMore
    <3>2. task[s] = "running" => child # "none"
      BY DEF ChildInv, Phases, Tasks
    <3> QED
      BY <2>3, <3>1, <3>2
         DEF EndOfStream, ChildInv, PcTypes, Streams, Tasks, childVars
  <2>4. ASSUME NEW s \in Streams, ReadFails(s) PROVE OutputInv'
    BY <2>4 DEF ReadFails, ChildInv, PcTypes, Streams, Tasks, childVars
  <2>5. CASE WaitEnds
    BY <2>5 DEF WaitEnds, ChildInv, PcTypes, Streams, Tasks, childVars
  <2>6. ASSUME NEW t \in Tasks, TaskCancelled(t) PROVE OutputInv'
    BY <2>6 DEF TaskCancelled, ChildInv, PcTypes, Streams, Tasks, childVars
  <2> QED
    BY <1>2, <2>1, <2>2, <2>3, <2>4, <2>5, <2>6 DEF TaskNext, Streams
<1>3. ASSUME CallerNext PROVE OutputInv'
  <2> USE DEF childVars, EnterCleanup, Settled, Streams, Tasks, Verdicts
  <2>1. CASE StartFails \/ Start
    BY <2>1 DEF StartFails, Start, ChildInv, Phases
  <2>2. CASE Communicated
    BY <2>2 DEF Communicated, AllSettled, Failed
  <2>3. ASSUME NEW s \in Streams, ReaderFailed(s) PROVE OutputInv'
    BY <2>3 DEF ReaderFailed, StopBegins, Signal, ErrorOf
  <2>4. CASE WaitTimesOut
    BY <2>4 DEF WaitTimesOut, StopBegins, Signal
  <2>5. CASE Terminated \/ Killed
    BY <2>5 DEF Terminated, Killed, ChildInv, Phases
  <2>6. CASE TerminateTimesOut
    BY <2>6 DEF TerminateTimesOut, Kill, Signal, ChildInv, Phases
  <2>7. CASE CleanupEnds
    BY <2>7 DEF CleanupEnds, Verdict, ChildInv, PcTypes, Phases, Failures,
                Reports
  <2>8. CASE CallerCancelled
    BY <2>8 DEF CallerCancelled, StopBegins, Kill, Signal
  <2> QED
    BY <1>3, <2>1, <2>2, <2>3, <2>4, <2>5, <2>6, <2>7, <2>8 DEF CallerNext
<1>4. CASE UNCHANGED processVars
  BY <1>4 DEF processVars, childVars
<1> QED
  BY <1>1, <1>2, <1>3, <1>4 DEF ProcessNext

(* A verdict is passed only on a whole output of a child that exited by    *)
(* itself.                                                                 *)
THEOREM VerdictsAreFounded == ProcessSpec => []VerdictOnWholeOutput
<1>1. ProcessSpec => []ChildInv
  BY InitChildInv, ChildInvStep, PTL DEF ProcessSpec
<1>2. OutputInv => VerdictOnWholeOutput
  BY DEF OutputInv
<1> QED
  BY <1>1, <1>2, InitOutputInv, OutputInvStep, PTL DEF ProcessSpec

-----------------------------------------------------------------------------
(* The pipes.                                                              *)

(* While the caller waits, a reader has stopped only because the child is  *)
(* dead or because it failed, and neither reader keeps more than its       *)
(* limit.                                                                  *)
ReadOrFailed(s) ==
  /\ kept[s] <= LimitOf(s)
  /\ task[s] = "done" => child = "dead"
  /\ pc = "waiting" => task[s] \in {"running", "done", "overLimit", "ioError"}

ReadersInv == \A s \in Streams : ReadOrFailed(s)

LEMMA InitReadersInv == ProcessInit => ReadersInv
BY ExtractorAssumption
   DEF ProcessInit, ReadersInv, ReadOrFailed, LimitOf, Streams, Tasks

LEMMA ReadersInvStep ==
  ChildInv /\ OutputInv /\ ReadersInv /\ [ProcessNext]_processVars => ReadersInv'
<1> SUFFICES ASSUME ChildInv, OutputInv, ReadersInv, [ProcessNext]_processVars,
                    NEW s \in Streams
             PROVE  ReadOrFailed(s)'
  BY DEF ReadersInv
<1> USE DEF ReadOrFailed, LimitOf
<1>0. /\ kept[s] <= LimitOf(s) /\ kept \in [Streams -> Nat]
      /\ task[s] = "done" => child = "dead"
      /\ pc = "waiting" => task[s] \in {"running", "done", "overLimit", "ioError"}
      /\ task = [t \in Tasks |-> task[t]] /\ s \in Tasks
      /\ pc = "idle" => task[s] = "none"
      /\ task[s] = "running" => child # "none"
      /\ child \in {"none", "running", "dead"}
  BY DEF ReadersInv, OutputInv, ChildInv, PcTypes, Phases, Tasks
<1>1. ASSUME ChildNext PROVE ReadOrFailed(s)'
  BY <1>0, <1>1 DEF ChildNext, ChildWrites, ChildExits, ChildDies, callerVars
<1>2. ASSUME TaskNext PROVE ReadOrFailed(s)'
  <2>1. ASSUME NEW r \in Streams, NEW n \in 1..PipeSize, Read(r, n)
        PROVE  ReadOrFailed(s)'
    <3>1. /\ task[r] = "running" /\ n \in Nat
          /\ task' = [task EXCEPT ![r] = ReadOn(r, n)]
          /\ kept' = [kept EXCEPT ![r] = KeptAfter(r, n)]
          /\ UNCHANGED <<pc, child>>
      BY <2>1, ExtractorAssumption DEF Read, callerVars
    <3>2. ReadOn(r, n) \in {"running", "overLimit"}
      BY DEF ReadOn
    <3>3. kept[r] \in Nat /\ kept[r] + n \in Nat /\ LimitOf(r) \in Nat
      BY <1>0, <3>1, ExtractorAssumption DEF LimitOf
    <3>4. KeptAfter(r, n) <= LimitOf(r)
      <4>1. kept[r] <= LimitOf(r)
        BY DEF ReadersInv
      <4>2. Min({kept[r] + n, LimitOf(r)}) <= LimitOf(r)
        BY <3>3, LesserOfTwo
      <4> QED
        BY <4>1, <4>2 DEF KeptAfter
    <3>5. CASE s = r
      BY <1>0, <3>1, <3>2, <3>4, <3>5
    <3>6. CASE s # r
      BY <1>0, <3>1, <3>6
    <3> QED
      BY <3>5, <3>6
  <2>2. ASSUME NEW r \in Streams, EndOfStream(r) PROVE ReadOrFailed(s)'
    <3>1. ReadSize(r) # 0
      BY AsksForMore
    <3>2. task[r] = "running" /\ child # "none" /\ ~Alive
      BY <2>2, <3>1 DEF EndOfStream, ChildInv, PcTypes, Phases, Tasks
    <3>3. child = "dead"
      BY <1>0, <3>2 DEF Alive
    <3> QED
      BY <1>0, <2>2, <3>3 DEF EndOfStream, childVars, callerVars
  <2>3. ASSUME NEW r \in Streams, ReadFails(r) PROVE ReadOrFailed(s)'
    BY <1>0, <2>3 DEF ReadFails, childVars, callerVars
  <2>4. CASE WaitEnds
    BY <1>0, <2>4 DEF WaitEnds, childVars, callerVars, Streams, Tasks
  <2>5. ASSUME NEW t \in Tasks, TaskCancelled(t) PROVE ReadOrFailed(s)'
    BY <1>0, <2>5 DEF TaskCancelled, childVars, callerVars
  <2> QED
    BY <1>2, <2>1, <2>2, <2>3, <2>4, <2>5 DEF TaskNext
<1>3. ASSUME CallerNext PROVE ReadOrFailed(s)'
  <2> USE <1>0 DEF childVars, callerVars, EnterCleanup, Settled, Signal
  <2>1. CASE StartFails \/ Start
    BY <2>1 DEF StartFails, Start
  <2>2. CASE Communicated
    BY <2>2 DEF Communicated
  <2>3. ASSUME NEW r \in Streams, ReaderFailed(r) PROVE ReadOrFailed(s)'
    BY <2>3 DEF ReaderFailed, StopBegins
  <2>4. CASE WaitTimesOut
    BY <2>4 DEF WaitTimesOut, StopBegins
  <2>5. CASE Terminated \/ Killed
    BY <2>5 DEF Terminated, Killed
  <2>6. CASE TerminateTimesOut
    BY <2>6 DEF TerminateTimesOut, Kill
  <2>7. CASE CleanupEnds
    BY <2>7 DEF CleanupEnds
  <2>8. CASE CallerCancelled
    BY <2>8 DEF CallerCancelled, StopBegins, Kill
  <2> QED
    BY <1>3, <2>1, <2>2, <2>3, <2>4, <2>5, <2>6, <2>7, <2>8 DEF CallerNext
<1>4. CASE UNCHANGED processVars
  BY <1>0, <1>4 DEF processVars, childVars, callerVars
<1> QED
  BY <1>1, <1>2, <1>3, <1>4 DEF ProcessNext

(* A child that has filled a pipe is read on or about to be stopped, for   *)
(* any limits and pipe sizes, and no reader keeps more than its limit      *)
(* (_read_extraction_stream).                                              *)
THEOREM ChildIsReadOn == ProcessSpec => []NoStarvedChild
<1>1. ProcessSpec => []ChildInv
  BY InitChildInv, ChildInvStep, PTL DEF ProcessSpec
<1>2. ProcessSpec => []OutputInv
  BY <1>1, InitOutputInv, OutputInvStep, PTL DEF ProcessSpec
<1>3. ReadersInv => NoStarvedChild
  BY DEF ReadersInv, ReadOrFailed, NoStarvedChild, Alive, Failed, Tasks
<1> QED
  BY <1>1, <1>2, <1>3, InitReadersInv, ReadersInvStep, PTL DEF ProcessSpec
=============================================================================

--------------------------- MODULE SupervisorProofs ---------------------------
(***************************************************************************)
(* Proofs about the process tree, for any number of workers and cores, any *)
(* number of failing forks and crashes.                                    *)
(***************************************************************************)
EXTENDS Supervisor, FiniteSetTheorems, TLAPS

-------------------------------------------------------------------------------
(***************************************************************************)
(* Types.                                                                  *)
(***************************************************************************)
States == {"none", "started", "saved", "init", "serving", "leaving", "zombie", "reaped"}

LEMMA AdvanceTyped ==
    ASSUME NEW after \in {"tune", "wait"}, TypeOK, Advance(after)
    PROVE  next' \in Workers /\ spc' \in {"fork", "tune", "wait", "exited"}
  BY SupervisorAssumption DEF Advance, TypeOK, Workers

LEMMA GoTyped ==
    ASSUME NEW i \in Workers, NEW here \in States, NEW there \in States,
           w \in [Workers -> States], Go(i, here, there)
    PROVE  w' \in [Workers -> States]
  BY DEF Go

LEMMA TypeInit == Init => TypeOK
<1> SUFFICES ASSUME Init PROVE TypeOK
  OBVIOUS
<1>1. spc = "fork" /\ next \in Workers /\ active \in Nat /\ failures \in 0..MaxForkFailures
  BY SupervisorAssumption DEF Init, Workers
<1>2. asked \in BOOLEAN /\ w \in [Workers -> States] /\ pending \in [Workers -> BOOLEAN]
  BY DEF Init, States
<1>3. /\ saved \in [Workers -> Governors] /\ modified \in [Workers -> BOOLEAN]
      /\ gov \in [Cores -> Governors] /\ crashed \subseteq Workers /\ unwritten \subseteq Workers
  BY DEF Init, Governors
<1> QED
  BY <1>1, <1>2, <1>3 DEF TypeOK, States

LEMMA SupervisorTyped ==
    ASSUME TypeOK, SupervisorStep
    PROVE  TypeOK'
<1>1. CASE Fork
  <2>1. next' \in Workers /\ spc' \in {"fork", "tune", "wait", "exited"}
    BY <1>1, AdvanceTyped DEF Fork
  <2>2. w' \in [Workers -> States] /\ failures' \in 0..MaxForkFailures
    BY <1>1, SupervisorAssumption DEF Fork, TypeOK, States
  <2> QED
    BY <1>1, <2>1, <2>2 DEF Fork, TypeOK, States, tuning
<1>2. CASE TuneSqpoll
  <2>1. next' \in Workers /\ spc' \in {"fork", "tune", "wait", "exited"}
    BY <1>2, AdvanceTyped DEF TuneSqpoll
  <2> QED
    BY <1>2, <2>1 DEF TuneSqpoll, TypeOK, tuning
<1>3. ASSUME NEW i \in Workers, Reap(i) PROVE TypeOK'
  BY <1>3 DEF Reap, LoopEnds, TypeOK, tuning
<1>4. CASE WaitFails
  BY <1>4 DEF WaitFails, TypeOK, vars, super, tuning
<1>5. CASE Exit
  BY <1>5 DEF Exit, TypeOK, tuning
<1> QED
  BY <1>1, <1>2, <1>3, <1>4, <1>5 DEF SupervisorStep

LEMMA WorkerTyped ==
    ASSUME TypeOK, NEW i \in Workers, WorkerStep(i)
    PROVE  TypeOK'
<1>0. w \in [Workers -> States]
  BY DEF TypeOK, States
<1>1. CASE SaveGovernor(i)
  <2>1. w' \in [Workers -> States]
    BY <1>0, <1>1, GoTyped DEF SaveGovernor, States
  <2>2. saved' \in [Workers -> Governors]
    BY <1>1, SupervisorAssumption DEF SaveGovernor, TypeOK
  <2> QED
    BY <1>1, <2>1, <2>2 DEF SaveGovernor, TypeOK, States, super
<1>2. CASE SetGovernor(i)
  <2>1. w' \in [Workers -> States]
    BY <1>0, <1>2, GoTyped DEF SetGovernor, States
  <2>2. gov' \in [Cores -> Governors] /\ modified' \in [Workers -> BOOLEAN]
    BY <1>2 DEF SetGovernor, TypeOK, Governors
  <2> QED
    BY <1>2, <2>1, <2>2 DEF SetGovernor, TypeOK, States, super
<1>3. CASE InitServer(i)
  <2>1. w' \in [Workers -> States]
    BY <1>0, <1>3, GoTyped DEF InitServer, States
  <2> QED
    BY <1>3, <2>1 DEF InitServer, TypeOK, States, super, tuning
<1>4. CASE StopServing(i)
  <2>1. w' \in [Workers -> States]
    BY <1>0, <1>4, GoTyped DEF StopServing, States
  <2> QED
    BY <1>4, <2>1 DEF StopServing, TypeOK, States, super, tuning
<1>5. CASE Leave(i)
  <2>1. w' \in [Workers -> States]
    BY <1>0, <1>5, GoTyped DEF Leave, States
  <2>2. gov' \in [Cores -> Governors] /\ modified' \in [Workers -> BOOLEAN]
    BY <1>5 DEF Leave, Restored, TypeOK
  <2>3. unwritten' \subseteq Workers
    BY <1>5 DEF Leave, Restored, TypeOK
  <2> QED
    BY <1>5, <2>1, <2>2, <2>3 DEF Leave, TypeOK, States, super
<1> QED
  BY <1>1, <1>2, <1>3, <1>4, <1>5 DEF WorkerStep

LEMMA SignalsTyped ==
    ASSUME TypeOK,
           \/ \E i \in Workers : Crash(i) \/ SignalWorker(i)
           \/ Terminate \/ Interrupt \/ Terminated \/ UNCHANGED vars
    PROVE  TypeOK'
<1>1. ASSUME NEW S, Deliver(S)
      PROVE  pending' \in [Workers -> BOOLEAN] /\ w' = w
  BY <1>1 DEF Deliver
<1>2. ASSUME NEW i \in Workers, Crash(i) PROVE TypeOK'
  BY <1>2 DEF Crash, TypeOK, super, tuning
<1>3. ASSUME NEW i \in Workers, SignalWorker(i) PROVE TypeOK'
  BY <1>1, <1>3 DEF SignalWorker, TypeOK, super, tuning
<1>4. CASE Terminate
  BY <1>4 DEF Terminate, TypeOK, tuning
<1>5. CASE Interrupt
  BY <1>1, <1>5 DEF Interrupt, TypeOK, tuning
<1>6. CASE Terminated \/ UNCHANGED vars
  BY <1>6 DEF Terminated, TypeOK, vars, super, tuning
<1> QED
  BY <1>2, <1>3, <1>4, <1>5, <1>6

LEMMA TypeStep == TypeOK /\ [Next]_vars => TypeOK'
  BY SupervisorTyped, WorkerTyped, SignalsTyped DEF Next

\* Every variable has its type, and active_workers never goes below zero
\* (main.c:387-395).
THEOREM TypesAreCorrect == Spec => []TypeOK
  BY TypeInit, TypeStep, PTL DEF Spec

-------------------------------------------------------------------------------
(***************************************************************************)
(* The supervisor is the last process.  active_workers is what is left to  *)
(* reap of the workers it was to fork, so at zero every one was reaped.    *)
(***************************************************************************)
Reaped == {i \in Workers : w[i] = "reaped"}
Counted == active + Cardinality(Reaped) = NumWorkers
Ended == spc = "exited" => active = 0
NoneReapedYet == spc \in {"fork", "tune"} => Reaped = {}
LastInv == TypeOK /\ Counted /\ Ended /\ NoneReapedYet

LEMMA WorkersFinite ==
    /\ IsFiniteSet(Workers) /\ Cardinality(Workers) = NumWorkers
    /\ \A T \in SUBSET Workers :
          /\ IsFiniteSet(T) /\ Cardinality(T) \in Nat
          /\ Cardinality(T) = NumWorkers => T = Workers
<1>1. IsFiniteSet(Workers) /\ Cardinality(Workers) = NumWorkers
  BY FS_Interval, SupervisorAssumption DEF Workers
<1> QED
  BY <1>1, FS_Subset, FS_CardinalityType

LEMMA LastInit == Init => LastInv
<1> SUFFICES ASSUME Init PROVE LastInv
  OBVIOUS
<1>1. Reaped = {}
  BY DEF Init, Reaped
<1>2. Cardinality(Reaped) = 0
  BY <1>1, FS_EmptySet
<1> QED
  BY <1>1, <1>2, TypeInit, SupervisorAssumption DEF LastInv, Counted, Ended, NoneReapedYet, Init

\* A step that reaps nobody and ends the loop only at zero keeps the count.
LEMMA NobodyReaped ==
    ASSUME LastInv, TypeOK', active' = active,
           \A i \in Workers : w'[i] = "reaped" <=> w[i] = "reaped",
           spc' = "exited" => spc = "exited" \/ active = 0,
           spc' \in {"fork", "tune"} => spc \in {"fork", "tune"}
    PROVE  LastInv'
<1>1. Reaped' = Reaped
  BY DEF Reaped
<1> QED
  BY <1>1 DEF LastInv, Counted, Ended, NoneReapedYet

LEMMA LastSupervisor ==
    ASSUME LastInv, TypeOK', SupervisorStep
    PROVE  LastInv'
<1>0. TypeOK
  BY DEF LastInv
<1>1. CASE Fork
  <2>1. \A i \in Workers : w[i] # "reaped"
    BY <1>1 DEF Fork, LastInv, NoneReapedYet, Reaped
  <2>2. \A i \in Workers : w'[i] # "reaped"
    BY <1>0, <1>1, <2>1 DEF Fork, TypeOK
  <2>3. active' = active /\ spc' \in {"fork", "tune"} /\ spc = "fork"
    BY <1>1 DEF Fork, Advance
  <2> QED
    BY <2>1, <2>2, <2>3, NobodyReaped
<1>2. CASE TuneSqpoll
  <2>1. active' = active /\ w' = w /\ spc' \in {"tune", "wait"} /\ spc = "tune"
    BY <1>2 DEF TuneSqpoll, Advance
  <2> QED
    BY <2>1, NobodyReaped
<1>3. ASSUME NEW i \in Workers, Reap(i) PROVE LastInv'
  <2>1. /\ w' = [w EXCEPT ![i] = "reaped"] /\ active' = active - 1
        /\ spc = "wait" /\ spc' = spc /\ w[i] = "zombie"
    BY <1>3 DEF Reap
  <2>2. Reaped' = Reaped \cup {i} /\ i \notin Reaped
    BY <1>0, <2>1 DEF Reaped, TypeOK
  <2>3. Reaped \subseteq Workers
    BY DEF Reaped
  <2>4. IsFiniteSet(Reaped) /\ Cardinality(Reaped) \in Nat
    BY <2>3, WorkersFinite
  <2>5. Cardinality(Reaped') = Cardinality(Reaped) + 1
    BY <2>2, <2>4, FS_AddElement
  <2>6. Counted'
    BY <1>0, <2>1, <2>4, <2>5, SupervisorAssumption DEF Counted, LastInv, TypeOK
  <2> QED
    BY <2>1, <2>6 DEF LastInv, Ended, NoneReapedYet
<1>4. CASE WaitFails
  BY <1>4, NobodyReaped DEF WaitFails, vars, super
<1>5. CASE Exit
  BY <1>5, NobodyReaped DEF Exit, LoopEnds
<1> QED
  BY <1>1, <1>2, <1>3, <1>4, <1>5 DEF SupervisorStep

LEMMA LastOthers ==
    ASSUME LastInv, TypeOK',
           \/ \E i \in Workers : WorkerStep(i) \/ Crash(i) \/ SignalWorker(i)
           \/ Terminate \/ Interrupt \/ Terminated \/ UNCHANGED vars
    PROVE  LastInv'
<1>0. w \in [Workers -> States]
  BY DEF LastInv, TypeOK, States
<1>1. ASSUME NEW i \in Workers, NEW here, NEW there, Go(i, here, there),
             here # "reaped", there # "reaped"
      PROVE  \A j \in Workers : w'[j] = "reaped" <=> w[j] = "reaped"
  BY <1>0, <1>1 DEF Go
<1>2. ASSUME NEW i \in Workers, WorkerStep(i)
      PROVE  /\ \A j \in Workers : w'[j] = "reaped" <=> w[j] = "reaped"
             /\ UNCHANGED super
  <2>1. CASE SaveGovernor(i)
    BY <1>1, <2>1 DEF SaveGovernor
  <2>2. CASE SetGovernor(i)
    BY <1>1, <2>2 DEF SetGovernor
  <2>3. CASE InitServer(i)
    BY <1>1, <2>3 DEF InitServer
  <2>4. CASE StopServing(i)
    BY <1>1, <2>4 DEF StopServing
  <2>5. CASE Leave(i)
    BY <1>1, <2>5 DEF Leave
  <2> QED
    BY <1>2, <2>1, <2>2, <2>3, <2>4, <2>5 DEF WorkerStep
<1>3. ASSUME NEW i \in Workers, Crash(i)
      PROVE  /\ \A j \in Workers : w'[j] = "reaped" <=> w[j] = "reaped"
             /\ UNCHANGED super
  BY <1>0, <1>3 DEF Crash, Alive
<1>4. ASSUME NEW i \in Workers, SignalWorker(i)
      PROVE  w' = w /\ UNCHANGED super
  BY <1>4 DEF SignalWorker, Deliver
<1>5. CASE Terminate \/ Interrupt
  BY <1>5, NobodyReaped DEF Terminate, Interrupt, Deliver
<1>6. CASE Terminated \/ UNCHANGED vars
  BY <1>6, NobodyReaped DEF Terminated, vars, super
<1> QED
  BY <1>2, <1>3, <1>4, <1>5, <1>6, NobodyReaped DEF super

LEMMA LastStep == LastInv /\ [Next]_vars => LastInv'
<1> SUFFICES ASSUME LastInv, [Next]_vars PROVE LastInv'
  OBVIOUS
<1>1. TypeOK'
  BY TypeStep DEF LastInv
<1> QED
  BY <1>1, LastSupervisor, LastOthers DEF Next

LEMMA LastEnough == LastInv => SupervisorLast
<1> SUFFICES ASSUME LastInv, spc = "exited" PROVE \A i \in Workers : w[i] = "reaped"
  BY DEF SupervisorLast
<1>1. Cardinality(Reaped) = NumWorkers
  <2>1. Cardinality(Reaped) \in Nat
    BY WorkersFinite DEF Reaped
  <2> QED
    BY <2>1 DEF LastInv, Counted, Ended
<1>2. Reaped = Workers
  BY <1>1, WorkersFinite DEF Reaped
<1> QED
  BY <1>2 DEF Reaped

\* The supervisor exits only when every worker it forked has exited and been
\* reaped: indeed, only when all NumWorkers have, which is why a failed fork
\* keeps it waiting (main.c:386-397).
THEOREM SupervisorIsLast == Spec => []SupervisorLast
  BY LastInit, LastStep, LastEnough, PTL DEF Spec

-------------------------------------------------------------------------------
(***************************************************************************)
(* What the supervisor waits for: the workers it never forked are those    *)
(* its loop has not come to and those whose fork failed.                   *)
(***************************************************************************)
NeverForked == {i \in Workers : w[i] = "none"}
NotForkedYet == spc = "fork" => \A i \in Workers : i >= next => w[i] = "none"
ForksCounted ==
    Cardinality(NeverForked) = failures + (IF spc = "fork" THEN NumWorkers - next + 1 ELSE 0)
ForkInv == LastInv /\ NotForkedYet /\ ForksCounted

LEMMA NeverForkedFinite == IsFiniteSet(NeverForked) /\ Cardinality(NeverForked) \in Nat
  BY WorkersFinite DEF NeverForked

LEMMA ForkInit == Init => ForkInv
<1> SUFFICES ASSUME Init PROVE ForkInv
  OBVIOUS
<1>1. NeverForked = Workers /\ spc = "fork" /\ next = 1 /\ failures = 0
  BY DEF Init, NeverForked
<1>2. ForksCounted
  BY <1>1, WorkersFinite, SupervisorAssumption DEF ForksCounted
<1>3. NotForkedYet
  BY DEF Init, NotForkedYet
<1> QED
  BY <1>2, <1>3, LastInit DEF ForkInv

LEMMA ForkKeeps == ASSUME ForkInv, Fork PROVE NotForkedYet' /\ ForksCounted'
<1>1. /\ TypeOK /\ spc = "fork" /\ next \in Workers /\ failures \in Nat /\ NumWorkers \in Nat
      /\ w[next] = "none" /\ NumWorkers > 0
  BY SupervisorAssumption DEF ForkInv, LastInv, TypeOK, Fork, NotForkedYet, Workers
<1>2. /\ next' \in Workers /\ spc' \in {"fork", "tune"}
      /\ spc' = "fork" => next' = next + 1 /\ next < NumWorkers
      /\ spc' = "tune" => next = NumWorkers
  BY <1>1, SupervisorAssumption DEF Fork, Advance, Workers
<1>3. \A i \in Workers : i # next => w'[i] = w[i]
  BY <1>1 DEF Fork, TypeOK
<1>4. NotForkedYet'
  <2> SUFFICES ASSUME spc' = "fork", NEW i \in Workers, i >= next' PROVE w'[i] = "none"
    BY DEF NotForkedYet
  <2>1. i >= next /\ i # next
    BY <1>1, <1>2 DEF Workers
  <2> QED
    BY <1>1, <1>3, <2>1 DEF ForkInv, NotForkedYet
<1>5. PICK n \in Nat : n = Cardinality(NeverForked) /\ n = failures + (NumWorkers - next + 1)
  BY <1>1, NeverForkedFinite DEF ForkInv, ForksCounted
<1>6. ASSUME Cardinality(NeverForked') = failures' + (NumWorkers - next),
             failures' \in Nat
      PROVE  ForksCounted'
  <2>1. CASE spc' = "fork"
    <3>1. NumWorkers - next' + 1 = NumWorkers - next
      BY <1>1, <1>2, <2>1 DEF Workers
    <3> QED
      BY <1>6, <2>1, <3>1 DEF ForksCounted
  <2>2. CASE spc' = "tune"
    <3>1. NumWorkers - next = 0
      BY <1>1, <1>2, <2>2
    <3> QED
      BY <1>6, <2>2, <3>1 DEF ForksCounted
  <2> QED
    BY <1>2, <2>1, <2>2
<1>7. CASE w' = [w EXCEPT ![next] = "started"] /\ failures' = failures
  <2>1. w'[next] = "started"
    BY <1>1, <1>7 DEF TypeOK
  <2>2. NeverForked' = NeverForked \ {next} /\ next \in NeverForked
    BY <1>1, <1>3, <2>1 DEF NeverForked
  <2>3. Cardinality(NeverForked') = n - 1
    BY <1>5, <2>2, NeverForkedFinite, FS_RemoveElement
  <2>4. n - 1 = failures' + (NumWorkers - next) /\ failures' \in Nat
    BY <1>1, <1>5, <1>7 DEF Workers
  <2>5. Cardinality(NeverForked') = failures' + (NumWorkers - next)
    BY <2>3, <2>4, Zenon
  <2> QED
    BY <1>4, <1>6, <2>4, <2>5
<1>8. CASE w' = w /\ failures' = failures + 1
  <2>1. NeverForked' = NeverForked
    BY <1>8 DEF NeverForked
  <2>2. n = failures' + (NumWorkers - next) /\ failures' \in Nat
    BY <1>1, <1>5, <1>8 DEF Workers
  <2>3. Cardinality(NeverForked') = failures' + (NumWorkers - next)
    BY <1>5, <2>1, <2>2, Zenon
  <2> QED
    BY <1>4, <1>6, <2>2, <2>3
<1> QED
  BY <1>4, <1>7, <1>8 DEF Fork

\* Nothing but the loop forks.
LEMMA NobodyForked ==
    ASSUME ForkInv, \A i \in Workers : w'[i] = "none" <=> w[i] = "none",
           failures' = failures, spc' = "fork" => spc = "fork" /\ next' = next,
           spc = "fork" => spc' = "fork"
    PROVE  NotForkedYet' /\ ForksCounted'
<1>1. NeverForked' = NeverForked
  BY DEF NeverForked
<1>2. NotForkedYet'
  BY DEF ForkInv, NotForkedYet
<1>3. spc' = "fork" <=> spc = "fork"
  OBVIOUS
<1>4. (IF spc' = "fork" THEN NumWorkers - next' + 1 ELSE 0)
        = (IF spc = "fork" THEN NumWorkers - next + 1 ELSE 0)
  <2>1. CASE spc = "fork"
    BY <1>3, <2>1
  <2>2. CASE spc # "fork"
    BY <1>3, <2>2
  <2> QED
    BY <2>1, <2>2
<1>5. ForksCounted
  BY DEF ForkInv
<1>6. ForksCounted'
  BY <1>1, <1>4, <1>5 DEF ForksCounted
<1> QED
  BY <1>2, <1>6

LEMMA ForkStep == ForkInv /\ [Next]_vars => ForkInv'
<1> SUFFICES ASSUME ForkInv, [Next]_vars PROVE ForkInv'
  OBVIOUS
<1>0. LastInv' /\ w \in [Workers -> States]
  BY LastStep DEF ForkInv, LastInv, TypeOK, States
<1>1. ASSUME NEW i \in Workers, NEW here, NEW there, Go(i, here, there),
             here # "none", there # "none"
      PROVE  \A j \in Workers : w'[j] = "none" <=> w[j] = "none"
  BY <1>0, <1>1 DEF Go
<1>2. CASE Fork
  BY <1>0, <1>2, ForkKeeps DEF ForkInv
<1>3. CASE TuneSqpoll \/ (\E i \in Workers : Reap(i)) \/ WaitFails \/ Exit
  <2>1. /\ spc # "fork" /\ spc' # "fork" /\ failures' = failures
        /\ \A i \in Workers : w'[i] = "none" <=> w[i] = "none"
    <3>1. CASE TuneSqpoll
      BY <3>1 DEF TuneSqpoll, Advance
    <3>2. ASSUME NEW i \in Workers, Reap(i)
          PROVE  /\ spc = "wait" /\ spc' = spc /\ failures' = failures
                 /\ \A j \in Workers : w'[j] = "none" <=> w[j] = "none"
      BY <1>0, <3>2 DEF Reap
    <3>3. CASE WaitFails \/ Exit
      BY <3>3 DEF WaitFails, Exit, vars, super
    <3> QED
      BY <1>3, <3>1, <3>2, <3>3
  <2> QED
    BY <1>0, <2>1, NobodyForked DEF ForkInv
<1>4. ASSUME NEW i \in Workers, WorkerStep(i) \/ Crash(i) \/ SignalWorker(i)
      PROVE  ForkInv'
  <2>1. UNCHANGED super /\ \A j \in Workers : w'[j] = "none" <=> w[j] = "none"
    <3>1. CASE SaveGovernor(i)
      BY <1>1, <3>1 DEF SaveGovernor
    <3>2. CASE SetGovernor(i)
      BY <1>1, <3>2 DEF SetGovernor
    <3>3. CASE InitServer(i)
      BY <1>1, <3>3 DEF InitServer
    <3>4. CASE StopServing(i)
      BY <1>1, <3>4 DEF StopServing
    <3>5. CASE Leave(i)
      BY <1>1, <3>5 DEF Leave
    <3>6. CASE Crash(i)
      BY <1>0, <3>6 DEF Crash, Alive
    <3>7. CASE SignalWorker(i)
      BY <3>7 DEF SignalWorker, Deliver
    <3> QED
      BY <1>4, <3>1, <3>2, <3>3, <3>4, <3>5, <3>6, <3>7 DEF WorkerStep
  <2> QED
    BY <1>0, <2>1, NobodyForked DEF super, ForkInv
<1>5. CASE Terminate \/ Interrupt \/ Terminated \/ UNCHANGED vars
  <2>1. UNCHANGED <<spc, next, failures, w>>
    BY <1>5 DEF Terminate, Interrupt, Deliver, Terminated, vars, super
  <2> QED
    BY <1>0, <2>1, NobodyForked DEF ForkInv
<1> QED
  BY <1>2, <1>3, <1>4, <1>5 DEF Next, SupervisorStep

LEMMA ForkEnough == ForkInv => WaitIsExact
<1> SUFFICES ASSUME ForkInv PROVE WaitIsExact
  OBVIOUS
<1>a. SupervisorLast
  BY LastEnough DEF ForkInv
<1>b. failures \in Nat
  BY SupervisorAssumption DEF ForkInv, LastInv, TypeOK
<1> SUFFICES ASSUME spc \in {"wait", "exited"}
             PROVE  /\ active = Cardinality(Left) + failures
                    /\ spc = "exited" => failures = 0
  BY <1>a, <1>b DEF WaitIsExact
<1>1. /\ active \in Nat /\ failures \in Nat /\ NumWorkers \in Nat
      /\ active + Cardinality(Reaped) = NumWorkers /\ Cardinality(NeverForked) = failures
      /\ spc = "exited" => active = 0
  BY SupervisorAssumption DEF ForkInv, LastInv, TypeOK, Counted, Ended, ForksCounted
<1>2. /\ Reaped \subseteq Workers /\ NeverForked \subseteq Workers
      /\ Reaped \cap NeverForked = {}
      /\ Left = Workers \ (Reaped \cup NeverForked)
  BY DEF Reaped, NeverForked, Left
<1>3. /\ IsFiniteSet(Workers) /\ IsFiniteSet(Reaped) /\ IsFiniteSet(NeverForked)
      /\ Cardinality(Workers) = NumWorkers
      /\ Cardinality(Reaped) \in Nat /\ Cardinality(Left) \in Nat
  BY <1>2, WorkersFinite
<1>4. Cardinality(Reaped \cup NeverForked)
        = Cardinality(Reaped) + failures
  <2>1. Cardinality(Reaped \cap NeverForked) = 0
    BY <1>2, FS_EmptySet
  <2>2. Cardinality(Reaped \cup NeverForked) =
          Cardinality(Reaped) + Cardinality(NeverForked) - Cardinality(Reaped \cap NeverForked)
    BY <1>3, FS_Union
  <2> QED
    BY <1>1, <1>3, <2>1, <2>2
<1>5. Cardinality(Left) = NumWorkers - Cardinality(Reaped \cup NeverForked)
  <2>1. PICK U : U = Reaped \cup NeverForked
    OBVIOUS
  <2>2. U \subseteq Workers /\ Workers \cap U = U /\ Left = Workers \ U
    BY <1>2, <2>1
  <2>3. Cardinality(Workers \ U) = Cardinality(Workers) - Cardinality(Workers \cap U)
    BY <1>3, FS_Difference
  <2> QED
    BY <1>3, <2>1, <2>2, <2>3
<1> QED
  BY <1>1, <1>3, <1>4, <1>5

\* While the supervisor waits, active_workers counts exactly the workers it has
\* to reap and the forks that failed; so it never waits for nobody unless a fork
\* failed, and then, whatever the number of workers, it never exits (main.c:387-397).
THEOREM SupervisorWaitsExactly == Spec => []WaitIsExact
  BY ForkInit, ForkStep, ForkEnough, PTL DEF Spec

-------------------------------------------------------------------------------
(***************************************************************************)
(* The governors.  A core whose governor is not the original one has a     *)
(* worker that answers for it: one that has changed it and is still there, *)
(* one that crashed or could not write, or one that found it changed.      *)
(***************************************************************************)
Changed(i) == modified[i] /\ w[i] \in {"init", "serving", "leaving"}
Answers(i) == Changed(i) \/ i \in crashed \/ i \in unwritten \/ saved[i] # "original"
Answered == \A c \in Cores : gov[c] # "original" => \E i \in Workers : Core[i] = c /\ Answers(i)
GovInv == ForkInv /\ Answered

LEMMA GovEnough == GovInv => GovernorRestored
  BY DEF GovInv, Answered, Answers, Changed, GovernorRestored, CouldRestore, Gone

LEMMA GovInit == Init => GovInv
<1> SUFFICES ASSUME Init PROVE Answered
  BY ForkInit DEF GovInv
<1> QED
  BY DEF Init, Answered

\* A step in which nobody stops answering, and no governor but that of a worker
\* who answers for it is changed.
LEMMA StillAnswered ==
    ASSUME Answered, \A i \in Workers : Answers(i) => Answers(i)',
           \A c \in Cores : \/ gov'[c] = gov[c]
                            \/ gov'[c] = "original"
                            \/ \E i \in Workers : Core[i] = c /\ Answers(i)'
    PROVE  Answered'
  BY DEF Answered

LEMMA GovSupervisor ==
    ASSUME GovInv, SupervisorStep
    PROVE  Answered'
<1>1. ForkInv /\ TypeOK
  BY DEF GovInv, ForkInv, LastInv
<1>2. UNCHANGED <<saved, modified, gov, unwritten, crashed>>
  BY DEF SupervisorStep, Fork, TuneSqpoll, Reap, WaitFails, Exit, vars, tuning
<1>3. \A i \in Workers : w[i] \in {"init", "serving", "leaving"} => w'[i] = w[i]
  <2>1. CASE Fork
    <3>1. next \in Workers /\ w[next] = "none"
      BY <1>1, <2>1, SupervisorAssumption DEF Fork, TypeOK, ForkInv, NotForkedYet, Workers
    <3> QED
      BY <1>1, <2>1, <3>1 DEF Fork, TypeOK
  <2>2. ASSUME NEW j \in Workers, Reap(j)
        PROVE  \A i \in Workers : w[i] \in {"init", "serving", "leaving"} => w'[i] = w[i]
    BY <1>1, <2>2 DEF Reap, TypeOK
  <2>3. CASE TuneSqpoll \/ WaitFails \/ Exit
    BY <2>3 DEF TuneSqpoll, WaitFails, Exit, vars
  <2> QED
    BY <2>1, <2>2, <2>3 DEF SupervisorStep
<1>4. \A i \in Workers : Answers(i) => Answers(i)'
  BY <1>2, <1>3 DEF Answers, Changed
<1> QED
  BY <1>2, <1>4, StillAnswered DEF GovInv

LEMMA GovWorker ==
    ASSUME GovInv, NEW i \in Workers, WorkerStep(i) \/ Crash(i)
    PROVE  Answered'
<1>0. TypeOK /\ Answered
  BY DEF GovInv, ForkInv, LastInv
<1>1. CASE SaveGovernor(i)
  <2>1. /\ w[i] = "started" /\ UNCHANGED <<modified, gov, unwritten, crashed>>
        /\ \A j \in Workers \ {i} : w'[j] = w[j] /\ saved'[j] = saved[j]
    BY <1>0, <1>1 DEF SaveGovernor, Go, TypeOK
  <2>2. \A j \in Workers \ {i} : Answers(j) => Answers(j)'
    BY <2>1 DEF Answers, Changed
  <2>3. CASE saved' = [saved EXCEPT ![i] = gov[Core[i]]]
    <3>1. saved'[i] = gov[Core[i]]
      BY <1>0, <2>3 DEF TypeOK
    <3>2. ASSUME NEW c \in Cores, gov'[c] # "original"
          PROVE  \E j \in Workers : Core[j] = c /\ Answers(j)'
      <4>1. CASE Core[i] = c
        BY <2>1, <3>1, <3>2, <4>1 DEF Answers
      <4>2. CASE Core[i] # c
        <5>1. PICK j \in Workers : Core[j] = c /\ Answers(j)
          BY <1>0, <2>1, <3>2 DEF Answered
        <5> QED
          BY <2>2, <4>2, <5>1
      <4> QED
        BY <4>1, <4>2
    <3> QED
      BY <3>2 DEF Answered
  <2>4. CASE UNCHANGED saved
    <3>1. Answers(i) => Answers(i)'
      BY <2>1, <2>4 DEF Answers, Changed
    <3> QED
      BY <1>0, <2>1, <2>2, <3>1, StillAnswered
  <2> QED
    BY <1>1, <2>3, <2>4 DEF SaveGovernor
<1>2. CASE SetGovernor(i)
  <2>1. /\ w[i] = "saved" /\ w'[i] = "init" /\ UNCHANGED <<saved, unwritten, crashed>>
        /\ \A j \in Workers \ {i} : w'[j] = w[j] /\ modified'[j] = modified[j]
    BY <1>0, <1>2 DEF SetGovernor, Go, TypeOK
  <2>2. \A j \in Workers : Answers(j) => Answers(j)'
    BY <2>1 DEF Answers, Changed
  <2>3. CASE gov' = [gov EXCEPT ![Core[i]] = "performance"] /\ modified' = [modified EXCEPT ![i] = TRUE]
    <3>1. Answers(i)'
      BY <1>0, <2>1, <2>3 DEF Answers, Changed, TypeOK
    <3>2. \A c \in Cores : gov'[c] = gov[c] \/ Core[i] = c
      BY <1>0, <2>3 DEF TypeOK
    <3> QED
      BY <1>0, <2>2, <3>1, <3>2, StillAnswered
  <2>4. CASE UNCHANGED gov
    BY <1>0, <2>2, <2>4, StillAnswered
  <2> QED
    BY <1>2, <2>3, <2>4 DEF SetGovernor
<1>3. CASE InitServer(i) \/ StopServing(i)
  <2>1. /\ \A j \in Workers : w'[j] = w[j] \/ w'[j] \in {"serving", "leaving"}
        /\ UNCHANGED <<saved, modified, gov, unwritten, crashed>>
    BY <1>0, <1>3 DEF InitServer, StopServing, Go, tuning, TypeOK
  <2>2. \A j \in Workers : Answers(j) => Answers(j)'
    BY <2>1 DEF Answers, Changed
  <2> QED
    BY <1>0, <2>1, <2>2, StillAnswered
<1>4. CASE Leave(i)
  <2>1. /\ UNCHANGED <<saved, crashed>> /\ w[i] = "leaving"
        /\ \A j \in Workers \ {i} : w'[j] = w[j] /\ modified'[j] = modified[j]
        /\ \A j \in Workers : j \in unwritten => j \in unwritten'
    BY <1>0, <1>4 DEF Leave, Restored, Go, TypeOK
  <2>2. \A j \in Workers \ {i} : Answers(j) => Answers(j)'
    BY <2>1 DEF Answers, Changed
  <2>3. CASE i \in unwritten' /\ UNCHANGED gov
    <3>1. Answers(i)'
      BY <2>3 DEF Answers
    <3> QED
      BY <1>0, <2>2, <2>3, <3>1, StillAnswered
  <2>4. CASE ~modified[i] /\ UNCHANGED gov
    <3>1. Answers(i) => Answers(i)'
      BY <2>1, <2>4 DEF Answers, Changed
    <3> QED
      BY <1>0, <2>2, <2>4, <3>1, StillAnswered
  <2>5. CASE modified[i] /\ gov' = [gov EXCEPT ![Core[i]] = saved[i]]
    <3>1. ASSUME NEW c \in Cores, gov'[c] # "original"
          PROVE  \E j \in Workers : Core[j] = c /\ Answers(j)'
      <4>1. CASE Core[i] = c
        <5>1. saved[i] # "original"
          BY <1>0, <2>5, <3>1, <4>1 DEF TypeOK
        <5> QED
          BY <2>1, <4>1, <5>1 DEF Answers
      <4>2. CASE Core[i] # c
        <5>1. gov'[c] = gov[c]
          BY <1>0, <2>5, <4>2 DEF TypeOK
        <5>2. PICK j \in Workers : Core[j] = c /\ Answers(j)
          BY <1>0, <3>1, <5>1 DEF Answered
        <5> QED
          BY <2>2, <4>2, <5>2
      <4> QED
        BY <4>1, <4>2
    <3> QED
      BY <3>1 DEF Answered
  <2> QED
    BY <1>4, <2>3, <2>4, <2>5 DEF Leave, Restored
<1>5. CASE Crash(i)
  <2>1. /\ \A j \in Workers : w'[j] = w[j] \/ j \in crashed'
        /\ \A j \in Workers : j \in crashed => j \in crashed'
        /\ UNCHANGED <<saved, modified, gov, unwritten>>
    BY <1>0, <1>5 DEF Crash, TypeOK, tuning
  <2>2. \A j \in Workers : Answers(j) => Answers(j)'
    BY <2>1 DEF Answers, Changed
  <2> QED
    BY <1>0, <2>1, <2>2, StillAnswered
<1> QED
  BY <1>1, <1>2, <1>3, <1>4, <1>5 DEF WorkerStep

LEMMA GovStep == GovInv /\ [Next]_vars => GovInv'
<1> SUFFICES ASSUME GovInv, [Next]_vars PROVE Answered'
  BY ForkStep DEF GovInv
<1>1. ASSUME UNCHANGED <<w, saved, modified, gov, unwritten, crashed>> PROVE Answered'
  BY <1>1 DEF GovInv, Answered, Answers, Changed
<1>2. ASSUME NEW i \in Workers, SignalWorker(i) PROVE Answered'
  BY <1>1, <1>2 DEF SignalWorker, Deliver, tuning
<1>3. CASE Terminate \/ Interrupt
  BY <1>1, <1>3 DEF Terminate, Interrupt, Deliver, tuning
<1>4. CASE Terminated \/ UNCHANGED vars
  BY <1>1, <1>4 DEF Terminated, vars, tuning
<1> QED
  BY <1>2, <1>3, <1>4, GovSupervisor, GovWorker DEF Next

\* Once the workers of a core are gone, its governor is what it was before, unless
\* one of them crashed, could not write, or found what another one had set;
\* however forks, signals, failures and the workers of a shared core interleave
\* (os_tune.h:26, main.c:199-224).
THEOREM GovernorsAreRestored == Spec => []GovernorRestored
  BY GovInit, GovStep, GovEnough, PTL DEF Spec

-------------------------------------------------------------------------------
(***************************************************************************)
(* A core named once.  Its worker finds the original governor, as nobody   *)
(* else has changed it, so the last exception goes away.                   *)
(***************************************************************************)
CoresApart ==
    \A i, j \in Workers : Core[i] = Core[j] /\ Core[i] # NoCore => i = j

\* Once the workers of a core are gone, and none of them crashed or could not
\* write, its governor is what it was before (os_tune.h:26, "Restores the scaling
\* governor for a specific CPU to its original value").
SharedRestored ==
    \A c \in Cores :
        (\A i \in Workers : Core[i] = c => CouldRestore(i)) => gov[c] = "original"

FindsOriginal(i) ==
    /\ saved[i] = "original"
    /\ Core[i] # NoCore /\ w[i] \in {"none", "started"} => gov[Core[i]] = "original"
ApartInv == GovInv /\ \A i \in Workers : FindsOriginal(i)

LEMMA ApartEnough == ApartInv => SharedRestored
  BY GovEnough DEF ApartInv, FindsOriginal, GovernorRestored, SharedRestored

LEMMA ApartInit == Init => ApartInv
<1> SUFFICES ASSUME Init, NEW i \in Workers PROVE FindsOriginal(i)
  BY GovInit DEF ApartInv
<1> QED
  BY SupervisorAssumption DEF Init, FindsOriginal

\* The step of a worker that changes no governor but that of its own core.
LEMMA OthersFind ==
    ASSUME CoresApart, ApartInv, NEW i \in Workers, FindsOriginal(i)',
           \A j \in Workers \ {i} : w'[j] = w[j] /\ saved'[j] = saved[j],
           \A c \in Cores : c # Core[i] => gov'[c] = gov[c]
    PROVE  \A j \in Workers : FindsOriginal(j)'
<1>1. ASSUME NEW j \in Workers, j # i PROVE FindsOriginal(j)'
  <2>1. FindsOriginal(j) /\ w'[j] = w[j] /\ saved'[j] = saved[j]
    BY <1>1 DEF ApartInv
  <2>2. Core[j] # NoCore => gov'[Core[j]] = gov[Core[j]]
    BY <1>1, SupervisorAssumption DEF CoresApart
  <2> QED
    BY <2>1, <2>2 DEF FindsOriginal
<1> QED
  BY <1>1

LEMMA ApartWorker ==
    ASSUME CoresApart, ApartInv, NEW i \in Workers, WorkerStep(i) \/ Crash(i)
    PROVE  \A j \in Workers : FindsOriginal(j)'
<1>0. TypeOK /\ FindsOriginal(i) /\ Core[i] \in Cores \cup {NoCore}
  BY SupervisorAssumption DEF ApartInv, GovInv, ForkInv, LastInv
<1>1. \A j \in Workers \ {i} : w'[j] = w[j] /\ saved'[j] = saved[j]
  <2>1. \A j \in Workers \ {i} : w'[j] = w[j]
    BY <1>0 DEF WorkerStep, SaveGovernor, SetGovernor, InitServer, StopServing, Leave, Crash,
                Go, TypeOK
  <2>2. \A j \in Workers \ {i} : saved'[j] = saved[j]
    BY <1>0 DEF WorkerStep, SaveGovernor, SetGovernor, InitServer, StopServing, Leave, Crash,
                tuning, TypeOK
  <2> QED
    BY <2>1, <2>2
<1>2. \A c \in Cores : c # Core[i] => gov'[c] = gov[c]
  BY <1>0 DEF WorkerStep, SaveGovernor, SetGovernor, InitServer, StopServing, Leave, Restored,
              Crash, tuning, TypeOK
<1>3. w'[i] \notin {"none", "started"}
  BY <1>0 DEF WorkerStep, SaveGovernor, SetGovernor, InitServer, StopServing, Leave, Crash,
              Go, TypeOK
<1>4. saved'[i] = "original"
  <2>1. CASE SaveGovernor(i)
    <3>1. w[i] = "started"
      BY <2>1 DEF SaveGovernor, Go
    <3>2. \/ saved' = saved
          \/ Core[i] # NoCore /\ saved' = [saved EXCEPT ![i] = gov[Core[i]]]
      BY <2>1 DEF SaveGovernor
    <3> QED
      BY <1>0, <3>1, <3>2 DEF FindsOriginal, TypeOK
  <2>2. CASE SetGovernor(i) \/ InitServer(i) \/ StopServing(i) \/ Leave(i) \/ Crash(i)
    BY <1>0, <2>2 DEF SetGovernor, InitServer, StopServing, Leave, Crash, tuning, FindsOriginal
  <2> QED
    BY <2>1, <2>2 DEF WorkerStep
<1>5. FindsOriginal(i)'
  BY <1>3, <1>4 DEF FindsOriginal
<1> QED
  BY <1>1, <1>2, <1>5, OthersFind

LEMMA ApartStep == CoresApart /\ ApartInv /\ [Next]_vars => ApartInv'
<1> SUFFICES ASSUME CoresApart, ApartInv, [Next]_vars
             PROVE  \A i \in Workers : FindsOriginal(i)'
  BY GovStep DEF ApartInv
<1>0. ForkInv /\ TypeOK
  BY DEF ApartInv, GovInv, ForkInv, LastInv
<1>1. ASSUME UNCHANGED <<saved, gov>>,
             \A i \in Workers : w'[i] \in {"none", "started"} => w[i] \in {"none", "started"}
      PROVE  \A i \in Workers : FindsOriginal(i)'
  BY <1>1 DEF ApartInv, FindsOriginal
<1>2. CASE SupervisorStep
  <2>1. UNCHANGED <<saved, gov>>
    BY <1>2 DEF SupervisorStep, Fork, TuneSqpoll, Reap, WaitFails, Exit, vars, tuning
  <2>2. CASE Fork
    <3>1. next \in Workers /\ w[next] = "none"
      BY <1>0, <2>2, SupervisorAssumption DEF Fork, TypeOK, ForkInv, NotForkedYet, Workers
    <3> QED
      BY <1>0, <1>1, <2>1, <2>2, <3>1 DEF Fork, TypeOK
  <2>3. ASSUME NEW i \in Workers, Reap(i) PROVE \A j \in Workers : FindsOriginal(j)'
    BY <1>0, <1>1, <2>1, <2>3 DEF Reap, TypeOK
  <2>4. CASE TuneSqpoll \/ WaitFails \/ Exit
    BY <1>1, <2>1, <2>4 DEF TuneSqpoll, WaitFails, Exit, vars
  <2> QED
    BY <1>2, <2>2, <2>3, <2>4 DEF SupervisorStep
<1>3. ASSUME NEW i \in Workers, SignalWorker(i) PROVE \A j \in Workers : FindsOriginal(j)'
  BY <1>1, <1>3 DEF SignalWorker, Deliver, tuning
<1>4. CASE Terminate \/ Interrupt \/ Terminated \/ UNCHANGED vars
  BY <1>1, <1>4 DEF Terminate, Interrupt, Deliver, Terminated, vars, tuning
<1> QED
  BY <1>2, <1>3, <1>4, ApartWorker DEF Next

\* If the core mask names no core twice, only a crash or a write that fails can
\* leave a core with another governor: what os_tune.h:26 promises goes wrong
\* besides only by sharing (main.c:96-154, os_tune.c:76).
THEOREM ApartAreRestored == CoresApart => (Spec => []SharedRestored)
<1> SUFFICES ASSUME CoresApart PROVE Spec => []SharedRestored
  OBVIOUS
<1>1. ApartInv /\ [Next]_vars => ApartInv'
  BY ApartStep
<1> QED
  BY <1>1, ApartInit, ApartEnough, PTL DEF Spec

===============================================================================

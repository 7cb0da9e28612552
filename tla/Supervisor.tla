------------------------------ MODULE Supervisor -------------------------------
(***************************************************************************)
(* The process tree of MachAudio (src/src/main.c) and the CPU governors    *)
(* its workers change (src/src/util/os_tune.c).                            *)
(*                                                                         *)
(* The supervisor blocks SIGINT and SIGTERM, forks one worker per core of  *)
(* the mask, tunes each worker's SQPOLL thread, and waits for all workers  *)
(* to exit.  A worker tunes the governor of its core, serves until it      *)
(* reads a signal from its signalfd, and puts the governor back.  Workers  *)
(* and supervisor run concurrently; a fork may fail and a worker crash.    *)
(***************************************************************************)
EXTENDS Naturals, FiniteSets

CONSTANTS
    NumWorkers,        \* num_workers: entries of the core mask
    Cores,             \* cores whose governor workers may change
    NoCore,            \* "none" in the core mask
    Core,              \* the core of each worker
    MaxForkFailures,   \* bound: forks that fail
    MaxCrashes         \* bound: workers that die on their own

Workers == 1..NumWorkers

ASSUME SupervisorAssumption ==
    /\ NumWorkers \in Nat \ {0} /\ NoCore \notin Cores
    /\ Core \in [Workers -> Cores \cup {NoCore}]
    /\ MaxForkFailures \in Nat /\ MaxCrashes \in Nat

VARIABLES
    spc,       \* where the supervisor is in main
    next,      \* loop index of its fork and tune loops
    active,    \* active_workers
    failures,  \* forks that failed
    asked,     \* a SIGTERM or SIGINT is pending at the supervisor
    w,         \* where each worker is in run_worker
    pending,   \* a SIGTERM or SIGINT is pending at the worker
    saved,     \* each worker's g_original_governors entry for its core
    modified,  \* each worker's g_governor_modified entry
    gov,       \* the governor of each core
    crashed,   \* history: workers that died on their own
    unwritten  \* history: workers whose restoring of the governor failed

super == <<spc, next, active, failures, asked>>
tuning == <<saved, modified, gov, unwritten>>
vars == <<super, w, pending, tuning, crashed>>

Governors == {"original", "performance"}
Alive == {i \in Workers : w[i] \in {"started", "saved", "init", "serving", "leaving"}}

Init ==
    /\ spc = "fork" /\ next = 1 /\ active = NumWorkers /\ failures = 0 /\ asked = FALSE
    /\ w = [i \in Workers |-> "none"] /\ pending = [i \in Workers |-> FALSE]
    /\ saved = [i \in Workers |-> "original"] /\ modified = [i \in Workers |-> FALSE]
    /\ gov = [c \in Cores |-> "original"] /\ crashed = {} /\ unwritten = {}

-------------------------------------------------------------------------------
(***************************************************************************)
(* The supervisor.                                                         *)
(***************************************************************************)

\* The step of a loop over the workers, and the phase behind it.
Advance(after) ==
    IF next < NumWorkers THEN next' = next + 1 /\ UNCHANGED spc
                         ELSE next' = 1 /\ spc' = after

Fork ==
    /\ spc = "fork" /\ Advance("tune")
    /\ \/ /\ w' = [w EXCEPT ![next] = "started"]
          /\ UNCHANGED failures
       \/ /\ failures < MaxForkFailures
          /\ failures' = failures + 1
          /\ UNCHANGED w
    /\ UNCHANGED <<active, asked, pending, tuning, crashed>>

\* tune_sqpoll_thread: up to ten looks at the worker's threads; what it finds
\* and sets does not matter here.
TuneSqpoll ==
    /\ spc = "tune" /\ Advance("wait")
    /\ UNCHANGED <<active, failures, asked, w, pending, tuning, crashed>>

\* wait() returns an exited worker.
LoopEndsEarly == active <= 1                        \* mutant: off by one
LoopNeverEnds == FALSE                              \* mutant: active not counted
LoopEnds == active = 0
ReapUncounted(i) ==                                 \* mutant: a crash is not counted
    /\ spc = "wait" /\ ~LoopEnds /\ w[i] = "zombie"
    /\ w' = [w EXCEPT ![i] = "reaped"]
    /\ active' = IF i \in crashed THEN active ELSE active - 1
    /\ UNCHANGED <<spc, next, failures, asked, pending, tuning, crashed>>
Reap(i) ==
    /\ spc = "wait" /\ ~LoopEnds /\ w[i] = "zombie"
    /\ w' = [w EXCEPT ![i] = "reaped"]
    /\ active' = active - 1
    /\ UNCHANGED <<spc, next, failures, asked, pending, tuning, crashed>>

\* With no child left, wait() fails, and the loop calls it again.
WaitFails ==
    /\ spc = "wait" /\ ~LoopEnds
    /\ \A i \in Workers : w[i] \in {"none", "reaped"}
    /\ UNCHANGED vars

Exit ==
    /\ spc = "wait" /\ LoopEnds
    /\ spc' = "exited"
    /\ UNCHANGED <<next, active, failures, asked, w, pending, tuning, crashed>>

-------------------------------------------------------------------------------
(***************************************************************************)
(* A worker.                                                               *)
(***************************************************************************)
Go(i, here, there) == w[i] = here /\ w' = [w EXCEPT ![i] = there]

\* os_tune_cpu_governor, reading: nothing to do for "none", or no permission.
SaveGovernor(i) ==
    /\ \/ /\ Core[i] # NoCore /\ Go(i, "started", "saved")
          /\ saved' = [saved EXCEPT ![i] = gov[Core[i]]]
       \/ Go(i, "started", "init") /\ UNCHANGED saved
    /\ UNCHANGED <<super, pending, modified, gov, unwritten, crashed>>

\* os_tune_cpu_governor, writing: fopen or fprintf may fail, and then the flag is
\* not set; fclose, which is the first to write, may fail unnoticed.
SetGovernor(i) ==
    /\ Go(i, "saved", "init")
    /\ \/ /\ gov' = [gov EXCEPT ![Core[i]] = "performance"]
          /\ modified' = [modified EXCEPT ![i] = TRUE]
       \/ /\ modified' \in {modified, [modified EXCEPT ![i] = TRUE]}
          /\ UNCHANGED gov
    /\ UNCHANGED <<super, pending, saved, unwritten, crashed>>

\* mach_server_init: succeeds, or the worker leaves at once.
InitServer(i) ==
    /\ Go(i, "init", "serving") \/ Go(i, "init", "leaving")
    /\ UNCHANGED <<super, pending, tuning, crashed>>

\* mach_server_start returns once the signal has been read.
StopDeaf(i) == FALSE                                \* mutant: signal never read
StopDue(i) == pending[i]
StopServing(i) ==
    /\ StopDue(i) /\ Go(i, "serving", "leaving")
    /\ UNCHANGED <<super, pending, tuning, crashed>>

\* os_restore_cpu_governor: its fopen, fprintf or fclose may fail, like those of
\* os_tune_cpu_governor, and run_worker does not look at the result.
Restored(i) ==
    \/ /\ gov' = IF modified[i] THEN [gov EXCEPT ![Core[i]] = saved[i]] ELSE gov
       /\ modified' = [modified EXCEPT ![i] = FALSE]
       /\ UNCHANGED unwritten
    \/ /\ modified[i]
       /\ modified' \in {modified, [modified EXCEPT ![i] = FALSE]}
       /\ unwritten' = unwritten \cup {i}
       /\ UNCHANGED gov
Leave(i) ==
    /\ Go(i, "leaving", "zombie")
    /\ Restored(i)
    /\ UNCHANGED <<super, pending, saved, crashed>>

\* The worker is killed by something else than SIGINT or SIGTERM.
Crash(i) ==
    /\ i \in Alive /\ Cardinality(crashed) < MaxCrashes
    /\ crashed' = crashed \cup {i}
    /\ w' = [w EXCEPT ![i] = "zombie"]
    /\ UNCHANGED <<super, pending, tuning>>

-------------------------------------------------------------------------------
(***************************************************************************)
(* Signals.  All processes have them blocked: the supervisor since before  *)
(* the first fork, a worker by inheritance.                                *)
(***************************************************************************)
DeliverUnblocked(S) ==                              \* mutant: blocked in mach_server_init
    /\ pending' = [i \in Workers |-> pending[i] \/ (i \in S \cap Alive)]
    /\ w' = [i \in Workers |-> IF i \in S /\ w[i] \in {"started", "saved", "init"}
                               THEN "zombie" ELSE w[i]]
Deliver(S) ==
    /\ pending' = [i \in Workers |-> pending[i] \/ (i \in S \cap Alive)]
    /\ UNCHANGED w

\* An orchestrator terminates the container: SIGTERM to the supervisor alone.
Terminate ==
    /\ spc # "exited" /\ asked' = TRUE
    /\ UNCHANGED <<spc, next, active, failures, w, pending, tuning, crashed>>

\* Ctrl-C at the terminal: SIGINT to every process there is.
Interrupt ==
    /\ spc # "exited" /\ asked' = TRUE
    /\ Deliver(Workers)
    /\ UNCHANGED <<spc, next, active, failures, tuning, crashed>>

\* A signal sent to one worker.
SignalWorker(i) ==
    /\ i \in Alive /\ Deliver({i})
    /\ UNCHANGED <<super, tuning, crashed>>

Terminated == spc = "exited" /\ UNCHANGED vars

WorkerStep(i) == \/ SaveGovernor(i) \/ SetGovernor(i) \/ InitServer(i)
                 \/ StopServing(i) \/ Leave(i)
SupervisorStep == Fork \/ TuneSqpoll \/ (\E i \in Workers : Reap(i)) \/ WaitFails \/ Exit

Next ==
    \/ SupervisorStep
    \/ \E i \in Workers : WorkerStep(i) \/ Crash(i) \/ SignalWorker(i)
    \/ Terminate \/ Interrupt
    \/ Terminated

Spec == Init /\ [][Next]_vars

\* Every process is scheduled, and the supervisor reaps every zombie.
FairSpec ==
    /\ Spec
    /\ WF_vars(SupervisorStep)
    /\ \A i \in Workers : WF_vars(WorkerStep(i)) /\ WF_vars(Reap(i))

-------------------------------------------------------------------------------
\* Every variable has its type; active_workers never goes below zero
\* (main.c:387-395).
TypeOK ==
    /\ spc \in {"fork", "tune", "wait", "exited"} /\ next \in Workers
    /\ active \in Nat /\ failures \in 0..MaxForkFailures /\ asked \in BOOLEAN
    /\ w \in [Workers -> {"none", "started", "saved", "init", "serving", "leaving",
                          "zombie", "reaped"}]
    /\ pending \in [Workers -> BOOLEAN]
    /\ saved \in [Workers -> Governors] /\ modified \in [Workers -> BOOLEAN]
    /\ gov \in [Cores -> Governors] /\ crashed \subseteq Workers
    /\ unwritten \subseteq Workers

\* The supervisor is the last process of the tree: it exits only when every
\* worker it forked has exited and been reaped (main.c:386-397).
SupervisorLast == spc = "exited" => \A i \in Workers : w[i] \in {"none", "reaped"}

\* While it waits, active_workers is the number of workers forked and not reaped,
\* and of forks that failed (main.c:376-378, 387-394): wait() is called for
\* nobody only after a failed fork, and then the supervisor never exits.  When it
\* exits, it is the last.
Left == {i \in Workers : w[i] \notin {"none", "reaped"}}
WaitIsExact ==
    /\ SupervisorLast
    /\ spc \in {"wait", "exited"} => active = Cardinality(Left) + failures
    /\ failures > 0 => spc # "exited"

\* Once the workers of a core are gone, its governor is what it was before,
\* whenever they were signalled and whoever else they shared it with, unless one
\* of them crashed, could not write, or found what another one had set
\* (os_tune.h:26, main.c:199-224).
Gone(i) == w[i] \in {"none", "zombie", "reaped"}
CouldRestore(i) == Gone(i) /\ i \notin crashed /\ i \notin unwritten
GovernorRestored ==
    \A c \in Cores :
        (\A i \in Workers : Core[i] = c => CouldRestore(i) /\ saved[i] = "original")
            => gov[c] = "original"

\* A worker that is signalled, at any moment of its life, is gone and reaped
\* in the end: a signal that comes before its signalfd exists stays pending.
SignalledIsReaped == \A i \in Workers : pending[i] ~> w[i] = "reaped"

\* When all workers are gone, the supervisor exits (main.c:397, "All workers
\* finished. Supervisor exiting.").  VIOLATED when a fork failed: wait() fails
\* for ever, as active_workers started at num_workers.
AllGoneIsDone == (spc = "wait" /\ \A i \in Workers : Gone(i)) ~> spc = "exited"

\* It does when every fork succeeded, however the workers ended: each one is
\* reaped once and counted once (main.c:387-395).
AllForkedIsDone ==
    (failures = 0 /\ spc = "wait" /\ \A i \in Workers : Gone(i)) ~> spc = "exited"
===============================================================================

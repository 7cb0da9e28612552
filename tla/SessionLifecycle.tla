--------------------------- MODULE SessionLifecycle ---------------------------
(***************************************************************************)
(* What a worker promises about one connection after another at the same   *)
(* session address, without rings, buffers, or descriptors.                *)
(*                                                                         *)
(*   free       the memory is not allocated                                *)
(*   open       the client is served; replies may be queued                *)
(*   draining   the client is given up; queued replies are still going out *)
(*   lingering  the descriptor is closed; the last read is awaited         *)
(*                                                                         *)
(* "owed" counts the replies queued and not yet finished.                  *)
(***************************************************************************)
EXTENDS Naturals

CONSTANT Sessions
VARIABLES phase, owed
vars == <<phase, owed>>

Init == phase = [s \in Sessions |-> "free"] /\ owed = [s \in Sessions |-> 0]

\* A session without replies to deliver may close its descriptor, and be freed.
GiveUpFrom(n) == IF n = 0 THEN {"draining", "lingering", "free"} ELSE {"draining"}

Open(s) ==
    /\ phase[s] = "free"
    /\ phase' = [phase EXCEPT ![s] = "open"]
    /\ UNCHANGED owed

Queue(s) ==
    /\ phase[s] = "open"
    /\ owed' = [owed EXCEPT ![s] = @ + 1]
    /\ UNCHANGED phase

\* A reply is delivered, or its failure gives the client up.
Deliver(s) ==
    /\ phase[s] \in {"open", "draining"} /\ owed[s] > 0
    /\ owed' = [owed EXCEPT ![s] = @ - 1]
    /\ \/ phase[s] = "open" /\ UNCHANGED phase
       \/ \E p \in GiveUpFrom(owed[s] - 1) : phase' = [phase EXCEPT ![s] = p]

GiveUp(s) ==
    /\ phase[s] \in {"open", "draining"}
    /\ \E p \in GiveUpFrom(owed[s]) : phase' = [phase EXCEPT ![s] = p]
    /\ UNCHANGED owed

Free(s) ==
    /\ phase[s] = "lingering"
    /\ phase' = [phase EXCEPT ![s] = "free"]
    /\ UNCHANGED owed

Next == \E s \in Sessions : Open(s) \/ Queue(s) \/ Deliver(s) \/ GiveUp(s) \/ Free(s)
Spec == Init /\ [][Next]_vars
===============================================================================

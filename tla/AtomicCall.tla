----------------------------- MODULE AtomicCall -----------------------------
(***************************************************************************)
(* What the handlers rely on when they call src/src/shared/db.js: the call *)
(* takes effect as a whole or not at all; if it returns it did; if it      *)
(* throws it did not, unless replies can be lost.  The other modules use a *)
(* database call in this form.                                             *)
(***************************************************************************)
CONSTANT Containers   \* Lambda execution environments, one call at a time

VARIABLES
    lossy,    \* whether a commit may take effect and still report an error
    phase,    \* "none", "running", "ok" or "error", of the latest call
    effect    \* "none" or "all", what is durable of the latest call

vars == <<lossy, phase, effect>>

Init ==
    /\ lossy \in BOOLEAN
    /\ phase = [c \in Containers |-> "none"]
    /\ effect = [c \in Containers |-> "none"]

Start(c) ==
    /\ phase[c] # "running"
    /\ phase' = [phase EXCEPT ![c] = "running"]
    /\ effect' = [effect EXCEPT ![c] = "none"]
    /\ UNCHANGED lossy

Apply(c) ==
    /\ phase[c] = "running" /\ effect[c] = "none"
    /\ effect' = [effect EXCEPT ![c] = "all"]
    /\ UNCHANGED <<lossy, phase>>

Return(c) ==
    /\ phase[c] = "running" /\ effect[c] = "all"
    /\ phase' = [phase EXCEPT ![c] = "ok"]
    /\ UNCHANGED <<lossy, effect>>

Throw(c) ==
    /\ phase[c] = "running" /\ (effect[c] = "none" \/ lossy)
    /\ phase' = [phase EXCEPT ![c] = "error"]
    /\ UNCHANGED <<lossy, effect>>

\* A single statement takes effect and is answered in one step.
ApplyAndReturn(c) ==
    /\ phase[c] = "running" /\ effect[c] = "none"
    /\ effect' = [effect EXCEPT ![c] = "all"]
    /\ \/ phase' = [phase EXCEPT ![c] = "ok"]
       \/ lossy /\ phase' = [phase EXCEPT ![c] = "error"]
    /\ UNCHANGED lossy

\* The execution environment is gone, and nobody hears of the outcome.
Die(c) ==
    /\ phase' = [phase EXCEPT ![c] = "none"]
    /\ UNCHANGED <<lossy, effect>>

Next ==
    \E c \in Containers :
        Start(c) \/ Apply(c) \/ Return(c) \/ Throw(c) \/ ApplyAndReturn(c) \/ Die(c)

Spec == Init /\ [][Next]_vars
=============================================================================

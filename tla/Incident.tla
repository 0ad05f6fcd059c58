------------------------------ MODULE Incident ------------------------------
(***************************************************************************)
(* What one incident promises, whichever program drives it: an agent acts  *)
(* on a live world a bounded number of times, a verdict is given at most   *)
(* once, on the live world, over every call the agent made, and the world  *)
(* is destroyed only after it was judged.  Episode (a native episode) and  *)
(* OnCall (a rollout of the verifiers environment) implement this.         *)
(***************************************************************************)
EXTENDS Integers

CONSTANTS
    MaxSteps,          \* the step budget the agent is told about
    Offline            \* an abandoned world may be judged after it was closed

VARIABLES
    acts,              \* tool calls that have reached the world
    judged,            \* how many of them the verdict looked at
    failed,            \* the harness broke down and cut the session short
    world              \* "live", "closed" (services stopped) or "destroyed"

vars == <<acts, judged, failed, world>>

Unjudged == -1

Init ==
    /\ acts = 0
    /\ judged = Unjudged
    /\ failed = FALSE
    /\ world = "live"

\* The agent acts, within its budget and before the verdict.
Act ==
    /\ world = "live" /\ judged = Unjudged /\ ~failed
    /\ acts < MaxSteps
    /\ acts' = acts + 1
    /\ failed' \in BOOLEAN
    /\ UNCHANGED <<judged, world>>

\* The harness breaks down, and may take the runtime with it; nobody acts
\* after that.
Break ==
    /\ world = "live" /\ judged = Unjudged /\ ~failed
    /\ failed' = TRUE
    /\ world' \in {"live", "closed"}
    /\ UNCHANGED <<acts, judged>>

\* The verdict covers every call; only the very call on which the harness
\* broke down may be missing from it.
Judge ==
    /\ world = "live" \/ (Offline /\ world = "closed")
    /\ judged = Unjudged
    /\ judged' \in {acts} \cup (IF failed THEN {acts - 1} ELSE {})
    /\ judged' >= 0
    /\ UNCHANGED <<acts, failed, world>>

\* Services stop: after the verdict, or because the session is abandoned.
Close ==
    /\ world = "live"
    /\ world' = "closed"
    /\ UNCHANGED <<acts, judged, failed>>

\* A world nobody acted on needs no verdict.
Destroy ==
    /\ world = "closed"
    /\ judged # Unjudged \/ acts = 0
    /\ world' = "destroyed"
    /\ UNCHANGED <<acts, judged, failed>>

Next == Act \/ Break \/ Judge \/ Close \/ Destroy

Spec == Init /\ [][Next]_vars
=============================================================================

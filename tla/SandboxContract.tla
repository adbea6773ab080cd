--------------------------- MODULE SandboxContract ---------------------------
(***************************************************************************)
(* What a sandbox promises, without saying how: it is created once, runs   *)
(* executions only while it is live, is destroyed once, by somebody or by  *)
(* its lifetime, and then gives its resources back one by one.             *)
(***************************************************************************)
EXTENDS FiniteSets

CONSTANTS Threads, Resources

VARIABLES
    state,     \* "absent", "live" or "gone"
    running,   \* threads with an execution in the backend
    left,      \* resources not yet given back
    told       \* observers know that it is destroyed

vars == <<state, running, left, told>>

Init == state = "absent" /\ running = {} /\ left = {} /\ told = FALSE

Create ==
    /\ state = "absent"
    /\ state' = "live"
    /\ left' \in SUBSET Resources
    /\ UNCHANGED <<running, told>>

Begin(t) ==
    /\ state = "live"
    /\ running' = running \cup {t}
    /\ UNCHANGED <<state, left, told>>

End(t) ==
    /\ running' = running \ {t}
    /\ UNCHANGED <<state, left, told>>

\* By a call, by the lifetime, or by an execution that overran: that execution
\* ends with the sandbox.
Destroy ==
    /\ state = "live"
    /\ state' = "gone"
    /\ running' \in {running} \cup {running \ {t} : t \in Threads}
    /\ UNCHANGED <<left, told>>

GiveBack ==
    /\ state = "gone"
    /\ left' \in SUBSET left /\ left' # left
    /\ UNCHANGED <<state, running, told>>

Tell ==
    /\ state = "gone" /\ ~told
    /\ told' = TRUE
    /\ UNCHANGED <<state, running, left>>

Next == Create \/ Destroy \/ GiveBack \/ Tell \/ \E t \in Threads : Begin(t) \/ End(t)

\* A live sandbox does not stay live, and a destroyed one gives everything back.
Spec == Init /\ [][Next]_vars /\ WF_vars(Destroy) /\ WF_vars(GiveBack)

-----------------------------------------------------------------------------
(* What follows for whoever uses a backend that keeps the contract.        *)

\* Observers are told of the destruction of a sandbox that is destroyed, and
\* before a sandbox exists there is nothing of it.
ToldTheTruth ==
    /\ told => state = "gone"
    /\ state = "absent" => running = {} /\ left = {}

\* Destroyed is for good: no execution reaches the backend any more, nothing
\* comes back, and what was announced stays announced.
NoReturn ==
    state = "gone" => /\ state' = "gone"
                      /\ running' \subseteq running
                      /\ left' \subseteq left
                      /\ told => told'

GoneForGood == [][NoReturn]_vars

\* What a sandbox holds is decided when it is handed out: work starts in a live
\* sandbox only, and nothing is added to what there is to give back.
OnlyLive ==
    /\ running' \subseteq running \/ state = "live"
    /\ left' \subseteq left \/ state = "absent"

WorkOnlyLive == [][OnlyLive]_vars
=============================================================================

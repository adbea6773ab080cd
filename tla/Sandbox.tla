------------------------------- MODULE Sandbox -------------------------------
(***************************************************************************)
(* The facade agentnest/sandbox.py over the DockerRuntime it owns: the     *)
(* `destroyed` flag and its lock, the lifetime timer, the deadline check   *)
(* every execution makes, and the events observers see.  A facade call     *)
(* runs on a thread of DockerRuntime; frame[t] is the facade's part of     *)
(* that thread's stack and pc[t] the backend's part.                       *)
(***************************************************************************)
EXTENDS DockerRuntime

CONSTANT Timer      \* the daemon thread of threading.Timer

ASSUME SandboxAssumption == Timer \in Threads

VARIABLES
    destroyed,   \* Sandbox._destroyed
    timer,       \* Sandbox._timer: "unset", "armed", "cancelled" or "fired"
    expired,     \* time.monotonic() has passed Sandbox._deadline
    frame,       \* where each thread is in sandbox.py
    created,     \* the CREATED event has been emitted
    announced    \* number of DESTROYED events emitted

facadeVars == <<destroyed, timer, expired, frame, created, announced>>
vars == <<runtimeVars, facadeVars>>

Frames == {"none", "ctor", "constructed", "checked_exec", "checked_write", "backend",
           "destroy_call", "flagged", "destroying"}

SandboxTypeOK ==
    /\ TypeOK
    /\ destroyed \in BOOLEAN
    /\ timer \in {"unset", "armed", "cancelled", "fired"}
    /\ expired \in BOOLEAN
    /\ frame \in [Threads -> Frames]
    /\ created \in BOOLEAN
    /\ announced \in Nat

Init ==
    /\ RuntimeInit
    /\ destroyed = FALSE
    /\ timer = "unset"
    /\ expired = FALSE
    /\ frame = [t \in Threads |-> "none"]
    /\ created = FALSE
    /\ announced = 0

-----------------------------------------------------------------------------
Enter(t, from, to) == frame[t] = from /\ frame' = [frame EXCEPT ![t] = to]

\* The backend call of thread t is over and its frame in sandbox.py resumes.
Resume(t) == Return(t)

\* Sandbox.__init__, or fork and _adopt, up to the backend's create or fork.
Construct(t) ==
    /\ t # Timer
    /\ Enter(t, "none", "ctor")
    /\ Prepare(t)
    /\ UNCHANGED <<destroyed, timer, expired, created, announced>>

\* The deadline is set and the timer started only after the backend is up; a
\* constructor that raises leaves no Sandbox behind.
Publish(t) ==
    /\ Enter(t, "ctor", IF outcome[t] = "ok" THEN "constructed" ELSE "none")
    /\ Resume(t)
    /\ timer' = IF outcome[t] = "ok" THEN "armed" ELSE timer
    /\ UNCHANGED <<destroyed, expired, created, announced>>

\* The last statement of the constructor; the timer is already running.
EmitCreated(t) ==
    /\ Enter(t, "constructed", "none")
    /\ created' = TRUE
    /\ UNCHANGED <<runtimeVars, destroyed, timer, expired, announced>>

-----------------------------------------------------------------------------
(* Executions and file writes.                                             *)

\* A caller has the Sandbox from its constructor.  _ensure_active, under the lock:
\* a destroyed sandbox raises.
Active == created /\ ~destroyed

\* exec_python, exec, exec_shell and stream_shell, up to the approval hook.
CallExec(t) ==
    /\ "exec" \in Calls /\ t # Timer /\ Active
    /\ Enter(t, "none", "checked_exec")
    /\ UNCHANGED <<runtimeVars, destroyed, timer, expired, created, announced>>

CallWrite(t) ==
    /\ "write" \in Calls /\ t # Timer /\ Active
    /\ Enter(t, "none", "checked_write")
    /\ UNCHANGED <<runtimeVars, destroyed, timer, expired, created, announced>>

\* The approval hook answers no, or raises.
Deny(t) ==
    /\ frame[t] \in {"checked_exec", "checked_write"}
    /\ frame' = [frame EXCEPT ![t] = "none"]
    /\ UNCHANGED <<runtimeVars, destroyed, timer, expired, created, announced>>

\* _effective_timeout, then backend.exec.  Past the deadline the call destroys
\* the sandbox itself, whatever the timer is doing, and raises.
StartExec(t) ==
    /\ IF expired
       THEN Enter(t, "checked_exec", "destroy_call") /\ UNCHANGED runtimeVars
       ELSE Enter(t, "checked_exec", "backend") /\ Exec(t)
    /\ UNCHANGED <<destroyed, timer, expired, created, announced>>

StartWrite(t) ==
    /\ Enter(t, "checked_write", "backend")
    /\ Write(t)
    /\ UNCHANGED <<destroyed, timer, expired, created, announced>>

CallReturns(t) ==
    /\ Enter(t, "backend", "none")
    /\ Resume(t)
    /\ UNCHANGED <<destroyed, timer, expired, created, announced>>

-----------------------------------------------------------------------------
(* Destruction: explicit, by __exit__, by the timer or by the deadline.    *)

CallDestroy(t) ==
    /\ "destroy" \in Calls /\ t # Timer /\ created
    /\ Enter(t, "none", "destroy_call")
    /\ UNCHANGED <<runtimeVars, destroyed, timer, expired, created, announced>>

\* Mutant: the flag is read without being set in the same critical section.
SetDestroyedLate(t) ==
    /\ ~destroyed
    /\ Enter(t, "destroy_call", "flagged")
    /\ timer' = IF timer = "armed" THEN "cancelled" ELSE timer
    /\ UNCHANGED <<runtimeVars, destroyed, expired, created, announced>>

\* The locked part of destroy, first caller.  cancel() stops an armed timer; a
\* timer that has fired is past it.
SetDestroyed(t) ==
    /\ ~destroyed
    /\ Enter(t, "destroy_call", "flagged")
    /\ destroyed' = TRUE
    /\ timer' = IF timer = "armed" THEN "cancelled" ELSE timer
    /\ UNCHANGED <<runtimeVars, expired, created, announced>>

\* Any later caller returns at once.
AlreadyDestroyed(t) ==
    /\ destroyed
    /\ Enter(t, "destroy_call", "none")
    /\ UNCHANGED <<runtimeVars, destroyed, timer, expired, created, announced>>

\* Mutant: the event is emitted, but the backend is not told.
DestroyBackendSkipped(t) ==
    /\ Enter(t, "flagged", "none")
    /\ announced' = announced + 1
    /\ UNCHANGED <<runtimeVars, destroyed, timer, expired, created>>

DestroyBackend(t) ==
    /\ Enter(t, "flagged", "destroying")
    /\ Destroy(t)
    /\ UNCHANGED <<destroyed, timer, expired, created, announced>>

\* Back from backend.destroy: DESTROYED is emitted unless it raised.
Announce(t) ==
    /\ Enter(t, "destroying", "none")
    /\ Resume(t)
    /\ announced' = IF outcome[t] = "ok" THEN announced + 1 ELSE announced
    /\ UNCHANGED <<destroyed, timer, expired, created>>

-----------------------------------------------------------------------------
(* Time.                                                                   *)

Expire ==
    /\ timer # "unset" /\ ~expired
    /\ expired' = TRUE
    /\ UNCHANGED <<runtimeVars, destroyed, timer, frame, created, announced>>

\* Mutant: an execution in flight postpones the timer for good.
FireTimerIfIdle ==
    /\ timer = "armed" /\ expired
    /\ timer' = "fired"
    /\ frame' = IF \A t \in Threads : frame[t] = "none"
                THEN [frame EXCEPT ![Timer] = "destroy_call"] ELSE frame
    /\ UNCHANGED <<runtimeVars, destroyed, expired, created, announced>>

\* Mutant: the timer does not wait.
FireTimerAtOnce ==
    /\ timer = "armed"
    /\ timer' = "fired"
    /\ Enter(Timer, "none", "destroy_call")
    /\ UNCHANGED <<runtimeVars, destroyed, expired, created, announced>>

FireTimer ==
    /\ timer = "armed" /\ expired
    /\ timer' = "fired"
    /\ Enter(Timer, "none", "destroy_call")
    /\ UNCHANGED <<runtimeVars, destroyed, expired, created, announced>>

-----------------------------------------------------------------------------
(* Specification.                                                          *)

BackendStep(t) == Internal(t) /\ UNCHANGED facadeVars

\* What a thread inside a call does next.
Progress(t) ==
    \/ BackendStep(t) \/ Publish(t) \/ EmitCreated(t) \/ Deny(t) \/ StartExec(t) \/ StartWrite(t)
    \/ CallReturns(t) \/ SetDestroyed(t) \/ AlreadyDestroyed(t)
    \/ DestroyBackend(t) \/ Announce(t)

Next ==
    \/ \E t \in Threads : \/ Progress(t) \/ Construct(t) \/ CallExec(t)
                          \/ CallWrite(t) \/ CallDestroy(t)
    \/ Expire \/ FireTimer

Spec == Init /\ [][Next]_vars

\* Time passes, the timer thread is started and a thread inside a call runs on,
\* except in an approval hook, which may never answer.  Nobody has to call destroy.
FairSpec ==
    /\ Spec /\ WF_vars(Expire) /\ WF_vars(FireTimer)
    /\ \A t \in Threads :
           WF_vars(frame[t] \notin {"checked_exec", "checked_write"} /\ Progress(t))

-----------------------------------------------------------------------------
(* Properties.                                                             *)

\* destroy takes effect once: observers see at most one DESTROYED event, however
\* many of the timer, the deadline check and the callers race.
DestroyedOnce == announced <= 1

\* The DESTROYED event tells the truth: from then on the backend names no
\* resource, and what still exists could not be removed (the daemon refused, rmtree
\* could not empty the directory), is in the hands of a thread that is releasing it,
\* or is a directory that a write slipped into.
AnnouncedMeansDetached ==
    announced > 0 =>
        /\ refs = {}
        /\ world \subseteq refused \cup Spoiled \cup UNION {held[t] : t \in Threads}

\* The flag is not set without the deed: a sandbox flagged destroyed has handed
\* its resources over, unless the thread that set the flag is about to.
DestroyedMeansDetached ==
    destroyed => refs = {} \/ \E t \in Threads : frame[t] = "flagged"

\* The audit trail begins at the beginning: DESTROYED comes before CREATED only
\* if the lifetime was over before the constructor was.
CreatedFirst == announced > 0 /\ ~created => expired

\* What a sandbox says of itself is true, whoever destroys it and when: the parts
\* above, over well-typed states.
Truthful ==
    /\ SandboxTypeOK
    /\ DestroyedOnce
    /\ AnnouncedMeansDetached
    /\ DestroyedMeansDetached
    /\ CreatedFirst

\* The flag is set before the fields are emptied, whoever destroys, except by the
\* backstop of an execution, which calls the backend and leaves the flag alone.
FlagGoesFirst ==
    [][refs # {} /\ refs' = {} /\ timer # "unset"
       => destroyed \/ \E t \in Threads : pc[t] = "exec_stream" /\ pc'[t] = "release"]_vars

\* A directory kept by a late write, once nobody is to remove it any more.
Lost == IF "workspace" \in refs \cup UNION {held[t] : t \in Threads} THEN {} ELSE Spoiled

\* The sandbox keeps the contract of SandboxContract: executions reach the
\* backend only while it is live, whoever destroys it does so once, and what it
\* holds is given back but for what could not be removed (`refused`: a refusal of the
\* daemon, a directory that rmtree could not empty) and a directory kept by a late
\* write.  It ends by its lifetime when no one calls destroy.
Contract == INSTANCE SandboxContract WITH
    Resources <- Kinds,
    state     <- IF timer = "unset" THEN "absent" ELSE IF refs # {} THEN "live" ELSE "gone",
    running   <- {t \in Threads : pc[t] \in {"exec_create", "exec_stream", "exec_inspect"}},
    left      <- IF timer = "unset" THEN {} ELSE world \ (refused \cup Lost),
    told      <- announced > 0

KeepsContract == Contract!Spec

=============================================================================

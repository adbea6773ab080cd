-------------------------- MODULE KubernetesRuntime --------------------------
(***************************************************************************)
(* One KubernetesRuntime (agentnest/runtime/kubernetes.py): its fields,    *)
(* which no lock protects, the threads that create, use and destroy it,    *)
(* and the Pod and the NetworkPolicy it asks the cluster for.              *)
(*                                                                         *)
(* A thread reads a field in one step and acts on it in a later one; every *)
(* assignment to a field is a step.  The Pod's name is chosen once, so     *)
(* _pod_name is set or not.                                                *)
(***************************************************************************)
EXTENDS FiniteSets

CONSTANTS
    Threads,     \* threads that execute or destroy; one of them creates
    Timer,       \* the lifetime timer's thread, which calls destroy in the end
    Modes,       \* network policies tried: "allow", "deny", "cidrs", "domains"
    Faults       \* {"api"} if a call to the cluster may fail, or be carried out unanswered

ASSUME KubernetesAssumption ==
    /\ Timer \in Threads
    /\ Modes \subseteq {"allow", "deny", "cidrs", "domains"}
    /\ Faults \subseteq {"api"}

VARIABLES
    mode,        \* config.security_policy.network.mode, and whether it names domains
    phase,       \* "new", "creating", "live" or "failed": what the constructor did
    podName,     \* self._pod_name is not None
    config,      \* self._config is not None
    core,        \* self._core is not None
    pod,         \* "absent", "pending", "running", "ended" or "terminating"
    policy,      \* the NetworkPolicy exists
    refused,     \* resources whose deletion failed; the failure was suppressed
    pc,          \* control point of each thread
    name,        \* what a thread's local pod_name holds: TRUE, or FALSE for None
    conf,        \* what its local config holds
    lost,        \* the point at which destroy cleared what its execution was to read next
    outcome      \* how the last call of a thread ended

vars == <<mode, phase, podName, config, core, pod, policy, refused, pc, name, conf,
          lost, outcome>>
cluster == <<pod, policy, refused>>
fields  == <<podName, config, core>>

Resources == {"pod", "policy"}
Points == {"idle", "connect", "create_pod", "create_policy", "wait",
           "id", "take_id", "config", "take_config", "open", "stream", "bound",
           "read_name", "clear_name", "clear_config", "check", "delete_pod",
           "delete_policy", "done"}
Outcomes == {"none", "ok", "failed", "unsupported", "destroyed", "exec_error",
             "timeout", "attribute_error"}

KubeTypeOK ==
    /\ mode \in Modes
    /\ phase \in {"new", "creating", "live", "failed"}
    /\ podName \in BOOLEAN /\ config \in BOOLEAN /\ core \in BOOLEAN
    /\ pod \in {"absent", "pending", "running", "ended", "terminating"}
    /\ policy \in BOOLEAN /\ refused \subseteq Resources
    /\ pc \in [Threads -> Points]
    /\ name \in [Threads -> BOOLEAN] /\ conf \in [Threads -> BOOLEAN]
    /\ lost \in [Threads -> {"nothing", "id", "take_id", "config", "take_config"}]
    /\ outcome \in [Threads -> Outcomes]

Init ==
    /\ mode \in Modes
    /\ phase = "new"
    /\ podName = FALSE /\ config = FALSE /\ core = FALSE
    /\ pod = "absent" /\ policy = FALSE /\ refused = {}
    /\ pc = [t \in Threads |-> "idle"]
    /\ name = [t \in Threads |-> FALSE] /\ conf = [t \in Threads |-> FALSE]
    /\ lost = [t \in Threads |-> "nothing"]
    /\ outcome = [t \in Threads |-> "none"]

-----------------------------------------------------------------------------
(* Control helpers.                                                        *)

Goto(t, from, to) == pc[t] = from /\ pc' = [pc EXCEPT ![t] = to]

\* A call ends, or an exception leaves it.
Finish(t, from, result) ==
    /\ Goto(t, from, "done")
    /\ outcome' = [outcome EXCEPT ![t] = result]

\* The call goes on in destroy, after which it raises `result`.
DestroyThen(t, from, result) ==
    /\ Goto(t, from, "read_name")
    /\ outcome' = [outcome EXCEPT ![t] = result]

Locals == <<name, conf, lost>>
May(fault) == fault \in Faults

\* A field is cleared under the executions that have still to read it.
Strike(field, points) ==
    lost' = IF field THEN [x \in Threads |-> IF pc[x] \in points THEN pc[x] ELSE lost[x]]
                     ELSE lost

-----------------------------------------------------------------------------
(* create.                                                                 *)

\* Domain allowlists, and an installation without the kubernetes package, are
\* refused before anything exists.
Create(t) ==
    /\ phase = "new"
    /\ \/ Finish(t, "idle", "unsupported") /\ phase' = "failed"
       \/ /\ mode # "domains" /\ Goto(t, "idle", "connect") /\ phase' = "creating"
          /\ UNCHANGED outcome
    /\ UNCHANGED <<mode, fields, cluster, Locals>>

\* The client configuration, the API objects, _config and _pod_name.
Connect(t) ==
    /\ \/ /\ Goto(t, "connect", "create_pod")
          /\ podName' = TRUE /\ config' = TRUE /\ core' = TRUE
          /\ UNCHANGED outcome
       \/ /\ May("api") /\ DestroyThen(t, "connect", "failed")
          /\ UNCHANGED fields
    /\ UNCHANGED <<mode, phase, cluster, Locals>>

\* A call that makes `effect` true of the cluster: answered, refused, or carried
\* out although the answer was lost.
Call(t, from, to, effect, untouched) ==
    \/ Goto(t, from, to) /\ effect /\ UNCHANGED outcome
    \/ May("api") /\ DestroyThen(t, from, "failed") /\ effect
    \/ May("api") /\ DestroyThen(t, from, "failed") /\ untouched

CreatePod(t) ==
    /\ Call(t, "create_pod", "create_policy", pod' = "pending", pod' = pod)
    /\ UNCHANGED <<mode, phase, fields, policy, refused, Locals>>

\* Mutant: no policy is made for a list of CIDRs.
CreatePolicyForDeny(t) ==
    /\ Call(t, "create_policy", "wait", policy' = (mode = "deny"), policy' = policy)
    /\ UNCHANGED <<mode, phase, fields, pod, refused, Locals>>

\* _create_network_policy: nothing to do when everything is allowed.
CreatePolicy(t) ==
    /\ IF mode = "allow"
       THEN Goto(t, "create_policy", "wait") /\ UNCHANGED <<policy, outcome>>
       ELSE Call(t, "create_policy", "wait", policy' = TRUE, policy' = policy)
    /\ UNCHANGED <<mode, phase, fields, pod, refused, Locals>>

\* _wait_until_running: Running, or a terminal phase, or too late.
WaitUntilRunning(t) ==
    /\ \/ pod = "running" /\ Finish(t, "wait", "ok") /\ phase' = "live"
       \/ DestroyThen(t, "wait", "failed") /\ UNCHANGED phase
    /\ UNCHANGED <<mode, fields, cluster, Locals>>

-----------------------------------------------------------------------------
(* exec, which write_file and read_file are made of.                       *)

Exec(t) ==
    /\ phase = "live" /\ t # Timer
    /\ Goto(t, "idle", "id")
    /\ lost' = [lost EXCEPT ![t] = IF podName THEN "nothing" ELSE "id"]
    /\ UNCHANGED <<mode, phase, fields, cluster, name, conf, outcome>>

\* Mutant: the field is returned without a check.
CheckNever(t, from, field, to) ==
    /\ Goto(t, from, to)
    /\ UNCHANGED <<mode, phase, fields, cluster, Locals, outcome>>

\* A field is checked, and read again to be returned.
Check(t, from, field, to) ==
    /\ IF field THEN Goto(t, from, to) /\ UNCHANGED outcome
                ELSE Finish(t, from, "destroyed")
    /\ UNCHANGED <<mode, phase, fields, cluster, Locals>>

CheckId(t)     == Check(t, "id", podName, "take_id")
CheckConfig(t) == Check(t, "config", config, "take_config")

TakeId(t) ==
    /\ Goto(t, "take_id", "config")
    /\ name' = [name EXCEPT ![t] = podName]
    /\ UNCHANGED <<mode, phase, fields, cluster, conf, lost, outcome>>

TakeConfig(t) ==
    /\ Goto(t, "take_config", "open")
    /\ conf' = [conf EXCEPT ![t] = config]
    /\ UNCHANGED <<mode, phase, fields, cluster, name, lost, outcome>>

\* connect_get_namespaced_pod_exec: a name that is None, a Pod that is gone and a
\* cluster that does not answer all raise, and become ExecutionError.  The file
\* calls pass no timeout: config.timeout is read first, outside the try block.
Open(t) ==
    /\ \/ ~conf[t] /\ Finish(t, "open", "attribute_error")
       \/ name[t] /\ pod = "running" /\ Goto(t, "open", "stream") /\ UNCHANGED outcome
       \/ /\ ~name[t] \/ pod # "running" \/ May("api")
          /\ Finish(t, "open", "exec_error")
    /\ UNCHANGED <<mode, phase, fields, cluster, Locals>>

\* The loop over response: closed by the process, broken, or past the deadline,
\* which destroys the sandbox before ExecutionTimeoutError is raised.
Stream(t) ==
    /\ \/ Goto(t, "stream", "bound") /\ UNCHANGED outcome
       \/ (pod # "running" \/ May("api")) /\ Finish(t, "stream", "exec_error")
       \/ DestroyThen(t, "stream", "timeout")
    /\ UNCHANGED <<mode, phase, fields, cluster, Locals>>

\* _bounded_outputs reads config.security_policy, outside the try block.
Bound(t) ==
    /\ Finish(t, "bound", IF conf[t] THEN "ok" ELSE "attribute_error")
    /\ UNCHANGED <<mode, phase, fields, cluster, Locals>>

-----------------------------------------------------------------------------
(* destroy.                                                                *)

\* Sandbox.destroy calls it once; an execution that overran calls it as well.
Destroy(t) ==
    /\ phase = "live"
    /\ DestroyThen(t, "idle", "ok")
    /\ UNCHANGED <<mode, phase, fields, cluster, Locals>>

ReadName(t) ==
    /\ Goto(t, "read_name", "clear_name")
    /\ name' = [name EXCEPT ![t] = podName]
    /\ UNCHANGED <<mode, phase, fields, cluster, conf, lost, outcome>>

\* Mutant: the name is copied but not cleared.
ClearNameNever(t) ==
    /\ Goto(t, "clear_name", "clear_config")
    /\ UNCHANGED <<mode, phase, fields, cluster, Locals, outcome>>

ClearName(t) ==
    /\ Goto(t, "clear_name", "clear_config")
    /\ podName' = FALSE /\ Strike(podName, {"id", "take_id"})
    /\ UNCHANGED <<mode, phase, config, core, cluster, name, conf, outcome>>

ClearConfig(t) ==
    /\ Goto(t, "clear_config", "check")
    /\ config' = FALSE /\ Strike(config, {"config", "take_config"})
    /\ UNCHANGED <<mode, phase, podName, core, cluster, name, conf, outcome>>

\* A creation that failed ends here: its object is never handed out.
Settled == IF phase = "creating" THEN "failed" ELSE phase

\* Mutant: destroy returns early when the field, not its copy, is None.
CheckField(t) ==
    /\ IF podName /\ core
       THEN Goto(t, "check", "delete_pod") /\ UNCHANGED phase
       ELSE Goto(t, "check", "done") /\ phase' = Settled
    /\ UNCHANGED <<mode, fields, cluster, Locals, outcome>>

\* Nothing to delete, for a second caller or before a Pod was asked for.
CheckName(t) ==
    /\ IF name[t] /\ core
       THEN Goto(t, "check", "delete_pod") /\ UNCHANGED phase
       ELSE Goto(t, "check", "done") /\ phase' = Settled
    /\ UNCHANGED <<mode, fields, cluster, Locals, outcome>>

\* Mutant: the Pod is deleted only if it is not running any more.
DeletePodIfEnded(t) ==
    /\ Goto(t, "delete_pod", "delete_policy")
    /\ pod' = (IF pod \in {"absent", "running"} THEN pod ELSE "terminating")
    /\ UNCHANGED <<mode, phase, fields, policy, refused, Locals, outcome>>

\* Accepted, not found, or failed, which is suppressed.  A Pod whose deletion is
\* accepted is still terminating.
DeletePod(t) ==
    /\ Goto(t, "delete_pod", "delete_policy")
    /\ \/ pod' = (IF pod = "absent" THEN "absent" ELSE "terminating") /\ UNCHANGED refused
       \/ May("api") /\ refused' = refused \cup {"pod"} /\ UNCHANGED pod
    /\ UNCHANGED <<mode, phase, fields, policy, Locals, outcome>>

DeletePolicy(t) ==
    /\ Goto(t, "delete_policy", "done")
    /\ \/ policy' = FALSE /\ UNCHANGED refused
       \/ May("api") /\ refused' = refused \cup {"policy"} /\ UNCHANGED policy
    /\ phase' = Settled
    /\ UNCHANGED <<mode, fields, pod, Locals, outcome>>

Return(t) ==
    /\ Goto(t, "done", "idle")
    /\ outcome' = [outcome EXCEPT ![t] = "none"]
    /\ name' = [name EXCEPT ![t] = FALSE] /\ conf' = [conf EXCEPT ![t] = FALSE]
    /\ lost' = [lost EXCEPT ![t] = "nothing"]
    /\ UNCHANGED <<mode, phase, fields, cluster>>

-----------------------------------------------------------------------------
(* The cluster.                                                            *)

ClusterFrame == <<mode, phase, fields, policy, refused, pc, Locals, outcome>>

Schedule == pod = "pending" /\ pod' = "running" /\ UNCHANGED ClusterFrame
PodEnds  == pod \in {"pending", "running"} /\ pod' = "ended" /\ UNCHANGED ClusterFrame
Terminated == pod = "terminating" /\ pod' = "absent" /\ UNCHANGED ClusterFrame

-----------------------------------------------------------------------------
(* Specification.                                                          *)

Progress(t) ==
    \/ Connect(t) \/ CreatePod(t) \/ CreatePolicy(t) \/ WaitUntilRunning(t)
    \/ CheckId(t) \/ TakeId(t) \/ CheckConfig(t) \/ TakeConfig(t)
    \/ Open(t) \/ Stream(t) \/ Bound(t)
    \/ ReadName(t) \/ ClearName(t) \/ ClearConfig(t) \/ CheckName(t)
    \/ DeletePod(t) \/ DeletePolicy(t) \/ Return(t)

Next ==
    \/ \E t \in Threads : Create(t) \/ Exec(t) \/ Destroy(t) \/ Progress(t)
    \/ Schedule \/ PodEnds \/ Terminated

Spec == Init /\ [][Next]_vars

\* A thread inside a call goes on, the lifetime timer calls destroy if nobody
\* has, and the kubelet finishes the deletion of a Pod.
FairSpec ==
    /\ Spec
    /\ \A t \in Threads : WF_vars(Progress(t))
    /\ WF_vars(podName /\ Destroy(Timer)) /\ WF_vars(Terminated)

-----------------------------------------------------------------------------
(* Properties.                                                             *)

Exists == (IF pod = "absent" THEN {} ELSE {"pod"}) \cup (IF policy THEN {"policy"} ELSE {})
Destroying(t) ==
    pc[t] \in {"read_name", "clear_name", "clear_config", "check", "delete_pod", "delete_policy"}
Executing(t) ==
    pc[t] \in {"id", "take_id", "config", "take_config", "open", "stream", "bound"}

\* Nothing is left behind by a name that was forgotten: once _pod_name is None
\* and nobody is inside destroy, what still exists was refused, or is a Pod on
\* its way out.  This holds for creations that failed, also when the cluster did
\* what it did not confirm, and for destroyers that overlap without a lock.
ForgottenIsGone ==
    ~podName /\ (\A t \in Threads : ~Destroying(t)) =>
        /\ "pod" \in Exists => pod = "terminating" \/ "pod" \in refused
        /\ policy => "policy" \in refused

\* Restricted while it lasts: a Pod that was handed out runs under its policy
\* until somebody has begun to delete it.
RestrictedWhileLive ==
    phase = "live" /\ podName /\ pod = "running" /\ mode # "allow" => policy

\* A Pod runs without its policy only while it is being created or after its
\* deletion failed: deletion asks for the Pod first.
UnrestrictedOnlyAround ==
    pod = "running" /\ mode # "allow" /\ ~policy => phase = "creating" \/ "pod" \in refused

\* The network policy is in place, in well-typed states: before the Pod is handed
\* out and until its deletion was asked for.
PolicyInPlace == KubeTypeOK /\ RestrictedWhileLive /\ UnrestrictedOnlyAround

\* An execution that lost the race with destroy is told so, whichever field was
\* cleared under it and wherever it stood.  Ahead of a check it raises
\* SandboxDestroyedError; between the two reads of _id it finds out at the next
\* check, or from the cluster, which knows no Pod of that name; and only between
\* the two reads of _require_config may it end in an AttributeError.  It succeeds
\* only if nothing was cleared under it, and is told of a destroyed sandbox only
\* if something was.
RaceReported(t) ==
    Executing(t) /\ pc'[t] \in {"done", "read_name"} =>
        /\ lost[t] \in {"id", "config"} => outcome'[t] = "destroyed"
        /\ lost[t] = "take_id" => outcome'[t] \in {"destroyed", "exec_error"}
        /\ outcome'[t] = "attribute_error" => lost[t] = "take_config"
        /\ outcome'[t] = "ok" => lost[t] = "nothing"
        /\ outcome'[t] = "destroyed" => lost[t] # "nothing"

RaceIsReported == [][\A t \in Threads : RaceReported(t)]_vars

\* The promise of SandboxContract, without a lock: live until the name is
\* cleared, destroyed once whoever does it, everything given back.
Contract == INSTANCE SandboxContract WITH
    state   <- IF phase # "live" THEN "absent" ELSE IF podName THEN "live" ELSE "gone",
    running <- {t \in Threads : name[t] /\ pc[t] \in {"config", "take_config", "open",
                                                      "stream", "bound"}},
    left    <- IF phase = "live" THEN Exists \ refused ELSE {},
    told    <- FALSE

KeepsContract == Contract!Spec
=============================================================================

---------------------------- MODULE DockerRuntime ----------------------------
(***************************************************************************)
(* One DockerRuntime object (agentnest/runtime/docker.py) with the egress  *)
(* sidecar it owns (agentnest/egress.py), the host threads that share it   *)
(* and the resources it provisions on the daemon and on the host.          *)
(*                                                                         *)
(* refs is what the object's fields name (_container, _workspace, _egress, *)
(* _owns_image); held[t] is what the local variables of thread t name      *)
(* while it assembles or releases them; world is what really exists.  The  *)
(* properties are about the three drifting apart.                          *)
(***************************************************************************)
EXTENDS Naturals, FiniteSets

CONSTANTS
    Threads,       \* host threads calling the runtime
    Networks,      \* network policies tried: "open" (deny/allow), "domains", "cidrs"
    Origins,       \* "create", "fork" or "fork_commit" (fork of a writable root)
    Calls,         \* calls the threads make: "exec", "write", "destroy"
    DaemonErrors   \* how a daemon call may fail: "api", "transport"

ASSUME RuntimeAssumption ==
    /\ Networks \subseteq {"open", "domains", "cidrs"}
    /\ Origins \subseteq {"create", "fork", "fork_commit"}
    /\ Calls \subseteq {"exec", "write", "destroy"}
    /\ DaemonErrors \subseteq {"api", "transport"}

VARIABLES
    mode,        \* the configuration booted: network policy and origin
    phase,       \* "new", "booting", "live" or "failed"
    pc,          \* control point of each thread
    refs,        \* resources the object's fields refer to
    held,        \* resources a thread's local variables refer to
    world,       \* resources that exist on the daemon and on the host
    refused,     \* resources whose removal failed and was ignored: an error of the
                 \* daemon, or a directory that rmtree could not empty
    unnamed,     \* resources made by a call that raised: nothing refers to them
    entries,     \* threads whose file is an entry of the workspace directory
    hasTimeout,  \* _has_timeout: the image ships coreutils `timeout`
    after,       \* outcome a thread reports once its release is over
    outcome      \* how the last call of a thread ended

runtimeVars == <<mode, phase, pc, refs, held, world, refused, unnamed, entries,
                 hasTimeout, after, outcome>>

Kinds    == {"container", "workspace", "proxy", "network", "image"}
Outcomes == {"none", "ok", "unavailable", "unsupported", "destroyed",
             "docker_error", "transport", "exec_error", "file_error", "os_error",
             "process_timeout", "backstop"}
BootPoints == {"boot_copy", "boot_assign", "boot_client", "boot_network",
               "boot_proxy", "boot_connect", "boot_container", "boot_start"}
Points   == BootPoints \cup {"idle", "release", "rmdir", "exec_create",
               "exec_stream", "exec_inspect", "write_temp", "write_replace", "done"}

TypeOK ==
    /\ mode \in [net : Networks, origin : Origins]
    /\ phase \in {"new", "booting", "live", "failed"}
    /\ pc \in [Threads -> Points]
    /\ refs \subseteq Kinds
    /\ held \in [Threads -> SUBSET Kinds]
    /\ world \subseteq Kinds
    /\ refused \subseteq Kinds
    /\ unnamed \subseteq Kinds
    /\ entries \subseteq Threads
    /\ hasTimeout \in BOOLEAN
    /\ after \in [Threads -> Outcomes]
    /\ outcome \in [Threads -> Outcomes]

RuntimeInit ==
    /\ mode \in [net : Networks, origin : Origins]
    /\ phase = "new"
    /\ pc = [t \in Threads |-> "idle"]
    /\ refs = {}
    /\ held = [t \in Threads |-> {}]
    /\ world = {}
    /\ refused = {}
    /\ unnamed = {}
    /\ entries = {}
    /\ hasTimeout = FALSE
    /\ after = [t \in Threads |-> "none"]
    /\ outcome = [t \in Threads |-> "none"]

-----------------------------------------------------------------------------
(* Control helpers.                                                        *)

Goto(t, from, to) == pc[t] = from /\ pc' = [pc EXCEPT ![t] = to]

Finish(t, from, result) ==
    /\ Goto(t, from, "done")
    /\ outcome' = [outcome EXCEPT ![t] = result]

\* Mutant: the fields are read but not cleared under the lock.
StartReleaseWithoutSwap(t, from, taken, result) ==
    /\ Goto(t, from, "release")
    /\ held' = [held EXCEPT ![t] = taken]
    /\ refs' = refs
    /\ after' = [after EXCEPT ![t] = result]

\* Mutant: the committed image of a fork is forgotten.
StartReleaseWithoutImage(t, from, taken, result) ==
    /\ Goto(t, from, "release")
    /\ held' = [held EXCEPT ![t] = taken \ {"image"}]
    /\ refs' = refs \ taken
    /\ after' = [after EXCEPT ![t] = result]

\* Hand a set of resources from the fields to thread t, which will release
\* them one by one and then report `result`.
StartRelease(t, from, taken, result) ==
    /\ Goto(t, from, "release")
    /\ held' = [held EXCEPT ![t] = taken]
    /\ refs' = refs \ taken
    /\ after' = [after EXCEPT ![t] = result]

ReleaseFrame == <<mode, phase, refused, entries, hasTimeout, outcome>>

\* A call that should have made `kinds` raised.  It may have made them all the same:
\* its answer was lost, or the second half of a create and get failed.
Raised(kinds) == \E made \in SUBSET kinds :
    world' = world \cup made /\ unnamed' = unnamed \cup made

\* Mutant: the workspace is left to the caller.
CleanUpButWorkspace(t, from, result, kinds) ==
    /\ StartRelease(t, from, refs \ {"workspace"}, result)
    /\ Raised(kinds) /\ UNCHANGED ReleaseFrame

\* _cleanup_failed_create, after a call that makes `kinds`: everything the fields
\* name is released and the constructor raises.
CleanUp(t, from, result, kinds) ==
    StartRelease(t, from, refs, result) /\ Raised(kinds) /\ UNCHANGED ReleaseFrame

-----------------------------------------------------------------------------
(* Booting: create / fork, _prepare_workspace, _boot, EgressSidecar.start. *)

\* mkdtemp in create and in fork; the path is a local variable until _boot.  create
\* then makes the working directory, outside any handler.
Prepare(t) ==
    /\ phase = "new"
    /\ world' = {"workspace"}
    /\ \/ /\ Goto(t, "idle", IF mode.origin = "create" THEN "boot_assign" ELSE "boot_copy")
          /\ phase' = "booting"
          /\ held' = [held EXCEPT ![t] = {"workspace"}]
          /\ UNCHANGED <<unnamed, outcome>>
       \/ /\ mode.origin = "create"
          /\ Finish(t, "idle", "os_error")
          /\ phase' = "failed"
          /\ unnamed' = {"workspace"}
          /\ UNCHANGED held
    /\ UNCHANGED <<mode, refs, refused, entries, hasTimeout, after>>

\* fork: copytree and, for a writable root, container.commit().  Any failure
\* removes the copy before RuntimeNotAvailableError is raised.
Committed == IF mode.origin = "fork_commit" THEN {"image"} ELSE {}

ForkCopy(t) ==
    \/ /\ Goto(t, "boot_copy", "boot_assign")
       /\ world' = world \cup Committed
       /\ held' = [held EXCEPT ![t] = @ \cup Committed]
       /\ UNCHANGED <<mode, phase, refs, refused, unnamed, entries, hasTimeout, after,
                      outcome>>
    \/ /\ StartRelease(t, "boot_copy", held[t], "unavailable")
       /\ Raised(IF DaemonErrors # {} THEN Committed ELSE {})
       /\ UNCHANGED ReleaseFrame

\* Head of _boot: the fields take over, then an allowlist with CIDRs is
\* rejected by as_domains, outside the try block.
Assign(t) ==
    /\ refs' = held[t]
    /\ held' = [held EXCEPT ![t] = {}]
    /\ IF mode.net = "cidrs"
       THEN Finish(t, "boot_assign", "unsupported") /\ phase' = "failed"
       ELSE Goto(t, "boot_assign", "boot_client") /\ UNCHANGED <<phase, outcome>>
    /\ UNCHANGED <<mode, world, refused, unnamed, entries, hasTimeout, after>>

\* Client, ping, rootless check, image lookup and pull.
ConnectClient(t) ==
    \/ /\ Goto(t, "boot_client",
               IF mode.net = "domains" THEN "boot_network" ELSE "boot_container")
       /\ UNCHANGED <<mode, phase, refs, held, world, refused, unnamed, entries, hasTimeout,
                      after, outcome>>
    \/ CleanUp(t, "boot_client", "unsupported", {})
    \/ DaemonErrors # {} /\ CleanUp(t, "boot_client", "unavailable", {})

\* One daemon call that creates `kind` and stores it in a field.
Provision(t, from, kind, to) ==
    /\ Goto(t, from, to)
    /\ world' = world \cup {kind}
    /\ refs' = refs \cup {kind}
    /\ UNCHANGED <<mode, phase, held, refused, unnamed, entries, hasTimeout, after, outcome>>

\* EgressSidecar.start catches DockerException: it destroys its own proxy and
\* network and raises RuntimeNotAvailableError, which no handler of _boot
\* matches, so _cleanup_failed_create does not run.
EgressAbort(t, from, kinds) ==
    /\ "api" \in DaemonErrors
    /\ StartRelease(t, from, refs \cap {"proxy", "network"}, "unavailable")
    /\ Raised(kinds) /\ UNCHANGED ReleaseFrame

\* networks.create creates, then inspects.
StartNetwork(t) ==
    \/ Provision(t, "boot_network", "network", "boot_proxy")
    \/ EgressAbort(t, "boot_network", {"network"})
    \* the proxy image lookup precedes the try block; a transport error is an
    \* OSError, which only _boot catches
    \/ "api" \in DaemonErrors /\ CleanUp(t, "boot_network", "unavailable", {})
    \/ "transport" \in DaemonErrors /\ CleanUp(t, "boot_network", "unavailable", {"network"})

\* containers.run creates, inspects, then starts.
StartProxy(t) ==
    \/ Provision(t, "boot_proxy", "proxy", "boot_connect")
    \/ EgressAbort(t, "boot_proxy", {"proxy"})
    \/ "transport" \in DaemonErrors /\ CleanUp(t, "boot_proxy", "unavailable", {"proxy"})

ConnectProxy(t) ==
    \/ /\ Goto(t, "boot_connect", "boot_container")
       /\ UNCHANGED <<mode, phase, refs, held, world, refused, unnamed, entries, hasTimeout,
                      after, outcome>>
    \/ EgressAbort(t, "boot_connect", {})
    \/ "transport" \in DaemonErrors /\ CleanUp(t, "boot_connect", "unavailable", {})

\* containers.create creates, then inspects.
CreateContainer(t) ==
    \/ Provision(t, "boot_container", "container", "boot_start")
    \/ DaemonErrors # {} /\ CleanUp(t, "boot_container", "unavailable", {"container"})

\* Whether the image ships `timeout`; an error of the probe counts as no.
DetectTimeout == hasTimeout' \in BOOLEAN

\* container.start() and _detect_timeout(); the object is then handed out.
StartContainer(t) ==
    \/ /\ Finish(t, "boot_start", "ok")
       /\ phase' = "live"
       /\ DetectTimeout
       /\ UNCHANGED <<mode, refs, held, world, refused, unnamed, entries, after>>
    \/ DaemonErrors # {} /\ CleanUp(t, "boot_start", "unavailable", {})

BootStep(t) ==
    \/ ForkCopy(t) \/ Assign(t) \/ ConnectClient(t)
    \/ StartNetwork(t) \/ StartProxy(t) \/ ConnectProxy(t)
    \/ CreateContainer(t) \/ StartContainer(t)

-----------------------------------------------------------------------------
(* Releasing, in the fixed order of destroy and _cleanup_failed_create.    *)

\* Mutant: the directory is removed before the container that mounts it.
RankDirectoryFirst ==
    [container |-> 2, workspace |-> 1, proxy |-> 3, network |-> 4, image |-> 5]

Rank == [container |-> 1, workspace |-> 2, proxy |-> 3, network |-> 4, image |-> 5]

IsNext(t, r) == r \in held[t] /\ \A s \in held[t] : Rank[r] <= Rank[s]

Drop(t, r) == held' = [held EXCEPT ![t] = @ \ {r}]

\* Mutant: a failed boot is recorded under a phase of its own.
SettledElsewhere == IF phase = "booting" THEN "destroyed" ELSE phase

\* Whether a failed boot ends here: its object is never handed out.
Settled == IF phase = "booting" THEN "failed" ELSE phase

\* The sidecar that could not start is destroying itself: the fields still name the
\* rest of the sandbox.
Aborting == phase = "booting" /\ refs # {}

\* container.remove, proxy.remove, network.remove and images.remove.
ReleaseOnDaemon(t) == \E r \in held[t] \ {"workspace"} :
    /\ pc[t] = "release" /\ IsNext(t, r)
    /\ \/ /\ world' = world \ {r}                     \* removed, or NotFound
          /\ Drop(t, r)
          /\ UNCHANGED <<mode, phase, pc, refs, refused, unnamed, entries, hasTimeout,
                         after, outcome>>
       \/ /\ "api" \in DaemonErrors                   \* APIError: swallowed
          /\ refused' = refused \cup {r}
          /\ Drop(t, r)
          /\ UNCHANGED <<mode, phase, pc, refs, world, unnamed, entries, hasTimeout,
                         after, outcome>>
       \/ /\ "transport" \in DaemonErrors /\ ~Aborting    \* no DockerException: escapes
          /\ held' = [held EXCEPT ![t] = {}]
          /\ Finish(t, "release", "transport")
          /\ phase' = Settled
          /\ UNCHANGED <<mode, refs, world, refused, unnamed, entries, hasTimeout, after>>

\* Such an error while the sidecar destroys itself gets as far as _boot, which cleans
\* up what the fields name; the sidecar's own resources are forgotten.
AbortEscapes(t) ==
    /\ "transport" \in DaemonErrors /\ Aborting /\ held[t] # {}
    /\ StartRelease(t, "release", refs, "unavailable")
    /\ unnamed' = unnamed \cup held[t]
    /\ UNCHANGED <<ReleaseFrame, world>>

\* shutil.rmtree(ignore_errors=True), first half: unlink what scandir listed.  The
\* files of this process lie in directories of its own, which it may always empty.
UnlinkEntries(t) ==
    /\ IsNext(t, "workspace")
    /\ Goto(t, "release", "rmdir")
    /\ entries' = {}
    /\ UNCHANGED <<mode, phase, refs, held, world, refused, unnamed, hasTimeout, after, outcome>>

\* Second half: rmdir fails, silently, on a directory that is not empty: a write came
\* in between, or the sandbox's own user left directories that this process may not
\* empty, or is still writing.
RemoveDirectory(t) ==
    /\ Goto(t, "rmdir", "release")
    /\ \/ /\ world' = IF entries = {} THEN world \ {"workspace"} ELSE world
          /\ UNCHANGED refused
       \/ /\ refused' = refused \cup {"workspace"}
          /\ UNCHANGED world
    /\ Drop(t, "workspace")
    /\ UNCHANGED <<mode, phase, refs, unnamed, entries, hasTimeout, after, outcome>>

ReleaseDone(t) ==
    /\ held[t] = {}
    /\ Finish(t, "release", after[t])
    /\ after' = [after EXCEPT ![t] = "none"]
    /\ phase' = Settled
    /\ UNCHANGED <<mode, refs, held, world, refused, unnamed, entries, hasTimeout>>

ReleaseStep(t) ==
    \/ ReleaseOnDaemon(t) \/ AbortEscapes(t)
    \/ UnlinkEntries(t) \/ RemoveDirectory(t) \/ ReleaseDone(t)

-----------------------------------------------------------------------------
(* The calls on a live object.                                             *)

\* destroy: the fields are swapped out under the lock, the rest runs unlocked.
Destroy(t) ==
    /\ phase = "live"
    /\ StartRelease(t, "idle", refs, "ok")
    /\ UNCHANGED <<ReleaseFrame, world, unnamed>>

CallFrame == <<mode, phase, refs, held, world, refused, unnamed, hasTimeout, after>>

\* A control step of a call that touches no resource.
Advance(t, from, to) == Goto(t, from, to) /\ UNCHANGED <<CallFrame, entries, outcome>>
Fail(t, from, result) == Finish(t, from, result) /\ UNCHANGED <<CallFrame, entries>>

\* _require_container, _require_config and _require_workspace read the field, or
\* its absence, under the lock; the caller goes on after the lock is released.
Required(kind) == kind \in refs

\* Mutant: exec does not ask whether the container is still there.
ExecUnchecked(t) ==
    /\ phase = "live"
    /\ Advance(t, "idle", "exec_create")

\* _iter_exec: _require_container and _require_config.
Exec(t) ==
    /\ phase = "live"
    /\ IF Required("container") THEN Advance(t, "idle", "exec_create")
                                ELSE Fail(t, "idle", "destroyed")

\* api.exec_create and api.exec_inspect are called outside any handler.  The field is
\* read once more, for the id.
ExecCreate(t) ==
    \/ ~Required("container") /\ Fail(t, "exec_create", "destroyed")
    \/ "container" \in world /\ Advance(t, "exec_create", "exec_stream")
    \/ /\ "container" \notin world \/ DaemonErrors # {}
       /\ Fail(t, "exec_create", "docker_error")

\* The consumer loop: end of stream, an error put by the reader thread, or the
\* host-side deadline, which destroys the sandbox from inside the call.
ExecStream(t) ==
    \/ Advance(t, "exec_stream", "exec_inspect")
    \/ /\ "container" \notin world \/ DaemonErrors # {}
       /\ Fail(t, "exec_stream", "exec_error")
    \/ /\ StartRelease(t, "exec_stream", refs, "backstop")
       /\ UNCHANGED <<ReleaseFrame, world, unnamed>>

ExecInspect(t) ==
    \/ "container" \in world /\ Fail(t, "exec_inspect", "ok")
    \/ "container" \in world /\ hasTimeout /\ Fail(t, "exec_inspect", "process_timeout")
    \/ /\ "container" \notin world \/ DaemonErrors # {}
       /\ Fail(t, "exec_inspect", "docker_error")

\* write_file: _require_workspace, then atomic_write on the path it returned.
Write(t) ==
    /\ phase = "live"
    /\ IF Required("workspace") THEN Advance(t, "idle", "write_temp")
                                ELSE Fail(t, "idle", "destroyed")

WriteTemp(t) ==
    IF "workspace" \in world
    THEN /\ Goto(t, "write_temp", "write_replace")
         /\ entries' = entries \cup {t}
         /\ UNCHANGED <<CallFrame, outcome>>
    ELSE Fail(t, "write_temp", "file_error")

WriteReplace(t) ==
    IF t \in entries THEN Fail(t, "write_replace", "ok")
                     ELSE Fail(t, "write_replace", "file_error")

Return(t) ==
    /\ Goto(t, "done", "idle")
    /\ outcome' = [outcome EXCEPT ![t] = "none"]
    /\ UNCHANGED <<CallFrame, entries>>

-----------------------------------------------------------------------------
(* Specification.                                                          *)

CallStep(t) ==
    \/ ExecCreate(t) \/ ExecStream(t) \/ ExecInspect(t)
    \/ WriteTemp(t) \/ WriteReplace(t)

\* What a thread does once it is inside a call; a thread always goes on.
Internal(t) == BootStep(t) \/ ReleaseStep(t) \/ CallStep(t)

\* What the threads' programs decide to do.
Client(t) ==
    \/ Prepare(t)
    \/ "destroy" \in Calls /\ Destroy(t)
    \/ "exec" \in Calls /\ Exec(t)
    \/ "write" \in Calls /\ Write(t)

RuntimeNext == \E t \in Threads : Internal(t) \/ Client(t) \/ Return(t)

RuntimeSpec == RuntimeInit /\ [][RuntimeNext]_runtimeVars

-----------------------------------------------------------------------------
(* Properties.                                                             *)

\* Every resource has one releaser: what destroy took out of the fields under
\* the lock is named by no field and by no other thread, so no two threads
\* ever remove the same container, directory, network or image.
SingleReleaser ==
    /\ \A t \in Threads : held[t] \cap refs = {}
    /\ \A t, u \in Threads : t # u => held[t] \cap held[u] = {}

\* What the object hands out or is still assembling.
Owned == IF phase \in {"booting", "live"} THEN refs ELSE {}

\* A directory that a racing write may have kept from being removed: rmdir fails
\* on a file created after rmtree has listed the directory.
Spoiled == IF entries = {} THEN {} ELSE {"workspace"}

\* No orphan: whatever exists is named by an object that is booting or live, is
\* about to be released by some thread, could not be removed, was made by a call
\* that raised, or is a directory that a write slipped into.  Boot failures, destroy
\* and the exec backstop all count.
NoOrphan ==
    world \subseteq Owned \cup refused \cup unnamed \cup Spoiled
                          \cup UNION {held[t] : t \in Threads}

\* The workspace outlives the container: while a container runs with the bind
\* mount, destroy has not removed the directory under it.  A container that no one
\* has the name of has not been started.
MountOutlivesContainer ==
    "container" \in world \ (refused \cup unnamed) => "workspace" \in world

\* Neither as_domains nor the exception of EgressSidecar.start meets a handler of
\* _boot.
MayLeave == IF mode.net = "open" THEN {} ELSE {"workspace", "image"}

\* What a failed boot leaves behind for ever, apart from what could not be removed:
\* what the call that failed had made all the same, which is one thing, or the
\* sidecar's two; and, unless the network is open, the workspace and a fork's image.
\* Only an error that is no DockerException, in the middle of the clean-up, leaves
\* more.
FailedBootLeaves ==
    [][phase # "failed" /\ phase' = "failed" =>
         /\ \/ world' \subseteq refused' \cup unnamed' \cup MayLeave
            \/ \E t \in Threads : pc[t] = "release" /\ outcome'[t] = "transport"
         /\ \/ unnamed' \subseteq {"proxy", "network"}
            \/ unnamed' \in {{"workspace"}, {"image"}, {"container"}}]_runtimeVars

=============================================================================

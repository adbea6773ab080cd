# AgentNest: a TLA+ model

AgentNest runs untrusted code in disposable sandboxes.  Its promises are about
lifetimes: a sandbox is isolated while it lives, it ends when somebody destroys
it, when its lifetime is over or when a command overruns, and then nothing of it
is left on the host.  Those promises are kept by host threads, timers, a Docker
daemon, files shared with a container, and HTTP requests, none of which wait for
each other.  This directory models that part of the program.

Paths like `sandbox.py` are relative to `src/agentnest/`.

## The system

| Component | State | Operations | Interacts with |
|---|---|---|---|
| `sandbox.py` `Sandbox` | `_destroyed`, `_timer`, `_deadline`, observers, remembered secrets | construct, fork, exec_*, stream_shell, read/write, snapshot, destroy | calls one backend; the timer thread and every caller's thread run its methods |
| `runtime/docker.py` `DockerRuntime` | `_container`, `_workspace`, `_egress`, `_owns_image`, `_has_timeout`, a lock | create, fork, exec, stream_exec, write_file, read_file, snapshot, destroy | daemon API, host file system; a reader thread per execution |
| `egress.py` `EgressSidecar` | `_container`, `_network` | start, destroy | owned by a DockerRuntime |
| `filesystem.py` | none | atomic_write, bounded_read, path checks | the workspace directory, which destroy removes |
| `approvals.py` | none | require_approval | called between a Sandbox's checks and its backend call |
| `pool.py` `SandboxPool` | bounded queue, `_closed`, a lock | construct, acquire, close | a factory of Sandboxes |
| `session.py`, `_repl_server.py` | `_index`, `_started`; the server's `index` | start, run; serve | files `req-n.py`, `resp-n.json` in the workspace |
| `runtime/remote.py` | `_sandbox_id` | create, exec, files, destroy | HTTP requests to `server.py` |
| `server.py` | `sandboxes`, a lock | handlers, cleanup at shutdown | holds one Sandbox per id |
| `registry.py` | `_factories`, `_discovered`, a lock | register, create, discover | entry points; every Sandbox constructor |
| `runtime/kubernetes.py` | `_pod_name`, `_config`, `_core`, no lock | create, exec, files, destroy | cluster API |
| `reaper.py` | none; labels on the daemon | prune | containers and networks of processes that died, or live |
| `async_sandbox.py` | a queue per stream | bridge from a thread to an event loop | Sandbox |
| `_egress_proxy.py` | two sockets per connection | CONNECT, tunnel | runs in the sidecar, one thread per connection |
| `secrets.py`, `events.py`, `policy.py`, `models.py` | values | redact, emit, validate | Sandbox |
| `mcp_server.py`, `cli.py`, `integrations/`, `templates.py`, `git.py`, `artifacts.py`, `execution.py` | a table of sandboxes in the MCP server | adapters over Sandbox | callers |

What is hard here:

* **Unlocked tails.**  Every lock protects a few assignments; the work follows
  after the lock is released (the removals of `DockerRuntime.destroy`, the put of
  `SandboxPool.acquire`, the loading in `RuntimeRegistry.discover`, the DELETE of
  `RemoteRuntime.destroy`).
* **Five ways to end a sandbox** that do not know of each other: a caller, the
  lifetime timer, the deadline check of an execution, the backstop of an
  execution (which destroys the backend, not the Sandbox) and a failed boot.
* **Partial failure.**  A boot has up to eight steps, a release up to five;
  every one may fail, with exceptions of three unrelated families.
* **Numbers that are never exchanged**: the request counters of a session.
* **Lost and late messages**, crashes and restarts of the worker, and of the
  process that owns a sandbox.
* **Two clocks for one lifetime**: a label stamped before the boot, which the
  reaper reads, and a deadline computed after it, which the owner reads.
* **Threads behind iterators**: a generator whose deadline runs while its consumer
  is busy, a reader thread, and a worker thread that feeds an event loop.
* **No lock at all** in the Kubernetes backend, and one thread for both directions
  of a tunnel.

What makes the components correct: no resource is released twice, forgotten, or
removed under a container that has it mounted; the sandbox is destroyed once and
says so truthfully; its lifetime is enforced; the pool keeps its capacity, lends
a sandbox to one borrower and wakes its waiters; an answer belongs to its
question; the worker knows every sandbox it runs; a backend name stays what it is;
a stream delivers what was written, in order, and ends; a Pod has its network
policy and is not forgotten; the reaper takes what is orphaned and spares what
lives; a tunnel carries only what was allowed, and all of it.

## Modules

### DockerRuntime

One object, its sidecar, and the threads that share it.  `refs` is what the
object's fields name, `held[t]` what the local variables of a thread name while
it assembles or releases resources, and `world` what exists.  `_container`,
`_workspace`, the two fields of the sidecar and `_owns_image` are the five
`Kinds`.

| Actions | Code |
|---|---|
| `Prepare`, `ForkCopy`, `Assign`, `ConnectClient`, `StartNetwork`, `StartProxy`, `ConnectProxy`, `CreateContainer`, `StartContainer` | `create`, `fork`, `_prepare_workspace`, `_boot`, `EgressSidecar.start`, one per call that can fail |
| `CleanUp`, `EgressAbort`, `AbortEscapes` | `_cleanup_failed_create`; the except clause of `EgressSidecar.start`; an `OSError` inside that clause, which reaches the handlers of `_boot` |
| `Destroy` | the critical section of `destroy`, which swaps the fields out |
| `ReleaseOnDaemon`, `UnlinkEntries`, `RemoveDirectory`, `ReleaseDone` | the rest of `destroy` and of `_cleanup_failed_create`, in their order (`Rank`) |
| `Exec`, `ExecCreate`, `ExecStream`, `ExecInspect` | `_iter_exec`; the backstop is a disjunct of `ExecStream` |
| `Write`, `WriteTemp`, `WriteReplace` | `write_file`, `atomic_write` |

A daemon call may fail with an `APIError` ("api") or with an error that is no
`DockerException`, such as a refused connection ("transport"); which handlers
catch it differs from step to step and the model follows the handlers.  A call that
raises may have been carried out all the same (`Raised`): its answer was lost, or,
since docker-py creates and then inspects, its second half failed.  What it made is
then in no variable, and `unnamed` keeps it apart; the workspace of a `create` whose
working directory could not be made is there too.  `shutil.rmtree` is two steps,
since a file may be created between the unlinks and the `rmdir`; and it may fail for
other reasons, which `ignore_errors` hides: directories made by the sandbox's own
user, which the host process may not empty, or a container that was refused and
writes on.  Such a directory counts as `refused`, as a container does that the daemon
would not remove.  `read_file`, `snapshot`, `restore` and `logs` change no state of
the object and are left out.  A thread goes from `done` to `idle` by `Return`.

### Sandbox and SandboxContract

`Sandbox` EXTENDS `DockerRuntime`: a facade call runs on a thread of the backend,
`frame[t]` is that thread's place in `sandbox.py` and `pc[t]` its place in the
backend.  The timer is a thread of its own (`Timer`); it and the deadline share
the moment `Expire`.  The constructor starts the timer and then emits CREATED
(`Publish`, `EmitCreated`); the caller has the object, and can use it, after both.
An approval hook may take for ever (`Deny` and `StartExec` are not fair there).
`SandboxContract` is the promise without the mechanism: created once, executing
only while live, destroyed once, giving everything back.  `Contract` in `Sandbox`
instantiates it: live means that the backend's fields still name resources, and
what is left is what exists and was not `refused`.  Its
`ToldTheTruth`, `GoneForGood` and `WorkOnlyLive` are what a user of any backend that
keeps it may rely on.

### ExecStream

One execution, `_iter_exec`, which `DockerRuntime` treats as a few steps: the
process, the reader thread `consume`, its queue `messages`, the generator (`gen`
is where it stands, `handed` the chunk at its yield), the output budget, and the
application that iterates.  With `driver = "async"` a worker thread iterates and
forwards to `events`, the queue of the event loop in `AsyncSandbox.stream_shell`.
Bytes are numbered, so a lost, repeated or displaced one is seen.  `ends` says where
the daemon cuts the output into messages.  A message, and what of it is within the
limit, is decoded by itself (`Decode`): half of a character that begins at a byte of
`Wide` becomes U+FFFD (`Spoilt`).  Each chunk is redacted by itself (`Redact`): a
`Secret` is replaced (`Hidden`) where all of it is found.  stdout and stderr of one
message are one chunk.  `destroy` ends the process unless the daemon refuses to remove
the container (`refused`).  `time` passes `effective_timeout` and the
backstop; `wrapped` says whether coreutils `timeout` stops the process at the
first of them.  An application may leave its loop or be cancelled (`Leave`): a
generator is closed at its yield, the worker thread goes on.

### KubernetesRuntime

The fields of one object, each read and each assignment a step, because no lock
protects them; the Pod and the NetworkPolicy; and what the cluster does by itself
(`Schedule`, `PodEnds`, `Terminated`).  A call to the cluster succeeds, fails, or
is carried out although its answer is lost (`Call`).  `name[t]` and `conf[t]` are
the local variables of `exec` and `destroy`: `_id()` checks a field and reads it
again, so a thread may hold None.  `lost[t]` is a history variable, the point at which
`destroy` cleared a field that the execution of `t` had still to read.  `Contract` instantiates the same
`SandboxContract` that the Docker backend implements: live until `_pod_name` is
cleared.

### Reaper

`prune` over the daemon of `DockerRuntime`, which it EXTENDS: a thread of the owner
boots, destroys, fails, or is never scheduled again, which is how it is killed; two
pruners, one with `force_all`, run passes of their own.  `stamped` is the clock at
the head of `_boot`, where the label `agentnest.deadline` is computed, `liveAt`
the clock when the lifetime timer starts.  `attached` are the endpoints of the
network: the daemon refuses to remove a network that has any, and the containers
of a boot join it while a pass is under way (`Possible`, `Joining`).  The code stamps
the label in wall-clock time (`docker.py:105`) and measures the lifetime in monotonic
time (`sandbox.py:104`); the model has one `clock`, which assumes that the wall clock is
not set and the host not suspended in between.

### EgressTunnel

One connection: `_handle` from the request line to the last `sendall`, between a
client and a server that send, read, end or reset as they like, over socket
buffers of bounded `Room`.  Units sent are numbered.  What was read together with
the request line is dropped (`taken`).  A line cut short by the end of the stream, or
longer than `Limit` (65536 bytes in the code), is judged as whatever it then reads; of
an oversize one the rest stays in the socket and is the first thing the tunnel
carries.  `create_connection` may raise what is no `OSError` (`ConnectRaises`), and in a
behaviour that is `strained` select may end the tunnel by itself, for urgent data or a
descriptor it cannot watch (`SelectBreaks`).  A socket that is closed with data unread is reset, and its peer
may lose what it has not read (`Close`).

### SandboxPool

The queue, the flag and the local variables of every borrower's finally block,
one step per critical section or call.  `status` tells a sandbox that was
destroyed ("gone", as its flag says) from one whose backend the backstop
destroyed ("dead", which the flag does not say).  `lost` is a history variable
that counts replacements in which `destroy` or the factory raised.

### PythonSession

Both sides of the file protocol.  A snippet is the call it belongs to, a response
the call whose snippet made it; so a wrong answer can be seen.  Timeouts change
nothing but the caller's control, exactly as in `run`.  `execute` guards `ast.parse`
against `SyntaxError` only and a snippet may leave the interpreter, so one may be the
last that the server serves (the hazard "fatal", after which it is `killed`).
`executed` and `answers` are history variables.

### RemoteWorker

RemoteRuntime objects, requests under way as a set of records, and the worker.
A request is sent, served in up to four steps, answered and heard; a client may
give up at any point while the worker goes on, and a request nobody waits for may
be served or dropped.  Of the destruction of one Sandbox on the worker the model has
two halves, the flag (`Delete`, `Lifetime`) and the removal (`Remove`, `Expire`), which
the end of the process can come between; `Sandbox` takes it apart.  The thread of a
lifetime timer is a daemon thread: a sandbox it was about to remove when the process
ended is "cut".  The shutdown hook runs when no handler is running,
as ASGI servers do; the executor threads of handlers are therefore over before
`cleanup`.  `held`, `returned` and `suppressed` are history variables.

### Registry

The table of factories, the flag, and each thread's way through `create`,
`discover` and `register`.  A factory is represented by the call of `register` that
brought it: from where, by which thread, and with which `replace`.  Entry points in `Broken` may raise when they are loaded.

### Proof and MC modules

`DockerRuntime_proof`, `ExecStream_proof`, `KubernetesRuntime_proof`,
`EgressTunnel_proof`, `SandboxPool_proof`, `PythonSession_proof`,
`RemoteWorker_proof` and `Registry_proof` hold the theorems.  The first one EXTENDS
`Sandbox` and `Reaper` as well: what it proves of the facade and of the reaper rests
on the invariants of the backend, whose steps both take.  `MC*` modules name the model values and the sets the
configurations use.  Operators marked "Mutant" are variants of the definition that follows them
with one plausible mistake; each property of a passing run is violated when the
matching definition is replaced by its variant.

## Runs

Distinct states are those TLC reports.

| Run | Asks | States |
|---|---|---|
| `RuntimeSafety` | three threads exec, write and destroy while any daemon call fails, or is carried out and raises: `SingleReleaser`, `MountOutlivesContainer`, `FailedBootLeaves` | 3,084,432 |
| `SandboxSafety` | callers, timer, deadline check and backstop race: `NoOrphan`, `Truthful`, `FlagGoesFirst`, and the refinement `KeepsContract` | 141,031 |
| `PoolSafety` | borrowers, failing factories and close: `Custody`, `CapacityKept`, `SomeoneServed` | 156,812 |
| `SessionSafety` | calls that time out, cannot read their answer or end the interpreter: `InStep`, `InOrder`, `NeverCrashes`, `MatchUntilFailure`, `Answered` | 22,584 |
| `RemoteSafety` | lost messages, refusals, shutdown, crash and restart: `Accounted`, `ShutdownDestroysAll`, `DestroyGoneIfAnswered` | 3,966,397 |
| `RegistrySafety` | threads that construct while plugins load, fail or clash: `OneLoader`, `DiscoveryComplete`, `FirstWins`, `UnknownOnlyWhileLoading` | 200,003 |
| `StreamSafety` | a slow, patient or departing consumer, sync and async, wrapped or not: `StreamFaithful`, `FinishedIsSpared`, `StreamEnds`, `RunawayStopped` | 1,114,368 |
| `KubernetesSafety` | create, exec, destroy and the timer's destroy without a lock: `ForgottenIsGone`, `PolicyInPlace`, `RaceIsReported`, and the refinement `KeepsContract` | 934,437 |
| `ReaperSafety` | two pruners against an owner that may stop anywhere: `ReportsTruthful`, `LivingSpared`, `OrphansReaped` | 546,433 |
| `TunnelSafety` | one proxied connection: `TunnelFaithful`, `CheckedFirst`, `RequestSettled`, `TunnelEnds` | 207,926 |
| `PoolCloseRace`, `SessionLateAnswer` | a statement of the repository that the code does not keep; see below | |

Every run but the last two also checks the type invariant of its module.  Some
properties are conjunctions of named parts, each with a comment of its own:

* `Truthful`: `DestroyedOnce`, `AnnouncedMeansDetached`, `DestroyedMeansDetached`
  and `CreatedFirst`;
* `Custody`: `Exclusive`, `NoneLost` and `UsesBounded`;
* `StreamFaithful`: `PrefixReceived` and `StatusVouches`;
* `PolicyInPlace`: `RestrictedWhileLive` and `UnrestrictedOnlyAround`;
* `TunnelFaithful`: `TunnelStream` and `LastWordsArrive`.

`KeepsContract` contains the liveness of `SandboxContract`: a live sandbox ends,
and gives back what it holds, without anyone calling `destroy`.  Docker and
Kubernetes backends are shown to implement the same contract, the one with a
lock and the other without.

### Bounds, and why they are enough

* *Threads.*  Two callers and a timer, or three callers.  The conflicts in this
  code are between one thread in an unlocked tail and one that changes what it
  relies on; a third thread is there for a second destroyer beside an execution.
* *Resources.*  All five kinds, all three network policies, all origins.
* *Pool.*  Size 2, three borrowers (more than sandboxes, so that somebody waits),
  two uses, four sandbox identities: two in the pool and two for replacements
  under way.  Identities are reused once a sandbox is gone and nowhere named.
* *Session.*  `MaxCalls = 7` calls of which any number may time out, so that the
  counters pass through every relation of `InStep` several times.
* *Remote.*  Two objects with one thread each, two ids.  A thread that has given
  up leaves a request behind that races with its later ones, so one object has
  several requests under way.  Objects and ids are interchangeable in every
  invariant of this run, hence the symmetry.
* *Stream.*  Five bytes, cut into messages in every way, and a limit of four, so that
  the limit falls at the end of a message and inside one, and messages come after it.
  The characters are 1, 2-3 and 4-5, the first two spell a secret: the end of a message
  may fall inside the one character and the limit inside the other, and the secret may
  come in one piece or in several.
* *Kubernetes.*  Two callers and the timer's thread: a creator or execution, and
  two destroyers.
* *Reaper.*  Lifetime and grace of one tick and a clock of two: the boot may take
  no time, the grace period, or longer, and a label may expire before, during and
  after a pass.  One thread of the owner, an allowlist (all labelled kinds of resources), a
  regular pruner and a forced one.  A sandbox is stamped early enough that its
  grace period ends within the clock.
* *Tunnel.*  Buffers of two units, a request line of two or of four with a limit of
  two, five units of the client and three of the server: a line arrives whole, in parts,
  with more, or is too long and judged before its end, and a `sendall` blocks in the
  middle.
* *Registry.*  Three threads; two plugins, one of which may fail and one whose
  name a program uses; one builtin.

Deadlock checking is off where the system may rest: callers need not call again,
a closed pool is finished.  `RegistrySafety` keeps it on.

### Fairness, and why the code justifies it

* `Sandbox!FairSpec`: `Expire` (time passes), `FireTimer` (`threading.Timer`
  runs once started), and every thread inside a call, except in an approval hook,
  which is the application's.  An execution ends because the backstop bounds it.
  No caller is assumed to call `destroy`.
* `SandboxPool!FairSpec`: borrowers leave their `with` block and run its finally
  block, and a waiter on a non-empty queue is woken.  The owner fills and drains.
* `ExecStream!FairSpec`: the generator, the reader, the worker thread and the event
  loop run, time passes, `timeout` kills, and an application that holds a chunk
  comes back or leaves.  A process need not write, exit or be ended by others.
* `KubernetesRuntime!FairSpec`: calls go on, the lifetime timer calls `destroy`
  if nobody has, and the kubelet completes a deletion.
* `Reaper!ReaperFairSpec`: time passes and somebody runs `prune` again and again (it is
  meant for cron); the daemon does not fail its lists and removals for ever.
  Nothing is assumed of the owner.
* `EgressTunnel!FairSpec`: the connection's thread runs.  Nothing is assumed of the
  peers, which are programs nobody vouches for: none has to send, to read or to end.
* `PythonSession!FairSpec`: the server process runs on, and the host polls.
  Neither `Run` nor `Timeout` is fair.

`SomeoneServed` speaks of somebody, not of everybody: `queue.Queue` does not
promise an order among waiters.

## What the code does not do

Two statements of the repository have a run in which TLC violates them:

* `PoolCloseRace`.  A borrower that copied the closed flag before `close` puts its
  sandbox into the queue that `close` has drained.
* `SessionLateAnswer`.  After a timeout the next call reuses the index and may be
  given the answer of the earlier code.  (With `Sessions <- TwoSessions` and no
  hazard at all, the two sessions of a sandbox read each other's answers.)

Others are stated, as exactly as the code keeps them, by properties of passing
runs:

* `FailedBootLeaves`.  `EgressSidecar.start` raises `RuntimeNotAvailableError`,
  which no handler of `_boot` lists, and `as_domains` raises outside the try block:
  the workspace directory of such a failed create stays, and so does the image of a
  fork (`MayLeave`).  With any network, the call that failed may have made its container,
  image, network or proxy, which nothing names (`unnamed`), and a working directory that
  cannot be made (`docker.py:83-85`) leaves the workspace.
* `NoOrphan`, `AnnouncedMeansDetached`, `KeepsContract`.  `rmtree` ignores every error:
  the workspace of a sandbox whose user made directories of its own may stay, and nobody
  is told (`refused`).
* `FlagGoesFirst`.  The backstop of an execution destroys the backend only;
  `Sandbox.destroyed` goes on saying False and no DESTROYED event is emitted.  The
  pool's replacement test reads this flag, so a dead sandbox is put back for reuse.
* `CreatedFirst`.  A lifetime that is over before the constructor has emitted
  CREATED puts DESTROYED first.
* `DestroyGoneIfAnswered`.  `RemoteRuntime.destroy` forgets the id, then suppresses
  the failure of the DELETE; the sandbox runs on until its lifetime ends, although
  `docs/architecture.md:91` says that destroy "removes every owned resource".
* `ShutdownDestroysAll`.  `cleanup` passes over a sandbox whose timer has set the flag;
  if the process ends before the timer's daemon thread has removed it, its container
  runs on (the status "cut").
* `Answered`.  A snippet whose parsing raises `RecursionError`, `MemoryError` or, in older
  interpreters, `ValueError` ends the session's server: this call and all later ones
  time out.
* `PrefixReceived`.  Chunks are decoded and redacted one by one: a character that the
  end of a message or the limit tears apart arrives as U+FFFD, and a secret that comes
  in two chunks is shown.
* `RunawayStopped`.  Without coreutils `timeout`, a command whose iteration was
  closed at a yield, or whose reader thread failed, runs on: nobody is left to look
  at the deadline.  So does any command whose container the daemon refuses to remove.
* `FinishedIsSpared`.  A consumer that is slower than the backstop loses the
  sandbox although the command has finished, because its output is still queued.
* `RaceIsReported`.  An execution on Kubernetes under which `destroy` clears `_config`
  between the check and the read of `_require_config` may raise AttributeError and not an
  exception of the package; at every other point it is told in the package's terms.
* `OrphansReaped`.  Only what carries a label is reaped; a workspace directory and
  the committed image of a fork do not, though `README.md:34` speaks of every
  resource.
* `LivingSpared`.  The label counts from the start of the boot, so a boot longer
  than the grace period lets a regular prune take a sandbox that lives.
* `TunnelEnds`.  `_pump` has one thread and a `sendall` without a timeout: a peer that
  stops reading (`HeldUp`) keeps the thread and both sockets for ever, even after the
  other peer has gone, and with a peer that writes everything before it reads both may
  wait for each other.
* `CheckedFirst`.  A request line beyond 65536 bytes is judged by what was read of it,
  and if that names an allowed host the rest of the line goes to the server.
* `TunnelStream`.  Data a client sends in one segment with its request is dropped;
  header lines that arrive in a later segment than the request line go to the
  server.

The passing runs also state the exact remainder of some further behaviours a reader
may trip over: a replacement whose factory raises costs the pool one sandbox for good
(`CapacityKept` counts them); a write that slips between `rmtree`'s unlinks and
its `rmdir` keeps the directory (`Spoiled` in `NoOrphan` and `AnnouncedMeansDetached`); an
installed plugin is called unknown while another thread is loading the entry
points (`UnknownOnlyWhileLoading`); a waiter without a timeout on a closed pool that
has got its last sandbox back waits for ever (`SomeoneServed`, whose one exception that
is); a pool hands out a sandbox that is dead already, against `pool.py:17-18`, which no
property excludes (`CapacityKept` only counts it); after a crash of the worker its
sandboxes run on as "orphan", of which no property speaks; an error of the daemon that is no `APIError`
escapes from `destroy` after the fields were cleared, so what is left has no name
any more (`NoOrphan` is therefore asked without "transport" only); a command
killed by coreutils `timeout` does not destroy its sandbox, one stopped by the
backstop does (`ExecInspect`, `ExecStream`); and a second `destroy` returns while
the first is still removing things (`AlreadyDestroyed`).

## Theorems

All hold for every value of the constants that satisfies the `ASSUME` of the
module, and, where said, one more hypothesis.

* `DockerRuntime_proof`, the backend
  * `TypeCorrect`: `RuntimeSpec => []TypeOK`.
  * `OneReleaser`: `RuntimeSpec => []SingleReleaser`.  `SingleReleaser` alone is
    not inductive: a thread about to start a release overwrites its `held`, and a
    `Prepare` fills `held` while `refs` may be anything.  `Shape` adds what the
    code relies on without saying it: a thread holds something only at the points
    `Holding`, one thread boots at most, and before it has assigned the fields
    they are empty.  `ReleaserInv` is the conjunction.
  * `NothingOrphaned`: `Healthy => (RuntimeSpec => []NoOrphan)`.  `Healthy` leaves
    out a CIDR allowlist, a sidecar on a daemon that fails and transport errors,
    each of which makes orphans in this code; what could not be removed, what a call
    that raised had made, and a directory that a write slipped into are named by
    `NoOrphan` itself.  `OrphanInv` adds `Quiet`: only a boot with an
    allowlist is at the sidecar's steps, and a boot that is releasing has emptied
    the fields, so that recording it as failed forgets nothing.
  * `MountOutlives`: `RuntimeSpec => []MountOutlivesContainer`.  `MountSafe` adds that
    whoever names the directory, a field or a thread, names the container too, or
    the container is gone or was refused (`Guarded`), and that the directory is
    named while a boot builds on it (`Assembled`).  So the thread that comes to
    `rmdir` has dealt with the container before, which is the order of the
    statements (`Rank`) in `destroy` and in `_cleanup_failed_create`.
  * `LeavesNoMore`: `RuntimeSpec => FailedBootLeaves`, for every policy, origin and
    error.  `LeaveInv` follows a boot: what it has created so far is in the fields
    or in the hands of the thread that boots, but for what `MayLeave` allows, so
    the step that records the failure, with nothing in hand, leaves no more; and what
    calls that raised have made is one thing, or the sidecar's two.
* `DockerRuntime_proof`, the facade over it (`Spec` of `Sandbox`)
  * `DestroyedByOne`, `SaysTheTruth`: the parts of `Truthful` that hold of every
    daemon, and, on a daemon that answers (`Answering`: no transport errors, after
    which `destroy` forgets what it held), all of it.  `FacadeInv` says which
    points of the backend a thread may be at for each place in `sandbox.py`
    (`InFacade`), that whoever has set the flag is alone with it until the event is
    out (`OneDestroyer`), and that nobody but the timer destroys before the
    constructor has returned (`OnTime`).  `LiveCovered` carries `NoOrphan` over to
    a sandbox that was live, without `Healthy`: what orphans a boot cannot happen
    to an object that was handed out.
  * `FacadeOrphansNothing`: `Healthy => (Spec => []NoOrphan)`, the formula the run
    checks, for the calls the facade makes.
  * `FlagIsFirst`: `Spec => FlagGoesFirst`.
  * `SandboxKeepsContract`: the safety half of `KeepsContract`; each step maps to a
    step of `SandboxContract` or to a stutter, whatever the daemon answers.
  * `SandboxTellsTheTruth`, `SandboxIsGoneForGood`, `SandboxWorksOnlyLive`:
    `Spec => []Contract!ToldTheTruth`, `Contract!GoneForGood` and
    `Contract!WorkOnlyLive`.  They use `SandboxKeepsContract` and the contract's own
    actions, nothing of the backend: DESTROYED is emitted of a destroyed sandbox
    only, executions reach the backend only while it is live, and a destroyed one
    stays so, with nothing coming back.
* `DockerRuntime_proof`, the reaper beside it
  * `ReportsAreTrue`: `ReaperSpec => []ReportsTruthful`, for any number of pruners
    and of threads of the owner.  A report could be falsified by a boot that
    creates again what was removed; `OnceBorn` rules it out (what a boot has still
    to create, `Unborn`, neither exists nor is in a report), and it needs
    `ReleaserInv`: one thread boots.
  * `GraceSpares`: `ReaperSpec => LivingSpared`.  `Overdue` says that a pass which
    holds something to remove read, before its list, a clock past the deadline on
    the label, and `OnceStamped` that the label is not stamped after that.
* `ExecStream_proof`
  * `StreamTellsTheTruth`, `OverIsSpared`: `Spec => []StreamFaithful` and
    `Spec => FinishedIsSpared`, for any output, messages, characters, secret, limit,
    queue and consumer, without a further hypothesis.  `StreamInv` describes the two queues by cut points
    (`Cuts` for `messages`, `Chain` for `events`): the bytes in a queue, the chunk in hand and what was
    received are consecutive runs of what the process wrote, so no step has to
    reason on the queue as a whole; a run is decoded, and then redacted, into what
    `Shown` says of its bytes.  `EndIsLast` says that nothing is behind the
    end marker, and `Places` what each actor holds at each point.
* `EgressTunnel_proof`
  * `TunnelKeepsStreams`, `CheckedBeforeForwarded`: `Spec => []TunnelFaithful` and
    `Spec => []CheckedFirst`, for any request line, buffers and peers.  The invariant
    `Safe` numbers each unit on its way (`Nth`): the buffer of a socket, what the
    proxy has in hand and the buffer of the other socket are consecutive runs while
    nobody has reset (`Seen`, `Chains`), and there is no server before the host was
    judged (`Stages`, `Allowed`).  `LastWordsArrive`, which speaks of a closed
    tunnel, is carried along: `Chains` is what establishes it at the close.  That no
    reading goes on past the limit is part of `Stages`.
* `SandboxPool_proof`
  * `CustodyHolds` and `CapacityIsKept`: `Spec => []Custody`, `Spec => []CapacityKept`.
    The invariant `PoolInv` adds what a borrower's local variables hold at each
    point (`InHands`) and a count of the slots (`Counted`: queued, in flight and
    lost are `Size` from the moment the pool opens); the lemmas on the queue
    (`QueueTail`, `QueueAppend`) turn a sequence into the set of sandboxes in it.
* `RemoteWorker_proof`
  * `NothingLost`, `ShutdownEndsAll`, `AnsweredMeansGone`: `Spec => []Accounted`,
    `[]ShutdownDestroysAll` and `[]DestroyGoneIfAnswered`.  `RemoteInv` says which
    object a request belongs to (`Belongs`), at which points a handler may be
    (`Served`), that an id is issued once and an object created once (`Creates`,
    `Issued`), where a live sandbox is known in each state of the worker
    (`Tracked`), and that a DELETE past its destroy has ended its sandbox, or found
    its timer at it (`Ended`).  It is `Creates` that makes the answer "not found" safe: an id that
    a client holds is not about to be entered in the table.
* `KubernetesRuntime_proof`
  * `NothingForgotten`, `PolicyHolds`, `RacesAreReported`: `Spec => []ForgottenIsGone`,
    `[]PolicyInPlace` and `RaceIsReported`, an action property about the last step of an
    execution, for which `Struck` relates `lost` to what the thread has still to read
    and to what it holds.  `Named` is the heart of `KubeInv`: what
    exists and was not refused is named by the field or by the local copy of a
    thread that has still to delete it.  Since no lock orders the threads, it needs
    `Cleared` (the fields go one after the other and for good, and a thread clears
    only a name it has copied) and `Ordered` (the Pod goes before its policy).
  * `StepsKeepContract`: the safety half of `KeepsContract`; every step of the
    backend is a step of `SandboxContract` or leaves its variables alone.
  * `PodIsGoneForGood`, `PodWorksOnlyLive`: `Contract!GoneForGood` and
    `Contract!WorkOnlyLive`, with the same proofs as for Docker.  `ToldTheTruth` is
    not listed for this backend, which announces nothing.
* `PythonSession_proof`, for one session per sandbox (`OneServer`), which the code
  needs and does not enforce
  * `SessionTypeCorrect`, `CountersInStep`, `ServerSurvives`.  `InStep` relates
    numbers only; `Protocol` says which files exist at which point of the server's
    loop and for which indices, and it is what makes every step of `InStep` and of
    `NeverCrashes` go through.
  * `ExecutesInOrder`: `Spec => []InOrder`.  `OrderInv` adds that a request the
    server has still to read is younger than all it has executed, because a call
    that overwrites a request bears a higher number than the one it replaces.
  * `AnswersMatchUntilFailure`: `Spec => []MatchUntilFailure`.  `MatchInv` says what
    request and response files hold while no call has failed.
* `Registry_proof`
  * `RegistryTypeCorrect`, `LoadedByOne` (`OneLoader` with the type invariant is
    inductive: the flag is set in the step that enters the loop), `NamesAreKept`
    (`FirstWins`, an action property).
  * `DiscoveryLosesNone` and `UnknownExplained`: `Spec => []DiscoveryComplete` and
    `[]UnknownOnlyWhileLoading`, from `DiscoverInv`, whose conjunct `Discovered` says
    that what the loader's iteration has passed is in the table.

So every safety property of a passing run, invariant or action property, is a
theorem.  Only model-checked are the liveness properties and with them the liveness
half of the two refinements `KeepsContract`, because the provers reason neither
about fairness nor about ENABLED, and the two violations reported above, which
are what TLC finds.  Each hypothesis (`Healthy`, `Answering`, `OneServer`)
excludes a behaviour named under "What the code does not do", and the run that
checks the property satisfies it.

## Not modelled

* The store of remembered secrets (`redact` of a chunk is in `ExecStream`), policy
  validation, snapshots, artifacts, templates, git
  helpers, command line and framework adapters: no shared state, or pure data.
  `_remember_secrets` only feeds `redact`.
* Observers beyond CREATED and DESTROYED: they are passive and their exceptions
  are suppressed.
* The MCP server: a table like the API server's; how its calls overlap is decided
  by a library.
* `execution.py`: no backend calls it.
* The evaluation of a snippet by the session's server, and the transfer of one
  file by a remote worker, are one step; the authorization of the API server is
  none.
* A `start` of a session that raises after it has launched the server: the next `run`
  would launch a second one over the same files.  `NeverCrashes` speaks of missing files,
  not of what a snippet does to the interpreter (`Answered` does).
* Of `RemoteSafety`, an HTTP 5xx from a TLS proxy in front of the worker, and several
  threads on one object (its theorems are for any number).
* Of the cluster, a create that is carried out after the delete which follows it, and a
  Pod that others delete while the sandbox is live.  A terminating Pod may
  still run code for a while; `UnrestrictedOnlyAround` does not speak of it.
* `host_allowed` and `_timeout_wrap` enter as their results.
* `atomic_write` is two steps of `DockerRuntime`; two writers of one path are
  ordered by `os.replace` and by nothing in this code.

## Plan

1. `DockerRuntime`, `Sandbox` over it, `SandboxContract` above it (done).
2. `SandboxPool`, `PythonSession`, `RemoteWorker`, `Registry` (done).
3. `ExecStream` with `AsyncSandbox`'s bridge, `KubernetesRuntime` against
   `SandboxContract`, `Reaper` over `DockerRuntime`, `EgressTunnel` (done).
4. Theorems about every safety property of the runs, for `DockerRuntime`, `Sandbox`,
   `Reaper`, `ExecStream`, `KubernetesRuntime`, `EgressTunnel`, `SandboxPool`,
   `PythonSession`, `RemoteWorker` and `Registry` (done).
5. What `SandboxContract` alone implies, as theorems of both backends; a third
   backend has to be shown to keep the contract and nothing more (done).
6. Left: the keys of remembered secrets, a session started twice, a dead sandbox in the
   pool and the orphans of a crashed worker, which no property excludes, and liveness,
   once a prover reasons about ENABLED.

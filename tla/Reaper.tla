-------------------------------- MODULE Reaper --------------------------------
(***************************************************************************)
(* `agentnest prune` (agentnest/reaper.py) beside the process that owns a  *)
(* sandbox: passes of several pruners, the deadline label that _boot       *)
(* stamps on what it creates, the lifetime that Sandbox measures on its    *)
(* own.  The owner's threads are those of DockerRuntime; they may be slow,  *)
(* hang or be killed anywhere, which is to take no further step.           *)
(***************************************************************************)
EXTENDS DockerRuntime

CONSTANTS
    Pruners,     \* processes that run prune
    Regular,     \* the one that does so regularly
    Forced,      \* those that run it with force_all
    Lifetime,    \* config.timeout
    Grace,       \* grace
    MaxClock     \* bound on time.time(): no sandbox is stamped so late that its
                 \* grace period would end after it

ASSUME ReaperAssumption ==
    /\ Forced \subseteq Pruners /\ Regular \in Pruners
    /\ Lifetime \in Nat /\ Grace \in Nat /\ MaxClock \in Nat

VARIABLES
    clock,       \* time.time(); also time.monotonic(), as if the wall clock were
                 \* never set and the host never suspended
    stamped,     \* when _boot computed the label agentnest.deadline
    liveAt,      \* when Sandbox._deadline was computed
    attached,    \* containers with an endpoint on the network
    at,          \* where each pruner is in prune
    now,         \* its local now
    todo,        \* expired resources of its list, or endpoints of its reload
    report       \* its PruneReport

ownerVars == <<runtimeVars, stamped, liveAt>>
prunerVars == <<at, now, todo, report>>
reaperVars == <<ownerVars, prunerVars, clock, attached>>

Labelled == {"container", "proxy", "network"}
Never == MaxClock + 1

ReaperTypeOK ==
    /\ TypeOK
    /\ clock \in 0..MaxClock
    /\ stamped \in 0..Never /\ liveAt \in 0..Never
    /\ attached \subseteq {"container", "proxy"} \cap world
    /\ at \in [Pruners -> {"idle", "list", "containers", "network"}]
    /\ now \in [Pruners -> 0..MaxClock]
    /\ todo \in [Pruners -> SUBSET Labelled] /\ report \in [Pruners -> SUBSET Labelled]

ReaperInit ==
    /\ RuntimeInit
    /\ clock = 0 /\ stamped = Never /\ liveAt = Never
    /\ attached = {}
    /\ at = [p \in Pruners |-> "idle"]
    /\ now = [p \in Pruners |-> 0]
    /\ todo = [p \in Pruners |-> {}] /\ report = [p \in Pruners |-> {}]

-----------------------------------------------------------------------------
(* The owner.                                                              *)

\* What a step of the owner finds on the daemon, where a pruner may have been:
\* the network cannot be joined, nor the container started, once they are gone.
Possible(t) ==
    /\ pc[t] = "boot_connect" /\ pc'[t] = "boot_container"
           => {"network", "proxy"} \subseteq world
    /\ phase' = "live" /\ phase = "booting"
           => "container" \in world /\ (mode.net = "domains" => "network" \in world)

Joining(t) ==
    CASE pc[t] = "boot_connect" /\ pc'[t] = "boot_container" -> {"proxy"}
      [] phase' = "live" /\ phase = "booting" /\ mode.net = "domains" -> {"container"}
      [] OTHER -> {}

\* The label is stamped in the head of _boot, in wall-clock time, the lifetime starts
\* when the boot is over, in monotonic time.  Nothing is executed here: whether the image ships `timeout` is moot.
OwnerStep(t) ==
    /\ Internal(t) \/ Client(t) \/ Return(t)
    /\ Possible(t) /\ hasTimeout' = FALSE
    /\ attached' = IF "network" \in world' THEN (attached \cup Joining(t)) \cap world' ELSE {}
    /\ stamped' = IF pc[t] = "boot_assign" THEN clock ELSE stamped
    /\ stamped' # Never => stamped' + Lifetime + Grace <= MaxClock
    /\ liveAt' = IF phase = "booting" /\ phase' = "live" THEN clock ELSE liveAt
    /\ UNCHANGED <<clock, prunerVars>>

Tick ==
    /\ phase # "new" /\ clock < MaxClock
    /\ clock' = clock + 1
    /\ UNCHANGED <<ownerVars, attached, prunerVars>>

-----------------------------------------------------------------------------
(* prune.                                                                  *)

Move(p, from, to) == at[p] = from /\ at' = [at EXCEPT ![p] = to]
Note(p, r) == report' = [report EXCEPT ![p] = @ \cup {r}]
DaemonFrame == <<mode, phase, pc, refs, held, refused, unnamed, entries, hasTimeout, after,
                 outcome, stamped, liveAt, clock>>

\* The pass is over, or raises: its local variables are gone.
End(p, from) ==
    /\ Move(p, from, "idle")
    /\ now' = [now EXCEPT ![p] = 0]
    /\ todo' = [todo EXCEPT ![p] = {}]

\* A pass begins with the time it compares the labels with; with force_all it
\* compares nothing, and the time is left out.
PruneStart(p) ==
    /\ phase # "new"
    /\ Move(p, "idle", "list")
    /\ now' = [now EXCEPT ![p] = IF p \in Forced THEN 0 ELSE clock]
    /\ report' = [report EXCEPT ![p] = {}]
    /\ UNCHANGED <<DaemonFrame, world, attached, todo>>

\* Mutant: the grace period is forgotten.
ExpiredAtOnce(p) == p \in Forced \/ now[p] >= stamped + Lifetime

\* force_all, or past the deadline on the label and the grace period.
Expired(p) == p \in Forced \/ now[p] >= stamped + Lifetime + Grace

\* containers.list, all of them.  It inspects what it listed, and raises when one
\* of them is gone by then; so it may fail as any call to the daemon may.
ListContainers(p) ==
    /\ \/ /\ Move(p, "list", "containers")
          /\ todo' = [todo EXCEPT ![p] =
                          IF Expired(p) THEN world \cap {"container", "proxy"} ELSE {}]
          /\ UNCHANGED now
       \/ End(p, "list")
    /\ UNCHANGED <<DaemonFrame, world, attached, report>>

\* Mutant: the name is reported before the container is removed.
RemoveContainerReportFirst(p, r) ==
    /\ at[p] = "containers" /\ r \in todo[p]
    /\ todo' = [todo EXCEPT ![p] = @ \ {r}]
    /\ \/ r \in world /\ world' = world \ {r} /\ attached' = attached \ {r}
       \/ UNCHANGED <<world, attached>>
    /\ Note(p, r)
    /\ UNCHANGED <<DaemonFrame, at, now>>

\* container.remove: an error, NotFound among them, is suppressed and leaves the
\* container off the report.
RemoveContainer(p, r) ==
    /\ at[p] = "containers" /\ r \in todo[p]
    /\ todo' = [todo EXCEPT ![p] = @ \ {r}]
    /\ \/ r \in world /\ world' = world \ {r} /\ attached' = attached \ {r} /\ Note(p, r)
       \/ UNCHANGED <<world, attached, report>>
    /\ UNCHANGED <<DaemonFrame, at, now>>

\* Mutant: networks are left to the owner.
ListNetworksNever(p) ==
    /\ todo[p] = {}
    /\ End(p, "containers")
    /\ UNCHANGED <<DaemonFrame, world, attached, report>>

\* networks.list, and network.reload of one that is expired, which tells its
\* endpoints; an error ends the pass or skips the network, the only one here.
ListNetworks(p) ==
    /\ todo[p] = {}
    /\ \/ /\ "network" \in world /\ Expired(p) /\ Move(p, "containers", "network")
          /\ todo' = [todo EXCEPT ![p] = attached]
          /\ UNCHANGED now
       \/ End(p, "containers")
    /\ UNCHANGED <<DaemonFrame, world, attached, report>>

Disconnect(p, r) ==
    /\ at[p] = "network" /\ r \in todo[p]
    /\ todo' = [todo EXCEPT ![p] = @ \ {r}]
    /\ attached' \in {attached, attached \ {r}}
    /\ UNCHANGED <<DaemonFrame, world, at, now, report>>

\* network.remove is refused while an endpoint is left, or has come since.
RemoveNetwork(p) ==
    /\ todo[p] = {}
    /\ End(p, "network")
    /\ \/ /\ "network" \in world /\ attached = {}
          /\ world' = world \ {"network"} /\ Note(p, "network")
       \/ UNCHANGED <<world, report>>
    /\ UNCHANGED <<DaemonFrame, attached>>

PruneStep(p) ==
    \/ PruneStart(p) \/ ListContainers(p) \/ ListNetworks(p) \/ RemoveNetwork(p)
    \/ \E r \in Labelled : RemoveContainer(p, r) \/ Disconnect(p, r)

-----------------------------------------------------------------------------
(* Specification.                                                          *)

ReaperNext ==
    (\E t \in Threads : OwnerStep(t)) \/ Tick \/ (\E p \in Pruners : PruneStep(p))

ReaperSpec == ReaperInit /\ [][ReaperNext]_reaperVars

\* Time passes, one pruner runs prune again and again, and the daemon does not
\* fail its lists and its removals for ever.  Nothing is assumed of the owner.
ReaperFairSpec ==
    /\ ReaperSpec /\ WF_reaperVars(Tick) /\ WF_reaperVars(PruneStep(Regular))
    /\ SF_reaperVars(ListContainers(Regular) /\ at'[Regular] = "containers")
    /\ SF_reaperVars(ListNetworks(Regular) /\ at'[Regular] = "network")
    /\ SF_reaperVars(PruneStep(Regular) /\ <<world, attached>>' # <<world, attached>>)

-----------------------------------------------------------------------------
(* Properties.                                                             *)

\* The grace period pays for the boot: a sandbox whose lifetime is
\* not over loses a resource to a pruner, other than with force_all,
\* only if booting took longer than the grace period, since the label counts from
\* the start of the boot and the lifetime from its end.
LivingSpared ==
    [][\A p \in Pruners :
           report'[p] \ report[p] # {} /\ p \notin Forced /\ phase = "live"
               /\ clock < liveAt + Lifetime
           => liveAt - stamped > Grace]_reaperVars

\* A report is the truth and belongs to one pass: what it names is gone, and of two
\* pruners racing for a resource, with the owner beside them, one at most takes the
\* credit.
ReportsTruthful ==
    /\ ReaperTypeOK
    /\ \A p \in Pruners : report[p] \cap world = {}
    /\ \A p, q \in Pruners : p # q => report[p] \cap report[q] = {}

\* Whatever becomes of the owner, killed or stuck at any step of a boot or of a
\* release, in the end nothing that carries a label is left.
OrphansReaped == <>[](world \cap Labelled = {})
=============================================================================

------------------------- MODULE DockerRuntime_proof -------------------------
(***************************************************************************)
(* Theorems about the Docker runtime, for any threads and failures, and,   *)
(* on top of its invariants, about the two that work on the same backend:  *)
(* the facade Sandbox that owns it, for any callers, and the reaper, for   *)
(* any pruners.                                                            *)
(***************************************************************************)
EXTENDS Sandbox, Reaper, TLAPS

\* What a thread may do, whether or not its program is one that makes the call.
Steps(t) == \/ Internal(t) \/ Return(t)
            \/ Prepare(t) \/ Destroy(t) \/ Exec(t) \/ Write(t)

LEMMA NextIsStep == RuntimeNext => \E t \in Threads : Steps(t)
  BY DEF RuntimeNext, Client, Steps

\* Every step of a thread, with its parameters, as the proofs below split it.
LEMMA StepCases ==
    ASSUME NEW t \in Threads, Steps(t)
    PROVE  \/ Prepare(t) \/ ForkCopy(t) \/ Assign(t) \/ ConnectClient(t)
           \/ StartNetwork(t) \/ StartProxy(t) \/ ConnectProxy(t)
           \/ CreateContainer(t) \/ StartContainer(t)
           \/ ReleaseOnDaemon(t) \/ AbortEscapes(t)
           \/ UnlinkEntries(t) \/ RemoveDirectory(t) \/ ReleaseDone(t)
           \/ Destroy(t) \/ Exec(t) \/ ExecCreate(t)
           \/ ExecStream(t) \/ ExecInspect(t)
           \/ Write(t) \/ WriteTemp(t) \/ WriteReplace(t)
           \/ Return(t)
  BY DEF Steps, Internal, BootStep, ReleaseStep, CallStep

-----------------------------------------------------------------------------
(* Type correctness.                                                       *)

LEMMA ReleaseType ==
    ASSUME TypeOK, NEW t \in Threads, NEW from, NEW taken \in SUBSET Kinds,
           NEW result \in Outcomes,
           StartRelease(t, from, taken, result), UNCHANGED ReleaseFrame,
           world' \subseteq Kinds, unnamed' \subseteq Kinds
    PROVE  TypeOK'
  BY DEF TypeOK, StartRelease, ReleaseFrame, Goto, Points

LEMMA CleanUpType ==
    ASSUME TypeOK, NEW t \in Threads, NEW from, NEW result \in Outcomes,
           NEW kinds \in SUBSET Kinds, CleanUp(t, from, result, kinds)
    PROVE  TypeOK'
<1>1. refs \in SUBSET Kinds
  BY DEF TypeOK
<1>2. world' \subseteq Kinds /\ unnamed' \subseteq Kinds
  BY DEF CleanUp, Raised, TypeOK
<1>3. QED
  BY <1>1, <1>2, ReleaseType DEF CleanUp

LEMMA EgressAbortType ==
    ASSUME TypeOK, NEW t \in Threads, NEW from, NEW kinds \in SUBSET Kinds,
           EgressAbort(t, from, kinds)
    PROVE  TypeOK'
<1>1. refs \cap {"proxy", "network"} \in SUBSET Kinds /\ "unavailable" \in Outcomes
  BY DEF Kinds, Outcomes
<1>2. world' \subseteq Kinds /\ unnamed' \subseteq Kinds
  BY DEF EgressAbort, Raised, TypeOK
<1>3. QED
  BY <1>1, <1>2, ReleaseType DEF EgressAbort

LEMMA ProvisionType ==
    ASSUME TypeOK, NEW t \in Threads, NEW from, NEW kind \in Kinds, NEW to \in Points,
           Provision(t, from, kind, to)
    PROVE  TypeOK'
  BY DEF TypeOK, Provision, Goto

LEMMA AdvanceType ==
    ASSUME TypeOK, NEW t \in Threads, NEW from, NEW to \in Points, Advance(t, from, to)
    PROVE  TypeOK'
  BY DEF TypeOK, Advance, Goto, CallFrame

LEMMA FailType ==
    ASSUME TypeOK, NEW t \in Threads, NEW from, NEW result \in Outcomes,
           Fail(t, from, result)
    PROVE  TypeOK'
  BY DEF TypeOK, Fail, Finish, Goto, CallFrame, Points

LEMMA TypeStep ==
    ASSUME TypeOK, NEW t \in Threads, Steps(t)
    PROVE  TypeOK'
<1> USE DEF Points, BootPoints, Outcomes, Kinds
<1>1. CASE Prepare(t)
  <2>1. /\ pc' \in [Threads -> Points] /\ outcome' \in [Threads -> Outcomes]
        /\ held' \in [Threads -> SUBSET Kinds]
    BY <1>1 DEF Prepare, Goto, Finish, TypeOK
  <2>2. /\ phase' \in {"booting", "failed"} /\ world' \subseteq Kinds
        /\ unnamed' \subseteq Kinds
        /\ UNCHANGED <<mode, refs, refused, entries, hasTimeout, after>>
    BY <1>1 DEF Prepare, TypeOK
  <2> QED BY <2>1, <2>2 DEF TypeOK
<1>2. CASE ForkCopy(t)
  <2>1. CASE /\ StartRelease(t, "boot_copy", held[t], "unavailable")
             /\ \E kinds \in SUBSET {"image"} : Raised(kinds)
             /\ UNCHANGED ReleaseFrame
    <3>1. held[t] \in SUBSET Kinds
      BY DEF TypeOK
    <3>2. world' \subseteq Kinds /\ unnamed' \subseteq Kinds
      BY <2>1 DEF Raised, TypeOK
    <3>3. QED
      BY <2>1, <3>1, <3>2, ReleaseType
  <2>2. CASE Goto(t, "boot_copy", "boot_assign")
    <3> DEFINE taken == Committed
    <3>1. /\ world' = world \cup taken /\ held' = [held EXCEPT ![t] = @ \cup taken]
          /\ UNCHANGED <<mode, phase, refs, refused, unnamed, entries, hasTimeout, after,
                         outcome>>
      BY <1>2, <2>2 DEF ForkCopy, Goto, StartRelease, TypeOK
    <3>2. taken \in SUBSET Kinds
      BY DEF Committed
    <3> HIDE DEF taken
    <3>3. world' \in SUBSET Kinds /\ held' \in [Threads -> SUBSET Kinds]
      BY <3>1, <3>2 DEF TypeOK
    <3>4. pc' \in [Threads -> Points]
      BY <2>2 DEF TypeOK, Goto
    <3>5. QED
      BY <3>1, <3>3, <3>4 DEF TypeOK
  <2>3. QED
    BY <1>2, <2>1, <2>2 DEF ForkCopy, Committed
<1>3. CASE Assign(t)
  BY <1>3 DEF Assign, Goto, Finish, TypeOK
<1>4. CASE ConnectClient(t)
  BY <1>4, CleanUpType DEF ConnectClient, Goto, TypeOK
<1>5. CASE StartNetwork(t)
  BY <1>5, CleanUpType, EgressAbortType, ProvisionType DEF StartNetwork
<1>6. CASE StartProxy(t)
  BY <1>6, CleanUpType, EgressAbortType, ProvisionType DEF StartProxy
<1>7. CASE ConnectProxy(t)
  BY <1>7, CleanUpType, EgressAbortType DEF ConnectProxy, Goto, TypeOK
<1>8. CASE CreateContainer(t)
  BY <1>8, CleanUpType, ProvisionType DEF CreateContainer
<1>9. CASE StartContainer(t)
  BY <1>9, CleanUpType DEF StartContainer, DetectTimeout, Finish, Goto, TypeOK
<1>10. CASE ReleaseOnDaemon(t)
  <2>1. PICK r \in held[t] :
          /\ refused' = refused \cup {r} \/ UNCHANGED refused
          /\ world' = world \ {r} \/ UNCHANGED world
          /\ Drop(t, r) \/ held' = [held EXCEPT ![t] = {}]
          /\ UNCHANGED <<pc, outcome>> \/ Finish(t, "release", "transport")
          /\ phase' \in {phase, "failed"}
          /\ UNCHANGED <<mode, refs, unnamed, entries, hasTimeout, after>>
    BY <1>10 DEF ReleaseOnDaemon, Settled
  <2>2. held' \in [Threads -> SUBSET Kinds]
    BY <2>1 DEF Drop, TypeOK
  <2>3. pc' \in [Threads -> Points] /\ outcome' \in [Threads -> Outcomes]
    BY <2>1 DEF Finish, Goto, TypeOK
  <2>4. world' \in SUBSET Kinds /\ refused' \in SUBSET Kinds
    BY <2>1 DEF TypeOK
  <2>5. QED
    BY <2>1, <2>2, <2>3, <2>4 DEF TypeOK
<1>11. CASE UnlinkEntries(t)
  BY <1>11 DEF UnlinkEntries, Goto, TypeOK
<1>12. CASE RemoveDirectory(t)
  BY <1>12 DEF RemoveDirectory, Goto, Drop, TypeOK
<1>13. CASE ReleaseDone(t)
  BY <1>13 DEF ReleaseDone, Finish, Goto, Settled, TypeOK
<1>14. CASE Destroy(t)
  <2>1. /\ StartRelease(t, "idle", refs, "ok") /\ UNCHANGED ReleaseFrame
        /\ refs \in SUBSET Kinds /\ world' \subseteq Kinds /\ unnamed' \subseteq Kinds
    BY <1>14 DEF Destroy, TypeOK
  <2>2. QED
    BY <2>1, ReleaseType
<1>15. CASE Exec(t)
  BY <1>15, AdvanceType, FailType DEF Exec
<1>16. CASE ExecCreate(t)
  BY <1>16, AdvanceType, FailType DEF ExecCreate
<1>17. CASE ExecStream(t)
  <2>1. CASE /\ StartRelease(t, "exec_stream", refs, "backstop")
             /\ UNCHANGED <<ReleaseFrame, world, unnamed>>
    <3>1. refs \in SUBSET Kinds /\ world' \subseteq Kinds /\ unnamed' \subseteq Kinds
      BY <2>1 DEF TypeOK
    <3>2. QED
      BY <2>1, <3>1, ReleaseType
  <2>2. QED
    BY <1>17, <2>1, AdvanceType, FailType DEF ExecStream
<1>18. CASE ExecInspect(t)
  BY <1>18, FailType DEF ExecInspect
<1>19. CASE Write(t)
  BY <1>19, AdvanceType, FailType DEF Write
<1>20. CASE WriteTemp(t)
  BY <1>20, FailType DEF WriteTemp, Goto, CallFrame, TypeOK
<1>21. CASE WriteReplace(t)
  BY <1>21, FailType DEF WriteReplace
<1>22. CASE Return(t)
  BY <1>22 DEF Return, Goto, CallFrame, TypeOK
<1>23. CASE AbortEscapes(t)
  <2>1. /\ StartRelease(t, "release", refs, "unavailable") /\ UNCHANGED ReleaseFrame
        /\ refs \in SUBSET Kinds /\ world' \subseteq Kinds /\ unnamed' \subseteq Kinds
    BY <1>23 DEF AbortEscapes, TypeOK
  <2>2. QED
    BY <2>1, ReleaseType
<1>24. QED
  BY StepCases, <1>1, <1>2, <1>3, <1>4, <1>5, <1>6, <1>7, <1>8, <1>9, <1>10, <1>11,
     <1>12, <1>13, <1>14, <1>15, <1>16, <1>17, <1>18, <1>19, <1>20, <1>21, <1>22, <1>23

\* The variables of the runtime keep their types, whatever the daemon answers.
THEOREM TypeCorrect == RuntimeSpec => []TypeOK
<1>1. RuntimeInit => TypeOK
  BY DEF RuntimeInit, TypeOK, Points, BootPoints, Outcomes, Kinds
<1>2. TypeOK /\ [RuntimeNext]_runtimeVars => TypeOK'
  <2>1. CASE RuntimeNext
    BY <2>1, NextIsStep, TypeStep
  <2>2. CASE UNCHANGED runtimeVars
    BY <2>2 DEF runtimeVars, TypeOK
  <2>3. QED
    BY <2>1, <2>2
<1>3. QED
  BY <1>1, <1>2, PTL DEF RuntimeSpec

-----------------------------------------------------------------------------
(* Single releaser.  The strengthening says where threads hold resources:  *)
(* only while assembling or releasing, and that a booting object is seen   *)
(* by the one thread that boots it.                                        *)

Holding == {"boot_copy", "boot_assign", "release", "rmdir"}

Shape ==
    /\ \A t \in Threads : pc[t] \in BootPoints => phase = "booting"
    /\ \A t \in Threads : pc[t] \notin Holding => held[t] = {}
    /\ \A t \in Threads : pc[t] \in {"boot_copy", "boot_assign"} => refs = {}
    /\ phase = "new" => refs = {} /\ world = {} /\ \A t \in Threads : pc[t] = "idle"
    /\ phase = "booting" =>
           \A t, u \in Threads : pc[t] # "idle" /\ pc[u] # "idle" => t = u

ReleaserInv == TypeOK /\ Shape /\ SingleReleaser

LEMMA ReleaseKeepsReleaser ==
    ASSUME ReleaserInv, NEW t \in Threads, NEW from, NEW taken, NEW result,
           StartRelease(t, from, taken, result), phase' = phase, phase # "new",
           from # "idle" \/ phase = "live",
           taken \subseteq refs \/ (taken = held[t] /\ from = "boot_copy")
    PROVE  Shape' /\ SingleReleaser'
<1>1. pc[t] = from /\ pc' = [pc EXCEPT ![t] = "release"]
  BY DEF StartRelease, Goto
<1>2. held' = [held EXCEPT ![t] = taken] /\ refs' = refs \ taken
  BY DEF StartRelease
<1>3. Shape'
  BY <1>1, <1>2 DEF ReleaserInv, TypeOK, Shape, Holding, BootPoints
<1>4. SingleReleaser'
  <2>1. CASE taken \subseteq refs
    <3>1. \A u \in Threads : u # t => held'[u] = held[u] /\ held[u] \cap refs = {}
      BY <1>2 DEF ReleaserInv, TypeOK, SingleReleaser
    <3>2. held'[t] = taken
      BY <1>2 DEF ReleaserInv, TypeOK
    <3>3. \A u \in Threads : u # t => held'[u] \cap taken = {}
      BY <2>1, <3>1
    <3>4. QED
      BY <1>2, <2>1, <3>1, <3>2, <3>3 DEF ReleaserInv, SingleReleaser
  <2>2. CASE taken = held[t]
    BY <1>2, <2>2 DEF ReleaserInv, TypeOK, SingleReleaser
  <2>3. QED
    BY <2>1, <2>2
<1>5. QED
  BY <1>3, <1>4

LEMMA ProvisionKeepsReleaser ==
    ASSUME ReleaserInv, NEW t \in Threads, NEW from, NEW kind, NEW to,
           Provision(t, from, kind, to), from \in BootPoints \ Holding,
           to \in BootPoints \ Holding
    PROVE  Shape' /\ SingleReleaser'
<1>1. phase = "booting" /\ \A u \in Threads : held[u] = {}
  BY DEF ReleaserInv, Provision, Goto, Shape, TypeOK, BootPoints, Holding
<1>2. SingleReleaser'
  BY <1>1 DEF Provision, SingleReleaser, ReleaserInv, TypeOK
<1>3. Shape'
  BY <1>1 DEF Provision, Goto, Shape, ReleaserInv, TypeOK, BootPoints, Holding
<1>4. QED
  BY <1>2, <1>3

LEMMA DropKeepsReleaser ==
    ASSUME ReleaserInv, NEW t \in Threads,
           pc[t] \in {"release", "rmdir"},
           pc'[t] \in {"release", "rmdir", "done"},
           pc'[t] \in {"release", "rmdir"} \/ held'[t] = {},
           held'[t] \subseteq held[t],
           \A u \in Threads : u # t => pc'[u] = pc[u] /\ held'[u] = held[u],
           UNCHANGED refs,
           phase' = phase \/ (phase = "booting" /\ phase' = "failed")
    PROVE  Shape' /\ SingleReleaser'
<1>1. SingleReleaser'
  BY DEF ReleaserInv, SingleReleaser
<1>2. Shape'
  BY DEF ReleaserInv, Shape, Holding, BootPoints
<1>3. QED
  BY <1>1, <1>2

LEMMA CleanUpKeepsReleaser ==
    ASSUME ReleaserInv, NEW t \in Threads, NEW from \in BootPoints, NEW result,
           NEW kinds, CleanUp(t, from, result, kinds)
    PROVE  Shape' /\ SingleReleaser'
<1>1. from # "idle" /\ phase = "booting"
  BY DEF CleanUp, StartRelease, Goto, ReleaserInv, Shape, BootPoints
<1>2. phase' = phase /\ StartRelease(t, from, refs, result)
  BY DEF CleanUp, ReleaseFrame
<1>3. QED
  BY <1>1, <1>2, ReleaseKeepsReleaser

LEMMA EgressAbortKeepsReleaser ==
    ASSUME ReleaserInv, NEW t \in Threads, NEW from \in BootPoints,
           NEW kinds, EgressAbort(t, from, kinds)
    PROVE  Shape' /\ SingleReleaser'
<1>1. from # "idle" /\ phase = "booting"
  BY DEF EgressAbort, StartRelease, Goto, ReleaserInv, Shape, BootPoints
<1>2. /\ phase' = phase
      /\ StartRelease(t, from, refs \cap {"proxy", "network"}, "unavailable")
  BY DEF EgressAbort, ReleaseFrame
<1>3. QED
  BY <1>1, <1>2, ReleaseKeepsReleaser

LEMMA CallKeepsReleaser ==
    ASSUME ReleaserInv, NEW t \in Threads, NEW from, NEW to,
           Goto(t, from, to), from \notin Holding \cup BootPoints,
           to \notin Holding \cup BootPoints,
           from = "idle" => phase = "live",
           UNCHANGED <<refs, held, phase>>
    PROVE  Shape' /\ SingleReleaser'
  BY DEF ReleaserInv, TypeOK, Shape, SingleReleaser, Goto, Holding, BootPoints

LEMMA AdvanceKeepsReleaser ==
    ASSUME ReleaserInv, NEW t \in Threads, NEW from, NEW to,
           Advance(t, from, to), from \notin Holding \cup BootPoints,
           to \notin Holding \cup BootPoints, from = "idle" => phase = "live"
    PROVE  Shape' /\ SingleReleaser'
  BY CallKeepsReleaser DEF Advance, CallFrame

LEMMA FailKeepsReleaser ==
    ASSUME ReleaserInv, NEW t \in Threads, NEW from, NEW result,
           Fail(t, from, result), from \notin Holding \cup BootPoints,
           from = "idle" => phase = "live"
    PROVE  Shape' /\ SingleReleaser'
<1>1. "done" \notin Holding \cup BootPoints
  BY DEF Holding, BootPoints
<1>2. QED
  BY <1>1, CallKeepsReleaser DEF Fail, Finish, CallFrame

LEMMA ReleaserStep ==
    ASSUME ReleaserInv, NEW t \in Threads, Steps(t)
    PROVE  Shape' /\ SingleReleaser'
<1>1. CASE Prepare(t)
  <2>1. /\ refs = {} /\ refs' = refs
        /\ \A u \in Threads : pc[u] = "idle" /\ held[u] = {}
        /\ \/ /\ phase' = "booting"
              /\ pc' = [pc EXCEPT ![t] = IF mode.origin = "create" THEN "boot_assign"
                                                                   ELSE "boot_copy"]
              /\ held' = [held EXCEPT ![t] = {"workspace"}]
           \/ /\ phase' = "failed"
              /\ pc' = [pc EXCEPT ![t] = "done"]
              /\ held' = held
    BY <1>1 DEF Prepare, Goto, Finish, ReleaserInv, Shape, Holding
  <2>2. SingleReleaser'
    BY <2>1 DEF SingleReleaser, ReleaserInv, TypeOK
  <2>3. Shape'
    BY <2>1 DEF Shape, ReleaserInv, TypeOK, Holding, BootPoints
  <2>4. QED
    BY <2>2, <2>3
<1>2. CASE ForkCopy(t)
  <2>1. CASE StartRelease(t, "boot_copy", held[t], "unavailable") /\ UNCHANGED ReleaseFrame
    <3>1. phase = "booting" /\ phase' = phase
      BY <2>1 DEF StartRelease, Goto, ReleaseFrame, ReleaserInv, Shape, BootPoints
    <3>2. QED
      BY <2>1, <3>1, ReleaseKeepsReleaser
  <2>2. CASE /\ Goto(t, "boot_copy", "boot_assign")
             /\ \E new : held' = [held EXCEPT ![t] = new]
             /\ UNCHANGED <<phase, refs>>
    <3>1. refs = {} /\ phase = "booting" /\ \A u \in Threads : u # t => held[u] = {}
      BY <2>2 DEF Goto, ReleaserInv, TypeOK, Shape, BootPoints, Holding
    <3>2. SingleReleaser'
      BY <2>2, <3>1 DEF SingleReleaser, ReleaserInv, TypeOK
    <3>3. Shape'
      BY <2>2, <3>1 DEF Goto, Shape, ReleaserInv, TypeOK, Holding, BootPoints
    <3>4. QED
      BY <3>2, <3>3
  <2>3. QED
    BY <1>2, <2>1, <2>2 DEF ForkCopy
<1>3. CASE Assign(t)
  <2>1. /\ pc[t] = "boot_assign" /\ phase = "booting" /\ refs' = held[t]
        /\ held' = [held EXCEPT ![t] = {}] /\ \A u \in Threads : u # t => held[u] = {}
        /\ \A u \in Threads : u # t => pc[u] = "idle"
    BY <1>3 DEF Assign, Goto, Finish, ReleaserInv, TypeOK, Shape, BootPoints, Holding
  <2>2. SingleReleaser'
    BY <2>1 DEF SingleReleaser, ReleaserInv, TypeOK
  <2>3. \/ pc' = [pc EXCEPT ![t] = "done"] /\ phase' = "failed"
        \/ pc' = [pc EXCEPT ![t] = "boot_client"] /\ phase' = phase
    BY <1>3 DEF Assign, Goto, Finish
  <2>4. Shape'
    BY <2>1, <2>3 DEF Shape, ReleaserInv, TypeOK, Holding, BootPoints
  <2>5. QED
    BY <2>2, <2>4
<1>4. CASE ConnectClient(t)
  <2>1. CASE /\ Goto(t, "boot_client",
                     IF mode.net = "domains" THEN "boot_network" ELSE "boot_container")
             /\ UNCHANGED <<refs, held, phase>>
    BY <2>1 DEF Goto, Shape, SingleReleaser, ReleaserInv, TypeOK, Holding, BootPoints
  <2>2. QED
    BY <1>4, <2>1, CleanUpKeepsReleaser DEF ConnectClient, BootPoints
<1>5. CASE StartNetwork(t)
  BY <1>5, CleanUpKeepsReleaser, EgressAbortKeepsReleaser, ProvisionKeepsReleaser
     DEF StartNetwork, BootPoints, Holding
<1>6. CASE StartProxy(t)
  BY <1>6, CleanUpKeepsReleaser, EgressAbortKeepsReleaser, ProvisionKeepsReleaser
     DEF StartProxy, BootPoints, Holding
<1>7. CASE ConnectProxy(t)
  <2>1. CASE Goto(t, "boot_connect", "boot_container") /\ UNCHANGED <<refs, held, phase>>
    BY <2>1 DEF Goto, Shape, SingleReleaser, ReleaserInv, TypeOK, Holding, BootPoints
  <2>2. QED
    BY <1>7, <2>1, CleanUpKeepsReleaser, EgressAbortKeepsReleaser
       DEF ConnectProxy, BootPoints
<1>8. CASE CreateContainer(t)
  BY <1>8, CleanUpKeepsReleaser, ProvisionKeepsReleaser
     DEF CreateContainer, BootPoints, Holding
<1>9. CASE StartContainer(t)
  <2>1. CASE Goto(t, "boot_start", "done") /\ phase' = "live" /\ UNCHANGED <<refs, held>>
    <3>1. \A u \in Threads : u # t => pc[u] = "idle"
      BY <2>1 DEF Goto, ReleaserInv, TypeOK, Shape, BootPoints
    <3>2. QED
      BY <2>1, <3>1 DEF Goto, Shape, SingleReleaser, ReleaserInv, TypeOK, Holding, BootPoints
  <2>2. QED
    BY <1>9, <2>1, CleanUpKeepsReleaser DEF StartContainer, DetectTimeout, Finish, BootPoints
<1>10. CASE ReleaseOnDaemon(t)
  <2>1. /\ pc[t] = "release" /\ UNCHANGED refs
        /\ \/ /\ \E r : held' = [held EXCEPT ![t] = held[t] \ {r}]
              /\ UNCHANGED <<pc, phase>>
           \/ /\ held' = [held EXCEPT ![t] = {}]
              /\ pc' = [pc EXCEPT ![t] = "done"]
              /\ phase' = phase \/ (phase = "booting" /\ phase' = "failed")
    BY <1>10 DEF ReleaseOnDaemon, Drop, Finish, Goto, Settled
  <2>2. /\ pc'[t] \in {"release", "done"} /\ held'[t] \subseteq held[t]
        /\ pc'[t] = "release" \/ held'[t] = {}
        /\ \A u \in Threads : u # t => pc'[u] = pc[u] /\ held'[u] = held[u]
        /\ phase' = phase \/ (phase = "booting" /\ phase' = "failed")
    BY <2>1 DEF ReleaserInv, TypeOK
  <2>3. QED
    BY <2>1, <2>2, DropKeepsReleaser
<1>11. CASE UnlinkEntries(t)
  BY <1>11 DEF UnlinkEntries, Goto, Shape, SingleReleaser, ReleaserInv, TypeOK,
               Holding, BootPoints
<1>12. CASE RemoveDirectory(t)
  <2>1. /\ pc[t] = "rmdir" /\ pc' = [pc EXCEPT ![t] = "release"]
        /\ held' = [held EXCEPT ![t] = held[t] \ {"workspace"}] /\ UNCHANGED <<refs, phase>>
    BY <1>12 DEF RemoveDirectory, Goto, Drop
  <2>2. /\ pc'[t] = "release" /\ held'[t] \subseteq held[t]
        /\ \A u \in Threads : u # t => pc'[u] = pc[u] /\ held'[u] = held[u]
    BY <2>1 DEF ReleaserInv, TypeOK
  <2>3. QED
    BY <2>1, <2>2, DropKeepsReleaser
<1>13. CASE ReleaseDone(t)
  <2>1. /\ pc[t] = "release" /\ pc' = [pc EXCEPT ![t] = "done"]
        /\ held[t] = {} /\ held' = held /\ UNCHANGED refs
        /\ phase' = phase \/ (phase = "booting" /\ phase' = "failed")
    BY <1>13 DEF ReleaseDone, Finish, Goto, Settled
  <2>2. /\ pc'[t] = "done" /\ held'[t] = {}
        /\ \A u \in Threads : u # t => pc'[u] = pc[u] /\ held'[u] = held[u]
    BY <2>1 DEF ReleaserInv, TypeOK
  <2>3. QED
    BY <2>1, <2>2, DropKeepsReleaser
<1>14. CASE Destroy(t)
  BY <1>14, ReleaseKeepsReleaser DEF Destroy, ReleaseFrame
<1>15. CASE Exec(t)
  BY <1>15, AdvanceKeepsReleaser, FailKeepsReleaser DEF Exec, Holding, BootPoints
<1>16. CASE ExecCreate(t)
  BY <1>16, AdvanceKeepsReleaser, FailKeepsReleaser DEF ExecCreate, Holding, BootPoints
<1>17. CASE ExecStream(t)
  <2>1. CASE StartRelease(t, "exec_stream", refs, "backstop") /\ UNCHANGED ReleaseFrame
    <3>1. phase # "new" /\ phase' = phase
      BY <2>1 DEF StartRelease, Goto, ReleaseFrame, ReleaserInv, Shape
    <3>2. QED
      BY <2>1, <3>1, ReleaseKeepsReleaser
  <2>2. QED
    BY <1>17, <2>1, AdvanceKeepsReleaser, FailKeepsReleaser
       DEF ExecStream, Holding, BootPoints
<1>18. CASE ExecInspect(t)
  BY <1>18, FailKeepsReleaser DEF ExecInspect, Holding, BootPoints
<1>19. CASE Write(t)
  BY <1>19, AdvanceKeepsReleaser, FailKeepsReleaser DEF Write, Holding, BootPoints
<1>20. CASE WriteTemp(t)
  BY <1>20, CallKeepsReleaser, FailKeepsReleaser
     DEF WriteTemp, CallFrame, Holding, BootPoints
<1>21. CASE WriteReplace(t)
  BY <1>21, FailKeepsReleaser DEF WriteReplace, Holding, BootPoints
<1>22. CASE Return(t)
  BY <1>22, CallKeepsReleaser DEF Return, CallFrame, Holding, BootPoints
<1>23. CASE AbortEscapes(t)
  <2>1. phase = "booting" /\ phase' = phase
    BY <1>23 DEF AbortEscapes, Aborting, ReleaseFrame
  <2>2. QED
    BY <1>23, <2>1, ReleaseKeepsReleaser DEF AbortEscapes
<1>24. QED
  BY StepCases, <1>1, <1>2, <1>3, <1>4, <1>5, <1>6, <1>7, <1>8, <1>9, <1>10, <1>11,
     <1>12, <1>13, <1>14, <1>15, <1>16, <1>17, <1>18, <1>19, <1>20, <1>21, <1>22, <1>23

\* Every resource has one releaser, however many threads destroy, whatever
\* fails and whichever network policy booted.
THEOREM OneReleaser == RuntimeSpec => []SingleReleaser
<1>1. RuntimeInit => ReleaserInv
  BY DEF RuntimeInit, ReleaserInv, TypeOK, Shape, SingleReleaser, Points, BootPoints,
         Outcomes, Kinds, Holding
<1>2. ReleaserInv /\ [RuntimeNext]_runtimeVars => ReleaserInv'
  <2>1. CASE RuntimeNext
    BY <2>1, NextIsStep, TypeStep, ReleaserStep DEF ReleaserInv
  <2>2. CASE UNCHANGED runtimeVars
    BY <2>2 DEF runtimeVars, ReleaserInv, TypeOK, Shape, SingleReleaser
  <2>3. QED
    BY <2>1, <2>2
<1>3. ReleaserInv => SingleReleaser
  BY DEF ReleaserInv
<1>4. QED
  BY <1>1, <1>2, <1>3, PTL DEF RuntimeSpec

-----------------------------------------------------------------------------
(* No orphans.  The hypothesis leaves out what makes a boot or a destroy   *)
(* give up in this code: a CIDR allowlist, a refused egress step and an    *)
(* unreachable daemon.                                                     *)

Healthy ==
    /\ "cidrs" \notin Networks
    /\ "domains" \in Networks => DaemonErrors = {}
    /\ "transport" \notin DaemonErrors

Covered(r) ==
    \/ r \in Owned \/ r \in refused \/ r \in unnamed \/ r \in Spoiled
    \/ \E t \in Threads : r \in held[t]

Quiet ==
    /\ \A t \in Threads : pc[t] \in {"boot_network", "boot_proxy", "boot_connect"}
                              => mode.net = "domains"
    /\ \A t \in Threads : phase = "booting" /\ pc[t] \in {"release", "rmdir"} => refs = {}

OrphanInv == ReleaserInv /\ Quiet /\ \A r \in world : Covered(r)

LEMMA CoveredIsNoOrphan == (\A r \in world : Covered(r)) <=> NoOrphan
  BY DEF Covered, NoOrphan

\* A step makes nothing but what a call that raised leaves nameless.
Adds == /\ world \subseteq world' /\ unnamed \subseteq unnamed'
        /\ world' \subseteq world \cup unnamed'

LEMMA RaisedAdds == ASSUME NEW kinds, Raised(kinds) PROVE Adds
  BY DEF Raised, Adds

\* The resources and who names them are as before; only control moves.
LEMMA StillCovered ==
    ASSUME OrphanInv, UNCHANGED <<world, refs, refused, unnamed, held>>, entries \subseteq entries',
           phase' = phase \/ (phase = "booting" /\ phase' = "live")
                          \/ (phase = "booting" /\ phase' = "failed" /\ refs = {})
    PROVE  \A r \in world' : Covered(r)'
  BY DEF OrphanInv, Covered, Owned, Spoiled

LEMMA CoveredByReleaser ==
    ASSUME OrphanInv, NEW t \in Threads, NEW from, NEW taken, NEW result,
           StartRelease(t, from, taken, result), Adds, UNCHANGED <<refused, phase, entries>>,
           held[t] \subseteq taken
    PROVE  \A r \in world' : Covered(r)'
<1> SUFFICES ASSUME NEW r \in world' PROVE Covered(r)'
  OBVIOUS
<1>1. r \in unnamed' \/ Covered(r)
  BY DEF OrphanInv, Adds
<1>2. held'[t] = taken /\ refs' = refs \ taken
      /\ \A u \in Threads : u # t => held'[u] = held[u]
  BY DEF StartRelease, OrphanInv, ReleaserInv, TypeOK
<1>3. QED
  BY <1>1, <1>2 DEF Covered, Owned, Spoiled, Adds

LEMMA CoveredByField ==
    ASSUME OrphanInv, NEW t \in Threads, NEW from \in BootPoints, NEW kind, NEW to,
           Provision(t, from, kind, to)
    PROVE  \A r \in world' : Covered(r)'
<1>1. phase = "booting"
  BY DEF OrphanInv, ReleaserInv, Shape, Provision, Goto
<1>2. QED
  BY <1>1 DEF OrphanInv, Provision, Covered, Owned, Spoiled

LEMMA CoveredAfterDrop ==
    ASSUME OrphanInv, NEW t \in Threads, NEW r \in held[t], Drop(t, r),
           UNCHANGED <<refs, phase, unnamed, entries>>,
           \/ world' = world \ {r} /\ refused' = refused
           \/ world' = world /\ refused' = refused \cup {r}
    PROVE  \A x \in world' : Covered(x)'
<1> SUFFICES ASSUME NEW x \in world' PROVE Covered(x)'
  OBVIOUS
<1>1. x \in world /\ Covered(x)
  BY DEF OrphanInv
<1>2. /\ held'[t] = held[t] \ {r}
      /\ \A u \in Threads : u # t => held'[u] = held[u]
  BY DEF Drop, OrphanInv, ReleaserInv, TypeOK
<1>3. CASE x = r
  BY <1>3 DEF Covered
<1>4. CASE x # r
  BY <1>1, <1>2, <1>4 DEF Covered, Owned, Spoiled
<1>5. QED
  BY <1>3, <1>4

\* What Quiet says of a step, from where the step leaves its thread.
LEMMA QuietStep ==
    ASSUME OrphanInv, NEW t \in Threads,
           \A u \in Threads : u # t => pc'[u] = pc[u],
           pc'[t] \in {"boot_network", "boot_proxy", "boot_connect"} => mode.net = "domains",
           pc'[t] \in {"release", "rmdir"} =>
               \/ phase' # "booting" \/ refs' = {},
           UNCHANGED <<mode>>,
           phase' = "booting" => phase = "booting" \/ phase = "new",
           \/ refs' \subseteq refs
           \/ \A u \in Threads : u # t => pc[u] = "idle"
    PROVE  Quiet'
  BY DEF OrphanInv, Quiet, ReleaserInv, Shape

LEMMA CleanUpLeavesNothing ==
    ASSUME OrphanInv, NEW t \in Threads, NEW from \in BootPoints \ {"boot_copy", "boot_assign"},
           NEW result, NEW kinds, CleanUp(t, from, result, kinds)
    PROVE  Quiet' /\ \A r \in world' : Covered(r)'
<1>1. /\ StartRelease(t, from, refs, result) /\ UNCHANGED <<mode, refused, phase, entries>>
      /\ Adds /\ pc[t] = from /\ pc' = [pc EXCEPT ![t] = "release"] /\ refs' = {}
  BY RaisedAdds DEF CleanUp, ReleaseFrame, StartRelease, Goto
<1>2. held[t] = {}
  BY <1>1 DEF OrphanInv, ReleaserInv, Shape, BootPoints, Holding
<1>3. \A u \in Threads : u # t => pc'[u] = pc[u]
  BY <1>1 DEF OrphanInv, ReleaserInv, TypeOK
<1>4. pc'[t] = "release" /\ entries' = entries
  BY <1>1 DEF OrphanInv, ReleaserInv, TypeOK, Quiet
<1>5. Quiet'
  BY <1>1, <1>3, <1>4, QuietStep
<1>6. QED
  BY <1>1, <1>2, <1>5, CoveredByReleaser

LEMMA CallKeepsOrphanInv ==
    ASSUME OrphanInv, NEW t \in Threads, NEW from, NEW to,
           Goto(t, from, to), from \notin BootPoints \cup {"release", "rmdir"},
           to \notin BootPoints \cup {"release", "rmdir"},
           UNCHANGED <<mode, phase, refs, held, world, refused, unnamed>>,
           entries \subseteq entries'
    PROVE  Quiet' /\ \A r \in world' : Covered(r)'
<1>1. /\ pc'[t] = to
      /\ \A u \in Threads : u # t => pc'[u] = pc[u]
  BY DEF Goto, OrphanInv, ReleaserInv, TypeOK, Quiet
<1>2. Quiet'
  BY <1>1, QuietStep DEF BootPoints
<1>3. QED
  BY <1>2, StillCovered

LEMMA AdvanceKeepsOrphanInv ==
    ASSUME OrphanInv, NEW t \in Threads, NEW from, NEW to,
           Advance(t, from, to), from \notin BootPoints \cup {"release", "rmdir"},
           to \notin BootPoints \cup {"release", "rmdir"}
    PROVE  Quiet' /\ \A r \in world' : Covered(r)'
  BY CallKeepsOrphanInv DEF Advance, CallFrame

LEMMA FailKeepsOrphanInv ==
    ASSUME OrphanInv, NEW t \in Threads, NEW from, NEW result,
           Fail(t, from, result), from \notin BootPoints \cup {"release", "rmdir"}
    PROVE  Quiet' /\ \A r \in world' : Covered(r)'
<1>1. "done" \notin BootPoints \cup {"release", "rmdir"}
  BY DEF BootPoints
<1>2. QED
  BY <1>1, CallKeepsOrphanInv DEF Fail, Finish, CallFrame

LEMMA ProvisionKeepsOrphanInv ==
    ASSUME OrphanInv, NEW t \in Threads, NEW from \in BootPoints \ {"boot_copy", "boot_assign"},
           NEW kind, NEW to \in BootPoints, Provision(t, from, kind, to),
           to \in {"boot_network", "boot_proxy", "boot_connect"} => mode.net = "domains"
    PROVE  Quiet' /\ \A r \in world' : Covered(r)'
<1>1. phase = "booting" /\ phase' = phase /\ entries' = entries /\ mode' = mode
  BY DEF OrphanInv, ReleaserInv, Shape, Provision, Goto, Quiet
<1>2. /\ pc'[t] = to /\ \A u \in Threads : u # t => pc'[u] = pc[u] /\ pc[u] = "idle"
  BY <1>1 DEF Provision, Goto, OrphanInv, ReleaserInv, Shape, TypeOK, BootPoints
<1>3. Quiet'
  BY <1>1, <1>2, QuietStep DEF BootPoints
<1>4. QED
  BY <1>3, CoveredByField

LEMMA NotEgressAbort ==
    ASSUME Healthy, OrphanInv, NEW t \in Threads,
           pc[t] \in {"boot_network", "boot_proxy", "boot_connect"}
    PROVE  DaemonErrors = {}
  BY DEF Healthy, OrphanInv, Quiet, ReleaserInv, TypeOK

LEMMA OrphanStep ==
    ASSUME Healthy, OrphanInv, NEW t \in Threads, Steps(t)
    PROVE  Quiet' /\ \A r \in world' : Covered(r)'
<1>0. /\ ReleaserInv /\ TypeOK /\ Shape
      /\ "transport" \notin DaemonErrors /\ mode.net # "cidrs"
  BY DEF Healthy, OrphanInv, ReleaserInv, Quiet, TypeOK
<1>1. CASE Prepare(t)
  <2>1. /\ phase = "new" /\ world' = {"workspace"}
        /\ held'[t] = {"workspace"} \/ unnamed' = {"workspace"}
        /\ pc'[t] \in {"boot_assign", "boot_copy", "done"}
        /\ refs' = refs /\ entries' = entries /\ mode' = mode
        /\ \A u \in Threads : u # t => pc'[u] = pc[u]
    BY <1>0, <1>1 DEF Prepare, Goto, Finish, TypeOK
  <2>2. Quiet'
    BY <2>1, QuietStep
  <2>3. QED
    BY <2>1, <2>2 DEF Covered
<1>2. CASE ForkCopy(t)
  <2>0. /\ phase = "booting" /\ refs = {} /\ pc[t] = "boot_copy"
        /\ phase' = phase /\ mode' = mode /\ entries' = entries /\ refused' = refused
    BY <1>0, <1>2 DEF ForkCopy, Goto, StartRelease, ReleaseFrame, Shape, BootPoints
  <2>1. CASE /\ StartRelease(t, "boot_copy", held[t], "unavailable")
             /\ Adds /\ UNCHANGED ReleaseFrame
    <3>1. /\ pc'[t] = "release" /\ refs' = {} /\ \A u \in Threads : u # t => pc'[u] = pc[u]
      BY <1>0, <2>0, <2>1 DEF StartRelease, Goto, TypeOK
    <3>2. Quiet'
      BY <2>0, <3>1, QuietStep
    <3>3. QED
      BY <2>0, <2>1, <3>2, CoveredByReleaser DEF ReleaseFrame
  <2>2. CASE /\ Goto(t, "boot_copy", "boot_assign") /\ UNCHANGED <<refs, unnamed>>
             /\ \E new : /\ world' = world \cup new
                         /\ held' = [held EXCEPT ![t] = held[t] \cup new]
    <3>1. /\ pc'[t] = "boot_assign" /\ \A u \in Threads : u # t => pc'[u] = pc[u]
      BY <1>0, <2>2 DEF Goto, TypeOK
    <3>2. Quiet'
      BY <2>0, <2>2, <3>1, QuietStep
    <3>3. PICK new : /\ world' = world \cup new
                     /\ held' = [held EXCEPT ![t] = held[t] \cup new]
      BY <2>2
    <3>4. /\ held'[t] = held[t] \cup new
          /\ \A u \in Threads : u # t => held'[u] = held[u]
      BY <1>0, <3>3 DEF TypeOK
    <3>5. \A r \in world' : Covered(r)'
      BY <2>0, <2>2, <3>3, <3>4 DEF OrphanInv, Covered, Owned, Spoiled
    <3>6. QED
      BY <3>2, <3>5
  <2>3. QED
    BY <1>2, <2>1, <2>2, RaisedAdds DEF ForkCopy
<1>3. CASE Assign(t)
  <2>1. /\ pc[t] = "boot_assign" /\ phase = "booting" /\ phase' = phase /\ refs = {}
        /\ refs' = held[t] /\ UNCHANGED <<world, refused, unnamed>>
        /\ held' = [held EXCEPT ![t] = {}] /\ entries' = entries /\ mode' = mode
        /\ pc'[t] = "boot_client"
        /\ \A u \in Threads : u # t => pc'[u] = pc[u] /\ pc[u] = "idle" /\ held'[u] = held[u]
    BY <1>0, <1>3 DEF Assign, Goto, Shape, BootPoints, TypeOK
  <2>2. Quiet'
    BY <2>1, QuietStep
  <2>3. \A r \in world' : Covered(r)'
    BY <2>1 DEF OrphanInv, Covered, Owned, Spoiled
  <2>4. QED
    BY <2>2, <2>3
<1>4. CASE ConnectClient(t)
  <2>1. CASE /\ Goto(t, "boot_client",
                     IF mode.net = "domains" THEN "boot_network" ELSE "boot_container")
             /\ UNCHANGED <<mode, phase, refs, held, world, refused, unnamed, entries>>
    <3>1. /\ pc'[t] \in {"boot_network", "boot_container"}
          /\ pc'[t] = "boot_network" => mode.net = "domains"
          /\ \A u \in Threads : u # t => pc'[u] = pc[u]
      BY <1>0, <2>1 DEF Goto, TypeOK
    <3>2. Quiet'
      BY <1>0, <2>1, <3>1, QuietStep
    <3>3. QED
      BY <2>1, <3>2, StillCovered
  <2>2. QED
    BY <1>4, <2>1, CleanUpLeavesNothing DEF ConnectClient, BootPoints
<1>5. CASE StartNetwork(t)
  <2>1. pc[t] = "boot_network" /\ mode.net = "domains" /\ DaemonErrors = {}
    BY <1>5, NotEgressAbort DEF StartNetwork, Provision, EgressAbort, CleanUp, StartRelease,
                                Goto, OrphanInv, Quiet
  <2>2. QED
    BY <1>5, <2>1, ProvisionKeepsOrphanInv DEF StartNetwork, EgressAbort, BootPoints
<1>6. CASE StartProxy(t)
  <2>1. pc[t] = "boot_proxy" /\ mode.net = "domains" /\ DaemonErrors = {}
    BY <1>6, NotEgressAbort DEF StartProxy, Provision, EgressAbort, CleanUp, StartRelease,
                                Goto, OrphanInv, Quiet
  <2>2. QED
    BY <1>6, <2>1, ProvisionKeepsOrphanInv DEF StartProxy, EgressAbort, BootPoints
<1>7. CASE ConnectProxy(t)
  <2>1. pc[t] = "boot_connect" /\ DaemonErrors = {}
    BY <1>7, NotEgressAbort DEF ConnectProxy, EgressAbort, CleanUp, StartRelease, Goto
  <2>2. /\ Goto(t, "boot_connect", "boot_container")
        /\ UNCHANGED <<mode, phase, refs, held, world, refused, unnamed, entries>>
    BY <1>7, <2>1 DEF ConnectProxy, EgressAbort
  <2>3. /\ pc'[t] = "boot_container" /\ \A u \in Threads : u # t => pc'[u] = pc[u]
    BY <1>0, <2>2 DEF Goto, TypeOK
  <2>4. Quiet'
    BY <1>0, <2>2, <2>3, QuietStep
  <2>5. QED
    BY <2>2, <2>4, StillCovered
<1>8. CASE CreateContainer(t)
  BY <1>8, CleanUpLeavesNothing, ProvisionKeepsOrphanInv DEF CreateContainer, BootPoints
<1>9. CASE StartContainer(t)
  <2>1. CASE /\ Goto(t, "boot_start", "done") /\ phase' = "live"
             /\ UNCHANGED <<mode, refs, held, world, refused, unnamed, entries>>
    <3>1. /\ pc'[t] = "done" /\ phase = "booting" /\ \A u \in Threads : u # t => pc'[u] = pc[u]
      BY <1>0, <2>1 DEF Goto, TypeOK, Shape, BootPoints
    <3>2. Quiet'
      BY <1>0, <2>1, <3>1, QuietStep
    <3>3. QED
      BY <2>1, <3>1, <3>2, StillCovered
  <2>2. QED
    BY <1>9, <2>1, CleanUpLeavesNothing DEF StartContainer, DetectTimeout, Finish, BootPoints
<1>10. CASE ReleaseOnDaemon(t)
  <2>1. PICK r \in held[t] :
          /\ pc[t] = "release" /\ Drop(t, r)
          /\ \/ world' = world \ {r} /\ refused' = refused
             \/ world' = world /\ refused' = refused \cup {r}
          /\ UNCHANGED <<mode, phase, pc, refs, unnamed, entries>>
    BY <1>0, <1>10 DEF ReleaseOnDaemon
  <2>2. \A x \in world' : Covered(x)'
    BY <2>1, CoveredAfterDrop
  <2>3. Quiet'
    BY <2>1 DEF OrphanInv, Quiet
  <2>4. QED
    BY <2>2, <2>3
<1>11. CASE UnlinkEntries(t)
  <2>1. /\ pc[t] = "release" /\ pc'[t] = "rmdir" /\ "workspace" \in held[t]
        /\ UNCHANGED <<mode, phase, refs, held, world, refused, unnamed>>
        /\ \A u \in Threads : u # t => pc'[u] = pc[u]
    BY <1>0, <1>11 DEF UnlinkEntries, IsNext, Goto, TypeOK
  <2>2. Quiet'
    BY <2>1, QuietStep DEF OrphanInv, Quiet
  <2>3. \A r \in world' : Covered(r)'
    BY <2>1 DEF OrphanInv, Covered, Owned, Spoiled
  <2>4. QED
    BY <2>2, <2>3
<1>12. CASE RemoveDirectory(t)
  <2>1. /\ pc[t] = "rmdir" /\ pc'[t] = "release"
        /\ held' = [held EXCEPT ![t] = held[t] \ {"workspace"}]
        /\ \/ /\ world' = IF entries = {} THEN world \ {"workspace"} ELSE world
              /\ refused' = refused
           \/ world' = world /\ refused' = refused \cup {"workspace"}
        /\ UNCHANGED <<mode, phase, refs, unnamed, entries>>
        /\ \A u \in Threads : u # t => pc'[u] = pc[u]
    BY <1>0, <1>12 DEF RemoveDirectory, Goto, Drop, TypeOK
  <2>2. Quiet'
    BY <2>1, QuietStep DEF OrphanInv, Quiet
  <2>3. /\ held'[t] = held[t] \ {"workspace"}
        /\ \A u \in Threads : u # t => held'[u] = held[u]
    BY <1>0, <2>1 DEF TypeOK
  <2>4. \A r \in world' : Covered(r)'
    BY <2>1, <2>3 DEF OrphanInv, Covered, Owned, Spoiled
  <2>5. QED
    BY <2>2, <2>4
<1>13. CASE ReleaseDone(t)
  <2>1. /\ pc[t] = "release" /\ pc'[t] = "done" /\ entries' = entries
        /\ phase' = Settled /\ UNCHANGED <<mode, refs, held, world, refused, unnamed>>
        /\ \A u \in Threads : u # t => pc'[u] = pc[u]
    BY <1>0, <1>13 DEF ReleaseDone, Finish, Goto, TypeOK
  <2>2. phase' = phase \/ (phase = "booting" /\ phase' = "failed" /\ refs = {})
    BY <2>1 DEF Settled, OrphanInv, Quiet
  <2>3. Quiet'
    BY <2>1, <2>2, QuietStep
  <2>4. QED
    BY <2>1, <2>2, <2>3, StillCovered
<1>14. CASE Destroy(t)
  <2>1. /\ StartRelease(t, "idle", refs, "ok") /\ phase = "live"
        /\ Adds /\ UNCHANGED <<mode, phase, refused, entries>>
    BY <1>14 DEF Destroy, ReleaseFrame, Adds
  <2>2. /\ pc[t] = "idle" /\ pc'[t] = "release" /\ refs' = {}
        /\ \A u \in Threads : u # t => pc'[u] = pc[u]
    BY <1>0, <2>1 DEF StartRelease, Goto, TypeOK
  <2>3. held[t] = {}
    BY <1>0, <2>2 DEF Shape, Holding
  <2>4. Quiet'
    BY <1>0, <2>1, <2>2, QuietStep
  <2>5. QED
    BY <2>1, <2>3, <2>4, CoveredByReleaser
<1>15. CASE Exec(t)
  BY <1>15, AdvanceKeepsOrphanInv, FailKeepsOrphanInv DEF Exec, BootPoints
<1>16. CASE ExecCreate(t)
  BY <1>16, AdvanceKeepsOrphanInv, FailKeepsOrphanInv DEF ExecCreate, BootPoints
<1>17. CASE ExecStream(t)
  <2>1. CASE /\ StartRelease(t, "exec_stream", refs, "backstop")
             /\ UNCHANGED <<ReleaseFrame, world, unnamed>>
    <3>1. /\ pc[t] = "exec_stream" /\ pc'[t] = "release" /\ refs' = {} /\ phase' = phase
          /\ Adds /\ UNCHANGED <<mode, refused, entries>>
          /\ \A u \in Threads : u # t => pc'[u] = pc[u]
      BY <1>0, <2>1 DEF StartRelease, Goto, ReleaseFrame, TypeOK, Adds
    <3>2. held[t] = {}
      BY <1>0, <3>1 DEF Shape, Holding
    <3>3. Quiet'
      BY <1>0, <3>1, QuietStep
    <3>4. QED
      BY <2>1, <3>1, <3>2, <3>3, CoveredByReleaser
  <2>2. QED
    BY <1>17, <2>1, AdvanceKeepsOrphanInv, FailKeepsOrphanInv DEF ExecStream, BootPoints
<1>18. CASE ExecInspect(t)
  BY <1>18, FailKeepsOrphanInv DEF ExecInspect, BootPoints
<1>19. CASE Write(t)
  BY <1>19, AdvanceKeepsOrphanInv, FailKeepsOrphanInv DEF Write, BootPoints
<1>20. CASE WriteTemp(t)
  <2>1. CASE /\ Goto(t, "write_temp", "write_replace")
             /\ entries' = entries \cup {t} /\ UNCHANGED CallFrame
    BY <2>1, CallKeepsOrphanInv DEF CallFrame, BootPoints
  <2>2. QED
    BY <1>20, <2>1, FailKeepsOrphanInv DEF WriteTemp, BootPoints
<1>21. CASE WriteReplace(t)
  BY <1>21, FailKeepsOrphanInv DEF WriteReplace, BootPoints
<1>22. CASE Return(t)
  BY <1>22, CallKeepsOrphanInv DEF Return, CallFrame, BootPoints
<1>23. ~AbortEscapes(t)
  BY <1>0 DEF AbortEscapes
<1>24. QED
  BY StepCases, <1>1, <1>2, <1>3, <1>4, <1>5, <1>6, <1>7, <1>8, <1>9, <1>10, <1>11,
     <1>12, <1>13, <1>14, <1>15, <1>16, <1>17, <1>18, <1>19, <1>20, <1>21, <1>22, <1>23

\* On a daemon that answers and with no CIDR allowlist, whatever exists after a failed
\* boot, a destroy or the exec backstop is what could not be removed (a refusal, or a
\* directory that rmtree could not empty), what a call that raised had made, or a
\* directory that a late write slipped into.
THEOREM NothingOrphaned == ASSUME Healthy PROVE RuntimeSpec => []NoOrphan
<1>1. RuntimeInit => OrphanInv
  BY DEF RuntimeInit, OrphanInv, ReleaserInv, TypeOK, Shape, SingleReleaser, Quiet, Points,
         BootPoints, Outcomes, Kinds, Holding
<1>2. OrphanInv /\ [RuntimeNext]_runtimeVars => OrphanInv'
  <2>1. CASE OrphanInv /\ RuntimeNext
    BY <2>1, NextIsStep, TypeStep, ReleaserStep, OrphanStep DEF ReleaserInv, OrphanInv
  <2>2. CASE OrphanInv /\ UNCHANGED runtimeVars
    BY <2>2 DEF runtimeVars, OrphanInv, ReleaserInv, TypeOK, Shape, SingleReleaser, Quiet,
                Covered, Owned, Spoiled
  <2>3. QED
    BY <2>1, <2>2
<1>3. OrphanInv => NoOrphan
  BY CoveredIsNoOrphan DEF OrphanInv
<1>4. QED
  BY <1>1, <1>2, <1>3, PTL DEF RuntimeSpec
-----------------------------------------------------------------------------
(* The mount.  Whoever names the directory, field or thread, names the     *)
(* container too, or the container is already gone or refused; so the      *)
(* thread that reaches rmdir has nothing left to unmount.                  *)

Guarded(S) ==
    "workspace" \in S => /\ "workspace" \in world
                         /\ "container" \in S
                            \/ "container" \notin world \ (refused \cup unnamed)

Assembled ==
    /\ \A t \in Threads : pc[t] \in {"boot_copy", "boot_assign"} => "workspace" \in held[t]
    /\ \A t \in Threads : pc[t] \in BootPoints \ {"boot_copy", "boot_assign"}
                              => "workspace" \in refs
    /\ \A t \in Threads : pc[t] = "rmdir" => "workspace" \in held[t] /\ "container" \notin held[t]

MountSafe ==
    /\ Assembled
    /\ Guarded(refs)
    /\ \A t \in Threads : Guarded(held[t])
    /\ MountOutlivesContainer

MountInv == ReleaserInv /\ MountSafe

LEMMA ReleaseKeepsMount ==
    ASSUME MountInv, NEW t \in Threads, NEW from, NEW taken, NEW result,
           StartRelease(t, from, taken, result), Adds, UNCHANGED refused,
           \/ taken = refs \/ (taken = held[t] /\ from = "boot_copy")
           \/ taken \cap {"container", "workspace"} = {},
           from \in BootPoints \/ phase = "live" \/ \A u \in Threads : pc[u] \notin BootPoints
    PROVE  MountSafe'
<1>1. /\ pc[t] = from /\ pc'[t] = "release" /\ held'[t] = taken /\ refs' = refs \ taken
      /\ \A u \in Threads : u # t => pc'[u] = pc[u] /\ held'[u] = held[u]
  BY DEF StartRelease, Goto, MountInv, ReleaserInv, TypeOK
<1>2. \A u \in Threads : u # t => pc[u] \notin BootPoints
  BY <1>1 DEF MountInv, ReleaserInv, Shape, BootPoints
<1>3. Assembled'
  BY <1>1, <1>2 DEF MountInv, MountSafe, Assembled, BootPoints
<1>4. refs \cap held[t] = {}
  BY DEF MountInv, ReleaserInv, SingleReleaser
<1>5. Guarded(taken) /\ Guarded(refs \ taken)
  BY <1>4 DEF MountInv, MountSafe, Guarded
<1>6. Guarded(refs)' /\ \A u \in Threads : Guarded(held[u])'
  BY <1>1, <1>5 DEF MountInv, MountSafe, Guarded, Adds
<1>7. MountOutlivesContainer'
  BY DEF MountInv, MountSafe, MountOutlivesContainer, Adds
<1>8. QED
  BY <1>3, <1>6, <1>7 DEF MountSafe

LEMMA CleanUpKeepsMount ==
    ASSUME MountInv, NEW t \in Threads, NEW from \in BootPoints, NEW result,
           NEW kinds, CleanUp(t, from, result, kinds)
    PROVE  MountSafe'
  BY ReleaseKeepsMount, RaisedAdds DEF CleanUp, ReleaseFrame

LEMMA EgressAbortKeepsMount ==
    ASSUME MountInv, NEW t \in Threads, NEW from \in BootPoints, NEW kinds,
           EgressAbort(t, from, kinds)
    PROVE  MountSafe'
<1>1. (refs \cap {"proxy", "network"}) \cap {"container", "workspace"} = {}
  OBVIOUS
<1>2. QED
  BY <1>1, ReleaseKeepsMount, RaisedAdds DEF EgressAbort, ReleaseFrame

\* Only control moves, and the thread ends up where Assembled asks for nothing new.
LEMMA ControlKeepsMount ==
    ASSUME MountInv, NEW t \in Threads, NEW from, NEW to, Goto(t, from, to),
           UNCHANGED <<refs, held, world, refused, unnamed>>,
           to \notin BootPoints \cup {"rmdir"} \/
               (from \in BootPoints \ {"boot_copy", "boot_assign"} /\
                to \in BootPoints \ {"boot_copy", "boot_assign"})
    PROVE  MountSafe'
<1>1. /\ pc[t] = from /\ pc'[t] = to
      /\ \A u \in Threads : u # t => pc'[u] = pc[u]
  BY DEF Goto, MountInv, ReleaserInv, TypeOK
<1>2. Assembled'
  BY <1>1 DEF MountInv, MountSafe, Assembled, BootPoints
<1>3. QED
  BY <1>2 DEF MountInv, MountSafe, Guarded, MountOutlivesContainer

LEMMA ProvisionKeepsMount ==
    ASSUME MountInv, NEW t \in Threads, NEW from \in BootPoints \ {"boot_copy", "boot_assign"},
           NEW kind, NEW to \in BootPoints \ {"boot_copy", "boot_assign"},
           Provision(t, from, kind, to)
    PROVE  MountSafe'
<1>1. /\ pc[t] = from /\ pc'[t] = to /\ phase = "booting" /\ "workspace" \in refs
      /\ \A u \in Threads : u # t => pc'[u] = pc[u] /\ pc[u] = "idle"
      /\ \A u \in Threads : held[u] = {}
  BY DEF Provision, Goto, MountInv, MountSafe, Assembled, ReleaserInv, Shape, TypeOK,
         BootPoints, Holding
<1>2. Assembled'
  BY <1>1 DEF Provision, Assembled, BootPoints
<1>3. "workspace" \in world
  BY <1>1 DEF MountInv, MountSafe, Guarded
<1>4. Guarded(refs)' /\ \A u \in Threads : Guarded(held[u])'
  BY <1>1, <1>3 DEF Provision, MountInv, MountSafe, Guarded
<1>5. MountOutlivesContainer'
  BY <1>3 DEF Provision, MountOutlivesContainer
<1>6. QED
  BY <1>2, <1>4, <1>5 DEF MountSafe

LEMMA CallKeepsMount ==
    ASSUME MountInv, NEW t \in Threads, NEW from, NEW to \in {"exec_create", "exec_stream",
           "exec_inspect", "write_temp", "write_replace", "done", "idle"},
           Goto(t, from, to), UNCHANGED CallFrame
    PROVE  MountSafe'
<1>1. to \notin BootPoints \cup {"rmdir"}
  BY DEF BootPoints
<1>2. QED
  BY <1>1, ControlKeepsMount DEF CallFrame

LEMMA AdvanceKeepsMount ==
    ASSUME MountInv, NEW t \in Threads, NEW from, NEW to \in {"exec_create", "exec_stream",
           "exec_inspect", "write_temp"}, Advance(t, from, to)
    PROVE  MountSafe'
  BY CallKeepsMount DEF Advance

LEMMA FailKeepsMount ==
    ASSUME MountInv, NEW t \in Threads, NEW from, NEW result, Fail(t, from, result)
    PROVE  MountSafe'
  BY CallKeepsMount DEF Fail, Finish

\* One resource leaves a thread's hands, and the daemon's world or its good graces.
LEMMA DropKeepsMount ==
    ASSUME MountInv, NEW t \in Threads, NEW r \in held[t] \ {"workspace"}, pc[t] = "release",
           Drop(t, r), UNCHANGED <<pc, refs, unnamed>>,
           \/ world' = world \ {r} /\ refused' = refused
           \/ world' = world /\ refused' = refused \cup {r}
    PROVE  MountSafe'
<1>1. held'[t] = held[t] \ {r} /\ \A u \in Threads : u # t => held'[u] = held[u]
  BY DEF Drop, MountInv, ReleaserInv, TypeOK
<1>2. Assembled'
  BY <1>1 DEF MountInv, MountSafe, Assembled
<1>3. Guarded(refs)' /\ \A u \in Threads : Guarded(held[u])'
  BY <1>1 DEF MountInv, MountSafe, Guarded
<1>4. MountOutlivesContainer'
  BY DEF MountInv, MountSafe, MountOutlivesContainer
<1>5. QED
  BY <1>2, <1>3, <1>4 DEF MountSafe

LEMMA MountStep ==
    ASSUME MountInv, NEW t \in Threads, Steps(t)
    PROVE  MountSafe'
<1>0. ReleaserInv /\ TypeOK /\ Shape /\ MountSafe
  BY DEF MountInv, ReleaserInv
<1>1. CASE Prepare(t)
  <2>1. /\ refs' = {} /\ world' = {"workspace"}
        /\ \/ held'[t] = {"workspace"} /\ pc'[t] \in {"boot_assign", "boot_copy"}
           \/ held'[t] = {} /\ pc'[t] = "done"
        /\ \A u \in Threads : u # t => pc'[u] = "idle" /\ held'[u] = {}
    BY <1>0, <1>1 DEF Prepare, Goto, Finish, TypeOK, Shape, Holding
  <2>2. QED
    BY <2>1 DEF MountSafe, Assembled, Guarded, MountOutlivesContainer, BootPoints
<1>2. CASE ForkCopy(t)
  <2>1. CASE /\ StartRelease(t, "boot_copy", held[t], "unavailable")
             /\ Adds /\ UNCHANGED ReleaseFrame
    BY <2>1, ReleaseKeepsMount DEF ReleaseFrame, BootPoints
  <2>2. CASE /\ Goto(t, "boot_copy", "boot_assign") /\ UNCHANGED <<refs, refused, unnamed>>
             /\ \E new \in SUBSET {"image"} : /\ world' = world \cup new
                                              /\ held' = [held EXCEPT ![t] = held[t] \cup new]
    <3>1. PICK new \in SUBSET {"image"} : /\ world' = world \cup new
                                          /\ held' = [held EXCEPT ![t] = held[t] \cup new]
      BY <2>2
    <3>2. /\ held'[t] = held[t] \cup new /\ pc[t] = "boot_copy" /\ pc'[t] = "boot_assign"
          /\ \A u \in Threads : u # t => held'[u] = held[u] /\ pc'[u] = pc[u]
      BY <1>0, <2>2, <3>1 DEF Goto, TypeOK
    <3>3. Assembled'
      BY <1>0, <2>2, <3>2 DEF MountSafe, Assembled
    <3>4. Guarded(refs)' /\ \A u \in Threads : Guarded(held[u])'
      BY <1>0, <2>2, <3>1, <3>2 DEF MountSafe, Guarded
    <3>5. MountOutlivesContainer'
      BY <1>0, <2>2, <3>1 DEF MountSafe, MountOutlivesContainer
    <3>6. QED
      BY <3>3, <3>4, <3>5 DEF MountSafe
  <2>3. QED
    BY <1>2, <2>1, <2>2, RaisedAdds DEF ForkCopy, Committed
<1>3. CASE Assign(t)
  <2>1. /\ pc[t] = "boot_assign" /\ refs' = held[t] /\ held'[t] = {}
        /\ UNCHANGED <<world, refused, unnamed>> /\ pc'[t] \in {"done", "boot_client"}
        /\ \A u \in Threads : u # t => /\ pc'[u] = pc[u] /\ pc[u] = "idle"
                                       /\ held'[u] = held[u]
    BY <1>0, <1>3 DEF Assign, Goto, Finish, Shape, BootPoints, TypeOK
  <2>2. "workspace" \in refs'
    BY <1>0, <2>1 DEF MountSafe, Assembled
  <2>3. Assembled'
    BY <2>1, <2>2 DEF Assembled, BootPoints
  <2>4. QED
    BY <1>0, <2>1, <2>3 DEF MountSafe, Guarded, MountOutlivesContainer
<1>4. CASE ConnectClient(t)
  BY <1>4, CleanUpKeepsMount, ControlKeepsMount DEF ConnectClient, BootPoints
<1>5. CASE StartNetwork(t)
  BY <1>5, CleanUpKeepsMount, EgressAbortKeepsMount, ProvisionKeepsMount
     DEF StartNetwork, BootPoints
<1>6. CASE StartProxy(t)
  BY <1>6, CleanUpKeepsMount, EgressAbortKeepsMount, ProvisionKeepsMount
     DEF StartProxy, BootPoints
<1>7. CASE ConnectProxy(t)
  BY <1>7, CleanUpKeepsMount, EgressAbortKeepsMount, ControlKeepsMount
     DEF ConnectProxy, BootPoints
<1>8. CASE CreateContainer(t)
  BY <1>8, CleanUpKeepsMount, ProvisionKeepsMount DEF CreateContainer, BootPoints
<1>9. CASE StartContainer(t)
  BY <1>9, CleanUpKeepsMount, ControlKeepsMount DEF StartContainer, Finish, BootPoints
<1>10. CASE ReleaseOnDaemon(t)
  <2>1. PICK r \in held[t] \ {"workspace"} :
          /\ pc[t] = "release" /\ UNCHANGED <<refs, unnamed>>
          /\ \/ /\ Drop(t, r) /\ UNCHANGED pc
                /\ \/ world' = world \ {r} /\ refused' = refused
                   \/ world' = world /\ refused' = refused \cup {r}
             \/ /\ held' = [held EXCEPT ![t] = {}] /\ Finish(t, "release", "transport")
                /\ UNCHANGED <<world, refused>>
    BY <1>10 DEF ReleaseOnDaemon
  <2>2. CASE /\ held' = [held EXCEPT ![t] = {}] /\ Finish(t, "release", "transport")
             /\ UNCHANGED <<world, refused>>
    <3>1. /\ pc'[t] = "done" /\ held'[t] = {}
          /\ \A u \in Threads : u # t => pc'[u] = pc[u] /\ held'[u] = held[u]
      BY <1>0, <2>2 DEF Finish, Goto, TypeOK
    <3>2. Assembled'
      BY <1>0, <2>1, <3>1 DEF MountSafe, Assembled, BootPoints
    <3>3. QED
      BY <1>0, <2>1, <2>2, <3>1, <3>2 DEF MountSafe, Guarded, MountOutlivesContainer
  <2>3. QED
    BY <2>1, <2>2, DropKeepsMount
<1>11. CASE UnlinkEntries(t)
  <2>1. /\ pc[t] = "release" /\ pc'[t] = "rmdir"
        /\ UNCHANGED <<refs, held, world, refused, unnamed>>
        /\ \A u \in Threads : u # t => pc'[u] = pc[u]
    BY <1>0, <1>11 DEF UnlinkEntries, Goto, TypeOK
  <2>2. "workspace" \in held[t] /\ "container" \notin held[t]
    BY <1>11 DEF UnlinkEntries, IsNext, Rank
  <2>3. Assembled'
    BY <1>0, <2>1, <2>2 DEF MountSafe, Assembled, BootPoints
  <2>4. QED
    BY <1>0, <2>1, <2>3 DEF MountSafe, Guarded, MountOutlivesContainer
<1>12. CASE RemoveDirectory(t)
  <2>1. /\ pc[t] = "rmdir" /\ pc'[t] = "release" /\ held'[t] = held[t] \ {"workspace"}
        /\ world' \in {world, world \ {"workspace"}} /\ UNCHANGED <<refs, unnamed>>
        /\ refused' \in {refused, refused \cup {"workspace"}}
        /\ \A u \in Threads : u # t => pc'[u] = pc[u] /\ held'[u] = held[u]
    BY <1>0, <1>12 DEF RemoveDirectory, Goto, Drop, TypeOK
  <2>2. "workspace" \in held[t] /\ "container" \notin world \ (refused \cup unnamed)
    BY <1>0, <2>1 DEF MountSafe, Assembled, Guarded
  <2>3. "workspace" \notin refs /\ \A u \in Threads : u # t => "workspace" \notin held[u]
    BY <1>0, <2>2 DEF ReleaserInv, SingleReleaser
  <2>4. Assembled'
    BY <1>0, <2>1 DEF MountSafe, Assembled, BootPoints
  <2>5. Guarded(refs)' /\ \A u \in Threads : Guarded(held[u])'
    BY <2>1, <2>3 DEF Guarded
  <2>6. MountOutlivesContainer'
    BY <2>1, <2>2 DEF MountOutlivesContainer
  <2>7. QED
    BY <2>4, <2>5, <2>6 DEF MountSafe
<1>13. CASE ReleaseDone(t)
  BY <1>13, ControlKeepsMount DEF ReleaseDone, Finish, BootPoints
<1>14. CASE Destroy(t)
  BY <1>14, ReleaseKeepsMount DEF Destroy, ReleaseFrame, Adds
<1>15. CASE Exec(t)
  BY <1>15, AdvanceKeepsMount, FailKeepsMount DEF Exec
<1>16. CASE ExecCreate(t)
  BY <1>16, AdvanceKeepsMount, FailKeepsMount DEF ExecCreate
<1>17. CASE ExecStream(t)
  <2>1. CASE /\ StartRelease(t, "exec_stream", refs, "backstop")
             /\ UNCHANGED <<ReleaseFrame, world, unnamed>>
    <3>1. \A u \in Threads : pc[u] \notin BootPoints
      BY <1>0, <2>1 DEF StartRelease, Goto, Shape, BootPoints
    <3>2. QED
      BY <2>1, <3>1, ReleaseKeepsMount DEF ReleaseFrame, Adds
  <2>2. QED
    BY <1>17, <2>1, AdvanceKeepsMount, FailKeepsMount DEF ExecStream
<1>18. CASE ExecInspect(t)
  BY <1>18, FailKeepsMount DEF ExecInspect
<1>19. CASE Write(t)
  BY <1>19, AdvanceKeepsMount, FailKeepsMount DEF Write
<1>20. CASE WriteTemp(t)
  BY <1>20, CallKeepsMount, FailKeepsMount DEF WriteTemp
<1>21. CASE WriteReplace(t)
  BY <1>21, FailKeepsMount DEF WriteReplace
<1>22. CASE Return(t)
  BY <1>22, CallKeepsMount DEF Return
<1>23. CASE AbortEscapes(t)
  <2>1. /\ StartRelease(t, "release", refs, "unavailable") /\ Adds /\ UNCHANGED refused
        /\ pc[t] = "release" /\ phase = "booting"
    BY <1>23 DEF AbortEscapes, Aborting, ReleaseFrame, Adds, StartRelease, Goto
  <2>2. \A u \in Threads : pc[u] \notin BootPoints
    BY <1>0, <2>1 DEF Shape, BootPoints
  <2>3. QED
    BY <2>1, <2>2, ReleaseKeepsMount
<1>24. QED
  BY StepCases, <1>1, <1>2, <1>3, <1>4, <1>5, <1>6, <1>7, <1>8, <1>9, <1>10, <1>11,
     <1>12, <1>13, <1>14, <1>15, <1>16, <1>17, <1>18, <1>19, <1>20, <1>21, <1>22, <1>23

\* Whatever fails and however destroy, the backstop and a failed boot overlap, no
\* directory is removed under a container that still has it mounted.
THEOREM MountOutlives == RuntimeSpec => []MountOutlivesContainer
<1>1. RuntimeInit => MountInv
  BY DEF RuntimeInit, MountInv, MountSafe, Assembled, Guarded, MountOutlivesContainer,
         ReleaserInv, TypeOK, Shape, SingleReleaser, Points, BootPoints, Outcomes, Kinds, Holding
<1>2. MountInv /\ [RuntimeNext]_runtimeVars => MountInv'
  <2>1. CASE MountInv /\ RuntimeNext
    BY <2>1, NextIsStep, TypeStep, ReleaserStep, MountStep DEF ReleaserInv, MountInv
  <2>2. CASE MountInv /\ UNCHANGED runtimeVars
    BY <2>2 DEF runtimeVars, MountInv, MountSafe, Assembled, Guarded, MountOutlivesContainer,
                ReleaserInv, TypeOK, Shape, SingleReleaser
  <2>3. QED
    BY <2>1, <2>2
<1>3. MountInv => MountOutlivesContainer
  BY DEF MountInv, MountSafe
<1>4. QED
  BY <1>1, <1>2, <1>3, PTL DEF RuntimeSpec

-----------------------------------------------------------------------------
(* Failed boots.  While an object boots one thread has everything in its    *)
(* hands, in its locals or in the fields, except what the handlers of _boot  *)
(* and of EgressSidecar.start pass over.                                    *)

\* What the call that raised may have made: one thing, or the sidecar's two.
LeftByOneCall(made) ==
    made \subseteq {"proxy", "network"} \/ made \in {{"workspace"}, {"image"}, {"container"}}

BootLeaves ==
    /\ phase \in {"new", "booting"} => entries = {}
    /\ phase = "new" => unnamed = {}
    /\ phase = "booting" => \A t \in Threads :
        /\ pc[t] \in BootPoints \cup {"idle", "release", "rmdir"}
        /\ pc[t] \in {"boot_copy", "boot_assign"} =>
               world \subseteq held[t] /\ world \subseteq {"workspace", "image"}
        /\ pc[t] \in BootPoints \ {"boot_copy", "boot_assign"} => world \subseteq refs
        /\ pc[t] \in BootPoints \ {"boot_container", "boot_start"} => "container" \notin world
        /\ pc[t] \in {"boot_network", "boot_proxy", "boot_connect"} => mode.net = "domains"
        /\ pc[t] \in BootPoints => unnamed = {}
        /\ pc[t] \in {"release", "rmdir"} =>
               /\ world \subseteq refused \cup unnamed \cup held[t] \cup MayLeave
               /\ LeftByOneCall(unnamed)
               /\ refs # {} => held[t] \cup unnamed \subseteq {"proxy", "network"}

LeaveInv == ReleaserInv /\ BootLeaves

\* The booting thread goes from one point to another, and nobody else is anywhere.
LEMMA BootLeavesStep ==
    ASSUME LeaveInv, NEW t \in Threads, phase = "booting", pc[t] # "idle",
           \A u \in Threads : u # t => pc'[u] = pc[u],
           entries' = entries, phase' = "booting",
           pc'[t] \in BootPoints \cup {"release", "rmdir"},
           pc'[t] \in {"boot_copy", "boot_assign"} =>
               world' \subseteq held'[t] /\ world' \subseteq {"workspace", "image"},
           pc'[t] \in BootPoints \ {"boot_copy", "boot_assign"} => world' \subseteq refs',
           pc'[t] \in BootPoints \ {"boot_container", "boot_start"} => "container" \notin world',
           pc'[t] \in {"boot_network", "boot_proxy", "boot_connect"} => mode'.net = "domains",
           pc'[t] \in BootPoints => unnamed' = {},
           pc'[t] \in {"release", "rmdir"} =>
               /\ world' \subseteq refused' \cup unnamed' \cup held'[t] \cup MayLeave'
               /\ LeftByOneCall(unnamed')
               /\ refs' # {} => held'[t] \cup unnamed' \subseteq {"proxy", "network"}
    PROVE  BootLeaves'
<1>1. \A u \in Threads : u # t => pc'[u] = "idle"
  BY DEF LeaveInv, ReleaserInv, Shape
<1> QED BY <1>1 DEF LeaveInv, BootLeaves, LeftByOneCall, BootPoints

\* A boot that is over, or a call on a live object, leaves nothing to say.
LEMMA NotBootingStep ==
    ASSUME phase' \notin {"new", "booting"}
    PROVE  BootLeaves'
  BY DEF BootLeaves

LEMMA ReleaseOfBoot ==
    ASSUME LeaveInv, NEW t \in Threads, NEW from \in BootPoints, NEW taken, NEW result,
           StartRelease(t, from, taken, result), UNCHANGED <<mode, phase, refused, entries>>,
           world' \subseteq refused \cup unnamed' \cup taken \cup MayLeave,
           LeftByOneCall(unnamed'),
           \/ refs \subseteq taken
           \/ taken \cup unnamed' \subseteq {"proxy", "network"}
    PROVE  BootLeaves'
<1>1. pc[t] = from /\ pc[t] # "idle" /\ phase = "booting" /\ phase' = "booting"
  BY DEF StartRelease, Goto, LeaveInv, ReleaserInv, Shape, BootPoints
<1>2. /\ pc'[t] = "release" /\ held'[t] = taken /\ MayLeave' = MayLeave
      /\ refused' = refused /\ \A u \in Threads : u # t => pc'[u] = pc[u]
  BY DEF StartRelease, Goto, LeaveInv, ReleaserInv, TypeOK, MayLeave
<1>3. /\ world' \subseteq refused' \cup unnamed' \cup held'[t] \cup MayLeave'
      /\ refs' # {} => held'[t] \cup unnamed' \subseteq {"proxy", "network"}
  BY <1>2 DEF StartRelease
<1>4. entries' = entries /\ pc'[t] \notin BootPoints
  BY <1>2 DEF BootPoints
<1> HIDE DEF StartRelease
<1> QED BY <1>1, <1>2, <1>3, <1>4, BootLeavesStep DEF BootPoints

LEMMA CleanUpOfBoot ==
    ASSUME LeaveInv, NEW t \in Threads, NEW from \in BootPoints \ {"boot_copy", "boot_assign"},
           NEW result, NEW kinds \in {{}, {"network"}, {"proxy"}, {"container"}},
           CleanUp(t, from, result, kinds)
    PROVE  BootLeaves'
<1>1. pc[t] = from /\ phase = "booting"
  BY DEF CleanUp, StartRelease, Goto, LeaveInv, ReleaserInv, Shape
<1>2. PICK made \in SUBSET kinds : world' = world \cup made /\ unnamed' = unnamed \cup made
  BY DEF CleanUp, Raised
<1>3. world \subseteq refs /\ unnamed = {}
  BY <1>1 DEF LeaveInv, BootLeaves
<1>4. LeftByOneCall(unnamed')
  BY <1>2, <1>3 DEF LeftByOneCall
<1> QED BY <1>2, <1>3, <1>4, ReleaseOfBoot DEF CleanUp, ReleaseFrame

LEMMA EgressAbortOfBoot ==
    ASSUME LeaveInv, NEW t \in Threads, NEW kinds \in SUBSET {"proxy", "network"},
           EgressAbort(t, pc[t], kinds),
           pc[t] \in {"boot_network", "boot_proxy", "boot_connect"}
    PROVE  BootLeaves'
<1>1. phase = "booting" /\ pc[t] \in BootPoints
  BY DEF LeaveInv, ReleaserInv, Shape, BootPoints
<1>2. mode.net = "domains" /\ "container" \notin world /\ world \subseteq refs
      /\ world \subseteq Kinds
  BY <1>1 DEF LeaveInv, BootLeaves, BootPoints, ReleaserInv, TypeOK
<1>3. world \subseteq (refs \cap {"proxy", "network"}) \cup MayLeave
  BY <1>2 DEF MayLeave, Kinds
<1>4. PICK made \in SUBSET kinds : world' = world \cup made /\ unnamed' = unnamed \cup made
  BY DEF EgressAbort, Raised
<1>5. unnamed' \subseteq {"proxy", "network"} /\ LeftByOneCall(unnamed')
  BY <1>1, <1>4 DEF LeaveInv, BootLeaves, LeftByOneCall
<1> QED BY <1>1, <1>3, <1>4, <1>5, ReleaseOfBoot DEF EgressAbort, ReleaseFrame

LEMMA ProvisionOfBoot ==
    ASSUME LeaveInv, NEW t \in Threads, NEW from \in BootPoints \ {"boot_copy", "boot_assign"},
           NEW kind \in Kinds, NEW to \in BootPoints \ {"boot_copy", "boot_assign"},
           Provision(t, from, kind, to),
           to \in BootPoints \ {"boot_container", "boot_start"} =>
               /\ from \in {"boot_network", "boot_proxy", "boot_connect"}
               /\ kind # "container"
    PROVE  BootLeaves'
<1>1. /\ pc[t] = from /\ pc[t] # "idle" /\ phase = "booting" /\ phase' = "booting"
      /\ pc'[t] = to /\ world' = world \cup {kind} /\ refs' = refs \cup {kind}
      /\ \A u \in Threads : u # t => pc'[u] = pc[u]
      /\ mode' = mode /\ entries' = entries /\ world \subseteq refs /\ unnamed' = {}
  BY DEF Provision, Goto, LeaveInv, ReleaserInv, TypeOK, Shape, BootPoints, BootLeaves
<1>2. to \in BootPoints \ {"boot_container", "boot_start"} =>
          mode.net = "domains" /\ "container" \notin world
  BY <1>1 DEF LeaveInv, BootLeaves
<1> QED BY <1>1, <1>2, BootLeavesStep DEF BootPoints

\* The moves of the booting thread that touch no resource.
LEMMA ControlOfBoot ==
    ASSUME LeaveInv, NEW t \in Threads, NEW from \in BootPoints \ {"boot_copy", "boot_assign"},
           NEW to \in BootPoints \ {"boot_copy", "boot_assign"}, Goto(t, from, to),
           UNCHANGED <<mode, phase, refs, held, world, refused, unnamed, entries>>,
           to \in BootPoints \ {"boot_container", "boot_start"} =>
               mode.net = "domains" /\ "container" \notin world
    PROVE  BootLeaves'
<1>1. /\ pc[t] = from /\ pc[t] # "idle" /\ phase = "booting" /\ phase' = "booting"
      /\ pc'[t] = to /\ \A u \in Threads : u # t => pc'[u] = pc[u]
      /\ world \subseteq refs /\ unnamed' = {}
  BY DEF Goto, LeaveInv, ReleaserInv, TypeOK, Shape, BootPoints, BootLeaves
<1> QED BY <1>1, BootLeavesStep DEF BootPoints

LEMMA LeaveStep ==
    ASSUME LeaveInv, NEW t \in Threads, Steps(t)
    PROVE  BootLeaves'
<1>0. ReleaserInv /\ TypeOK /\ Shape /\ BootLeaves
  BY DEF LeaveInv, ReleaserInv
<1>1. CASE Prepare(t)
  <2>1. CASE phase' = "booting"
    <3>1. /\ world' = {"workspace"} /\ held'[t] = {"workspace"} /\ unnamed' = {}
          /\ pc'[t] \in {"boot_assign", "boot_copy"} /\ entries' = {}
          /\ \A u \in Threads : u # t => pc'[u] = "idle"
      BY <1>0, <1>1, <2>1 DEF Prepare, Goto, TypeOK, Shape, BootLeaves
    <3> QED BY <2>1, <3>1 DEF BootLeaves, BootPoints
  <2> QED BY <1>1, <2>1, NotBootingStep DEF Prepare
<1>2. CASE ForkCopy(t)
  <2>1. pc[t] = "boot_copy" /\ phase = "booting" /\ world \subseteq held[t]
        /\ world \subseteq {"workspace", "image"}
    BY <1>0, <1>2 DEF ForkCopy, Goto, StartRelease, Shape, BootPoints, BootLeaves
  <2>0. unnamed = {} /\ refs = {}
    BY <1>0, <2>1 DEF Shape, BootLeaves, BootPoints
  <2>2. CASE /\ StartRelease(t, "boot_copy", held[t], "unavailable")
             /\ \E kinds \in SUBSET {"image"} : Raised(kinds)
             /\ UNCHANGED ReleaseFrame
    <3>1. PICK made \in SUBSET {"image"} : world' = world \cup made /\ unnamed' = made
      BY <2>0, <2>2 DEF Raised
    <3>2. LeftByOneCall(unnamed')
      BY <3>1 DEF LeftByOneCall
    <3> QED BY <2>0, <2>1, <2>2, <3>1, <3>2, ReleaseOfBoot DEF ReleaseFrame, BootPoints
  <2>3. CASE /\ Goto(t, "boot_copy", "boot_assign")
             /\ UNCHANGED <<mode, phase, refs, refused, unnamed, entries>>
             /\ \E new \in SUBSET {"image"} : /\ world' = world \cup new
                                              /\ held' = [held EXCEPT ![t] = held[t] \cup new]
    <3>1. PICK new \in SUBSET {"image"} : /\ world' = world \cup new
                                          /\ held' = [held EXCEPT ![t] = held[t] \cup new]
      BY <2>3
    <3>2. /\ held'[t] = held[t] \cup new /\ pc'[t] = "boot_assign" /\ phase' = "booting"
          /\ \A u \in Threads : u # t => pc'[u] = pc[u]
      BY <1>0, <2>1, <2>3, <3>1 DEF Goto, TypeOK
    <3>3. world' \subseteq held'[t] /\ world' \subseteq {"workspace", "image"}
          /\ entries' = entries
      BY <2>1, <2>3, <3>1, <3>2
    <3> QED BY <2>0, <2>1, <2>3, <3>2, <3>3, BootLeavesStep DEF BootPoints
  <2> QED BY <1>2, <2>2, <2>3 DEF ForkCopy, Committed
<1>3. CASE Assign(t)
  <2>1. /\ pc[t] = "boot_assign" /\ phase = "booting" /\ world \subseteq held[t]
        /\ world \subseteq {"workspace", "image"}
        /\ refs' = held[t] /\ UNCHANGED <<mode, world, refused, unnamed, entries>>
        /\ unnamed = {}
        /\ \A u \in Threads : u # t => pc'[u] = pc[u]
    BY <1>0, <1>3 DEF Assign, Goto, Finish, Shape, BootPoints, BootLeaves, TypeOK
  <2>2. \/ phase' = "failed"
        \/ phase' = "booting" /\ pc'[t] = "boot_client"
    BY <1>0, <1>3, <2>1 DEF Assign, Goto, TypeOK
  <2> QED BY <2>1, <2>2, BootLeavesStep, NotBootingStep DEF BootPoints
<1>4. CASE ConnectClient(t)
  <2>1. CASE /\ Goto(t, "boot_client",
                     IF mode.net = "domains" THEN "boot_network" ELSE "boot_container")
             /\ UNCHANGED <<mode, phase, refs, held, world, refused, unnamed, entries>>
    <3>1. pc[t] = "boot_client" /\ phase = "booting" /\ "container" \notin world
      BY <1>0, <2>1 DEF Goto, Shape, BootLeaves, BootPoints
    <3> QED BY <2>1, <3>1, ControlOfBoot DEF BootPoints
  <2> QED BY <1>4, <2>1, CleanUpOfBoot DEF ConnectClient, BootPoints
<1>5. CASE StartNetwork(t)
  <2>1. pc[t] = "boot_network"
    BY <1>5 DEF StartNetwork, Provision, EgressAbort, CleanUp, StartRelease, Goto
  <2> QED BY <1>5, <2>1, CleanUpOfBoot, EgressAbortOfBoot, ProvisionOfBoot
          DEF StartNetwork, BootPoints, Kinds
<1>6. CASE StartProxy(t)
  <2>1. pc[t] = "boot_proxy"
    BY <1>6 DEF StartProxy, Provision, EgressAbort, CleanUp, StartRelease, Goto
  <2> QED BY <1>6, <2>1, CleanUpOfBoot, EgressAbortOfBoot, ProvisionOfBoot
          DEF StartProxy, BootPoints, Kinds
<1>7. CASE ConnectProxy(t)
  <2>1. pc[t] = "boot_connect"
    BY <1>7 DEF ConnectProxy, EgressAbort, CleanUp, StartRelease, Goto
  <2> QED BY <1>7, <2>1, CleanUpOfBoot, EgressAbortOfBoot, ControlOfBoot
          DEF ConnectProxy, BootPoints
<1>8. CASE CreateContainer(t)
  BY <1>8, CleanUpOfBoot, ProvisionOfBoot DEF CreateContainer, BootPoints, Kinds
<1>9. CASE StartContainer(t)
  BY <1>9, CleanUpOfBoot, NotBootingStep DEF StartContainer, BootPoints
<1>10. CASE ReleaseOnDaemon(t)
  <2>1. PICK r \in held[t] :
          /\ pc[t] = "release" /\ UNCHANGED <<mode, refs, unnamed, entries>>
          /\ \/ /\ held' = [held EXCEPT ![t] = held[t] \ {r}] /\ UNCHANGED <<pc, phase>>
                /\ \/ world' = world \ {r} /\ refused' = refused
                   \/ world' = world /\ refused' = refused \cup {r}
             \/ phase' = Settled
    BY <1>10 DEF ReleaseOnDaemon, Drop
  <2>2. phase # "new"
    BY <1>0, <2>1 DEF Shape
  <2>3. CASE /\ held' = [held EXCEPT ![t] = held[t] \ {r}] /\ UNCHANGED <<pc, phase>>
             /\ \/ world' = world \ {r} /\ refused' = refused
                \/ world' = world /\ refused' = refused \cup {r}
    <3>1. CASE phase = "booting"
      <4>1. /\ world \subseteq refused \cup unnamed \cup held[t] \cup MayLeave
            /\ held'[t] = held[t] \ {r} /\ MayLeave' = MayLeave
            /\ LeftByOneCall(unnamed)
            /\ refs # {} => held[t] \cup unnamed \subseteq {"proxy", "network"}
        BY <1>0, <2>1, <2>3, <3>1 DEF BootLeaves, TypeOK, MayLeave
      <4>2. /\ world' \subseteq refused' \cup unnamed' \cup held'[t] \cup MayLeave'
            /\ LeftByOneCall(unnamed')
            /\ refs' # {} => held'[t] \cup unnamed' \subseteq {"proxy", "network"}
        BY <2>1, <2>3, <4>1
      <4> QED BY <2>1, <2>3, <3>1, <4>2, BootLeavesStep DEF BootPoints
    <3> QED BY <2>2, <2>3, <3>1, NotBootingStep
  <2>4. CASE phase' = Settled
    BY <2>2, <2>4, NotBootingStep DEF Settled
  <2> QED BY <2>1, <2>3, <2>4
<1>11. CASE UnlinkEntries(t)
  <2>1. /\ pc[t] = "release" /\ pc'[t] = "rmdir" /\ entries' = {}
        /\ UNCHANGED <<mode, phase, refs, held, world, refused, unnamed>>
        /\ \A u \in Threads : u # t => pc'[u] = pc[u]
    BY <1>0, <1>11 DEF UnlinkEntries, Goto, TypeOK
  <2>2. CASE phase = "booting"
    <3>1. /\ entries' = entries /\ MayLeave' = MayLeave
          /\ world \subseteq refused \cup unnamed \cup held[t] \cup MayLeave
          /\ LeftByOneCall(unnamed)
          /\ refs # {} => held[t] \cup unnamed \subseteq {"proxy", "network"}
      BY <1>0, <2>1, <2>2 DEF BootLeaves, MayLeave
    <3> QED BY <2>1, <2>2, <3>1, BootLeavesStep DEF BootPoints
  <2> QED BY <1>0, <2>1, <2>2, NotBootingStep DEF Shape
<1>12. CASE RemoveDirectory(t)
  <2>1. /\ pc[t] = "rmdir" /\ pc'[t] = "release" /\ held'[t] = held[t] \ {"workspace"}
        /\ \/ /\ world' = IF entries = {} THEN world \ {"workspace"} ELSE world
              /\ refused' = refused
           \/ world' = world /\ refused' = refused \cup {"workspace"}
        /\ UNCHANGED <<mode, phase, refs, unnamed, entries>>
        /\ \A u \in Threads : u # t => pc'[u] = pc[u]
    BY <1>0, <1>12 DEF RemoveDirectory, Goto, Drop, TypeOK
  <2>2. CASE phase = "booting"
    <3>1. /\ entries = {} /\ MayLeave' = MayLeave
          /\ world \subseteq refused \cup unnamed \cup held[t] \cup MayLeave
          /\ LeftByOneCall(unnamed)
          /\ refs # {} => held[t] \cup unnamed \subseteq {"proxy", "network"}
      BY <1>0, <2>1, <2>2 DEF BootLeaves, MayLeave
    <3>2. /\ world' \subseteq refused' \cup unnamed' \cup held'[t] \cup MayLeave'
          /\ LeftByOneCall(unnamed')
          /\ refs' # {} => held'[t] \cup unnamed' \subseteq {"proxy", "network"}
      BY <2>1, <3>1
    <3> QED BY <2>1, <2>2, <3>2, BootLeavesStep DEF BootPoints
  <2> QED BY <1>0, <2>1, <2>2, NotBootingStep DEF Shape
<1>13. CASE ReleaseDone(t)
  <2>1. phase # "new" /\ phase' = Settled
    BY <1>0, <1>13 DEF ReleaseDone, Finish, Goto, Shape
  <2> QED BY <2>1, NotBootingStep DEF Settled
<1>14. CASE \/ Destroy(t) \/ Exec(t) \/ ExecCreate(t) \/ ExecStream(t) \/ ExecInspect(t)
            \/ Write(t) \/ WriteTemp(t) \/ WriteReplace(t) \/ Return(t)
  \* The calls of a live object, or of one that is no more.
  <2>1. /\ phase' = phase
        /\ phase = "live" \/ pc[t] \notin BootPoints \cup {"idle", "release", "rmdir"}
    BY <1>14 DEF Destroy, Exec, ExecCreate, ExecStream, ExecInspect, Write, WriteTemp,
          WriteReplace, Return, StartRelease, ReleaseFrame, Advance, Fail, Finish, Goto,
          CallFrame, BootPoints
  <2>2. phase \notin {"new", "booting"}
    BY <1>0, <2>1 DEF BootLeaves, Shape
  <2> QED BY <2>1, <2>2, NotBootingStep
<1>15. CASE AbortEscapes(t)
  \* Only the sidecar's two can be in its hands, and the fields go next.
  <2>1. /\ pc[t] = "release" /\ pc'[t] = "release" /\ held'[t] = refs /\ refs' = {}
        /\ phase = "booting" /\ refs # {}
        /\ unnamed' = unnamed \cup held[t] /\ world' = world
        /\ UNCHANGED <<mode, phase, refused, entries>>
        /\ \A u \in Threads : u # t => pc'[u] = pc[u]
    BY <1>0, <1>15 DEF AbortEscapes, Aborting, StartRelease, ReleaseFrame, Goto, TypeOK
  <2>2. /\ world \subseteq refused \cup unnamed \cup held[t] \cup MayLeave
        /\ MayLeave' = MayLeave /\ unnamed' \subseteq {"proxy", "network"}
    BY <1>0, <2>1 DEF BootLeaves, MayLeave
  <2>3. /\ world' \subseteq refused' \cup unnamed' \cup held'[t] \cup MayLeave'
        /\ LeftByOneCall(unnamed')
    BY <2>1, <2>2 DEF LeftByOneCall
  <2> QED BY <2>1, <2>3, BootLeavesStep DEF BootPoints
<1> QED
  BY StepCases, <1>1, <1>2, <1>3, <1>4, <1>5, <1>6, <1>7, <1>8, <1>9, <1>10, <1>11,
     <1>12, <1>13, <1>14, <1>15

\* The step that ends a failed boot.
LEMMA FailedStep ==
    ASSUME LeaveInv, NEW t \in Threads, Steps(t), phase # "failed", phase' = "failed"
    PROVE  /\ \/ world' \subseteq refused' \cup unnamed' \cup MayLeave
              \/ \E u \in Threads : pc[u] = "release" /\ outcome'[u] = "transport"
           /\ LeftByOneCall(unnamed')
<1>0. TypeOK /\ BootLeaves /\ Shape
  BY DEF LeaveInv, ReleaserInv
<1>1. CASE Prepare(t)
  BY <1>1 DEF Prepare, LeftByOneCall
<1>2. CASE Assign(t)
  <2>1. pc[t] = "boot_assign" /\ phase = "booting" /\ mode.net = "cidrs"
        /\ UNCHANGED <<world, unnamed>>
    BY <1>0, <1>2 DEF Assign, Goto, Finish, Shape, BootPoints
  <2>2. world \subseteq {"workspace", "image"} /\ unnamed = {}
    BY <1>0, <2>1 DEF BootLeaves, BootPoints
  <2> QED BY <2>1, <2>2 DEF MayLeave, LeftByOneCall
<1>3. CASE ReleaseOnDaemon(t) \/ ReleaseDone(t)
  <2>1. pc[t] = "release" /\ phase = "booting" /\ unnamed' = unnamed
    BY <1>3 DEF ReleaseOnDaemon, ReleaseDone, Finish, Goto, Settled
  <2>2. /\ world \subseteq refused \cup unnamed \cup held[t] \cup MayLeave
        /\ LeftByOneCall(unnamed')
    BY <1>0, <2>1 DEF BootLeaves
  <2>3. CASE Finish(t, "release", "transport")
    BY <1>0, <2>2, <2>3 DEF Finish, Goto, TypeOK
  <2>4. CASE ReleaseDone(t)
    BY <2>1, <2>2, <2>4 DEF ReleaseDone
  <2> QED BY <1>3, <2>1, <2>3, <2>4 DEF ReleaseOnDaemon
<1>4. CASE ForkCopy(t) \/ ConnectClient(t) \/ StartNetwork(t) \/ StartProxy(t)
           \/ ConnectProxy(t) \/ CreateContainer(t) \/ StartContainer(t)
  \* No other step ends a boot that way.
  BY <1>4 DEF ForkCopy, ConnectClient, StartNetwork, StartProxy, ConnectProxy,
     CreateContainer, StartContainer, CleanUp, EgressAbort, Provision, ReleaseFrame
<1>5. CASE UnlinkEntries(t) \/ RemoveDirectory(t) \/ AbortEscapes(t)
  BY <1>5 DEF UnlinkEntries, RemoveDirectory, AbortEscapes, ReleaseFrame
<1>6. CASE \/ Destroy(t) \/ Exec(t) \/ ExecCreate(t) \/ ExecStream(t) \/ ExecInspect(t)
           \/ Write(t) \/ WriteTemp(t) \/ WriteReplace(t) \/ Return(t)
  BY <1>6 DEF Destroy, Exec, ExecCreate, ExecStream, ExecInspect, Write, WriteTemp,
     WriteReplace, Return, ReleaseFrame, Advance, Fail, CallFrame
<1> QED BY <1>1, <1>2, <1>3, <1>4, <1>5, <1>6, StepCases

LEMMA LeaveInvHolds == RuntimeSpec => []LeaveInv
<1>1. RuntimeInit => LeaveInv
  BY DEF RuntimeInit, LeaveInv, BootLeaves, ReleaserInv, TypeOK, Shape, SingleReleaser, Points,
         BootPoints, Outcomes, Kinds, Holding
<1>2. LeaveInv /\ [RuntimeNext]_runtimeVars => LeaveInv'
  <2>1. CASE LeaveInv /\ RuntimeNext
    BY <2>1, NextIsStep, TypeStep, ReleaserStep, LeaveStep DEF ReleaserInv, LeaveInv
  <2>2. CASE LeaveInv /\ UNCHANGED runtimeVars
    BY <2>2 DEF runtimeVars, LeaveInv, BootLeaves, LeftByOneCall, MayLeave, ReleaserInv,
                TypeOK, Shape, SingleReleaser
  <2> QED BY <2>1, <2>2
<1> QED BY <1>1, <1>2, PTL DEF RuntimeSpec

\* For every network policy, origin and daemon error, and whichever call fails: a failed
\* boot leaves behind what could not be removed, what that call had made all the same
\* and what MayLeave lists, unless a transport error cut the clean-up short.
THEOREM LeavesNoMore == RuntimeSpec => FailedBootLeaves
<1>1. LeaveInv /\ [RuntimeNext]_runtimeVars =>
        [phase # "failed" /\ phase' = "failed" =>
           /\ \/ world' \subseteq refused' \cup unnamed' \cup MayLeave
              \/ \E t \in Threads : pc[t] = "release" /\ outcome'[t] = "transport"
           /\ \/ unnamed' \subseteq {"proxy", "network"}
              \/ unnamed' \in {{"workspace"}, {"image"}, {"container"}}]_runtimeVars
  BY FailedStep, NextIsStep DEF LeftByOneCall
<1> QED BY <1>1, LeaveInvHolds, PTL DEF RuntimeSpec, FailedBootLeaves


-----------------------------------------------------------------------------
(* The backend under the facade.  The facade calls the runtime in an order  *)
(* of its own, but every step of it is a step of the runtime or none.       *)

LEMMA BackendSteps == Next => (\E t \in Threads : Steps(t)) \/ UNCHANGED runtimeVars
<1> SUFFICES ASSUME Next PROVE (\E t \in Threads : Steps(t)) \/ UNCHANGED runtimeVars
  OBVIOUS
<1>1. ASSUME NEW t \in Threads,
             Progress(t) \/ Construct(t) \/ CallExec(t) \/ CallWrite(t) \/ CallDestroy(t)
      PROVE  Steps(t) \/ UNCHANGED runtimeVars
  BY <1>1 DEF Progress, BackendStep, Publish, EmitCreated, Deny, StartExec, StartWrite,
     CallReturns, SetDestroyed, AlreadyDestroyed, DestroyBackend, Announce, Construct,
     CallExec, CallWrite, CallDestroy, Resume, Steps
<1> QED BY <1>1 DEF Next, Expire, FireTimer

BackendInv == LeaveInv /\ MountInv

LEMMA BackendInvHolds == Spec => []BackendInv
<1>1. Init => BackendInv
  BY DEF Init, BackendInv, RuntimeInit, LeaveInv, BootLeaves, MountInv, MountSafe, Assembled,
         Guarded, MountOutlivesContainer, ReleaserInv, TypeOK, Shape, SingleReleaser, Points,
         BootPoints, Outcomes, Kinds, Holding
<1>2. BackendInv /\ [Next]_vars => BackendInv'
  <2>1. ASSUME BackendInv, NEW t \in Threads, Steps(t) PROVE BackendInv'
    BY <2>1, TypeStep, ReleaserStep, LeaveStep, MountStep DEF BackendInv, LeaveInv, MountInv,
       ReleaserInv
  <2>2. ASSUME BackendInv, UNCHANGED runtimeVars PROVE BackendInv'
    BY <2>2 DEF runtimeVars, BackendInv, LeaveInv, BootLeaves, MayLeave, MountInv, MountSafe,
       LeftByOneCall, Assembled, Guarded, MountOutlivesContainer, ReleaserInv, TypeOK, Shape,
       SingleReleaser
  <2> QED BY <2>1, <2>2, BackendSteps DEF vars
<1> QED BY <1>1, <1>2, PTL DEF Spec

-----------------------------------------------------------------------------
(* A live object.  It is handed out whole, and gives up everything at once.  *)

LEMMA LiveCases ==
    ASSUME BackendInv, NEW t \in Threads, Steps(t), phase = "live"
    PROVE  /\ ReleaseStep(t) \/ CallStep(t) \/ Destroy(t) \/ Exec(t) \/ Write(t) \/ Return(t)
           /\ ~AbortEscapes(t)
<1>1. pc[t] \notin BootPoints
  BY DEF BackendInv, LeaveInv, ReleaserInv, Shape
<1>2. ~BootStep(t) /\ ~Prepare(t)
  BY <1>1 DEF BootStep, ForkCopy, Assign, ConnectClient, StartNetwork, StartProxy, ConnectProxy,
     CreateContainer, StartContainer, CleanUp, EgressAbort, Provision, StartRelease, Finish,
     Goto, BootPoints, Prepare
<1>3. ~AbortEscapes(t)
  BY DEF AbortEscapes, Aborting
<1> QED BY <1>2, <1>3 DEF Steps, Internal

\* Nothing but the end of a boot makes an object live.
LEMMA BecomesLive ==
    ASSUME NEW t \in Threads, Steps(t), phase # "live", phase' = "live"
    PROVE  /\ Finish(t, "boot_start", "ok")
           /\ UNCHANGED <<mode, refs, held, world, refused, entries, after>>
<1>1. CASE StartContainer(t)
  BY <1>1 DEF StartContainer, CleanUp, ReleaseFrame
<1>2. CASE Prepare(t) \/ ForkCopy(t) \/ Assign(t) \/ ConnectClient(t) \/ StartNetwork(t)
           \/ StartProxy(t) \/ ConnectProxy(t) \/ CreateContainer(t)
  BY <1>2 DEF Prepare, ForkCopy, Assign, ConnectClient, StartNetwork, StartProxy,
     ConnectProxy, CreateContainer, CleanUp, EgressAbort, Provision, ReleaseFrame
<1>3. CASE ReleaseOnDaemon(t) \/ AbortEscapes(t) \/ UnlinkEntries(t) \/ RemoveDirectory(t)
           \/ ReleaseDone(t)
  BY <1>3 DEF ReleaseOnDaemon, AbortEscapes, UnlinkEntries, RemoveDirectory, ReleaseDone,
       ReleaseFrame, Settled
<1>4. CASE \/ Destroy(t) \/ Exec(t) \/ ExecCreate(t) \/ ExecStream(t) \/ ExecInspect(t)
           \/ Write(t) \/ WriteTemp(t) \/ WriteReplace(t) \/ Return(t)
  BY <1>4 DEF Destroy, Exec, ExecCreate, ExecStream, ExecInspect, Write, WriteTemp,
     WriteReplace, Return, ReleaseFrame, Advance, Fail, CallFrame
<1> QED BY <1>1, <1>2, <1>3, <1>4, StepCases

LiveWhole ==
    phase = "live" => refs = {} \/ ("workspace" \in refs /\ \A t \in Threads : held[t] = {})

\* How a live object's resources are named after a step of thread t.
LEMMA LiveStep ==
    ASSUME BackendInv, LiveWhole, NEW t \in Threads, Steps(t), phase = "live"
    PROVE  /\ phase' = "live"
           /\ LiveWhole'
           /\ \/ UNCHANGED refs
              \/ /\ refs' = {} /\ held' = [held EXCEPT ![t] = refs] /\ held[t] = {}
                 /\ UNCHANGED <<world, refused, entries>>
                 /\ pc[t] \in {"idle", "exec_stream"}
                 /\ pc' = [pc EXCEPT ![t] = "release"]
<1>0. TypeOK /\ Shape
  BY DEF BackendInv, LeaveInv, ReleaserInv
<1>1. CASE ReleaseStep(t)
  <2>1. phase' = "live" /\ refs' = refs
    BY <1>1, LiveCases DEF ReleaseStep, ReleaseOnDaemon, UnlinkEntries, RemoveDirectory, ReleaseDone,
       Settled
  <2>2. \A u \in Threads : held'[u] \subseteq held[u]
    BY <1>0, <1>1, LiveCases DEF ReleaseStep, ReleaseOnDaemon, UnlinkEntries,
       RemoveDirectory, ReleaseDone, Drop, TypeOK
  <2> QED BY <2>1, <2>2 DEF LiveWhole
<1>2. CASE \/ Destroy(t)
           \/ /\ StartRelease(t, "exec_stream", refs, "backstop")
              /\ UNCHANGED <<ReleaseFrame, world, unnamed>>
  <2>1. /\ pc[t] \in {"idle", "exec_stream"} /\ pc' = [pc EXCEPT ![t] = "release"]
        /\ refs' = {} /\ held' = [held EXCEPT ![t] = refs] /\ phase' = phase
        /\ UNCHANGED <<world, refused, entries>>
    BY <1>2 DEF Destroy, StartRelease, ReleaseFrame, Goto
  <2>2. held[t] = {}
    BY <1>0, <2>1 DEF Shape, Holding
  <2> QED BY <2>1, <2>2 DEF LiveWhole
<1>3. CASE UNCHANGED <<refs, held, phase>>
  BY <1>3 DEF LiveWhole
<1>4. \/ ReleaseStep(t)
      \/ Destroy(t)
      \/ /\ StartRelease(t, "exec_stream", refs, "backstop")
         /\ UNCHANGED <<ReleaseFrame, world, unnamed>>
      \/ UNCHANGED <<refs, held, phase>>
  BY LiveCases DEF CallStep, ExecCreate, ExecStream, ExecInspect, WriteTemp, WriteReplace, Exec,
     Write, Return, Advance, Fail, CallFrame
<1> QED BY <1>1, <1>2, <1>3, <1>4

LEMMA WholeStep ==
    ASSUME BackendInv, LiveWhole, NEW t \in Threads, Steps(t)
    PROVE  LiveWhole'
<1>1. CASE phase = "live"
  BY <1>1, LiveStep
<1>2. CASE phase # "live" /\ phase' = "live"
  \* The thread that boots is alone and has put the directory in its field.
  <2>1. pc[t] = "boot_start" /\ UNCHANGED <<refs, held>>
    BY <1>2, BecomesLive DEF Finish, Goto
  <2>2. phase = "booting"
    BY <2>1 DEF BackendInv, LeaveInv, ReleaserInv, Shape, BootPoints
  <2>3. "workspace" \in refs
    BY <2>1 DEF BackendInv, MountInv, MountSafe, Assembled, BootPoints
  <2>4. \A u \in Threads : held[u] = {}
    BY <2>1, <2>2 DEF BackendInv, LeaveInv, ReleaserInv, Shape, Holding
  <2> QED BY <2>1, <2>3, <2>4 DEF LiveWhole
<1> QED BY <1>1, <1>2 DEF LiveWhole

-----------------------------------------------------------------------------
(* The facade over the backend.  The timer is set when the constructor has   *)
(* a live backend; before that nobody else is inside the sandbox.            *)

InFacade ==
    /\ timer = "unset" => /\ ~created /\ ~destroyed /\ announced = 0
                          /\ \A t \in Threads : frame[t] \in {"none", "ctor"}
    /\ timer # "unset" => phase = "live"
    /\ \A t, u \in Threads : frame[t] = "ctor" /\ frame[u] = "ctor" => t = u
    /\ \A t \in Threads :
        /\ frame[t] \notin {"ctor", "backend", "destroying"} => pc[t] = "idle"
        /\ frame[t] = "ctor" =>
               /\ timer = "unset"
               /\ pc[t] \in BootPoints \cup {"release", "rmdir", "done"}
               /\ pc[t] \in {"release", "rmdir"} => after[t] # "ok"
               /\ pc[t] = "done" /\ outcome[t] = "ok" => phase = "live" /\ refs # {}

\* One thread sets the flag, and its call of destroy is the only one that gets to
\* the backend and to the event.
Destroyers == {"flagged", "destroying"}

OneDestroyer ==
    /\ \A t, u \in Threads : frame[t] \in Destroyers /\ frame[u] \in Destroyers => t = u
    /\ \A t \in Threads :
        /\ frame[t] \in Destroyers => destroyed /\ announced = 0
        /\ frame[t] = "destroying" => refs = {}
    /\ announced > 0 => announced = 1 /\ destroyed /\ refs = {}

\* Only the timer can destroy a sandbox whose constructor has not returned.
OnTime ==
    /\ timer = "fired" => expired
    /\ ~created => /\ destroyed => expired
                   /\ \A t \in Threads : frame[t] = "destroy_call" => expired

FacadeInv ==
    /\ BackendInv /\ LiveWhole /\ SandboxTypeOK
    /\ InFacade /\ OneDestroyer /\ OnTime /\ DestroyedMeansDetached

\* The actions in which the backend does nothing.
Bookkeeping(t) ==
    \/ EmitCreated(t) \/ CallExec(t) \/ CallWrite(t) \/ Deny(t) \/ CallDestroy(t)
    \/ SetDestroyed(t) \/ AlreadyDestroyed(t)
    \/ StartExec(t) /\ UNCHANGED runtimeVars

LEMMA FacadeCases ==
    ASSUME Next
    PROVE  \/ Expire \/ FireTimer
           \/ \E t \in Threads :
                 \/ BackendStep(t) \/ Construct(t) \/ Publish(t) \/ Bookkeeping(t)
                 \/ StartExec(t) /\ Exec(t)
                 \/ StartWrite(t) \/ CallReturns(t) \/ DestroyBackend(t) \/ Announce(t)
  BY DEF Next, Progress, Bookkeeping, StartExec

LEMMA FacadeTypeStep ==
    ASSUME SandboxTypeOK, TypeOK', Next
    PROVE  SandboxTypeOK'
<1>1. CASE Expire \/ FireTimer
  BY <1>1 DEF SandboxTypeOK, Expire, FireTimer, Enter, Frames
<1>2. ASSUME NEW t \in Threads, BackendStep(t) PROVE SandboxTypeOK'
  BY <1>2 DEF SandboxTypeOK, BackendStep, facadeVars
<1>3. ASSUME NEW t \in Threads, Bookkeeping(t) PROVE SandboxTypeOK'
  BY <1>3 DEF SandboxTypeOK, Bookkeeping, EmitCreated, CallExec, CallWrite, Deny, CallDestroy,
     SetDestroyed, AlreadyDestroyed, StartExec, Enter, Frames
<1>4. ASSUME NEW t \in Threads,
             \/ Construct(t) \/ Publish(t) \/ StartExec(t) \/ StartWrite(t)
             \/ CallReturns(t) \/ DestroyBackend(t) \/ Announce(t)
      PROVE  SandboxTypeOK'
  BY <1>4 DEF SandboxTypeOK, Construct, Publish, StartExec, StartWrite, CallReturns,
     DestroyBackend, Announce, Enter, Frames
<1> QED BY <1>1, <1>2, <1>3, <1>4, FacadeCases

\* The booting thread is in the constructor until the boot has failed or is over.
LEMMA CtorStep ==
    ASSUME BackendInv, NEW t \in Threads, Internal(t),
           pc[t] \in BootPoints \cup {"release", "rmdir", "done"},
           pc[t] \in {"release", "rmdir"} => after[t] # "ok"
    PROVE  /\ pc'[t] \in BootPoints \cup {"release", "rmdir", "done"}
           /\ pc'[t] \in {"release", "rmdir"} => after'[t] # "ok"
           /\ pc'[t] = "done" /\ outcome'[t] = "ok" => phase' = "live" /\ refs' # {}
<1>0. TypeOK /\ Assembled
  BY DEF BackendInv, LeaveInv, ReleaserInv, MountInv, MountSafe
<1>1. CASE ForkCopy(t) \/ Assign(t) \/ ConnectClient(t) \/ StartNetwork(t)
           \/ StartProxy(t) \/ ConnectProxy(t) \/ CreateContainer(t)
  BY <1>0, <1>1 DEF ForkCopy, Assign, ConnectClient, StartNetwork, StartProxy, ConnectProxy,
     CreateContainer, CleanUp, EgressAbort, Provision, StartRelease, Finish, Goto, BootPoints,
     TypeOK
<1>2. CASE StartContainer(t)
  <2>1. pc[t] = "boot_start" /\ "workspace" \in refs
    BY <1>0, <1>2 DEF StartContainer, CleanUp, StartRelease, Finish, Goto, Assembled, BootPoints
  <2> QED BY <1>0, <1>2, <2>1 DEF StartContainer, CleanUp, StartRelease, Finish, Goto, TypeOK
<1>3. CASE ReleaseOnDaemon(t)
  <2>1. pc[t] = "release" /\ after' = after
        /\ (pc' = pc \/ (pc'[t] = "done" /\ outcome'[t] = "transport"))
    BY <1>0, <1>3 DEF ReleaseOnDaemon, Finish, Goto, TypeOK
  <2> QED BY <2>1
<1>4. CASE UnlinkEntries(t) \/ RemoveDirectory(t) \/ AbortEscapes(t)
  BY <1>0, <1>4 DEF UnlinkEntries, RemoveDirectory, AbortEscapes, StartRelease, Goto, TypeOK
<1>5. CASE ReleaseDone(t)
  BY <1>0, <1>5 DEF ReleaseDone, Finish, Goto, TypeOK
<1>6. CASE CallStep(t)
  BY <1>6 DEF CallStep, ExecCreate, ExecStream, ExecInspect, WriteTemp, WriteReplace, Advance,
     Fail, Finish, StartRelease, Goto, BootPoints
<1> QED BY <1>1, <1>2, <1>3, <1>4, <1>5, <1>6 DEF Internal, BootStep, ReleaseStep

\* A step of the backend moves one thread, which is not at rest.
LEMMA InternalMoves ==
    ASSUME TypeOK, NEW t \in Threads, Internal(t)
    PROVE  /\ pc[t] \notin {"idle", "done"}
           /\ \A u \in Threads : u # t => /\ pc'[u] = pc[u]
                                          /\ after'[u] = after[u] /\ outcome'[u] = outcome[u]
<1>1. CASE BootStep(t)
  BY <1>1 DEF TypeOK, BootStep, ForkCopy, Assign, ConnectClient, StartNetwork, StartProxy,
     ConnectProxy, CreateContainer, StartContainer, CleanUp, EgressAbort, Provision,
     StartRelease, ReleaseFrame, Finish, Goto
<1>2. CASE ReleaseStep(t)
  BY <1>2 DEF TypeOK, ReleaseStep, ReleaseOnDaemon, AbortEscapes, UnlinkEntries,
     RemoveDirectory, ReleaseDone, StartRelease, ReleaseFrame, Finish, Goto
<1>3. CASE CallStep(t)
  BY <1>3 DEF TypeOK, CallStep, ExecCreate, ExecStream, ExecInspect, WriteTemp, WriteReplace,
     Advance, Fail, CallFrame, StartRelease, ReleaseFrame, Finish, Goto
<1> QED BY <1>1, <1>2, <1>3 DEF Internal

-----------------------------------------------------------------------------
(* One lemma per kind of step.                                             *)

FacadeSafe == InFacade /\ OneDestroyer /\ OnTime /\ DestroyedMeansDetached

LEMMA BackendKeepsFacade ==
    ASSUME FacadeInv, NEW t \in Threads, BackendStep(t)
    PROVE  FacadeSafe'
<1>1. /\ Internal(t) /\ Steps(t) /\ TypeOK
      /\ UNCHANGED <<destroyed, timer, expired, frame, created, announced>>
  BY DEF BackendStep, Steps, FacadeInv, SandboxTypeOK, facadeVars
<1>2. /\ pc[t] \notin {"idle", "done"} /\ frame[t] \in {"ctor", "backend", "destroying"}
      /\ \A u \in Threads : u # t => /\ pc'[u] = pc[u]
                                     /\ after'[u] = after[u] /\ outcome'[u] = outcome[u]
  BY <1>1, InternalMoves DEF FacadeInv, InFacade
<1>3. phase = "live" => phase' = "live" /\ (refs = {} => refs' = {})
  BY <1>1, LiveStep DEF FacadeInv
<1>4. CASE frame[t] = "ctor"
  <2>1. timer = "unset" /\ \A u \in Threads : u # t => frame[u] = "none" /\ pc[u] = "idle"
    BY <1>4 DEF FacadeInv, InFacade
  <2>2. /\ pc'[t] \in BootPoints \cup {"release", "rmdir", "done"}
        /\ pc'[t] \in {"release", "rmdir"} => after'[t] # "ok"
        /\ pc'[t] = "done" /\ outcome'[t] = "ok" => phase' = "live" /\ refs' # {}
    BY <1>1, <1>4, CtorStep DEF FacadeInv, InFacade
  <2>3. InFacade'
    BY <1>1, <1>2, <1>4, <2>1, <2>2 DEF FacadeInv, InFacade
  <2> QED BY <1>1, <1>4, <2>1, <2>3 DEF FacadeInv, FacadeSafe, InFacade, OneDestroyer, OnTime,
                                       DestroyedMeansDetached
<1>5. CASE frame[t] # "ctor"
  <2>1. timer # "unset" /\ phase = "live"
    BY <1>2, <1>5 DEF FacadeInv, InFacade
  <2>2. InFacade'
    BY <1>1, <1>2, <1>3, <1>5, <2>1 DEF FacadeInv, InFacade
  <2>3. OneDestroyer' /\ OnTime' /\ DestroyedMeansDetached'
    BY <1>1, <1>3, <2>1 DEF FacadeInv, OneDestroyer, OnTime, DestroyedMeansDetached
  <2> QED BY <2>2, <2>3 DEF FacadeSafe
<1> QED BY <1>4, <1>5

LEMMA TimeKeepsFacade ==
    ASSUME FacadeInv, Expire \/ FireTimer
    PROVE  FacadeSafe'
<1>0. /\ \A t \in Threads : frame[t] \in Frames
      /\ UNCHANGED <<phase, pc, refs, after, outcome, destroyed, created, announced>>
  BY DEF FacadeInv, SandboxTypeOK, Expire, FireTimer, runtimeVars
<1>1. CASE Expire
  BY <1>0, <1>1 DEF FacadeInv, FacadeSafe, Expire, InFacade, OneDestroyer, OnTime,
                    DestroyedMeansDetached, Destroyers
<1>2. CASE FireTimer
  <2>1. /\ timer = "armed" /\ timer' = "fired" /\ expired /\ expired'
        /\ frame[Timer] = "none" /\ frame'[Timer] = "destroy_call"
        /\ \A t \in Threads : t # Timer => frame'[t] = frame[t]
    BY <1>2, SandboxAssumption DEF FacadeInv, SandboxTypeOK, FireTimer, Enter
  <2>2. InFacade' /\ OnTime'
    BY <1>0, <2>1, SandboxAssumption DEF FacadeInv, InFacade, OnTime
  <2>3. OneDestroyer' /\ DestroyedMeansDetached'
    BY <1>0, <2>1, SandboxAssumption DEF FacadeInv, OneDestroyer, Destroyers,
                                         DestroyedMeansDetached
  <2> QED BY <2>2, <2>3 DEF FacadeSafe
<1> QED BY <1>1, <1>2

\* Moving between the frames in which a thread is not in the backend.
LEMMA BookkeepingKeepsFacade ==
    ASSUME FacadeInv, NEW t \in Threads, Bookkeeping(t)
    PROVE  FacadeSafe'
<1>0. /\ \A u \in Threads : u # t => frame'[u] = frame[u]
      /\ UNCHANGED <<phase, pc, refs, after, outcome, expired, announced>>
  BY DEF FacadeInv, SandboxTypeOK, Bookkeeping, EmitCreated, CallExec, CallWrite, Deny,
     CallDestroy, SetDestroyed, AlreadyDestroyed, StartExec, Enter, runtimeVars
<1>1. CASE EmitCreated(t)
  <2>1. /\ frame[t] = "constructed" /\ frame'[t] = "none" /\ created'
        /\ UNCHANGED <<destroyed, timer>>
    BY <1>1 DEF EmitCreated, Enter, FacadeInv, SandboxTypeOK
  <2> QED BY <1>0, <2>1 DEF FacadeInv, FacadeSafe, InFacade, OneDestroyer, Destroyers, OnTime,
                            DestroyedMeansDetached
<1>2. CASE CallExec(t) \/ CallWrite(t) \/ CallDestroy(t)
  <2>1. /\ frame[t] = "none" /\ frame'[t] \in {"checked_exec", "checked_write", "destroy_call"}
        /\ created /\ UNCHANGED <<destroyed, timer, created>>
    BY <1>2 DEF CallExec, CallWrite, CallDestroy, Active, Enter, FacadeInv, SandboxTypeOK
  <2> QED BY <1>0, <2>1 DEF FacadeInv, FacadeSafe, InFacade, OneDestroyer, Destroyers, OnTime,
                            DestroyedMeansDetached
<1>3. CASE Deny(t) \/ AlreadyDestroyed(t)
  <2>1. /\ frame[t] \in {"checked_exec", "checked_write", "destroy_call"}
        /\ frame'[t] = "none" /\ UNCHANGED <<destroyed, timer, created>>
    BY <1>3 DEF Deny, AlreadyDestroyed, Enter, FacadeInv, SandboxTypeOK
  <2> QED BY <1>0, <2>1 DEF FacadeInv, FacadeSafe, InFacade, OneDestroyer, Destroyers, OnTime,
                            DestroyedMeansDetached
<1>4. CASE SetDestroyed(t)
  <2>1. /\ frame[t] = "destroy_call" /\ frame'[t] = "flagged" /\ ~destroyed /\ destroyed'
        /\ timer' = (IF timer = "armed" THEN "cancelled" ELSE timer) /\ created' = created
    BY <1>4 DEF SetDestroyed, Enter, FacadeInv, SandboxTypeOK
  <2>2. timer # "unset" /\ announced = 0 /\ \A u \in Threads : frame[u] \notin Destroyers
    BY <2>1 DEF FacadeInv, SandboxTypeOK, InFacade, OneDestroyer
  <2>3. InFacade' /\ OnTime'
    BY <1>0, <2>1, <2>2 DEF FacadeInv, InFacade, OnTime
  <2>4. OneDestroyer' /\ DestroyedMeansDetached'
    BY <1>0, <2>1, <2>2 DEF FacadeInv, OneDestroyer, Destroyers, DestroyedMeansDetached
  <2> QED BY <2>3, <2>4 DEF FacadeSafe
<1>5. CASE StartExec(t) /\ UNCHANGED runtimeVars
  \* A call past the deadline destroys.
  <2>1. /\ frame[t] = "checked_exec" /\ frame'[t] = "destroy_call" /\ expired
        /\ UNCHANGED <<destroyed, timer, created>>
    BY <1>5 DEF StartExec, Exec, Advance, Fail, Finish, Goto, Enter, runtimeVars, FacadeInv,
                SandboxTypeOK, TypeOK
  <2> QED BY <1>0, <2>1 DEF FacadeInv, FacadeSafe, InFacade, OneDestroyer, Destroyers, OnTime,
                            DestroyedMeansDetached
<1> QED BY <1>1, <1>2, <1>3, <1>4, <1>5 DEF Bookkeeping

LEMMA ConstructKeepsFacade ==
    ASSUME FacadeInv, NEW t \in Threads, Construct(t)
    PROVE  FacadeSafe'
<1>1. /\ frame[t] = "none" /\ frame'[t] = "ctor" /\ phase = "new"
      /\ pc'[t] \in BootPoints \/ (pc'[t] = "done" /\ outcome'[t] = "os_error")
      /\ \A u \in Threads : u # t => /\ frame'[u] = frame[u] /\ pc'[u] = pc[u]
                                     /\ outcome'[u] = outcome[u]
      /\ UNCHANGED <<refs, after, destroyed, timer, expired, created, announced>>
  BY DEF Construct, Enter, Prepare, Finish, Goto, FacadeInv, SandboxTypeOK, TypeOK, BootPoints
<1>2. timer = "unset" /\ \A u \in Threads : pc[u] = "idle" /\ frame[u] # "ctor"
  BY <1>1 DEF FacadeInv, InFacade, BackendInv, LeaveInv, ReleaserInv, Shape, BootPoints
<1>3. InFacade'
  BY <1>1, <1>2 DEF FacadeInv, InFacade, BootPoints
<1>4. OneDestroyer' /\ OnTime' /\ DestroyedMeansDetached'
  BY <1>1, <1>2 DEF FacadeInv, InFacade, OneDestroyer, Destroyers, OnTime,
                        DestroyedMeansDetached
<1> QED BY <1>3, <1>4 DEF FacadeSafe

\* The constructor goes on, or raises, when the backend's create has returned.
LEMMA PublishKeepsFacade ==
    ASSUME FacadeInv, NEW t \in Threads, Publish(t)
    PROVE  FacadeSafe'
<1>1. /\ frame[t] = "ctor" /\ frame'[t] = (IF outcome[t] = "ok" THEN "constructed" ELSE "none")
      /\ pc[t] = "done" /\ pc'[t] = "idle"
      /\ timer' = (IF outcome[t] = "ok" THEN "armed" ELSE timer)
      /\ \A u \in Threads : u # t => frame'[u] = frame[u] /\ pc'[u] = pc[u]
      /\ UNCHANGED <<phase, refs, destroyed, expired, created, announced>>
  BY DEF Publish, Resume, Return, Enter, Goto, CallFrame, FacadeInv, SandboxTypeOK, TypeOK
<1>2. /\ timer = "unset" /\ outcome[t] = "ok" => phase = "live"
      /\ \A u \in Threads : u # t => frame[u] = "none" /\ pc[u] = "idle"
  BY <1>1 DEF FacadeInv, InFacade
<1>3. InFacade'
  BY <1>1, <1>2 DEF FacadeInv, InFacade
<1>4. OneDestroyer' /\ OnTime' /\ DestroyedMeansDetached'
  BY <1>1, <1>2 DEF FacadeInv, InFacade, OneDestroyer, Destroyers, OnTime,
                        DestroyedMeansDetached
<1> QED BY <1>3, <1>4 DEF FacadeSafe

\* Into the backend, and out of it, for an execution or a write.
LEMMA CallKeepsFacade ==
    ASSUME FacadeInv, NEW t \in Threads,
           (StartExec(t) /\ Exec(t)) \/ StartWrite(t) \/ CallReturns(t)
    PROVE  FacadeSafe'
<1>1. /\ frame[t] \in {"checked_exec", "checked_write", "backend"}
      /\ frame'[t] \in {"backend", "none"}
      /\ frame'[t] = "none" => pc'[t] = "idle"
      /\ \A u \in Threads : u # t => frame'[u] = frame[u] /\ pc'[u] = pc[u]
                                     /\ outcome'[u] = outcome[u]
      /\ UNCHANGED <<phase, refs, after, destroyed, timer, expired, created, announced>>
  <2>1. CASE StartExec(t) /\ Exec(t)
    <3>1. frame[t] = "checked_exec" /\ frame' = [frame EXCEPT ![t] = "backend"]
      BY <2>1 DEF StartExec, Enter, Exec, Advance, Fail, Finish, Goto, runtimeVars, FacadeInv,
                  SandboxTypeOK, TypeOK
    <3> QED BY <2>1, <3>1 DEF StartExec, Exec, Advance, Fail, Finish, Goto, CallFrame,
                              FacadeInv, SandboxTypeOK, TypeOK
  <2>2. CASE StartWrite(t)
    BY <2>2 DEF StartWrite, Write, Enter, Advance, Fail, Finish, Goto, CallFrame, FacadeInv,
                SandboxTypeOK, TypeOK
  <2>3. CASE CallReturns(t)
    BY <2>3 DEF CallReturns, Resume, Return, Enter, Goto, CallFrame, FacadeInv, SandboxTypeOK,
                TypeOK
  <2> QED BY <2>1, <2>2, <2>3
<1>2. InFacade'
  BY <1>1 DEF FacadeInv, InFacade
<1>3. OneDestroyer' /\ OnTime' /\ DestroyedMeansDetached'
  BY <1>1 DEF FacadeInv, OneDestroyer, Destroyers, OnTime, DestroyedMeansDetached
<1> QED BY <1>2, <1>3 DEF FacadeSafe

LEMMA DestroyKeepsFacade ==
    ASSUME FacadeInv, NEW t \in Threads, DestroyBackend(t) \/ Announce(t)
    PROVE  FacadeSafe'
<1>1. /\ frame[t] \in Destroyers
      /\ \A u \in Threads : u # t => frame'[u] = frame[u] /\ pc'[u] = pc[u]
                                     /\ outcome'[u] = outcome[u] /\ after'[u] = after[u]
      /\ UNCHANGED <<phase, destroyed, timer, expired, created>>
  BY DEF DestroyBackend, Destroy, StartRelease, ReleaseFrame, Announce, Resume, Return, Enter,
         Goto, CallFrame, Destroyers, FacadeInv, SandboxTypeOK, TypeOK
<1>2. destroyed /\ announced = 0 /\ timer # "unset" /\ phase = "live"
      /\ \A u \in Threads : frame[u] # "ctor" /\ (u # t => frame[u] \notin Destroyers)
  BY <1>1 DEF FacadeInv, InFacade, OneDestroyer
<1>3. CASE DestroyBackend(t)
  <2>1. frame'[t] = "destroying" /\ refs' = {} /\ announced' = announced
    BY <1>3 DEF DestroyBackend, Destroy, StartRelease, Enter, FacadeInv, SandboxTypeOK
  <2> QED BY <1>1, <1>2, <2>1 DEF FacadeInv, FacadeSafe, InFacade, OneDestroyer, Destroyers,
                                  OnTime, DestroyedMeansDetached
<1>4. CASE Announce(t)
  <2>1. /\ frame[t] = "destroying" /\ frame'[t] = "none" /\ refs' = refs /\ pc'[t] = "idle"
        /\ announced' \in {announced, announced + 1} /\ refs = {}
    BY <1>4 DEF Announce, Resume, Return, Goto, CallFrame, Enter, FacadeInv, SandboxTypeOK,
                TypeOK, OneDestroyer
  <2>2. announced' \in {0, 1}
    BY <1>2, <2>1
  <2> QED BY <1>1, <1>2, <2>1, <2>2 DEF FacadeInv, FacadeSafe, InFacade, OneDestroyer,
                                        Destroyers, OnTime, DestroyedMeansDetached
<1> QED BY <1>3, <1>4

LEMMA FacadeInvHolds == Spec => []FacadeInv
<1>1. Init => /\ SandboxTypeOK /\ LiveWhole /\ InFacade /\ OneDestroyer /\ OnTime
              /\ DestroyedMeansDetached
  <2>1. ASSUME Init PROVE SandboxTypeOK
    BY <2>1 DEF Init, RuntimeInit, SandboxTypeOK, TypeOK, Points, BootPoints, Outcomes, Kinds,
                Frames
  <2>2. ASSUME Init
        PROVE  LiveWhole /\ InFacade /\ OneDestroyer /\ OnTime /\ DestroyedMeansDetached
    BY <2>2 DEF Init, RuntimeInit, LiveWhole, InFacade, OneDestroyer, Destroyers, OnTime,
                DestroyedMeansDetached
  <2> QED BY <2>1, <2>2
<1>2. FacadeInv /\ BackendInv' /\ [Next]_vars => FacadeInv'
  <2>1. CASE FacadeInv /\ BackendInv' /\ Next
    <3>1. FacadeSafe'
      BY <2>1, FacadeCases, BackendKeepsFacade, TimeKeepsFacade, BookkeepingKeepsFacade,
         ConstructKeepsFacade, PublishKeepsFacade, CallKeepsFacade, DestroyKeepsFacade
    <3>2. SandboxTypeOK'
      BY <2>1, FacadeTypeStep DEF FacadeInv, BackendInv, LeaveInv, ReleaserInv
    <3>3. LiveWhole'
      <4>1. CASE UNCHANGED runtimeVars
        BY <2>1, <4>1 DEF FacadeInv, LiveWhole, runtimeVars
      <4> QED BY <2>1, <4>1, BackendSteps, WholeStep DEF FacadeInv
    <3> QED BY <2>1, <3>1, <3>2, <3>3 DEF FacadeInv, FacadeSafe
  <2>2. CASE FacadeInv /\ BackendInv' /\ UNCHANGED vars
    BY <2>2 DEF vars, runtimeVars, facadeVars, FacadeInv, LiveWhole, SandboxTypeOK, TypeOK,
                InFacade, OneDestroyer, OnTime, DestroyedMeansDetached
  <2> QED BY <2>1, <2>2
<1>3. Init /\ BackendInv => FacadeInv
  BY <1>1 DEF FacadeInv
<1> QED BY <1>2, <1>3, BackendInvHolds, PTL DEF Spec

-----------------------------------------------------------------------------
(* What a live object was given and what has become of it.  An API error is *)
(* remembered in `refused`; a transport error in the middle of a release is  *)
(* remembered by nobody, so the daemon must answer for this part.            *)

Answering == "transport" \notin DaemonErrors

LiveCovered ==
    phase = "live" => \A r \in world :
        r \in refs \/ r \in refused \/ r \in Spoiled \/ \E t \in Threads : r \in held[t]

LEMMA CoveredStep ==
    ASSUME Answering, BackendInv, LiveWhole, LiveCovered, NEW t \in Threads, Steps(t)
    PROVE  LiveCovered'
<1>0. TypeOK /\ Shape /\ BootLeaves
  BY DEF BackendInv, LeaveInv, ReleaserInv
<1>1. CASE phase # "live" /\ phase' = "live"
  <2>1. pc[t] = "boot_start" /\ UNCHANGED <<refs, held, world, refused, entries>>
    BY <1>1, BecomesLive DEF Finish, Goto
  <2>2. world \subseteq refs
    BY <1>0, <2>1 DEF Shape, BootLeaves, BootPoints
  <2> QED BY <2>1, <2>2 DEF LiveCovered
<1>2. CASE /\ phase = "live" /\ UNCHANGED <<refs, held, world, refused>>
           /\ entries \subseteq entries'
  BY <1>2 DEF LiveCovered, Spoiled
<1>3. CASE phase = "live" /\ refs' = {} /\ held' = [held EXCEPT ![t] = refs] /\ held[t] = {}
           /\ UNCHANGED <<world, refused, entries>>
  <2>1. held'[t] = refs /\ \A u \in Threads : u # t => held'[u] = held[u]
    BY <1>0, <1>3 DEF TypeOK
  <2> QED BY <1>3, <2>1 DEF LiveCovered, Spoiled
<1>4. CASE phase = "live" /\ ReleaseOnDaemon(t)
  <2>1. PICK r \in held[t] : /\ Drop(t, r) /\ UNCHANGED <<refs, entries>>
                             /\ \/ world' = world \ {r} /\ refused' = refused
                                \/ world' = world /\ refused' = refused \cup {r}
    BY <1>4 DEF ReleaseOnDaemon, Answering
  <2>2. /\ held'[t] = held[t] \ {r}
        /\ \A u \in Threads : u # t => held'[u] = held[u]
    BY <1>0, <2>1 DEF Drop, TypeOK
  <2> QED BY <1>4, <2>1, <2>2 DEF LiveCovered, Spoiled
<1>5. CASE phase = "live" /\ UnlinkEntries(t)
  <2>1. "workspace" \in held[t] /\ UNCHANGED <<refs, held, world, refused>>
    BY <1>5 DEF UnlinkEntries, IsNext
  <2> QED BY <1>5, <2>1 DEF LiveCovered, Spoiled
<1>6. CASE phase = "live" /\ RemoveDirectory(t)
  <2>1. /\ held'[t] = held[t] \ {"workspace"}
        /\ \A u \in Threads : u # t => held'[u] = held[u]
        /\ \/ /\ world' = IF entries = {} THEN world \ {"workspace"} ELSE world
              /\ refused' = refused
           \/ world' = world /\ refused' = refused \cup {"workspace"}
        /\ UNCHANGED <<refs, entries>>
    BY <1>0, <1>6 DEF RemoveDirectory, Drop, TypeOK
  <2> QED BY <1>6, <2>1 DEF LiveCovered, Spoiled
<1>7. CASE phase = "live" /\ (CallStep(t) \/ Exec(t) \/ Write(t) \/ Return(t) \/ ReleaseDone(t))
  <2>1. CASE UNCHANGED refs
    <3>1. UNCHANGED <<held, world, refused>> /\ entries \subseteq entries'
      \* The backstop of an execution finds nothing to take.
      <4>1. CASE /\ StartRelease(t, "exec_stream", refs, "backstop")
                 /\ UNCHANGED <<ReleaseFrame, world, unnamed>>
        <5>1. refs = {} /\ held[t] = {}
          BY <1>0, <2>1, <4>1 DEF StartRelease, Goto, Shape, Holding
        <5> QED BY <1>0, <4>1, <5>1 DEF StartRelease, ReleaseFrame, TypeOK
      <4>2. CASE ~(/\ StartRelease(t, "exec_stream", refs, "backstop")
                   /\ UNCHANGED <<ReleaseFrame, world, unnamed>>)
        BY <1>7, <4>2 DEF CallStep, ExecCreate, ExecStream, ExecInspect, WriteTemp,
           WriteReplace, Exec, Write, Return, ReleaseDone, Advance, Fail, CallFrame
      <4> QED BY <4>1, <4>2
    <3> QED BY <1>2, <1>7, <2>1, <3>1
  <2> QED BY <1>3, <1>7, <2>1, LiveStep
<1>8. CASE phase = "live" /\ Destroy(t)
  <2>1. /\ refs' = {} /\ held' = [held EXCEPT ![t] = refs] /\ held[t] = {}
        /\ UNCHANGED <<world, refused, entries>>
    BY <1>0, <1>8 DEF Destroy, StartRelease, ReleaseFrame, Goto, Shape, Holding
  <2> QED BY <1>3, <1>8, <2>1
<1>9. CASE phase = "live"
  BY <1>9, <1>4, <1>5, <1>6, <1>7, <1>8, LiveCases DEF ReleaseStep
<1> QED BY <1>1, <1>9 DEF LiveCovered

LEMMA CoveredHolds == ASSUME Answering PROVE Spec => []LiveCovered
<1>1. Init => LiveCovered
  BY DEF Init, RuntimeInit, LiveCovered
<1>2. FacadeInv /\ LiveCovered /\ [Next]_vars => LiveCovered'
  <2>1. CASE FacadeInv /\ LiveCovered /\ UNCHANGED runtimeVars
    BY <2>1 DEF LiveCovered, Spoiled, runtimeVars
  <2> QED BY <2>1, BackendSteps, CoveredStep DEF FacadeInv, vars
<1> QED BY <1>1, <1>2, FacadeInvHolds, PTL DEF Spec

-----------------------------------------------------------------------------
\* However the timer, the deadline check, the backstop and the callers race, and
\* whatever the daemon answers: one DESTROYED event at most, a flag that is not set
\* without the deed, and no DESTROYED before CREATED within the lifetime.
THEOREM DestroyedByOne == Spec => [](DestroyedOnce /\ DestroyedMeansDetached /\ CreatedFirst)
<1>1. FacadeInv => DestroyedOnce /\ DestroyedMeansDetached /\ CreatedFirst
  BY DEF FacadeInv, SandboxTypeOK, OneDestroyer, OnTime, DestroyedOnce, CreatedFirst
<1> QED BY <1>1, FacadeInvHolds, PTL

\* On a daemon that answers, with API errors or without, what a sandbox says of itself
\* is true: when DESTROYED is out, every resource it had is gone, could not be removed,
\* is being released or is a directory that a write slipped into.
THEOREM SaysTheTruth == ASSUME Answering PROVE Spec => []Truthful
<1>1. FacadeInv /\ LiveCovered => AnnouncedMeansDetached
  <2> SUFFICES ASSUME FacadeInv, LiveCovered, announced > 0 PROVE
        refs = {} /\ world \subseteq refused \cup Spoiled \cup UNION {held[t] : t \in Threads}
    BY DEF AnnouncedMeansDetached
  <2>1. refs = {} /\ phase = "live"
    BY DEF FacadeInv, OneDestroyer, InFacade
  <2> QED BY <2>1 DEF LiveCovered
<1>2. FacadeInv /\ AnnouncedMeansDetached /\ DestroyedOnce /\ DestroyedMeansDetached
        /\ CreatedFirst => Truthful
  BY DEF FacadeInv, Truthful
<1> QED BY <1>1, <1>2, FacadeInvHolds, CoveredHolds, DestroyedByOne, PTL

\* NothingOrphaned for the calls in the order the facade makes them, with its timer and
\* its deadline check: whatever exists is accounted for.
THEOREM FacadeOrphansNothing == ASSUME Healthy PROVE Spec => []NoOrphan
<1>1. Init => OrphanInv
  BY DEF Init, RuntimeInit, OrphanInv, ReleaserInv, TypeOK, Shape, SingleReleaser, Quiet,
         Points, BootPoints, Outcomes, Kinds, Holding
<1>2. OrphanInv /\ [Next]_vars => OrphanInv'
  <2>1. ASSUME OrphanInv, NEW t \in Threads, Steps(t) PROVE OrphanInv'
    BY <2>1, TypeStep, ReleaserStep, OrphanStep DEF ReleaserInv, OrphanInv
  <2>2. ASSUME OrphanInv, UNCHANGED runtimeVars PROVE OrphanInv'
    BY <2>2 DEF runtimeVars, OrphanInv, ReleaserInv, TypeOK, Shape, SingleReleaser, Quiet,
                Covered, Owned, Spoiled
  <2> QED BY <2>1, <2>2, BackendSteps DEF vars
<1>3. OrphanInv => NoOrphan
  BY CoveredIsNoOrphan DEF OrphanInv
<1> QED BY <1>1, <1>2, <1>3, PTL DEF Spec

\* The fields of a sandbox are emptied only after its flag is set, for any number of
\* threads, except by the backstop of an execution.
THEOREM FlagIsFirst == Spec => FlagGoesFirst
<1>1. FacadeInv /\ [Next]_vars =>
        [refs # {} /\ refs' = {} /\ timer # "unset"
         => destroyed \/ \E t \in Threads : pc[t] = "exec_stream" /\ pc'[t] = "release"]_vars
  <2> SUFFICES ASSUME FacadeInv, Next, refs # {}, refs' = {}, timer # "unset", ~destroyed
               PROVE  \E t \in Threads : pc[t] = "exec_stream" /\ pc'[t] = "release"
    OBVIOUS
  <2>1. phase = "live" /\ \A t \in Threads : frame[t] # "flagged"
    BY DEF FacadeInv, InFacade, OneDestroyer, Destroyers
  <2>2. PICK t \in Threads : Steps(t)
    BY BackendSteps DEF runtimeVars
  <2>3. pc[t] \in {"idle", "exec_stream"} /\ pc' = [pc EXCEPT ![t] = "release"]
    BY <2>1, <2>2, LiveStep DEF FacadeInv
  <2>4. pc'[t] = "release"
    BY <2>3 DEF FacadeInv, SandboxTypeOK, TypeOK
  <2>5. pc[t] # "idle"
    \* A thread at rest empties the fields in destroy only, and that follows the flag.
    <3>1. CASE \E u \in Threads : BackendStep(u)
      <4>1. PICK u \in Threads : Internal(u)
        BY <3>1 DEF BackendStep
      <4>2. pc[u] # "idle" /\ \A v \in Threads : v # u => pc'[v] = pc[v]
        BY <4>1, InternalMoves DEF FacadeInv, SandboxTypeOK
      <4> QED BY <2>4, <4>2
    <3>2. CASE ~\E u \in Threads : BackendStep(u)
      <4>1. UNCHANGED refs
        BY <2>1, <3>2 DEF Next, Progress, Publish, EmitCreated, Deny, StartExec, StartWrite,
           CallReturns, SetDestroyed, AlreadyDestroyed, DestroyBackend, Announce, Construct,
           CallExec, CallWrite, CallDestroy, Expire, FireTimer, Resume, Return, Exec, Write,
           Advance, Fail, CallFrame, Prepare, Enter, runtimeVars
      <4> QED BY <4>1
    <3> QED BY <3>1, <3>2
  <2> QED BY <2>3, <2>4, <2>5
<1> QED BY <1>1, FacadeInvHolds, PTL DEF Spec, FlagGoesFirst

-----------------------------------------------------------------------------
(* The contract: what each step is to SandboxContract.                     *)

ExecPoints == {"exec_create", "exec_stream", "exec_inspect"}

State   == IF timer = "unset" THEN "absent" ELSE IF refs # {} THEN "live" ELSE "gone"
Running == {t \in Threads : pc[t] \in ExecPoints}
Left    == IF timer = "unset" THEN {} ELSE world \ (refused \cup Lost)
Told    == announced > 0

Stutter == UNCHANGED <<State, Running, Left, Told>>

\* The contract's actions over these four, one by one.
Promised ==
    \/ /\ State = "absent" /\ State' = "live" /\ Left' \in SUBSET Kinds
       /\ UNCHANGED <<Running, Told>>
    \/ /\ State = "live" /\ UNCHANGED <<State, Left, Told>>
       /\ \E t \in Threads : Running' = Running \cup {t}
    \/ \E t \in Threads : Running' = Running \ {t} /\ UNCHANGED <<State, Left, Told>>
    \/ /\ State = "live" /\ State' = "gone" /\ UNCHANGED <<Left, Told>>
       /\ Running' \in {Running} \cup {Running \ {t} : t \in Threads}
    \/ State = "gone" /\ Left' \in SUBSET Left /\ UNCHANGED <<State, Running, Told>>
    \/ State = "gone" /\ ~Told /\ Told' /\ UNCHANGED <<State, Running, Left>>

LEMMA PromisedIsContract == Promised \/ Stutter => [Contract!Next]_(Contract!vars)
  BY DEF Promised, Stutter, State, Running, Left, Told, ExecPoints, Contract!Next,
         Contract!vars, Contract!Create, Contract!Begin, Contract!End, Contract!Destroy,
         Contract!GiveBack, Contract!Tell

\* Before the constructor has its backend there is nothing to see.
LEMMA AbsentStep ==
    ASSUME FacadeInv, FacadeInv', timer = "unset", timer' = "unset"
    PROVE  Stutter
<1>1. Running = {} /\ Running' = {}
  BY DEF FacadeInv, InFacade, Running, ExecPoints, BootPoints
<1> QED BY <1>1 DEF FacadeInv, InFacade, Stutter, State, Left, Told

LEMMA CreateStep ==
    ASSUME FacadeInv, FacadeInv', Next, timer = "unset", timer' # "unset"
    PROVE  Promised
<1>1. PICK t \in Threads : Publish(t) /\ outcome[t] = "ok"
  BY DEF FacadeInv, InFacade, Next, Progress, BackendStep, Publish, EmitCreated, Deny, StartExec,
     StartWrite, CallReturns, SetDestroyed, AlreadyDestroyed, DestroyBackend, Announce,
     Construct, CallExec, CallWrite, CallDestroy, Expire, FireTimer, facadeVars
<1>2. /\ frame[t] = "ctor" /\ pc[t] = "done" /\ pc' = [pc EXCEPT ![t] = "idle"]
      /\ UNCHANGED <<refs, world, announced>>
  BY <1>1 DEF Publish, Enter, Resume, Return, Goto, CallFrame
<1>3. refs # {} /\ Running = {}
  BY <1>1, <1>2 DEF FacadeInv, InFacade, Running, ExecPoints, BootPoints
<1>4. Running' = {}
  BY <1>2, <1>3 DEF FacadeInv, SandboxTypeOK, TypeOK, Running, ExecPoints
<1>5. Left' \in SUBSET Kinds
  BY <1>2 DEF FacadeInv, SandboxTypeOK, TypeOK, Left
<1> QED BY <1>2, <1>3, <1>4, <1>5 DEF Promised, State, Told

\* Once there is a sandbox, every backend step keeps the contract, also when a
\* transport error cuts a release short.
LEMMA LiveKeepsContract ==
    ASSUME FacadeInv, NEW t \in Threads, Steps(t), timer # "unset", timer' # "unset",
           announced' = announced
    PROVE  Promised \/ Stutter
<1>0. /\ TypeOK /\ Shape /\ SingleReleaser /\ phase = "live" /\ LiveWhole
      /\ Told' = Told
  BY DEF FacadeInv, InFacade, BackendInv, LeaveInv, ReleaserInv, Told
<1> DEFINE Named == refs \cup UNION {held[u] : u \in Threads}
<1>1. ASSUME NEW from, NEW to, Goto(t, from, to)
      PROVE  /\ to \notin ExecPoints => Running' = Running \ {t}
             /\ from \notin ExecPoints /\ to \notin ExecPoints => Running' = Running
             /\ from \in ExecPoints /\ to \in ExecPoints => Running' = Running
             /\ to \in ExecPoints => Running' = Running \cup {t}
  BY <1>0, <1>1 DEF Goto, TypeOK, Running
<1>2. ASSUME UNCHANGED <<refs, held, world, refused, entries>>
      PROVE  State' = State /\ Left' = Left
  BY <1>2 DEF State, Left, Lost, Spoiled
<1>3. ASSUME NEW from, NEW to, Goto(t, from, to), to \notin ExecPoints \/ from \in ExecPoints,
             UNCHANGED <<refs, held, world, refused, entries>>
      PROVE  Promised \/ Stutter
  BY <1>0, <1>1, <1>2, <1>3 DEF Promised, Stutter
<1>4. CASE ReleaseOnDaemon(t)
  <2>1. PICK r \in held[t] \ {"workspace"} :
          /\ pc[t] = "release" /\ UNCHANGED <<refs, entries>>
          /\ pc' = pc \/ Goto(t, "release", "done")
          /\ held' = [held EXCEPT ![t] = @ \ {r}] \/ held' = [held EXCEPT ![t] = {}]
          /\ world' \subseteq world /\ refused \subseteq refused'
    BY <1>4 DEF ReleaseOnDaemon, Drop, Finish
  <2>2. Running' = Running /\ State = "gone" /\ State' = "gone"
    BY <1>0, <1>1, <2>1 DEF Running, State, LiveWhole, ExecPoints
  <2>3. \A u \in Threads : held'[u] \subseteq held[u]
    BY <1>0, <2>1 DEF TypeOK
  <2>4. Lost \subseteq Lost'
    BY <2>1, <2>3 DEF Lost, Spoiled
  <2>5. Left' \subseteq Left
    BY <2>1, <2>4 DEF Left
  <2> QED BY <1>0, <2>2, <2>5 DEF Promised
<1>5. CASE UnlinkEntries(t)
  <2>1. /\ "workspace" \in held[t] /\ Goto(t, "release", "rmdir")
        /\ UNCHANGED <<refs, held, world, refused>>
    BY <1>5 DEF UnlinkEntries, IsNext
  <2>2. Lost = {} /\ Lost' = {}
    BY <2>1 DEF Lost
  <2>3. State' = State /\ Left' = Left
    BY <2>1, <2>2 DEF State, Left
  <2> QED BY <1>0, <1>1, <2>1, <2>3 DEF Stutter, ExecPoints
<1>6. CASE RemoveDirectory(t)
  <2>1. /\ pc[t] = "rmdir" /\ Goto(t, "rmdir", "release") /\ UNCHANGED <<refs, entries>>
        /\ held' = [held EXCEPT ![t] = @ \ {"workspace"}]
        /\ world' \subseteq world /\ refused \subseteq refused'
    BY <1>6 DEF RemoveDirectory, Goto, Drop
  <2>2. "workspace" \in held[t] /\ refs = {}
    BY <1>0, <2>1 DEF FacadeInv, BackendInv, MountInv, MountSafe, Assembled, LiveWhole
  <2>3. Running' = Running /\ State = "gone" /\ State' = "gone"
    BY <1>1, <2>1, <2>2 DEF State, ExecPoints
  <2>4. \A u \in Threads : held'[u] \subseteq held[u]
    BY <1>0, <2>1 DEF TypeOK
  <2>5. Lost \subseteq Lost'
    BY <2>1, <2>4 DEF Lost, Spoiled
  <2>6. Left' \subseteq Left
    BY <2>1, <2>5 DEF Left
  <2> QED BY <1>0, <2>3, <2>6 DEF Promised
<1>7. CASE ReleaseDone(t)
  BY <1>3, <1>7 DEF ReleaseDone, Finish, ExecPoints
<1>8. CASE WriteTemp(t)
  <2>1. CASE /\ Goto(t, "write_temp", "write_replace") /\ entries' = entries \cup {t}
             /\ UNCHANGED CallFrame
    <3>1. Running' = Running /\ UNCHANGED <<refs, held, world, refused>> /\ Lost \subseteq Lost'
      BY <1>1, <2>1 DEF CallFrame, ExecPoints, Lost, Spoiled
    <3>2. Left' \subseteq Left /\ State' = State
      BY <3>1 DEF Left, State
    <3>3. CASE refs = {}
      BY <1>0, <3>1, <3>2, <3>3 DEF Promised, State
    <3>4. CASE refs # {}
      \* A live object still has the directory, so nothing is lost of it.
      <4>1. Lost = {} /\ Lost' = {}
        BY <1>0, <3>1, <3>4 DEF Lost, LiveWhole
      <4> QED BY <1>0, <3>1, <3>2, <4>1 DEF Stutter, Left
    <3> QED BY <3>3, <3>4
  <2> QED BY <1>3, <1>8, <2>1 DEF WriteTemp, Fail, Finish, CallFrame, ExecPoints
<1>9. CASE Exec(t)
  <2>1. CASE Required("container") /\ Advance(t, "idle", "exec_create")
    <3>1. State = "live" /\ Running' = Running \cup {t}
      BY <1>1, <2>1 DEF Required, State, Advance, ExecPoints
    <3>2. State' = State /\ Left' = Left
      BY <1>2, <2>1 DEF Advance, CallFrame
    <3> QED BY <1>0, <3>1, <3>2 DEF Promised
  <2> QED BY <1>3, <1>9, <2>1 DEF Exec, Fail, Finish, CallFrame, ExecPoints
<1>10. CASE Destroy(t) \/ (StartRelease(t, "exec_stream", refs, "backstop")
                           /\ UNCHANGED <<ReleaseFrame, world, unnamed>>)
  <2>1. /\ \/ Goto(t, "idle", "release") \/ Goto(t, "exec_stream", "release")
        /\ refs' = {} /\ held' = [held EXCEPT ![t] = refs]
        /\ UNCHANGED <<world, refused, entries>>
    BY <1>10 DEF Destroy, StartRelease, ReleaseFrame
  <2>2. held[t] = {} /\ held'[t] = refs /\ \A u \in Threads : u # t => held'[u] = held[u]
    BY <1>0, <2>1 DEF Goto, Shape, Holding, TypeOK
  <2>3. Lost' = Lost
    BY <2>1, <2>2 DEF Lost, Spoiled
  <2>4. Left' = Left /\ State' = "gone" /\ State \in {"live", "gone"}
    BY <2>1, <2>3 DEF Left, State
  <2>5. Running' = Running \/ Running' = Running \ {t}
    BY <1>1, <2>1 DEF ExecPoints
  <2> QED BY <1>0, <2>4, <2>5 DEF Promised, Stutter
<1>11. CASE ExecCreate(t) \/ ExecInspect(t) \/ Write(t) \/ WriteReplace(t) \/ Return(t)
  BY <1>3, <1>11 DEF ExecCreate, ExecInspect, Write, WriteReplace, Return, Advance, Fail, Finish,
                     CallFrame, ExecPoints
<1>12. CASE ExecStream(t)
  BY <1>3, <1>10, <1>12 DEF ExecStream, Advance, Fail, Finish, CallFrame, ExecPoints
<1> QED
  BY <1>0, <1>4, <1>5, <1>6, <1>7, <1>8, <1>9, <1>10, <1>11, <1>12, LiveCases
  DEF FacadeInv, ReleaseStep, CallStep

\* The safety half of KeepsContract, whatever the daemon answers: a sandbox is created
\* once, runs executions only while it is live, is destroyed once, by somebody, its
\* lifetime or an execution that overran, and then only gives back.
THEOREM SandboxKeepsContract == Spec => Contract!Init /\ [][Contract!Next]_(Contract!vars)
<1>1. Init => Contract!Init
  BY DEF Init, RuntimeInit, Contract!Init
<1>2. FacadeInv /\ FacadeInv' /\ [Next]_vars => [Contract!Next]_(Contract!vars)
  <2>1. CASE UNCHANGED vars
    <3>1. Stutter
      BY <2>1 DEF vars, runtimeVars, facadeVars, Stutter, State, Running, Left, Told, Lost,
                  Spoiled
    <3> QED BY <3>1, PromisedIsContract
  <2>2. ASSUME FacadeInv, FacadeInv', Next PROVE Promised \/ Stutter
    <3>1. CASE timer = "unset" /\ timer' = "unset"
      BY <2>2, <3>1, AbsentStep
    <3>2. CASE timer = "unset" /\ timer' # "unset"
      BY <2>2, <3>2, CreateStep
    <3>3. CASE timer # "unset" /\ \E t \in Threads : Announce(t) /\ announced' # announced
      <4>1. PICK t \in Threads : Announce(t) /\ announced' # announced
        BY <3>3
      <4>2. /\ frame[t] = "destroying" /\ announced' = announced + 1 /\ timer' = timer
            /\ pc[t] = "done" /\ pc' = [pc EXCEPT ![t] = "idle"]
            /\ UNCHANGED <<refs, held, world, refused, entries>>
        BY <4>1 DEF Announce, Enter, Resume, Return, Goto, CallFrame
      <4>3. refs = {} /\ announced = 0
        BY <2>2, <4>2 DEF FacadeInv, OneDestroyer, Destroyers
      <4>4. Running' = Running
        BY <2>2, <4>2 DEF FacadeInv, SandboxTypeOK, TypeOK, Running, ExecPoints
      <4>5. State = "gone" /\ State' = "gone" /\ Left' = Left /\ ~Told /\ Told'
        BY <3>3, <4>2, <4>3 DEF State, Left, Lost, Spoiled, Told
      <4> QED BY <4>4, <4>5 DEF Promised
    <3>4. CASE timer # "unset" /\ ~\E t \in Threads : Announce(t) /\ announced' # announced
      <4>1. timer' # "unset" /\ announced' = announced
        BY <2>2, <3>4 DEF Next, Progress, BackendStep, Publish, EmitCreated, Deny, StartExec,
           StartWrite, CallReturns, SetDestroyed, AlreadyDestroyed, DestroyBackend, Construct,
           CallExec, CallWrite, CallDestroy, Expire, FireTimer, facadeVars, Announce
      <4>2. CASE UNCHANGED runtimeVars
        BY <3>4, <4>1, <4>2 DEF runtimeVars, Stutter, State, Running, Left, Told, Lost, Spoiled
      <4> QED BY <2>2, <3>4, <4>1, <4>2, BackendSteps, LiveKeepsContract
    <3> QED BY <3>1, <3>2, <3>3, <3>4
  <2> QED BY <2>1, <2>2, PromisedIsContract
<1> QED BY <1>1, <1>2, FacadeInvHolds, PTL DEF Spec

\* What users of a sandbox may rely on, from the contract alone: DESTROYED is emitted
\* of a destroyed sandbox only, and no execution is in the backend before the
\* constructor has one to hand out.
THEOREM SandboxTellsTheTruth == Spec => []Contract!ToldTheTruth
<1>1. Contract!Init => Contract!ToldTheTruth
  BY DEF Contract!Init, Contract!ToldTheTruth
<1>2. Contract!ToldTheTruth /\ [Contract!Next]_(Contract!vars) => Contract!ToldTheTruth'
  <2>1. ASSUME Contract!ToldTheTruth, Contract!Next PROVE Contract!ToldTheTruth'
    <3>1. CASE Contract!Create
      BY <2>1, <3>1 DEF Contract!Create, Contract!ToldTheTruth
    <3>2. CASE Contract!Destroy
      BY <2>1, <3>2 DEF Contract!Destroy, Contract!ToldTheTruth
    <3>3. CASE Contract!GiveBack \/ Contract!Tell
      BY <2>1, <3>3 DEF Contract!GiveBack, Contract!Tell, Contract!ToldTheTruth
    <3>4. CASE \E t \in Threads : Contract!Begin(t) \/ Contract!End(t)
      BY <2>1, <3>4 DEF Contract!Begin, Contract!End, Contract!ToldTheTruth
    <3> QED BY <2>1, <3>1, <3>2, <3>3, <3>4 DEF Contract!Next
  <2>2. ASSUME Contract!ToldTheTruth, UNCHANGED Contract!vars PROVE Contract!ToldTheTruth'
    BY <2>2 DEF Contract!vars, Contract!ToldTheTruth
  <2> QED BY <2>1, <2>2
<1> QED BY <1>1, <1>2, SandboxKeepsContract, PTL

\* Whoever destroyed the sandbox, and whatever was under way then: it stays destroyed,
\* no new execution reaches the backend, and no resource comes back.
THEOREM SandboxIsGoneForGood == Spec => Contract!GoneForGood
<1>1. [Contract!Next]_(Contract!vars) => [Contract!NoReturn]_(Contract!vars)
  BY DEF Contract!Next, Contract!Create, Contract!Begin, Contract!End, Contract!Destroy,
         Contract!GiveBack, Contract!Tell, Contract!NoReturn
<1> QED BY <1>1, SandboxKeepsContract, PTL DEF Contract!GoneForGood

\* An execution reaches the backend only while the sandbox is live, and no resource is
\* added once the sandbox has been handed out.
THEOREM SandboxWorksOnlyLive == Spec => Contract!WorkOnlyLive
<1>1. [Contract!Next]_(Contract!vars) => [Contract!OnlyLive]_(Contract!vars)
  BY DEF Contract!Next, Contract!Create, Contract!Begin, Contract!End, Contract!Destroy,
         Contract!GiveBack, Contract!Tell, Contract!OnlyLive
<1> QED BY <1>1, SandboxKeepsContract, PTL DEF Contract!WorkOnlyLive

-----------------------------------------------------------------------------
(* The reaper beside the owner.  A pruner takes the time before it lists, so *)
(* that what it found expired is expired still; and a labelled resource is   *)
(* created once, so that what is reported as removed does not come back.     *)

\* The labelled resources that exist or that a pass has removed.
Born == (world \cap Labelled) \cup UNION {report[p] : p \in Pruners}

\* What a boot at the point of thread t has still to create.
Unborn(t) == {r \in Labelled :
    \/ pc[t] \in {"boot_copy", "boot_assign", "boot_client", "boot_network"}
    \/ pc[t] = "boot_proxy" /\ r # "network"
    \/ pc[t] \in {"boot_connect", "boot_container"} /\ r = "container"}

\* Each resource is created once.
OnceBorn ==
    /\ phase = "new" => Born = {}
    /\ \A t \in Threads : Born \cap Unborn(t) = {}

\* The label is stamped once.
OnceStamped ==
    /\ phase = "new" => stamped = Never
    /\ \A t \in Threads : pc[t] \in {"boot_copy", "boot_assign"} => stamped = Never

\* A pass that means to remove something without force has seen it expired, at a
\* time that is over.
Overdue ==
    \A p \in Pruners :
        /\ now[p] <= clock
        /\ p \notin Forced /\ (at[p] = "network" \/ (at[p] = "containers" /\ todo[p] # {}))
               => now[p] >= stamped + Lifetime + Grace

\* What a step of thread t creates it had still to create, and once.
Births(t) ==
    /\ phase' # "new"
    /\ \A u \in Threads : u # t => pc'[u] = pc[u]
    /\ (world' \ world) \cap Labelled \subseteq Unborn(t) \ Unborn(t)'
    /\ phase # "new" => Unborn(t)' \subseteq Unborn(t)
    /\ pc'[t] \in {"boot_copy", "boot_assign"} => phase = "new" \/ pc[t] = "boot_copy"

ReaperInv ==
    /\ ReleaserInv /\ ReaperTypeOK /\ ReportsTruthful
    /\ OnceBorn /\ OnceStamped /\ Overdue

\* A step that creates nothing and is not on the way to create more.
LEMMA EndsBirth ==
    ASSUME ReleaserInv, NEW t \in Threads, NEW from, NEW to,
           Goto(t, from, to), to \notin BootPoints, world' \subseteq world,
           phase' \in {phase, "failed", "live"}, phase # "new"
    PROVE  Births(t)
  BY DEF Births, ReleaserInv, TypeOK, Goto, Unborn, BootPoints

LEMMA ReleaseEndsBirth ==
    ASSUME ReleaserInv, NEW t \in Threads, NEW from, NEW taken, NEW result,
           StartRelease(t, from, taken, result), UNCHANGED ReleaseFrame, phase # "new",
           (world' \ world) \cap Labelled \subseteq Unborn(t)
    PROVE  Births(t)
<1>1. /\ pc'[t] = "release" /\ \A u \in Threads : u # t => pc'[u] = pc[u]
      /\ phase' = phase
  BY DEF StartRelease, Goto, ReleaseFrame, ReleaserInv, TypeOK
<1>2. Unborn(t)' = {}
  BY <1>1 DEF Unborn
<1> QED BY <1>1, <1>2 DEF Births

LEMMA CallEndsBirth ==
    ASSUME ReleaserInv, NEW t \in Threads, NEW from, NEW to, Goto(t, from, to),
           to \notin BootPoints, UNCHANGED <<world, phase>>,
           from # "idle" \/ phase = "live"
    PROVE  Births(t)
<1>1. phase # "new"
  BY DEF ReleaserInv, Shape, Goto
<1> QED BY <1>1, EndsBirth

LEMMA AdvanceEndsBirth ==
    ASSUME ReleaserInv, NEW t \in Threads, NEW from, NEW to, Advance(t, from, to),
           to \notin BootPoints, from # "idle" \/ phase = "live"
    PROVE  Births(t)
  BY CallEndsBirth DEF Advance, CallFrame

LEMMA FailEndsBirth ==
    ASSUME ReleaserInv, NEW t \in Threads, NEW from, NEW result, Fail(t, from, result),
           from # "idle" \/ phase = "live"
    PROVE  Births(t)
<1>1. "done" \notin BootPoints
  BY DEF BootPoints
<1> QED BY <1>1, CallEndsBirth DEF Fail, Finish, CallFrame

LEMMA BirthStep ==
    ASSUME ReleaserInv, NEW t \in Threads, Steps(t)
    PROVE  Births(t)
<1> USE DEF ReleaserInv
<1>0. pc[t] # "idle" => phase # "new"
  BY DEF Shape
<1>1. CASE Prepare(t)
  BY <1>1 DEF Prepare, Finish, Goto, Births, TypeOK, Labelled, Shape
<1>2. CASE ForkCopy(t)
  <2>1. CASE /\ StartRelease(t, "boot_copy", held[t], "unavailable")
             /\ \E kinds \in SUBSET {"image"} : Raised(kinds)
             /\ UNCHANGED ReleaseFrame
    <3>1. (world' \ world) \cap Labelled = {}
      BY <2>1 DEF Raised, Labelled
    <3> QED BY <1>0, <2>1, <3>1, ReleaseEndsBirth DEF StartRelease, Goto
  <2>2. CASE /\ Goto(t, "boot_copy", "boot_assign")
             /\ world' \subseteq world \cup {"image"} /\ phase' = phase
    BY <1>0, <2>2 DEF Births, TypeOK, Goto, Unborn, Labelled
  <2> QED BY <1>2, <2>1, <2>2 DEF ForkCopy, Committed
<1>3. CASE Assign(t)
  BY <1>0, <1>3 DEF Assign, Finish, Goto, Births, TypeOK, Unborn, Labelled
\* What the call that raised had made, it had still to make.
<1>4. ASSUME NEW from \in BootPoints, NEW result, NEW kinds, CleanUp(t, from, result, kinds),
             kinds \cap Labelled \subseteq Unborn(t)
      PROVE  Births(t)
  <2>1. (world' \ world) \cap Labelled \subseteq Unborn(t)
    BY <1>4 DEF CleanUp, Raised
  <2> QED BY <1>0, <1>4, <2>1, ReleaseEndsBirth DEF CleanUp, StartRelease, Goto, BootPoints
<1>5. ASSUME NEW from \in BootPoints, NEW kinds, EgressAbort(t, from, kinds),
             kinds \cap Labelled \subseteq Unborn(t)
      PROVE  Births(t)
  <2>1. (world' \ world) \cap Labelled \subseteq Unborn(t)
    BY <1>5 DEF EgressAbort, Raised
  <2> QED BY <1>0, <1>5, <2>1, ReleaseEndsBirth DEF EgressAbort, StartRelease, Goto, BootPoints
<1>6. BootPoints = {"boot_copy", "boot_assign", "boot_client", "boot_network",
                    "boot_proxy", "boot_connect", "boot_container", "boot_start"}
  BY DEF BootPoints
<1>7. CASE ConnectClient(t)
  <2>1. CASE /\ Goto(t, "boot_client",
                     IF mode.net = "domains" THEN "boot_network" ELSE "boot_container")
             /\ UNCHANGED <<world, phase>>
    BY <1>0, <2>1 DEF Births, TypeOK, Goto, Unborn, Labelled
  <2> QED BY <1>4, <1>6, <1>7, <2>1 DEF ConnectClient
<1>8. CASE StartNetwork(t)
  <2>1. CASE Provision(t, "boot_network", "network", "boot_proxy")
    BY <1>0, <2>1 DEF Provision, Births, TypeOK, Goto, Unborn, Labelled
  <2>2. pc[t] = "boot_network"
    BY <1>8 DEF StartNetwork, Provision, EgressAbort, CleanUp, StartRelease, Goto
  <2>3. {"network"} \cap Labelled \subseteq Unborn(t)
    BY <2>2 DEF Unborn
  <2> QED BY <1>4, <1>5, <1>6, <1>8, <2>1, <2>3 DEF StartNetwork
<1>9. CASE StartProxy(t)
  <2>1. CASE Provision(t, "boot_proxy", "proxy", "boot_connect")
    BY <1>0, <2>1 DEF Provision, Births, TypeOK, Goto, Unborn, Labelled
  <2>2. pc[t] = "boot_proxy"
    BY <1>9 DEF StartProxy, Provision, EgressAbort, CleanUp, StartRelease, Goto
  <2>3. {"proxy"} \cap Labelled \subseteq Unborn(t)
    BY <2>2 DEF Unborn
  <2> QED BY <1>4, <1>5, <1>6, <1>9, <2>1, <2>3 DEF StartProxy
<1>10. CASE ConnectProxy(t)
  <2>1. CASE Goto(t, "boot_connect", "boot_container") /\ UNCHANGED <<world, phase>>
    BY <1>0, <2>1 DEF Births, TypeOK, Goto, Unborn, Labelled
  <2> QED BY <1>4, <1>5, <1>6, <1>10, <2>1 DEF ConnectProxy
<1>11. CASE CreateContainer(t)
  <2>1. CASE Provision(t, "boot_container", "container", "boot_start")
    BY <1>0, <2>1 DEF Provision, Births, TypeOK, Goto, Unborn, Labelled
  <2>2. pc[t] = "boot_container"
    BY <1>11 DEF CreateContainer, Provision, CleanUp, StartRelease, Goto
  <2>3. {"container"} \cap Labelled \subseteq Unborn(t)
    BY <2>2 DEF Unborn
  <2> QED BY <1>4, <1>6, <1>11, <2>1, <2>3 DEF CreateContainer
<1>12. CASE StartContainer(t)
  <2>1. CASE Finish(t, "boot_start", "ok") /\ phase' = "live" /\ world' = world
    BY <1>0, <2>1 DEF Finish, Births, TypeOK, Goto, Unborn, Labelled
  <2> QED BY <1>4, <1>6, <1>12, <2>1 DEF StartContainer
<1>13. CASE ReleaseOnDaemon(t)
  <2>1. /\ phase # "new" /\ pc[t] = "release" /\ world' \subseteq world
        /\ phase' \in {phase, "failed"}
    BY <1>0, <1>13 DEF ReleaseOnDaemon, Settled
  <2>2. Goto(t, "release", "release") \/ Goto(t, "release", "done")
    BY <1>13, <2>1 DEF ReleaseOnDaemon, Finish, Goto, TypeOK
  <2> QED BY <1>6, <2>1, <2>2, EndsBirth
<1>14. CASE UnlinkEntries(t)
  BY <1>6, <1>14, CallEndsBirth DEF UnlinkEntries
<1>15. CASE RemoveDirectory(t)
  <2>1. Goto(t, "rmdir", "release") /\ world' \subseteq world /\ phase' = phase
    BY <1>15 DEF RemoveDirectory
  <2>2. phase # "new"
    BY <1>0, <2>1 DEF Goto
  <2> QED BY <1>6, <2>1, <2>2, EndsBirth
<1>16. CASE ReleaseDone(t)
  <2>1. Goto(t, "release", "done") /\ world' = world /\ phase' \in {phase, "failed"}
    BY <1>16 DEF ReleaseDone, Finish, Settled
  <2>2. phase # "new"
    BY <1>0, <2>1 DEF Goto
  <2> QED BY <1>6, <2>1, <2>2, EndsBirth
<1>17. CASE Destroy(t)
  BY <1>17, ReleaseEndsBirth DEF Destroy
<1>18. CASE Exec(t) \/ Write(t)
  BY <1>6, <1>18, AdvanceEndsBirth, FailEndsBirth DEF Exec, Write
<1>19. CASE ExecCreate(t) \/ ExecInspect(t)
  BY <1>6, <1>19, AdvanceEndsBirth, FailEndsBirth DEF ExecCreate, ExecInspect
<1>20. CASE ExecStream(t)
  <2>1. CASE /\ StartRelease(t, "exec_stream", refs, "backstop")
             /\ UNCHANGED <<ReleaseFrame, world, unnamed>>
    BY <1>0, <2>1, ReleaseEndsBirth DEF StartRelease, Goto
  <2> QED BY <1>6, <1>20, <2>1, AdvanceEndsBirth, FailEndsBirth DEF ExecStream
<1>21. CASE WriteTemp(t) \/ WriteReplace(t)
  <2>1. CASE /\ Goto(t, "write_temp", "write_replace")
             /\ UNCHANGED <<world, phase>>
    BY <1>6, <2>1, CallEndsBirth
  <2> QED BY <1>21, <2>1, FailEndsBirth DEF WriteTemp, WriteReplace, CallFrame
<1>22. CASE Return(t)
  BY <1>6, <1>22, CallEndsBirth DEF Return, CallFrame
<1>23. CASE AbortEscapes(t)
  BY <1>0, <1>23, ReleaseEndsBirth DEF AbortEscapes, StartRelease, Goto
<1> QED
  BY StepCases, <1>1, <1>2, <1>3, <1>7, <1>8, <1>9, <1>10, <1>11, <1>12, <1>13, <1>14,
     <1>15, <1>16, <1>17, <1>18, <1>19, <1>20, <1>21, <1>22, <1>23

\* While a thread is inside a boot, no other thread has anything to create.
LEMMA OthersBearNothing ==
    ASSUME ReleaserInv, NEW t \in Threads, NEW u \in Threads, t # u, Unborn(t) # {}
    PROVE  Unborn(u) = {}
<1>1. pc[t] \in BootPoints
  BY DEF Unborn, BootPoints
<1>2. pc[u] = "idle"
  BY <1>1 DEF ReleaserInv, Shape, BootPoints
<1> QED BY <1>2 DEF Unborn

LEMMA OwnerKeepsBorn ==
    ASSUME ReaperInv, NEW t \in Threads, Births(t), UNCHANGED report
    PROVE  /\ OnceBorn'
           /\ \A p \in Pruners : report'[p] \cap world' = {}
<1> DEFINE New == (world' \ world) \cap Labelled
<1>1. Born' \subseteq Born \cup New
  BY DEF Born
<1>2. New \subseteq Unborn(t) \ Unborn(t)'
  BY DEF Births
<1>3. ASSUME NEW u \in Threads PROVE Born' \cap Unborn(u)' = {}
  <2>1. CASE phase = "new"
    <3>1. Born = {}
      BY <2>1 DEF ReaperInv, OnceBorn
    <3>2. Unborn(t) = {}
      BY <2>1 DEF ReaperInv, ReleaserInv, Shape, Unborn
    <3> QED BY <1>1, <1>2, <3>1, <3>2
  <2>2. CASE phase # "new" /\ u = t
    BY <1>1, <1>2, <2>2 DEF ReaperInv, OnceBorn, Births
  <2>3. CASE phase # "new" /\ u # t
    <3>1. Unborn(u)' = Unborn(u)
      BY <2>3 DEF Births, Unborn
    <3>2. New = {} \/ Unborn(u) = {}
      BY <1>2, <2>3, OthersBearNothing DEF ReaperInv
    <3> QED BY <1>1, <3>1, <3>2 DEF ReaperInv, OnceBorn
  <2> QED BY <2>1, <2>2, <2>3
<1>4. ASSUME NEW p \in Pruners PROVE report'[p] \cap world' = {}
  <2>1. report[p] \subseteq Born /\ report[p] \cap world = {} /\ report[p] \subseteq Labelled
    BY DEF Born, ReaperInv, ReportsTruthful, ReaperTypeOK
  <2>2. Born \cap New = {}
    BY <1>2 DEF ReaperInv, OnceBorn
  <2> QED BY <2>1, <2>2
<1> QED BY <1>3, <1>4 DEF OnceBorn, Births

LEMMA OwnerKeepsReaper ==
    ASSUME ReaperInv, NEW t \in Threads, OwnerStep(t)
    PROVE  ReaperInv'
<1>1. Steps(t)
  BY DEF OwnerStep, Client, Steps
<1>2. ReleaserInv'
  BY <1>1, TypeStep, ReleaserStep DEF ReaperInv, ReleaserInv
<1>3. Births(t)
  BY <1>1, BirthStep DEF ReaperInv
<1>4. UNCHANGED <<clock, at, now, todo, report>>
  BY DEF OwnerStep, prunerVars
<1>5. /\ stamped' = IF pc[t] = "boot_assign" THEN clock ELSE stamped
      /\ liveAt' \in {clock, liveAt}
  BY DEF OwnerStep
<1>6. attached' \subseteq {"container", "proxy"} \cap world'
  <2>1. Joining(t) \subseteq {"container", "proxy"}
    BY DEF Joining
  <2> QED BY <2>1 DEF OwnerStep, ReaperInv, ReaperTypeOK
<1>7. ReaperTypeOK'
  BY <1>2, <1>4, <1>5, <1>6, ReaperAssumption
  DEF ReaperInv, ReleaserInv, ReaperTypeOK, Never
<1>8. OnceBorn' /\ \A p \in Pruners : report'[p] \cap world' = {}
  BY <1>3, <1>4, OwnerKeepsBorn
<1>9. ReportsTruthful'
  BY <1>4, <1>7, <1>8 DEF ReaperInv, ReportsTruthful
<1>10. OnceStamped'
  <2>1. phase' # "new"
    BY <1>3 DEF Births
  <2>2. ASSUME NEW u \in Threads, pc'[u] \in {"boot_copy", "boot_assign"}
        PROVE  stamped' = Never
    <3>1. CASE u = t
      BY <1>3, <1>5, <2>2, <3>1 DEF Births, ReaperInv, OnceStamped, ReleaserInv, Shape
    <3>2. CASE u # t
      <4>1. pc[u] \in {"boot_copy", "boot_assign"}
        BY <1>3, <2>2, <3>2 DEF Births
      <4>2. pc[t] # "boot_assign"
        BY <3>2, <4>1 DEF ReaperInv, ReleaserInv, Shape, BootPoints
      <4> QED BY <1>5, <4>1, <4>2 DEF ReaperInv, OnceStamped
    <3> QED BY <3>1, <3>2
  <2> QED BY <2>1, <2>2 DEF OnceStamped
<1>11. Overdue'
  <2>1. CASE pc[t] # "boot_assign"
    BY <1>4, <1>5, <2>1 DEF ReaperInv, Overdue
  <2>2. CASE pc[t] = "boot_assign"
    <3>1. stamped = Never
      BY <2>2 DEF ReaperInv, OnceStamped
    <3>2. \A p \in Pruners : now[p] < stamped + Lifetime + Grace
      BY <3>1, ReaperAssumption DEF ReaperInv, ReaperTypeOK, Never
    <3> QED BY <1>4, <3>2, ReaperAssumption DEF ReaperInv, Overdue, ReaperTypeOK, Never
  <2> QED BY <2>1, <2>2
<1> QED BY <1>2, <1>7, <1>8, <1>9, <1>10, <1>11 DEF ReaperInv

\* What a step of a pruner leaves alone, and what it may change: it creates
\* nothing, and adds to its own report only what it has just removed.
Prunes(p) ==
    /\ UNCHANGED DaemonFrame
    /\ world' \subseteq world
    /\ \A q \in Pruners \ {p} : UNCHANGED <<at[q], now[q], todo[q], report[q]>>
    /\ report'[p] = {} \/ report'[p] \subseteq report[p] \cup (world \ world')
    /\ ReaperTypeOK'

LEMMA PruneFrame ==
    ASSUME ReaperInv, NEW p \in Pruners, PruneStep(p)
    PROVE  Prunes(p)
<1> USE DEF ReaperInv, ReaperTypeOK, Labelled, Move, End, Note, Prunes, DaemonFrame, TypeOK
<1>1. clock \in 0 .. MaxClock /\ 0 \in 0 .. MaxClock
  BY ReaperAssumption
<1>2. CASE PruneStart(p)
  BY <1>1, <1>2 DEF PruneStart
<1>3. CASE ListContainers(p)
  BY <1>1, <1>3 DEF ListContainers
<1>4. CASE ListNetworks(p)
  <2>1. CASE End(p, "containers") /\ UNCHANGED <<DaemonFrame, world, attached, report>>
    BY <1>1, <2>1
  <2>2. CASE /\ Move(p, "containers", "network") /\ todo' = [todo EXCEPT ![p] = attached]
             /\ UNCHANGED <<DaemonFrame, world, attached, report, now>>
    BY <2>2
  <2> QED BY <1>4, <2>1, <2>2 DEF ListNetworks
<1>5. CASE RemoveNetwork(p)
  BY <1>1, <1>5 DEF RemoveNetwork
<1>6. ASSUME NEW r \in Labelled, RemoveContainer(p, r) PROVE Prunes(p)
  <2>1. UNCHANGED <<DaemonFrame, at, now>> /\ todo' = [todo EXCEPT ![p] = @ \ {r}]
    BY <1>6 DEF RemoveContainer
  <2>2. CASE UNCHANGED <<world, attached, report>>
    BY <2>1, <2>2
  <2>3. CASE /\ r \in world /\ world' = world \ {r} /\ attached' = attached \ {r}
             /\ report' = [report EXCEPT ![p] = @ \cup {r}]
    <3>1. report' \in [Pruners -> SUBSET Labelled] /\ todo' \in [Pruners -> SUBSET Labelled]
      BY <2>1, <2>3
    <3>2. attached' \subseteq {"container", "proxy"} \cap world'
      BY <2>3
    <3>3. report'[p] \subseteq report[p] \cup (world \ world')
      BY <2>3
    <3> QED BY <2>1, <2>3, <3>1, <3>2, <3>3
  <2> QED BY <1>6, <2>2, <2>3 DEF RemoveContainer
<1>7. CASE \E r \in Labelled : Disconnect(p, r)
  BY <1>7 DEF Disconnect
<1> QED BY <1>2, <1>3, <1>4, <1>5, <1>6, <1>7 DEF PruneStep

LEMMA PruneKeepsReports ==
    ASSUME ReaperInv, NEW p \in Pruners, Prunes(p)
    PROVE  ReportsTruthful' /\ OnceBorn' /\ OnceStamped'
<1>1. \A q \in Pruners : report[q] \cap world = {} /\ report[q] \subseteq Labelled
  BY DEF ReaperInv, ReportsTruthful, ReaperTypeOK
<1>2. \A q \in Pruners \ {p} : report'[q] = report[q]
  BY DEF Prunes
<1>3. report'[p] \subseteq report[p] \cup (world \ world') /\ report'[p] \subseteq Labelled
  BY DEF Prunes, ReaperTypeOK
<1>4. ReportsTruthful'
  <2>1. \A q \in Pruners : report'[q] \cap world' = {}
    BY <1>1, <1>2, <1>3 DEF Prunes
  <2>2. \A q \in Pruners \ {p} : report'[p] \cap report'[q] = {}
    BY <1>1, <1>2, <1>3 DEF ReaperInv, ReportsTruthful
  <2>3. \A q, r \in Pruners : q # r => report'[q] \cap report'[r] = {}
    BY <1>2, <2>2 DEF ReaperInv, ReportsTruthful
  <2> QED BY <2>1, <2>3 DEF Prunes, ReportsTruthful
<1>5. OnceBorn'
  <2>1. Born' \subseteq Born
    BY <1>2, <1>3 DEF Born, Prunes
  <2>2. phase' = phase /\ \A t \in Threads : Unborn(t)' = Unborn(t)
    BY DEF Prunes, DaemonFrame, Unborn
  <2> QED BY <2>1, <2>2 DEF ReaperInv, OnceBorn
<1>6. OnceStamped'
  BY DEF Prunes, DaemonFrame, ReaperInv, OnceStamped
<1> QED BY <1>4, <1>5, <1>6

\* What was expired when a pass read the clock is expired for the rest of the pass.
LEMMA PruneKeepsOverdue ==
    ASSUME ReaperInv, NEW p \in Pruners, PruneStep(p)
    PROVE  Overdue'
<1> USE DEF ReaperInv, ReaperTypeOK, Overdue, Expired, Move, End
<1>1. clock \in Nat /\ 0 <= clock /\ clock' = clock /\ stamped' = stamped
  BY PruneFrame, ReaperAssumption DEF Prunes, DaemonFrame
<1>2. CASE PruneStart(p)
  BY <1>1, <1>2 DEF PruneStart
<1>3. CASE ListContainers(p)
  BY <1>1, <1>3 DEF ListContainers
<1>4. CASE ListNetworks(p)
  BY <1>1, <1>4 DEF ListNetworks
<1>5. CASE RemoveNetwork(p)
  BY <1>1, <1>5 DEF RemoveNetwork
<1>6. CASE \E r \in Labelled : RemoveContainer(p, r)
  BY <1>1, <1>6 DEF RemoveContainer
<1>7. CASE \E r \in Labelled : Disconnect(p, r)
  BY <1>1, <1>7 DEF Disconnect
<1> QED BY <1>2, <1>3, <1>4, <1>5, <1>6, <1>7 DEF PruneStep

LEMMA PruneKeepsReaper ==
    ASSUME ReaperInv, NEW p \in Pruners, PruneStep(p)
    PROVE  ReaperInv'
<1>1. Prunes(p)
  BY PruneFrame
<1>2. ReleaserInv'
  BY <1>1 DEF Prunes, DaemonFrame, ReaperInv, ReleaserInv, Shape, SingleReleaser,
              ReaperTypeOK
<1> QED BY <1>1, <1>2, PruneKeepsReports, PruneKeepsOverdue DEF ReaperInv, Prunes

LEMMA TickKeepsReaper ==
    ASSUME ReaperInv, Tick
    PROVE  ReaperInv'
<1>1. /\ clock \in Nat /\ clock' = clock + 1 /\ clock' \in 0 .. MaxClock
      /\ UNCHANGED <<runtimeVars, stamped, liveAt, attached, at, now, todo, report>>
  BY ReaperAssumption DEF Tick, ownerVars, prunerVars, ReaperInv, ReaperTypeOK
<1>2. ReleaserInv' /\ TypeOK'
  BY <1>1 DEF ReaperInv, ReleaserInv, TypeOK, Shape, SingleReleaser, runtimeVars
<1>3. ReaperTypeOK' /\ ReportsTruthful'
  BY <1>1, <1>2 DEF ReaperInv, ReaperTypeOK, ReportsTruthful, runtimeVars
<1>4. OnceBorn' /\ OnceStamped'
  BY <1>1 DEF ReaperInv, OnceBorn, Born, Unborn, OnceStamped, runtimeVars
<1>5. Overdue'
  <2>1. \A p \in Pruners : now[p] \in Nat
    BY ReaperAssumption DEF ReaperInv, ReaperTypeOK
  <2> QED BY <1>1, <2>1 DEF ReaperInv, Overdue
<1> QED BY <1>2, <1>3, <1>4, <1>5 DEF ReaperInv

LEMMA ReaperInvHolds == ReaperSpec => []ReaperInv
<1>1. ReaperInit => ReaperInv
  <2> SUFFICES ASSUME ReaperInit PROVE ReaperInv
    OBVIOUS
  <2>1. ReleaserInv
    BY DEF ReaperInit, RuntimeInit, ReleaserInv, TypeOK, Shape, SingleReleaser, Points,
           BootPoints, Outcomes, Kinds
  <2>2. ReaperTypeOK
    BY <2>1, ReaperAssumption DEF ReaperInit, ReaperTypeOK, ReleaserInv, Never
  <2>3. ReportsTruthful /\ Overdue
    BY <2>2 DEF ReaperInit, ReportsTruthful, Overdue
  <2>4. OnceBorn /\ OnceStamped
    BY DEF ReaperInit, RuntimeInit, OnceBorn, Born, Unborn, OnceStamped
  <2> QED BY <2>1, <2>2, <2>3, <2>4 DEF ReaperInv
<1>2. ReaperInv /\ [ReaperNext]_reaperVars => ReaperInv'
  <2> SUFFICES ASSUME ReaperInv, [ReaperNext]_reaperVars PROVE ReaperInv'
    OBVIOUS
  <2>1. CASE ReaperNext
    BY <2>1, OwnerKeepsReaper, PruneKeepsReaper, TickKeepsReaper DEF ReaperNext
  <2>2. CASE UNCHANGED reaperVars
    BY <2>2 DEF reaperVars, ownerVars, prunerVars, runtimeVars, ReaperInv, ReleaserInv,
                TypeOK, Shape, SingleReleaser, ReaperTypeOK, ReportsTruthful, OnceBorn,
                Born, Unborn, OnceStamped, Overdue
  <2> QED BY <2>1, <2>2
<1> QED BY <1>1, <1>2, PTL DEF ReaperSpec

\* What a report names is gone, and no two reports name one resource: a removal
\* that the daemon did not confirm is credited to nobody (reaper.prune).
THEOREM ReportsAreTrue == ReaperSpec => []ReportsTruthful
<1>1. ReaperInv => ReportsTruthful
  BY DEF ReaperInv
<1> QED BY <1>1, ReaperInvHolds, PTL

LEMMA SparedStep ==
    ASSUME ReaperInv, ReaperNext, NEW p \in Pruners, report'[p] \ report[p] # {},
           p \notin Forced, phase = "live", clock < liveAt + Lifetime
    PROVE  liveAt - stamped > Grace
<1>1. PruneStep(p)
  <2>1. CASE \E t \in Threads : OwnerStep(t)
    BY <2>1 DEF OwnerStep, prunerVars
  <2>2. CASE Tick
    BY <2>2 DEF Tick, prunerVars
  <2>3. ASSUME NEW q \in Pruners, PruneStep(q) PROVE q = p
    BY <2>3, PruneFrame DEF Prunes
  <2> QED BY <2>1, <2>2, <2>3 DEF ReaperNext
<1>2. at[p] = "network" \/ (at[p] = "containers" /\ todo[p] # {})
  BY <1>1 DEF PruneStep, PruneStart, ListContainers, ListNetworks, RemoveNetwork,
              RemoveContainer, Disconnect, End, Move, ReaperInv, ReaperTypeOK
<1>3. now[p] <= clock /\ now[p] >= stamped + Lifetime + Grace
  BY <1>2 DEF ReaperInv, Overdue
<1>4. {clock, now[p], stamped, liveAt, Lifetime, Grace} \subseteq Nat
  BY ReaperAssumption DEF ReaperInv, ReaperTypeOK, Never
<1> QED BY <1>3, <1>4

\* The grace period covers the boot: only one that took longer lets a pruner take
\* a resource of a sandbox whose lifetime is not over (_expired beside the label
\* that _boot stamps and the deadline of Sandbox.__init__).
THEOREM GraceSpares == ReaperSpec => LivingSpared
<1>1. ReaperInv /\ [ReaperNext]_reaperVars =>
        [\A p \in Pruners :
            report'[p] \ report[p] # {} /\ p \notin Forced /\ phase = "live"
                /\ clock < liveAt + Lifetime
            => liveAt - stamped > Grace]_reaperVars
  BY SparedStep
<1> QED BY <1>1, ReaperInvHolds, PTL DEF ReaperSpec, LivingSpared

=============================================================================

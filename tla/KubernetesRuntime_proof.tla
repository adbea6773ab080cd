------------------------ MODULE KubernetesRuntime_proof ------------------------
(* Theorems about KubernetesRuntime, for any threads, modes and faults. *)
EXTENDS KubernetesRuntime, TLAPS

CreatePoints == {"connect", "create_pod", "create_policy", "wait"}
ExecPoints   == {"id", "take_id", "config", "take_config", "open", "stream", "bound"}

\* Points of destroy after which a resource has not been asked away yet.
BeforePod    == {"clear_name", "clear_config", "check", "delete_pod"}
BeforePolicy == BeforePod \cup {"delete_policy"}
Forgotten    == {"clear_config", "check", "delete_pod", "delete_policy"}

\* One thread creates, and nobody else is inside the object meanwhile.
Solo ==
    /\ phase = "new" => /\ ~podName /\ pod = "absent" /\ ~policy
                        /\ \A t \in Threads : pc[t] = "idle"
    /\ phase = "creating" => \A t, u \in Threads : pc[t] # "idle" /\ pc[u] # "idle" => t = u
    /\ \A t \in Threads : pc[t] \in CreatePoints => phase = "creating"
    /\ \A t \in Threads : pc[t] \in ExecPoints => phase = "live"

\* What a thread that creates finds, and what it has made so far.
Made ==
    /\ \A t \in Threads : pc[t] = "connect" => ~podName /\ pod = "absent" /\ ~policy
    /\ \A t \in Threads : pc[t] \in {"create_pod", "create_policy", "wait"} => podName
    /\ \A t \in Threads : pc[t] = "wait" /\ mode # "allow" => policy

\* The fields go one after the other and for good, and no thread clears a name
\* that it has not copied.
Cleared ==
    /\ podName => config /\ core
    /\ \A t \in Threads : name[t] => core
    /\ \A t \in Threads : pc[t] = "clear_name" /\ podName => name[t]
    /\ \A t \in Threads : pc[t] \in Forgotten => ~podName

\* Where an execution stands, what it has read, and what destroy cleared under it.
Struck ==
    /\ \A t \in Threads : pc[t] = "id" =>
          lost[t] \in {"nothing", "id"} /\ (podName <=> lost[t] = "nothing")
    /\ \A t \in Threads : pc[t] = "take_id" =>
          lost[t] \in {"nothing", "take_id"} /\ (podName <=> lost[t] = "nothing")
    /\ \A t \in Threads : pc[t] = "config" =>
          /\ lost[t] \in {"nothing", "take_id", "config"}
          /\ lost[t] = "nothing" => name[t] /\ config
          /\ lost[t] = "take_id" => ~name[t]
          /\ lost[t] = "config" => ~config
    /\ \A t \in Threads : pc[t] = "take_config" =>
          /\ lost[t] \in {"nothing", "take_id", "take_config"}
          /\ lost[t] = "nothing" => name[t] /\ config
          /\ lost[t] = "take_id" => ~name[t] /\ config
          /\ lost[t] = "take_config" => ~config
    /\ \A t \in Threads : pc[t] \in {"open", "stream", "bound"} =>
          /\ lost[t] \in {"nothing", "take_id", "take_config"}
          /\ lost[t] = "take_id" => ~name[t]
          /\ conf[t] <=> lost[t] # "take_config"
    /\ \A t \in Threads : pc[t] \in {"stream", "bound"} => name[t]

PodGone == pod \in {"absent", "terminating"} \/ "pod" \in refused

\* Whatever exists and was not refused is named by the field or by the copy of a
\* thread that still has to delete it.
Named ==
    /\ PodGone \/ podName \/ \E t \in Threads : name[t] /\ pc[t] \in BeforePod
    /\ policy => \/ "policy" \in refused \/ podName
                 \/ \E t \in Threads : name[t] /\ pc[t] \in BeforePolicy

\* The Pod goes before its policy, and the policy stays while the name does.
Ordered ==
    /\ \A t \in Threads : pc[t] = "delete_policy" => PodGone
    /\ mode # "allow" /\ ~policy => PodGone \/ phase = "creating"
    /\ phase = "live" /\ podName /\ mode # "allow" => policy
    /\ pod = "terminating" => ~podName

KubeInv == KubeTypeOK /\ Solo /\ Made /\ Cleared /\ Struck /\ Named /\ Ordered

Step(t) == Create(t) \/ Exec(t) \/ Destroy(t) \/ Progress(t)

LEMMA TypeStep ==
    ASSUME KubeTypeOK, NEW t \in Threads, Step(t)
    PROVE  KubeTypeOK'
<1> USE DEF Points, Outcomes, Resources, fields, cluster, Locals, Goto, Finish, DestroyThen,
            KubeTypeOK
<1>1. CASE Create(t)
  BY <1>1 DEF Create
<1>2. CASE Connect(t)
  BY <1>2 DEF Connect
<1>3. CASE CreatePod(t)
  BY <1>3 DEF CreatePod, Call
<1>4. CASE CreatePolicy(t)
  BY <1>4 DEF CreatePolicy, Call
<1>5. CASE WaitUntilRunning(t)
  BY <1>5 DEF WaitUntilRunning
<1>6. CASE Exec(t)
  BY <1>6 DEF Exec
<1>7. CASE CheckId(t)
  BY <1>7 DEF CheckId, Check
<1>8. CASE TakeId(t)
  BY <1>8 DEF TakeId
<1>9. CASE CheckConfig(t)
  BY <1>9 DEF CheckConfig, Check
<1>10. CASE TakeConfig(t)
  BY <1>10 DEF TakeConfig
<1>11. CASE Open(t)
  BY <1>11 DEF Open
<1>12. CASE Stream(t)
  BY <1>12 DEF Stream
<1>13. CASE Bound(t)
  BY <1>13 DEF Bound
<1>14. CASE Destroy(t)
  BY <1>14 DEF Destroy
<1>15. CASE ReadName(t)
  BY <1>15 DEF ReadName
<1>16. CASE ClearName(t)
  BY <1>16 DEF ClearName, Strike
<1>17. CASE ClearConfig(t)
  BY <1>17 DEF ClearConfig, Strike
<1>18. CASE CheckName(t)
  BY <1>18 DEF CheckName, Settled
<1>19. CASE DeletePod(t)
  BY <1>19 DEF DeletePod
<1>20. CASE DeletePolicy(t)
  BY <1>20 DEF DeletePolicy, Settled
<1>21. CASE Return(t)
  BY <1>21 DEF Return
<1>22. QED
  BY <1>1, <1>2, <1>3, <1>4, <1>5, <1>6, <1>7, <1>8, <1>9, <1>10, <1>11, <1>12, <1>13, <1>14,
     <1>15, <1>16, <1>17, <1>18, <1>19, <1>20, <1>21 DEF Step, Progress

\* A step of a thread keeps who is inside the object, what it has made, what it
\* has cleared, who still names what exists, and the order of deletion.
LEMMA InvStep ==
    ASSUME KubeInv, NEW t \in Threads, Step(t)
    PROVE  Solo' /\ Made' /\ Cleared' /\ Named' /\ Ordered'
<1> USE DEF CreatePoints, ExecPoints, BeforePod, BeforePolicy, Forgotten, fields, cluster,
            Locals, Goto, Finish, DestroyThen, KubeInv, KubeTypeOK, Solo, Made, Cleared,
            PodGone, Named, Ordered
<1>1. CASE Create(t)
  BY <1>1 DEF Create
<1>2. CASE Connect(t)
  BY <1>2 DEF Connect
<1>3. CASE CreatePod(t)
  BY <1>3 DEF CreatePod, Call
<1>4. CASE CreatePolicy(t)
  BY <1>4 DEF CreatePolicy, Call
<1>5. CASE WaitUntilRunning(t)
  BY <1>5 DEF WaitUntilRunning
<1>6. CASE Exec(t)
  BY <1>6 DEF Exec
<1>7. CASE CheckId(t)
  BY <1>7 DEF CheckId, Check
<1>8. CASE TakeId(t)
  BY <1>8 DEF TakeId
<1>9. CASE CheckConfig(t)
  BY <1>9 DEF CheckConfig, Check
<1>10. CASE TakeConfig(t)
  BY <1>10 DEF TakeConfig
<1>11. CASE Open(t)
  BY <1>11 DEF Open
<1>12. CASE Stream(t)
  BY <1>12 DEF Stream
<1>13. CASE Bound(t)
  BY <1>13 DEF Bound
<1>14. CASE Destroy(t)
  BY <1>14 DEF Destroy
<1>15. CASE ReadName(t)
  BY <1>15 DEF ReadName
<1>16. CASE ClearName(t)
  BY <1>16 DEF ClearName, Strike
<1>17. CASE ClearConfig(t)
  BY <1>17 DEF ClearConfig, Strike
<1>18. CASE CheckName(t)
  BY <1>18 DEF CheckName, Settled
<1>19. CASE DeletePod(t)
  BY <1>19 DEF DeletePod
<1>20. CASE DeletePolicy(t)
  BY <1>20 DEF DeletePolicy, Settled
<1>21. CASE Return(t)
  BY <1>21 DEF Return
<1>22. QED
  BY <1>1, <1>2, <1>3, <1>4, <1>5, <1>6, <1>7, <1>8, <1>9, <1>10, <1>11, <1>12, <1>13, <1>14,
     <1>15, <1>16, <1>17, <1>18, <1>19, <1>20, <1>21 DEF Step, Progress

\* A step of a thread keeps what is known of the executions under which destroy
\* clears the fields.
LEMMA StruckStep ==
    ASSUME KubeInv, NEW t \in Threads, Step(t)
    PROVE  Struck'
<1> USE DEF CreatePoints, ExecPoints, fields, Locals, Goto, Finish, DestroyThen, KubeInv, KubeTypeOK,
            Solo, Cleared, Struck
<1>1. CASE Create(t)
  BY <1>1 DEF Create
<1>2. CASE Connect(t)
  BY <1>2 DEF Connect
<1>3. CASE CreatePod(t)
  BY <1>3 DEF CreatePod, Call
<1>4. CASE CreatePolicy(t)
  BY <1>4 DEF CreatePolicy, Call
<1>5. CASE WaitUntilRunning(t)
  BY <1>5 DEF WaitUntilRunning
<1>6. CASE Exec(t)
  BY <1>6 DEF Exec
<1>7. CASE CheckId(t)
  BY <1>7 DEF CheckId, Check
<1>8. CASE TakeId(t)
  BY <1>8 DEF TakeId
<1>9. CASE CheckConfig(t)
  BY <1>9 DEF CheckConfig, Check
<1>10. CASE TakeConfig(t)
  BY <1>10 DEF TakeConfig
<1>11. CASE Open(t)
  BY <1>11 DEF Open
<1>12. CASE Stream(t)
  BY <1>12 DEF Stream
<1>13. CASE Bound(t)
  BY <1>13 DEF Bound
<1>14. CASE Destroy(t)
  BY <1>14 DEF Destroy
<1>15. CASE ReadName(t)
  BY <1>15 DEF ReadName
<1>16. CASE ClearName(t)
  BY <1>16 DEF ClearName, Strike
<1>17. CASE ClearConfig(t)
  BY <1>17 DEF ClearConfig, Strike
<1>18. CASE CheckName(t)
  BY <1>18 DEF CheckName, Settled
<1>19. CASE DeletePod(t)
  BY <1>19 DEF DeletePod
<1>20. CASE DeletePolicy(t)
  BY <1>20 DEF DeletePolicy, Settled
<1>21. CASE Return(t)
  BY <1>21 DEF Return
<1>22. QED
  BY <1>1, <1>2, <1>3, <1>4, <1>5, <1>6, <1>7, <1>8, <1>9, <1>10, <1>11, <1>12, <1>13, <1>14,
     <1>15, <1>16, <1>17, <1>18, <1>19, <1>20, <1>21 DEF Step, Progress

\* The cluster schedules the Pod, ends it, or finishes its deletion.
LEMMA ClusterStep ==
    ASSUME KubeInv, Schedule \/ PodEnds \/ Terminated
    PROVE  KubeInv'
<1> USE DEF ClusterFrame, fields, Locals, KubeInv
<1>1. KubeTypeOK'
  BY DEF Schedule, PodEnds, Terminated, KubeTypeOK
<1>2. Solo' /\ Made' /\ Cleared'
  BY DEF Schedule, PodEnds, Terminated, KubeTypeOK, Solo, Made, Cleared
<1>4. Struck'
  BY DEF Schedule, PodEnds, Terminated, KubeTypeOK, Struck
<1>3. Named' /\ Ordered'
  BY DEF Schedule, PodEnds, Terminated, KubeTypeOK, Named, Ordered, PodGone
<1>5. QED
  BY <1>1, <1>2, <1>3, <1>4

LEMMA Invariance == Spec => []KubeInv
<1>1. Init => KubeInv
  BY DEF Init, KubeInv, KubeTypeOK, Points, Outcomes, Resources, Solo, Made, Cleared, Struck,
         Named, Ordered, PodGone, CreatePoints, ExecPoints, Forgotten
<1>2. KubeInv /\ [Next]_vars => KubeInv'
  <2>1. ASSUME KubeInv, NEW t \in Threads, Step(t) PROVE KubeInv'
    BY <2>1, TypeStep, InvStep, StruckStep DEF KubeInv
  <2>2. CASE KubeInv /\ UNCHANGED vars
    BY <2>2 DEF vars, KubeInv, KubeTypeOK, Solo, Made, Cleared, Struck, Named, Ordered, PodGone
  <2>3. QED
    BY <2>1, <2>2, ClusterStep DEF Next, Step
<1>3. QED
  BY <1>1, <1>2, PTL DEF Spec

\* However destroyers overlap without a lock, and whatever the cluster did without
\* saying so, a forgotten name leaves nothing behind that nobody refused to delete.
THEOREM NothingForgotten == Spec => []ForgottenIsGone
<1>1. KubeInv => ForgottenIsGone
  BY DEF KubeInv, Named, PodGone, ForgottenIsGone, Destroying, BeforePod, BeforePolicy, Exists
<1>2. QED
  BY <1>1, Invariance, PTL

\* Well-typed, and restricted from the moment the Pod is handed out until its
\* deletion was asked for.
THEOREM PolicyHolds == Spec => []PolicyInPlace
<1>1. KubeInv => PolicyInPlace
  BY DEF KubeInv, Ordered, PodGone, PolicyInPlace, RestrictedWhileLive,
         UnrestrictedOnlyAround
<1>2. QED
  BY <1>1, Invariance, PTL

\* How an execution ends, by the step that ends it.
LEMMA EndIsTold ==
    ASSUME KubeInv, NEW t \in Threads, Step(t), NEW u \in Threads
    PROVE  RaceReported(u)
<1> USE DEF Goto, Finish, DestroyThen, KubeInv, KubeTypeOK, RaceReported, Executing
<1>1. CASE \/ Create(t) \/ Connect(t) \/ CreatePod(t) \/ CreatePolicy(t) \/ WaitUntilRunning(t)
           \/ Exec(t) \/ Destroy(t)
  BY <1>1 DEF Create, Connect, CreatePod, CreatePolicy, Call, WaitUntilRunning, Exec, Destroy
<1>2. CASE \/ ReadName(t) \/ ClearName(t) \/ ClearConfig(t) \/ CheckName(t)
           \/ DeletePod(t) \/ DeletePolicy(t) \/ Return(t)
  BY <1>2 DEF ReadName, ClearName, ClearConfig, CheckName, DeletePod, DeletePolicy, Return
<1>3. CASE TakeId(t) \/ TakeConfig(t)
  BY <1>3 DEF TakeId, TakeConfig
<1>4. CASE CheckId(t)
  BY <1>4 DEF CheckId, Check, Struck
<1>5. CASE CheckConfig(t)
  BY <1>5 DEF CheckConfig, Check, Struck
<1>6. CASE Open(t)
  BY <1>6 DEF Open, Struck
<1>7. CASE Stream(t)
  BY <1>7 DEF Stream, Struck
<1>8. CASE Bound(t)
  BY <1>8 DEF Bound, Struck
<1>9. QED
  BY <1>1, <1>2, <1>3, <1>4, <1>5, <1>6, <1>7, <1>8 DEF Step, Progress

\* Whichever field destroy clears, and wherever the execution stands that was to
\* read it, the execution ends in an exception that says so; an AttributeError has
\* one place only, between the two reads of _require_config.
THEOREM RacesAreReported == Spec => RaceIsReported
<1>1. KubeInv /\ [Next]_vars => [\A t \in Threads : RaceReported(t)]_vars
  <2>1. ASSUME KubeInv, Schedule \/ PodEnds \/ Terminated, NEW t \in Threads
        PROVE  RaceReported(t)
    BY <2>1 DEF Schedule, PodEnds, Terminated, ClusterFrame, RaceReported, Executing
  <2>2. QED
    BY <2>1, EndIsTold DEF Next, Step
<1>2. QED
  BY <1>1, Invariance, PTL DEF Spec, RaceIsReported

-----------------------------------------------------------------------------
(* The contract: what each step is to SandboxContract.                     *)

Reading == {"config", "take_config", "open", "stream", "bound"}

State   == IF phase # "live" THEN "absent" ELSE IF podName THEN "live" ELSE "gone"
Running == {t \in Threads : name[t] /\ pc[t] \in Reading}
Left    == IF phase = "live" THEN Exists \ refused ELSE {}

\* A step that neither begins nor ends, creates, clears or deletes.
Stutter == UNCHANGED <<State, Running, Left>>

\* The contract's actions over these three, one by one.
Promised ==
    \/ /\ State = "absent" /\ State' = "live"
       /\ Left' \in SUBSET Resources /\ Running' = Running
    \/ State = "live" /\ State' = "gone" /\ Running' = Running /\ Left' = Left
    \/ State = "gone" /\ Left' \in SUBSET Left /\ UNCHANGED <<State, Running>>
    \/ /\ State = "live" /\ UNCHANGED <<State, Left>>
       /\ \E t \in Threads : Running' = Running \cup {t}
    \/ \E t \in Threads : Running' = Running \ {t} /\ UNCHANGED <<State, Left>>

LEMMA PromisedIsContract == Promised \/ Stutter => [Contract!Next]_(Contract!vars)
  BY DEF Promised, Stutter, State, Running, Left, Reading, Contract!Next, Contract!vars,
         Contract!Create, Contract!Begin, Contract!End, Contract!Destroy, Contract!GiveBack

LEMMA ThreadKeepsContract ==
    ASSUME KubeInv, NEW t \in Threads, Step(t)
    PROVE  Promised \/ Stutter
<1> USE DEF CreatePoints, ExecPoints, BeforePod, BeforePolicy, Forgotten, fields, cluster,
            Locals, Goto, Finish, DestroyThen, KubeInv, KubeTypeOK, Solo, Made, Cleared,
            PodGone, Ordered, Reading, State, Running, Left, Promised, Stutter, Exists, Resources
<1>1. CASE Create(t)
  BY <1>1 DEF Create
<1>2. CASE Connect(t)
  BY <1>2 DEF Connect
<1>3. CASE CreatePod(t)
  BY <1>3 DEF CreatePod, Call
<1>4. CASE CreatePolicy(t)
  BY <1>4 DEF CreatePolicy, Call
<1>5. CASE WaitUntilRunning(t)
  BY <1>5 DEF WaitUntilRunning
<1>6. CASE Exec(t)
  BY <1>6 DEF Exec
<1>7. CASE CheckId(t)
  BY <1>7 DEF CheckId, Check
<1>8. CASE TakeId(t)
  BY <1>8 DEF TakeId
<1>9. CASE CheckConfig(t)
  BY <1>9 DEF CheckConfig, Check
<1>10. CASE TakeConfig(t)
  BY <1>10 DEF TakeConfig
<1>11. CASE Open(t)
  BY <1>11 DEF Open
<1>12. CASE Stream(t)
  BY <1>12 DEF Stream
<1>13. CASE Bound(t)
  BY <1>13 DEF Bound
<1>14. CASE Destroy(t)
  BY <1>14 DEF Destroy
<1>15. CASE ReadName(t)
  BY <1>15 DEF ReadName
<1>16. CASE ClearName(t)
  BY <1>16 DEF ClearName, Strike
<1>17. CASE ClearConfig(t)
  BY <1>17 DEF ClearConfig, Strike
<1>18. CASE CheckName(t)
  BY <1>18 DEF CheckName, Settled
<1>19. CASE DeletePod(t)
  BY <1>19 DEF DeletePod
<1>20. CASE DeletePolicy(t)
  BY <1>20 DEF DeletePolicy, Settled
<1>21. CASE Return(t)
  BY <1>21 DEF Return
<1>22. QED
  BY <1>1, <1>2, <1>3, <1>4, <1>5, <1>6, <1>7, <1>8, <1>9, <1>10, <1>11, <1>12, <1>13, <1>14,
     <1>15, <1>16, <1>17, <1>18, <1>19, <1>20, <1>21 DEF Step, Progress

LEMMA ClusterKeepsContract ==
    ASSUME KubeInv, Schedule \/ PodEnds \/ Terminated
    PROVE  Promised \/ Stutter
<1>1. /\ UNCHANGED <<phase, podName, policy, refused, pc, name>>
      /\ State' = State /\ Running' = Running
  BY DEF Schedule, PodEnds, Terminated, ClusterFrame, fields, Locals, State, Running
<1>2. CASE Schedule \/ PodEnds
  BY <1>1, <1>2 DEF Schedule, PodEnds, Stutter, Left, Exists
<1>3. CASE Terminated
  <2>1. ~podName /\ Left' \in SUBSET Left
    BY <1>1, <1>3 DEF Terminated, KubeInv, Ordered, Left, Exists
  <2>2. CASE phase = "live"
    BY <1>1, <2>1, <2>2 DEF Promised, State
  <2>3. CASE phase # "live"
    BY <1>1, <2>3 DEF Stutter, Left
  <2>4. QED
    BY <2>2, <2>3
<1>4. QED
  BY <1>2, <1>3

\* The safety half of KeepsContract: without a lock, the sandbox is created once,
\* runs executions only while it is live, is destroyed once, whoever does it, and
\* then only gives back.
THEOREM StepsKeepContract == Spec => Contract!Init /\ [][Contract!Next]_(Contract!vars)
<1>1. Init => Contract!Init
  BY DEF Init, Contract!Init
<1>2. KubeInv /\ [Next]_vars => [Contract!Next]_(Contract!vars)
  <2>1. ASSUME KubeInv, NEW t \in Threads, Step(t) PROVE [Contract!Next]_(Contract!vars)
    BY <2>1, ThreadKeepsContract, PromisedIsContract
  <2>2. CASE KubeInv /\ (Schedule \/ PodEnds \/ Terminated)
    BY <2>2, ClusterKeepsContract, PromisedIsContract
  <2>3. CASE UNCHANGED vars
    <3>1. Stutter
      BY <2>3 DEF vars, Stutter, State, Running, Left, Exists
    <3>2. QED
      BY <3>1, PromisedIsContract
  <2>4. QED
    BY <2>1, <2>2, <2>3 DEF Next, Step
<1>3. QED
  BY <1>1, <1>2, Invariance, PTL DEF Spec

\* Without a lock, too, destroyed is for good: once the name is cleared no execution
\* passes its check any more, and what the cluster deleted does not come back.
THEOREM PodIsGoneForGood == Spec => Contract!GoneForGood
<1>1. [Contract!Next]_(Contract!vars) => [Contract!NoReturn]_(Contract!vars)
  BY DEF Contract!Next, Contract!Create, Contract!Begin, Contract!End, Contract!Destroy,
         Contract!GiveBack, Contract!Tell, Contract!NoReturn
<1>2. QED
  BY <1>1, StepsKeepContract, PTL DEF Contract!GoneForGood

\* An execution passes its check only while the sandbox has a name, and no object is
\* created in the cluster once create has returned.
THEOREM PodWorksOnlyLive == Spec => Contract!WorkOnlyLive
<1>1. [Contract!Next]_(Contract!vars) => [Contract!OnlyLive]_(Contract!vars)
  BY DEF Contract!Next, Contract!Create, Contract!Begin, Contract!End, Contract!Destroy,
         Contract!GiveBack, Contract!Tell, Contract!OnlyLive
<1>2. QED
  BY <1>1, StepsKeepContract, PTL DEF Contract!WorkOnlyLive
=============================================================================

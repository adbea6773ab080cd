---------------------------- MODULE Registry_proof ----------------------------
(* Proofs about module Registry, for any threads, backends and plugins. *)
EXTENDS Registry, TLAPS

-----------------------------------------------------------------------------
(* What a step does to the flag and to the loading threads, action by action. *)

LEMMA OnlyDiscoverStartsLoading ==
    ASSUME RegistryTypeOK, NEW t \in Threads,
           Call(t) \/ Register(t) \/ Load(t) \/ Loaded(t) \/ Lookup(t)
    PROVE  /\ discovered' = discovered
           /\ \A u \in Threads : pc'[u] = "load" => pc[u] = "load"
<1>1. CASE Call(t)
  BY <1>1 DEF RegistryTypeOK, Call, Goto
<1>2. CASE Register(t)
  BY <1>2 DEF Register
<1>3. CASE Load(t)
  BY <1>3 DEF RegistryTypeOK, Load, Abort, Finish, Goto
<1>4. CASE Loaded(t)
  BY <1>4 DEF RegistryTypeOK, Loaded, Goto
<1>5. CASE Lookup(t)
  BY <1>5 DEF RegistryTypeOK, Lookup, Finish, Goto
<1> QED BY <1>1, <1>2, <1>3, <1>4, <1>5

LEMMA TypeStep == RegistryTypeOK /\ [Next]_vars => RegistryTypeOK'
<1> SUFFICES ASSUME RegistryTypeOK, [Next]_vars PROVE RegistryTypeOK'
  OBVIOUS
<1>1. CASE UNCHANGED vars
  BY <1>1 DEF RegistryTypeOK, vars
<1>2. ASSUME NEW t \in Threads, Call(t) PROVE RegistryTypeOK'
  BY <1>2 DEF RegistryTypeOK, Call, Goto
<1>3. ASSUME NEW t \in Threads, Register(t) PROVE RegistryTypeOK'
  BY <1>3, RegistryAssumption DEF RegistryTypeOK, Register, Registered, Brought, Factory, Names
<1>4. ASSUME NEW t \in Threads, Discover(t) PROVE RegistryTypeOK'
  BY <1>4 DEF RegistryTypeOK, Discover, Goto
<1>5. ASSUME NEW t \in Threads, Load(t) PROVE RegistryTypeOK'
  <2>1. CASE \E result \in {"broken", "duplicate"} : Abort(t, result) /\ UNCHANGED discovered
    BY <2>1 DEF RegistryTypeOK, Abort, Finish, Goto
  <2>2. CASE \E n \in toLoad[t] :
               /\ Registered(n, Brought("plugin", t, FALSE))
               /\ toLoad' = [toLoad EXCEPT ![t] = @ \ {n}]
               /\ UNCHANGED <<pc, name, outcome, aborted, discovered>>
    <3>1. PICK n \in Plugins :
               /\ Registered(n, Brought("plugin", t, FALSE))
               /\ toLoad' = [toLoad EXCEPT ![t] = @ \ {n}]
               /\ UNCHANGED <<pc, name, outcome, aborted, discovered>>
      BY <2>2 DEF RegistryTypeOK
    <3> QED BY <3>1 DEF RegistryTypeOK, Registered, Brought, Factory, Names
  <2> QED BY <1>5, <2>1, <2>2 DEF Load
<1>6. ASSUME NEW t \in Threads, Loaded(t) PROVE RegistryTypeOK'
  BY <1>6 DEF RegistryTypeOK, Loaded, Goto
<1>7. ASSUME NEW t \in Threads, Lookup(t) PROVE RegistryTypeOK'
  BY <1>7 DEF RegistryTypeOK, Lookup, Finish, Goto
<1> QED BY <1>1, <1>2, <1>3, <1>4, <1>5, <1>6, <1>7 DEF Next

LEMMA LoaderStep == RegistryTypeOK /\ OneLoader /\ [Next]_vars => OneLoader'
<1> SUFFICES ASSUME RegistryTypeOK, OneLoader, [Next]_vars PROVE OneLoader'
  OBVIOUS
<1>1. CASE UNCHANGED vars
  BY <1>1 DEF OneLoader, vars
<1>2. ASSUME NEW t \in Threads,
             Call(t) \/ Register(t) \/ Load(t) \/ Loaded(t) \/ Lookup(t)
      PROVE  OneLoader'
  BY <1>2, OnlyDiscoverStartsLoading DEF OneLoader
<1>3. ASSUME NEW t \in Threads, Discover(t) PROVE OneLoader'
  \* A thread that enters the loop found the flag down, so nobody was in it.
  <2>1. CASE discovered
    BY <1>3, <2>1 DEF RegistryTypeOK, OneLoader, Discover, Goto
  <2>2. CASE ~discovered
    BY <1>3, <2>2 DEF RegistryTypeOK, OneLoader, Discover, Goto
  <2> QED BY <2>1, <2>2
<1> QED BY <1>1, <1>2, <1>3 DEF Next

LEMMA NoTakeover ==
    ASSUME RegistryTypeOK, NEW t \in Threads, NEW n \in Names,
           Call(t) \/ Register(t) \/ Discover(t) \/ Load(t) \/ Loaded(t) \/ Lookup(t),
           Taken(n), factories'[n] # factories[n]
    PROVE  LET new == factories'[n]
           IN  new.source = "own" /\ new.replace /\ outcome'[new.by] = "ok"
<1>1. CASE Call(t) \/ Discover(t) \/ Loaded(t) \/ Lookup(t)
  BY <1>1 DEF Call, Discover, Loaded, Lookup
<1>2. CASE Register(t)
  <2>1. PICK m \in Own, replace \in Replace :
          /\ Registered(m, Brought("own", t, replace))
          /\ outcome' = [outcome EXCEPT ![t] = IF Taken(m) /\ ~replace THEN "duplicate" ELSE "ok"]
    BY <1>2 DEF Register
  <2> DEFINE mine == Brought("own", t, replace)
  <2>2. mine.source = "own" /\ mine.by = t /\ mine.replace = replace
    BY DEF Brought
  <2> HIDE DEF mine
  <2>3. m = n /\ factories'[n] = (IF factories[n] = None \/ mine.replace THEN mine
                                 ELSE factories[n])
    BY <2>1 DEF Registered, RegistryTypeOK, mine
  <2>4. replace = TRUE /\ factories'[n] = mine
    BY <2>2, <2>3, RegistryAssumption DEF Taken
  <2>5. outcome'[t] = "ok"
    BY <2>1, <2>4 DEF RegistryTypeOK
  <2> QED BY <2>2, <2>4, <2>5
<1>3. CASE Load(t)
  BY <1>3 DEF Load, Abort, Registered, Taken, RegistryTypeOK
<1> QED BY <1>1, <1>2, <1>3

-----------------------------------------------------------------------------
(* What becomes of an installed plugin.  Between the flag and the end of the *)
(* loop a plugin is registered or still on the list of the thread that loads;*)
(* an entry point that raises is what ends this for good.                    *)

Discovered ==
    /\ discovered /\ ~aborted => \A n \in Plugins :
           Taken(n) \/ \E t \in Threads : pc[t] = "load" /\ n \in toLoad[t]
    /\ \A t \in Threads : pc[t] = "lookup" => discovered

DiscoverInv == RegistryTypeOK /\ OneLoader /\ Discovered

\* A name that is taken stays taken: no code unregisters a backend.
LEMMA TakenStays ==
    ASSUME RegistryTypeOK, [Next]_vars, NEW n \in Names, Taken(n)
    PROVE  Taken(n)'
<1> USE RegistryAssumption
<1>1. CASE UNCHANGED vars
  BY <1>1 DEF vars, Taken
<1>2. ASSUME NEW t \in Threads, Call(t) \/ Discover(t) \/ Loaded(t) \/ Lookup(t)
      PROVE  Taken(n)'
  BY <1>2 DEF Call, Discover, Loaded, Lookup, Taken
<1>3. ASSUME NEW t \in Threads, Register(t) PROVE Taken(n)'
  <2>1. PICK m \in Own, replace \in Replace : Registered(m, Brought("own", t, replace))
    BY <1>3 DEF Register
  <2>2. factories'[n] \in {factories[n], Brought("own", t, replace)}
    BY <2>1 DEF Registered, RegistryTypeOK
  <2>3. Brought("own", t, replace) # None
    BY DEF Brought
  <2> QED BY <2>2, <2>3 DEF Taken
<1>4. ASSUME NEW t \in Threads, Load(t) PROVE Taken(n)'
  BY <1>4 DEF Load, Abort, Registered, Brought, Taken, RegistryTypeOK
<1> QED BY <1>1, <1>2, <1>3, <1>4 DEF Next

LEMMA DiscoverStep ==
    ASSUME DiscoverInv, NEW t \in Threads, Discover(t)
    PROVE  Discovered'
<1>1. CASE discovered
  <2>1. /\ pc[t] = "discover" /\ pc' = [pc EXCEPT ![t] = "lookup"]
        /\ UNCHANGED <<toLoad, factories, name, outcome, aborted>> /\ discovered'
    BY <1>1 DEF Discover, Goto
  <2> QED BY <1>1, <2>1 DEF DiscoverInv, RegistryTypeOK, Discovered, Taken
<1>2. CASE ~discovered
  <2>1. /\ pc[t] = "discover" /\ pc' = [pc EXCEPT ![t] = "load"]
        /\ toLoad' = [toLoad EXCEPT ![t] = Plugins]
        /\ UNCHANGED <<factories, name, outcome, aborted>> /\ discovered'
    BY <1>2 DEF Discover, Goto
  <2> QED BY <1>2, <2>1 DEF DiscoverInv, RegistryTypeOK, Discovered, Taken
<1> QED BY <1>1, <1>2

LEMMA LoadStep ==
    ASSUME DiscoverInv, NEW t \in Threads, Load(t)
    PROVE  Discovered'
<1> USE RegistryAssumption
<1>1. PICK n \in toLoad[t] :
        /\ pc[t] = "load" /\ UNCHANGED discovered
        /\ \/ \E result \in {"broken", "duplicate"} : Abort(t, result)
           \/ /\ ~Taken(n) /\ Registered(n, Brought("plugin", t, FALSE))
              /\ toLoad' = [toLoad EXCEPT ![t] = @ \ {n}]
              /\ UNCHANGED <<pc, name, outcome, aborted>>
  BY DEF Load
<1>2. CASE \E result \in {"broken", "duplicate"} : Abort(t, result)
  BY <1>1, <1>2 DEF DiscoverInv, RegistryTypeOK, Discovered, Abort, Finish, Goto
<1>3. CASE /\ ~Taken(n) /\ Registered(n, Brought("plugin", t, FALSE))
           /\ toLoad' = [toLoad EXCEPT ![t] = @ \ {n}]
           /\ UNCHANGED <<pc, name, outcome, aborted>>
  <2>1. n \in Plugins /\ n \in Names
    BY DEF DiscoverInv, RegistryTypeOK, Names
  <2>2. Taken(n)' /\ \A m \in Plugins : Taken(m) => Taken(m)'
    <3>1. Brought("plugin", t, FALSE) \in Factory
      BY DEF Brought, Factory
    <3>2. Brought("plugin", t, FALSE) # None
      BY <3>1 DEF Factory
    <3> QED BY <1>3, <2>1, <3>2 DEF DiscoverInv, RegistryTypeOK, Registered, Taken, Names
  <2>3. \A u \in Threads : \A m \in toLoad[u] : m \in toLoad'[u] \/ m = n
    BY <1>3 DEF DiscoverInv, RegistryTypeOK
  <2> QED BY <1>1, <1>3, <2>2, <2>3 DEF DiscoverInv, Discovered
<1> QED BY <1>1, <1>2, <1>3

\* The loop ends when its list is empty, and there is no other loop.
LEMMA LoadedStep ==
    ASSUME DiscoverInv, NEW t \in Threads, Loaded(t)
    PROVE  Discovered'
<1>1. /\ toLoad[t] = {} /\ pc[t] = "load" /\ pc' = [pc EXCEPT ![t] = "lookup"]
      /\ UNCHANGED <<factories, discovered, name, toLoad, outcome, aborted>>
  BY DEF Loaded, Goto
<1>2. discovered
  BY <1>1 DEF DiscoverInv, OneLoader
<1> QED BY <1>1, <1>2 DEF DiscoverInv, RegistryTypeOK, Discovered, Taken

\* The other steps leave the threads in the loop and their lists alone.
LEMMA OtherStep ==
    ASSUME DiscoverInv, NEW t \in Threads, Call(t) \/ Register(t) \/ Lookup(t)
    PROVE  Discovered'
<1>1. /\ UNCHANGED <<discovered, toLoad, aborted>>
      /\ \A u \in Threads : (pc[u] = "load" <=> pc'[u] = "load")
                            /\ (pc'[u] = "lookup" => pc[u] = "lookup")
  BY DEF DiscoverInv, RegistryTypeOK, Call, Register, Lookup, Finish, Goto
<1>2. \A n \in Plugins : Taken(n) => Taken(n)'
  BY TakenStays DEF DiscoverInv, Next, Names
<1> QED BY <1>1, <1>2 DEF DiscoverInv, Discovered

LEMMA DiscoveredStep == DiscoverInv /\ [Next]_vars => Discovered'
<1> SUFFICES ASSUME DiscoverInv, [Next]_vars PROVE Discovered'
  OBVIOUS
<1>1. CASE UNCHANGED vars
  BY <1>1 DEF DiscoverInv, Discovered, Taken, vars
<1>2. CASE Next
  BY <1>2, DiscoverStep, LoadStep, LoadedStep, OtherStep DEF Next
<1> QED BY <1>1, <1>2

\* An installed name that lookup does not find is on the list of a thread that is
\* still loading, unless an entry point raised.
LEMMA UnknownStep ==
    ASSUME DiscoverInv, [Next]_vars, NEW t \in Threads,
           pc[t] = "lookup", pc'[t] = "idle", name[t] \in Plugins, outcome'[t] = "unknown"
    PROVE  aborted \/ \E u \in Threads \ {t} : pc[u] = "load"
<1>1. PICK u \in Threads : \/ Call(u) \/ Register(u) \/ Discover(u) \/ Load(u)
                           \/ Loaded(u) \/ Lookup(u)
  BY DEF Next, vars
<1>2. CASE Lookup(u)
  <2>1. u = t
    BY <1>2 DEF DiscoverInv, RegistryTypeOK, Lookup, Finish, Goto
  <2>2. ~Taken(name[t])
    BY <1>2, <2>1 DEF DiscoverInv, RegistryTypeOK, Lookup, Finish, Goto
  <2> QED BY <2>2 DEF DiscoverInv, Discovered
<1>3. CASE Call(u) \/ Register(u) \/ Discover(u) \/ Load(u) \/ Loaded(u)
  \* None of them takes a thread from lookup to idle.
  BY <1>3 DEF DiscoverInv, RegistryTypeOK, Call, Register, Discover, Load, Abort, Loaded,
              Finish, Goto
<1> QED BY <1>1, <1>2, <1>3

-----------------------------------------------------------------------------
\* Every reachable state of the registry is well-typed.
THEOREM RegistryTypeCorrect == Spec => []RegistryTypeOK
<1>1. Init => RegistryTypeOK
  <2>1. Brought("builtin", None, FALSE) \in Factory
    BY DEF Brought, Factory
  <2> QED BY <2>1 DEF Init, RegistryTypeOK, Names
<1> QED BY <1>1, TypeStep, PTL DEF Spec

\* discover() is run by one thread, once: for any number of threads the loop over
\* the entry points never has two of them in it.
THEOREM LoadedByOne == Spec => []OneLoader
<1>1. Init => OneLoader
  BY DEF Init, OneLoader
<1> QED BY <1>1, LoaderStep, RegistryTypeCorrect, PTL DEF Spec

\* A factory gives way only to one that a program brought with `replace`, in a call
\* that returned; in particular no plugin takes over a name that is registered.
THEOREM NamesAreKept == Spec => FirstWins
<1>1. RegistryTypeOK /\ [Next]_vars =>
        [\A n \in Names : Taken(n) /\ factories'[n] # factories[n] =>
           LET new == factories'[n]
           IN  new.source = "own" /\ new.replace /\ outcome'[new.by] = "ok"]_vars
  BY NoTakeover DEF Next
<1> QED BY <1>1, RegistryTypeCorrect, PTL DEF Spec, FirstWins

LEMMA DiscoverInvHolds == Spec => []DiscoverInv
<1>1. Init => Discovered
  BY DEF Init, Discovered
<1>2. DiscoverInv <=> RegistryTypeOK /\ OneLoader /\ Discovered
  BY DEF DiscoverInv
<1>3. DiscoverInv' <=> RegistryTypeOK' /\ OneLoader' /\ Discovered'
  BY DEF DiscoverInv
<1> QED
  BY <1>1, <1>2, <1>3, DiscoveredStep, RegistryTypeCorrect, LoadedByOne, PTL DEF Spec

\* Once the loop is over every installed plugin has its name, unless one of them made
\* it raise, however the constructors of other threads interleave with it.
THEOREM DiscoveryLosesNone == Spec => []DiscoveryComplete
<1>1. DiscoverInv => DiscoveryComplete
  BY DEF DiscoverInv, Discovered, DiscoveryComplete
<1> QED BY <1>1, DiscoverInvHolds, PTL

\* The only way to be told that an installed backend is unknown is to ask while
\* another thread loads, or after an entry point raised.
THEOREM UnknownExplained == Spec => UnknownOnlyWhileLoading
<1>1. DiscoverInv /\ [Next]_vars =>
        [\A t \in Threads :
           pc[t] = "lookup" /\ pc'[t] = "idle" /\ name[t] \in Plugins /\ outcome'[t] = "unknown"
               => aborted \/ \E u \in Threads \ {t} : pc[u] = "load"]_vars
  BY UnknownStep
<1> QED BY <1>1, DiscoverInvHolds, PTL DEF Spec, UnknownOnlyWhileLoading

=============================================================================

------------------------------- MODULE Registry -------------------------------
(***************************************************************************)
(* agentnest/registry.py: the backend registry every Sandbox constructor   *)
(* asks for its backend.  The first caller loads the installed entry       *)
(* points, outside the lock; `_discovered` says that somebody has begun    *)
(* to.  Backends are also registered by programs.                          *)
(***************************************************************************)
EXTENDS FiniteSets

CONSTANTS
    Threads,
    Builtins,       \* names registered when the module is imported
    Plugins,        \* names of the installed entry points
    Broken,         \* entry points whose load may raise
    Own,            \* names programs register a backend of their own under
    Replace,        \* the values of `replace` they pass
    None            \* no factory, or no thread

ASSUME RegistryAssumption ==
    /\ Broken \subseteq Plugins /\ Replace \subseteq BOOLEAN
    /\ None \notin [source : {"builtin", "plugin", "own"}, by : Threads \cup {None},
                   replace : BOOLEAN]

VARIABLES
    factories,   \* _factories: for each name its factory, or None
    discovered,  \* _discovered
    pc,          \* where each thread is in create or register
    name,        \* the name it asks for
    toLoad,      \* entry points its loop in discover has still to load
    outcome,     \* how its last call ended
    aborted      \* history: an entry point made discover raise

vars == <<factories, discovered, pc, name, toLoad, outcome, aborted>>

Names   == Builtins \cup Plugins \cup Own

\* A factory is known by the call of register that brought it.
Factory == [source : {"builtin", "plugin", "own"}, by : Threads \cup {None},
            replace : BOOLEAN]
Brought(source, by, replace) == [source |-> source, by |-> by, replace |-> replace]

RegistryTypeOK ==
    /\ factories \in [Names -> Factory \cup {None}]
    /\ discovered \in BOOLEAN
    /\ pc \in [Threads -> {"idle", "discover", "load", "lookup"}]
    /\ name \in [Threads -> Names \cup {None}]
    /\ toLoad \in [Threads -> SUBSET Plugins]
    /\ outcome \in [Threads -> {"none", "ok", "unknown", "duplicate", "broken"}]
    /\ aborted \in BOOLEAN

Init ==
    /\ factories = [n \in Names |-> IF n \in Builtins THEN Brought("builtin", None, FALSE)
                                               ELSE None]
    /\ discovered = FALSE
    /\ pc = [t \in Threads |-> "idle"]
    /\ name = [t \in Threads |-> None]
    /\ toLoad = [t \in Threads |-> {}]
    /\ outcome = [t \in Threads |-> "none"]
    /\ aborted = FALSE

-----------------------------------------------------------------------------
Goto(t, from, to) == pc[t] = from /\ pc' = [pc EXCEPT ![t] = to]

Finish(t, from, result) ==
    /\ Goto(t, from, "idle")
    /\ name' = [name EXCEPT ![t] = None]
    /\ outcome' = [outcome EXCEPT ![t] = result]

\* Mutant: a taken name is not looked for.
RegisteredUnchecked(n, factory) ==
    factories' = [factories EXCEPT ![n] = factory]

\* The locked part of register: a taken name raises unless `replace` was asked.
Registered(n, factory) ==
    factories' = [factories EXCEPT ![n] = IF @ = None \/ factory.replace THEN factory ELSE @]

Taken(n) == factories[n] # None

\* create is called: a Sandbox is being constructed.
Call(t) == \E n \in Names :
    /\ Goto(t, "idle", "discover")
    /\ name' = [name EXCEPT ![t] = n]
    /\ outcome' = [outcome EXCEPT ![t] = "none"]
    /\ UNCHANGED <<factories, discovered, toLoad, aborted>>

\* register, called by a program.
Register(t) == \E n \in Own, replace \in Replace :
    /\ pc[t] = "idle"
    /\ Registered(n, Brought("own", t, replace))
    /\ outcome' = [outcome EXCEPT ![t] = IF Taken(n) /\ ~replace THEN "duplicate" ELSE "ok"]
    /\ UNCHANGED <<discovered, pc, name, toLoad, aborted>>

\* Mutant: the flag is not set in the critical section that tests it.
DiscoverUnlocked(t) ==
    /\ IF discovered
       THEN Goto(t, "discover", "lookup") /\ UNCHANGED toLoad
       ELSE Goto(t, "discover", "load") /\ toLoad' = [toLoad EXCEPT ![t] = Plugins]
    /\ discovered' = discovered
    /\ UNCHANGED <<factories, name, outcome, aborted>>

\* Mutant: only the entry point of the name asked for is loaded.
DiscoverAsked(t) ==
    /\ IF discovered
       THEN Goto(t, "discover", "lookup") /\ UNCHANGED toLoad
       ELSE Goto(t, "discover", "load") /\ toLoad' = [toLoad EXCEPT ![t] = {name[t]}]
    /\ discovered' = TRUE
    /\ UNCHANGED <<factories, name, outcome, aborted>>

\* The locked head of discover.
Discover(t) ==
    /\ IF discovered
       THEN Goto(t, "discover", "lookup") /\ UNCHANGED toLoad
       ELSE Goto(t, "discover", "load") /\ toLoad' = [toLoad EXCEPT ![t] = Plugins]
    /\ discovered' = TRUE
    /\ UNCHANGED <<factories, name, outcome, aborted>>

\* What loading or registering an entry point raises leaves through create; the
\* entry points behind it are not loaded, then or later.
Abort(t, result) ==
    /\ Finish(t, "load", result)
    /\ toLoad' = [toLoad EXCEPT ![t] = {}]
    /\ aborted' = TRUE
    /\ UNCHANGED factories

\* One turn of its loop: load, then register.
Load(t) == \E n \in toLoad[t] :
    /\ pc[t] = "load"
    /\ \/ n \in Broken /\ Abort(t, "broken")
       \/ Taken(n) /\ Abort(t, "duplicate")
       \/ /\ ~Taken(n)
          /\ Registered(n, Brought("plugin", t, FALSE))
          /\ toLoad' = [toLoad EXCEPT ![t] = @ \ {n}]
          /\ UNCHANGED <<pc, name, outcome, aborted>>
    /\ UNCHANGED discovered

\* Mutant: the loop ends one entry point early.
LoadedOneEarly(t) ==
    /\ toLoad[t] = {} \/ Cardinality(toLoad[t]) = 1
    /\ Goto(t, "load", "lookup")
    /\ toLoad' = [toLoad EXCEPT ![t] = {}]
    /\ UNCHANGED <<factories, discovered, name, outcome, aborted>>

Loaded(t) ==
    /\ toLoad[t] = {}
    /\ Goto(t, "load", "lookup")
    /\ UNCHANGED <<factories, discovered, name, toLoad, outcome, aborted>>

\* The rest of create: the factory is looked up under the lock and called after.
Lookup(t) ==
    /\ Finish(t, "lookup", IF Taken(name[t]) THEN "ok" ELSE "unknown")
    /\ UNCHANGED <<factories, discovered, toLoad, aborted>>

-----------------------------------------------------------------------------
Next == \E t \in Threads : \/ Call(t) \/ Register(t) \/ Discover(t) \/ Load(t)
                           \/ Loaded(t) \/ Lookup(t)

Spec == Init /\ [][Next]_vars

-----------------------------------------------------------------------------
(* Properties.                                                             *)

\* A backend name means the same factory for the life of the process, whenever
\* discovery happens to run and whoever registers what: a factory gives way only to
\* one that a program brought with `replace`, in a call that returned.
FirstWins ==
    [][\A n \in Names : Taken(n) /\ factories'[n] # factories[n] =>
           LET new == factories'[n]
           IN  new.source = "own" /\ new.replace /\ outcome'[new.by] = "ok"]_vars

\* The entry points are loaded by one thread at a time, and never before the flag
\* that keeps the others out is up.
OneLoader ==
    /\ \A t, u \in Threads : pc[t] = "load" /\ pc[u] = "load" => t = u
    /\ \A t \in Threads : pc[t] = "load" => discovered

\* Once discovery is over every installed plugin has its name, unless one of
\* them made discovery raise.
DiscoveryComplete ==
    discovered /\ ~aborted /\ (\A t \in Threads : pc[t] # "load")
        => \A n \in Plugins : Taken(n)

\* An installed backend is called unknown only while another thread is loading the
\* entry points, or after one of them made discovery raise.
UnknownOnlyWhileLoading ==
    [][\A t \in Threads :
           pc[t] = "lookup" /\ pc'[t] = "idle" /\ name[t] \in Plugins /\ outcome'[t] = "unknown"
               => aborted \/ \E u \in Threads \ {t} : pc[u] = "load"]_vars

=============================================================================

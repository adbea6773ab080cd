----------------------------- MODULE RemoteWorker -----------------------------
(***************************************************************************)
(* agentnest/runtime/remote.py over agentnest/server.py: RemoteRuntime     *)
(* objects, each naming one sandbox of a worker by its id, the requests    *)
(* they send and the worker's table of sandboxes.  A request and its       *)
(* answer may be lost or late.  Of the destruction of one Sandbox on the   *)
(* worker this module has the two halves that a request, a timer or the    *)
(* end of the process can come between; module Sandbox takes it apart.     *)
(***************************************************************************)
EXTENDS FiniteSets

CONSTANTS
    Objects,   \* RemoteRuntime objects
    Users,     \* threads that share an object (its caller, its lifetime timer)
    Ids,       \* sandbox ids the worker may issue
    Hazards,   \* "lost" requests and answers, "refused" backend destroys,
               \* worker "shutdown" and "crash"
    None       \* no id

ASSUME RemoteAssumption ==
    /\ None \notin Ids
    /\ Hazards \subseteq {"lost", "refused", "shutdown", "crash"}

VARIABLES
    sid,        \* _sandbox_id of each object
    held,       \* history: the id an object was once given
    made,       \* objects whose create was called
    pc,         \* where each thread is in remote.py
    local,      \* destroy's local variable sandbox_id
    returned,   \* history: objects one of whose destroy calls returned normally
    suppressed, \* history: those one of whose DELETEs got no answer
    requests,   \* requests under way, and answers
    server,     \* "up", "closing" (in cleanup) or "down"
    table,      \* `sandboxes`, the ids the worker knows
    closing,    \* cleanup's tuple `active`, what is left of it
    status      \* of each id's Sandbox: see below

clientVars == <<sid, held, made, pc, local, returned, suppressed>>
serverVars == <<server, table, closing, status>>
vars == <<clientVars, requests, serverVars>>

\* "live"; "ending", "expiring": flagged destroyed, by a DELETE or by its timer, and
\* not removed yet; "gone": removed; "kept": its backend's destroy raised; running
\* although its process has ended: "orphan" after a crash, "left" after an orderly
\* shutdown, "cut" after either in the middle of what its timer was doing.
Status  == {"unborn", "live", "ending", "expiring", "gone", "kept",
            "orphan", "left", "cut"}
Threads == Objects \X Users
Serving == {"serving", "built", "destroying", "popping"}
Request == [by : Threads, op : {"create", "exec", "delete"}, id : Ids \cup {None},
            at : Serving \cup {"sent", "ok", "error", "cut"}, heard : BOOLEAN]

RemoteTypeOK ==
    /\ sid \in [Objects -> Ids \cup {None}]
    /\ held \in [Objects -> Ids \cup {None}]
    /\ made \subseteq Objects
    /\ pc \in [Threads -> {"idle", "clearing", "waiting"}]
    /\ local \in [Threads -> Ids \cup {None}]
    /\ returned \subseteq Objects /\ suppressed \subseteq returned
    /\ requests \subseteq Request
    /\ server \in {"up", "closing", "down"}
    /\ table \subseteq Ids /\ closing \subseteq Ids
    /\ status \in [Ids -> Status]

Init ==
    /\ sid = [o \in Objects |-> None]
    /\ held = [o \in Objects |-> None]
    /\ made = {}
    /\ pc = [t \in Threads |-> "idle"]
    /\ local = [t \in Threads |-> None]
    /\ returned = {} /\ suppressed = {}
    /\ requests = {}
    /\ server = "up"
    /\ table = {} /\ closing = {}
    /\ status = [i \in Ids |-> "unborn"]

-----------------------------------------------------------------------------
(* The client, remote.py.                                                  *)

Goto(t, from, to) == pc[t] = from /\ pc' = [pc EXCEPT ![t] = to]

\* The first half of _request.
Send(t, op, i) == requests' = requests \cup
    {[by |-> t, op |-> op, id |-> i, at |-> "sent", heard |-> TRUE]}

Create(t) ==
    /\ t[1] \notin made
    /\ made' = made \cup {t[1]}
    /\ Goto(t, "idle", "waiting")
    /\ Send(t, "create", None)
    /\ UNCHANGED <<sid, held, local, returned, suppressed, serverVars>>

\* exec, and likewise the file, log and snapshot calls; without an id _id raises.
Exec(t) ==
    /\ sid[t[1]] # None
    /\ Goto(t, "idle", "waiting")
    /\ Send(t, "exec", sid[t[1]])
    /\ UNCHANGED <<sid, held, made, local, returned, suppressed, serverVars>>

\* destroy reads the id and clears it without a lock.  It is called only once
\* create has returned.
ReadId(t) ==
    /\ held[t[1]] # None
    /\ IF sid[t[1]] = None
       THEN /\ pc[t] = "idle"
            /\ returned' = returned \cup {t[1]}
            /\ UNCHANGED <<pc, local>>
       ELSE /\ Goto(t, "idle", "clearing")
            /\ local' = [local EXCEPT ![t] = sid[t[1]]]
            /\ UNCHANGED returned
    /\ UNCHANGED <<sid, held, made, suppressed, requests, serverVars>>

ClearId(t) ==
    /\ Goto(t, "clearing", "waiting")
    /\ sid' = [sid EXCEPT ![t[1]] = None]
    /\ Send(t, "delete", local[t])
    /\ local' = [local EXCEPT ![t] = None]
    /\ UNCHANGED <<held, made, returned, suppressed, serverVars>>

\* An answer reaches the thread that waits for it.  An HTTP error is raised as
\* ExecutionError, out of destroy as well.
Hear(t) == \E r \in requests :
    /\ r.by = t /\ r.heard /\ r.at \in {"ok", "error"}
    /\ Goto(t, "waiting", "idle")
    /\ requests' = requests \ {r}
    /\ IF r.op = "create" /\ r.at = "ok"
       THEN /\ sid' = [sid EXCEPT ![t[1]] = r.id]
            /\ held' = [held EXCEPT ![t[1]] = r.id]
       ELSE UNCHANGED <<sid, held>>
    /\ returned' = IF r.op = "delete" /\ r.at = "ok" THEN returned \cup {t[1]} ELSE returned
    /\ UNCHANGED <<made, local, suppressed, serverVars>>

\* request_timeout, a refused or a broken connection: RuntimeNotAvailableError,
\* which destroy suppresses.  The worker may still get, or be serving, the request.
GiveUp(t) == \E r \in requests :
    /\ r.by = t /\ r.heard
    /\ "lost" \in Hazards \/ server # "up" \/ r.at = "cut"
    /\ Goto(t, "waiting", "idle")
    /\ requests' = (requests \ {r}) \cup {[r EXCEPT !.heard = FALSE]}
    /\ LET given == IF r.op = "delete" THEN {t[1]} ELSE {}
       IN  returned' = returned \cup given /\ suppressed' = suppressed \cup given
    /\ UNCHANGED <<sid, held, made, local, serverVars>>

\* A request that never arrives, or an answer nobody waits for.
Drop == \E r \in requests :
    /\ ~r.heard /\ r.at \notin Serving
    /\ requests' = requests \ {r}
    /\ UNCHANGED <<clientVars, serverVars>>

-----------------------------------------------------------------------------
(* The handlers of the worker, server.py, each on a thread of its own.     *)

Move(r, at) == requests' = (requests \ {r}) \cup {[r EXCEPT !.at = at]}

\* Sandbox(**payload), outside the lock.
Build(r) ==
    /\ server = "up" /\ r.op = "create" /\ r.at = "sent"
    /\ \/ \E i \in Ids :
             /\ status[i] = "unborn"
             /\ status' = [status EXCEPT ![i] = "live"]
             /\ requests' = (requests \ {r}) \cup {[r EXCEPT !.id = i, !.at = "built"]}
       \/ Move(r, "error") /\ UNCHANGED status
    /\ UNCHANGED <<clientVars, server, table, closing>>

\* Mutant: the id is not entered in the table.
RegisterForgotten(r) ==
    /\ r.op = "create" /\ r.at = "built"
    /\ Move(r, "ok")
    /\ UNCHANGED <<clientVars, server, table, closing, status>>

Register(r) ==
    /\ r.op = "create" /\ r.at = "built"
    /\ table' = table \cup {r.id}
    /\ Move(r, "ok")
    /\ UNCHANGED <<clientVars, server, closing, status>>

\* Mutant: a sandbox about to be deleted is taken off the table first.
LookupPopping(r) ==
    /\ server = "up" /\ r.op # "create" /\ r.at = "sent"
    /\ Move(r, IF r.id \in table THEN "serving" ELSE "error")
    /\ table' = IF r.op = "delete" THEN table \ {r.id} ELSE table
    /\ UNCHANGED <<clientVars, server, closing, status>>

\* get_sandbox, under the lock; the handler goes on after the lock is released.
Lookup(r) ==
    /\ server = "up" /\ r.op # "create" /\ r.at = "sent"
    /\ Move(r, IF r.id \in table THEN "serving" ELSE "error")
    /\ UNCHANGED <<clientVars, serverVars>>

\* sandbox.exec: a destroyed sandbox raises, which is answered with an error.
Execute(r) ==
    /\ r.op = "exec" /\ r.at = "serving"
    /\ \/ status[r.id] = "live" /\ Move(r, "ok")
       \/ Move(r, "error")
    /\ UNCHANGED <<clientVars, serverVars>>

\* The backend's destroy, which may be refused.
Removal == {"gone"} \cup (IF "refused" \in Hazards THEN {"kept"} ELSE {})

\* Mutant: the handler forgets to destroy what it takes off the table.
DeleteWithoutDestroy(r) ==
    /\ r.op = "delete" /\ r.at = "serving"
    /\ Move(r, "popping")
    /\ UNCHANGED <<clientVars, server, table, closing, status>>

\* Sandbox.destroy: whoever sets the flag goes on to the backend, and everybody
\* else returns at once, also while the sandbox is still there.
Delete(r) ==
    /\ r.op = "delete" /\ r.at = "serving"
    /\ IF status[r.id] = "live"
       THEN Move(r, "destroying") /\ status' = [status EXCEPT ![r.id] = "ending"]
       ELSE Move(r, "popping") /\ UNCHANGED status
    /\ UNCHANGED <<clientVars, server, table, closing>>

Remove(r) ==
    /\ r.op = "delete" /\ r.at = "destroying"
    /\ \E fate \in Removal :
          /\ status' = [status EXCEPT ![r.id] = fate]
          /\ Move(r, IF fate = "kept" THEN "error" ELSE "popping")
    /\ UNCHANGED <<clientVars, server, table, closing>>

Pop(r) ==
    /\ r.op = "delete" /\ r.at = "popping"
    /\ table' = table \ {r.id}
    /\ Move(r, "ok")
    /\ UNCHANGED <<clientVars, server, closing, status>>

Handler(r) == \/ Build(r) \/ Register(r) \/ Lookup(r) \/ Execute(r)
              \/ Delete(r) \/ Remove(r) \/ Pop(r)

-----------------------------------------------------------------------------
(* The worker's own life.                                                  *)

\* The timer of a sandbox, wherever the sandbox is: its daemon thread sets the flag
\* and then removes the sandbox, if the process lives that long.
Lifetime(i) ==
    /\ server # "down" /\ status[i] = "live"
    /\ status' = [status EXCEPT ![i] = "expiring"]
    /\ UNCHANGED <<clientVars, requests, server, table, closing>>

Expire(i) ==
    /\ server # "down" /\ status[i] = "expiring"
    /\ \E fate \in Removal : status' = [status EXCEPT ![i] = fate]
    /\ UNCHANGED <<clientVars, requests, server, table, closing>>

\* Mutant: the table is emptied before its values are taken.
ShutdownClearingFirst ==
    /\ "shutdown" \in Hazards /\ server = "up"
    /\ \A r \in requests : r.at \notin Serving
    /\ server' = "closing"
    /\ closing' = {} /\ table' = {}
    /\ UNCHANGED <<clientVars, requests, status>>

\* cleanup, under the lock; the ASGI server waits for its handlers before.
Shutdown ==
    /\ "shutdown" \in Hazards /\ server = "up"
    /\ \A r \in requests : r.at \notin Serving
    /\ server' = "closing"
    /\ closing' = table /\ table' = {}
    /\ UNCHANGED <<clientVars, requests, status>>

\* The process ends and with it the handlers and the timers.
Abandoned(as) ==
    [i \in Ids |-> IF status[i] \in {"live", "ending"} THEN as
                  ELSE IF status[i] = "expiring" THEN "cut" ELSE status[i]]

\* What cleanup's destroy makes of a sandbox: nothing, if the flag is set already.
Fate(i) == IF status[i] = "live" THEN Removal ELSE {status[i]}

\* The loop of cleanup; a destroy that raises ends it.
CloseNext ==
    /\ server = "closing"
    /\ IF closing = {}
       THEN server' = "down" /\ status' = Abandoned("left") /\ UNCHANGED closing
       ELSE \E i \in closing : \E fate \in Fate(i) :
               /\ status' = [status EXCEPT ![i] = fate]
               /\ closing' = IF status[i] = "live" /\ fate = "kept" THEN {}
                             ELSE closing \ {i}
               /\ UNCHANGED server
    /\ UNCHANGED <<clientVars, requests, table>>

Crash ==
    /\ "crash" \in Hazards /\ server # "down"
    /\ server' = "down"
    /\ table' = {} /\ closing' = {}
    /\ status' = Abandoned("orphan")
    /\ requests' = {[r EXCEPT !.at = IF @ \in Serving THEN "cut" ELSE @] : r \in requests}
    /\ UNCHANGED clientVars

\* create_app starts from an empty table.
Restart ==
    /\ server = "down"
    /\ server' = "up"
    /\ UNCHANGED <<clientVars, requests, table, closing, status>>

-----------------------------------------------------------------------------
(* Specification.                                                          *)

Next ==
    \/ \E t \in Threads : \/ Create(t) \/ Exec(t) \/ ReadId(t) \/ ClearId(t)
                          \/ Hear(t) \/ GiveUp(t)
    \/ \E r \in requests : Handler(r)
    \/ \E i \in Ids : Lifetime(i) \/ Expire(i)
    \/ Drop \/ Shutdown \/ CloseNext \/ Crash \/ Restart

Spec == Init /\ [][Next]_vars

-----------------------------------------------------------------------------
(* Properties.                                                             *)

\* The worker loses track of no sandbox: while it is up, a sandbox whose lifetime
\* it still has to enforce is on its table or about to be entered, whatever
\* requests were lost, repeated or late; and a client never gets "not found" for a
\* sandbox it may use, since the id it was given is on that table.
Accounted ==
    /\ RemoteTypeOK
    /\ server = "up" => \A i \in Ids : status[i] = "live" =>
           i \in table \/ \E r \in requests : r.id = i /\ r.at = "built"
    /\ server = "up" => \A o \in Objects :
           sid[o] # None /\ status[sid[o]] = "live" => sid[o] \in table

\* An orderly shutdown leaves no sandbox running, begun or not, unless a backend
\* refused to destroy one, after which cleanup stops.  One kind of sandbox it does
\* leave, which status calls "cut": cleanup passes over a sandbox whose timer has set
\* the flag, and the timer's thread dies with the process before it removes it.
ShutdownDestroysAll ==
    \A i \in Ids : status[i] = "left" => \E j \in Ids : status[j] = "kept"

Deleting(i) == \/ i \in closing
               \/ \E t \in Threads : local[t] = i
               \/ \E r \in requests : r.op = "delete" /\ r.id = i /\ r.at \in Serving \cup {"sent"}

\* Once a destroy call has returned and none is under way, the sandbox the object
\* stood for does not live on at the worker: it is gone, or its timer is about to
\* remove it.  Only a DELETE that got no answer, a refusal or the end of the worker
\* can make that untrue, whatever requests of the object are still under way.
DestroyGoneIfAnswered ==
    \A o \in returned \ suppressed :
        ~Deleting(held[o]) => status[held[o]] \notin {"live", "ending"}

=============================================================================

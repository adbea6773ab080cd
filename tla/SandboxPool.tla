----------------------------- MODULE SandboxPool -----------------------------
(***************************************************************************)
(* agentnest/pool.py: a pool of Size warm sandboxes in a bounded queue,    *)
(* borrowed by threads and closed by its owner.  The lock protects only    *)
(* the flag `closed`, so everything after its critical sections may        *)
(* interleave with close.                                                  *)
(***************************************************************************)
EXTENDS Naturals, Sequences, FiniteSets

CONSTANTS
    Threads,     \* borrowers
    Sandboxes,   \* identities; one is used again once its sandbox is gone
    Size,        \* capacity of the pool
    MaxUses,     \* uses after which a sandbox is replaced
    Hazards,     \* what may happen: "factory" and "destroy" calls that raise,
                 \* "backstop" and "lifetime" deaths, "close", acquire "timeout"
    None         \* no sandbox

ASSUME PoolAssumption ==
    /\ Size \in Nat \ {0} /\ MaxUses \in Nat \ {0}
    /\ None \notin Sandboxes
    /\ Hazards \subseteq {"factory", "destroy", "backstop", "lifetime", "close", "timeout"}

VARIABLES
    items,     \* the queue: a sequence of [sb |-> sandbox, uses |-> number]
    closed,    \* _closed
    owner,     \* the owner: "filling", "open", "draining", "done" or "raised"
    status,    \* "live"; "dead": its backend is destroyed but it does not know;
               \* "gone": destroyed, as its `destroyed` flag says
    pc,        \* where each borrower is in acquire
    cur,       \* the sandbox and use count in a borrower's local variables
    sawClosed, \* the local variable `closed` of the finally block
    lost       \* history: replacements that an exception ended half-way

vars == <<items, closed, owner, status, pc, cur, sawClosed, lost>>

Idle   == [sb |-> None, uses |-> 0]
Item   == [sb : Sandboxes, uses : 0 .. MaxUses]
Points == {"idle", "getting", "using", "deciding", "replacing", "putting"}

PoolTypeOK ==
    /\ items \in Seq(Item)
    /\ closed \in BOOLEAN
    /\ owner \in {"filling", "open", "draining", "done", "raised"}
    /\ status \in [Sandboxes -> {"live", "dead", "gone"}]
    /\ pc \in [Threads -> Points]
    /\ cur \in [Threads -> Item \cup {Idle}]
    /\ sawClosed \in [Threads -> BOOLEAN]
    /\ lost \in 0 .. Size

Init ==
    /\ items = <<>>
    /\ closed = FALSE
    /\ owner = "filling"
    /\ status = [s \in Sandboxes |-> "gone"]
    /\ pc = [t \in Threads |-> "idle"]
    /\ cur = [t \in Threads |-> Idle]
    /\ sawClosed = [t \in Threads |-> FALSE]
    /\ lost = 0

Queued   == {items[i].sb : i \in 1 .. Len(items)}
Borrowed == {cur[t].sb : t \in Threads} \ {None}

Goto(t, from, to) == pc[t] = from /\ pc' = [pc EXCEPT ![t] = to]

\* The factory returns a sandbox nobody knows yet.
Fresh(s) == status[s] = "gone" /\ s \notin Queued \cup Borrowed

Destroy(s) == status' = [status EXCEPT ![s] = "gone"]

-----------------------------------------------------------------------------
(* The owner: __init__ and close.                                          *)

Fill ==
    /\ owner = "filling"
    /\ IF Len(items) = Size
       THEN owner' = "open" /\ UNCHANGED <<items, status, lost>>
       ELSE \/ \E s \in Sandboxes :
                  /\ Fresh(s)
                  /\ status' = [status EXCEPT ![s] = "live"]
                  /\ items' = Append(items, [sb |-> s, uses |-> 0])
                  /\ UNCHANGED owner
            \* the factory raises: no pool, and the sandboxes made are dropped
            \/ "factory" \in Hazards /\ owner' = "raised" /\ UNCHANGED <<items, status, lost>>
    /\ UNCHANGED <<closed, pc, cur, sawClosed, lost>>

\* The locked part of close; a second call returns at once.
Close ==
    /\ "close" \in Hazards
    /\ owner = "open"
    /\ closed' = TRUE
    /\ owner' = "draining"
    /\ UNCHANGED <<items, status, pc, cur, sawClosed, lost>>

\* get_nowait and destroy, until the queue is empty.
Drain ==
    /\ owner = "draining"
    /\ IF items = <<>>
       THEN owner' = "done" /\ UNCHANGED <<items, status, lost>>
       ELSE /\ items' = Tail(items)
            /\ Destroy(Head(items).sb)
            /\ owner' = "draining" \/ ("destroy" \in Hazards /\ owner' = "done")
    /\ UNCHANGED <<closed, pc, cur, sawClosed, lost>>

-----------------------------------------------------------------------------
(* A borrower: acquire, the body of its with block, and the finally block. *)

Acquire(t) ==
    /\ owner \notin {"filling", "raised"} /\ ~closed
    /\ Goto(t, "idle", "getting")
    /\ UNCHANGED <<items, closed, owner, status, cur, sawClosed, lost>>

\* Mutant: the head is read but stays in the queue.
GetWithoutRemoving(t) ==
    /\ items # <<>>
    /\ Goto(t, "getting", "using")
    /\ cur' = [cur EXCEPT ![t] = Head(items)]
    /\ UNCHANGED <<items, closed, owner, status, sawClosed, lost>>

Get(t) ==
    /\ items # <<>>
    /\ Goto(t, "getting", "using")
    /\ cur' = [cur EXCEPT ![t] = Head(items)]
    /\ items' = Tail(items)
    /\ UNCHANGED <<closed, owner, status, sawClosed, lost>>

GetTimeout(t) ==
    /\ "timeout" \in Hazards /\ items = <<>>
    /\ Goto(t, "getting", "idle")
    /\ UNCHANGED <<items, closed, owner, status, cur, sawClosed, lost>>

\* What may happen to a borrowed sandbox: its user destroys it, or an execution
\* hits the host-side backstop, which destroys the backend under it.
Ruin(t) ==
    /\ pc[t] = "using" /\ status[cur[t].sb] = "live"
    /\ \/ Destroy(cur[t].sb)
       \/ "backstop" \in Hazards /\ status' = [status EXCEPT ![cur[t].sb] = "dead"]
    /\ UNCHANGED <<items, closed, owner, pc, cur, sawClosed, lost>>

\* The lifetime timer of a sandbox, wherever it is.
Lifetime(s) ==
    /\ "lifetime" \in Hazards /\ status[s] # "gone"
    /\ Destroy(s)
    /\ UNCHANGED <<items, closed, owner, pc, cur, sawClosed, lost>>

\* The flag is copied under the lock and used after the lock is released.
EndUse(t) ==
    /\ Goto(t, "using", "deciding")
    /\ sawClosed' = [sawClosed EXCEPT ![t] = closed]
    /\ cur' = [cur EXCEPT ![t].uses = @ + 1]
    /\ UNCHANGED <<items, closed, owner, status, lost>>

\* Mutant: one use too many.
WornOutOffByOne(t) == status[cur[t].sb] = "gone" \/ cur[t].uses > MaxUses

WornOut(t) == status[cur[t].sb] = "gone" \/ cur[t].uses >= MaxUses

\* Mutant: the replaced sandbox is not destroyed.
RetireUndestroyed(t) ==
    /\ pc[t] = "deciding"
    /\ sawClosed[t] \/ WornOut(t)
    /\ pc' = [pc EXCEPT ![t] = IF sawClosed[t] THEN "idle" ELSE "replacing"]
    /\ cur' = [cur EXCEPT ![t] = Idle]
    /\ UNCHANGED <<items, closed, owner, status, sawClosed, lost>>

\* Mutant: a retired sandbox is not replaced.
RetireWithoutReplacing(t) ==
    /\ pc[t] = "deciding"
    /\ sawClosed[t] \/ WornOut(t)
    /\ pc' = [pc EXCEPT ![t] = "idle"]
    /\ Destroy(cur[t].sb)
    /\ cur' = [cur EXCEPT ![t] = Idle]
    /\ UNCHANGED <<items, closed, owner, sawClosed, lost>>

\* Destroy, and replace unless the pool was seen closed.
Retire(t) ==
    /\ pc[t] = "deciding"
    /\ sawClosed[t] \/ WornOut(t)
    /\ \/ /\ pc' = [pc EXCEPT ![t] = IF sawClosed[t] THEN "idle" ELSE "replacing"]
          /\ UNCHANGED lost
       \/ /\ "destroy" \in Hazards                     \* it raises: no replacement
          /\ pc' = [pc EXCEPT ![t] = "idle"]
          /\ lost' = IF sawClosed[t] THEN lost ELSE lost + 1
    /\ Destroy(cur[t].sb)
    /\ cur' = [cur EXCEPT ![t] = Idle]
    /\ UNCHANGED <<items, closed, owner, sawClosed>>

Keep(t) ==
    /\ pc[t] = "deciding"
    /\ ~sawClosed[t] /\ ~WornOut(t)
    /\ pc' = [pc EXCEPT ![t] = "putting"]
    /\ UNCHANGED <<items, closed, owner, status, cur, sawClosed, lost>>

Replace(t) ==
    \/ \E s \in Sandboxes :
          /\ Fresh(s)
          /\ Goto(t, "replacing", "putting")
          /\ status' = [status EXCEPT ![s] = "live"]
          /\ cur' = [cur EXCEPT ![t] = [sb |-> s, uses |-> 0]]
          /\ UNCHANGED <<items, closed, owner, sawClosed, lost>>
    \/ /\ "factory" \in Hazards                        \* it raises: nothing is put back
       /\ Goto(t, "replacing", "idle")
       /\ lost' = lost + 1
       /\ UNCHANGED <<items, closed, owner, status, cur, sawClosed>>

\* Queue.put blocks while the queue is full.
Put(t) ==
    /\ Len(items) < Size
    /\ Goto(t, "putting", "idle")
    /\ items' = Append(items, cur[t])
    /\ cur' = [cur EXCEPT ![t] = Idle]
    /\ UNCHANGED <<closed, owner, status, sawClosed, lost>>

-----------------------------------------------------------------------------
(* Specification.                                                          *)

Release(t)  == EndUse(t) \/ Retire(t) \/ Keep(t) \/ Replace(t) \/ Put(t)
Borrower(t) == Acquire(t) \/ Get(t) \/ GetTimeout(t) \/ Ruin(t) \/ Release(t)

Next ==
    \/ Fill \/ Close \/ Drain
    \/ \E t \in Threads : Borrower(t)
    \/ \E s \in Sandboxes : Lifetime(s)

Spec == Init /\ [][Next]_vars

\* Borrowers leave their with block, and the queue wakes somebody up.
FairSpec ==
    /\ Spec /\ WF_vars(Fill) /\ WF_vars(Drain)
    /\ \A t \in Threads : WF_vars(Release(t)) /\ WF_vars(Get(t))

-----------------------------------------------------------------------------
(* Properties.                                                             *)

InFlight == {t \in Threads : pc[t] \in {"using", "deciding", "replacing", "putting"}}

\* A sandbox is in one place: lent to one borrower or queued once, never both,
\* whatever replacement and return do at the same time.
Exclusive ==
    /\ \A i, j \in 1 .. Len(items) : i # j => items[i].sb # items[j].sb
    /\ \A t, u \in Threads : t # u /\ cur[t].sb # None => cur[t].sb # cur[u].sb
    /\ Queued \cap Borrowed = {}

\* An acquire is followed by a return or a replacement: an open pool has Size
\* sandboxes queued or on their way back, less one, for good, for every
\* replacement in which destroy or the factory raised, and for nothing else; and
\* so the put of a returning borrower never blocks on a full queue.
CapacityKept ==
    /\ owner = "open" => Len(items) + Cardinality(InFlight) + lost = Size
    /\ \A t \in Threads : pc[t] = "putting" => Len(items) < Size

\* The pool loses no sandbox: a running one is queued or in a borrower's hands.
NoneLost ==
    owner # "raised" =>
        \A s \in Sandboxes : status[s] # "gone" => s \in Queued \cup Borrowed

\* No sandbox is lent more than MaxUses times.
UsesBounded ==
    /\ \A i \in 1 .. Len(items) : items[i].uses < MaxUses
    /\ \A t \in Threads : pc[t] = "using" => cur[t].uses < MaxUses

\* In well-typed states every running sandbox is in one pair of hands at a time,
\* and in nobody's too often.
Custody == PoolTypeOK /\ Exclusive /\ NoneLost /\ UsesBounded

\* Nobody starves the waiters: one of those who wait is served, or all of them have
\* given up, as long as the pool has any capacity left.  Those who wait without a
\* timeout when a closed pool has got its last sandbox back wait for ever.
SomeoneServed ==
    (\E t \in Threads : pc[t] = "getting") ~>
        \/ closed /\ items = <<>> /\ InFlight = {}
        \/ lost = Size
        \/ \E t \in Threads : pc[t] = "using"
        \/ \A t \in Threads : pc[t] # "getting"

\* After close, once every borrower has returned, no sandbox is left running.
CloseDestroysAll ==
    owner = "done" /\ InFlight = {} => \A s \in Sandboxes : status[s] = "gone"

=============================================================================

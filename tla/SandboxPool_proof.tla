--------------------------- MODULE SandboxPool_proof ---------------------------
(* Theorems about SandboxPool, for any borrowers, size, use limit and hazards. *)
EXTENDS SandboxPool, FiniteSetTheorems, SequenceTheorems, TLAPS

\* What the local variables of a borrower hold at each point of acquire.
InHands ==
    \A t \in Threads :
        /\ pc[t] \in {"using", "deciding", "putting"} => cur[t] \in Item
        /\ pc[t] \in {"idle", "getting", "replacing"} => cur[t] = Idle
        /\ pc[t] = "putting" => cur[t].uses < MaxUses

\* Every slot of the pool is queued, in flight or lost; before the pool opens
\* nobody borrows.
Counted ==
    /\ IsFiniteSet(InFlight)
    /\ Len(items) + Cardinality(InFlight) + lost <= Size
    /\ owner = "open" => Len(items) + Cardinality(InFlight) + lost = Size
    /\ owner \in {"filling", "raised"} => lost = 0 /\ \A t \in Threads : pc[t] = "idle"
    /\ owner \in {"filling", "open"} => ~closed /\ \A t \in Threads : ~sawClosed[t]

PoolInv == Custody /\ InHands /\ Counted

-----------------------------------------------------------------------------
(* The queue as a sequence, and the set of sandboxes it stands for.        *)

\* What get_nowait and get leave: the head's sandbox is queued no more, the rest
\* is as it was.
LEMMA QueueTail ==
    ASSUME items \in Seq(Item), items # <<>>, items' = Tail(items),
           \A i, j \in 1 .. Len(items) : i # j => items[i].sb # items[j].sb,
           \A i \in 1 .. Len(items) : items[i].uses < MaxUses
    PROVE  /\ Head(items) \in Item /\ Head(items).uses < MaxUses
           /\ Head(items).sb \in Queued
           /\ items' \in Seq(Item)
           /\ Len(items) \in Nat /\ Len(items') \in Nat /\ Len(items') = Len(items) - 1
           /\ \A i, j \in 1 .. Len(items') : i # j => items'[i].sb # items'[j].sb
           /\ \A i \in 1 .. Len(items') : items'[i].uses < MaxUses
           /\ Queued' = Queued \ {Head(items).sb}
<1>1. /\ items' \in Seq(Item) /\ Len(items') = Len(items) - 1 /\ Head(items) \in Item
      /\ \A i \in 1 .. Len(items') : items'[i] = items[i + 1]
  BY HeadTailProperties
<1>2. Len(items) \in Nat \ {0} /\ Len(items') \in Nat
  BY <1>1, EmptySeq, LenProperties
<1>3. Head(items) = items[1] /\ 1 \in 1 .. Len(items)
  BY <1>2
<1>4. \A i \in 1 .. Len(items') : i + 1 \in 1 .. Len(items) /\ i + 1 # 1
  BY <1>1, <1>2
<1>5. \A i \in 2 .. Len(items) : i - 1 \in 1 .. Len(items') /\ (i - 1) + 1 = i
  BY <1>1, <1>2
<1>6. Queued' \subseteq Queued \ {Head(items).sb}
  BY <1>1, <1>3, <1>4 DEF Queued
<1>7. Queued \ {Head(items).sb} \subseteq Queued'
  <2> SUFFICES ASSUME NEW i \in 1 .. Len(items), items[i].sb # Head(items).sb
               PROVE  items[i].sb \in Queued'
    BY DEF Queued
  <2>1. i \in 2 .. Len(items)
    BY <1>2, <1>3
  <2>2. items[i] = items'[i - 1]
    BY <1>1, <1>5, <2>1
  <2>3. QED
    BY <1>5, <2>1, <2>2 DEF Queued
<1>8. \A i, j \in 1 .. Len(items') : i # j => items'[i].sb # items'[j].sb
  <2> SUFFICES ASSUME NEW i \in 1 .. Len(items'), NEW j \in 1 .. Len(items'), i # j
               PROVE  items'[i].sb # items'[j].sb
    OBVIOUS
  <2>1. i + 1 # j + 1
    BY <1>2
  <2>2. QED
    BY <1>1, <1>4, <2>1
<1>9. QED
  BY <1>1, <1>2, <1>3, <1>4, <1>6, <1>7, <1>8 DEF Queued

\* What put leaves: one sandbox more, at the end.
LEMMA QueueAppend ==
    ASSUME items \in Seq(Item), NEW x \in Item, items' = Append(items, x),
           \A i, j \in 1 .. Len(items) : i # j => items[i].sb # items[j].sb,
           \A i \in 1 .. Len(items) : items[i].uses < MaxUses,
           x.sb \notin Queued, x.uses < MaxUses
    PROVE  /\ items' \in Seq(Item)
           /\ Len(items) \in Nat /\ Len(items') = Len(items) + 1
           /\ \A i, j \in 1 .. Len(items') : i # j => items'[i].sb # items'[j].sb
           /\ \A i \in 1 .. Len(items') : items'[i].uses < MaxUses
           /\ Queued' = Queued \cup {x.sb}
<1>1. /\ items' \in Seq(Item) /\ Len(items') = Len(items) + 1
      /\ \A i \in 1 .. Len(items) : items'[i] = items[i]
      /\ items'[Len(items) + 1] = x
  BY AppendProperties
<1>2. Len(items) \in Nat
  BY LenProperties
<1>3. \A i \in 1 .. Len(items') : i \in 1 .. Len(items) \/ i = Len(items) + 1
  BY <1>1, <1>2
<1>4. \A i \in 1 .. Len(items) : items[i].sb # x.sb
  BY DEF Queued
<1>5. 1 .. Len(items) \subseteq 1 .. Len(items') /\ Len(items) + 1 \in 1 .. Len(items')
  BY <1>1, <1>2
<1>6. Queued' = Queued \cup {x.sb}
  <2>1. Queued' \subseteq Queued \cup {x.sb}
    BY <1>1, <1>3 DEF Queued
  <2>2. Queued \cup {x.sb} \subseteq Queued'
    BY <1>1, <1>5 DEF Queued
  <2>3. QED
    BY <2>1, <2>2
<1>7. \A i, j \in 1 .. Len(items') : i # j => items'[i].sb # items'[j].sb
  BY <1>1, <1>3, <1>4
<1>8. QED
  BY <1>1, <1>2, <1>3, <1>6, <1>7

-----------------------------------------------------------------------------
(* A borrower that moves: what it adds to or takes from InFlight.          *)

Flight == {"using", "deciding", "replacing", "putting"}

LEMMA FlightStep ==
    ASSUME PoolInv, NEW t \in Threads, NEW to, pc' = [pc EXCEPT ![t] = to]
    PROVE  /\ IsFiniteSet(InFlight)' /\ Cardinality(InFlight) \in Nat
           /\ pc[t] \notin Flight /\ to \in Flight =>
                  Cardinality(InFlight)' = Cardinality(InFlight) + 1
           /\ pc[t] \in Flight /\ to \notin Flight =>
                  Cardinality(InFlight)' = Cardinality(InFlight) - 1
           /\ (pc[t] \in Flight <=> to \in Flight) =>
                  Cardinality(InFlight)' = Cardinality(InFlight)
<1>1. pc'[t] = to /\ \A u \in Threads : u # t => pc'[u] = pc[u]
  BY DEF PoolInv, Custody, PoolTypeOK
<1>2. IsFiniteSet(InFlight)
  BY DEF PoolInv, Counted
<1>3. to \in Flight => InFlight' = InFlight \cup {t}
  BY <1>1 DEF InFlight, Flight
<1>4. to \notin Flight => InFlight' = InFlight \ {t}
  BY <1>1 DEF InFlight, Flight
<1>5. t \in InFlight <=> pc[t] \in Flight
  BY DEF InFlight, Flight
<1>6. Cardinality(InFlight) \in Nat
  BY <1>2, FS_CardinalityType
<1>7. /\ IsFiniteSet(InFlight \cup {t})
      /\ Cardinality(InFlight \cup {t})
            = IF t \in InFlight THEN Cardinality(InFlight) ELSE Cardinality(InFlight) + 1
  BY <1>2, FS_AddElement
<1>8. /\ IsFiniteSet(InFlight \ {t})
      /\ Cardinality(InFlight \ {t})
            = IF t \in InFlight THEN Cardinality(InFlight) - 1 ELSE Cardinality(InFlight)
  BY <1>2, FS_RemoveElement
<1>9. CASE to \in Flight
  BY <1>3, <1>5, <1>6, <1>7, <1>9
<1>10. CASE to \notin Flight
  BY <1>4, <1>5, <1>6, <1>8, <1>10
<1>11. QED
  BY <1>9, <1>10

\* What a borrower at a given point knows: the pool is open or closed for good,
\* and whether it holds a sandbox.
LEMMA AtPoint ==
    ASSUME PoolInv, NEW t \in Threads
    PROVE  /\ pc[t] # "idle" => owner \in {"open", "draining", "done"}
           /\ pc[t] \in {"using", "deciding", "putting"} =>
                  /\ cur[t] \in Item /\ cur[t].sb \in Sandboxes /\ cur[t].sb # None
                  /\ cur[t].uses \in 0 .. MaxUses
           /\ pc[t] \in {"idle", "getting", "replacing"} => cur[t] = Idle
           /\ sawClosed[t] => owner # "open"
           /\ lost \in Nat /\ Len(items) \in Nat
<1>1. Len(items) \in Nat
  BY LenProperties DEF PoolInv, Custody, PoolTypeOK
<1>2. QED
  BY <1>1, PoolAssumption DEF PoolInv, Custody, PoolTypeOK, InHands, Counted, Item

\* Letting go of a sandbox, taking one that nobody has, or only counting a use.
LEMMA LetGo ==
    ASSUME PoolInv, NEW t \in Threads, cur' = [cur EXCEPT ![t] = Idle]
    PROVE  /\ \A a, b \in Threads : a # b /\ cur'[a].sb # None => cur'[a].sb # cur'[b].sb
           /\ Borrowed' = Borrowed \ {cur[t].sb}
           /\ cur'[t] = Idle /\ \A u \in Threads : u # t => cur'[u] = cur[u]
           /\ cur' \in [Threads -> Item \cup {Idle}]
<1>1. cur'[t] = Idle /\ Idle.sb = None /\ \A u \in Threads : u # t => cur'[u] = cur[u]
  BY DEF PoolInv, Custody, PoolTypeOK, Idle
<1>2. \A a, b \in Threads : a # b /\ cur[a].sb # None => cur[a].sb # cur[b].sb
  BY DEF PoolInv, Custody, Exclusive
<1>3. \A a, b \in Threads : a # b /\ cur'[a].sb # None => cur'[a].sb # cur'[b].sb
  BY <1>1, <1>2
<1>4. Borrowed' = Borrowed \ {cur[t].sb}
  BY <1>1, <1>2 DEF Borrowed
<1>5. cur' \in [Threads -> Item \cup {Idle}]
  BY DEF PoolInv, Custody, PoolTypeOK
<1>6. QED
  BY <1>1, <1>3, <1>4, <1>5

LEMMA TakeUp ==
    ASSUME PoolInv, NEW t \in Threads, NEW x \in Item, cur' = [cur EXCEPT ![t] = x],
           cur[t] = Idle, x.sb \notin Borrowed
    PROVE  /\ \A a, b \in Threads : a # b /\ cur'[a].sb # None => cur'[a].sb # cur'[b].sb
           /\ Borrowed' = Borrowed \cup {x.sb}
           /\ cur'[t] = x /\ \A u \in Threads : u # t => cur'[u] = cur[u]
           /\ cur' \in [Threads -> Item \cup {Idle}]
<1>1. cur'[t] = x /\ x.sb # None /\ \A u \in Threads : u # t => cur'[u] = cur[u]
  BY PoolAssumption DEF PoolInv, Custody, PoolTypeOK, Item
<1>2. \A a, b \in Threads : a # b /\ cur[a].sb # None => cur[a].sb # cur[b].sb
  BY DEF PoolInv, Custody, Exclusive
<1>3. \A u \in Threads : cur[u].sb # x.sb
  BY <1>1 DEF Borrowed
<1>4. \A a, b \in Threads : a # b /\ cur'[a].sb # None => cur'[a].sb # cur'[b].sb
  BY <1>1, <1>2, <1>3
<1>5. Borrowed' = Borrowed \cup {x.sb}
  BY <1>1 DEF Borrowed, Idle
<1>6. cur' \in [Threads -> Item \cup {Idle}]
  BY DEF PoolInv, Custody, PoolTypeOK
<1>7. QED
  BY <1>1, <1>4, <1>5, <1>6

LEMMA CountUse ==
    ASSUME PoolInv, NEW t \in Threads, pc[t] = "using",
           cur' = [cur EXCEPT ![t].uses = @ + 1]
    PROVE  /\ \A a, b \in Threads : a # b /\ cur'[a].sb # None => cur'[a].sb # cur'[b].sb
           /\ Borrowed' = Borrowed
           /\ cur'[t] \in Item /\ \A u \in Threads : u # t => cur'[u] = cur[u]
           /\ cur' \in [Threads -> Item \cup {Idle}]
<1>1. cur[t] \in Item /\ cur[t].uses \in Nat /\ cur[t].uses < MaxUses
  BY DEF PoolInv, Custody, PoolTypeOK, UsesBounded, InHands, Item
<1>2. /\ cur'[t] = [cur[t] EXCEPT !.uses = @ + 1]
      /\ \A u \in Threads : u # t => cur'[u] = cur[u]
  BY DEF PoolInv, Custody, PoolTypeOK
<1>3. cur[t].uses + 1 \in 0 .. MaxUses
  BY <1>1, PoolAssumption
<1>4. cur'[t] \in Item /\ cur'[t].sb = cur[t].sb
  BY <1>1, <1>2, <1>3 DEF Item
<1>5. \A u \in Threads : cur'[u].sb = cur[u].sb
  BY <1>2, <1>4
<1>6. Borrowed' = Borrowed
  BY <1>5 DEF Borrowed
<1>7. cur' \in [Threads -> Item \cup {Idle}]
  BY <1>2, <1>4 DEF PoolInv, Custody, PoolTypeOK
<1>8. QED
  BY <1>2, <1>4, <1>5, <1>6, <1>7 DEF PoolInv, Custody, Exclusive

-----------------------------------------------------------------------------
(* The steps.                                                              *)

\* Only sandboxes die: the backstop, their user, or the lifetime timer.
LEMMA DyingKeepsInv ==
    ASSUME PoolInv, status' \in [Sandboxes -> {"live", "dead", "gone"}],
           \A s \in Sandboxes : status[s] = "gone" => status'[s] = "gone",
           UNCHANGED <<items, closed, owner, pc, cur, sawClosed, lost>>
    PROVE  PoolInv'
<1>1. PoolTypeOK'
  BY DEF PoolInv, Custody, PoolTypeOK
<1>2. Exclusive' /\ UsesBounded'
  BY DEF PoolInv, Custody, Exclusive, UsesBounded, Queued, Borrowed
<1>3. NoneLost'
  BY DEF PoolInv, Custody, NoneLost, Queued, Borrowed
<1>4. InHands' /\ Counted'
  BY DEF PoolInv, InHands, Counted, InFlight
<1>5. QED
  BY <1>1, <1>2, <1>3, <1>4 DEF PoolInv, Custody

LEMMA RuinStep ==
    ASSUME PoolInv, NEW t \in Threads, Ruin(t)
    PROVE  PoolInv'
<1>1. cur[t].sb \in Sandboxes
  BY AtPoint DEF Ruin
<1>2. \/ status' = [status EXCEPT ![cur[t].sb] = "gone"]
      \/ status' = [status EXCEPT ![cur[t].sb] = "dead"]
  BY DEF Ruin, Destroy
<1>3. status' \in [Sandboxes -> {"live", "dead", "gone"}]
  BY <1>2 DEF PoolInv, Custody, PoolTypeOK
<1>4. status[cur[t].sb] = "live"
  BY DEF Ruin
<1>5. \A s \in Sandboxes : status[s] = "gone" => status'[s] = "gone"
  BY <1>1, <1>2, <1>4 DEF PoolInv, Custody, PoolTypeOK
<1>6. QED
  BY <1>3, <1>5, DyingKeepsInv DEF Ruin

LEMMA LifetimeStep ==
    ASSUME PoolInv, NEW s \in Sandboxes, Lifetime(s)
    PROVE  PoolInv'
  BY DyingKeepsInv DEF Lifetime, Destroy, PoolInv, Custody, PoolTypeOK

\* Only control moves: a borrower waits, gives up or keeps what it has.
LEMMA WaitingKeepsInv ==
    ASSUME PoolInv, NEW t \in Threads, NEW from, NEW to, Goto(t, from, to),
           from \in Flight <=> to \in Flight,
           \/ from \in {"idle", "getting"} /\ to \in {"idle", "getting"}
           \/ from = "deciding" /\ to = "putting" /\ cur[t].uses < MaxUses,
           owner \notin {"filling", "raised"},
           UNCHANGED <<items, closed, owner, status, cur, sawClosed, lost>>
    PROVE  PoolInv'
<1>1. /\ pc[t] = from /\ pc' = [pc EXCEPT ![t] = to] /\ pc'[t] = to
      /\ pc' \in [Threads -> Points]
      /\ \A u \in Threads : u # t => pc'[u] = pc[u]
  BY DEF Goto, PoolInv, Custody, PoolTypeOK, Points
<1>2. /\ IsFiniteSet(InFlight)' /\ Cardinality(InFlight)' = Cardinality(InFlight)
  BY <1>1, FlightStep
<1>3. UsesBounded'
  BY <1>1 DEF PoolInv, Custody, UsesBounded
<1>4. PoolTypeOK' /\ Exclusive' /\ NoneLost'
  <2>1. PoolTypeOK'
    BY <1>1 DEF PoolInv, Custody, PoolTypeOK
  <2>2. Exclusive' /\ NoneLost'
    BY DEF PoolInv, Custody, Exclusive, NoneLost, Queued, Borrowed
  <2>3. QED
    BY <2>1, <2>2
<1>5. InHands'
  BY <1>1 DEF PoolInv, InHands
<1>6. Counted'
  BY <1>2 DEF PoolInv, Counted
<1>7. QED
  BY <1>3, <1>4, <1>5, <1>6 DEF PoolInv, Custody

LEMMA AcquireStep ==
    ASSUME PoolInv, NEW t \in Threads, Acquire(t)
    PROVE  PoolInv'
  BY WaitingKeepsInv DEF Acquire, Flight

LEMMA GetTimeoutStep ==
    ASSUME PoolInv, NEW t \in Threads, GetTimeout(t)
    PROVE  PoolInv'
  BY WaitingKeepsInv, AtPoint DEF GetTimeout, Goto, Flight

LEMMA KeepStep ==
    ASSUME PoolInv, NEW t \in Threads, Keep(t)
    PROVE  PoolInv'
<1>1. cur[t].uses < MaxUses
  BY AtPoint, PoolAssumption DEF Keep, WornOut
<1>2. QED
  BY <1>1, WaitingKeepsInv, AtPoint DEF Keep, Goto, Flight

LEMMA GetStep ==
    ASSUME PoolInv, NEW t \in Threads, Get(t)
    PROVE  PoolInv'
<1> DEFINE x == Head(items)
<1>1. /\ items # <<>> /\ pc[t] = "getting" /\ pc' = [pc EXCEPT ![t] = "using"]
      /\ cur' = [cur EXCEPT ![t] = x] /\ items' = Tail(items)
      /\ UNCHANGED <<closed, owner, status, sawClosed, lost>>
  BY DEF Get, Goto
<1>2. /\ items \in Seq(Item)
      /\ \A i, j \in 1 .. Len(items) : i # j => items[i].sb # items[j].sb
      /\ \A i \in 1 .. Len(items) : items[i].uses < MaxUses
      /\ Queued \cap Borrowed = {}
  BY DEF PoolInv, Custody, PoolTypeOK, Exclusive, UsesBounded
<1>3. /\ x \in Item /\ x.uses < MaxUses /\ x.sb \in Queued /\ items' \in Seq(Item)
      /\ Len(items) \in Nat /\ Len(items') = Len(items) - 1
      /\ \A i, j \in 1 .. Len(items') : i # j => items'[i].sb # items'[j].sb
      /\ \A i \in 1 .. Len(items') : items'[i].uses < MaxUses
      /\ Queued' = Queued \ {x.sb}
  BY <1>1, <1>2, QueueTail
<1>4. cur[t] = Idle /\ owner # "raised" /\ owner # "filling" /\ lost \in Nat
  BY <1>1, AtPoint
<1> HIDE DEF x
<1>5. /\ \A a, b \in Threads : a # b /\ cur'[a].sb # None => cur'[a].sb # cur'[b].sb
      /\ Borrowed' = Borrowed \cup {x.sb}
      /\ cur'[t] = x /\ \A u \in Threads : u # t => cur'[u] = cur[u]
      /\ cur' \in [Threads -> Item \cup {Idle}]
  BY <1>1, <1>2, <1>3, <1>4, TakeUp
<1>6. /\ pc'[t] = "using" /\ \A u \in Threads : u # t => pc'[u] = pc[u]
      /\ pc' \in [Threads -> Points]
  BY <1>1 DEF PoolInv, Custody, PoolTypeOK, Points
<1>7. /\ IsFiniteSet(InFlight)' /\ Cardinality(InFlight) \in Nat
      /\ Cardinality(InFlight)' = Cardinality(InFlight) + 1
  BY <1>1, FlightStep DEF Flight
<1>8. Counted'
  <2>1. UNCHANGED <<owner, closed, sawClosed, lost>>
    BY <1>1
  <2>2. Len(items') + Cardinality(InFlight)' + lost = Len(items) + Cardinality(InFlight) + lost
    BY <1>3, <1>4, <1>7
  <2>3. QED
    BY <1>4, <1>7, <2>1, <2>2 DEF PoolInv, Counted
<1>9. InHands'
  BY <1>3, <1>5, <1>6 DEF PoolInv, InHands
<1>10. Exclusive'
  BY <1>2, <1>3, <1>5 DEF Exclusive
<1>11. NoneLost'
  BY <1>1, <1>3, <1>4, <1>5 DEF PoolInv, Custody, NoneLost
<1>12. UsesBounded'
  BY <1>3, <1>5, <1>6 DEF PoolInv, Custody, UsesBounded
<1>13. PoolTypeOK'
  BY <1>1, <1>3, <1>5, <1>6 DEF PoolInv, Custody, PoolTypeOK
<1>14. QED
  BY <1>8, <1>9, <1>10, <1>11, <1>12, <1>13 DEF PoolInv, Custody

LEMMA EndUseStep ==
    ASSUME PoolInv, NEW t \in Threads, EndUse(t)
    PROVE  PoolInv'
<1>1. /\ pc[t] = "using" /\ pc' = [pc EXCEPT ![t] = "deciding"]
      /\ sawClosed' = [sawClosed EXCEPT ![t] = closed]
      /\ cur' = [cur EXCEPT ![t].uses = @ + 1]
      /\ UNCHANGED <<items, closed, owner, status, lost>>
  BY DEF EndUse, Goto
<1>2. /\ \A a, b \in Threads : a # b /\ cur'[a].sb # None => cur'[a].sb # cur'[b].sb
      /\ Borrowed' = Borrowed
      /\ cur'[t] \in Item /\ \A u \in Threads : u # t => cur'[u] = cur[u]
      /\ cur' \in [Threads -> Item \cup {Idle}]
  BY <1>1, CountUse
<1>3. /\ pc'[t] = "deciding" /\ \A u \in Threads : u # t => pc'[u] = pc[u]
      /\ pc' \in [Threads -> Points]
  BY <1>1 DEF PoolInv, Custody, PoolTypeOK, Points
<1>4. IsFiniteSet(InFlight)' /\ Cardinality(InFlight)' = Cardinality(InFlight)
  BY <1>1, FlightStep DEF Flight
<1>5. owner \notin {"filling", "raised"}
  BY <1>1, AtPoint
<1>6. Counted'
  BY <1>1, <1>4, <1>5 DEF PoolInv, Counted, Custody, PoolTypeOK
<1>7. InHands'
  BY <1>2, <1>3 DEF PoolInv, InHands
<1>8. Exclusive' /\ NoneLost'
  BY <1>1, <1>2 DEF PoolInv, Custody, Exclusive, NoneLost, Queued
<1>9. UsesBounded'
  BY <1>1, <1>2, <1>3 DEF PoolInv, Custody, UsesBounded
<1>10. PoolTypeOK'
  BY <1>1, <1>2, <1>3 DEF PoolInv, Custody, PoolTypeOK
<1>11. QED
  BY <1>6, <1>7, <1>8, <1>9, <1>10 DEF PoolInv, Custody

LEMMA RetireStep ==
    ASSUME PoolInv, NEW t \in Threads, Retire(t)
    PROVE  PoolInv'
<1>1. /\ pc[t] = "deciding" /\ cur' = [cur EXCEPT ![t] = Idle]
      /\ status' = [status EXCEPT ![cur[t].sb] = "gone"]
      /\ UNCHANGED <<items, closed, owner, sawClosed>>
  BY DEF Retire, Destroy
<1>2. PICK to \in {"idle", "replacing"} :
          /\ pc' = [pc EXCEPT ![t] = to]
          /\ to = "replacing" => lost' = lost
          /\ to = "idle" => \/ lost' = lost /\ sawClosed[t]
                            \/ lost' = lost + 1
  BY DEF Retire
<1>3. /\ \A a, b \in Threads : a # b /\ cur'[a].sb # None => cur'[a].sb # cur'[b].sb
      /\ Borrowed' = Borrowed \ {cur[t].sb}
      /\ cur'[t] = Idle /\ \A u \in Threads : u # t => cur'[u] = cur[u]
      /\ cur' \in [Threads -> Item \cup {Idle}]
  BY <1>1, LetGo
<1>4. /\ pc'[t] = to /\ \A u \in Threads : u # t => pc'[u] = pc[u]
      /\ pc' \in [Threads -> Points]
  BY <1>2 DEF PoolInv, Custody, PoolTypeOK, Points
<1>5. /\ owner \notin {"filling", "raised"} /\ cur[t].sb \in Sandboxes
      /\ sawClosed[t] => owner # "open"
      /\ lost \in Nat /\ Len(items) \in Nat
  BY <1>1, AtPoint
<1>6. /\ IsFiniteSet(InFlight)' /\ Cardinality(InFlight) \in Nat
      /\ to = "idle" => Cardinality(InFlight)' = Cardinality(InFlight) - 1
      /\ to = "replacing" => Cardinality(InFlight)' = Cardinality(InFlight)
  BY <1>1, <1>2, FlightStep DEF Flight
<1>7. Counted'
  BY <1>1, <1>2, <1>5, <1>6, PoolAssumption DEF PoolInv, Counted
<1>8. InHands'
  BY <1>3, <1>4 DEF PoolInv, InHands
<1>9. Exclusive'
  BY <1>1, <1>3 DEF PoolInv, Custody, Exclusive, Queued
<1>10. \A s \in Sandboxes : status'[s] # "gone" => status[s] # "gone" /\ s # cur[t].sb
  BY <1>1, <1>5 DEF PoolInv, Custody, PoolTypeOK
<1>11. NoneLost'
  BY <1>1, <1>3, <1>5, <1>10 DEF PoolInv, Custody, NoneLost, Queued
<1>12. UsesBounded'
  BY <1>1, <1>3, <1>4 DEF PoolInv, Custody, UsesBounded
<1>13. lost' \in 0 .. Size
  BY <1>2, <1>5, <1>6, <1>7, PoolAssumption, FS_CardinalityType DEF Counted
<1>14. PoolTypeOK'
  BY <1>1, <1>3, <1>4, <1>13 DEF PoolInv, Custody, PoolTypeOK
<1>15. QED
  BY <1>7, <1>8, <1>9, <1>11, <1>12, <1>14 DEF PoolInv, Custody

LEMMA ReplaceStep ==
    ASSUME PoolInv, NEW t \in Threads, Replace(t)
    PROVE  PoolInv'
<1>1. pc[t] = "replacing"
  BY DEF Replace, Goto
<1>2. /\ owner \notin {"filling", "raised"} /\ cur[t] = Idle
      /\ lost \in Nat /\ Len(items) \in Nat
  BY <1>1, AtPoint
<1>3. ASSUME NEW s \in Sandboxes, Fresh(s), Goto(t, "replacing", "putting"),
             status' = [status EXCEPT ![s] = "live"],
             cur' = [cur EXCEPT ![t] = [sb |-> s, uses |-> 0]],
             UNCHANGED <<items, closed, owner, sawClosed, lost>>
      PROVE  PoolInv'
  <2> DEFINE x == [sb |-> s, uses |-> 0]
  <2>1. x \in Item /\ x.sb = s /\ x.uses = 0 /\ 0 < MaxUses
    BY PoolAssumption DEF Item
  <2>2. cur' = [cur EXCEPT ![t] = x]
    BY <1>3
  <2> HIDE DEF x
  <2>3. s \notin Queued /\ s \notin Borrowed
    BY <1>3 DEF Fresh
  <2>4. /\ \A a, b \in Threads : a # b /\ cur'[a].sb # None => cur'[a].sb # cur'[b].sb
        /\ Borrowed' = Borrowed \cup {s}
        /\ cur'[t] = x /\ \A u \in Threads : u # t => cur'[u] = cur[u]
        /\ cur' \in [Threads -> Item \cup {Idle}]
    BY <1>2, <2>1, <2>2, <2>3, TakeUp
  <2>5. /\ pc' = [pc EXCEPT ![t] = "putting"] /\ pc'[t] = "putting"
        /\ \A u \in Threads : u # t => pc'[u] = pc[u]
        /\ pc' \in [Threads -> Points]
    BY <1>3 DEF Goto, PoolInv, Custody, PoolTypeOK, Points
  <2>6. /\ IsFiniteSet(InFlight)' /\ Cardinality(InFlight)' = Cardinality(InFlight)
    BY <1>1, <2>5, FlightStep DEF Flight
  <2>7. Counted'
    BY <1>2, <1>3, <2>6 DEF PoolInv, Counted
  <2>8. InHands'
    BY <2>1, <2>4, <2>5 DEF PoolInv, InHands
  <2>9. Exclusive'
    BY <1>3, <2>3, <2>4 DEF PoolInv, Custody, Exclusive, Queued
  <2>10. NoneLost'
    BY <1>2, <1>3, <2>4 DEF PoolInv, Custody, NoneLost, Queued, PoolTypeOK
  <2>11. UsesBounded'
    BY <1>3, <2>4, <2>5 DEF PoolInv, Custody, UsesBounded
  <2>12. PoolTypeOK'
    BY <1>3, <2>4, <2>5 DEF PoolInv, Custody, PoolTypeOK
  <2>13. QED
    BY <2>7, <2>8, <2>9, <2>10, <2>11, <2>12 DEF PoolInv, Custody
<1>4. CASE /\ Goto(t, "replacing", "idle") /\ lost' = lost + 1
           /\ UNCHANGED <<items, closed, owner, status, cur, sawClosed>>
  <2>1. /\ pc' = [pc EXCEPT ![t] = "idle"] /\ pc'[t] = "idle"
        /\ \A u \in Threads : u # t => pc'[u] = pc[u]
        /\ pc' \in [Threads -> Points]
    BY <1>4 DEF Goto, PoolInv, Custody, PoolTypeOK, Points
  <2>2. /\ IsFiniteSet(InFlight)' /\ Cardinality(InFlight) \in Nat
        /\ Cardinality(InFlight)' = Cardinality(InFlight) - 1
    BY <1>1, <2>1, FlightStep DEF Flight
  <2>3. Counted'
    BY <1>2, <1>4, <2>2, PoolAssumption DEF PoolInv, Counted
  <2>4. lost' \in 0 .. Size
    BY <1>2, <1>4, <2>2, <2>3, PoolAssumption, FS_CardinalityType DEF Counted
  <2>5. PoolTypeOK'
    BY <1>4, <2>1, <2>4 DEF PoolInv, Custody, PoolTypeOK
  <2>6. Exclusive' /\ NoneLost'
    BY <1>4 DEF PoolInv, Custody, Exclusive, NoneLost, Queued, Borrowed
  <2>7. UsesBounded'
    BY <1>4, <2>1 DEF PoolInv, Custody, UsesBounded
  <2>8. InHands'
    BY <1>2, <1>4, <2>1 DEF PoolInv, InHands
  <2>9. QED
    BY <2>3, <2>5, <2>6, <2>7, <2>8 DEF PoolInv, Custody
<1>5. QED
  BY <1>3, <1>4 DEF Replace

LEMMA PutStep ==
    ASSUME PoolInv, NEW t \in Threads, Put(t)
    PROVE  PoolInv'
<1> DEFINE x == cur[t]
<1>1. /\ pc[t] = "putting" /\ pc' = [pc EXCEPT ![t] = "idle"]
      /\ cur' = [cur EXCEPT ![t] = Idle] /\ items' = Append(items, x)
      /\ UNCHANGED <<closed, owner, status, sawClosed, lost>>
  BY DEF Put, Goto
<1>2. /\ items \in Seq(Item)
      /\ \A i, j \in 1 .. Len(items) : i # j => items[i].sb # items[j].sb
      /\ \A i \in 1 .. Len(items) : items[i].uses < MaxUses
      /\ Queued \cap Borrowed = {}
  BY DEF PoolInv, Custody, PoolTypeOK, Exclusive, UsesBounded
<1>3. /\ x \in Item /\ x.sb \in Borrowed /\ x.uses < MaxUses
      /\ owner \notin {"filling", "raised"} /\ lost \in Nat
  BY <1>1, AtPoint DEF Borrowed, PoolInv, InHands
<1>4. /\ \A a, b \in Threads : a # b /\ cur'[a].sb # None => cur'[a].sb # cur'[b].sb
      /\ Borrowed' = Borrowed \ {x.sb}
      /\ cur'[t] = Idle /\ \A u \in Threads : u # t => cur'[u] = cur[u]
      /\ cur' \in [Threads -> Item \cup {Idle}]
  BY <1>1, LetGo
<1> HIDE DEF x
<1>5. /\ items' \in Seq(Item) /\ Len(items) \in Nat /\ Len(items') = Len(items) + 1
      /\ \A i, j \in 1 .. Len(items') : i # j => items'[i].sb # items'[j].sb
      /\ \A i \in 1 .. Len(items') : items'[i].uses < MaxUses
      /\ Queued' = Queued \cup {x.sb}
  BY <1>1, <1>2, <1>3, QueueAppend
<1>6. /\ pc'[t] = "idle" /\ \A u \in Threads : u # t => pc'[u] = pc[u]
      /\ pc' \in [Threads -> Points]
  BY <1>1 DEF PoolInv, Custody, PoolTypeOK, Points
<1>7. /\ IsFiniteSet(InFlight)' /\ Cardinality(InFlight) \in Nat
      /\ Cardinality(InFlight)' = Cardinality(InFlight) - 1
  <2>1. /\ pc[t] = "putting" /\ pc' = [pc EXCEPT ![t] = "idle"]
        /\ "putting" \in Flight /\ "idle" \notin Flight
    BY <1>1 DEF Flight
  <2>2. QED
    BY <2>1, FlightStep
<1>8. Counted'
  <2>1. UNCHANGED <<owner, closed, sawClosed, lost>>
    BY <1>1
  <2>2. Len(items') + Cardinality(InFlight)' + lost = Len(items) + Cardinality(InFlight) + lost
    BY <1>3, <1>5, <1>7
  <2>3. QED
    BY <1>3, <1>7, <2>1, <2>2 DEF PoolInv, Counted
<1>9. InHands'
  BY <1>4, <1>6 DEF PoolInv, InHands
<1>10. Exclusive'
  BY <1>2, <1>4, <1>5 DEF Exclusive
<1>11. NoneLost'
  BY <1>1, <1>3, <1>4, <1>5 DEF PoolInv, Custody, NoneLost
<1>12. UsesBounded'
  BY <1>4, <1>5, <1>6 DEF PoolInv, Custody, UsesBounded
<1>13. PoolTypeOK'
  BY <1>1, <1>4, <1>5, <1>6 DEF PoolInv, Custody, PoolTypeOK
<1>14. QED
  BY <1>8, <1>9, <1>10, <1>11, <1>12, <1>13 DEF PoolInv, Custody

LEMMA DrainStep ==
    ASSUME PoolInv, Drain
    PROVE  PoolInv'
<1>1. /\ owner = "draining" /\ owner' \in {"draining", "done"}
      /\ UNCHANGED <<closed, pc, cur, sawClosed, lost>>
  BY DEF Drain
<1>2. Borrowed' = Borrowed /\ InFlight' = InFlight /\ InHands'
  BY <1>1 DEF Borrowed, InFlight, InHands, PoolInv
<1>3. CASE UNCHANGED <<items, status>>
  <2>1. PoolTypeOK' /\ Exclusive' /\ NoneLost' /\ UsesBounded'
    BY <1>1, <1>2, <1>3 DEF PoolInv, Custody, PoolTypeOK, Exclusive, NoneLost, UsesBounded, Queued
  <2>2. Counted'
    BY <1>1, <1>2, <1>3 DEF PoolInv, Counted
  <2>3. QED
    BY <1>2, <2>1, <2>2 DEF PoolInv, Custody
<1>4. CASE items # <<>> /\ items' = Tail(items) /\ Destroy(Head(items).sb)
  <2> DEFINE x == Head(items)
  <2>1. /\ items \in Seq(Item)
        /\ \A i, j \in 1 .. Len(items) : i # j => items[i].sb # items[j].sb
        /\ \A i \in 1 .. Len(items) : items[i].uses < MaxUses
        /\ Queued \cap Borrowed = {}
    BY DEF PoolInv, Custody, PoolTypeOK, Exclusive, UsesBounded
  <2>2. /\ x \in Item /\ items' \in Seq(Item)
        /\ Len(items) \in Nat /\ Len(items') \in Nat /\ Len(items') = Len(items) - 1
        /\ \A i, j \in 1 .. Len(items') : i # j => items'[i].sb # items'[j].sb
        /\ \A i \in 1 .. Len(items') : items'[i].uses < MaxUses
        /\ Queued' = Queued \ {x.sb}
    BY <1>4, <2>1, QueueTail
  <2>3. status' = [status EXCEPT ![x.sb] = "gone"]
    BY <1>4 DEF Destroy
  <2> HIDE DEF x
  <2>4. x.sb \in Sandboxes
    BY <2>2 DEF Item
  <2>5. Cardinality(InFlight) \in Nat /\ lost \in Nat
    BY FS_CardinalityType DEF PoolInv, Counted, Custody, PoolTypeOK
  <2>6. Counted'
    <3>1. Len(items') + Cardinality(InFlight)' + lost' <= Size
      BY <1>1, <1>2, <2>2, <2>5, PoolAssumption DEF PoolInv, Counted
    <3>2. QED
      BY <1>1, <1>2, <3>1 DEF PoolInv, Counted
  <2>7. Exclusive'
    BY <1>1, <1>2, <2>1, <2>2 DEF PoolInv, Custody, Exclusive
  <2>8. NoneLost'
    BY <1>1, <1>2, <2>2, <2>3, <2>4 DEF PoolInv, Custody, NoneLost, PoolTypeOK
  <2>9. UsesBounded'
    BY <1>1, <2>2 DEF PoolInv, Custody, UsesBounded
  <2>10. PoolTypeOK'
    BY <1>1, <2>2, <2>3 DEF PoolInv, Custody, PoolTypeOK
  <2>11. QED
    BY <1>2, <2>6, <2>7, <2>8, <2>9, <2>10 DEF PoolInv, Custody
<1>5. QED
  BY <1>3, <1>4 DEF Drain

\* The owner only changes its mind.
LEMMA OwnerKeepsCustody ==
    ASSUME Custody, UNCHANGED <<items, status, pc, cur, sawClosed, lost>>,
           closed' \in BOOLEAN, owner' \in {"filling", "open", "draining", "done", "raised"},
           owner = "raised" => owner' = "raised"
    PROVE  Custody'
<1>1. PoolTypeOK'
  BY DEF Custody, PoolTypeOK
<1>2. Exclusive' /\ UsesBounded'
  BY DEF Custody, Exclusive, UsesBounded, Queued, Borrowed
<1>3. NoneLost'
  BY DEF Custody, NoneLost, Queued, Borrowed
<1>4. QED
  BY <1>1, <1>2, <1>3 DEF Custody

LEMMA CloseStep ==
    ASSUME PoolInv, Close
    PROVE  PoolInv'
<1>1. /\ owner = "open" /\ closed' = TRUE /\ owner' = "draining"
      /\ UNCHANGED <<items, status, pc, cur, sawClosed, lost>>
  BY DEF Close
<1>2. InFlight' = InFlight /\ InHands'
  BY <1>1 DEF InFlight, InHands, PoolInv
<1>3. Counted'
  BY <1>1, <1>2 DEF PoolInv, Counted
<1>4. Custody'
  BY <1>1, OwnerKeepsCustody DEF PoolInv
<1>5. QED
  BY <1>2, <1>3, <1>4 DEF PoolInv

LEMMA FillStep ==
    ASSUME PoolInv, Fill
    PROVE  PoolInv'
<1>1. owner = "filling" /\ UNCHANGED <<closed, pc, cur, sawClosed, lost>>
  BY DEF Fill
<1>2. Borrowed' = Borrowed /\ InFlight' = InFlight /\ InHands'
  BY <1>1 DEF Borrowed, InFlight, InHands, PoolInv
<1>3. /\ \A t \in Threads : pc[t] = "idle" /\ ~sawClosed[t]
      /\ lost = 0 /\ ~closed /\ items \in Seq(Item) /\ Len(items) \in Nat
  BY <1>1, LenProperties DEF PoolInv, Counted, Custody, PoolTypeOK
<1>4. InFlight = {}
  BY <1>3 DEF InFlight
<1>5. /\ IsFiniteSet(InFlight) /\ Cardinality(InFlight) = 0 /\ Cardinality(InFlight)' = 0
      /\ IsFiniteSet(InFlight)'
  BY <1>2, <1>4, FS_EmptySet
<1>6. CASE /\ UNCHANGED <<items, status>>
           /\ (Len(items) = Size /\ owner' = "open") \/ owner' = "raised"
  <2>1. Custody'
    <3>1. closed' \in BOOLEAN
      BY <1>1 DEF PoolInv, Custody, PoolTypeOK
    <3>2. QED
      BY <1>1, <1>6, <3>1, OwnerKeepsCustody DEF PoolInv
  <2>2. Counted'
    BY <1>1, <1>3, <1>5, <1>6 DEF PoolInv, Counted
  <2>3. QED
    BY <1>2, <2>1, <2>2 DEF PoolInv
<1>7. ASSUME NEW s \in Sandboxes, Fresh(s), Len(items) # Size, owner' = owner,
             status' = [status EXCEPT ![s] = "live"],
             items' = Append(items, [sb |-> s, uses |-> 0])
      PROVE  PoolInv'
  <2> DEFINE x == [sb |-> s, uses |-> 0]
  <2>1. x \in Item /\ x.sb = s /\ x.uses = 0 /\ x.uses < MaxUses /\ items' = Append(items, x)
    BY <1>7, PoolAssumption DEF Item
  <2> HIDE DEF x
  <2>2. /\ \A i, j \in 1 .. Len(items) : i # j => items[i].sb # items[j].sb
        /\ \A i \in 1 .. Len(items) : items[i].uses < MaxUses
        /\ Queued \cap Borrowed = {}
    BY DEF PoolInv, Custody, Exclusive, UsesBounded
  <2>3. s \notin Queued /\ s \notin Borrowed
    BY <1>7 DEF Fresh
  <2>4. /\ items' \in Seq(Item) /\ Len(items') = Len(items) + 1
        /\ \A i, j \in 1 .. Len(items') : i # j => items'[i].sb # items'[j].sb
        /\ \A i \in 1 .. Len(items') : items'[i].uses < MaxUses
        /\ Queued' = Queued \cup {s}
    BY <1>3, <2>1, <2>2, <2>3, QueueAppend
  <2>5. Counted'
    <3>1. Len(items) <= Size
      BY <1>3, <1>5, PoolAssumption DEF PoolInv, Counted
    <3>2. owner' = "filling" /\ Len(items') + Cardinality(InFlight)' + lost' <= Size
      BY <1>1, <1>3, <1>5, <1>7, <2>4, <3>1, PoolAssumption
    <3>3. QED
      BY <1>1, <1>3, <1>5, <3>2 DEF Counted
  <2>6. Exclusive'
    BY <1>1, <1>2, <2>2, <2>3, <2>4 DEF PoolInv, Custody, Exclusive
  <2>7. NoneLost'
    BY <1>1, <1>2, <1>7, <2>4 DEF PoolInv, Custody, NoneLost, PoolTypeOK
  <2>8. UsesBounded'
    BY <1>1, <2>4 DEF PoolInv, Custody, UsesBounded
  <2>9. PoolTypeOK'
    BY <1>1, <1>7, <2>4 DEF PoolInv, Custody, PoolTypeOK
  <2>10. QED
    BY <1>2, <2>5, <2>6, <2>7, <2>8, <2>9 DEF PoolInv, Custody
<1>8. QED
  BY <1>6, <1>7 DEF Fill

LEMMA PoolStart == Init => PoolInv
<1> SUFFICES ASSUME Init PROVE PoolInv
  OBVIOUS
<1>1. items = <<>> /\ items \in Seq(Item) /\ Len(items) = 0
  BY EmptySeq DEF Init
<1>2. InFlight = {} /\ Borrowed = {} /\ Queued = {}
  BY <1>1 DEF Init, InFlight, Borrowed, Queued, Idle
<1>3. IsFiniteSet(InFlight) /\ Cardinality(InFlight) = 0
  BY <1>2, FS_EmptySet
<1>4. PoolTypeOK
  <2>1. lost = 0 /\ closed \in BOOLEAN /\ owner = "filling"
    BY DEF Init
  <2>2. /\ status \in [Sandboxes -> {"live", "dead", "gone"}]
        /\ cur \in [Threads -> Item \cup {Idle}]
        /\ sawClosed \in [Threads -> BOOLEAN]
    BY DEF Init
  <2>3. pc \in [Threads -> Points]
    BY DEF Init, Points
  <2>4. QED
    BY <1>1, <2>1, <2>2, <2>3, PoolAssumption DEF PoolTypeOK
<1>5. Exclusive /\ NoneLost /\ UsesBounded
  BY <1>1, <1>2 DEF Init, Exclusive, NoneLost, UsesBounded, Idle
<1>6. InHands /\ Counted
  BY <1>1, <1>3, PoolAssumption DEF Init, InHands, Counted
<1>7. QED
  BY <1>4, <1>5, <1>6 DEF PoolInv, Custody

LEMMA PoolStep == PoolInv /\ [Next]_vars => PoolInv'
<1> SUFFICES ASSUME PoolInv, [Next]_vars PROVE PoolInv'
  OBVIOUS
<1>1. CASE Fill \/ Close \/ Drain
  BY <1>1, FillStep, CloseStep, DrainStep
<1>2. ASSUME NEW t \in Threads, Borrower(t) PROVE PoolInv'
  BY <1>2, AcquireStep, GetStep, GetTimeoutStep, RuinStep, EndUseStep, RetireStep, KeepStep,
     ReplaceStep, PutStep DEF Borrower, Release
<1>3. ASSUME NEW s \in Sandboxes, Lifetime(s) PROVE PoolInv'
  BY <1>3, LifetimeStep
<1>4. CASE UNCHANGED vars
  <2>1. Custody'
    BY <1>4, OwnerKeepsCustody DEF vars, PoolInv, Custody, PoolTypeOK
  <2>2. InHands' /\ Counted'
    BY <1>4 DEF vars, PoolInv, InHands, Counted, InFlight
  <2>3. QED
    BY <2>1, <2>2 DEF PoolInv
<1>5. QED
  BY <1>1, <1>2, <1>3, <1>4 DEF Next

\* However borrowers, replacements, deaths and close interleave, every running
\* sandbox of the pool is in one pair of hands at a time, and in nobody's too often.
THEOREM CustodyHolds == Spec => []Custody
<1>1. PoolInv => Custody
  BY DEF PoolInv
<1>2. QED
  BY <1>1, PoolStart, PoolStep, PTL DEF Spec

\* An open pool loses capacity to a destroy or a factory that raises and to nothing
\* else, and a borrower that returns a sandbox finds room in the queue.
THEOREM CapacityIsKept == Spec => []CapacityKept
<1>1. PoolInv => CapacityKept
  <2> SUFFICES ASSUME PoolInv PROVE CapacityKept
    OBVIOUS
  <2>1. lost \in Nat /\ Len(items) \in Nat /\ Cardinality(InFlight) \in Nat
    BY LenProperties, FS_CardinalityType DEF PoolInv, Custody, PoolTypeOK, Counted
  <2>2. ASSUME NEW t \in Threads, pc[t] = "putting" PROVE Len(items) < Size
    <3>1. InFlight # {}
      BY <2>2 DEF InFlight
    <3>2. Cardinality(InFlight) # 0
      BY <3>1, FS_EmptySet DEF PoolInv, Counted
    <3>3. QED
      BY <2>1, <3>2, PoolAssumption DEF PoolInv, Counted
  <2>3. QED
    BY <2>2 DEF PoolInv, Counted, CapacityKept
<1>2. QED
  BY <1>1, PoolStart, PoolStep, PTL DEF Spec
=============================================================================

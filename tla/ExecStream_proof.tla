-------------------------- MODULE ExecStream_proof --------------------------
(***************************************************************************)
(* Theorems about one streamed execution, for any number of bytes, any     *)
(* limit, any characters and secrets, and both drivers: what arrives       *)
(* through the two queues is what the process wrote, as it is to be seen.  *)
(*                                                                         *)
(* A queue of chunks is described by cut points: numbers f[1] <= f[2] ...  *)
(* such that chunk i carries the bytes after f[i] up to f[i+1].  Putting a *)
(* chunk adds a cut point, taking one removes the first, and no induction  *)
(* over the queue is needed.                                               *)
(***************************************************************************)
EXTENDS ExecStream, SequenceTheorems, TLAPS

-----------------------------------------------------------------------------
(* Runs of bytes and queues.                                               *)

Run(a, b) == [i \in 1..(b - a) |-> a + i]

LEMMA RunIsSeq ==
    ASSUME NEW a \in Nat, NEW b \in Nat
    PROVE  /\ a <= b => Run(a, b) \in Seq(1..b) /\ Len(Run(a, b)) = b - a
           /\ Run(a, a) = <<>>
           /\ Run(a, b) = <<>> => b <= a
           /\ a <= b => Run(a, b) \in Seq(Nat)
<1>1. ASSUME a <= b
      PROVE  Run(a, b) \in Seq(1..b) /\ Run(a, b) \in Seq(Nat) /\ Len(Run(a, b)) = b - a
  <2>1. /\ b - a \in Nat /\ Run(a, b) \in [1..(b - a) -> 1..b]
        /\ Run(a, b) \in [1..(b - a) -> Nat]
    BY <1>1 DEF Run
  <2> QED
    BY <2>1
<1>2. Run(a, a) = <<>>
  BY DEF Run
<1>3. Run(a, b) = <<>> => b <= a
  <2>1. ASSUME a < b, Run(a, b) = <<>>
        PROVE  FALSE
    BY <2>1, <1>1
  <2> QED
    BY <2>1
<1> QED
  BY <1>1, <1>2, <1>3

LEMMA RunCut ==
    ASSUME NEW a \in Nat, NEW b \in Nat, NEW n \in Nat, a <= b, n <= b - a
    PROVE  SubSeq(Run(a, b), 1, n) = Run(a, a + n)
<1>1. /\ Run(a, b) \in Seq(Nat) /\ Run(a, a + n) \in Seq(Nat)
      /\ Len(Run(a, b)) = b - a /\ Len(Run(a, a + n)) = n
  <2>1. a + n \in Nat /\ a <= a + n /\ (a + n) - a = n
    OBVIOUS
  <2> QED
    BY <2>1, RunIsSeq
<1>2. \A i \in 1..n : Run(a, b)[i] \in Nat
  BY DEF Run
<1>3. /\ SubSeq(Run(a, b), 1, n) \in Seq(Nat)
      /\ Len(SubSeq(Run(a, b), 1, n)) = n
      /\ \A i \in 1..n : SubSeq(Run(a, b), 1, n)[i] = Run(a, b)[i]
  BY <1>2, SubSeqProperties
<1>4. \A i \in 1..n : Run(a, b)[i] = Run(a, a + n)[i]
  BY DEF Run
<1> QED
  BY <1>1, <1>3, <1>4, SeqEqual

\* What is to be seen of the bytes after a up to b, where v says it of each byte.
View(v, a, b) == [i \in 1..(b - a) |-> v[a + i]]

LEMMA ViewEmpty ==
    ASSUME NEW v, NEW a \in Nat
    PROVE  View(v, a, a) = <<>>
BY DEF View

LEMMA ViewIsSeq ==
    ASSUME NEW v \in [Nat -> Nat], NEW a \in Nat, NEW b \in Nat, a <= b
    PROVE  View(v, a, b) \in Seq(Nat) /\ Len(View(v, a, b)) = b - a
<1>1. \A i \in 1..(b - a) : v[a + i] \in Nat
  <2>1. \A i \in 1..(b - a) : a + i \in Nat
    OBVIOUS
  <2> QED
    BY <2>1
<1>2. View(v, a, b) \in [1..(b - a) -> Nat]
  BY <1>1 DEF View
<1>3. b - a \in Nat
  OBVIOUS
<1>4. ASSUME NEW n \in Nat, NEW r \in [1..n -> Nat]
      PROVE  r \in Seq(Nat) /\ Len(r) = n
  OBVIOUS
<1> QED
  BY <1>2, <1>3, <1>4

LEMMA ViewsJoin ==
    ASSUME NEW v \in [Nat -> Nat],
           NEW a \in Nat, NEW b \in Nat, NEW c \in Nat, a <= b, b <= c
    PROVE  View(v, a, b) \o View(v, b, c) = View(v, a, c)
<1> DEFINE r == View(v, a, b)
           s == View(v, b, c)
           t == View(v, a, c)
<1>1. /\ r \in Seq(Nat) /\ s \in Seq(Nat) /\ t \in Seq(Nat)
      /\ Len(r) = b - a /\ Len(s) = c - b /\ Len(t) = c - a
  <2>1. a <= c
    OBVIOUS
  <2> QED
    BY <2>1, ViewIsSeq
<1>2. /\ \A i \in 1..(b - a) : r[i] = v[a + i]
      /\ \A i \in 1..(c - b) : s[i] = v[b + i]
      /\ \A i \in 1..(c - a) : t[i] = v[a + i]
  BY DEF View
<1> HIDE DEF r, s, t
<1>3. /\ r \o s \in Seq(Nat) /\ Len(r \o s) = Len(r) + Len(s)
      /\ \A i \in 1..(Len(r) + Len(s)) :
             (r \o s)[i] = IF i <= Len(r) THEN r[i] ELSE s[i - Len(r)]
  BY <1>1, ConcatProperties
<1>4. Len(r \o s) = Len(t)
  BY <1>1, <1>3
<1>5. ASSUME NEW i \in 1..Len(t)
      PROVE  (r \o s)[i] = t[i]
  <2>0. i \in 1..(Len(r) + Len(s)) /\ i \in 1..(c - a) /\ Len(r) = b - a
    BY <1>1
  <2>1. (r \o s)[i] = IF i <= b - a THEN r[i] ELSE s[i - (b - a)]
    BY <1>3, <2>0
  <2>2. i <= b - a => r[i] = v[a + i]
    BY <1>1, <1>2
  <2>3. i > b - a => s[i - (b - a)] = v[a + i]
    <3>1. i > b - a => i - (b - a) \in 1..(c - b) /\ b + (i - (b - a)) = a + i
      BY <1>1
    <3> QED
      BY <1>2, <3>1
  <2>4. t[i] = v[a + i] /\ (i <= b - a \/ i > b - a)
    BY <1>2, <2>0
  <2> QED
    BY <2>1, <2>2, <2>3, <2>4
<1>6. r \o s = t
  BY <1>1, <1>3, <1>4, <1>5, SeqEqual
<1> QED
  BY <1>6 DEF r, s, t

LEMMA AppendIs ==
    ASSUME NEW q \in Seq(Item), NEW item \in Item
    PROVE  /\ Append(q, item) \in Seq(Item)
           /\ Len(q) \in Nat /\ Len(Append(q, item)) = Len(q) + 1
           /\ \A i \in 1..Len(q) : Append(q, item)[i] = q[i]
           /\ Append(q, item)[Len(q) + 1] = item
           /\ Append(q, item) # <<>>
OBVIOUS

LEMMA TailIs ==
    ASSUME NEW q \in Seq(Item), q # <<>>
    PROVE  /\ Head(q) = q[1] /\ Head(q) \in Item
           /\ Tail(q) \in Seq(Item)
           /\ Len(q) \in Nat \ {0} /\ Len(Tail(q)) = Len(q) - 1
           /\ \A i \in 1..(Len(q) - 1) : Tail(q)[i] = q[i + 1]
           /\ Tail(q) = <<>> <=> Len(q) = 1
<1>1. /\ Head(q) = q[1] /\ Head(q) \in Item
      /\ Tail(q) \in Seq(Item)
      /\ Len(q) \in Nat \ {0} /\ Len(Tail(q)) = Len(q) - 1
      /\ \A i \in 1..(Len(q) - 1) : Tail(q)[i] = q[i + 1]
  OBVIOUS
<1>2. Tail(q) = <<>> <=> Len(Tail(q)) = 0
  BY <1>1, EmptySeq
<1> QED
  BY <1>1, <1>2

LEMMA WriteIsItem ==
    ASSUME NEW w \in Nat, NEW n \in Nat, MaxBytes \in Nat, w + n <= MaxBytes
    PROVE  /\ Out([i \in 1..n |-> w + i]) \in Item
           /\ Run(w, w + n) = [i \in 1..n |-> w + i]
<1>1. Run(w, w + n) = [i \in 1..n |-> w + i]
  BY DEF Run
<1>2. Run(w, w + n) \in Seq(1..(w + n))
  BY RunIsSeq
<1>3. 1..(w + n) \subseteq Symbol
  BY DEF Symbol, Spoilt, Hidden
<1>4. Run(w, w + n) \in Seq(Symbol)
  BY <1>2, <1>3, SeqMonotonic
<1> QED
  BY <1>1, <1>4 DEF Out, Item

-----------------------------------------------------------------------------
(* Queues described by cut points.                                         *)

\* The bytes after a up to b are one message, when messages end at e.
Whole(e, a, b) == a \in e \cup {0} /\ b \in e /\ \A c \in e : ~(a < c /\ c < b)

\* An item holds the message after a up to b; what is not output holds nothing.
Holds(e, item, a, b) ==
    /\ a <= b /\ item.bytes = Run(a, b)
    /\ IF item.kind = "out" THEN Whole(e, a, b) ELSE a = b

\* The items of q hold the messages after a up to b, in order.
Cuts(e, q, a, b) ==
    \E f \in [1..(Len(q) + 1) -> 0..b] :
        /\ f[1] = a /\ f[Len(q) + 1] = b
        /\ \A i \in 1..Len(q) : Holds(e, q[i], f[i], f[i + 1])

LEMMA CutsEmpty ==
    ASSUME NEW e, NEW a \in Nat, NEW b \in Nat
    PROVE  Cuts(e, <<>>, a, b) <=> a = b
<1>1. ASSUME a = b
      PROVE  Cuts(e, <<>>, a, b)
  <2> DEFINE f == [i \in 1..1 |-> b]
  <2>1. f \in [1..(Len(<<>>) + 1) -> 0..b] /\ f[1] = a /\ f[Len(<<>>) + 1] = b
    BY <1>1
  <2>2. \A i \in 1..Len(<<>>) :
            Holds(e, <<>>[i], f[i], f[i + 1])
    OBVIOUS
  <2> QED
    BY <2>1, <2>2 DEF Cuts
<1> QED
  BY <1>1 DEF Cuts

LEMMA CutsAppend ==
    ASSUME NEW e, NEW q \in Seq(Item), NEW item \in Item,
           NEW a \in Nat, NEW b \in Nat, NEW c \in Nat,
           Cuts(e, q, a, b), Holds(e, item, b, c)
    PROVE  Cuts(e, Append(q, item), a, c)
<1>0. b <= c
  BY DEF Holds
<1>1. PICK f \in [1..(Len(q) + 1) -> 0..b] :
          /\ f[1] = a /\ f[Len(q) + 1] = b
          /\ \A i \in 1..Len(q) : Holds(e, q[i], f[i], f[i + 1])
  BY DEF Cuts
<1> DEFINE p == Append(q, item)
           g == [i \in 1..(Len(p) + 1) |-> IF i <= Len(q) + 1 THEN f[i] ELSE c]
<1>2. /\ Len(q) \in Nat /\ Len(p) = Len(q) + 1
      /\ \A i \in 1..Len(q) : p[i] = q[i]
      /\ p[Len(q) + 1] = item
  BY AppendIs
<1>3. g \in [1..(Len(p) + 1) -> 0..c]
  <2>1. \A i \in 1..(Len(p) + 1) : g[i] \in 0..c
    BY <1>0, <1>1, <1>2
  <2> QED
    BY <2>1
<1>4. g[1] = a /\ g[Len(p) + 1] = c
  BY <1>1, <1>2
<1>5. ASSUME NEW i \in 1..Len(p)
      PROVE  Holds(e, p[i], g[i], g[i + 1])
  <2>1. CASE i \in 1..Len(q)
    <3>1. g[i] = f[i] /\ g[i + 1] = f[i + 1]
      BY <1>2, <2>1
    <3> QED
      BY <1>1, <1>2, <2>1, <3>1
  <2>2. CASE i = Len(q) + 1
    <3>1. g[i] = b /\ g[i + 1] = c
      BY <1>1, <1>2, <2>2
    <3> QED
      BY <1>2, <2>2, <3>1
  <2> QED
    BY <1>2, <2>1, <2>2
<1> QED
  BY <1>3, <1>4, <1>5 DEF Cuts

LEMMA CutsTail ==
    ASSUME NEW e, NEW q \in Seq(Item), q # <<>>, NEW a \in Nat, NEW b \in Nat, Cuts(e, q, a, b)
    PROVE  \E c \in 0..b : Holds(e, Head(q), a, c) /\ Cuts(e, Tail(q), c, b)
<1>1. PICK f \in [1..(Len(q) + 1) -> 0..b] :
          /\ f[1] = a /\ f[Len(q) + 1] = b
          /\ \A i \in 1..Len(q) : Holds(e, q[i], f[i], f[i + 1])
  BY DEF Cuts
<1> DEFINE p == Tail(q)
           g == [i \in 1..(Len(p) + 1) |-> f[i + 1]]
<1>2. /\ Head(q) = q[1]
      /\ Len(q) \in Nat \ {0} /\ Len(p) = Len(q) - 1
      /\ \A i \in 1..(Len(q) - 1) : p[i] = q[i + 1]
  BY TailIs
<1>3. f[2] \in 0..b /\ Holds(e, Head(q), a, f[2])
  BY <1>1, <1>2
<1>4. g \in [1..(Len(p) + 1) -> 0..b] /\ g[1] = f[2] /\ g[Len(p) + 1] = b
  <2>1. \A i \in 1..(Len(p) + 1) : g[i] \in 0..b
    BY <1>1, <1>2
  <2> QED
    BY <1>1, <1>2, <2>1
<1>5. \A i \in 1..Len(p) : Holds(e, p[i], g[i], g[i + 1])
  BY <1>1, <1>2
<1>6. Cuts(e, p, f[2], b)
  BY <1>4, <1>5 DEF Cuts
<1> QED
  BY <1>3, <1>6
-----------------------------------------------------------------------------
(* The flow from the generator to the application.                         *)

\* An item carries what is to be seen of the bytes after a up to b.
Carries(v, item, a, b) ==
    /\ a <= b /\ item.bytes = View(v, a, b)
    /\ item.kind # "out" => a = b

\* What has been said of the output, besides the output, at each stage: nothing,
\* that it is truncated, the status.  The process has written w bytes.
Said(h, w) ==
    CASE h = 0 -> <<>>
      [] h = 1 -> <<"notice">>
      [] OTHER -> IF w > Limit THEN <<"notice", "status">> ELSE <<"status">>

\* An item takes the flow from n bytes and stage s to m bytes and stage t: output
\* at stage 0, the notice to 1, the status to 2 (once the reader is done and all is
\* delivered), an exception to 3, the end to 4.
Link(v, item, n, s, m, t, w, done) ==
    /\ Carries(v, item, n, m)
    /\ \/ item.kind = "out" /\ s = 0 /\ t = 0
       \/ item.kind = "notice" /\ s = 0 /\ t = 1 /\ w > Limit
       \/ /\ item.kind = "status" /\ s = (IF w > Limit THEN 1 ELSE 0) /\ t = 2
          /\ n = Smaller(w, Limit) /\ done
       \/ item.kind = "error" /\ s \in {0, 1} /\ t = 3
       \/ item.kind = "end" /\ s \in {2, 3} /\ t = 4

Chain(v, q, n, s, m, t, w, done) ==
    \E f \in [1..(Len(q) + 1) -> 0..m], g \in [1..(Len(q) + 1) -> 0..4] :
        /\ f[1] = n /\ f[Len(q) + 1] = m
        /\ g[1] = s /\ g[Len(q) + 1] = t
        /\ \A i \in 1..Len(q) : Link(v, q[i], f[i], g[i], f[i + 1], g[i + 1], w, done)

LEMMA ChainOfNothing ==
    ASSUME NEW v, NEW n \in Nat, NEW s \in 0..4, NEW w, NEW done
    PROVE  Chain(v, <<>>, n, s, n, s, w, done)
<1> DEFINE f == [i \in 1..1 |-> n]
           g == [i \in 1..1 |-> s]
<1>1. /\ f \in [1..(Len(<<>>) + 1) -> 0..n] /\ g \in [1..(Len(<<>>) + 1) -> 0..4]
      /\ f[1] = n /\ f[Len(<<>>) + 1] = n
      /\ g[1] = s /\ g[Len(<<>>) + 1] = s
  OBVIOUS
<1>2. \A i \in 1..Len(<<>>) : Link(v, <<>>[i], f[i], g[i], f[i + 1], g[i + 1], w, done)
  OBVIOUS
<1> QED
  BY <1>1, <1>2 DEF Chain

LEMMA ChainEmpty ==
    ASSUME NEW v, NEW n \in Nat, NEW s \in 0..4, NEW m \in Nat, NEW t \in 0..4, NEW w, NEW done,
           Chain(v, <<>>, n, s, m, t, w, done)
    PROVE  n = m /\ s = t
BY DEF Chain

LEMMA ChainAppend ==
    ASSUME NEW v, NEW q \in Seq(Item), NEW item \in Item, NEW w, NEW done,
           NEW n \in Nat, NEW s \in 0..4, NEW m \in Nat, NEW t \in 0..4,
           NEW k \in Nat, NEW u \in 0..4,
           Chain(v, q, n, s, m, t, w, done), Link(v, item, m, t, k, u, w, done)
    PROVE  Chain(v, Append(q, item), n, s, k, u, w, done)
<1>0. m <= k
  BY DEF Link, Carries
<1>1. PICK f \in [1..(Len(q) + 1) -> 0..m], g \in [1..(Len(q) + 1) -> 0..4] :
          /\ f[1] = n /\ f[Len(q) + 1] = m
          /\ g[1] = s /\ g[Len(q) + 1] = t
          /\ \A i \in 1..Len(q) : Link(v, q[i], f[i], g[i], f[i + 1], g[i + 1], w, done)
  BY DEF Chain
<1> DEFINE p == Append(q, item)
           e == [i \in 1..(Len(p) + 1) |-> IF i <= Len(q) + 1 THEN f[i] ELSE k]
           h == [i \in 1..(Len(p) + 1) |-> IF i <= Len(q) + 1 THEN g[i] ELSE u]
<1>2. /\ Len(q) \in Nat /\ Len(p) = Len(q) + 1
      /\ \A i \in 1..Len(q) : p[i] = q[i]
      /\ p[Len(q) + 1] = item
  BY AppendIs
<1>3. e \in [1..(Len(p) + 1) -> 0..k] /\ h \in [1..(Len(p) + 1) -> 0..4]
  <2>1. \A i \in 1..(Len(p) + 1) : e[i] \in 0..k /\ h[i] \in 0..4
    BY <1>0, <1>1, <1>2
  <2> QED
    BY <2>1
<1>4. e[1] = n /\ e[Len(p) + 1] = k /\ h[1] = s /\ h[Len(p) + 1] = u
  BY <1>1, <1>2
<1>5. ASSUME NEW i \in 1..Len(p)
      PROVE  Link(v, p[i], e[i], h[i], e[i + 1], h[i + 1], w, done)
  <2>1. CASE i \in 1..Len(q)
    <3>1. e[i] = f[i] /\ e[i + 1] = f[i + 1] /\ h[i] = g[i] /\ h[i + 1] = g[i + 1]
      BY <1>2, <2>1
    <3> QED
      BY <1>1, <1>2, <2>1, <3>1
  <2>2. CASE i = Len(q) + 1
    <3>1. e[i] = m /\ e[i + 1] = k /\ h[i] = t /\ h[i + 1] = u
      BY <1>1, <1>2, <2>2
    <3> QED
      BY <1>2, <2>2, <3>1
  <2> QED
    BY <1>2, <2>1, <2>2
<1> HIDE DEF e, h
<1> QED
  BY <1>3, <1>4, <1>5 DEF Chain

LEMMA ChainTail ==
    ASSUME NEW v, NEW q \in Seq(Item), q # <<>>, NEW w, NEW done,
           NEW n \in Nat, NEW s \in 0..4, NEW m \in Nat, NEW t \in 0..4,
           Chain(v, q, n, s, m, t, w, done)
    PROVE  \E k \in 0..m, u \in 0..4 :
               /\ Link(v, Head(q), n, s, k, u, w, done)
               /\ Chain(v, Tail(q), k, u, m, t, w, done)
<1>1. PICK f \in [1..(Len(q) + 1) -> 0..m], g \in [1..(Len(q) + 1) -> 0..4] :
          /\ f[1] = n /\ f[Len(q) + 1] = m
          /\ g[1] = s /\ g[Len(q) + 1] = t
          /\ \A i \in 1..Len(q) : Link(v, q[i], f[i], g[i], f[i + 1], g[i + 1], w, done)
  BY DEF Chain
<1> DEFINE p == Tail(q)
           e == [i \in 1..(Len(p) + 1) |-> f[i + 1]]
           h == [i \in 1..(Len(p) + 1) |-> g[i + 1]]
<1>2. /\ Head(q) = q[1]
      /\ Len(q) \in Nat \ {0} /\ Len(p) = Len(q) - 1
      /\ \A i \in 1..(Len(q) - 1) : p[i] = q[i + 1]
  BY TailIs
<1>3. f[2] \in 0..m /\ g[2] \in 0..4 /\ Link(v, Head(q), n, s, f[2], g[2], w, done)
  BY <1>1, <1>2
<1>4. /\ e \in [1..(Len(p) + 1) -> 0..m] /\ h \in [1..(Len(p) + 1) -> 0..4]
      /\ e[1] = f[2] /\ e[Len(p) + 1] = m /\ h[1] = g[2] /\ h[Len(p) + 1] = t
  <2>1. \A i \in 1..(Len(p) + 1) : e[i] \in 0..m /\ h[i] \in 0..4
    BY <1>1, <1>2
  <2>2. e \in [1..(Len(p) + 1) -> 0..m] /\ h \in [1..(Len(p) + 1) -> 0..4]
    BY <2>1
  <2>3. 1 \in 1..(Len(p) + 1) /\ Len(p) + 1 \in 1..(Len(p) + 1) /\ (Len(p) + 1) + 1 = Len(q) + 1
    BY <1>2
  <2>4. /\ e[1] = f[1 + 1] /\ e[Len(p) + 1] = f[(Len(p) + 1) + 1]
        /\ h[1] = g[1 + 1] /\ h[Len(p) + 1] = g[(Len(p) + 1) + 1]
    BY <2>3
  <2> QED
    BY <1>1, <2>2, <2>3, <2>4
<1>5. ASSUME NEW i \in 1..Len(p)
      PROVE  Link(v, p[i], e[i], h[i], e[i + 1], h[i + 1], w, done)
  <2>1. i + 1 \in 1..Len(q) /\ p[i] = q[i + 1]
    BY <1>2
  <2>2. /\ e[i] = f[i + 1] /\ e[i + 1] = f[(i + 1) + 1]
        /\ h[i] = g[i + 1] /\ h[i + 1] = g[(i + 1) + 1]
    BY <1>2
  <2> QED
    BY <1>1, <2>1, <2>2
<1> HIDE DEF e, h
<1>6. Chain(v, p, f[2], g[2], m, t, w, done)
  BY <1>4, <1>5 DEF Chain
<1> QED
  BY <1>3, <1>6

-----------------------------------------------------------------------------
(* The invariant.                                                          *)

\* The generator has taken a bytes out of the queue, and the rest is in it.
QueueInv ==
    /\ written \in ends \cup {0}
    /\ \E a \in 0..written :
           /\ Cuts(ends, messages, a, written)
           /\ budget = Limit - Smaller(a, Limit)
           /\ (truncated <=> a > Limit)

\* The generator may still take output, or knows that there is none.
Flowing == gen \in {"head", "waiting"} \/ (gen = "yielded" /\ handed.kind = "out")
Ending  == gen \in {"suffix", "inspect", "exhausted"} \/ (gen = "yielded" /\ handed.kind # "out")

LastIs(kind) == messages # <<>> /\ messages[Len(messages)].kind = kind

\* What each side of the queue knows of the other: the end is put once and last,
\* behind the exception if there is one, and is in the queue until it is taken.
EndIsLast ==
    /\ gen = "unstarted" => reader = "idle"
    /\ reader = "idle" => messages = <<>> /\ gen \in {"unstarted", "failed"}
    /\ reader = "reading" => \A i \in 1..Len(messages) : messages[i].kind = "out"
    /\ \A i \in 1..Len(messages) :
           messages[i].kind = "end" => i = Len(messages) /\ reader = "done"
    /\ Flowing /\ reader = "failed" => LastIs("error")
    /\ Flowing /\ reader = "done" => LastIs("end")
    /\ Ending => messages = <<>> /\ reader = "done"

\* Where the generator, the worker thread and the application can be together.
Places ==
    /\ gen = "yielded" => handed.kind \in {"out", "notice", "status"}
    /\ gen = "suffix" \/ (gen = "yielded" /\ handed.kind = "notice") => truncated
    /\ driver = "sync" =>
           events = <<>> /\ producer = "iterating" /\ (app = "holding" => gen = "yielded")
    /\ driver = "async" => gen # "closed"

QueueVars == <<ends, messages, written, budget, truncated>>

-----------------------------------------------------------------------------
(* The queue from the reader thread.                                       *)

\* What is to be seen of each byte, with the messages of this behaviour.
Sight == [i \in Nat |-> Shown(i)]

LEMMA SightIs ==
    /\ Sight \in [Nat -> Nat]
    /\ ends' = ends => Sight' = Sight
    /\ \A i \in 1..MaxBytes : Shown(i) \in Symbol
BY StreamAssumption DEF Sight, Shown, Torn, Together, Found, Symbol, Spoilt, Hidden

LEMMA MarkShown == ASSUME NEW kind PROVE Redacted(Mark(kind)) = Mark(kind)
<1>1. DOMAIN <<>> = {}
  OBVIOUS
<1>2. Redact(<<>>) = <<>>
  BY <1>1 DEF Redact
<1> QED
  BY <1>2 DEF Redacted, Mark

LEMMA ItemShown ==
    ASSUME NEW item \in Item
    PROVE  /\ Redacted(item) \in Item /\ Redacted(item).kind = item.kind
           /\ Redacted(item).bytes = Redact(item.bytes)
<1>1. Redact(item.bytes) \in Seq(Symbol)
  <2>1. item.bytes \in Seq(Symbol) /\ MaxBytes \in Nat
    BY StreamAssumption DEF Item
  <2>2. Redact(item.bytes) \in [1..Len(item.bytes) -> Symbol]
    BY <2>1 DEF Redact, Symbol, Hidden, Spoilt
  <2> QED
    BY <2>1, <2>2
<1> QED
  BY <1>1 DEF Redacted, Item

\* Bytes are together in a chunk, or neither in this one nor in another.
LEMMA ChunkShown ==
    ASSUME ends \subseteq 1..MaxBytes, NEW a \in Nat, NEW k \in Nat, a < k,
           a \in ends \cup {0}, k \in ends \cup {Limit},
           \A c \in ends \cup {Limit} : ~(a < c /\ c < k)
    PROVE  Redact(Decode(Run(a, k))) = View(Sight, a, k)
<1> DEFINE n == k - a
           text == Decode(Run(a, k))
<1>1. /\ n \in Nat \ {0} /\ MaxBytes \in Nat /\ Limit \in Nat
      /\ Wide \subseteq 1..MaxBytes /\ Secret \subseteq 1..MaxBytes
  BY StreamAssumption
<1>2. /\ Len(Run(a, k)) = n /\ DOMAIN Run(a, k) = 1..n
      /\ \A i \in 1..n : Run(a, k)[i] = a + i
  BY <1>1, RunIsSeq DEF Run
<1>3. ASSUME NEW i \in 1..n
      PROVE  /\ i < n => Together(a + i, a + i + 1)
             /\ i = n => ~Together(a + i, a + i + 1)
             /\ i > 1 => Together(a + i - 1, a + i)
             /\ i = 1 /\ a # 0 => ~Together(a + i - 1, a + i)
  BY <1>1 DEF Together
<1>4. \A i \in 1..n : text[i] = IF Torn(a + i) THEN Spoilt ELSE a + i
  <2> SUFFICES ASSUME NEW i \in 1..n
               PROVE  text[i] = IF Torn(a + i) THEN Spoilt ELSE a + i
    OBVIOUS
  <2>1. text[i] = IF \/ i = n /\ a + i \in Wide
                     \/ i = 1 /\ (a + i) - 1 \in Wide
                  THEN Spoilt ELSE a + i
    BY <1>2 DEF Decode
  <2>2. Torn(a + i) <=> \/ i = n /\ a + i \in Wide
                        \/ i = 1 /\ (a + i) - 1 \in Wide
    <3>1. i = 1 /\ a = 0 => (a + i) - 1 \notin Wide
      BY <1>1
    <3> QED
      BY <1>1, <1>3, <3>1 DEF Torn
  <2> QED
    BY <2>1, <2>2
<1>5. DOMAIN text = 1..n
  BY <1>2 DEF Decode
<1> HIDE DEF text
<1>6. ASSUME NEW i \in 1..n, text[i] \in Secret
      PROVE  (Secret \subseteq Range(text)) <=> Found
  <2>1. text[i] = a + i /\ a + i \in Secret
    BY <1>1, <1>4, <1>6 DEF Spoilt
  <2>2. ASSUME Secret \subseteq Range(text)
        PROVE  Found
    <3>1. ASSUME NEW j \in Secret
          PROVE  j \in (a + 1)..k /\ ~Torn(j)
      <4>1. PICK l \in 1..n : text[l] = j
        BY <1>5, <2>2 DEF Range
      <4>2. j = a + l /\ ~Torn(a + l)
        BY <1>1, <1>4, <4>1 DEF Spoilt
      <4> QED
        BY <1>1, <4>2
    <3>2. \A j, l \in (a + 1)..k : Together(j, l)
      BY <1>1 DEF Together
    <3> QED
      BY <3>1, <3>2 DEF Found
  <2>3. ASSUME Found, NEW j \in Secret
        PROVE  j \in Range(text)
    <3>1. Together(a + i, j) /\ Together(j, a + i) /\ ~Torn(j)
      BY <2>1, <2>3 DEF Found
    <3>2. j \in Nat \ {0}
      BY <1>1
    <3>3. j <= k
      BY <1>1, <3>1, <3>2 DEF Together
    <3>4. j > a
      BY <1>1, <3>1, <3>2 DEF Together
    <3>5. j - a \in 1..n /\ a + (j - a) = j
      BY <1>1, <3>2, <3>3, <3>4
    <3>6. text[j - a] = j
      BY <1>4, <3>1, <3>5
    <3> QED
      BY <1>5, <3>5, <3>6 DEF Range
  <2> QED
    BY <2>2, <2>3
<1>7. ASSUME NEW i \in 1..n
      PROVE  Redact(text)[i] = View(Sight, a, k)[i]
  <2>1. Redact(text)[i] = IF text[i] \in Secret /\ Secret \subseteq Range(text)
                          THEN Hidden ELSE text[i]
    BY <1>5 DEF Redact
  <2>2. View(Sight, a, k)[i] = Shown(a + i)
    <3>1. a + i \in Nat
      BY <1>1
    <3> QED
      BY <3>1 DEF View, Sight
  <2>3. text[i] \in Secret <=> a + i \in Secret /\ ~Torn(a + i)
    BY <1>1, <1>4 DEF Spoilt
  <2>4. a + i \in Secret /\ Found => ~Torn(a + i)
    BY DEF Found
  <2> QED
    BY <1>4, <1>6, <2>1, <2>2, <2>3, <2>4 DEF Shown
<1>8. /\ Redact(text) = [i \in 1..n |-> Redact(text)[i]]
      /\ View(Sight, a, k) = [i \in 1..n |-> View(Sight, a, k)[i]]
  BY <1>5 DEF Redact, View
<1> QED
  BY <1>7, <1>8 DEF text

\* What is taken of a message is what still fits, right behind what was taken
\* before, and is seen as it is to be seen.
LEMMA OutputTaken ==
    ASSUME StreamTypeOK, QueueInv, GetOutput
    PROVE  /\ budget' \in 0..budget
           /\ StreamData(Head(messages).bytes) \in Seq(Symbol)
           /\ Len(StreamData(Head(messages).bytes)) = budget - budget'
           /\ Redact(StreamData(Head(messages).bytes))
                  = View(Sight, Limit - budget, Limit - budget')
           /\ \E c \in 0..written :
                  /\ Cuts(ends, Tail(messages), c, written)
                  /\ budget' = Limit - Smaller(c, Limit)
                  /\ (truncated' <=> c > Limit)
<1>1. PICK a \in 0..written : /\ Cuts(ends, messages, a, written)
                              /\ budget = Limit - Smaller(a, Limit)
                              /\ (truncated <=> a > Limit)
  BY DEF QueueInv
<1>2. /\ messages \in Seq(Item) /\ written \in Nat /\ a \in Nat /\ ends \subseteq 1..MaxBytes
      /\ Limit \in Nat \ {0} /\ budget \in Nat /\ budget <= Limit
      /\ MaxBytes \in Nat /\ written <= MaxBytes
  BY StreamAssumption DEF StreamTypeOK
<1>3. PICK c \in 0..written : /\ Holds(ends, Head(messages), a, c)
                              /\ Cuts(ends, Tail(messages), c, written)
  BY <1>1, <1>2, CutsTail DEF GetOutput
<1>4. /\ c \in Nat /\ a <= c /\ Head(messages).bytes = Run(a, c)
      /\ Len(Run(a, c)) = c - a /\ Whole(ends, a, c)
  BY <1>2, <1>3, RunIsSeq DEF Holds, GetOutput
<1> DEFINE k == Smaller(c - a, budget)
           data == StreamData(Run(a, c))
<1>5. k \in Nat /\ k <= c - a /\ k <= budget
  BY <1>2, <1>4 DEF Smaller
<1>6. data = Decode(Run(a, a + k))
  <2>1. data = Decode(SubSeq(Run(a, c), 1, k))
    BY <1>4 DEF StreamData
  <2>2. SubSeq(Run(a, c), 1, k) = Run(a, a + k)
    BY <1>2, <1>4, <1>5, RunCut
  <2> QED
    BY <2>1, <2>2
<1>7. Len(data) = k /\ data \in Seq(Symbol)
  <2>1. DOMAIN Run(a, a + k) = 1..k
    BY <1>2, <1>5 DEF Run
  <2>2. data \in [1..k -> Symbol]
    <3>1. \A i \in 1..k : Run(a, a + k)[i] = a + i /\ a + i \in Symbol
      BY <1>2, <1>3, <1>4, <1>5 DEF Run, Symbol, Spoilt, Hidden
    <3>2. Spoilt \in Symbol
      BY <1>2 DEF Symbol, Spoilt, Hidden
    <3> QED
      BY <1>6, <2>1, <3>1, <3>2 DEF Decode
  <2> QED
    BY <1>5, <2>2
<1>8. budget' = budget - k /\ (truncated' <=> (truncated \/ c - a > budget))
  BY <1>4, <1>7 DEF GetOutput
<1>9. budget' \in 0..budget /\ Len(data) = budget - budget'
  BY <1>2, <1>5, <1>7, <1>8
<1>10. ASSUME k = 0
       PROVE  Redact(data) = View(Sight, Limit - budget, Limit - budget')
  <2>1. Redact(data) = <<>>
    BY <1>7, <1>10 DEF Redact
  <2>2. Limit - budget \in Nat /\ Limit - budget' = Limit - budget
    BY <1>2, <1>8, <1>10
  <2> QED
    BY <2>1, <2>2, ViewEmpty
<1>11. CASE a <= Limit
  <2>1. budget = Limit - a /\ ~truncated
    BY <1>1, <1>2, <1>11 DEF Smaller
  <2>2. budget' = Limit - Smaller(c, Limit) /\ (truncated' <=> c > Limit)
    BY <1>2, <1>4, <1>8, <2>1 DEF Smaller
  <2>3. Limit - budget = a /\ Limit - budget' = a + k
    BY <1>2, <1>5, <1>8, <2>1
  <2>4. ASSUME k # 0
        PROVE  Redact(data) = View(Sight, Limit - budget, Limit - budget')
    <3>1. /\ a + k \in Nat /\ a < a + k /\ a + k <= c /\ a + k <= Limit
          /\ a + k = c \/ a + k = Limit
      BY <1>2, <1>4, <1>5, <2>1, <2>4 DEF Smaller
    <3>2. /\ a \in ends \cup {0} /\ a + k \in ends \cup {Limit}
          /\ \A e \in ends \cup {Limit} : ~(a < e /\ e < a + k)
      BY <1>2, <1>4, <3>1 DEF Whole
    <3>3. Redact(Decode(Run(a, a + k))) = View(Sight, a, a + k)
      BY <1>2, <3>1, <3>2, ChunkShown
    <3> QED
      BY <1>6, <2>3, <3>3
  <2> QED
    BY <1>3, <1>4, <1>7, <1>9, <1>10, <2>2, <2>4
<1>12. CASE a > Limit
  <2>1. budget = 0 /\ truncated /\ c > Limit
    BY <1>1, <1>2, <1>4, <1>12 DEF Smaller
  <2>2. budget' = Limit - Smaller(c, Limit) /\ (truncated' <=> c > Limit)
    BY <1>2, <1>4, <1>5, <1>8, <2>1 DEF Smaller
  <2>3. k = 0
    BY <1>2, <1>5, <2>1
  <2> QED
    BY <1>3, <1>4, <1>7, <1>9, <1>10, <2>2, <2>3
<1> QED
  BY <1>2, <1>11, <1>12

LEMMA QueueStep ==
    ASSUME StreamTypeOK, QueueInv, [Next]_vars
    PROVE  QueueInv'
<1>1. PICK a \in 0..written : /\ Cuts(ends, messages, a, written)
                              /\ budget = Limit - Smaller(a, Limit)
                              /\ (truncated <=> a > Limit)
  BY DEF QueueInv
<1>2. /\ messages \in Seq(Item) /\ written \in Nat /\ a \in Nat /\ MaxBytes \in Nat
      /\ Limit \in Nat \ {0} /\ budget \in Nat
  BY StreamAssumption DEF StreamTypeOK
<1>3. CASE UNCHANGED QueueVars
  BY <1>3 DEF QueueInv, QueueVars
<1>4. ASSUME NEW n \in 1..MaxBytes, Write(n)
      PROVE  QueueInv'
  <2>0. n \in Nat \ {0}
    BY <1>4
  <2>1. /\ written' = written + n /\ written + n <= MaxBytes /\ written + n \in ends
        /\ messages' = Append(messages, Out([i \in 1..n |-> written + i]))
        /\ UNCHANGED <<ends, budget, truncated>>
    BY <1>2, <1>4 DEF Write, genVars, setting, StreamTypeOK
  <2>2. /\ Run(written, written + n) = [i \in 1..n |-> written + i]
        /\ Out(Run(written, written + n)) \in Item
    BY <1>2, <2>0, <2>1, WriteIsItem
  <2>3. Whole(ends, written, written + n)
    <3>1. written \in ends \cup {0}
      BY DEF QueueInv
    <3>2. \A i \in 1..n - 1 : written + i \notin ends
      BY <1>4 DEF Write
    <3>3. ASSUME NEW c \in ends, written < c, c < written + n
          PROVE  FALSE
      <4>1. c \in Nat
        BY DEF StreamTypeOK
      <4>2. c - written \in 1..n - 1 /\ written + (c - written) = c
        BY <1>2, <2>0, <3>3, <4>1
      <4> QED
        BY <3>2, <4>2
    <3> QED
      BY <2>1, <3>1, <3>3 DEF Whole
  <2>4. Holds(ends, Out(Run(written, written + n)), written, written + n)
    BY <1>2, <2>0, <2>3 DEF Holds, Out
  <2>5. Cuts(ends, messages', a, written')
    BY <1>1, <1>2, <2>1, <2>2, <2>4, CutsAppend
  <2>6. a \in 0..written' /\ budget' = budget /\ (truncated' <=> truncated)
    BY <1>2, <2>0, <2>1
  <2> QED
    BY <1>1, <2>1, <2>5, <2>6 DEF QueueInv
<1>5. ASSUME NEW kind \in {"error", "end"}, messages' = Append(messages, Mark(kind)),
             UNCHANGED <<ends, written, budget, truncated>>
      PROVE  QueueInv'
  <2>1. Mark(kind) \in Item /\ Holds(ends, Mark(kind), written, written)
    <3>1. Run(written, written) = <<>>
      BY <1>2, RunIsSeq
    <3>2. Mark(kind) \in Item
      BY DEF Mark, Item
    <3> QED
      BY <1>2, <3>1, <3>2 DEF Mark, Holds
  <2>2. Cuts(ends, messages', a, written)
    BY <1>1, <1>2, <1>5, <2>1, CutsAppend
  <2> QED
    BY <1>1, <1>5, <2>2 DEF QueueInv
<1>6. ASSUME messages # <<>>, messages' = Tail(messages),
             Head(messages).kind # "out",
             UNCHANGED <<ends, written, budget, truncated>>
      PROVE  QueueInv'
  <2>1. PICK c \in 0..written : /\ Holds(ends, Head(messages), a, c)
                                /\ Cuts(ends, Tail(messages), c, written)
    BY <1>1, <1>2, <1>6, CutsTail
  <2>2. c = a
    BY <1>6, <2>1 DEF Holds
  <2> QED
    BY <1>1, <1>6, <2>1, <2>2 DEF QueueInv
<1>7. CASE GetOutput
  <2>1. PICK c \in 0..written :
            /\ Cuts(ends, Tail(messages), c, written)
            /\ budget' = Limit - Smaller(c, Limit) /\ (truncated' <=> c > Limit)
    BY <1>7, OutputTaken
  <2>2. messages' = Tail(messages) /\ UNCHANGED <<written, ends>>
    BY <1>7 DEF GetOutput, GenFrame, setting
  <2> QED
    BY <2>1, <2>2 DEF QueueInv
<1>8. CASE ReaderEnds
  BY <1>5, <1>8 DEF ReaderEnds, genVars, setting
<1>9. CASE ReaderFails
  BY <1>5, <1>9 DEF ReaderFails, genVars, setting
<1>10. CASE GetError \/ GetEnd
  BY <1>6, <1>10 DEF GetError, GetEnd, GenFrame, setting
<1>11. CASE Exit \/ TimeoutKills \/ Elapse \/ DestroyElsewhere \/ HostStep \/ Leave
  <2>1. UNCHANGED QueueVars
    BY <1>11 DEF Exit, TimeoutKills, Elapse, DestroyElsewhere, HostStep, Leave, Take,
       AskAgain, StopIteration, Forward, ForwardException, ForwardEnd, GetEvent, Join,
       HostFrame, QueueVars, genVars, procVars, setting
  <2> QED
    BY <1>3, <2>1
<1>12. CASE Begin \/ Overrun \/ Wait \/ Suffix \/ Inspect
  <2>1. UNCHANGED QueueVars
    BY <1>12 DEF Begin, Overrun, Wait, Suffix, Inspect, GenFrame, QueueVars, setting
  <2> QED
    BY <1>3, <2>1
<1>13. CASE UNCHANGED vars
  BY <1>3, <1>13 DEF vars, genVars, procVars, QueueVars, setting
<1> QED
  BY <1>4, <1>7, <1>8, <1>9, <1>10, <1>11, <1>12, <1>13 DEF Next, GenStep

-----------------------------------------------------------------------------
(* The end of the queue, and where everybody is.                           *)

EndVars == <<reader, messages, gen, handed>>

LEMMA EndStep ==
    ASSUME StreamTypeOK, EndIsLast, Places, [Next]_vars
    PROVE  EndIsLast'
<1>1. messages \in Seq(Item) /\ Len(messages) \in Nat
  BY DEF StreamTypeOK
<1>2. CASE UNCHANGED EndVars
  BY <1>2 DEF EndIsLast, EndVars, Flowing, Ending, LastIs
<1>3. ASSUME NEW item \in Item, messages' = Append(messages, item),
             UNCHANGED <<gen, handed>>, reader # "idle", reader # "done", reader' # "idle",
             item.kind = "out" => reader = "reading" /\ reader' = "reading",
             item.kind = "error" => reader = "reading" /\ reader' = "failed",
             item.kind = "end" => reader' = "done",
             item.kind \in {"out", "error", "end"}
      PROVE  EndIsLast'
  <2>1. /\ Len(messages') = Len(messages) + 1 /\ messages' # <<>>
        /\ \A i \in 1..Len(messages) : messages'[i] = messages[i]
        /\ messages'[Len(messages')] = item
    BY <1>1, <1>3, AppendIs
  <2>2. gen' # "unstarted" /\ ~Ending'
    BY <1>3 DEF EndIsLast, Ending
  <2>3. \A i \in 1..Len(messages) : messages[i].kind # "end"
    BY <1>3 DEF EndIsLast
  <2>4. reader' = "reading" => \A i \in 1..Len(messages') : messages'[i].kind = "out"
    <3>1. reader' = "reading" => item.kind = "out" /\ reader = "reading"
      BY <1>3
    <3> QED
      BY <1>1, <2>1, <3>1 DEF EndIsLast
  <2>5. \A i \in 1..Len(messages') :
            messages'[i].kind = "end" => i = Len(messages') /\ reader' = "done"
    BY <1>1, <1>3, <2>1, <2>3
  <2>6. /\ reader' = "failed" => LastIs("error")'
        /\ reader' = "done" => LastIs("end")'
    BY <1>3, <2>1 DEF LastIs
  <2> QED
    BY <1>3, <2>2, <2>4, <2>5, <2>6 DEF EndIsLast
<1>4. ASSUME messages # <<>>, messages' = Tail(messages), gen = "waiting", reader' = reader,
             Head(messages).kind = "out" => Flowing',
             Head(messages).kind = "error" => gen' = "failed",
             Head(messages).kind = "end" => gen' \in {"suffix", "inspect"},
             Head(messages).kind \in {"out", "error", "end"}
      PROVE  EndIsLast'
  <2>1. /\ Head(messages) = messages[1]
        /\ Len(messages) \in Nat \ {0} /\ Len(messages') = Len(messages) - 1
        /\ \A i \in 1..Len(messages') : messages'[i] = messages[i + 1]
        /\ messages' = <<>> <=> Len(messages) = 1
    BY <1>1, <1>4, TailIs
  <2>2. gen' # "unstarted" /\ reader # "idle"
    BY <1>4 DEF EndIsLast, Flowing
  <2>3. reader' = "reading" => \A i \in 1..Len(messages') : messages'[i].kind = "out"
    BY <1>4, <2>1 DEF EndIsLast
  <2>4. ASSUME NEW i \in 1..Len(messages'), messages'[i].kind = "end"
        PROVE  i = Len(messages') /\ reader' = "done"
    <3>1. i + 1 \in 1..Len(messages) /\ messages[i + 1].kind = "end"
      BY <2>1, <2>4
    <3>2. i + 1 = Len(messages) /\ reader = "done"
      BY <3>1 DEF EndIsLast
    <3>3. i = Len(messages')
      <4>1. i \in Nat /\ Len(messages') = Len(messages) - 1
        BY <2>1, <2>4
      <4> QED
        BY <1>1, <3>2, <4>1
    <3> QED
      BY <1>4, <3>2, <3>3
  <2>5. CASE Head(messages).kind = "end"
    <3>1. Len(messages) = 1 /\ reader = "done"
      BY <2>1, <2>5 DEF EndIsLast
    <3> QED
      BY <1>4, <2>1, <2>2, <2>3, <2>4, <2>5, <3>1 DEF EndIsLast, Flowing
  <2>6. CASE Head(messages).kind = "error"
    BY <1>4, <2>2, <2>3, <2>4, <2>6 DEF EndIsLast, Flowing, Ending
  <2>7. CASE Head(messages).kind = "out"
    <3>1. ASSUME NEW kind, kind # "out", LastIs(kind)
          PROVE  LastIs(kind)'
      BY <1>1, <2>1, <2>7, <3>1 DEF LastIs
    <3>2. ~Ending'
      BY <1>4, <2>7 DEF Flowing, Ending
    <3>3. /\ reader' = "failed" => LastIs("error")'
          /\ reader' = "done" => LastIs("end")'
      BY <1>4, <3>1 DEF EndIsLast, Flowing
    <3> QED
      BY <2>2, <1>4, <2>3, <2>4, <3>2, <3>3 DEF EndIsLast
  <2> QED
    BY <1>4, <2>5, <2>6, <2>7
<1>5. ASSUME NEW n \in 1..MaxBytes, Write(n)
      PROVE  EndIsLast'
  <2>1. Out([i \in 1..n |-> written + i]) \in Item
    <3>1. n \in Nat /\ written \in Nat /\ MaxBytes \in Nat
      BY <1>5, StreamAssumption DEF StreamTypeOK
    <3>2. written + n <= MaxBytes
      BY <1>5, <3>1 DEF Write, StreamTypeOK
    <3> QED
      BY <3>1, <3>2, WriteIsItem
  <2> QED
    BY <1>3, <1>5, <2>1 DEF Write, Out, genVars
<1>6. CASE ReaderEnds \/ ReaderFails
  <2>1. Mark("end") \in Item /\ Mark("error") \in Item
    BY DEF Mark, Item
  <2> QED
    BY <1>3, <1>6, <2>1 DEF ReaderEnds, ReaderFails, Mark, genVars
<1>7. CASE GetOutput \/ GetError \/ GetEnd
  <2>1. StreamData(Head(messages).bytes) = <<>> \/
        StreamData(Head(messages).bytes) # <<>>
    OBVIOUS
  <2> QED
    BY <1>4, <1>7 DEF GetOutput, GetError, GetEnd, At, GenFrame, Flowing, Out
<1>8. CASE Begin
  BY <1>8 DEF Begin, At, EndIsLast, Flowing, Ending, LastIs
<1>9. CASE Overrun \/ Wait
  BY <1>9 DEF Overrun, Wait, At, EndIsLast, Flowing, Ending, LastIs
<1>10. CASE Suffix \/ Inspect
  BY <1>10 DEF Suffix, Inspect, At, Mark, EndIsLast, Flowing, Ending
<1>11. CASE AskAgain \/ Forward
  <2>1. CASE UNCHANGED gen
    BY <1>2, <1>11, <2>1 DEF AskAgain, Forward, HostFrame, procVars, EndVars
  <2>2. CASE gen = "yielded" /\ gen' = ResumesAt
    BY <1>11, <2>2 DEF AskAgain, Forward, HostFrame, procVars, EndIsLast, Places,
       Flowing, Ending, LastIs, ResumesAt
  <2> QED
    BY <1>11, <2>1, <2>2 DEF AskAgain, Forward, Places
<1>12. CASE Leave
  BY <1>12 DEF Leave, HostFrame, procVars, EndIsLast, Places, Flowing, Ending, LastIs
<1>13. CASE Take \/ StopIteration \/ ForwardException \/ ForwardEnd \/ GetEvent \/ Join
  <2>1. UNCHANGED EndVars
    BY <1>13 DEF Take, StopIteration, ForwardException, ForwardEnd, GetEvent, Join,
       HostFrame, procVars, EndVars
  <2> QED
    BY <1>2, <2>1
<1>14. CASE Exit \/ TimeoutKills \/ Elapse \/ DestroyElsewhere
  <2>1. UNCHANGED EndVars
    BY <1>14 DEF Exit, TimeoutKills, Elapse, DestroyElsewhere, procVars, genVars, EndVars
  <2> QED
    BY <1>2, <2>1
<1>15. CASE UNCHANGED vars
  BY <1>2, <1>15 DEF vars, genVars, procVars, EndVars
<1> QED
  BY <1>5, <1>6, <1>7, <1>8, <1>9, <1>10, <1>11, <1>12, <1>13, <1>14, <1>15
  DEF Next, GenStep, HostStep
LEMMA PlacesStep ==
    ASSUME StreamTypeOK, Places, [Next]_vars
    PROVE  Places'
<1>1. CASE GenStep
  <2>1. driver' = driver /\ events' = events /\ producer' = producer /\ app' = app
    BY <1>1 DEF GenStep, Begin, Overrun, Wait, GetOutput, GetError, GetEnd, Suffix, Inspect,
       GenFrame, hostVars, setting
  <2>2. /\ gen' = "yielded" => handed'.kind \in {"out", "notice", "status"}
        /\ gen' = "suffix" \/ (gen' = "yielded" /\ handed'.kind = "notice") => truncated'
        /\ gen' # "closed"
    <3>1. CASE Begin \/ Overrun \/ Wait \/ GetError \/ GetEnd
      BY <3>1 DEF Begin, Overrun, Wait, GetError, GetEnd, At
    <3>2. CASE GetOutput
      BY <3>2 DEF GetOutput, At, Out
    <3>3. CASE Suffix \/ Inspect
      BY <3>3 DEF Suffix, Inspect, At, Mark, Places
    <3> QED
      BY <1>1, <3>1, <3>2, <3>3 DEF GenStep
  <2>3. driver = "sync" /\ app = "holding" => FALSE
    BY <1>1 DEF GenStep, Begin, Overrun, Wait, GetOutput, GetError, GetEnd, Suffix, Inspect,
       At, Asked
  <2> QED
    BY <2>1, <2>2, <2>3 DEF Places
<1>2. CASE Take \/ StopIteration \/ ForwardException \/ ForwardEnd \/ GetEvent \/ Join
  BY <1>2 DEF Take, StopIteration, ForwardException, ForwardEnd, GetEvent, Join, Deliver,
     HostFrame, Places, setting
<1>3. CASE AskAgain \/ Forward \/ Leave
  BY <1>3 DEF AskAgain, Forward, Leave, HostFrame, ResumesAt, Places, setting, StreamTypeOK
<1>4. CASE \/ \E n \in 1..MaxBytes : Write(n)
           \/ Exit \/ TimeoutKills \/ Elapse \/ DestroyElsewhere
           \/ ReaderEnds \/ ReaderFails \/ UNCHANGED vars
  <2>1. UNCHANGED <<driver, gen, handed, truncated, events, producer, app>>
    BY <1>4 DEF Write, Exit, TimeoutKills, Elapse, DestroyElsewhere, ReaderEnds,
       ReaderFails, vars, genVars, hostVars, setting
  <2> QED
    BY <2>1 DEF Places
<1> QED
  BY <1>1, <1>2, <1>3, <1>4 DEF Next, HostStep

-----------------------------------------------------------------------------
(* The flow.                                                               *)

\* What the generator has said, by the place it is at.
Stage(t) ==
    CASE gen \in {"unstarted", "head", "waiting", "suffix"} -> t = 0
      [] gen = "yielded"   -> t = CASE handed.kind = "out"    -> 0
                                    [] handed.kind = "notice" -> 1
                                    [] OTHER                  -> 2
      [] gen = "inspect"   -> t = IF truncated THEN 1 ELSE 0
      [] gen = "exhausted" -> t = 2
      [] OTHER             -> t \in {0, 1}

\* The chunk at the yield has not gone on: to the worker thread, or the application.
Undelivered == gen = "yielded" /\ (driver = "async" \/ app = "asking")

Finished == reader = "done"

\* The end of the event loop's queue, where the generator or its exception goes on.
Fed(m, u) ==
    CASE producer = "raising"  -> u = 3
      [] producer = "finished" -> u = 4
      [] producer = "iterating" /\ Undelivered ->
             \E t \in 0..2 :
                 /\ Stage(t)
                 /\ Link(Sight, Redacted(handed), m, u, Limit - budget, t, written, Finished)
      [] OTHER -> m = Limit - budget /\ Stage(u)

\* The application has got the first bytes as they are to be seen, and while it goes
\* on the queue of the event loop leads from there to where the generator is.
Flow ==
    /\ received = View(Sight, 0, Len(received)) /\ Len(received) \in 0..(Limit - budget)
    /\ \E h \in 0..2 :
           /\ notices = Said(h, written)
           /\ h = 2 => Len(received) = Smaller(written, Limit) /\ Finished
           /\ app \in {"joining", "done"} => h = 2
           /\ app \in {"asking", "holding"} =>
                  \E m \in 0..(Limit - budget), u \in 0..4 :
                      /\ Chain(Sight, events, Len(received), h, m, u, written, Finished)
                      /\ Fed(m, u)

\* What is left of a limit when more of it is used.
LEMMA LeftOver ==
    ASSUME NEW l \in Nat, NEW b \in Nat, NEW c \in Nat, c <= b, b <= l
    PROVE  /\ l - c \in Nat /\ l - b \in Nat /\ l - b <= l - c
           /\ 0..(l - b) \subseteq 0..(l - c)
           /\ l - c <= l - b => c = b
OBVIOUS

LEMMA LinkMoves ==
    ASSUME NEW item, NEW a, NEW b, NEW c, NEW d
    PROVE  /\ \A w, v \in Nat : w <= v /\ Link(Sight, item, a, b, c, d, w, FALSE)
                                => Link(Sight, item, a, b, c, d, v, FALSE)
           /\ \A w : Link(Sight, item, a, b, c, d, w, FALSE) => Link(Sight, item, a, b, c, d, w, TRUE)
  BY StreamAssumption DEF Link

\* With the end of the queue taken, the count and the flag speak of all that was
\* written.
LEMMA AllCounted ==
    ASSUME StreamTypeOK, QueueInv, EndIsLast, Ending
    PROVE  /\ Finished /\ Limit - budget = Smaller(written, Limit)
           /\ truncated <=> written > Limit
<1>1. PICK a \in 0..written : /\ Cuts(ends, messages, a, written)
                              /\ budget = Limit - Smaller(a, Limit)
                              /\ (truncated <=> a > Limit)
  BY DEF QueueInv
<1>2. written \in Nat /\ a \in Nat /\ Limit \in Nat
  BY StreamAssumption DEF StreamTypeOK
<1>3. messages = <<>> /\ reader = "done"
  BY DEF EndIsLast
<1>4. a = written
  BY <1>1, <1>2, <1>3, CutsEmpty
<1>5. Smaller(written, Limit) \in Nat
  BY <1>2 DEF Smaller
<1> QED
  BY <1>1, <1>2, <1>3, <1>4, <1>5 DEF Finished

\* The application gets the next item of the flow.
LEMMA NextItem ==
    ASSUME NEW item \in Item, NEW n \in Nat, NEW h \in 0..2, NEW k \in Nat, NEW u \in 0..4,
           NEW done, received = View(Sight, 0, n), notices = Said(h, written),
           Link(Sight, item, n, h, k, u, written, done), item.kind \notin {"error", "end"},
           Deliver(item)
    PROVE  /\ received' = View(Sight, 0, k) /\ Len(received') = k
           /\ u \in 0..2 /\ notices' = Said(u, written)
           /\ u = 2 => k = Smaller(written, Limit) /\ done
<1>1. n <= k /\ item.bytes = View(Sight, n, k) /\ (item.kind # "out" => n = k)
  BY DEF Link, Carries
<1>2. received' = View(Sight, 0, k) /\ Len(received') = k
  <2>1. 0 \in Nat /\ 0 <= n /\ 0 <= k /\ k - 0 = k
    BY <1>1
  <2>2. View(Sight, 0, n) \o View(Sight, n, k) = View(Sight, 0, k)
    BY <1>1, <2>1, SightIs, ViewsJoin
  <2>3. Len(View(Sight, 0, k)) = k
    BY <2>1, SightIs, ViewIsSeq
  <2> QED
    BY <1>1, <2>2, <2>3 DEF Deliver
<1>3. CASE item.kind = "out"
  <2>1. h = 0 /\ u = 0
    BY <1>3 DEF Link
  <2>2. notices' = notices
    BY <1>3 DEF Deliver
  <2> QED
    BY <1>2, <2>1, <2>2
<1>4. CASE item.kind = "notice"
  <2>1. h = 0 /\ u = 1
    BY <1>4 DEF Link
  <2>2. notices' = Append(notices, "notice")
    BY <1>4 DEF Deliver
  <2>3. notices' = Said(1, written)
    BY <2>1, <2>2 DEF Said
  <2> QED
    BY <1>2, <2>1, <2>3
<1>5. CASE item.kind = "status"
  <2>1. /\ h = IF written > Limit THEN 1 ELSE 0
        /\ u = 2 /\ n = Smaller(written, Limit) /\ done
    BY <1>5 DEF Link
  <2>2. notices' = Append(notices, "status")
    BY <1>5 DEF Deliver
  <2>3. notices' = Said(2, written)
    BY <2>1, <2>2 DEF Said
  <2> QED
    BY <1>1, <1>2, <1>5, <2>1, <2>3
<1> QED
  BY <1>3, <1>4, <1>5 DEF Link
HostKept == UNCHANGED <<driver, ends, producer, events, app, received, notices>>
GenKept  == UNCHANGED <<gen, handed, budget, truncated>>

\* The process writes on, or the reader comes to its end: what is in flight stays
\* true.
LEMMA FlowWhileReading ==
    ASSUME StreamTypeOK, written' \in Nat, Flow, HostKept, GenKept,
           \/ written' = written /\ Finished' = Finished
           \/ written <= written' /\ ~Finished /\ ~Finished'
           \/ written' = written /\ ~Finished /\ Finished'
    PROVE  Flow'
<1>1. written \in Nat /\ written' \in Nat /\ Sight' = Sight
  BY SightIs DEF StreamTypeOK, HostKept
<1>2. PICK h \in 0..2 :
          /\ notices = Said(h, written)
          /\ h = 2 => Len(received) = Smaller(written, Limit) /\ Finished
          /\ app \in {"joining", "done"} => h = 2
          /\ app \in {"asking", "holding"} =>
                 \E m \in 0..(Limit - budget), u \in 0..4 :
                     /\ Chain(Sight, events, Len(received), h, m, u, written, Finished)
                     /\ Fed(m, u)
  BY DEF Flow
<1>3. /\ notices' = Said(h, written')
      /\ h = 2 => Len(received') = Smaller(written', Limit) /\ Finished'
  BY <1>2 DEF Said, HostKept
<1>4. ASSUME NEW item, NEW a, NEW b, NEW c, NEW d, Link(Sight, item, a, b, c, d, written, Finished)
      PROVE  Link(Sight, item, a, b, c, d, written', Finished')
  BY <1>1, <1>4, LinkMoves DEF Finished
<1>5. ASSUME NEW q, NEW a, NEW b, NEW c, NEW d, Chain(Sight, q, a, b, c, d, written, Finished)
      PROVE  Chain(Sight, q, a, b, c, d, written', Finished')
  BY <1>4, <1>5 DEF Chain
<1>6. ASSUME NEW m, NEW u, Fed(m, u)
      PROVE  Fed(m, u)'
  <2>1. Undelivered' <=> Undelivered
    BY DEF Undelivered, HostKept, GenKept
  <2>2. \A t : Stage(t)' <=> Stage(t)
    BY DEF Stage, GenKept
  <2>3. /\ producer' = producer /\ Limit - budget = Limit - budget'
        /\ handed' = handed
    BY DEF HostKept, GenKept
  <2> QED
    BY <1>1, <1>4, <1>6, <2>1, <2>2, <2>3 DEF Fed
<1> QED
  BY <1>1, <1>2, <1>3, <1>5, <1>6 DEF Flow, HostKept, GenKept
\* The generator goes on: while somebody asks, nothing of it is in flight.
LEMMA FlowThroughGenerator ==
    ASSUME StreamTypeOK, QueueInv, EndIsLast, Places, Flow, GenStep
    PROVE  Flow'
<1>1. PICK h \in 0..2 :
          /\ notices = Said(h, written)
          /\ h = 2 => Len(received) = Smaller(written, Limit) /\ Finished
          /\ app \in {"joining", "done"} => h = 2
          /\ app \in {"asking", "holding"} =>
                 \E m \in 0..(Limit - budget), u \in 0..4 :
                     /\ Chain(Sight, events, Len(received), h, m, u, written, Finished)
                     /\ Fed(m, u)
  BY DEF Flow
<1>2. /\ HostKept /\ written' = written /\ Asked /\ gen # "yielded"
      /\ Finished' = Finished /\ Sight' = Sight
  <2>1. HostKept /\ written' = written
    BY DEF GenStep, Begin, Overrun, Wait, GetOutput, GetError, GetEnd, Suffix, Inspect,
       GenFrame, hostVars, setting, HostKept
  <2>2. Asked /\ gen # "yielded"
    BY DEF GenStep, Begin, Overrun, Wait, GetOutput, GetError, GetEnd, Suffix, Inspect, At
  <2>3. reader' = reader \/ (Begin /\ gen = "unstarted" /\ reader' = "reading")
    BY DEF GenStep, Begin, Overrun, Wait, GetOutput, GetError, GetEnd, Suffix, Inspect, At
  <2>4. gen = "unstarted" => reader = "idle"
    BY DEF EndIsLast
  <2> QED
    BY <2>1, <2>2, <2>3, <2>4, SightIs DEF Finished, HostKept
<1>3. producer = "iterating" /\ (driver = "sync" => app = "asking")
  BY <1>2 DEF Asked, Places, StreamTypeOK
<1>4. /\ budget' \in Nat /\ budget' <= budget /\ budget \in Nat
      /\ budget <= Limit /\ Limit \in Nat
  <2>1. CASE GetOutput
    <3>1. budget' \in 0..budget
      BY <2>1, OutputTaken
    <3> QED
      BY <3>1, StreamAssumption DEF StreamTypeOK
  <2>2. CASE ~GetOutput
    <3>1. budget' = budget
      BY <2>2 DEF GenStep, Begin, Overrun, Wait, GetError, GetEnd, Suffix, Inspect
    <3> QED
      BY <3>1, StreamAssumption DEF StreamTypeOK
  <2> QED
    BY <2>1, <2>2
<1>5. ASSUME NEW m \in 0..(Limit - budget), NEW u \in 0..4, Fed(m, u)
      PROVE  Fed(m, u)'
  <2>1. m = Limit - budget /\ Stage(u)
    BY <1>2, <1>3, <1>5 DEF Fed, Undelivered
  <2>2. producer' = "iterating" /\ driver' = driver /\ app' = app /\ events' = events
    BY <1>2, <1>3 DEF HostKept
  <2>3. gen' = "yielded" => Undelivered'
    BY <1>3, <2>2, StreamAssumption DEF Undelivered, StreamTypeOK
  <2>4. ASSUME gen' # "yielded", budget' = budget, Stage(u)'
        PROVE  Fed(m, u)'
    BY <2>1, <2>2, <2>4 DEF Fed, Undelivered
  <2>5. ASSUME NEW t \in 0..2, gen' = "yielded", Stage(t)',
               Link(Sight, Redacted(handed'), m, u, Limit - budget', t, written, Finished)
        PROVE  Fed(m, u)'
    <3>1. Link(Sight', Redacted(handed'), m, u, Limit - budget', t, written', Finished')
      BY <1>2, <2>5
    <3> QED
      BY <2>2, <2>3, <2>5, <3>1 DEF Fed
  <2>6. CASE Begin \/ Overrun \/ Wait \/ GetError
    <3>1. Stage(u)' /\ gen' # "yielded" /\ budget' = budget
      BY <2>1, <2>6 DEF Begin, Overrun, Wait, GetError, At, Stage
    <3> QED
      BY <2>4, <3>1
  <2>7. CASE GetEnd
    <3>1. Stage(u)' /\ gen' # "yielded" /\ budget' = budget
      BY <2>1, <2>7 DEF GetEnd, At, Stage
    <3> QED
      BY <2>4, <3>1
  <2>8. CASE GetOutput
    <3>1. u = 0
      BY <2>1, <2>8 DEF GetOutput, At, Stage
    <3> DEFINE data == StreamData(Head(messages).bytes)
    <3>2. /\ data \in Seq(Symbol) /\ Len(data) = budget - budget'
          /\ Redact(data) = View(Sight, m, Limit - budget')
      BY <2>1, <2>8, OutputTaken
    <3>3. CASE data = <<>>
      <4>1. budget' = budget
        BY <1>4, <3>2, <3>3
      <4>2. gen' = "head"
        BY <2>8, <3>3 DEF GetOutput, At
      <4> QED
        BY <2>4, <3>1, <4>1, <4>2 DEF Stage
    <3>4. CASE data # <<>>
      <4>1. gen' = "yielded" /\ handed' = Out(data)
        BY <2>8, <3>4 DEF GetOutput, At
      <4>2. Stage(0)'
        BY <4>1 DEF Stage, Out
      <4>3. m <= Limit - budget'
        BY <1>4, <2>1, LeftOver
      <4>4. Redacted(handed') = Out(Redact(data))
        BY <4>1 DEF Redacted, Out
      <4>5. Link(Sight, Redacted(handed'), m, u, Limit - budget', 0, written, Finished)
        BY <3>1, <3>2, <4>3, <4>4 DEF Link, Carries, Out
      <4> QED
        BY <2>5, <4>1, <4>2, <4>5
    <3> QED
      BY <3>3, <3>4
  <2>9. CASE Suffix \/ Inspect
    <3>1. budget' = budget /\ gen \in {"suffix", "inspect"} /\ Ending
      BY <2>9 DEF Suffix, Inspect, At, Ending
    <3>2. /\ Finished /\ m = Smaller(written, Limit)
          /\ truncated <=> written > Limit
      BY <2>1, <3>1, AllCounted
    <3>3. View(Sight, m, m) = <<>> /\ m \in Nat
      BY <1>4, <2>1, ViewEmpty
    <3>4. CASE Suffix
      <4>1. /\ gen' = "yielded" /\ handed' = Mark("notice") /\ truncated
            /\ u = 0
        BY <2>1, <3>4 DEF Suffix, At, Places, Stage
      <4>2. Stage(1)'
        BY <4>1 DEF Stage, Mark
      <4>3. Link(Sight, Redacted(handed'), m, u, Limit - budget', 1, written, Finished)
        BY MarkShown, <2>1, <3>1, <3>2, <3>3, <4>1 DEF Link, Carries, Mark
      <4> QED
        BY <2>5, <4>1, <4>2, <4>3
    <3>5. CASE Inspect /\ gen' = "yielded"
      <4>1. handed' = Mark("status") /\ u = (IF truncated THEN 1 ELSE 0)
        BY <2>1, <3>5 DEF Inspect, At, Stage
      <4>2. Stage(2)'
        BY <3>5, <4>1 DEF Stage, Mark
      <4>3. Link(Sight, Redacted(handed'), m, u, Limit - budget', 2, written, Finished)
        BY MarkShown, <2>1, <3>1, <3>2, <3>3, <4>1 DEF Link, Carries, Mark
      <4> QED
        BY <2>5, <3>5, <4>2, <4>3
    <3>6. CASE Inspect /\ gen' # "yielded"
      <4>1. gen' = "failed" /\ u \in {0, 1}
        BY <2>1, <3>6 DEF Inspect, At, Stage
      <4> QED
        BY <2>4, <3>1, <4>1 DEF Stage
    <3> QED
      BY <2>9, <3>4, <3>5, <3>6
  <2> QED
    BY <2>6, <2>7, <2>8, <2>9 DEF GenStep
<1>6. 0..(Limit - budget) \subseteq 0..(Limit - budget')
  BY <1>4, LeftOver
<1>7. /\ received' = View(Sight', 0, Len(received')) /\ Len(received') \in 0..(Limit - budget')
      /\ notices' = Said(h, written')
      /\ h = 2 => Len(received') = Smaller(written', Limit) /\ Finished'
      /\ app' \in {"joining", "done"} => h = 2
  BY <1>1, <1>2, <1>6 DEF Flow, HostKept
<1>8. ASSUME app' \in {"asking", "holding"}
      PROVE  \E m \in 0..(Limit - budget'), u \in 0..4 :
                 /\ Chain(Sight', events', Len(received'), h, m, u, written', Finished')
                 /\ Fed(m, u)'
  <2>1. PICK m \in 0..(Limit - budget), u \in 0..4 :
            /\ Chain(Sight, events, Len(received), h, m, u, written, Finished)
            /\ Fed(m, u)
    BY <1>1, <1>2, <1>8 DEF HostKept
  <2>2. Chain(Sight', events', Len(received'), h, m, u, written', Finished')
    BY <1>2, <2>1 DEF HostKept
  <2>3. Fed(m, u)'
    BY <1>5, <2>1
  <2> QED
    BY <1>6, <2>2, <2>3
<1> QED
  BY <1>7, <1>8 DEF Flow
\* The application and the worker thread go on.
LEMMA FlowThroughHost ==
    ASSUME StreamTypeOK, Places, Flow, HostStep \/ Leave
    PROVE  Flow'
<1>1. PICK h \in 0..2 :
          /\ notices = Said(h, written)
          /\ h = 2 => Len(received) = Smaller(written, Limit) /\ Finished
          /\ app \in {"joining", "done"} => h = 2
          /\ app \in {"asking", "holding"} =>
                 \E m \in 0..(Limit - budget), u \in 0..4 :
                     /\ Chain(Sight, events, Len(received), h, m, u, written, Finished)
                     /\ Fed(m, u)
  BY DEF Flow
<1>2. /\ driver' = driver /\ written' = written /\ Finished' = Finished
      /\ handed' = handed /\ budget' = budget /\ truncated' = truncated /\ Sight' = Sight
  <2>1. UNCHANGED HostFrame
    BY DEF HostStep, Take, AskAgain, StopIteration, Forward, ForwardException, ForwardEnd,
       GetEvent, Join, Leave
  <2> QED
    BY <2>1, SightIs DEF HostFrame, procVars, setting, Finished
<1>3. /\ received = View(Sight, 0, Len(received)) /\ Len(received) \in 0..(Limit - budget)
      /\ events \in Seq(Item) /\ handed \in Item /\ Redacted(handed) \in Item
      /\ Redacted(handed).kind = handed.kind
      /\ Limit - budget \in Nat /\ Limit - budget \in 0..(Limit - budget)
      /\ Len(received) \in Nat /\ \A m \in 0..(Limit - budget) : m \in Nat
      /\ 0..2 \subseteq 0..4
  BY StreamAssumption, ItemShown DEF Flow, StreamTypeOK
<1>4. ASSUME UNCHANGED <<received, notices>>,
             app' \in {"joining", "done"} => h = 2,
             app' \in {"asking", "holding"} =>
                 \E m \in 0..(Limit - budget), u \in 0..4 :
                     /\ Chain(Sight, events', Len(received), h, m, u, written, Finished)
                     /\ Fed(m, u)'
      PROVE  Flow'
  BY <1>1, <1>2, <1>3, <1>4 DEF Flow
<1>5. ASSUME app \in {"asking", "holding"}
      PROVE  \E m \in 0..(Limit - budget), u \in 0..4 :
                 /\ Chain(Sight, events, Len(received), h, m, u, written, Finished)
                 /\ Fed(m, u)
  BY <1>1, <1>5
<1>6. ASSUME NEW n \in Nat, n = Len(received), NEW item \in Item,
             NEW k \in 0..(Limit - budget), NEW t \in 0..4,
             Link(Sight, item, n, h, k, t, written, Finished), item.kind \notin {"error", "end"},
             Deliver(item),
             \E m \in 0..(Limit - budget), u \in 0..4 :
                 /\ Chain(Sight, events', k, t, m, u, written, Finished)
                 /\ Fed(m, u)'
      PROVE  Flow'
  <2>1. /\ received' = View(Sight, 0, k) /\ Len(received') = k
        /\ t \in 0..2 /\ notices' = Said(t, written)
        /\ t = 2 => k = Smaller(written, Limit) /\ Finished
    BY <1>1, <1>3, <1>6, NextItem
  <2>2. app' = "holding"
    BY <1>6 DEF Deliver
  <2> QED
    BY <1>2, <1>6, <2>1, <2>2 DEF Flow
<1>7. CASE Take
  <2>1. /\ driver = "sync" /\ gen = "yielded" /\ app = "asking" /\ Deliver(Redacted(handed))
        /\ UNCHANGED <<gen, producer, events>>
    BY <1>7 DEF Take
  <2>2. events = <<>> /\ producer = "iterating" /\ handed.kind \in {"out", "notice", "status"}
    BY <2>1 DEF Places
  <2>3. PICK m \in 0..(Limit - budget), u \in 0..4 :
            /\ Chain(Sight, events, Len(received), h, m, u, written, Finished)
            /\ Fed(m, u)
    BY <1>5, <2>1
  <2>4. m = Len(received) /\ u = h
    <3>1. Chain(Sight, <<>>, Len(received), h, m, u, written, Finished)
      BY <2>2, <2>3
    <3>2. h \in 0..4 /\ m \in Nat
      BY <1>3
    <3> QED
      BY <1>3, <3>1, <3>2, ChainEmpty
  <2>5. PICK t \in 0..2 :
            Stage(t) /\ Link(Sight, Redacted(handed), m, u, Limit - budget, t, written, Finished)
    BY <2>1, <2>2, <2>3 DEF Fed, Undelivered
  <2>6. Chain(Sight, events', Limit - budget, t, Limit - budget, t, written, Finished)
    BY <1>3, <2>1, <2>2, ChainOfNothing
  <2>7. ASSUME NEW k, k = Limit - budget
        PROVE  Fed(k, t)'
    <3>1. Stage(t)'
      BY <1>2, <2>1, <2>5 DEF Stage
    <3>2. producer' = "iterating" /\ ~Undelivered'
      BY <1>2, <2>1, <2>2 DEF Undelivered, Deliver
    <3> QED
      BY <1>2, <2>7, <3>1, <3>2 DEF Fed
  <2>8. /\ t \in 0..4
        /\ Link(Sight, Redacted(handed), Len(received), h, Limit - budget, t, written, Finished)
    BY <1>3, <2>4, <2>5
  <2>9. Redacted(handed).kind \notin {"error", "end"}
    BY <1>3, <2>2
  <2>10. \E k \in 0..(Limit - budget), v \in 0..4 :
             /\ Chain(Sight, events', Limit - budget, t, k, v, written, Finished)
             /\ Fed(k, v)'
    BY <1>3, <2>6, <2>7, <2>8
  <2> QED
    BY <1>3, <1>6, <2>1, <2>8, <2>9, <2>10
<1>8. CASE AskAgain
  <2>1. PICK m \in 0..(Limit - budget), u \in 0..4 :
            /\ Chain(Sight, events, Len(received), h, m, u, written, Finished)
            /\ Fed(m, u)
    BY <1>5, <1>8 DEF AskAgain
  <2>2. Fed(m, u)'
    <3>1. CASE driver = "async"
      <4>1. UNCHANGED <<gen, producer>> /\ (Undelivered' <=> Undelivered)
        BY <1>2, <1>8, <3>1 DEF AskAgain, Undelivered
      <4>2. \A t : Stage(t)' <=> Stage(t)
        BY <1>2, <4>1 DEF Stage
      <4> QED
        BY <1>2, <2>1, <4>1, <4>2 DEF Fed
    <3>2. CASE driver = "sync"
      <4>1. gen = "yielded" /\ producer = "iterating" /\ ~Undelivered
        BY <1>8, <3>2 DEF AskAgain, Places, Undelivered
      <4>2. m = Limit - budget /\ Stage(u)
        BY <2>1, <4>1 DEF Fed
      <4>3. gen' = ResumesAt /\ producer' = producer
        BY <1>8, <3>2 DEF AskAgain
      <4>4. gen' # "yielded" /\ Stage(u)'
        BY <1>2, <4>1, <4>2, <4>3 DEF Stage, ResumesAt, Places
      <4> QED
        BY <1>2, <4>1, <4>2, <4>3, <4>4 DEF Fed, Undelivered
    <3> QED
      BY <3>1, <3>2, StreamAssumption DEF StreamTypeOK
  <2> QED
    BY <1>4, <1>8, <2>1, <2>2 DEF AskAgain
<1>9. CASE StopIteration
  <2>1. /\ driver = "sync" /\ app = "asking" /\ app' \in {"done", "raised"}
        /\ app' = "done" => gen = "exhausted"
        /\ UNCHANGED <<received, notices>>
    BY <1>9 DEF StopIteration
  <2>2. ASSUME app' = "done"
        PROVE  h = 2
    <3>1. PICK m \in 0..(Limit - budget), u \in 0..4 :
              /\ Chain(Sight, events, Len(received), h, m, u, written, Finished)
              /\ Fed(m, u)
      BY <1>5, <2>1
    <3>2. events = <<>> /\ producer = "iterating" /\ gen = "exhausted"
      BY <2>1, <2>2 DEF Places
    <3>3. u = 2
      BY <3>1, <3>2 DEF Fed, Undelivered, Stage
    <3>4. Chain(Sight, <<>>, Len(received), h, m, u, written, Finished)
      BY <3>1, <3>2
    <3>5. h \in 0..4 /\ m \in Nat
      BY <1>3
    <3> QED
      BY <1>3, <3>3, <3>4, <3>5, ChainEmpty
  <2> QED
    BY <1>4, <2>1, <2>2
<1>10. CASE Leave
  BY <1>4, <1>10 DEF Leave
<1>11. CASE Join
  BY <1>1, <1>4, <1>11 DEF Join
<1>12. CASE Forward \/ ForwardException \/ ForwardEnd
  <2>1. UNCHANGED <<received, notices, app>> /\ driver = "async"
    BY <1>12 DEF Forward, ForwardException, ForwardEnd
  <2>2. ASSUME app \in {"asking", "holding"}
        PROVE  \E m \in 0..(Limit - budget), u \in 0..4 :
                   /\ Chain(Sight, events', Len(received), h, m, u, written, Finished)
                   /\ Fed(m, u)'
    <3>1. PICK m \in 0..(Limit - budget), u \in 0..4 :
              /\ Chain(Sight, events, Len(received), h, m, u, written, Finished)
              /\ Fed(m, u)
      BY <1>5, <2>2
    <3>2. ASSUME NEW item \in Item, NEW k \in 0..(Limit - budget), NEW t \in 0..4,
                 Link(Sight, item, m, u, k, t, written, Finished), events' = Append(events, item)
          PROVE  Chain(Sight, events', Len(received), h, k, t, written, Finished)
      <4>1. m \in Nat /\ k \in Nat /\ h \in 0..4
        BY <1>3
      <4> QED
        BY <1>3, <3>1, <3>2, <4>1, ChainAppend
    <3>3. \A n \in Nat : View(Sight, n, n) = <<>>
      BY ViewEmpty
    <3>4. Mark("end") \in Item /\ Mark("error") \in Item
      BY DEF Mark, Item
    <3>5. CASE Forward
      <4>1. /\ producer = "iterating" /\ producer' = producer /\ gen = "yielded"
            /\ events' = Append(events, Redacted(handed)) /\ gen' = ResumesAt
        BY <3>5 DEF Forward
      <4>2. PICK t \in 0..2 :
                Stage(t) /\ Link(Sight, Redacted(handed), m, u, Limit - budget, t, written, Finished)
        BY <2>1, <3>1, <4>1 DEF Fed, Undelivered
      <4>3. gen' # "yielded" /\ Stage(t)'
        BY <1>2, <4>1, <4>2 DEF Stage, ResumesAt, Places
      <4>4. ASSUME NEW k, k = Limit - budget
            PROVE  Fed(k, t)'
        BY <1>2, <4>1, <4>3, <4>4 DEF Fed, Undelivered
      <4>5. Chain(Sight, events', Len(received), h, Limit - budget, t, written, Finished)
        BY <1>3, <3>2, <4>1, <4>2
      <4>6. Limit - budget \in 0..(Limit - budget) /\ t \in 0..4
        BY <1>3, <4>2
      <4> QED
        BY <4>4, <4>5, <4>6
    <3>6. CASE ForwardException
      <4>1. /\ producer = "iterating" /\ producer' = "raising" /\ gen \in Raised
            /\ events' = Append(events, Mark("error"))
        BY <3>6 DEF ForwardException
      <4>2. u \in {0, 1}
        BY <3>1, <4>1 DEF Fed, Undelivered, Stage, Raised
      <4>3. Link(Sight, Mark("error"), m, u, m, 3, written, Finished)
        BY <3>3, <4>2 DEF Link, Carries, Mark
      <4>4. Fed(m, 3)'
        BY <4>1 DEF Fed
      <4> QED
        BY <3>2, <3>4, <4>1, <4>3, <4>4
    <3>7. CASE ForwardEnd
      <4>1. /\ producer' = "finished" /\ events' = Append(events, Mark("end"))
            /\ producer = "raising" \/ (producer = "iterating" /\ gen = "exhausted")
        BY <3>7 DEF ForwardEnd
      <4>2. u \in {2, 3}
        BY <3>1, <4>1 DEF Fed, Undelivered, Stage
      <4>3. Link(Sight, Mark("end"), m, u, m, 4, written, Finished)
        BY <3>3, <4>2 DEF Link, Carries, Mark
      <4>4. Fed(m, 4)'
        BY <4>1 DEF Fed
      <4> QED
        BY <3>2, <3>4, <4>1, <4>3, <4>4
    <3> QED
      BY <1>12, <3>5, <3>6, <3>7
  <2> QED
    BY <1>1, <1>4, <2>1, <2>2
<1>13. CASE GetEvent
  <2>1. /\ driver = "async" /\ app = "asking" /\ events # <<>> /\ events' = Tail(events)
        /\ UNCHANGED <<gen, producer>>
    BY <1>13 DEF GetEvent
  <2>2. PICK m \in 0..(Limit - budget), u \in 0..4 :
            /\ Chain(Sight, events, Len(received), h, m, u, written, Finished)
            /\ Fed(m, u)
    BY <1>5, <2>1
  <2>3. PICK k \in 0..m, t \in 0..4 :
            /\ Link(Sight, Head(events), Len(received), h, k, t, written, Finished)
            /\ Chain(Sight, Tail(events), k, t, m, u, written, Finished)
    <3>1. m \in Nat /\ h \in 0..4
      BY <1>3
    <3> QED
      BY <1>3, <2>1, <2>2, <3>1, ChainTail
  <2>4. CASE Head(events).kind = "end"
    <3>1. h = 2
      BY <2>3, <2>4 DEF Link
    <3>2. app' = "joining" /\ UNCHANGED <<received, notices>>
      BY <1>13, <2>4 DEF GetEvent
    <3> QED
      BY <1>4, <3>1, <3>2
  <2>5. CASE Head(events).kind = "error"
    <3>1. app' = "raised" /\ UNCHANGED <<received, notices>>
      BY <1>13, <2>5 DEF GetEvent
    <3> QED
      BY <1>4, <3>1
  <2>6. CASE Head(events).kind \notin {"error", "end"}
    <3>1. Deliver(Head(events)) /\ Head(events) \in Item
      BY <1>3, <1>13, <2>1, <2>6, TailIs DEF GetEvent
    <3>2. Fed(m, u)'
      <4>1. Undelivered' <=> Undelivered
        BY <1>2, <2>1 DEF Undelivered
      <4>2. \A s : Stage(s)' <=> Stage(s)
        BY <1>2, <2>1 DEF Stage
      <4> QED
        BY <1>2, <2>1, <2>2, <4>1, <4>2 DEF Fed
    <3>3. k \in 0..(Limit - budget)
      BY <1>3
    <3>4. Chain(Sight, events', k, t, m, u, written, Finished)
      BY <2>1, <2>3
    <3>5. Len(received) \in Nat
      BY <1>3
    <3> QED
      BY <1>6, <2>3, <2>6, <3>1, <3>2, <3>3, <3>4, <3>5
  <2> QED
    BY <2>4, <2>5, <2>6
<1> QED
  BY <1>7, <1>8, <1>9, <1>10, <1>11, <1>12, <1>13 DEF HostStep

LEMMA FlowStep ==
    ASSUME StreamTypeOK, QueueInv, EndIsLast, Places, Flow, [Next]_vars
    PROVE  Flow'
<1>1. CASE GenStep
  BY <1>1, FlowThroughGenerator
<1>2. CASE HostStep \/ Leave
  BY <1>2, FlowThroughHost
<1>3. ASSUME NEW n \in 1..MaxBytes, Write(n)
      PROVE  Flow'
  <2>1. HostKept /\ GenKept /\ written' \in Nat /\ written <= written'
    BY <1>3 DEF Write, hostVars, genVars, setting, HostKept, GenKept, StreamTypeOK
  <2>2. ~Finished /\ ~Finished'
    BY <1>3 DEF Write, Finished
  <2> QED
    BY <2>1, <2>2, FlowWhileReading
<1>4. CASE ReaderEnds
  <2>1. HostKept /\ GenKept /\ written' \in Nat /\ written' = written
    BY <1>4 DEF ReaderEnds, hostVars, genVars, setting, HostKept, GenKept, StreamTypeOK
  <2>2. ~Finished /\ Finished'
    BY <1>4 DEF ReaderEnds, Finished
  <2> QED
    BY <2>1, <2>2, FlowWhileReading
<1>5. CASE ReaderFails \/ Exit \/ TimeoutKills \/ Elapse \/ DestroyElsewhere \/ UNCHANGED vars
  <2>1. HostKept /\ GenKept /\ written' \in Nat /\ written' = written
    BY <1>5 DEF ReaderFails, Exit, TimeoutKills, Elapse, DestroyElsewhere, vars, procVars,
       hostVars, genVars, setting, HostKept, GenKept, StreamTypeOK
  <2>2. Finished' = Finished
    BY <1>5 DEF ReaderFails, Exit, TimeoutKills, Elapse, DestroyElsewhere, vars, procVars,
       Finished
  <2> QED
    BY <2>1, <2>2, FlowWhileReading
<1> QED
  BY <1>1, <1>2, <1>3, <1>4, <1>5 DEF Next

-----------------------------------------------------------------------------
(* Types, and the invariant.                                               *)

StreamInv == StreamTypeOK /\ QueueInv /\ EndIsLast /\ Places /\ Flow

\* What has been received is bounded by what was written, and by the limit.
LEMMA Bounded ==
    ASSUME NEW w \in 0..MaxBytes, NEW a \in 0..w, NEW b, b = Limit - Smaller(a, Limit),
           NEW r, r = View(Sight, 0, Len(r)), Len(r) \in 0..(Limit - b),
           NEW h \in 0..2, NEW n, n = Said(h, w)
    PROVE  /\ Len(r) <= Smaller(w, Limit)
           /\ r \in Seq(Symbol) /\ n \in Seq({"notice", "status"})
<1>1. MaxBytes \in Nat /\ Limit \in Nat /\ w \in Nat /\ a \in Nat
  BY StreamAssumption
<1>2. Limit - b = Smaller(a, Limit)
  BY <1>1 DEF Smaller
<1>3. Len(r) \in Nat /\ Len(r) <= Smaller(w, Limit) /\ Len(r) <= MaxBytes
  BY <1>1, <1>2 DEF Smaller
<1>6. r \in Seq(Symbol)
  <2>1. \A i \in 1..Len(r) : View(Sight, 0, Len(r))[i] \in Symbol
    <3> SUFFICES ASSUME NEW i \in 1..Len(r)
                 PROVE  View(Sight, 0, Len(r))[i] \in Symbol
      OBVIOUS
    <3>1. i \in 1..(Len(r) - 0) /\ 0 + i = i /\ i \in Nat /\ i \in 1..MaxBytes
      BY <1>1, <1>3
    <3> QED
      BY <3>1, SightIs DEF View, Sight
  <2>2. View(Sight, 0, Len(r)) \in [1..Len(r) -> Symbol]
    BY <1>3, <2>1 DEF View
  <2> QED
    BY <1>3, <2>2
<1>7. n \in Seq({"notice", "status"})
  <2>1. n \in {<<>>, <<"notice">>, <<"status">>, <<"notice", "status">>}
    BY DEF Said
  <2>2. \A n1, n2 \in {"notice", "status"} :
            <<n1>> \in Seq({"notice", "status"}) /\ <<n1, n2>> \in Seq({"notice", "status"})
    OBVIOUS
  <2>3. <<>> \in Seq({"notice", "status"})
    OBVIOUS
  <2> QED
    BY <2>1, <2>2, <2>3
<1> QED
  BY <1>3, <1>6, <1>7

LEMMA TypeStep ==
    ASSUME StreamTypeOK, QueueInv, QueueInv', Flow', [Next]_vars
    PROVE  StreamTypeOK'
<1>a. UNCHANGED setting
  BY DEF Next, GenStep, HostStep, vars, Write, Exit, TimeoutKills, Elapse, DestroyElsewhere,
     ReaderEnds, ReaderFails, Begin, Overrun, Wait, GetOutput, GetError, GetEnd, Suffix,
     Inspect, GenFrame, Take, AskAgain, StopIteration, Forward, ForwardException, ForwardEnd,
     GetEvent, Join, Leave, HostFrame
<1>b. UNCHANGED sandbox \/ Destroy
  BY DEF Next, GenStep, HostStep, vars, Write, Exit, TimeoutKills, Elapse, DestroyElsewhere,
     ReaderEnds, ReaderFails, Begin, Overrun, Wait, GetOutput, GetError, GetEnd, Suffix,
     Inspect, GenFrame, Take, AskAgain, StopIteration, Forward, ForwardException, ForwardEnd,
     GetEvent, Join, Leave, HostFrame
<1>c. /\ driver' \in Drivers /\ wrapped' \in BOOLEAN /\ ends' \subseteq 1..MaxBytes
      /\ alive' \in BOOLEAN /\ refused' \in BOOLEAN
  BY <1>a, <1>b DEF setting, sandbox, Destroy, StreamTypeOK
<1>1. written' \in 0..MaxBytes
  <2>1. CASE UNCHANGED written
    BY <2>1 DEF StreamTypeOK
  <2>2. CASE \E n \in 1..MaxBytes : Write(n)
    BY <2>2 DEF Write, StreamTypeOK
  <2>3. UNCHANGED written \/ \E n \in 1..MaxBytes : Write(n)
    BY DEF Next, GenStep, HostStep, vars, procVars, Exit, TimeoutKills, Elapse,
       DestroyElsewhere, ReaderEnds, ReaderFails, Begin, Overrun, Wait, GetOutput, GetError,
       GetEnd, Suffix, Inspect, GenFrame, Take, AskAgain, StopIteration, Forward,
       ForwardException, ForwardEnd, GetEvent, Join, Leave, HostFrame
  <2> QED
    BY <2>1, <2>2, <2>3
<1>2. received' \in Seq(Symbol) /\ notices' \in Seq({"notice", "status"})
  <2>1. PICK a \in 0..written' : budget' = Limit - Smaller(a, Limit)
    BY DEF QueueInv
  <2>2. PICK h \in 0..2 : notices' = Said(h, written')
    BY DEF Flow
  <2>3. received' = View(Sight, 0, Len(received')) /\ Len(received') \in 0..(Limit - budget')
    BY <1>a, SightIs DEF Flow, setting
  <2> QED
    BY <1>1, <2>1, <2>2, <2>3, Bounded
<1> USE DEF StreamTypeOK
<1>3. /\ Mark("error") \in Item /\ Mark("end") \in Item
      /\ Mark("notice") \in Item /\ Mark("status") \in Item
  BY DEF Mark, Item
<1>4. ASSUME NEW n \in 1..MaxBytes, Write(n)
      PROVE  StreamTypeOK'
  <2>1. Out([i \in 1..n |-> written + i]) \in Item
    <3>1. n \in Nat /\ written \in Nat /\ MaxBytes \in Nat
      BY <1>4, StreamAssumption
    <3>2. written + n <= MaxBytes
      BY <1>4, <3>1 DEF Write
    <3> QED
      BY <3>1, <3>2, WriteIsItem
  <2>2. messages' \in Seq(Item)
    BY <1>4, <2>1, AppendIs DEF Write
  <2> QED
    BY <1>1, <1>2, <1>c, <1>4, <2>2 DEF Write, genVars, hostVars
<1>5. CASE ReaderEnds \/ ReaderFails
  <2>1. PICK m \in Item :
            \/ m = Mark("end") /\ messages' = Append(messages, m)
            \/ m = Mark("error") /\ messages' = Append(messages, m)
    BY <1>3, <1>5 DEF ReaderEnds, ReaderFails
  <2>2. messages' \in Seq(Item)
    <3>1. messages \in Seq(Item) /\ messages' = Append(messages, m)
      BY <2>1
    <3> QED
      BY <3>1, AppendIs
  <2> QED
    BY <1>1, <1>2, <1>c, <1>5, <2>2 DEF ReaderEnds, ReaderFails, genVars, hostVars
<1>6. CASE Exit \/ TimeoutKills \/ Elapse \/ DestroyElsewhere
  <2>1. CASE Exit
    BY <1>1, <1>2, <1>c, <2>1 DEF Exit, genVars, hostVars, procVars
  <2>2. CASE TimeoutKills
    BY <1>1, <1>2, <1>c, <2>2 DEF TimeoutKills, genVars, hostVars, procVars
  <2>3. CASE Elapse
    BY <1>1, <1>2, <1>c, <2>3 DEF Elapse, genVars, hostVars, procVars
  <2>4. CASE DestroyElsewhere
    <3>1. process' \in {"unborn", "running", "exited", "timed_out", "killed"}
      BY <2>4 DEF DestroyElsewhere, Destroy
    <3>2. UNCHANGED <<time, messages, written, reader, gen, handed, budget, truncated,
                      producer, events, app>>
      BY <2>4 DEF DestroyElsewhere, genVars, hostVars
    <3> QED
      BY <1>1, <1>2, <1>c, <3>1, <3>2
  <2> QED
    BY <1>6, <2>1, <2>2, <2>3, <2>4
<1>7. CASE Begin \/ Overrun \/ Wait
  <2>1. CASE Begin
    <3>1. /\ process' \in {"unborn", "running", "exited", "timed_out", "killed"}
          /\ reader' \in {"idle", "reading", "failed", "done"}
          /\ gen' \in {"head", "failed"}
      BY <2>1 DEF Begin, At
    <3>2. UNCHANGED <<time, messages, written, handed, budget, truncated,
                      producer, events, app>>
      BY <2>1 DEF Begin, GenFrame, hostVars
    <3> QED
      BY <1>1, <1>2, <1>c, <3>1, <3>2 DEF Raised
  <2>2. CASE Overrun
    BY <1>1, <1>2, <1>c, <2>2 DEF Overrun, At, Destroy, Raised, GenFrame, hostVars
  <2>3. CASE Wait
    BY <1>1, <1>2, <1>c, <2>3 DEF Wait, At, Raised, GenFrame, hostVars
  <2> QED
    BY <1>7, <2>1, <2>2, <2>3
<1>8. CASE GetError \/ GetEnd
  <2>1. messages' \in Seq(Item)
    BY <1>8, TailIs DEF GetError, GetEnd
  <2> QED
    BY <1>1, <1>2, <1>c, <1>8, <2>1 DEF GetError, GetEnd, At, Raised, GenFrame, hostVars
<1>9. CASE GetOutput
  <2>1. messages' \in Seq(Item) /\ Head(messages) \in Item
    BY <1>9, TailIs DEF GetOutput
  <2>2. budget' \in 0..budget
    BY <1>9, OutputTaken
  <2>3. budget' \in 0..Limit
    BY <2>2, StreamAssumption
  <2>4. StreamData(Head(messages).bytes) \in Seq(Symbol)
    BY <1>9, OutputTaken
  <2>5. handed' \in Item
    BY <1>9, <2>4 DEF GetOutput, Out, Item
  <2> QED
    BY <1>1, <1>2, <1>c, <1>9, <2>1, <2>3, <2>5 DEF GetOutput, At, GenFrame, hostVars
<1>10. CASE Suffix \/ Inspect
  <2>1. handed' \in Item
    BY <1>3, <1>10 DEF Suffix, Inspect
  <2> QED
    BY <1>1, <1>2, <1>c, <1>10, <2>1 DEF Suffix, Inspect, At, Raised, GenFrame, hostVars
<1>11. CASE Take \/ StopIteration \/ Join \/ Leave \/ AskAgain
  BY <1>1, <1>2, <1>c, <1>11 DEF Take, StopIteration, Join, Leave, AskAgain, ResumesAt, Deliver,
     HostFrame, procVars
<1>12. CASE Forward \/ ForwardException \/ ForwardEnd
  <2>1. /\ Append(events, Redacted(handed)) \in Seq(Item)
        /\ Append(events, Mark("end")) \in Seq(Item)
        /\ Append(events, Mark("error")) \in Seq(Item)
    <3>1. Redacted(handed) \in Item /\ events \in Seq(Item)
      BY ItemShown
    <3> QED
      BY <1>3, <3>1
  <2>2. events' \in Seq(Item)
    BY <1>12, <2>1 DEF Forward, ForwardException, ForwardEnd
  <2> QED
    BY <1>1, <1>2, <1>c, <1>12, <2>2 DEF Forward, ForwardException, ForwardEnd, ResumesAt,
       HostFrame, procVars
<1>13. CASE GetEvent
  <2>1. events' \in Seq(Item)
    BY <1>13, TailIs DEF GetEvent
  <2>2. app' \in {"joining", "raised", "holding"}
    BY <1>13 DEF GetEvent, Deliver
  <2>3. UNCHANGED <<HostFrame, gen, producer>>
    BY <1>13 DEF GetEvent
  <2> QED
    BY <1>1, <1>2, <1>c, <2>1, <2>2, <2>3 DEF HostFrame, procVars
<1>14. CASE UNCHANGED vars
  BY <1>1, <1>2, <1>c, <1>14 DEF vars, genVars, hostVars, procVars
<1> QED
  BY <1>4, <1>5, <1>6, <1>7, <1>8, <1>9, <1>10, <1>11, <1>12, <1>13, <1>14
  DEF Next, GenStep, HostStep

LEMMA StreamInit == Init => StreamInv
<1> SUFFICES ASSUME Init
             PROVE  StreamInv
  OBVIOUS
<1>1. /\ Limit \in Nat \ {0} /\ MaxBytes \in Nat /\ Limit - Limit = 0
      /\ Smaller(0, Limit) = 0 /\ Limit - 0 = Limit
  BY StreamAssumption DEF Smaller
<1>2. StreamTypeOK
  <2>1. Mark("end") \in Item /\ Limit \in 0..Limit /\ 0 \in 0..MaxBytes
    BY <1>1 DEF Mark, Item
  <2>2. /\ <<>> \in Seq(Item) /\ <<>> \in Seq(Symbol)
        /\ <<>> \in Seq({"notice", "status"})
    OBVIOUS
  <2> QED
    BY <2>1, <2>2 DEF Init, StreamTypeOK
<1>3. QueueInv
  <2>1. Cuts(ends, <<>>, 0, 0)
    BY CutsEmpty, 0 \in Nat
  <2> QED
    BY <1>1, <2>1 DEF Init, QueueInv
<1>4. EndIsLast /\ Places
  BY DEF Init, EndIsLast, Places, Flowing, Ending
<1>5. Flow
  <2>1. View(Sight, 0, 0) = <<>> /\ Len(<<>>) = 0
    BY ViewEmpty, 0 \in Nat
  <2>2. Chain(Sight, <<>>, 0, 0, 0, 0, written, Finished)
    BY ChainOfNothing, 0 \in Nat, 0 \in 0..4
  <2>3. \A m, u : m = 0 /\ u = 0 => Fed(m, u)
    BY <1>1 DEF Init, Fed, Undelivered, Stage
  <2>4. \E m \in 0..(Limit - budget), u \in 0..4 :
            /\ Chain(Sight, events, Len(received), 0, m, u, written, Finished)
            /\ Fed(m, u)
    BY <1>1, <2>1, <2>2, <2>3 DEF Init
  <2>5. notices = Said(0, written)
    BY DEF Init, Said
  <2>6. received = View(Sight, 0, Len(received)) /\ Len(received) \in 0..(Limit - budget)
    BY <1>1, <2>1 DEF Init
  <2>7. app = "asking"
    BY DEF Init
  <2> QED
    BY <2>4, <2>5, <2>6, <2>7 DEF Flow
<1> QED
  BY <1>2, <1>3, <1>4, <1>5 DEF StreamInv

LEMMA StreamInvHolds == Spec => []StreamInv
<1>1. StreamInv /\ [Next]_vars => StreamInv'
  <2> SUFFICES ASSUME StreamInv, [Next]_vars
               PROVE  StreamInv'
    OBVIOUS
  <2>1. StreamTypeOK /\ QueueInv /\ EndIsLast /\ Places /\ Flow
    BY DEF StreamInv
  <2>2. QueueInv' /\ EndIsLast' /\ Places' /\ Flow'
    BY <2>1, QueueStep, EndStep, PlacesStep, FlowStep
  <2>3. StreamTypeOK'
    BY <2>1, <2>2, TypeStep
  <2> QED
    BY <2>2, <2>3 DEF StreamInv
<1> QED
  BY <1>1, StreamInit, PTL DEF Spec

-----------------------------------------------------------------------------
(* The theorems.                                                           *)

\* Through the queue of the reader thread and, for AsyncSandbox, that of the event
\* loop, an application receives the bytes the process wrote, from the first one on,
\* none lost, repeated or exchanged, and never more than the limit; each as it is,
\* unless it belongs to a character that was torn apart, which is replaced, or to a
\* secret that came in one chunk, and only then, which is redacted; a status comes
\* last, once all the output up to the limit has arrived, with the notice exactly if
\* some is missing; and no stream ends normally without it.
THEOREM StreamTellsTheTruth == Spec => []StreamFaithful
<1>1. StreamInv => StreamFaithful
  <2> SUFFICES ASSUME StreamInv
               PROVE  StreamFaithful
    OBVIOUS
  <2>1. StreamTypeOK /\ QueueInv /\ Flow
    BY DEF StreamInv
  <2>2. PrefixReceived
    <3>1. Len(received) <= Smaller(written, Limit)
      <4>1. PICK a \in 0..written : budget = Limit - Smaller(a, Limit)
        BY <2>1 DEF QueueInv
      <4>2. PICK h \in 0..2 : notices = Said(h, written)
        BY <2>1 DEF Flow
      <4> QED
        BY <2>1, <4>1, <4>2, Bounded DEF StreamTypeOK, Flow
    <3>2. received = View(Sight, 0, Len(received)) /\ Len(received) \in Nat
      BY <2>1 DEF Flow, StreamTypeOK
    <3>3. View(Sight, 0, Len(received)) = [i \in 1..Len(received) |-> Shown(i)]
      BY <3>2 DEF View, Sight
    <3> QED
      BY <3>1, <3>2, <3>3 DEF PrefixReceived
  <2>3. StatusVouches
    <3>1. PICK h \in 0..2 :
              /\ notices = Said(h, written)
              /\ h = 2 => Len(received) = Smaller(written, Limit)
              /\ app = "done" => h = 2
      BY <2>1 DEF Flow
    <3>2. h # 2 => \A i \in DOMAIN notices : notices[i] # "status"
      BY <3>1 DEF Said
    <3>3. h = 2 => notices = IF written > Limit THEN <<"notice", "status">> ELSE <<"status">>
      BY <3>1 DEF Said
    <3>4. h = 2 => notices # <<>> /\ notices[Len(notices)] = "status"
      BY <3>3
    <3> QED
      BY <3>1, <3>2, <3>3, <3>4 DEF StatusVouches
  <2> QED
    BY <2>1, <2>2, <2>3 DEF StreamFaithful
<1> QED
  BY <1>1, StreamInvHolds, PTL

\* The backstop destroys the sandbox of a command that is over only while output of
\* it, or its end, has not been taken: a reader that is through has left its last
\* word in the queue.
THEOREM OverIsSpared == Spec => FinishedIsSpared
<1>1. StreamInv /\ [Next]_vars =>
          [Overrun /\ process \in {"exited", "timed_out"}
           => messages # <<>> \/ reader = "reading"]_vars
  <2> SUFFICES ASSUME StreamInv, Overrun
               PROVE  messages # <<>> \/ reader = "reading"
    OBVIOUS
  <2>1. gen \in {"head", "waiting"}
    BY DEF Overrun, At
  <2>2. EndIsLast /\ reader \in {"idle", "reading", "failed", "done"}
    BY DEF StreamInv, StreamTypeOK
  <2> QED
    BY <2>1, <2>2 DEF EndIsLast, Flowing, LastIs
<1> QED
  BY <1>1, StreamInvHolds, PTL DEF Spec, FinishedIsSpared
=============================================================================

------------------------- MODULE EgressTunnel_proof -------------------------
(***************************************************************************)
(* Theorems about one connection to the egress proxy, whatever its peers   *)
(* send and whenever they end, for any length of the request line and any  *)
(* size of the buffers: nothing passes before the check, and what passes   *)
(* is what was sent.                                                       *)
(***************************************************************************)
EXTENDS EgressTunnel, SequenceTheorems, TLAPS

-----------------------------------------------------------------------------
(* Sequences of units.                                                     *)

LEMMA JoinIs ==
    ASSUME NEW s \in Seq(Unit), NEW t \in Seq(Unit)
    PROVE  /\ s \o t \in Seq(Unit) /\ Len(s \o t) = Len(s) + Len(t)
           /\ \A i \in 1..Len(s) : (s \o t)[i] = s[i]
           /\ \A i \in 1..Len(t) : (s \o t)[Len(s) + i] = t[i]
           /\ s \o t = <<>> <=> s = <<>> /\ t = <<>>
OBVIOUS

\* What is left of a join when its second part is lost, or is not.
LEMMA PrefixIs ==
    ASSUME NEW s \in Seq(Unit), NEW t \in Seq(Unit), NEW u \in {<<>>, t}
    PROVE  /\ Len(s \o u) <= Len(s \o t) /\ Len(s \o u) \in Nat /\ Len(s \o t) \in Nat
           /\ \A i \in 1..Len(s \o u) : (s \o u)[i] = (s \o t)[i]
           /\ s \o t = <<>> => s \o u = <<>>
<1>1. Len(s) \in Nat /\ Len(t) \in Nat
  OBVIOUS
<1>2. s \o t \in Seq(Unit) /\ Len(s \o t) = Len(s) + Len(t)
  BY JoinIs
<1>3. CASE u = t
  BY <1>1, <1>2, <1>3
<1>4. CASE u = <<>>
  <2>1. s \o <<>> = s
    OBVIOUS
  <2>2. \A i \in 1..Len(s) : s[i] = (s \o t)[i]
    BY JoinIs
  <2>3. s \o t = <<>> => s = <<>>
    BY JoinIs
  <2> QED
    BY <1>1, <1>2, <1>4, <2>1, <2>2, <2>3
<1> QED
  BY <1>3, <1>4

\* Moving the first unit of t to the end of s leaves their join as it is.
LEMMA ReadKeeps ==
    ASSUME NEW s \in Seq(Unit), NEW t \in Seq(Unit), t # <<>>
    PROVE  Append(s, Head(t)) \o Tail(t) = s \o t
<1>1. /\ Head(t) = t[1] /\ Head(t) \in Unit /\ Tail(t) \in Seq(Unit)
      /\ Len(t) \in Nat \ {0} /\ Len(Tail(t)) = Len(t) - 1 /\ Len(s) \in Nat
      /\ \A i \in 1..(Len(t) - 1) : Tail(t)[i] = t[i + 1]
  OBVIOUS
<1>2. /\ Append(s, Head(t)) \in Seq(Unit) /\ Len(Append(s, Head(t))) = Len(s) + 1
      /\ \A i \in 1..Len(s) : Append(s, Head(t))[i] = s[i]
      /\ Append(s, Head(t))[Len(s) + 1] = Head(t)
  BY <1>1
<1> DEFINE a == Append(s, Head(t)) \o Tail(t)
           b == s \o t
<1>3. /\ a \in Seq(Unit) /\ b \in Seq(Unit)
      /\ Len(a) = (Len(s) + 1) + (Len(t) - 1) /\ Len(b) = Len(s) + Len(t)
  BY <1>1, <1>2, ConcatProperties
<1>4. ASSUME NEW i \in 1..Len(b)
      PROVE  a[i] = b[i]
  <2>1. a[i] = IF i <= Len(s) + 1 THEN Append(s, Head(t))[i] ELSE Tail(t)[i - (Len(s) + 1)]
    BY <1>1, <1>2, <1>3, ConcatProperties
  <2>2. b[i] = IF i <= Len(s) THEN s[i] ELSE t[i - Len(s)]
    BY <1>1, <1>3, ConcatProperties
  <2>3. CASE i <= Len(s)
    BY <1>1, <1>2, <2>1, <2>2, <2>3
  <2>4. CASE i = Len(s) + 1
    BY <1>1, <1>2, <2>1, <2>2, <2>4
  <2>5. CASE i > Len(s) + 1
    <3>1. i - (Len(s) + 1) \in 1..(Len(t) - 1) /\ (i - (Len(s) + 1)) + 1 = i - Len(s)
      BY <1>1, <1>3, <2>5
    <3> QED
      BY <1>1, <2>1, <2>2, <2>5, <3>1
  <2> QED
    BY <1>1, <2>3, <2>4, <2>5
<1>5. Len(a) = Len(b)
  BY <1>1, <1>3
<1> QED
  BY <1>3, <1>4, <1>5, SeqEqual

\* A unit put at the end of t comes at the end of their join.
LEMMA SendAdds ==
    ASSUME NEW s \in Seq(Unit), NEW t \in Seq(Unit), NEW x \in Unit
    PROVE  s \o Append(t, x) = Append(s \o t, x)
<1> DEFINE a == s \o Append(t, x)
           b == Append(s \o t, x)
<1>1. /\ Append(t, x) \in Seq(Unit) /\ Len(Append(t, x)) = Len(t) + 1
      /\ \A i \in 1..Len(t) : Append(t, x)[i] = t[i]
      /\ Append(t, x)[Len(t) + 1] = x
      /\ Len(s) \in Nat /\ Len(t) \in Nat
  OBVIOUS
<1>2. s \o t \in Seq(Unit) /\ Len(s \o t) = Len(s) + Len(t)
  BY ConcatProperties
<1>3. /\ a \in Seq(Unit) /\ Len(a) = Len(s) + (Len(t) + 1)
      /\ b \in Seq(Unit) /\ Len(b) = (Len(s) + Len(t)) + 1
      /\ \A i \in 1..(Len(s) + Len(t)) : b[i] = (s \o t)[i]
      /\ b[(Len(s) + Len(t)) + 1] = x
  BY <1>1, <1>2, ConcatProperties
<1>4. ASSUME NEW i \in 1..Len(b)
      PROVE  a[i] = b[i]
  <2>1. a[i] = IF i <= Len(s) THEN s[i] ELSE Append(t, x)[i - Len(s)]
    BY <1>1, <1>3, ConcatProperties
  <2>2. CASE i = (Len(s) + Len(t)) + 1
    BY <1>1, <1>3, <2>1, <2>2
  <2>3. CASE i # (Len(s) + Len(t)) + 1
    <3>1. i \in 1..(Len(s) + Len(t))
      BY <1>1, <1>3, <2>3
    <3>2. b[i] = IF i <= Len(s) THEN s[i] ELSE t[i - Len(s)]
      BY <1>3, <3>1, ConcatProperties
    <3>3. i > Len(s) => i - Len(s) \in 1..Len(t)
      BY <1>1, <3>1
    <3> QED
      BY <1>1, <2>1, <3>1, <3>2, <3>3
  <2> QED
    BY <2>2, <2>3
<1>5. Len(a) = Len(b)
  BY <1>1, <1>3
<1> QED
  BY <1>3, <1>4, <1>5, SeqEqual

\* What recv returns and what it leaves.
LEMMA CutIs ==
    ASSUME NEW s \in Seq(Unit), NEW n \in 1..Len(s)
    PROVE  /\ SubSeq(s, 1, n) \in Seq(Unit) /\ Len(SubSeq(s, 1, n)) = n
           /\ \A i \in 1..n : SubSeq(s, 1, n)[i] = s[i]
           /\ From(n, s) \in Seq(Unit) /\ Len(From(n, s)) = Len(s) - n
           /\ \A i \in 1..(Len(s) - n) : From(n, s)[i] = s[n + i]
           /\ Len(s) \in Nat /\ n \in Nat /\ n <= Len(s)
<1>1. Len(s) \in Nat /\ n \in Nat /\ n <= Len(s) /\ \A i \in 1..Len(s) : s[i] \in Unit
  OBVIOUS
<1>2. /\ SubSeq(s, 1, n) \in Seq(Unit) /\ Len(SubSeq(s, 1, n)) = n
      /\ \A i \in 1..n : SubSeq(s, 1, n)[i] = s[i]
  <2>1. \A i \in 1..n : s[i] \in Unit
    BY <1>1
  <2>2. /\ SubSeq(s, 1, n) \in Seq(Unit)
        /\ Len(SubSeq(s, 1, n)) = IF 1 <= n THEN (n - 1) + 1 ELSE 0
        /\ \A i \in 1..((n - 1) + 1) : SubSeq(s, 1, n)[i] = s[(1 + i) - 1]
    BY <1>1, <2>1, SubSeqProperties
  <2> QED
    BY <1>1, <2>2
<1>3. /\ From(n, s) \in Seq(Unit) /\ Len(From(n, s)) = Len(s) - n
      /\ \A i \in 1..(Len(s) - n) : From(n, s)[i] = s[n + i]
  <2>1. \A i \in (n + 1)..Len(s) : s[i] \in Unit
    BY <1>1
  <2>2. /\ From(n, s) \in Seq(Unit)
        /\ Len(From(n, s)) = IF n + 1 <= Len(s) THEN (Len(s) - (n + 1)) + 1 ELSE 0
        /\ \A i \in 1..((Len(s) - (n + 1)) + 1) : From(n, s)[i] = s[((n + 1) + i) - 1]
    BY <1>1, <2>1, SubSeqProperties DEF From
  <2>3. \A i \in 1..(Len(s) - n) : i \in 1..((Len(s) - (n + 1)) + 1) /\ ((n + 1) + i) - 1 = n + i
    BY <1>1
  <2> QED
    BY <1>1, <2>2, <2>3
<1> QED
  BY <1>1, <1>2, <1>3
-----------------------------------------------------------------------------
(* The invariant.                                                          *)

Channels ==
    out \in [Peers -> Seq(Unit)] /\ inn \in [Peers -> Seq(Unit)] /\ got \in [Peers -> Seq(Unit)]

\* There is a server: the proxy has connected to it.
Served == Pumping \/ (pc = "replying" /\ code = 200)

\* The request line has been read, or more of it than the proxy waits for.
Enough == taken >= line \/ taken > Limit

Stages ==
    /\ ~Served /\ pc # "closed" =>
           end["server"] = "open" /\ sent["server"] = 0 /\ out["server"] = <<>>
    /\ ~Pumping /\ pc # "closed" => \A p \in Peers : got[p] = <<>> /\ inn[p] = <<>>
    /\ taken <= sent["client"]
    /\ pc = "reading" => taken <= Limit
    /\ pc \notin {"reading", "closed"} =>
           Enough \/ (end["client"] # "open" /\ out["client"] = <<>>)
    /\ pc = "send" => held.data # <<>> /\ (held.from = "client" => Enough)
    /\ \A p \in Peers : end[p] = "reset" => out[p] = <<>>

Allowed ==
    /\ pc = "connecting" \/ Served \/ sent["server"] > 0 => request = "allowed"
    /\ Reached("server") # <<>> => request = "allowed" /\ Enough

\* The n-th unit for p, from the first that was not read with the request line.  The
\* client's first unit is the proxy's own answer.
Nth(p, n) == IF p = "server" THEN taken + n ELSE n - 1

\* What has reached a peer.
Seen ==
    /\ \A i \in 1..Len(Reached("server")) : Reached("server")[i] = Nth("server", i)
    /\ \A i \in 2..Len(Reached("client")) : Reached("client")[i] = Nth("client", i)
    /\ Pumping /\ end["client"] # "reset" =>
           Reached("client") # <<>> /\ Reached("client")[1] = 200

\* How many units for p are behind it, with the answer that a client will get.
Passed(p) == IF p = "client" /\ ~Pumping THEN 1 ELSE Len(Reached(p))

\* What the proxy holds for p follows on what has reached p, and what is in the
\* buffer of the other socket follows on that, up to the last unit sent.
Chained(p) ==
    /\ end[p] # "reset" =>
           \A i \in 1..Len(InHand(p)) : InHand(p)[i] = Nth(p, Passed(p) + i)
    /\ end[p] # "reset" /\ end[Other(p)] # "reset" =>
           /\ \A i \in 1..Len(out[Other(p)]) :
                  out[Other(p)][i] = Nth(p, Passed(p) + Len(InHand(p)) + i)
           /\ Nth(p, Passed(p) + Len(InHand(p)) + Len(out[Other(p)])) = sent[Other(p)]

Chains == pc # "closed" => Chained("client") /\ Chained("server")

Safe == TunnelTypeOK /\ Channels /\ Stages /\ Allowed /\ Seen /\ Chains

TunnelInv == Safe /\ LastWordsArrive

-----------------------------------------------------------------------------
(* What the parts of the invariant are made of.                            *)

LEMMA Basics ==
    ASSUME TunnelTypeOK, Channels
    PROVE  /\ \A p \in Peers : /\ out[p] \in Seq(Unit) /\ inn[p] \in Seq(Unit)
                               /\ got[p] \in Seq(Unit) /\ Reached(p) \in Seq(Unit)
                               /\ Len(Reached(p)) \in Nat /\ Len(out[p]) \in Nat
                               /\ InHand(p) \in Seq(Unit) /\ Len(InHand(p)) \in Nat
                               /\ Passed(p) \in Nat /\ sent[p] \in Nat
                               /\ Other(p) \in Peers /\ Other(Other(p)) = p /\ Other(p) # p
                               /\ Len(inn[p]) \in Nat /\ Len(inn[p]) <= Room
                               /\ Len(out[p]) <= Room
           /\ taken \in Nat /\ Peers = {"client", "server"}
           /\ line \in Nat \ {0} /\ Limit \in Nat \ {0} /\ Room \in Nat \ {0}
           /\ ClientUnits \in 0..99 /\ ServerUnits \in 0..99
           /\ 200 \in Unit
<1>1. Peers = {"client", "server"}
  BY DEF Peers
<1>2. ASSUME NEW p \in Peers
      PROVE  /\ out[p] \in Seq(Unit) /\ inn[p] \in Seq(Unit) /\ got[p] \in Seq(Unit)
             /\ Len(out[p]) \in Nat /\ sent[p] \in Nat
             /\ Other(p) \in Peers /\ Other(Other(p)) = p /\ Other(p) # p
  <2>1. out[p] \in Seq(Unit) /\ inn[p] \in Seq(Unit) /\ got[p] \in Seq(Unit)
    BY <1>2 DEF Channels
  <2>2. Len(out[p]) \in Nat
    BY <2>1
  <2>3. sent[p] \in Nat
    <3>1. sent \in [Peers -> 0..99]
      BY DEF TunnelTypeOK
    <3> QED
      BY <1>2, <3>1
  <2>4. Other(p) \in Peers /\ Other(Other(p)) = p /\ Other(p) # p
    BY <1>1, <1>2 DEF Other
  <2> QED
    BY <2>1, <2>2, <2>3, <2>4
<1>3. ASSUME NEW p \in Peers
      PROVE  Reached(p) \in Seq(Unit) /\ Len(Reached(p)) \in Nat
  <2>1. got[p] \in Seq(Unit) /\ inn[p] \in Seq(Unit)
    BY <1>2, <1>3
  <2>2. got[p] \o inn[p] \in Seq(Unit)
    BY <2>1, JoinIs
  <2>3. Len(got[p] \o inn[p]) \in Nat
    BY <2>2, LenProperties
  <2> QED
    BY <2>2, <2>3 DEF Reached
<1>4. ASSUME NEW p \in Peers
      PROVE  InHand(p) \in Seq(Unit) /\ Len(InHand(p)) \in Nat
  <2>1. held.data \in Seq(Unit)
    BY DEF TunnelTypeOK
  <2> QED
    BY <2>1 DEF InHand
<1>5. ASSUME NEW p \in Peers
      PROVE  Passed(p) \in Nat
  BY <1>3, <1>5 DEF Passed
<1>6. /\ taken \in Nat /\ line \in Nat \ {0} /\ Limit \in Nat \ {0} /\ Room \in Nat \ {0}
      /\ ClientUnits \in 0..99 /\ ServerUnits \in 0..99 /\ 200 \in Unit
  BY TunnelAssumption DEF TunnelTypeOK, Unit, Codes
<1>7. ASSUME NEW p \in Peers
      PROVE  Len(inn[p]) \in Nat /\ Len(inn[p]) <= Room /\ Len(out[p]) <= Room
  <2>1. Len(inn[p]) \in Nat
    BY <1>2, LenProperties
  <2>2. Len(inn[p]) <= Room /\ Len(out[p]) <= Room
    BY <1>7 DEF TunnelTypeOK
  <2> QED
    BY <2>1, <2>2
<1> QED
  BY <1>1, <1>2, <1>3, <1>4, <1>5, <1>6, <1>7

\* What p is given depends on these alone.
LEMMA ChainedStays ==
    ASSUME NEW p \in Peers, Chained(p),
           end'[p] # "reset" => end[p] # "reset",
           end'[Other(p)] # "reset" => end[Other(p)] # "reset",
           taken' = taken, Passed(p)' = Passed(p), InHand(p)' = InHand(p),
           out'[Other(p)] = out[Other(p)], sent'[Other(p)] = sent[Other(p)]
    PROVE  Chained(p)'
<1>1. \A n : Nth(p, n)' = Nth(p, n)
  BY DEF Nth
<1> QED
  BY <1>1 DEF Chained

\* Whatever a peer has not read may be lost: the beginning is what it was.
LEMMA ReachedLess ==
    ASSUME Channels, NEW p \in Peers, got'[p] = got[p], inn'[p] \in {<<>>, inn[p]}
    PROVE  /\ Len(Reached(p)') <= Len(Reached(p)) /\ Len(Reached(p)') \in Nat
           /\ Len(Reached(p)) \in Nat
           /\ \A i \in 1..Len(Reached(p)') : Reached(p)'[i] = Reached(p)[i]
           /\ Reached(p) = <<>> => Reached(p)' = <<>>
<1>1. got[p] \in Seq(Unit) /\ inn[p] \in Seq(Unit)
  BY DEF Channels
<1>2. Reached(p) = got[p] \o inn[p] /\ Reached(p)' = got[p] \o inn'[p]
  BY DEF Reached
<1> DEFINE u == inn'[p]
<1>3. /\ Len(got[p] \o u) <= Len(got[p] \o inn[p]) /\ Len(got[p] \o u) \in Nat
      /\ Len(got[p] \o inn[p]) \in Nat
      /\ \A i \in 1..Len(got[p] \o u) : (got[p] \o u)[i] = (got[p] \o inn[p])[i]
      /\ got[p] \o inn[p] = <<>> => got[p] \o u = <<>>
  <2>1. u \in {<<>>, inn[p]}
    OBVIOUS
  <2> HIDE DEF u
  <2> QED
    BY <1>1, <2>1, PrefixIs
<1> QED
  BY <1>2, <1>3

\* The proxy closes both sockets: what has been passed on is all that is left to say.
LEMMA ClosingIsSafe ==
    ASSUME Safe, Close, UNCHANGED <<peerVars, taken, code, ready, held>>
    PROVE  Safe'
<1>0. TunnelTypeOK /\ Channels /\ Stages /\ Allowed /\ Seen
  BY DEF Safe
<1>1. /\ pc' = "closed" /\ out' = [p \in Peers |-> <<>>] /\ ~Pumping' /\ ~Served'
      /\ taken' = taken /\ request' = request /\ line' = line /\ strained' = strained
      /\ sent' = sent /\ end' = end /\ got' = got
  BY DEF Close, Pumping, Served, peerVars
<1>2. /\ inn' = [p \in Peers |-> inn'[p]]
      /\ \A p \in Peers : inn'[p] \in {<<>>, inn[p]}
  BY DEF Close
<1>3. /\ Peers = {"client", "server"}
      /\ \A p \in Peers : /\ got[p] \in Seq(Unit) /\ inn[p] \in Seq(Unit)
                          /\ Len(inn[p]) \in Nat /\ Len(inn[p]) <= Room /\ Room \in Nat
  BY <1>0, Basics
<1>4. Channels'
  <2>1. <<>> \in Seq(Unit)
    OBVIOUS
  <2>2. \A p \in Peers : inn'[p] \in Seq(Unit)
    BY <1>2, <1>3, <2>1
  <2>3. inn' \in [Peers -> Seq(Unit)]
    BY <1>2, <2>2
  <2>4. out' \in [Peers -> Seq(Unit)]
    BY <1>1, <2>1
  <2> QED
    BY <1>0, <1>1, <2>3, <2>4 DEF Channels
<1>5. TunnelTypeOK'
  <2>1. \A p \in Peers : Len(out'[p]) <= Room /\ Len(inn'[p]) <= Room
    BY <1>1, <1>2, <1>3
  <2> QED
    BY <1>0, <1>1, <1>4, <2>1, <1>3 DEF TunnelTypeOK, Channels, peerVars, Bound
<1>6. \A p \in Peers : /\ Len(Reached(p)') <= Len(Reached(p)) /\ Len(Reached(p)') \in Nat
                       /\ Len(Reached(p)) \in Nat
                       /\ \A i \in 1..Len(Reached(p)') : Reached(p)'[i] = Reached(p)[i]
                       /\ Reached(p) = <<>> => Reached(p)' = <<>>
  BY <1>0, <1>1, <1>2, ReachedLess
<1>7. Seen'
  <2>1. \A p, n : Nth(p, n)' = Nth(p, n)
    BY <1>1 DEF Nth
  <2>2. \A i \in 1..Len(Reached("server")') : Reached("server")'[i] = Nth("server", i)'
    BY <1>0, <1>3, <1>6, <2>1 DEF Seen
  <2>3. \A i \in 2..Len(Reached("client")') : Reached("client")'[i] = Nth("client", i)'
    BY <1>0, <1>3, <1>6, <2>1 DEF Seen
  <2> QED
    BY <1>1, <2>2, <2>3 DEF Seen
<1>8. Allowed'
  BY <1>0, <1>1, <1>3, <1>6 DEF Allowed, Enough
<1>9. Stages' /\ Chains'
  BY <1>0, <1>1, <1>3 DEF Stages, Chains
<1> QED
  BY <1>4, <1>5, <1>7, <1>8, <1>9 DEF Safe

-----------------------------------------------------------------------------
(* The peers' steps.                                                       *)

LEMMA NthNext ==
    ASSUME NEW p \in Peers, NEW n \in Nat, taken \in Nat
    PROVE  Nth(p, n + 1) = Nth(p, n) + 1 /\ Nth(p, n) \in Int
BY DEF Nth, Peers

\* What a step leaves alone when it leaves the proxy, the buffers to the peers and
\* what they have read alone.
LEMMA SameReached ==
    ASSUME pc' = pc, taken' = taken, held' = held, inn' = inn, got' = got
    PROVE  /\ Pumping' <=> Pumping
           /\ \A p : /\ Reached(p)' = Reached(p) /\ InHand(p)' = InHand(p)
                     /\ Passed(p)' = Passed(p) /\ \A n : Nth(p, n)' = Nth(p, n)
BY DEF Pumping, Reached, InHand, Passed, Nth, Target

\* A unit sent comes last in the buffer, and is the next of what its sender sends.
LEMMA SendIsSafe ==
    ASSUME Safe, NEW p \in Peers, Send(p)
    PROVE  Safe'
<1>0. TunnelTypeOK /\ Channels /\ Stages /\ Allowed /\ Seen /\ Chains
  BY DEF Safe
<1>1. /\ pc # "closed" /\ (p = "server" => Served)
      /\ end[p] = "open" /\ sent[p] < Bound(p) /\ Len(out[p]) < Room
      /\ sent' = [sent EXCEPT ![p] = sent[p] + 1]
      /\ out' = [out EXCEPT ![p] = Append(out[p], sent[p] + 1)]
      /\ request' = request /\ line' = line /\ strained' = strained
      /\ pc' = pc /\ taken' = taken /\ code' = code
      /\ ready' = ready /\ held' = held /\ inn' = inn /\ got' = got /\ end' = end
  BY <1>0 DEF Send, Present, ProxyFrame, Served, Peers
<1>2. /\ \A q \in Peers : /\ out[q] \in Seq(Unit) /\ Len(out[q]) \in Nat /\ sent[q] \in Nat
                          /\ Other(q) \in Peers /\ Other(Other(q)) = q /\ Other(q) # q
                          /\ Passed(q) \in Nat /\ Len(InHand(q)) \in Nat
      /\ Peers = {"client", "server"} /\ taken \in Nat /\ Room \in Nat \ {0}
      /\ ClientUnits \in 0..99 /\ ServerUnits \in 0..99
  BY <1>0, Basics
<1>3. /\ Pumping' <=> Pumping
      /\ Served' <=> Served
      /\ \A q : /\ Reached(q)' = Reached(q) /\ InHand(q)' = InHand(q)
                /\ Passed(q)' = Passed(q) /\ \A n : Nth(q, n)' = Nth(q, n)
  BY <1>1, SameReached DEF Served
<1>4. sent[p] + 1 \in Unit /\ sent[p] + 1 \in 0..99 /\ sent[p] + 1 <= Bound(p)
  <2>1. sent[p] \in Nat /\ Bound(p) \in 0..99
    BY <1>2 DEF Bound
  <2>2. sent[p] < Bound(p)
    BY <1>1
  <2>3. sent[p] + 1 \in 1..99 /\ sent[p] + 1 <= Bound(p)
    BY <2>1, <2>2
  <2> QED
    BY <2>3 DEF Unit
<1>5. /\ out'[p] \in Seq(Unit) /\ Len(out'[p]) = Len(out[p]) + 1
      /\ \A i \in 1..Len(out[p]) : out'[p][i] = out[p][i]
      /\ out'[p][Len(out[p]) + 1] = sent[p] + 1
      /\ sent'[p] = sent[p] + 1
      /\ \A q \in Peers : q # p => out'[q] = out[q] /\ sent'[q] = sent[q]
  <2>1. out \in [Peers -> Seq(Unit)] /\ sent \in [Peers -> 0..99]
    BY <1>0 DEF TunnelTypeOK, Channels
  <2>2. out'[p] = Append(out[p], sent[p] + 1) /\ sent'[p] = sent[p] + 1
    BY <1>1, <2>1
  <2>3. out[p] \in Seq(Unit)
    BY <1>2
  <2>4. \A q \in Peers : q # p => out'[q] = out[q] /\ sent'[q] = sent[q]
    BY <1>1, <2>1
  <2> QED
    BY <1>4, <2>2, <2>3, <2>4
<1>6. Channels'
  <2>1. \A q \in Peers : out'[q] \in Seq(Unit)
    BY <1>2, <1>5
  <2>2. out' \in [Peers -> Seq(Unit)]
    BY <1>0, <1>1, <2>1 DEF Channels
  <2> QED
    BY <1>0, <1>1, <2>2 DEF Channels
<1>7. TunnelTypeOK'
  <2>1. sent' \in [Peers -> 0..99]
    BY <1>0, <1>1, <1>4 DEF TunnelTypeOK
  <2>2. \A q \in Peers : Len(out'[q]) <= Room /\ sent'[q] <= Bound(q)
    <3> TAKE q \in Peers
    <3>1. CASE q = p
      BY <1>1, <1>2, <1>4, <1>5, <3>1
    <3>2. CASE q # p
      BY <1>0, <1>5, <3>2 DEF TunnelTypeOK
    <3> QED
      BY <3>1, <3>2
  <2>3. \A q \in Peers : Bound(q)' = Bound(q)
    BY DEF Bound
  <2> QED
    BY <1>0, <1>1, <1>6, <2>1, <2>2, <2>3 DEF TunnelTypeOK, Channels
<1>8. Stages'
  <2>1. sent'["client"] \in Nat /\ sent["client"] <= sent'["client"]
    BY <1>2, <1>5
  <2>2. taken' <= sent'["client"]
    BY <1>0, <1>1, <1>2, <2>1 DEF Stages
  <2>3. ~Served' /\ pc' # "closed" =>
            end'["server"] = "open" /\ sent'["server"] = 0 /\ out'["server"] = <<>>
    BY <1>0, <1>1, <1>2, <1>3, <1>5 DEF Stages
  <2>4. pc' \notin {"reading", "closed"} =>
            Enough' \/ (end'["client"] # "open" /\ out'["client"] = <<>>)
    BY <1>0, <1>1, <1>2, <1>5 DEF Stages, Enough
  <2>5. \A q \in Peers : end'[q] = "reset" => out'[q] = <<>>
    BY <1>0, <1>1, <1>2, <1>5 DEF Stages
  <2> QED
    BY <1>0, <1>1, <1>3, <2>2, <2>3, <2>4, <2>5 DEF Stages, Enough
<1>9. Allowed' /\ Seen'
  <2>1. Allowed'
    BY <1>0, <1>1, <1>2, <1>3, <1>5 DEF Allowed, Enough
  <2> QED
    BY <1>0, <1>1, <1>3, <2>1 DEF Seen
<1>10. Chains'
  <2>1. ASSUME pc # "closed"
        PROVE  Chained(p)' /\ Chained(Other(p))'
    <3>1. Chained(p) /\ Chained(Other(p))
      BY <1>0, <1>2, <2>1 DEF Chains
    <3>2. Chained(p)'
      BY <1>1, <1>2, <1>3, <1>5, <3>1, ChainedStays
    <3>3. \A k \in Nat : Nth(Other(p), k + 1) = Nth(Other(p), k) + 1
      BY <1>2, NthNext
    <3> DEFINE k == Passed(Other(p)) + Len(InHand(Other(p))) + Len(out[p])
    <3>4. k \in Nat /\ Passed(Other(p)) + Len(InHand(Other(p))) + Len(out'[p]) = k + 1
      <4>1. /\ Passed(Other(p)) \in Nat /\ Len(InHand(Other(p))) \in Nat
            /\ Len(out[p]) \in Nat /\ Len(out'[p]) = Len(out[p]) + 1
        BY <1>2, <1>5
      <4> QED
        BY <4>1
    <3>5. ASSUME end[p] # "reset", end[Other(p)] # "reset"
          PROVE  /\ \A i \in 1..Len(out'[p]) :
                        out'[p][i] = Nth(Other(p), Passed(Other(p)) + Len(InHand(Other(p))) + i)
                 /\ Nth(Other(p), k + 1) = sent'[p]
      <4>1. /\ \A i \in 1..Len(out[p]) :
                   out[p][i] = Nth(Other(p), Passed(Other(p)) + Len(InHand(Other(p))) + i)
            /\ Nth(Other(p), k) = sent[p]
        BY <1>2, <3>1, <3>5 DEF Chained
      <4>2. Nth(Other(p), k + 1) = sent[p] + 1
        BY <3>3, <3>4, <4>1
      <4>3. ASSUME NEW i \in 1..Len(out'[p])
            PROVE  out'[p][i] = Nth(Other(p), Passed(Other(p)) + Len(InHand(Other(p))) + i)
        <5>1. i \in 1..Len(out[p]) \/ i = Len(out[p]) + 1
          BY <1>2, <1>5, <4>3
        <5>2. CASE i \in 1..Len(out[p])
          BY <1>5, <4>1, <5>2
        <5>3. CASE i = Len(out[p]) + 1
          <6>1. Passed(Other(p)) + Len(InHand(Other(p))) + i = k + 1
            <7>1. /\ Passed(Other(p)) \in Nat /\ Len(InHand(Other(p))) \in Nat
                  /\ Len(out[p]) \in Nat
              BY <1>2
            <7> QED
              BY <5>3, <7>1
          <6> QED
            BY <1>5, <4>2, <5>3, <6>1
        <5> QED
          BY <5>1, <5>2, <5>3
      <4> QED
        BY <1>5, <4>2, <4>3
    <3>6. Chained(Other(p))'
      BY <1>1, <1>2, <1>3, <3>1, <3>4, <3>5 DEF Chained
    <3> QED
      BY <3>2, <3>6
  <2> QED
    BY <1>1, <1>2, <2>1 DEF Chains
<1> QED
  BY <1>6, <1>7, <1>8, <1>9, <1>10 DEF Safe

\* Reading moves a unit from the buffer to what the peer has: nothing else sees it.
LEMMA ReadIsSafe ==
    ASSUME Safe, NEW p \in Peers, Read(p)
    PROVE  Safe' /\ \A q \in Peers : Reached(q)' = Reached(q)
<1>0. TunnelTypeOK /\ Channels /\ Stages /\ Allowed /\ Seen /\ Chains
  BY DEF Safe
<1>1. /\ inn[p] # <<>>
      /\ inn' = [inn EXCEPT ![p] = Tail(inn[p])]
      /\ got' = [got EXCEPT ![p] = Append(got[p], Head(inn[p]))]
      /\ request' = request /\ line' = line /\ strained' = strained
      /\ pc' = pc /\ taken' = taken /\ code' = code
      /\ ready' = ready /\ held' = held /\ out' = out /\ sent' = sent /\ end' = end
  BY <1>0 DEF Read, ProxyFrame, Channels
<1>2. \A q \in Peers : /\ got[q] \in Seq(Unit) /\ inn[q] \in Seq(Unit)
                       /\ Len(inn[q]) \in Nat /\ Len(inn[q]) <= Room
                       /\ Other(q) \in Peers /\ Room \in Nat
  BY <1>0, Basics
<1>3. /\ inn'[p] = Tail(inn[p]) /\ got'[p] = Append(got[p], Head(inn[p]))
      /\ \A q \in Peers : q # p => inn'[q] = inn[q] /\ got'[q] = got[q]
  BY <1>0, <1>1 DEF Channels
<1>4. /\ Tail(inn[p]) \in Seq(Unit) /\ Len(Tail(inn[p])) = Len(inn[p]) - 1
      /\ Append(got[p], Head(inn[p])) \in Seq(Unit)
      /\ Append(got[p], Head(inn[p])) \o Tail(inn[p]) = got[p] \o inn[p]
  <2>1. got[p] \in Seq(Unit) /\ inn[p] \in Seq(Unit) /\ inn[p] # <<>>
    BY <1>1, <1>2
  <2>2. Append(got[p], Head(inn[p])) \o Tail(inn[p]) = got[p] \o inn[p]
    BY <2>1, ReadKeeps
  <2>3. Tail(inn[p]) \in Seq(Unit) /\ Len(Tail(inn[p])) = Len(inn[p]) - 1 /\ Head(inn[p]) \in Unit
    BY <2>1
  <2>4. Append(got[p], Head(inn[p])) \in Seq(Unit)
    BY <2>1, <2>3
  <2> QED
    BY <2>2, <2>3, <2>4
<1>5. \A q \in Peers : Reached(q)' = Reached(q)
  BY <1>3, <1>4 DEF Reached
<1>6. Channels'
  <2>1. \A q \in Peers : inn'[q] \in Seq(Unit) /\ got'[q] \in Seq(Unit)
    BY <1>2, <1>3, <1>4
  <2>2. inn' \in [Peers -> Seq(Unit)] /\ got' \in [Peers -> Seq(Unit)]
    BY <1>0, <1>1, <2>1 DEF Channels
  <2> QED
    BY <1>0, <1>1, <2>2 DEF Channels
<1>7. TunnelTypeOK'
  <2>1. ASSUME NEW q \in Peers
        PROVE  Len(inn'[q]) <= Room
    <3>1. Len(inn[q]) \in Nat /\ Len(inn[q]) <= Room /\ Room \in Nat
      BY <1>2
    <3>2. q = p => Len(inn'[q]) = Len(inn[q]) - 1
      BY <1>3, <1>4
    <3>3. q # p => Len(inn'[q]) = Len(inn[q])
      BY <1>3
    <3> QED
      BY <3>1, <3>2, <3>3
  <2>2. \A q \in Peers : Bound(q)' = Bound(q)
    BY DEF Bound
  <2> QED
    BY <1>0, <1>1, <1>6, <2>1, <2>2 DEF TunnelTypeOK, Channels
<1>8. Peers = {"client", "server"} /\ (Pumping' <=> Pumping) /\ (Served' <=> Served)
  BY <1>1 DEF Peers, Pumping, Served
<1>9. Stages' /\ Allowed' /\ Seen'
  <2>1. Pumping \/ pc = "closed"
    BY <1>0, <1>1 DEF Stages
  <2>2. Stages'
    BY <1>0, <1>1, <1>8, <2>1 DEF Stages, Enough
  <2>3. \A q, n : Nth(q, n)' = Nth(q, n)
    BY <1>1 DEF Nth
  <2> QED
    BY <1>0, <1>1, <1>5, <1>8, <2>2, <2>3 DEF Allowed, Seen, Enough
<1>10. Chains'
  <2>1. \A q \in Peers : Passed(q)' = Passed(q) /\ InHand(q)' = InHand(q)
    BY <1>1, <1>5, <1>8 DEF Passed, InHand, Target
  <2>2. ASSUME NEW q \in Peers, Chained(q)
        PROVE  Chained(q)'
    BY <1>1, <2>1, <2>2, ChainedStays
  <2> QED
    BY <1>0, <1>1, <1>8, <2>2 DEF Chains
<1> QED
  BY <1>5, <1>6, <1>7, <1>8, <1>9, <1>10 DEF Safe

LEMMA ShutIsSafe ==
    ASSUME Safe, NEW p \in Peers, Shut(p)
    PROVE  Safe'
<1>0. TunnelTypeOK /\ Channels /\ Stages /\ Allowed /\ Seen /\ Chains
  BY DEF Safe
<1>1. /\ pc # "closed" /\ (p = "server" => Served) /\ end[p] = "open"
      /\ end' = [end EXCEPT ![p] = "shut"]
      /\ request' = request /\ line' = line /\ strained' = strained
      /\ pc' = pc /\ taken' = taken /\ code' = code
      /\ ready' = ready /\ held' = held /\ out' = out /\ sent' = sent /\ inn' = inn
      /\ got' = got
  BY DEF Shut, Present, ProxyFrame, Served, Peers
<1>2. /\ end'[p] = "shut" /\ \A q \in Peers : q # p => end'[q] = end[q]
      /\ Peers = {"client", "server"}
  BY <1>0, <1>1 DEF TunnelTypeOK, Peers
<1>3. /\ Pumping' <=> Pumping
      /\ Served' <=> Served
      /\ \A q : /\ Reached(q)' = Reached(q) /\ InHand(q)' = InHand(q)
                /\ Passed(q)' = Passed(q) /\ \A n : Nth(q, n)' = Nth(q, n)
  BY <1>1, SameReached DEF Served
<1>4. TunnelTypeOK' /\ Channels'
  <2>1. end' \in [Peers -> {"open", "shut", "reset"}]
    BY <1>0, <1>1 DEF TunnelTypeOK
  <2>2. \A q \in Peers : Bound(q)' = Bound(q)
    BY DEF Bound
  <2> QED
    BY <1>0, <1>1, <2>1, <2>2 DEF TunnelTypeOK, Channels
<1>5. Stages'
  BY <1>0, <1>1, <1>2, <1>3 DEF Stages, Enough
<1>6. Allowed' /\ Seen'
  BY <1>0, <1>1, <1>2, <1>3 DEF Allowed, Seen, Enough
<1>7. Chains'
  <2>1. ASSUME NEW q \in Peers, Chained(q)
        PROVE  Chained(q)'
    <3>1. Other(q) \in Peers
      BY <1>0, Basics
    <3>2. /\ end'[q] # "reset" => end[q] # "reset"
          /\ end'[Other(q)] # "reset" => end[Other(q)] # "reset"
      BY <1>1, <1>2, <3>1
    <3> QED
      BY <1>1, <1>3, <2>1, <3>1, <3>2, ChainedStays
  <2> QED
    BY <1>0, <1>1, <1>2, <2>1 DEF Chains
<1> QED
  BY <1>4, <1>5, <1>6, <1>7 DEF Safe

\* A reset takes what is in both buffers of the peer with it.
LEMMA ResetIsSafe ==
    ASSUME Safe, NEW p \in Peers, Reset(p)
    PROVE  Safe'
<1>0. TunnelTypeOK /\ Channels /\ Stages /\ Allowed /\ Seen /\ Chains
  BY DEF Safe
<1>1. /\ pc # "closed" /\ (p = "server" => Served)
      /\ end' = [end EXCEPT ![p] = "reset"]
      /\ out' = [out EXCEPT ![p] = <<>>] /\ inn' = [inn EXCEPT ![p] = <<>>]
      /\ request' = request /\ line' = line /\ strained' = strained
      /\ pc' = pc /\ taken' = taken /\ code' = code
      /\ ready' = ready /\ held' = held /\ sent' = sent /\ got' = got
  BY DEF Reset, Present, ProxyFrame, Served, Peers
<1>2. /\ end'[p] = "reset" /\ out'[p] = <<>> /\ inn'[p] = <<>>
      /\ \A q \in Peers : q # p => end'[q] = end[q] /\ out'[q] = out[q] /\ inn'[q] = inn[q]
      /\ Peers = {"client", "server"}
  BY <1>0, <1>1 DEF TunnelTypeOK, Channels, Peers
<1>3. /\ Pumping' <=> Pumping
      /\ Served' <=> Served
      /\ \A q : InHand(q)' = InHand(q) /\ \A n : Nth(q, n)' = Nth(q, n)
  BY <1>1 DEF Pumping, Served, InHand, Target, Nth
<1>4. \A q \in Peers : /\ Len(Reached(q)') <= Len(Reached(q)) /\ Len(Reached(q)') \in Nat
                       /\ Len(Reached(q)) \in Nat
                       /\ \A i \in 1..Len(Reached(q)') : Reached(q)'[i] = Reached(q)[i]
                       /\ Reached(q) = <<>> => Reached(q)' = <<>>
  BY <1>0, <1>1, <1>2, ReachedLess
<1>5. \A q \in Peers : q # p => Reached(q)' = Reached(q) /\ Passed(q)' = Passed(q)
  <2> TAKE q \in Peers
  <2> HAVE q # p
  <2>1. Reached(q)' = Reached(q)
    BY <1>1, <1>2 DEF Reached
  <2> QED
    BY <1>3, <2>1 DEF Passed
<1>6. Channels'
  <2>1. <<>> \in Seq(Unit)
    OBVIOUS
  <2> QED
    BY <1>0, <1>1, <2>1 DEF Channels
<1>7. TunnelTypeOK'
  <2>1. end' \in [Peers -> {"open", "shut", "reset"}]
    BY <1>0, <1>1 DEF TunnelTypeOK
  <2>2. \A q \in Peers : Bound(q)' = Bound(q)
    BY DEF Bound
  <2>3. \A q \in Peers : Len(out'[q]) <= Room /\ Len(inn'[q]) <= Room
    <3>1. Len(<<>>) <= Room
      BY TunnelAssumption
    <3> QED
      BY <1>0, <1>2, <3>1 DEF TunnelTypeOK
  <2> QED
    BY <1>0, <1>1, <1>6, <2>1, <2>2, <2>3 DEF TunnelTypeOK, Channels
<1>8. Stages'
  BY <1>0, <1>1, <1>2, <1>3 DEF Stages, Enough
<1>9. Allowed'
  BY <1>0, <1>1, <1>2, <1>3, <1>4 DEF Allowed, Enough
<1>10. Seen'
  BY <1>0, <1>1, <1>2, <1>3, <1>4, <1>5 DEF Seen
<1>11. Chains'
  <2>1. Chained(p)'
    BY <1>2 DEF Chained
  <2>2. ASSUME NEW q \in Peers, q # p, Chained(q)
        PROVE  Chained(q)'
    <3>1. Other(q) = p
      BY <1>2, <2>2 DEF Other
    <3> QED
      BY <1>2, <1>3, <1>5, <2>2, <3>1 DEF Chained
  <2> QED
    BY <1>0, <1>1, <1>2, <2>1, <2>2 DEF Chains
<1> QED
  BY <1>6, <1>7, <1>8, <1>9, <1>10, <1>11 DEF Safe

-----------------------------------------------------------------------------
(* The proxy's steps: to the reply.                                        *)

LEMMA NothingYet ==
    ASSUME Safe, ~Pumping, pc # "closed"
    PROVE  /\ \A p \in Peers : /\ got[p] = <<>> /\ inn[p] = <<>>
                               /\ Reached(p) = <<>> /\ InHand(p) = <<>>
           /\ Passed("server") = 0 /\ Passed("client") = 1
<1>1. \A p \in Peers : got[p] = <<>> /\ inn[p] = <<>>
  BY DEF Safe, Stages
<1>2. <<>> \o <<>> = <<>> /\ Len(<<>>) = 0
  OBVIOUS
<1>3. \A p \in Peers : Reached(p) = <<>> /\ InHand(p) = <<>>
  BY <1>1, <1>2 DEF Reached, InHand, Pumping
<1> QED
  BY <1>1, <1>2, <1>3 DEF Passed, Peers

\* The steps from the end of the request line to the reply.
LEMMA JudgingIsSafe ==
    ASSUME Safe, pc \in {"reading", "judging", "connecting"},
           pc' \in {"judging", "connecting", "replying"},
           request' \in Requests, code' \in Codes,
           UNCHANGED <<line, strained, taken, ready, held, out, inn, sent, got, end>>,
           Enough \/ (end["client"] # "open" /\ out["client"] = <<>>),
           pc' = "connecting" \/ (pc' = "replying" /\ code' = 200) => request' = "allowed"
    PROVE  Safe'
<1>0. TunnelTypeOK /\ Channels /\ Stages /\ Allowed /\ Seen /\ Chains
  BY DEF Safe
<1>1. ~Pumping /\ ~Pumping' /\ ~Served /\ pc # "closed" /\ Peers = {"client", "server"}
  BY DEF Pumping, Served, Peers
<1>2. \A p \in Peers : Reached(p) = <<>> /\ InHand(p) = <<>>
  BY <1>1, NothingYet
<1>3. \A p : /\ Reached(p)' = Reached(p) /\ Passed(p)' = Passed(p)
             /\ \A n : Nth(p, n)' = Nth(p, n)
  BY <1>1 DEF Reached, Passed, Nth
<1>4. \A p \in Peers : InHand(p)' = InHand(p)
  BY <1>1, <1>2 DEF InHand, Pumping
<1>5. TunnelTypeOK' /\ Channels'
  <2>1. \A q \in Peers : Bound(q)' = Bound(q)
    BY DEF Bound
  <2> QED
    BY <1>0, <2>1 DEF TunnelTypeOK, Channels
<1>6. Stages'
  BY <1>0, <1>1 DEF Stages, Enough
<1>7. Allowed'
  <2>1. sent'["server"] = 0 /\ Reached("server")' = <<>>
    BY <1>0, <1>1, <1>2, <1>3 DEF Stages
  <2>2. pc' = "connecting" \/ Served' => request' = "allowed"
    BY <1>1 DEF Served
  <2> QED
    BY <2>1, <2>2 DEF Allowed
<1>8. Seen'
  BY <1>0, <1>1, <1>3 DEF Seen
<1>9. Chains'
  <2>1. ASSUME NEW p \in Peers, Chained(p)
        PROVE  Chained(p)'
    <3>1. Other(p) \in Peers
      BY <1>0, Basics
    <3> QED
      BY <1>3, <1>4, <2>1, <3>1, ChainedStays
  <2> QED
    BY <1>0, <1>1, <2>1 DEF Chains
<1> QED
  BY <1>5, <1>6, <1>7, <1>8, <1>9 DEF Safe

LEMMA ReadLineIsSafe ==
    ASSUME Safe, ReadLine
    PROVE  Safe'
<1>0. TunnelTypeOK /\ Channels /\ Stages /\ Allowed /\ Seen /\ Chains
  BY DEF Safe
<1>1. PICK n \in 1..Len(out["client"]) :
          /\ out' = [out EXCEPT !["client"] = From(n, out["client"])]
          /\ taken' = taken + n
  BY DEF ReadLine
<1>2. /\ pc = "reading" /\ pc' \in {"judging", "reading"}
      /\ pc' = "judging" => Enough'
      /\ pc' = "reading" => taken' <= Limit
      /\ request' \in Requests /\ line' = line /\ strained' = strained /\ code' = code
      /\ ready' = ready /\ held' = held /\ inn' = inn /\ sent' = sent /\ got' = got
      /\ end' = end
  <2>1. /\ pc = "reading"
        /\ pc' = IF taken' >= line \/ taken' > Limit THEN "judging" ELSE "reading"
        /\ UNCHANGED <<line, strained, sent, got, end, code, ready, held, inn>>
        /\ request' \in Requests
    BY <1>0 DEF ReadLine, TunnelTypeOK
  <2>2. taken' \in Nat /\ Limit \in Nat
    <3>1. taken \in Nat /\ Limit \in Nat /\ out["client"] \in Seq(Unit)
      BY <1>0, Basics DEF Peers
    <3>2. n \in Nat
      BY <3>1, LenProperties
    <3> QED
      BY <1>1, <3>1, <3>2
  <2> QED
    BY <2>1, <2>2 DEF Enough
<1>3. /\ ~Pumping /\ ~Pumping' /\ ~Served /\ ~Served' /\ Peers = {"client", "server"}
  BY <1>2 DEF Pumping, Served, Peers
<1>4. /\ \A p \in Peers : /\ got[p] = <<>> /\ inn[p] = <<>>
                          /\ Reached(p) = <<>> /\ InHand(p) = <<>>
                          /\ Reached(p)' = <<>> /\ InHand(p)' = <<>>
      /\ Passed("server") = 0 /\ Passed("client") = 1
      /\ Passed("server")' = 0 /\ Passed("client")' = 1
  <2>1. /\ \A p \in Peers : /\ got[p] = <<>> /\ inn[p] = <<>>
                            /\ Reached(p) = <<>> /\ InHand(p) = <<>>
        /\ Passed("server") = 0 /\ Passed("client") = 1
    BY <1>2, <1>3, NothingYet
  <2>2. \A p \in Peers : Reached(p)' = <<>> /\ InHand(p)' = <<>>
    BY <1>2, <2>1 DEF Reached, InHand
  <2> QED
    BY <1>3, <2>1, <2>2 DEF Passed, Peers
<1>5. /\ out["client"] \in Seq(Unit) /\ Len(out["client"]) \in Nat /\ taken \in Nat
      /\ Len(out["client"]) <= Room /\ Room \in Nat /\ sent["client"] \in Nat
      /\ line \in Nat
  BY <1>0, <1>3, Basics
<1>6. /\ out'["client"] = From(n, out["client"]) /\ out'["server"] = out["server"]
      /\ out'["client"] \in Seq(Unit) /\ Len(out'["client"]) = Len(out["client"]) - n
      /\ \A i \in 1..(Len(out["client"]) - n) : out'["client"][i] = out["client"][n + i]
      /\ n \in Nat \ {0} /\ n <= Len(out["client"])
  <2>1. out'["client"] = From(n, out["client"]) /\ out'["server"] = out["server"]
    BY <1>0, <1>1, <1>3 DEF Channels
  <2>2. /\ From(n, out["client"]) \in Seq(Unit)
        /\ Len(From(n, out["client"])) = Len(out["client"]) - n
        /\ \A i \in 1..(Len(out["client"]) - n) :
               From(n, out["client"])[i] = out["client"][n + i]
    BY <1>1, <1>5, CutIs
  <2>3. n \in Nat \ {0} /\ n <= Len(out["client"])
    BY <1>1, <1>5
  <2> QED
    BY <2>1, <2>2, <2>3
\* The client has not been reset, and the server is not there to be.
<1>7. end["client"] # "reset" /\ end["server"] = "open" /\ out["server"] = <<>>
      /\ sent["server"] = 0
  BY <1>0, <1>2, <1>3, <1>5, <1>6 DEF Stages
<1>8. /\ \A i \in 1..Len(out["client"]) : out["client"][i] = taken + i
      /\ taken + Len(out["client"]) = sent["client"]
  <2>1. Chained("server") /\ Other("server") = "client" /\ Len(<<>>) = 0
    BY <1>0, <1>2 DEF Chains, Other
  <2>2. /\ \A i \in 1..Len(out["client"]) : out["client"][i] = Nth("server", 0 + 0 + i)
        /\ Nth("server", 0 + 0 + Len(out["client"])) = sent["client"]
    BY <1>3, <1>4, <1>7, <2>1 DEF Chained
  <2> QED
    BY <1>5, <2>2 DEF Nth
<1>9. Channels'
  <2>1. out' \in [Peers -> Seq(Unit)]
    BY <1>0, <1>1, <1>6 DEF Channels
  <2> QED
    BY <1>0, <1>2, <2>1 DEF Channels
<1>10. taken' \in Nat /\ taken' <= sent["client"]
  BY <1>1, <1>5, <1>6, <1>8
<1>11. TunnelTypeOK'
  <2>1. taken' \in 0..ClientUnits
    <3>1. sent["client"] <= ClientUnits
      BY <1>0, <1>3 DEF TunnelTypeOK, Bound
    <3> QED
      BY <1>5, <1>10, <3>1, TunnelAssumption
  <2>2. \A p \in Peers : Len(out'[p]) <= Room
    BY <1>0, <1>3, <1>5, <1>6 DEF TunnelTypeOK
  <2>3. \A p \in Peers : Bound(p)' = Bound(p)
    BY DEF Bound
  <2> QED
    BY <1>0, <1>2, <1>9, <2>1, <2>2, <2>3 DEF TunnelTypeOK, Channels
<1>12. Stages'
  BY <1>0, <1>2, <1>3, <1>4, <1>6, <1>7, <1>10 DEF Stages
<1>13. Allowed' /\ Seen'
  <2>1. Allowed'
    BY <1>2, <1>3, <1>4, <1>7 DEF Allowed
  <2>2. Len(<<>>) = 0
    OBVIOUS
  <2> QED
    BY <1>3, <1>4, <2>1, <2>2 DEF Seen
<1>14. Chains'
  <2>1. Len(<<>>) = 0 /\ Other("server") = "client" /\ Other("client") = "server"
    BY DEF Other
  <2>2. Chained("client")'
    <3>1. Nth("client", 1 + 0 + 0)' = 0
      BY DEF Nth
    <3> QED
      BY <1>2, <1>3, <1>4, <1>6, <1>7, <2>1, <3>1 DEF Chained
  <2>3. Chained("server")'
    <3>1. ASSUME NEW i \in 1..Len(out'["client"])
          PROVE  out'["client"][i] = taken' + (0 + 0 + i)
      <4>1. i \in Nat /\ i \in 1..(Len(out["client"]) - n) /\ n + i \in 1..Len(out["client"])
        BY <1>5, <1>6, <3>1
      <4>2. out'["client"][i] = taken + (n + i)
        BY <1>6, <1>8, <4>1
      <4>3. taken' = taken + n /\ taken \in Nat /\ n \in Nat
        BY <1>1, <1>5, <1>6
      <4> QED
        BY <4>1, <4>2, <4>3
    <3>2. taken' + (0 + 0 + Len(out'["client"])) = sent'["client"]
      <4>1. /\ taken' = taken + n /\ taken \in Nat /\ n \in Nat /\ Len(out["client"]) \in Nat
            /\ Len(out'["client"]) = Len(out["client"]) - n
            /\ taken + Len(out["client"]) = sent'["client"]
        BY <1>1, <1>2, <1>5, <1>6, <1>8
      <4>2. \A a, b, c \in Nat : (a + c) + (0 + 0 + (b - c)) = a + b
        OBVIOUS
      <4>3. (taken + n) + (0 + 0 + (Len(out["client"]) - n)) = taken + Len(out["client"])
        BY <4>1, <4>2
      <4> QED
        BY <4>1, <4>3
    <3> QED
      BY <1>4, <2>1, <3>1, <3>2, <1>3 DEF Chained, Nth
  <2> QED
    BY <2>2, <2>3 DEF Chains
<1> QED
  BY <1>9, <1>11, <1>12, <1>13, <1>14 DEF Safe

LEMMA ReplyIsSafe ==
    ASSUME Safe, Reply
    PROVE  Safe'
<1>0. TunnelTypeOK /\ Channels /\ Stages /\ Allowed /\ Seen /\ Chains
  BY DEF Safe
<1>1. /\ pc = "replying"
      /\ request' = request /\ line' = line /\ strained' = strained
      /\ taken' = taken /\ code' = code
      /\ ready' = ready /\ held' = held /\ sent' = sent /\ got' = got /\ end' = end
  BY DEF Reply, peerVars
<1>2. ~Pumping /\ pc # "closed" /\ Peers = {"client", "server"}
  BY <1>1 DEF Pumping, Peers
<1>3. /\ \A p \in Peers : /\ got[p] = <<>> /\ inn[p] = <<>>
                          /\ Reached(p) = <<>> /\ InHand(p) = <<>>
      /\ Passed("server") = 0 /\ Passed("client") = 1
  BY <1>2, NothingYet
<1>4. /\ Len(<<>>) = 0 /\ <<>> \in Seq(Unit) /\ <<>> \o <<>> = <<>>
      /\ \A x : Len(<<x>>) = 1 /\ <<x>>[1] = x /\ <<x>> # <<>> /\ <<>> \o <<x>> = <<x>>
  OBVIOUS
<1>5. /\ \A p \in Peers : Len(inn[p]) <= Room /\ Len(out[p]) <= Room
      /\ Room \in Nat \ {0} /\ code \in Unit
  BY <1>0, Basics DEF TunnelTypeOK, Unit
<1>6. <<code>> \in Seq(Unit)
  BY <1>5
<1>7. \A p, n : Bound(p)' = Bound(p) /\ Nth(p, n)' = Nth(p, n)
  BY <1>1 DEF Bound, Nth
\* The tunnel is established.
<1>8. CASE code = 200
  <2>1. pc' = "select" /\ inn' = [inn EXCEPT !["client"] = <<200>>] /\ out' = out
    BY <1>8 DEF Reply
  <2>2. Pumping' /\ Served /\ Served'
    BY <1>1, <1>8, <2>1 DEF Pumping, Served
  <2>3. inn'["client"] = <<200>> /\ inn'["server"] = inn["server"]
    BY <1>0, <2>1, <1>2 DEF Channels
  <2>4. Reached("client")' = <<200>> /\ Reached("server")' = <<>>
    BY <1>1, <1>2, <1>3, <1>4, <2>3 DEF Reached
  <2>5. Passed("client")' = 1 /\ Passed("server")' = 0
    BY <1>4, <2>2, <2>4 DEF Passed
  <2>6. \A p \in Peers : InHand(p)' = InHand(p)
    BY <1>3, <2>1 DEF InHand
  <2>7. Channels'
    BY <1>0, <1>1, <1>6, <1>8, <2>1 DEF Channels
  <2>8. TunnelTypeOK'
    <3>1. \A p \in Peers : Len(inn'[p]) <= Room
      <4>1. 1 <= Room /\ Len(<<200>>) = 1
        BY <1>5
      <4> QED
        BY <1>2, <1>5, <2>3, <4>1
    <3> QED
      BY <1>0, <1>1, <1>7, <2>1, <2>7, <3>1 DEF TunnelTypeOK, Channels
  <2>9. Stages'
    BY <1>0, <1>1, <2>1, <2>2 DEF Stages, Enough
  <2>10. Allowed'
    BY <1>0, <1>1, <2>2, <2>4 DEF Allowed
  <2>11. Seen'
    BY <1>4, <2>4 DEF Seen
  <2>12. Chains'
    <3>1. ASSUME NEW p \in Peers, Chained(p)
          PROVE  Chained(p)'
      <4>1. Other(p) \in Peers
        BY <1>0, Basics
      <4>2. Passed(p)' = Passed(p)
        BY <1>2, <1>3, <2>5
      <4> QED
        BY <1>1, <2>1, <2>6, <3>1, <4>1, <4>2, ChainedStays
    <3> QED
      BY <1>0, <1>2, <3>1 DEF Chains
  <2> QED
    BY <2>7, <2>8, <2>9, <2>10, <2>11, <2>12 DEF Safe
\* A refusal, which may get lost.
<1>9. CASE code # 200
  <2>1. /\ pc' = "closed" /\ out' = [p \in Peers |-> <<>>]
        /\ inn' = [inn EXCEPT !["client"] = <<code>>] \/ inn' = inn
    BY <1>9 DEF Reply
  <2>2. ~Pumping' /\ ~Served' /\ ~Served
    BY <1>1, <1>9, <2>1 DEF Pumping, Served
  <2>3. inn'["client"] \in {<<code>>, inn["client"]} /\ inn'["server"] = inn["server"]
    BY <1>0, <1>2, <2>1 DEF Channels
  <2>4. Reached("client")' \in {<<code>>, <<>>} /\ Reached("server")' = <<>>
    BY <1>1, <1>2, <1>3, <1>4, <2>3 DEF Reached
  <2>5. Channels'
    BY <1>0, <1>1, <1>4, <1>6, <2>1 DEF Channels
  <2>6. TunnelTypeOK'
    <3>1. \A p \in Peers : Len(inn'[p]) <= Room /\ Len(out'[p]) <= Room
      <4>1. 1 <= Room /\ Len(<<code>>) = 1 /\ 0 <= Room /\ Len(<<>>) = 0
        BY <1>5
      <4> QED
        BY <1>2, <1>5, <2>1, <2>3, <4>1
    <3> QED
      BY <1>0, <1>1, <1>7, <2>1, <2>5, <3>1 DEF TunnelTypeOK, Channels
  <2>7. Stages'
    BY <1>0, <1>1, <2>1, <2>2 DEF Stages
  <2>8. Allowed'
    BY <1>0, <1>1, <1>2, <2>1, <2>2, <2>4 DEF Allowed, Stages
  <2>9. Seen'
    BY <1>4, <2>2, <2>4 DEF Seen
  <2> QED
    BY <2>1, <2>5, <2>6, <2>7, <2>8, <2>9 DEF Safe, Chains
<1> QED
  BY <1>8, <1>9

-----------------------------------------------------------------------------
(* The proxy's steps: the pump.                                            *)

\* select, and the end of a round.
LEMMA LoopIsSafe ==
    ASSUME Safe, pc \in {"select", "pump"}, pc' \in {"select", "pump"}, ready' \in Orders,
           UNCHANGED <<peerVars, taken, code, held, out, inn>>
    PROVE  Safe'
<1>0. TunnelTypeOK /\ Channels /\ Stages /\ Allowed /\ Seen /\ Chains
  BY DEF Safe
<1>1. /\ request' = request /\ line' = line /\ strained' = strained
      /\ taken' = taken /\ code' = code
      /\ held' = held /\ sent' = sent /\ got' = got /\ end' = end /\ out' = out /\ inn' = inn
  BY DEF peerVars
<1>2. /\ Pumping /\ Pumping' /\ Served /\ Served'
      /\ \A p : /\ Reached(p)' = Reached(p) /\ InHand(p)' = InHand(p)
                /\ Bound(p)' = Bound(p) /\ \A n : Nth(p, n)' = Nth(p, n)
  BY <1>1 DEF Pumping, Served, Reached, InHand, Bound, Nth
<1>3. \A p : Passed(p)' = Passed(p)
  BY <1>2 DEF Passed
<1>4. TunnelTypeOK' /\ Channels'
  BY <1>0, <1>1, <1>2 DEF TunnelTypeOK, Channels
<1>5. Stages' /\ Allowed' /\ Seen'
  <2>1. Stages'
    BY <1>0, <1>1, <1>2 DEF Stages, Enough
  <2>2. Allowed'
    BY <1>0, <1>1, <1>2 DEF Allowed, Enough
  <2> QED
    BY <1>0, <1>1, <1>2, <2>1, <2>2 DEF Seen
<1>6. Chains'
  <2>1. ASSUME NEW p \in Peers, Chained(p)
        PROVE  Chained(p)'
    <3>1. Other(p) \in Peers
      BY <1>0, Basics
    <3> QED
      BY <1>1, <1>2, <1>3, <2>1, <3>1, ChainedStays
  <2> QED
    BY <1>0, <2>1 DEF Chains, Peers
<1> QED
  BY <1>4, <1>5, <1>6 DEF Safe

LEMMA ReadyIs ==
    ASSUME NEW r \in Orders, r # <<>>
    PROVE  Head(r) \in Peers /\ Tail(r) \in Orders
<1>1. CASE r = <<"client">>
  BY <1>1 DEF Orders, Peers
<1>2. CASE r = <<"server">>
  BY <1>2 DEF Orders, Peers
<1>3. CASE r = <<"client", "server">>
  <2>1. Head(r) = "client" /\ Tail(r) = <<"server">>
    BY <1>3
  <2> QED
    BY <2>1 DEF Orders, Peers
<1> QED
  BY <1>1, <1>2, <1>3 DEF Orders

\* What recv takes from one socket is held for the other: it is cut from what
\* follows on the units passed before.
LEMMA RecvIsSafe ==
    ASSUME Safe, Recv
    PROVE  Safe'
<1>0. TunnelTypeOK /\ Channels /\ Stages /\ Allowed /\ Seen /\ Chains
  BY DEF Safe
<1>1. /\ pc = "pump" /\ pc' = "send" /\ ready # <<>> /\ ready' = Tail(ready)
      /\ request' = request /\ line' = line /\ strained' = strained
      /\ taken' = taken /\ code' = code
      /\ sent' = sent /\ got' = got /\ end' = end /\ inn' = inn
  BY DEF Recv, peerVars
<1>2. PICK h \in Peers : h = Head(ready) /\ Tail(ready) \in Orders
  BY <1>0, <1>1, ReadyIs DEF TunnelTypeOK
<1>3. PICK n \in 1..Len(out[h]) :
          /\ held' = [from |-> h, data |-> SubSeq(out[h], 1, n)]
          /\ out' = [out EXCEPT ![h] = From(n, out[h])]
  BY <1>2 DEF Recv
<1> PICK q \in Peers : q = Other(h)
  BY <1>0, <1>2, Basics
<1>4. /\ out[h] \in Seq(Unit) /\ Len(out[h]) \in Nat /\ Len(out[h]) <= Room /\ Room \in Nat
      /\ q # h /\ Other(q) = h /\ Other(h) = q
      /\ Peers = {"client", "server"} /\ taken \in Nat
      /\ \A p \in Peers : Passed(p) \in Nat /\ Other(p) \in Peers
  BY <1>0, <1>2, Basics
<1>5. /\ held'.from = h /\ held'.data \in Seq(Unit) /\ Len(held'.data) = n
      /\ \A i \in 1..n : held'.data[i] = out[h][i]
      /\ out'[h] \in Seq(Unit) /\ Len(out'[h]) = Len(out[h]) - n
      /\ \A i \in 1..(Len(out[h]) - n) : out'[h][i] = out[h][n + i]
      /\ n \in Nat \ {0} /\ n <= Len(out[h])
      /\ \A p \in Peers : p # h => out'[p] = out[p]
  <2>1. out \in [Peers -> Seq(Unit)]
    BY <1>0 DEF Channels
  <2>2. out'[h] = From(n, out[h]) /\ \A p \in Peers : p # h => out'[p] = out[p]
    BY <1>2, <1>3, <2>1
  <2>3. held'.from = h /\ held'.data = SubSeq(out[h], 1, n)
    BY <1>3
  <2>4. /\ SubSeq(out[h], 1, n) \in Seq(Unit) /\ Len(SubSeq(out[h], 1, n)) = n
        /\ \A i \in 1..n : SubSeq(out[h], 1, n)[i] = out[h][i]
        /\ From(n, out[h]) \in Seq(Unit) /\ Len(From(n, out[h])) = Len(out[h]) - n
        /\ \A i \in 1..(Len(out[h]) - n) : From(n, out[h])[i] = out[h][n + i]
    BY <1>3, <1>4, CutIs
  <2>5. n \in Nat \ {0} /\ n <= Len(out[h])
    BY <1>3, <1>4
  <2> QED
    BY <2>2, <2>3, <2>4, <2>5
<1>6. /\ Pumping /\ Pumping' /\ Served /\ Served'
      /\ \A p : /\ Reached(p)' = Reached(p) /\ Bound(p)' = Bound(p)
                /\ \A k : Nth(p, k)' = Nth(p, k)
  BY <1>1 DEF Pumping, Served, Reached, Bound, Nth
<1>7. /\ \A p : Passed(p)' = Passed(p)
      /\ \A p : InHand(p) = <<>>
      /\ InHand(q)' = held'.data /\ InHand(h)' = <<>>
  <2>1. Target' = q
    BY <1>3 DEF Target, Other
  <2> QED
    BY <1>1, <1>4, <1>6, <2>1 DEF Passed, InHand
<1>8. Channels'
  <2>1. out' \in [Peers -> Seq(Unit)]
    BY <1>0, <1>3, <1>5 DEF Channels
  <2> QED
    BY <1>0, <1>1, <2>1 DEF Channels
<1>9. TunnelTypeOK'
  <2>1. held' \in [from : Peers, data : Seq(Unit)]
    BY <1>2, <1>3, <1>5
  <2>2. ASSUME NEW p \in Peers
        PROVE  Len(out'[p]) <= Room
    <3>1. CASE p = h
      BY <1>4, <1>5, <3>1
    <3>2. CASE p # h
      BY <1>0, <1>5, <3>2 DEF TunnelTypeOK
    <3> QED
      BY <3>1, <3>2
  <2> QED
    BY <1>0, <1>1, <1>2, <1>6, <1>8, <2>1, <2>2 DEF TunnelTypeOK, Channels
<1>10. /\ end[h] # "reset"
       /\ h = "client" => Enough
  <2>1. out[h] # <<>>
    BY <1>4, <1>5
  <2> QED
    BY <1>0, <1>1, <1>2, <2>1 DEF Stages
<1>11. Stages'
  <2>1. held'.data # <<>> /\ (held'.from = "client" => Enough')
    BY <1>1, <1>5, <1>10 DEF Enough
  <2>2. \A p \in Peers : end'[p] = "reset" => out'[p] = <<>>
    BY <1>0, <1>1, <1>5, <1>10 DEF Stages
  <2>3. Enough' \/ (end'["client"] # "open" /\ out'["client"] = <<>>)
    BY <1>0, <1>1, <1>4, <1>5, <1>10 DEF Stages, Enough
  <2> QED
    BY <1>0, <1>1, <1>6, <2>1, <2>2, <2>3 DEF Stages
<1>12. Allowed' /\ Seen'
  <2>1. Allowed'
    BY <1>0, <1>1, <1>6 DEF Allowed, Enough
  <2> QED
    BY <1>0, <1>1, <1>6, <2>1 DEF Seen
<1>13. Chained(h)'
  <2>1. Chained(h)
    BY <1>0, <1>1, <1>2, <1>4 DEF Chains
  <2>2. out'[q] = out[q]
    BY <1>4, <1>5
  <2> QED
    BY <1>1, <1>2, <1>7, <2>1, <2>2, ChainedStays
<1>14. Chained(q)'
  <2>1. Chained(q)
    BY <1>0, <1>1, <1>4 DEF Chains
  <2>2. SUFFICES ASSUME end[q] # "reset"
                 PROVE  Chained(q)'
    BY <1>1 DEF Chained
  <2>3. Len(<<>>) = 0
    OBVIOUS
  <2>4. /\ \A i \in 1..Len(out[h]) : out[h][i] = Nth(q, Passed(q) + 0 + i)
        /\ Nth(q, Passed(q) + 0 + Len(out[h])) = sent[h]
    BY <1>4, <1>7, <1>10, <2>1, <2>2, <2>3 DEF Chained
  <2>5. Passed(q) \in Nat
    BY <1>4
  <2>6. ASSUME NEW i \in 1..n
        PROVE  held'.data[i] = Nth(q, Passed(q) + i)
    <3>1. i \in 1..Len(out[h]) /\ Passed(q) + 0 + i = Passed(q) + i
      BY <1>4, <1>5, <2>5, <2>6
    <3> QED
      BY <1>5, <2>4, <3>1
  <2>7. ASSUME NEW i \in 1..(Len(out[h]) - n)
        PROVE  out'[h][i] = Nth(q, Passed(q) + n + i)
    <3>1. n + i \in 1..Len(out[h]) /\ Passed(q) + 0 + (n + i) = Passed(q) + n + i
      BY <1>4, <1>5, <2>5, <2>7
    <3> QED
      BY <1>5, <2>4, <3>1
  <2>8. Passed(q) + n + (Len(out[h]) - n) = Passed(q) + 0 + Len(out[h])
    BY <1>4, <1>5, <2>5
  <2>9. Nth(q, Passed(q) + n + (Len(out[h]) - n)) = sent[h]
    BY <2>4, <2>8
  <2> QED
    BY <1>1, <1>4, <1>5, <1>6, <1>7, <2>6, <2>7, <2>9 DEF Chained
<1>15. Chains'
  BY <1>2, <1>4, <1>13, <1>14 DEF Chains
<1> QED
  BY <1>8, <1>9, <1>11, <1>12, <1>15 DEF Safe

\* sendall passes the first of what it holds: that is what comes next for the peer.
LEMMA SendAllIsSafe ==
    ASSUME Safe, SendAll
    PROVE  Safe'
<1>0. TunnelTypeOK /\ Channels /\ Stages /\ Allowed /\ Seen /\ Chains
  BY DEF Safe
<1>1. /\ pc = "send" /\ pc' = (IF Len(held.data) = 1 THEN "pump" ELSE "send")
      /\ request' = request /\ line' = line /\ strained' = strained
      /\ taken' = taken /\ code' = code
      /\ sent' = sent /\ got' = got /\ end' = end /\ out' = out /\ ready' = ready
  BY DEF SendAll, peerVars
<1>2. held \in [from : Peers, data : Seq(Unit)] /\ held.data # <<>>
  BY <1>0, <1>1 DEF TunnelTypeOK, Stages
<1>3. PICK t \in Peers : t = Target
  BY <1>0, <1>2, Basics DEF Target
<1>4. PICK d \in Seq(Unit) : d = held.data
  BY <1>2
<1>5. /\ end[t] # "reset" /\ Len(inn[t]) < Room
      /\ inn' = [inn EXCEPT ![t] = Append(inn[t], Head(d))]
      /\ held' = [held EXCEPT !.data = Tail(d)]
  BY <1>0, <1>2, <1>3, <1>4 DEF SendAll, Channels
<1>6. /\ Head(d) = d[1] /\ Head(d) \in Unit /\ Tail(d) \in Seq(Unit) /\ Len(d) \in Nat \ {0}
      /\ Len(Tail(d)) = Len(d) - 1 /\ \A i \in 1..(Len(d) - 1) : Tail(d)[i] = d[i + 1]
      /\ Len(d) = 1 => Tail(d) = <<>>
      /\ Len(d) # 1 => Tail(d) # <<>>
  <2>1. d \in Seq(Unit) /\ d # <<>>
    BY <1>2, <1>4
  <2>2. /\ Head(d) = d[1] /\ Head(d) \in Unit /\ Tail(d) \in Seq(Unit)
        /\ Len(d) \in Nat \ {0} /\ Len(Tail(d)) = Len(d) - 1
        /\ \A i \in 1..(Len(d) - 1) : Tail(d)[i] = d[i + 1]
    BY <2>1
  <2>3. Len(Tail(d)) = 0 <=> Tail(d) = <<>>
    BY <2>2, EmptySeq
  <2> QED
    BY <2>2, <2>3
<1>7. held'.data = Tail(d) /\ held'.from = held.from /\ Target' = t
  BY <1>2, <1>3, <1>5 DEF Target, Other
<1>8. /\ Pumping /\ Pumping' /\ Served /\ Served'
      /\ \A p : Bound(p)' = Bound(p) /\ \A k : Nth(p, k)' = Nth(p, k)
  BY <1>1 DEF Pumping, Served, Bound, Nth
<1>9. /\ InHand(t) = d /\ InHand(t)' = Tail(d)
      /\ \A p \in Peers : p # t => InHand(p) = <<>> /\ InHand(p)' = <<>>
  <2>1. pc' # "send" => Tail(d) = <<>>
    BY <1>1, <1>4, <1>6
  <2> QED
    BY <1>1, <1>3, <1>4, <1>7, <2>1 DEF InHand
<1>10. \A p \in Peers : /\ got[p] \in Seq(Unit) /\ inn[p] \in Seq(Unit)
                        /\ Len(inn[p]) \in Nat /\ Len(inn[p]) <= Room /\ Room \in Nat
                        /\ Reached(p) \in Seq(Unit) /\ Len(Reached(p)) \in Nat
                        /\ Other(p) \in Peers /\ Other(Other(p)) = p
                        /\ Peers = {"client", "server"} /\ taken \in Nat
  BY <1>0, Basics
<1>11. /\ inn'[t] = Append(inn[t], Head(d))
       /\ \A p \in Peers : p # t => inn'[p] = inn[p]
  BY <1>0, <1>5 DEF Channels
<1>12. /\ Len(Reached(t)') = Len(Reached(t)) + 1
       /\ \A i \in 1..Len(Reached(t)) : Reached(t)'[i] = Reached(t)[i]
       /\ Reached(t)'[Len(Reached(t)) + 1] = d[1]
       /\ \A p \in Peers : p # t => Reached(p)' = Reached(p)
  <2>1. got[t] \o Append(inn[t], Head(d)) = Append(got[t] \o inn[t], Head(d))
    <3>1. PICK g \in Seq(Unit), n \in Seq(Unit), x \in Unit :
              g = got[t] /\ n = inn[t] /\ x = Head(d)
      BY <1>6, <1>10
    <3>2. g \o Append(n, x) = Append(g \o n, x)
      BY SendAdds
    <3> QED
      BY <3>1, <3>2
  <2>2. Reached(t)' = Append(Reached(t), d[1])
    BY <1>1, <1>6, <1>11, <2>1 DEF Reached
  <2>3. Reached(t) \in Seq(Unit) /\ d[1] \in Unit
    BY <1>6, <1>10
  <2>4. \A p \in Peers : p # t => Reached(p)' = Reached(p)
    BY <1>1, <1>11 DEF Reached
  <2> QED
    BY <2>2, <2>3, <2>4
<1>13. /\ Passed(t) = Len(Reached(t)) /\ Passed(t)' = Passed(t) + 1 /\ Passed(t) \in Nat
       /\ \A p \in Peers : p # t => Passed(p)' = Passed(p)
  BY <1>8, <1>10, <1>12 DEF Passed
<1>14. Chained(t) /\ \A i \in 1..Len(d) : d[i] = Nth(t, Passed(t) + i)
  <2>1. Chained(t)
    BY <1>0, <1>1, <1>3, <1>10 DEF Chains
  <2> QED
    BY <1>5, <1>9, <2>1 DEF Chained
<1>15. Channels'
  <2>1. Append(inn[t], Head(d)) \in Seq(Unit)
    BY <1>6, <1>10
  <2>2. inn' \in [Peers -> Seq(Unit)]
    BY <1>0, <1>5, <2>1 DEF Channels
  <2> QED
    BY <1>0, <1>1, <2>2 DEF Channels
<1>16. TunnelTypeOK'
  <2>1. held' \in [from : Peers, data : Seq(Unit)]
    BY <1>2, <1>5, <1>6
  <2>2. Len(inn'[t]) <= Room
    <3>1. Len(inn'[t]) = Len(inn[t]) + 1
      BY <1>10, <1>11
    <3> QED
      BY <1>5, <1>10, <3>1
  <2>3. \A p \in Peers : Len(inn'[p]) <= Room
    BY <1>10, <1>11, <2>2
  <2> QED
    BY <1>0, <1>1, <1>8, <1>15, <2>1, <2>3 DEF TunnelTypeOK, Channels
<1>17. Stages'
  <2>1. pc' = "send" => held'.data # <<>> /\ (held'.from = "client" => Enough')
    BY <1>0, <1>1, <1>4, <1>6, <1>7 DEF Stages, Enough
  <2> QED
    BY <1>0, <1>1, <1>8, <2>1 DEF Stages, Enough
<1>18. Allowed'
  <2>1. request = "allowed"
    BY <1>0, <1>8 DEF Allowed
  <2>2. t = "server" => Enough
    <3>1. t = "server" => held.from = "client"
      BY <1>2, <1>3 DEF Target, Other
    <3> QED
      BY <1>0, <1>1, <3>1 DEF Stages
  <2>3. Reached("server")' # <<>> => Enough
    BY <1>0, <1>10, <1>12, <2>2 DEF Allowed
  <2> QED
    BY <1>1, <2>1, <2>3 DEF Allowed, Enough
<1>19. Seen'
  <2>1. d[1] = Nth(t, Len(Reached(t)) + 1)
    BY <1>6, <1>13, <1>14
  <2>2. \A i \in 1..Len(Reached("server")') : Reached("server")'[i] = Nth("server", i)
    <3>1. CASE t = "server"
      <4>1. \A i \in 1..(Len(Reached("server")) + 1) :
                i \in 1..Len(Reached("server")) \/ i = Len(Reached("server")) + 1
        BY <1>10
      <4> QED
        BY <1>0, <1>12, <2>1, <3>1, <4>1 DEF Seen
    <3>2. CASE t # "server"
      BY <1>0, <1>10, <1>12, <3>2 DEF Seen
    <3> QED
      BY <3>1, <3>2
  <2>3. \A i \in 2..Len(Reached("client")') : Reached("client")'[i] = Nth("client", i)
    <3>1. CASE t = "client"
      <4>1. \A i \in 2..(Len(Reached("client")) + 1) :
                \/ i \in 2..Len(Reached("client")) /\ i \in 1..Len(Reached("client"))
                \/ i = Len(Reached("client")) + 1
        BY <1>10
      <4> QED
        BY <1>0, <1>12, <2>1, <3>1, <4>1 DEF Seen
    <3>2. CASE t # "client"
      <4>1. Reached("client")' = Reached("client")
        BY <1>10, <1>12, <3>2
      <4> QED
        BY <1>0, <4>1 DEF Seen
    <3> QED
      BY <3>1, <3>2
  <2>4. end'["client"] # "reset" => Reached("client")' # <<>> /\ Reached("client")'[1] = 200
    <3> SUFFICES ASSUME end["client"] # "reset"
                 PROVE  Reached("client")' # <<>> /\ Reached("client")'[1] = 200
      BY <1>1
    <3>1. Reached("client") # <<>> /\ Reached("client")[1] = 200
      BY <1>0, <1>8 DEF Seen
    <3>2. 1 \in 1..Len(Reached("client"))
      BY <1>10, <3>1
    <3>3. CASE t = "client"
      <4>1. Reached("client")'[1] = 200 /\ Len(Reached("client")') # 0
        BY <1>10, <1>12, <3>1, <3>2, <3>3
      <4> QED
        BY <4>1
    <3>4. CASE t # "client"
      BY <1>10, <1>12, <3>1, <3>4
    <3> QED
      BY <3>3, <3>4
  <2> QED
    BY <1>8, <2>2, <2>3, <2>4 DEF Seen
<1>20. Chained(t)'
  <2>1. /\ end[Other(t)] # "reset" =>
              /\ \A i \in 1..Len(out[Other(t)]) :
                     out[Other(t)][i] = Nth(t, Passed(t) + Len(d) + i)
              /\ Nth(t, Passed(t) + Len(d) + Len(out[Other(t)])) = sent[Other(t)]
    BY <1>5, <1>9, <1>14 DEF Chained
  <2>2. /\ Passed(t)' + Len(Tail(d)) = Passed(t) + Len(d)
        /\ \A i \in 1..Len(Tail(d)) : Tail(d)[i] = Nth(t, Passed(t)' + i)
    <3>1. Passed(t)' + Len(Tail(d)) = Passed(t) + Len(d)
      BY <1>6, <1>13
    <3>2. ASSUME NEW i \in 1..Len(Tail(d))
          PROVE  Tail(d)[i] = Nth(t, Passed(t)' + i)
      <4>1. i \in 1..(Len(d) - 1) /\ i + 1 \in 1..Len(d)
        BY <1>6, <3>2
      <4>2. Passed(t) + (i + 1) = Passed(t)' + i
        BY <1>13, <4>1
      <4> QED
        BY <1>6, <1>14, <4>1, <4>2
    <3> QED
      BY <3>1, <3>2
  <2> QED
    BY <1>1, <1>8, <1>9, <2>1, <2>2 DEF Chained
<1>21. ASSUME NEW p \in Peers, p # t
       PROVE  Chained(p)'
  <2>1. Chained(p) /\ Other(p) \in Peers
    BY <1>0, <1>1, <1>10, <1>21 DEF Chains
  <2> QED
    BY <1>1, <1>9, <1>13, <1>21, <2>1, ChainedStays
<1>22. Chains'
  BY <1>3, <1>10, <1>20, <1>21 DEF Chains
<1> QED
  BY <1>15, <1>16, <1>17, <1>18, <1>19, <1>22 DEF Safe

-----------------------------------------------------------------------------
(* The end of the tunnel.                                                  *)

\* Two peers that have not been reset: what is on its way is all there is.
LEMMA WholeStreams ==
    ASSUME Safe, Pumping, \A p \in Peers : end[p] # "reset"
    PROVE  /\ taken + (Len(Reached("server")) + Len(InHand("server")) + Len(out["client"]))
                  = sent["client"]
           /\ Len(Reached("client")) + Len(InHand("client")) + Len(out["server"])
                  = sent["server"] + 1
           /\ \A i \in 1..Len(InHand("server")) :
                  InHand("server")[i] = taken + (Len(Reached("server")) + i)
           /\ \A i \in 1..Len(InHand("client")) :
                  InHand("client")[i] = Len(Reached("client")) + i - 1
           /\ \A i \in 1..Len(out["client"]) :
                  out["client"][i]
                      = taken + (Len(Reached("server")) + Len(InHand("server")) + i)
           /\ \A i \in 1..Len(out["server"]) :
                  out["server"][i]
                      = Len(Reached("client")) + Len(InHand("client")) + i - 1
<1>1. Peers = {"client", "server"} /\ pc # "closed"
  BY DEF Peers, Pumping
<1>2. Chained("client") /\ Chained("server")
  BY <1>1 DEF Safe, Chains
<1>3. /\ Other("client") = "server" /\ Other("server") = "client"
      /\ end["client"] # "reset" /\ end["server"] # "reset"
  BY <1>1 DEF Other
<1>4. Passed("client") = Len(Reached("client")) /\ Passed("server") = Len(Reached("server"))
  BY DEF Passed
<1>5. /\ Len(Reached("client")) \in Nat /\ Len(InHand("client")) \in Nat
      /\ Len(out["server"]) \in Nat /\ sent["server"] \in Nat
  BY <1>1, Basics DEF Safe
<1>6. /\ taken + (Len(Reached("server")) + Len(InHand("server")) + Len(out["client"]))
             = sent["client"]
      /\ \A i \in 1..Len(InHand("server")) :
             InHand("server")[i] = taken + (Len(Reached("server")) + i)
      /\ \A i \in 1..Len(out["client"]) :
             out["client"][i] = taken + (Len(Reached("server")) + Len(InHand("server")) + i)
  BY <1>2, <1>3, <1>4 DEF Chained, Nth
<1>7. /\ (Len(Reached("client")) + Len(InHand("client")) + Len(out["server"])) - 1
             = sent["server"]
      /\ \A i \in 1..Len(InHand("client")) :
             InHand("client")[i] = Len(Reached("client")) + i - 1
      /\ \A i \in 1..Len(out["server"]) :
             out["server"][i] = Len(Reached("client")) + Len(InHand("client")) + i - 1
  <2>1. \A n : Nth("client", n) = n - 1
    BY DEF Nth
  <2>2. /\ Nth("client", Len(Reached("client")) + Len(InHand("client")) + Len(out["server"]))
               = sent["server"]
        /\ \A i \in 1..Len(InHand("client")) :
               InHand("client")[i] = Nth("client", Len(Reached("client")) + i)
        /\ \A i \in 1..Len(out["server"]) :
               out["server"][i]
                   = Nth("client", Len(Reached("client")) + Len(InHand("client")) + i)
    BY <1>2, <1>3, <1>4 DEF Chained
  <2>3. (Len(Reached("client")) + Len(InHand("client")) + Len(out["server"])) - 1
            = sent["server"]
    BY <2>1, <2>2
  <2>4. \A i \in 1..Len(InHand("client")) :
            InHand("client")[i] = Len(Reached("client")) + i - 1
    BY <2>1, <2>2
  <2>5. \A i \in 1..Len(out["server"]) :
            out["server"][i] = Len(Reached("client")) + Len(InHand("client")) + i - 1
    BY <2>1, <2>2
  <2> QED
    BY <2>3, <2>4, <2>5
<1>8. Len(Reached("client")) + Len(InHand("client")) + Len(out["server"]) = sent["server"] + 1
  <2> DEFINE a == Len(Reached("client"))
             b == Len(InHand("client"))
             c == Len(out["server"])
             d == sent["server"]
  <2>1. a \in Nat /\ b \in Nat /\ c \in Nat /\ d \in Nat /\ (a + b + c) - 1 = d
    BY <1>5, <1>7
  <2> HIDE DEF a, b, c, d
  <2>2. a + b + c = d + 1
    BY <2>1
  <2> QED
    BY <2>2 DEF a, b, c, d
<1> QED
  BY <1>6, <1>7, <1>8

\* A sequence that counts up behind a, and the stream of a client: the proxy's
\* answer, then units that count up from one.
Counts(s, a) == \A i \in 1..Len(s) : s[i] = a + i
Answers(s) == s # <<>> /\ s[1] = 200 /\ \A i \in 2..Len(s) : s[i] = i - 1

LEMMA CountsIsRun ==
    ASSUME NEW s \in Seq(Unit), NEW a \in Nat, Counts(s, a)
    PROVE  s = Run(a, a + Len(s))
<1>1. Len(s) \in Nat /\ s = [i \in 1..Len(s) |-> s[i]]
  BY LenProperties
<1>2. s = [i \in 1..Len(s) |-> a + i]
  BY <1>1 DEF Counts
<1>3. (a + Len(s)) - a = Len(s)
  BY <1>1
<1> QED
  BY <1>2, <1>3 DEF Run

\* One that goes on counting where another one ends.
LEMMA CountsJoin ==
    ASSUME NEW s \in Seq(Unit), NEW t \in Seq(Unit), NEW a \in Nat,
           Counts(s, a), Counts(t, a + Len(s))
    PROVE  /\ s \o t \in Seq(Unit) /\ Len(s \o t) = Len(s) + Len(t)
           /\ Counts(s \o t, a)
<1>1. /\ s \o t \in Seq(Unit) /\ Len(s \o t) = Len(s) + Len(t)
      /\ \A i \in 1..Len(s) : (s \o t)[i] = s[i]
      /\ \A i \in 1..Len(t) : (s \o t)[Len(s) + i] = t[i]
  BY JoinIs
<1>2. Len(s) \in Nat /\ Len(t) \in Nat
  OBVIOUS
<1>3. ASSUME NEW i \in 1..(Len(s) + Len(t))
      PROVE  (s \o t)[i] = a + i
  <2>1. CASE i \in 1..Len(s)
    BY <1>1, <2>1 DEF Counts
  <2>2. CASE i \notin 1..Len(s)
    <3>1. i - Len(s) \in 1..Len(t) /\ Len(s) + (i - Len(s)) = i
      BY <1>2, <1>3, <2>2
    <3>2. (s \o t)[Len(s) + (i - Len(s))] = (a + Len(s)) + (i - Len(s))
      BY <1>1, <3>1 DEF Counts
    <3>3. (a + Len(s)) + (i - Len(s)) = a + i
      BY <1>2, <3>1
    <3> QED
      BY <3>1, <3>2, <3>3
  <2> QED
    BY <2>1, <2>2
<1> QED
  BY <1>1, <1>3 DEF Counts

LEMMA AnswerJoin ==
    ASSUME NEW s \in Seq(Unit), NEW t \in Seq(Unit),
           Answers(s), Counts(t, Len(s) - 1)
    PROVE  /\ s \o t \in Seq(Unit) /\ Len(s \o t) = Len(s) + Len(t)
           /\ Answers(s \o t)
<1>0. s # <<>> /\ s[1] = 200 /\ \A i \in 2..Len(s) : s[i] = i - 1
  BY DEF Answers
<1>1. /\ s \o t \in Seq(Unit) /\ Len(s \o t) = Len(s) + Len(t) /\ s \o t # <<>>
      /\ \A i \in 1..Len(s) : (s \o t)[i] = s[i]
      /\ \A i \in 1..Len(t) : (s \o t)[Len(s) + i] = t[i]
  BY <1>0, JoinIs
<1>2. Len(s) \in Nat \ {0} /\ Len(t) \in Nat
  BY <1>0, EmptySeq
<1>3. ASSUME NEW i \in 2..(Len(s) + Len(t))
      PROVE  (s \o t)[i] = i - 1
  <2>1. CASE i \in 2..Len(s)
    <3>1. i \in 1..Len(s)
      BY <2>1
    <3> QED
      BY <1>0, <1>1, <2>1, <3>1
  <2>2. CASE i \notin 2..Len(s)
    <3>1. i - Len(s) \in 1..Len(t) /\ Len(s) + (i - Len(s)) = i
      BY <1>2, <1>3, <2>2
    <3>2. (s \o t)[Len(s) + (i - Len(s))] = (Len(s) - 1) + (i - Len(s))
      BY <1>1, <3>1 DEF Counts
    <3>3. (Len(s) - 1) + (i - Len(s)) = i - 1
      BY <1>2, <3>1
    <3> QED
      BY <3>1, <3>2, <3>3
  <2> QED
    BY <2>1, <2>2
<1>4. (s \o t)[1] = 200
  <2>1. 1 \in 1..Len(s)
    BY <1>2
  <2> QED
    BY <1>0, <1>1, <2>1
<1> QED
  BY <1>1, <1>3, <1>4 DEF Answers

\* The client's stream: the proxy's answer, then what the server sent.
LEMMA AnswerThenRun ==
    ASSUME NEW s \in Seq(Unit), NEW b \in 0..99, Len(s) = b + 1, Answers(s)
    PROVE  s = <<200>> \o Run(0, b)
<1>0. s[1] = 200 /\ \A i \in 2..Len(s) : s[i] = i - 1
  BY DEF Answers
<1>1. /\ Run(0, b) \in Seq(Unit) /\ Len(Run(0, b)) = b
      /\ \A i \in 1..b : Run(0, b)[i] = i
  <2>1. b \in Nat /\ b - 0 = b /\ \A i \in 1..b : 0 + i = i /\ i \in Unit
    BY DEF Unit
  <2>2. Run(0, b) = [i \in 1..b |-> i]
    BY <2>1 DEF Run
  <2> QED
    BY <2>1, <2>2
<1>2. <<200>> \in Seq(Unit) /\ Len(<<200>>) = 1 /\ <<200>>[1] = 200
  BY DEF Unit, Codes
<1> DEFINE r == <<200>> \o Run(0, b)
<1>3. /\ r \in Seq(Unit) /\ Len(r) = 1 + b /\ r[1] = 200
      /\ \A i \in 1..b : r[1 + i] = i
  <2>1. /\ <<200>> \o Run(0, b) \in Seq(Unit)
        /\ Len(<<200>> \o Run(0, b)) = Len(<<200>>) + Len(Run(0, b))
        /\ \A i \in 1..Len(<<200>>) : (<<200>> \o Run(0, b))[i] = <<200>>[i]
        /\ \A i \in 1..Len(Run(0, b)) :
               (<<200>> \o Run(0, b))[Len(<<200>>) + i] = Run(0, b)[i]
    BY <1>1, <1>2, JoinIs
  <2> QED
    BY <1>1, <1>2, <2>1
<1>4. ASSUME NEW i \in 1..Len(s)
      PROVE  s[i] = r[i]
  <2>1. CASE i = 1
    BY <1>0, <1>3, <2>1
  <2>2. CASE i # 1
    <3>1. i \in 2..Len(s) /\ i - 1 \in 1..b /\ 1 + (i - 1) = i
      BY <2>2
    <3> QED
      BY <1>0, <1>3, <3>1
  <2> QED
    BY <2>1, <2>2
<1>5. Len(r) = Len(s)
  BY <1>3
<1> HIDE DEF r
<1>6. s = r
  BY <1>3, <1>4, <1>5, SeqEqual
<1> QED
  BY <1>6 DEF r

\* recv has returned nothing: of what the server wrote, all has been passed on.
LEMMA RecvEndSaysAll ==
    ASSUME Safe, RecvEnd
    PROVE  LastWordsArrive'
<1>0. TunnelTypeOK /\ Channels /\ Stages /\ Allowed /\ Seen /\ Chains
  BY DEF Safe
<1>1. /\ pc = "pump" /\ ready # <<>>
      /\ out[Head(ready)] = <<>> /\ end[Head(ready)] = "shut"
      /\ \E lost \in SUBSET {p \in Peers : out[p] # <<>>} :
             inn' = [p \in Peers |-> IF p \in lost THEN <<>> ELSE inn[p]]
      /\ request' = request /\ taken' = taken /\ code' = code
      /\ held' = held /\ sent' = sent /\ got' = got /\ end' = end
  BY DEF RecvEnd, Close, peerVars
<1>2. SUFFICES ASSUME end["server"] = "shut", end["client"] = "open",
                      taken + Len(Reached("server")') = sent["client"]
               PROVE  Reached("client")' = <<200>> \o Run(0, sent["server"])
  <2>1. Run(0, sent["server"])' = Run(0, sent["server"])
    BY <1>1 DEF Run
  <2> QED
    BY <1>1, <2>1 DEF LastWordsArrive
<1>3. Head(ready) = "server"
  BY <1>0, <1>1, <1>2, ReadyIs DEF TunnelTypeOK, Peers
<1>4. /\ Peers = {"client", "server"} /\ taken \in Nat
      /\ \A p \in Peers : /\ Reached(p) \in Seq(Unit) /\ Len(Reached(p)) \in Nat
                          /\ Len(out[p]) \in Nat /\ out[p] \in Seq(Unit)
  BY <1>0, Basics
<1>5. /\ Pumping /\ \A p \in Peers : end[p] # "reset"
      /\ InHand("server") = <<>> /\ InHand("client") = <<>> /\ Len(<<>>) = 0
  BY <1>1, <1>2, <1>4 DEF Pumping, InHand
<1>6. /\ taken + (Len(Reached("server")) + 0 + Len(out["client"])) = sent["client"]
      /\ Len(Reached("client")) + 0 + 0 = sent["server"] + 1
  <2>1. out["server"] = <<>>
    BY <1>1, <1>3
  <2> QED
    BY <1>5, <2>1, WholeStreams
<1>7. Len(Reached("server")') <= Len(Reached("server")) /\ Len(Reached("server")') \in Nat
  <2>1. got'["server"] = got["server"] /\ inn'["server"] \in {<<>>, inn["server"]}
    BY <1>1, <1>4
  <2> QED
    BY <1>0, <1>4, <2>1, ReachedLess
<1>8. out["client"] = <<>>
  <2>1. Len(out["client"]) = 0
    <3> DEFINE a == Len(Reached("server"))
               b == Len(Reached("server")')
               c == Len(out["client"])
    <3>1. /\ a \in Nat /\ b \in Nat /\ c \in Nat /\ taken \in Nat /\ b <= a
          /\ taken + (a + 0 + c) = taken + b
      BY <1>2, <1>4, <1>6, <1>7
    <3> HIDE DEF a, b, c
    <3>2. c = 0
      BY <3>1
    <3> QED
      BY <3>2 DEF c
  <2> QED
    BY <1>4, <2>1, EmptySeq
<1>9. Reached("client")' = Reached("client")
  <2>1. inn'["client"] = inn["client"]
    BY <1>1, <1>4, <1>8
  <2> QED
    BY <1>1, <2>1 DEF Reached
<1>10. Answers(Reached("client"))
  BY <1>0, <1>2, <1>5 DEF Seen, Nth, Answers
<1>11. sent["server"] \in 0..99 /\ Len(Reached("client")) = sent["server"] + 1
  <2>1. sent["server"] \in 0..99
    BY <1>0, <1>4 DEF TunnelTypeOK
  <2>2. Len(Reached("client")) \in Nat /\ Len(Reached("client")) + 0 + 0 = sent["server"] + 1
    BY <1>4, <1>6
  <2>3. \A a \in Nat : a + 0 + 0 = a
    OBVIOUS
  <2> QED
    BY <2>1, <2>2, <2>3
<1>12. Reached("client") = <<200>> \o Run(0, sent["server"])
  <2>1. PICK u \in Seq(Unit) : u = Reached("client")
    BY <1>4
  <2>2. Len(u) = sent["server"] + 1 /\ Answers(u)
    BY <1>10, <1>11, <2>1
  <2>3. u = <<200>> \o Run(0, sent["server"])
    BY <1>11, <2>2, AnswerThenRun
  <2> QED
    BY <2>1, <2>3
<1> QED
  BY <1>9, <1>12

\* The streams of the property, from the description by units.
LEMMA StreamsAreWhole ==
    ASSUME Safe
    PROVE  TunnelStream
<1>0. TunnelTypeOK /\ Channels /\ Stages /\ Allowed /\ Seen /\ Chains
  BY DEF Safe
<1>1. /\ Peers = {"client", "server"} /\ taken \in Nat
      /\ \A p \in Peers : /\ Reached(p) \in Seq(Unit) /\ Len(Reached(p)) \in Nat
                          /\ InHand(p) \in Seq(Unit) /\ Len(InHand(p)) \in Nat
                          /\ Len(out[p]) \in Nat /\ out[p] \in Seq(Unit)
  BY <1>0, Basics
<1>2. Reached("server") = Run(taken, taken + Len(Reached("server")))
  <2>1. Counts(Reached("server"), taken)
    BY <1>0 DEF Seen, Nth, Counts
  <2> QED
    BY <1>1, <2>1, CountsIsRun
<1>3. ASSUME Reached("client") # <<>>
      PROVE  Tail(Reached("client")) = Run(0, Len(Reached("client")) - 1)
  <2> DEFINE s == Tail(Reached("client"))
  <2>1. /\ s \in Seq(Unit) /\ Len(s) = Len(Reached("client")) - 1 /\ Len(s) \in Nat
        /\ \A i \in 1..(Len(Reached("client")) - 1) : s[i] = Reached("client")[i + 1]
    BY <1>1, <1>3
  <2>2. ASSUME NEW i \in 1..Len(s)
        PROVE  s[i] = 0 + i
    <3>1. i + 1 \in 2..Len(Reached("client")) /\ (i + 1) - 1 = 0 + i
      BY <1>1, <2>1, <2>2
    <3>2. Reached("client")[i + 1] = (i + 1) - 1
      BY <1>0, <3>1 DEF Seen, Nth
    <3> QED
      BY <2>1, <2>2, <3>1, <3>2
  <2> HIDE DEF s
  <2>3. s = Run(0, 0 + Len(s))
    <3>1. Counts(s, 0)
      BY <2>2 DEF Counts
    <3> QED
      BY <2>1, <3>1, CountsIsRun
  <2>4. 0 + Len(s) = Len(s)
    BY <2>1
  <2> QED
    BY <2>1, <2>3, <2>4 DEF s
<1>4. ASSUME Pumping, \A p \in Peers : end[p] # "reset"
      PROVE  /\ Reached("server") \o InHand("server") \o out["client"]
                    = Run(taken, sent["client"])
             /\ Reached("client") \o InHand("client") \o out["server"]
                    = <<200>> \o Run(0, sent["server"])
  <2>1. PICK r \in Seq(Unit), h \in Seq(Unit), o \in Seq(Unit) :
            r = Reached("server") /\ h = InHand("server") /\ o = out["client"]
    BY <1>1
  <2>2. PICK x \in Seq(Unit), y \in Seq(Unit), z \in Seq(Unit) :
            x = Reached("client") /\ y = InHand("client") /\ z = out["server"]
    BY <1>1
  <2>3. /\ taken + (Len(r) + Len(h) + Len(o)) = sent["client"]
        /\ Len(x) + Len(y) + Len(z) = sent["server"] + 1
        /\ \A i \in 1..Len(h) : h[i] = taken + (Len(r) + i)
        /\ \A i \in 1..Len(y) : y[i] = Len(x) + i - 1
        /\ \A i \in 1..Len(o) : o[i] = taken + (Len(r) + Len(h) + i)
        /\ \A i \in 1..Len(z) : z[i] = Len(x) + Len(y) + i - 1
    BY <1>4, <2>1, <2>2, WholeStreams
  <2>4. /\ taken \in Nat /\ Len(r) \in Nat /\ Len(h) \in Nat /\ Len(o) \in Nat
        /\ Len(x) \in Nat /\ Len(y) \in Nat /\ Len(z) \in Nat /\ sent["server"] \in 0..99
    <3>1. sent["server"] \in 0..99
      BY <1>0, <1>1 DEF TunnelTypeOK
    <3>2. \A q \in Seq(Unit) : Len(q) \in Nat
      BY LenProperties
    <3> QED
      BY <1>1, <3>1, <3>2
  <2>5. r \o h \o o = Run(taken, sent["client"])
    <3>1. Counts(r, taken)
      BY <1>0, <2>1 DEF Seen, Nth, Counts
    <3>2. Counts(h, taken + Len(r)) /\ Counts(o, taken + (Len(r) + Len(h)))
      BY <2>3, <2>4 DEF Counts
    <3>3. PICK s \in Seq(Unit) : s = r \o h
      BY JoinIs
    <3>4. Len(s) = Len(r) + Len(h) /\ Counts(s, taken)
      BY <2>4, <3>1, <3>2, <3>3, CountsJoin
    <3>5. PICK u \in Seq(Unit) : u = s \o o
      BY JoinIs
    <3>6. Len(u) = Len(s) + Len(o) /\ Counts(u, taken)
      BY <2>4, <3>2, <3>4, <3>5, CountsJoin
    <3>7. u = Run(taken, taken + Len(u))
      BY <2>4, <3>6, CountsIsRun
    <3>8. taken + Len(u) = sent["client"]
      BY <2>3, <2>4, <3>4, <3>6
    <3> QED
      BY <3>3, <3>5, <3>7, <3>8
  <2>6. x \o y \o z = <<200>> \o Run(0, sent["server"])
    <3>1. Answers(x)
      BY <1>0, <1>1, <1>4, <2>2 DEF Seen, Nth, Answers
    <3>2. Counts(y, Len(x) - 1) /\ Counts(z, (Len(x) + Len(y)) - 1)
      BY <2>3, <2>4 DEF Counts
    <3>3. PICK s \in Seq(Unit) : s = x \o y
      BY JoinIs
    <3>4. Len(s) = Len(x) + Len(y) /\ Answers(s)
      BY <3>1, <3>2, <3>3, AnswerJoin
    <3>5. PICK u \in Seq(Unit) : u = s \o z
      BY JoinIs
    <3>6. Len(u) = Len(s) + Len(z) /\ Answers(u)
      BY <3>2, <3>4, <3>5, AnswerJoin
    <3>7. Len(u) = sent["server"] + 1
      BY <2>3, <3>4, <3>6
    <3>8. u = <<200>> \o Run(0, sent["server"])
      BY <2>4, <3>6, <3>7, AnswerThenRun
    <3> QED
      BY <3>3, <3>5, <3>8
  <2> QED
    BY <2>1, <2>2, <2>5, <2>6
<1> QED
  BY <1>2, <1>3, <1>4 DEF TunnelStream

-----------------------------------------------------------------------------
(* The theorems.                                                           *)

LEMMA InitIsSafe == Init => TunnelInv
<1> SUFFICES ASSUME Init PROVE TunnelInv
  OBVIOUS
<1>1. Peers = {"client", "server"} /\ <<>> \in Seq(Unit) /\ Len(<<>>) = 0
  BY DEF Peers
<1>2. /\ pc = "reading" /\ taken = 0 /\ sent = [p \in Peers |-> 0]
      /\ out = [p \in Peers |-> <<>>] /\ inn = [p \in Peers |-> <<>>]
      /\ got = [p \in Peers |-> <<>>] /\ end = [p \in Peers |-> "open"]
      /\ request \in Requests /\ line \in Lines /\ strained \in BOOLEAN
      /\ code = 200 /\ ready = <<>>
      /\ held = [from |-> "client", data |-> <<>>]
  BY DEF Init
<1>3. ~Pumping /\ ~Served /\ pc # "closed"
  BY <1>2 DEF Pumping, Served
<1>4. TunnelTypeOK
  <2>1. 0 <= Room /\ \A p \in Peers : 0 <= Bound(p)
    BY <1>1, TunnelAssumption DEF Bound
  <2>2. 0 \in 0..ClientUnits /\ 0 \in 0..99
    BY TunnelAssumption
  <2>3. held \in [from : Peers, data : Seq(Unit)] /\ ready \in Orders /\ code \in Codes
    BY <1>1, <1>2 DEF Orders, Codes
  <2>4. sent \in [Peers -> 0..99] /\ end \in [Peers -> {"open", "shut", "reset"}]
    BY <1>2, <2>2
  <2>5. \A p \in Peers : /\ out[p] = <<>> /\ inn[p] = <<>> /\ got[p] = <<>>
                         /\ sent[p] = 0
    BY <1>2
  <2> QED
    BY <1>1, <1>2, <2>1, <2>2, <2>3, <2>4, <2>5 DEF TunnelTypeOK
<1>5. Channels
  BY <1>1, <1>2 DEF Channels
<1>6. /\ \A p \in Peers : Reached(p) = <<>> /\ InHand(p) = <<>>
      /\ Passed("server") = 0 /\ Passed("client") = 1
  <2>1. \A p \in Peers : Reached(p) = <<>> /\ InHand(p) = <<>>
    BY <1>1, <1>2 DEF Reached, InHand
  <2> QED
    BY <1>1, <1>3, <2>1 DEF Passed
<1>7. Stages /\ Allowed /\ Seen
  <2>1. Stages
    BY <1>1, <1>2, <1>3, TunnelAssumption DEF Stages, Enough
  <2>2. Allowed
    BY <1>1, <1>2, <1>3, <1>6 DEF Allowed
  <2> QED
    BY <1>1, <1>3, <1>6, <2>2, <2>1 DEF Seen
<1>8. Chains
  <2>1. Other("client") = "server" /\ Other("server") = "client"
    BY DEF Other
  <2>2. Nth("client", 1 + 0 + 0) = 0 /\ Nth("server", 0 + 0 + 0) = 0
    BY <1>2 DEF Nth
  <2> QED
    BY <1>1, <1>2, <1>6, <2>1, <2>2 DEF Chains, Chained
<1> QED
  BY <1>2, <1>4, <1>5, <1>7, <1>8 DEF TunnelInv, Safe, LastWordsArrive

\* The steps of the proxy, one by one.
LEMMA ProxyIsSafe == TunnelInv /\ Proxy => Safe'
<1> SUFFICES ASSUME Safe, Proxy PROVE Safe'
  BY DEF TunnelInv
<1>0. TunnelTypeOK /\ Stages /\ Allowed
  BY DEF Safe
<1>1. CASE ReadLine
  BY <1>1, ReadLineIsSafe
<1>2. CASE LineCutShort
  <2>1. /\ pc = "reading" /\ pc' = "judging" /\ request' \in Requests /\ code' \in Codes
        /\ UNCHANGED <<line, strained, taken, ready, held, out, inn, sent, got, end>>
        /\ end["client"] # "open" /\ out["client"] = <<>>
    BY <1>0, <1>2 DEF LineCutShort, TunnelTypeOK
  <2> QED
    BY <2>1, JudgingIsSafe
<1>3. CASE ReadTimeout
  BY <1>3, ClosingIsSafe DEF ReadTimeout
<1>4. CASE Judge
  <2>1. /\ pc = "judging" /\ code' = Refusal
        /\ pc' = IF Refusal = 200 THEN "connecting" ELSE "replying"
        /\ UNCHANGED <<request, line, strained, taken, ready, held, out, inn, sent, got, end>>
    BY <1>4 DEF Judge, peerVars
  <2>2. Refusal \in Codes /\ (Refusal = 200 => request = "allowed")
    BY <1>0 DEF Refusal, Codes, TunnelTypeOK, Requests
  <2>3. Enough \/ (end["client"] # "open" /\ out["client"] = <<>>)
    BY <1>0, <2>1 DEF Stages
  <2> QED
    BY <1>0, <2>1, <2>2, <2>3, JudgingIsSafe DEF TunnelTypeOK
<1>5. CASE Connect
  <2>1. /\ pc = "connecting" /\ pc' = "replying" /\ code' \in Codes
        /\ UNCHANGED <<request, line, strained, taken, ready, held, out, inn, sent, got, end>>
    BY <1>5 DEF Connect, peerVars, Codes
  <2>2. Enough \/ (end["client"] # "open" /\ out["client"] = <<>>)
    BY <1>0, <2>1 DEF Stages
  <2>3. request = "allowed"
    BY <1>0, <2>1 DEF Allowed
  <2> QED
    BY <1>0, <2>1, <2>2, <2>3, JudgingIsSafe DEF TunnelTypeOK
<1>6. CASE Reply
  BY <1>6, ReplyIsSafe
<1>13. CASE ConnectRaises \/ SelectBreaks
  BY <1>13, ClosingIsSafe DEF ConnectRaises, SelectBreaks
<1>7. CASE Select
  BY <1>7, LoopIsSafe DEF Select
<1>8. CASE Recv
  BY <1>8, RecvIsSafe
<1>9. CASE RecvEnd
  BY <1>9, ClosingIsSafe DEF RecvEnd
<1>10. CASE AllPumped
  BY <1>0, <1>10, LoopIsSafe DEF AllPumped, TunnelTypeOK
<1>11. CASE SendAll
  BY <1>11, SendAllIsSafe
<1>12. CASE Broken
  BY <1>12, ClosingIsSafe DEF Broken
<1> QED
  BY <1>1, <1>2, <1>3, <1>4, <1>5, <1>6, <1>7, <1>8, <1>9, <1>10, <1>11, <1>12,
     <1>13 DEF Proxy

\* Of the steps that close the connection, only RecvEnd does so with both peers
\* standing as LastWordsArrive asks.
LEMMA ProxySaysAll == TunnelInv /\ Proxy => LastWordsArrive'
<1> SUFFICES ASSUME Safe, Proxy PROVE LastWordsArrive'
  BY DEF TunnelInv
<1>0. TunnelTypeOK /\ Stages
  BY DEF Safe
<1>1. CASE ReadLine \/ LineCutShort \/ Judge \/ Connect \/ Select \/ Recv \/ AllPumped
  <2>1. pc' # "closed"
    BY <1>1 DEF ReadLine, LineCutShort, Judge, Connect, Select, Recv, AllPumped
  <2> QED
    BY <2>1 DEF LastWordsArrive
<1>2. CASE SendAll
  <2>1. pc' # "closed"
    BY <1>2 DEF SendAll
  <2> QED
    BY <2>1 DEF LastWordsArrive
<1>3. CASE ReadTimeout \/ ConnectRaises
  <2>1. ~Served /\ pc # "closed" /\ end' = end
    BY <1>3 DEF ReadTimeout, ConnectRaises, Served, Pumping, peerVars
  <2> QED
    BY <1>0, <2>1 DEF Stages, LastWordsArrive
<1>4. CASE Reply
  <2>1. CASE code = 200
    <3>1. pc' # "closed"
      BY <1>4, <2>1 DEF Reply
    <3> QED
      BY <3>1 DEF LastWordsArrive
  <2>2. CASE code # 200
    <3>1. ~Served /\ pc # "closed" /\ end' = end
      BY <1>4, <2>2 DEF Reply, Served, Pumping, peerVars
    <3> QED
      BY <1>0, <3>1 DEF Stages, LastWordsArrive
  <2> QED
    BY <2>1, <2>2
<1>5. CASE RecvEnd
  BY <1>5, RecvEndSaysAll
<1>7. CASE SelectBreaks
  <2>1. strained'
    BY <1>7 DEF SelectBreaks, peerVars
  <2> QED
    BY <2>1 DEF LastWordsArrive
<1>6. CASE Broken
  <2>1. end' = end
    BY <1>6 DEF Broken, peerVars
  <2>2. CASE pc \in {"reading", "replying"} /\ end["client"] = "reset"
    BY <2>1, <2>2 DEF LastWordsArrive
  <2>3. CASE pc = "pump" /\ ready # <<>> /\ end[Head(ready)] = "reset"
    <3>1. Head(ready) \in {"client", "server"}
      BY <1>0, <2>3, ReadyIs DEF TunnelTypeOK, Peers
    <3> QED
      BY <2>1, <2>3, <3>1 DEF LastWordsArrive
  <2>4. CASE pc = "send" /\ end[Target] = "reset"
    <3>1. Target \in {"client", "server"}
      BY DEF Target, Other
    <3> QED
      BY <2>1, <2>4, <3>1 DEF LastWordsArrive
  <2> QED
    BY <1>6, <2>2, <2>3, <2>4 DEF Broken
<1> QED
  BY <1>1, <1>2, <1>3, <1>4, <1>5, <1>6, <1>7 DEF Proxy

LEMMA PeersAreSafe == \A p \in Peers :
    TunnelInv /\ (Send(p) \/ Read(p) \/ Shut(p) \/ Reset(p)) => TunnelInv'
<1> SUFFICES ASSUME NEW p \in Peers, Safe, LastWordsArrive,
                    Send(p) \/ Read(p) \/ Shut(p) \/ Reset(p)
             PROVE  TunnelInv'
  BY DEF TunnelInv
<1>1. CASE Send(p) \/ Shut(p) \/ Reset(p)
  <2>1. pc' # "closed"
    BY <1>1 DEF Send, Shut, Reset, Present, ProxyFrame
  <2> QED
    BY <1>1, <2>1, SendIsSafe, ShutIsSafe, ResetIsSafe DEF TunnelInv, LastWordsArrive
<1>2. CASE Read(p)
  <2>1. Safe' /\ \A q \in Peers : Reached(q)' = Reached(q)
    BY <1>2, ReadIsSafe
  <2>2. Reached("client")' = Reached("client") /\ Reached("server")' = Reached("server")
    BY <2>1 DEF Peers
  <2>3. pc' = pc /\ strained' = strained /\ end' = end /\ sent' = sent /\ taken' = taken
    BY <1>2 DEF Read, ProxyFrame
  <2>4. Run(0, sent["server"])' = Run(0, sent["server"])
    BY <2>3 DEF Run
  <2> QED
    BY <2>1, <2>2, <2>3, <2>4 DEF TunnelInv, LastWordsArrive
<1> QED
  BY <1>1, <1>2

LEMMA TunnelInvHolds == Spec => []TunnelInv
<1>1. TunnelInv /\ [Next]_vars => TunnelInv'
  <2>1. TunnelInv /\ Proxy => TunnelInv'
    <3>1. TunnelInv /\ Proxy => Safe' /\ LastWordsArrive'
      BY ProxyIsSafe, ProxySaysAll
    <3>2. Safe' /\ LastWordsArrive' => TunnelInv'
      BY DEF TunnelInv
    <3> QED
      BY <3>1, <3>2
  <2>2. ASSUME TunnelInv, UNCHANGED vars
        PROVE  TunnelInv'
    <3>1. /\ request' = request /\ line' = line /\ strained' = strained
          /\ pc' = pc /\ taken' = taken
          /\ code' = code /\ ready' = ready /\ held' = held /\ sent' = sent /\ out' = out
          /\ inn' = inn /\ got' = got /\ end' = end
      BY <2>2 DEF vars, peerVars
    <3>2. /\ Pumping' <=> Pumping
          /\ Served' <=> Served
          /\ \A p : /\ Reached(p)' = Reached(p) /\ InHand(p)' = InHand(p)
                    /\ Passed(p)' = Passed(p) /\ \A n : Nth(p, n)' = Nth(p, n)
      BY <3>1, SameReached DEF Served
    <3>3. Safe /\ LastWordsArrive
      BY <2>2 DEF TunnelInv
    <3>4. TunnelTypeOK' /\ Channels'
      BY <3>1, <3>3 DEF Safe, TunnelTypeOK, Channels, Bound
    <3>5. Stages'
      BY <3>1, <3>2, <3>3 DEF Safe, Stages, Enough
    <3>6. Allowed' /\ Seen'
      BY <3>1, <3>2, <3>3 DEF Safe, Allowed, Seen, Enough
    <3>7. Chains'
      BY <3>1, <3>2, <3>3 DEF Safe, Chains, Chained
    <3>8. LastWordsArrive'
      <4>1. Run(0, sent["server"])' = Run(0, sent["server"])
        BY <3>1 DEF Run
      <4> QED
        BY <3>1, <3>2, <3>3, <4>1 DEF LastWordsArrive
    <3> QED
      BY <3>4, <3>5, <3>6, <3>7, <3>8 DEF TunnelInv, Safe
  <2> QED
    BY <2>1, <2>2, PeersAreSafe DEF Next
<1> QED
  BY InitIsSafe, <1>1, PTL DEF Spec

\* While the tunnel stands, each peer gets what the other one sent, in order, with
\* nothing lost or repeated, from the first unit that was not read together with the
\* request line; and a client that stays gets the last words of a server that ends.
THEOREM TunnelKeepsStreams == Spec => []TunnelFaithful
<1>1. TunnelInv => TunnelFaithful
  BY StreamsAreWhole DEF TunnelInv, Safe, TunnelFaithful
<1> QED
  BY <1>1, TunnelInvHolds, PTL

\* No byte passes in either direction unless the host of the request line was found
\* in the allowlist; no byte of the request line is passed on but what an oversize
\* one has beyond the limit; and the proxy reads on only while it is within it.
THEOREM CheckedBeforeForwarded == Spec => []CheckedFirst
<1>1. TunnelInv => CheckedFirst
  <2> SUFFICES ASSUME Safe PROVE CheckedFirst
    BY DEF TunnelInv
  <2>0. TunnelTypeOK /\ Channels /\ Allowed /\ Seen
    BY DEF Safe
  <2>1. sent["server"] > 0 \/ Reached("server") # <<>> => request = "allowed"
    BY <2>0 DEF Allowed
  <2>2. ASSUME NEW i \in DOMAIN Reached("server")
        PROVE  Reached("server")[i] <= line => Reached("server")[i] > Limit
    <3>1. /\ Reached("server") \in Seq(Unit) /\ Len(Reached("server")) \in Nat
          /\ taken \in Nat /\ line \in Nat /\ Limit \in Nat
      BY <2>0, Basics DEF Peers
    <3>2. i \in 1..Len(Reached("server")) /\ Reached("server") # <<>>
      BY <2>2, <3>1
    <3>3. Enough
      BY <2>0, <3>2 DEF Allowed
    <3>4. Reached("server")[i] = taken + i
      BY <2>0, <3>2 DEF Seen, Nth
    <3> QED
      BY <3>1, <3>2, <3>3, <3>4 DEF Enough
  <2>3. pc = "reading" => taken <= Limit
    BY DEF Safe, Stages
  <2> QED
    BY <2>1, <2>2, <2>3 DEF CheckedFirst
<1> QED
  BY <1>1, TunnelInvHolds, PTL
=============================================================================

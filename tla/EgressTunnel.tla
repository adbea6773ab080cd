---------------------------- MODULE EgressTunnel ----------------------------
(***************************************************************************)
(* One connection to the egress proxy: _handle, _read_request_line, _deny  *)
(* and _pump of agentnest/_egress_proxy.py, in a thread of its own, between*)
(* a client in the sandbox and the server it asks for.                     *)
(*                                                                         *)
(* The units a peer sends are numbered 1, 2, 3...: of the client's, those  *)
(* up to `line` make the request line, however long the client makes it.   *)
(* What the proxy answers is one unit, its status code.  Two bounded       *)
(* channels lead through each socket, `out` from the peer to the proxy and *)
(* `inn` from the proxy to the peer.                                       *)
(***************************************************************************)
EXTENDS Naturals, Sequences

CONSTANTS
    Lines,         \* lengths of the request line tried, in units
    Limit,         \* units without the end of the line that the proxy reads on after
    ClientUnits,   \* bound on what a client sends, the request line included
    ServerUnits,   \* bound on what a server sends
    Room           \* units a socket buffer holds

ASSUME TunnelAssumption ==
    /\ Lines \subseteq Nat \ {0} /\ Limit \in Nat \ {0} /\ Room \in Nat \ {0}
    /\ ClientUnits \in 0..99 /\ ServerUnits \in 0..99

Peers    == {"client", "server"}
Requests == {"plain", "no_port", "foreign", "allowed"}
Codes    == {200, 400, 403, 405, 502}

VARIABLES
    request,   \* what the request line asks for, as far as it is read
    line,      \* its length
    strained,  \* a peer may send urgent data, or select cannot watch the sockets
    pc,        \* where _handle is
    taken,     \* units read together with the request line
    code,      \* the reply to be sent
    ready,     \* what is left of `readable` in _pump
    held,      \* data received and not yet passed on, and its source
    sent, out, inn, got,    \* per peer
    end        \* per peer: "open", "shut" (it sends no more) or "reset"

peerVars == <<request, line, strained, sent, got, end>>
vars == <<peerVars, pc, taken, code, ready, held, out, inn>>

Other(p) == IF p = "client" THEN "server" ELSE "client"
Bound(p) == IF p = "client" THEN ClientUnits ELSE ServerUnits
Unit     == 1..99 \cup Codes
Orders   == {<<>>, <<"client">>, <<"server">>, <<"client", "server">>}
Pumping  == pc \in {"select", "pump", "send"}

TunnelTypeOK ==
    /\ request \in Requests /\ line \in Lines /\ strained \in BOOLEAN
    /\ pc \in {"reading", "judging", "connecting", "replying", "select", "pump", "send", "closed"}
    /\ taken \in 0..ClientUnits /\ code \in Codes
    /\ ready \in Orders
    /\ held \in [from : Peers, data : Seq(Unit)]
    /\ sent \in [Peers -> 0..99] /\ end \in [Peers -> {"open", "shut", "reset"}]
    /\ \A p \in Peers : /\ out[p] \in Seq(Unit) /\ Len(out[p]) <= Room
                        /\ inn[p] \in Seq(Unit) /\ Len(inn[p]) <= Room
                        /\ got[p] \in Seq(Unit) /\ sent[p] <= Bound(p)

Init ==
    /\ request \in Requests /\ line \in Lines /\ strained \in BOOLEAN
    /\ pc = "reading" /\ taken = 0 /\ code = 200
    /\ ready = <<>> /\ held = [from |-> "client", data |-> <<>>]
    /\ sent = [p \in Peers |-> 0] /\ end = [p \in Peers |-> "open"]
    /\ out = [p \in Peers |-> <<>>] /\ inn = [p \in Peers |-> <<>>]
    /\ got = [p \in Peers |-> <<>>]

-----------------------------------------------------------------------------
(* The peers.  The server is there once the proxy has connected to it.     *)

Present(p) == pc # "closed" /\ (p = "client" \/ Pumping \/ (pc = "replying" /\ code = 200))
ProxyFrame == <<request, line, strained, pc, taken, code, ready, held>>

Send(p) ==
    /\ Present(p) /\ end[p] = "open" /\ sent[p] < Bound(p) /\ Len(out[p]) < Room
    /\ sent' = [sent EXCEPT ![p] = @ + 1]
    /\ out' = [out EXCEPT ![p] = Append(@, sent[p] + 1)]
    /\ UNCHANGED <<ProxyFrame, inn, got, end>>

Read(p) ==
    /\ inn[p] # <<>>
    /\ inn' = [inn EXCEPT ![p] = Tail(@)]
    /\ got' = [got EXCEPT ![p] = Append(@, Head(inn[p]))]
    /\ UNCHANGED <<ProxyFrame, out, sent, end>>

\* shutdown(SHUT_WR), or the end of the peer's program.
Shut(p) ==
    /\ Present(p) /\ end[p] = "open"
    /\ end' = [end EXCEPT ![p] = "shut"]
    /\ UNCHANGED <<ProxyFrame, out, inn, sent, got>>

Reset(p) ==
    /\ Present(p) /\ end[p] # "reset"
    /\ end' = [end EXCEPT ![p] = "reset"]
    /\ out' = [out EXCEPT ![p] = <<>>] /\ inn' = [inn EXCEPT ![p] = <<>>]
    /\ UNCHANGED <<ProxyFrame, sent, got>>

-----------------------------------------------------------------------------
(* The proxy.                                                              *)

\* Both sockets are closed.  A socket closed with data unread is reset, and its
\* peer may lose what it has not read yet.
Close ==
    /\ pc' = "closed"
    /\ out' = [p \in Peers |-> <<>>]
    /\ \E lost \in SUBSET {p \in Peers : out[p] # <<>>} :
           inn' = [p \in Peers |-> IF p \in lost THEN <<>> ELSE inn[p]]

From(n, s) == SubSeq(s, n + 1, Len(s))

\* Mutant: the reading goes on until the line ends.
ReadLineForEver ==
    /\ pc = "reading"
    /\ \E n \in 1..Len(out["client"]) :
           /\ out' = [out EXCEPT !["client"] = From(n, @)]
           /\ taken' = taken + n
    /\ pc' = IF taken' >= line THEN "judging" ELSE "reading"
    /\ UNCHANGED <<peerVars, code, ready, held, inn>>

\* recv until the line is complete, and what came with it is not kept (`_`); or
\* until it is longer than the limit: what there is may read as anything, and the
\* rest of the line stays in the socket.
ReadLine ==
    /\ pc = "reading"
    /\ \E n \in 1..Len(out["client"]) :
           /\ out' = [out EXCEPT !["client"] = From(n, @)]
           /\ taken' = taken + n
    /\ pc' = IF taken' >= line \/ taken' > Limit THEN "judging" ELSE "reading"
    /\ IF taken' < line /\ taken' > Limit THEN request' \in Requests ELSE request' = request
    /\ UNCHANGED <<line, strained, sent, got, end, code, ready, held, inn>>

\* The client ends before the line does: what there is may read as anything.
LineCutShort ==
    /\ pc = "reading" /\ end["client"] = "shut" /\ out["client"] = <<>>
    /\ request' \in Requests
    /\ pc' = "judging"
    /\ UNCHANGED <<line, strained, taken, code, ready, held, out, inn, sent, got, end>>

\* Mutant: the connection has no timeout.
ReadTimeoutNever == FALSE /\ UNCHANGED vars

\* settimeout(CONNECT_TIMEOUT): a silent client is dropped without a reply.
ReadTimeout ==
    /\ pc = "reading" /\ out["client"] = <<>> /\ end["client"] = "open"
    /\ Close
    /\ UNCHANGED <<peerVars, taken, code, ready, held>>

\* Mutant: the host is not looked up in the allowlist.
RefusalUnchecked == CASE request = "plain" -> 405 [] request = "no_port" -> 400 [] OTHER -> 200

\* What a request is refused with: not CONNECT, no port number, host_allowed.
Refusal ==
    CASE request = "plain"   -> 405
      [] request = "no_port" -> 400
      [] request = "foreign" -> 403
      [] OTHER               -> 200

Judge ==
    /\ pc = "judging"
    /\ code' = Refusal
    /\ pc' = IF Refusal = 200 THEN "connecting" ELSE "replying"
    /\ UNCHANGED <<peerVars, taken, ready, held, out, inn>>

Connect ==
    /\ pc = "connecting"
    /\ code' \in {200, 502}
    /\ pc' = "replying"
    /\ UNCHANGED <<peerVars, taken, ready, held, out, inn>>

\* What is no OSError, a port out of range or a label too long, leaves the thread
\* through the finally clause: closed without a reply.
ConnectRaises ==
    /\ pc = "connecting"
    /\ Close
    /\ UNCHANGED <<peerVars, taken, code, ready, held>>

\* _deny, or "200 Connection Established" and no more timeouts.
Reply ==
    /\ pc = "replying" /\ end["client"] # "reset"
    /\ IF code = 200
       THEN /\ pc' = "select"
            /\ inn' = [inn EXCEPT !["client"] = <<200>>]
            /\ UNCHANGED out
       ELSE /\ pc' = "closed"
            /\ out' = [p \in Peers |-> <<>>]
            /\ \/ inn' = [inn EXCEPT !["client"] = <<code>>]
               \/ out["client"] # <<>> /\ UNCHANGED inn
    /\ UNCHANGED <<peerVars, taken, code, ready, held>>

Readable(p) == out[p] # <<>> \/ end[p] # "open"

\* select.select: those that can be read, in the order they were asked for.
Select ==
    /\ pc = "select" /\ \E p \in Peers : Readable(p)
    /\ ready' \in {q \in Orders : {q[i] : i \in DOMAIN q} = {p \in Peers : Readable(p)}}
    /\ pc' = "pump"
    /\ UNCHANGED <<peerVars, taken, code, held, out, inn>>

\* Urgent data makes a socket `errored`, and a descriptor above 1023 is a ValueError:
\* the tunnel is over, whatever there is to be read.
SelectBreaks ==
    /\ pc = "select" /\ strained
    /\ Close
    /\ UNCHANGED <<peerVars, taken, code, ready, held>>

\* ready.recv: some of what there is.
Recv ==
    /\ pc = "pump" /\ ready # <<>>
    /\ \E n \in 1..Len(out[Head(ready)]) :
           /\ held' = [from |-> Head(ready), data |-> SubSeq(out[Head(ready)], 1, n)]
           /\ out' = [out EXCEPT ![Head(ready)] = From(n, @)]
    /\ ready' = Tail(ready)
    /\ pc' = "send"
    /\ UNCHANGED <<peerVars, taken, code, inn>>

\* Mutant: a socket that has ended is skipped.
RecvEndSkipped ==
    /\ pc = "pump" /\ ready # <<>>
    /\ out[Head(ready)] = <<>> /\ end[Head(ready)] = "shut"
    /\ ready' = Tail(ready)
    /\ UNCHANGED <<peerVars, pc, taken, code, held, out, inn>>

\* recv returns nothing: the tunnel is over for both directions.
RecvEnd ==
    /\ pc = "pump" /\ ready # <<>>
    /\ out[Head(ready)] = <<>> /\ end[Head(ready)] = "shut"
    /\ Close
    /\ UNCHANGED <<peerVars, taken, code, ready, held>>

AllPumped ==
    /\ pc = "pump" /\ ready = <<>>
    /\ pc' = "select"
    /\ UNCHANGED <<peerVars, taken, code, ready, held, out, inn>>

Target == Other(held.from)

\* Mutant: send in place of sendall, its result ignored.
SendOnce ==
    /\ pc = "send" /\ end[Target] # "reset" /\ Len(inn[Target]) < Room
    /\ inn' = [inn EXCEPT ![Target] = Append(@, Head(held.data))]
    /\ held' = [held EXCEPT !.data = <<>>]
    /\ pc' = "pump"
    /\ UNCHANGED <<peerVars, taken, code, ready, out>>

\* target.sendall, unit by unit as there is room: meanwhile nothing is received.
SendAll ==
    /\ pc = "send" /\ end[Target] # "reset" /\ Len(inn[Target]) < Room
    /\ inn' = [inn EXCEPT ![Target] = Append(@, Head(held.data))]
    /\ held' = [held EXCEPT !.data = Tail(@)]
    /\ pc' = IF Len(held.data) = 1 THEN "pump" ELSE "send"
    /\ UNCHANGED <<peerVars, taken, code, ready, out>>

\* recv or sendall raises an OSError: the connection is closed without a word.
Broken ==
    /\ \/ pc \in {"reading", "replying"} /\ end["client"] = "reset"
       \/ pc = "pump" /\ ready # <<>> /\ end[Head(ready)] = "reset"
       \/ pc = "send" /\ end[Target] = "reset"
    /\ Close
    /\ UNCHANGED <<peerVars, taken, code, ready, held>>

Proxy ==
    \/ ReadLine \/ LineCutShort \/ ReadTimeout \/ Judge \/ Connect \/ ConnectRaises \/ Reply
    \/ Select \/ SelectBreaks \/ Recv \/ RecvEnd \/ AllPumped \/ SendAll \/ Broken

-----------------------------------------------------------------------------
(* Specification.                                                          *)

Next ==
    \/ Proxy
    \/ \E p \in Peers : Send(p) \/ Read(p) \/ Shut(p) \/ Reset(p)

Spec == Init /\ [][Next]_vars

\* The thread of the connection runs.  Its peers are programs nobody vouches for:
\* none has to send anything, to read what it is sent, or to end.
FairSpec == Spec /\ WF_vars(Proxy)

-----------------------------------------------------------------------------
(* Properties.                                                             *)

Run(a, b) == [i \in 1..(b - a) |-> a + i]
Reached(p) == got[p] \o inn[p]
InHand(p) == IF pc = "send" /\ Target = p THEN held.data ELSE <<>>

\* While the tunnel stands, each peer gets what the other one sent, in order and
\* with nothing lost or repeated, from the first unit that was not read together
\* with the request line.  (Those are dropped: a client that sends data before it
\* has read the 200 may lose it.)  Once it is closed, what was passed on is still
\* the beginning of that.
TunnelStream ==
    /\ Pumping /\ (\A p \in Peers : end[p] # "reset") =>
           /\ Reached("server") \o InHand("server") \o out["client"] = Run(taken, sent["client"])
           /\ Reached("client") \o InHand("client") \o out["server"]
                  = <<200>> \o Run(0, sent["server"])
    /\ Reached("server") = Run(taken, taken + Len(Reached("server")))
    /\ Reached("client") # <<>> => Tail(Reached("client")) = Run(0, Len(Reached("client")) - 1)

\* "Every tunnel request is checked against a domain allowlist before a single
\* byte is forwarded": either way.  And the request line itself does not go on,
\* but for what of an oversize one lies beyond the limit: the proxy asks for more
\* of a line only while what it has is within the limit, so a client that never
\* ends its line is judged all the same.
CheckedFirst ==
    /\ sent["server"] > 0 \/ Reached("server") # <<>> => request = "allowed"
    /\ \A i \in DOMAIN Reached("server") :
           Reached("server")[i] <= line => Reached("server")[i] > Limit
    /\ pc = "reading" => taken <= Limit

\* What a server wrote before it ended reaches a client that stays, unless data
\* of the client was still unread when the proxy closed the connection, or select
\* ended the tunnel for its own reasons.
LastWordsArrive ==
    /\ ~strained /\ pc = "closed" /\ end["server"] = "shut" /\ end["client"] = "open"
    /\ taken + Len(Reached("server")) = sent["client"]
    => Reached("client") = <<200>> \o Run(0, sent["server"])

\* In well-typed states the tunnel is a faithful pair of streams, to the last.
TunnelFaithful == TunnelTypeOK /\ TunnelStream /\ LastWordsArrive

\* Every request is answered or dropped, whatever its client sends or leaves out.
RequestSettled == pc = "reading" ~> Pumping \/ pc = "closed"

\* The end of either peer ends the tunnel.  Nothing holds it up for ever but a
\* sendall without a timeout to a peer that has stopped to read: nobody receives
\* from either peer meanwhile, so it is not noticed that the other one has gone.
HeldUp(p) == pc = "send" /\ Target = p /\ end[p] # "reset" /\ Len(inn[p]) = Room

TunnelEnds ==
    \A p \in Peers :
        Pumping /\ end[p] # "open" ~> pc = "closed" \/ [](\E q \in Peers : HeldUp(q))
=============================================================================

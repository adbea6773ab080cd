-------------------------- MODULE RemoteWorker_proof --------------------------
(* Theorems about RemoteWorker, for any objects, users, ids and hazards. *)
EXTENDS RemoteWorker, TLAPS

\* Which object a thread works for, and what a request says of it.
Belongs ==
    /\ \A o \in Objects : sid[o] \in {None, held[o]}
    /\ \A t \in Threads : local[t] \in {None, held[t[1]]}
    /\ \A t \in Threads : pc[t] = "clearing" => local[t] # None
    /\ \A r \in requests : r.op # "create" => r.id # None /\ r.id = held[r.by[1]]
    /\ \A r \in requests : r.op = "delete" => sid[r.by[1]] = None
    /\ \A o \in returned : held[o] # None /\ sid[o] = None

\* Handlers run only in a worker that is up, each at the points of its operation.
Served ==
    /\ \A r \in requests : r.at \in Serving => server = "up"
    /\ \A r \in requests : r.at = "built" => r.op = "create"
    /\ \A r \in requests : r.op = "create" /\ r.at \in {"built", "ok"} => r.id # None

\* An object is created once, and an id is issued once.
Creates ==
    /\ \A r, q \in requests : r.op = "create" /\ q.op = "create" /\ r.by[1] = q.by[1] => r = q
    /\ \A r \in requests : r.op = "create" => r.by[1] \in made /\ held[r.by[1]] = None
    /\ \A r \in requests : r.op = "create" /\ r.id # None =>
           /\ \A q \in requests : q.id = r.id => q = r
           /\ \A o \in Objects : held[o] # r.id
    /\ \A o \in Objects : held[o] # None => o \in made
    /\ \A o, p \in Objects : held[o] # None /\ held[o] = held[p] => o = p

\* An id that somebody knows has been issued.
Issued ==
    /\ \A r \in requests : r.id # None => status[r.id] # "unborn"
    /\ \A o \in Objects : held[o] # None => status[held[o]] # "unborn"
    /\ \A i \in table : status[i] # "unborn"

\* Each sandbox that a DELETE has flagged has the one handler that will remove it.
Flagged ==
    /\ \A r \in requests : r.at = "destroying" => r.op = "delete" /\ status[r.id] = "ending"
    /\ \A r, q \in requests :
           r.at = "destroying" /\ q.at = "destroying" /\ r.id = q.id => r = q
    /\ \A i \in Ids : status[i] = "ending" =>
           \E r \in requests : r.op = "delete" /\ r.id = i /\ r.at = "destroying"

\* Where a running sandbox is accounted for, by the state of the worker.
Tracked ==
    /\ server = "up" => \A i \in Ids : status[i] = "live" =>
           i \in table \/ \E r \in requests : r.id = i /\ r.at = "built"
    /\ server = "down" => \A i \in Ids : status[i] # "live"
    /\ server = "closing" => \A i \in Ids : status[i] = "live" =>
           i \in closing \/ \E j \in Ids : status[j] = "kept"
    /\ ShutdownDestroysAll

\* A DELETE past its destroy has ended the sandbox; and an object whose id was
\* cleared, if every DELETE was answered, is ended or has one on its way.
Ended ==
    /\ \A r \in requests : r.op = "delete" /\ r.at \in {"popping", "ok", "error", "cut"}
                               => status[r.id] # "live"
    /\ \A o \in Objects \ suppressed :
           held[o] # None /\ sid[o] = None /\ status[held[o]] = "live" =>
               \/ \E t \in Threads : local[t] = held[o]
               \/ \E r \in requests : /\ r.op = "delete" /\ r.id = held[o] /\ r.heard
                                      /\ r.at \in {"sent", "serving"}

RemoteInv == /\ RemoteTypeOK /\ Belongs /\ Served /\ Creates /\ Issued
             /\ Flagged /\ Tracked /\ Ended

-----------------------------------------------------------------------------
(* Requests as records.                                                    *)

Ats == Serving \cup {"sent", "ok", "error", "cut"}

LEMMA OwnerOf == \A t \in Threads : t[1] \in Objects
  BY DEF Threads

\* A request that moves on is the same request elsewhere.
LEMMA Moved ==
    ASSUME NEW r \in Request, NEW a \in Ats
    PROVE  /\ [r EXCEPT !.at = a] \in Request
           /\ [r EXCEPT !.at = a].at = a
           /\ [r EXCEPT !.at = a].by = r.by /\ [r EXCEPT !.at = a].op = r.op
           /\ [r EXCEPT !.at = a].id = r.id /\ [r EXCEPT !.at = a].heard = r.heard
  BY DEF Request, Ats

LEMMA Fields ==
    ASSUME NEW r \in Request
    PROVE  /\ r.by \in Threads /\ r.by[1] \in Objects /\ r.op \in {"create", "exec", "delete"}
           /\ r.id \in Ids \cup {None} /\ r.at \in Ats /\ r.heard \in BOOLEAN
  BY OwnerOf DEF Request, Ats

\* What sends a request adds to those under way.
LEMMA Sent ==
    ASSUME NEW t \in Threads, NEW op \in {"create", "exec", "delete"},
           NEW i \in Ids \cup {None},
           Send(t, op, i)
    PROVE  \E m \in Request : /\ requests' = requests \cup {m}
                              /\ m.by = t /\ m.op = op /\ m.id = i /\ m.at = "sent" /\ m.heard
<1> DEFINE m == [by |-> t, op |-> op, id |-> i, at |-> "sent", heard |-> TRUE]
<1>1. m \in Request /\ m.by = t /\ m.op = op /\ m.id = i /\ m.at = "sent" /\ m.heard
  BY DEF Request
<1>2. QED
  BY <1>1 DEF Send

LEMMA CreateStep ==
    ASSUME RemoteInv, NEW t \in Threads, Create(t)
    PROVE  RemoteInv'
<1>1. PICK m \in Request : /\ requests' = requests \cup {m} /\ m.by = t /\ m.op = "create"
                           /\ m.id = None /\ m.at = "sent" /\ m.heard
  BY Sent DEF Create
<1>2. /\ t[1] \in Objects /\ t[1] \notin made /\ made' = made \cup {t[1]} /\ pc[t] = "idle"
      /\ pc' = [pc EXCEPT ![t] = "waiting"]
      /\ UNCHANGED <<sid, held, local, returned, suppressed, server, table, closing, status>>
  BY OwnerOf DEF Create, Goto, serverVars
<1>3. RemoteTypeOK'
  BY <1>1, <1>2 DEF RemoteInv, RemoteTypeOK
<1>4. Belongs' /\ Served'
  BY <1>1, <1>2 DEF RemoteInv, RemoteTypeOK, Belongs, Served, Serving
<1>5. Creates'
  BY <1>1, <1>2 DEF RemoteInv, Creates, RemoteTypeOK
<1>6. Issued' /\ Tracked' /\ Ended'
  BY <1>1, <1>2 DEF RemoteInv, Issued, Tracked, ShutdownDestroysAll, Ended
<1>7. Flagged'
  BY <1>1, <1>2 DEF RemoteInv, Flagged
<1>8. QED
  BY <1>7, <1>3, <1>4, <1>5, <1>6 DEF RemoteInv

LEMMA ExecStep ==
    ASSUME RemoteInv, NEW t \in Threads, Exec(t)
    PROVE  RemoteInv'
<1>0. t[1] \in Objects /\ sid[t[1]] # None /\ sid[t[1]] \in Ids
  BY OwnerOf DEF Exec, RemoteInv, RemoteTypeOK
<1>1. PICK m \in Request : /\ requests' = requests \cup {m} /\ m.by = t /\ m.op = "exec"
                           /\ m.id = sid[t[1]] /\ m.at = "sent" /\ m.heard
  BY <1>0, Sent DEF Exec
<1>2. /\ pc' = [pc EXCEPT ![t] = "waiting"]
      /\ UNCHANGED <<sid, held, made, local, returned, suppressed, server, table, closing,
                     status>>
  BY DEF Exec, Goto, serverVars
<1>3. RemoteTypeOK'
  BY <1>1, <1>2 DEF RemoteInv, RemoteTypeOK
<1>4. m.id = held[m.by[1]] /\ m.id # None
  BY <1>0, <1>1 DEF RemoteInv, Belongs
<1>5. Belongs' /\ Served'
  BY <1>1, <1>2, <1>4 DEF RemoteInv, RemoteTypeOK, Belongs, Served, Serving
<1>6. Creates'
  BY <1>0, <1>1, <1>2, <1>4 DEF RemoteInv, Creates
<1>7. Issued' /\ Tracked' /\ Ended'
  BY <1>0, <1>1, <1>2, <1>4 DEF RemoteInv, Issued, Tracked, ShutdownDestroysAll, Ended
<1>8. Flagged'
  BY <1>1, <1>2 DEF RemoteInv, Flagged
<1>9. QED
  BY <1>8, <1>3, <1>5, <1>6, <1>7 DEF RemoteInv

LEMMA ReadIdStep ==
    ASSUME RemoteInv, NEW t \in Threads, ReadId(t)
    PROVE  RemoteInv'
<1>0. t[1] \in Objects /\ held[t[1]] # None
  BY OwnerOf DEF ReadId
<1>1. UNCHANGED <<sid, held, made, suppressed, requests, server, table, closing, status>>
  BY DEF ReadId, serverVars
<1>2. CASE sid[t[1]] = None /\ returned' = returned \cup {t[1]} /\ UNCHANGED <<pc, local>>
  <2>1. RemoteTypeOK' /\ Belongs'
    BY <1>0, <1>1, <1>2 DEF RemoteInv, RemoteTypeOK, Belongs
  <2>2. Served' /\ Creates' /\ Issued' /\ Flagged' /\ Tracked' /\ Ended'
    BY <1>1, <1>2 DEF RemoteInv, Flagged, Served, Creates, Issued, Tracked, ShutdownDestroysAll, Ended
  <2>3. QED
    BY <2>1, <2>2 DEF RemoteInv
<1>3. CASE /\ sid[t[1]] # None /\ pc' = [pc EXCEPT ![t] = "clearing"]
           /\ local' = [local EXCEPT ![t] = sid[t[1]]] /\ UNCHANGED returned
  <2>1. RemoteTypeOK' /\ Belongs'
    BY <1>0, <1>1, <1>3 DEF RemoteInv, RemoteTypeOK, Belongs
  <2>2. Served' /\ Creates' /\ Issued' /\ Flagged' /\ Tracked'
    BY <1>1 DEF RemoteInv, Flagged, Served, Creates, Issued, Tracked, ShutdownDestroysAll
  <2>3. \A u \in Threads : local[u] # None => local'[u] = local[u]
    BY <1>0, <1>3 DEF RemoteInv, RemoteTypeOK, Belongs
  <2>4. Ended'
    BY <1>1, <2>3 DEF RemoteInv, Ended
  <2>5. QED
    BY <2>1, <2>2, <2>4 DEF RemoteInv
<1>4. QED
  BY <1>2, <1>3 DEF ReadId, Goto

LEMMA ClearIdStep ==
    ASSUME RemoteInv, NEW t \in Threads, ClearId(t)
    PROVE  RemoteInv'
<1>0. /\ t[1] \in Objects /\ local[t] # None /\ local[t] \in Ids /\ local[t] = held[t[1]]
  BY OwnerOf DEF ClearId, Goto, RemoteInv, RemoteTypeOK, Belongs
<1>1. PICK m \in Request : /\ requests' = requests \cup {m} /\ m.by = t /\ m.op = "delete"
                           /\ m.id = local[t] /\ m.at = "sent" /\ m.heard
  BY <1>0, Sent DEF ClearId
<1>2. /\ pc' = [pc EXCEPT ![t] = "waiting"] /\ sid' = [sid EXCEPT ![t[1]] = None]
      /\ local' = [local EXCEPT ![t] = None]
      /\ UNCHANGED <<held, made, returned, suppressed, server, table, closing, status>>
  BY DEF ClearId, Goto, serverVars
<1>3. RemoteTypeOK'
  BY <1>0, <1>1, <1>2 DEF RemoteInv, RemoteTypeOK
<1>4. \A r \in requests : r.by \in Threads /\ r.by[1] \in Objects
  BY Fields DEF RemoteInv, RemoteTypeOK
<1>5. Belongs' /\ Served'
  BY <1>0, <1>1, <1>2, <1>4 DEF RemoteInv, RemoteTypeOK, Belongs, Served, Serving
<1>6. Creates'
  BY <1>0, <1>1, <1>2 DEF RemoteInv, Creates
<1>7. Issued' /\ Tracked'
  BY <1>0, <1>1, <1>2 DEF RemoteInv, Issued, Tracked, ShutdownDestroysAll
<1>8. Ended'
  <2>1. \A u \in Threads : local'[u] = local[u] \/ (u = t /\ local[u] = held[t[1]])
    BY <1>0, <1>2 DEF RemoteInv, RemoteTypeOK
  <2>2. \A o \in Objects : sid'[o] = None => sid[o] = None \/ held[o] = m.id
    BY <1>0, <1>1, <1>2 DEF RemoteInv, RemoteTypeOK
  <2>3. QED
    BY <1>0, <1>1, <1>2, <2>1, <2>2 DEF RemoteInv, Ended
<1>9. Flagged'
  BY <1>1, <1>2 DEF RemoteInv, Flagged
<1>10. QED
  BY <1>9, <1>3, <1>5, <1>6, <1>7, <1>8 DEF RemoteInv

LEMMA HearStep ==
    ASSUME RemoteInv, NEW t \in Threads, Hear(t)
    PROVE  RemoteInv'
<1>1. PICK r \in requests :
        /\ r.by = t /\ r.heard /\ r.at \in {"ok", "error"}
        /\ pc' = [pc EXCEPT ![t] = "idle"] /\ requests' = requests \ {r}
        /\ IF r.op = "create" /\ r.at = "ok"
           THEN sid' = [sid EXCEPT ![t[1]] = r.id] /\ held' = [held EXCEPT ![t[1]] = r.id]
           ELSE UNCHANGED <<sid, held>>
        /\ returned' = IF r.op = "delete" /\ r.at = "ok"
                       THEN returned \cup {t[1]} ELSE returned
        /\ UNCHANGED <<made, local, suppressed, server, table, closing, status>>
  BY DEF Hear, Goto, serverVars
<1>2. \A q \in requests : /\ q.by \in Threads /\ q.by[1] \in Objects
                           /\ q.id \in Ids \cup {None}
  BY Fields DEF RemoteInv, RemoteTypeOK
<1>3. t[1] \in Objects
  BY OwnerOf
<1>4. RemoteTypeOK'
  BY <1>1, <1>2, <1>3 DEF RemoteInv, RemoteTypeOK
<1>5. CASE r.op = "create" /\ r.at = "ok"
  <2>1. /\ sid' = [sid EXCEPT ![t[1]] = r.id] /\ held' = [held EXCEPT ![t[1]] = r.id]
        /\ returned' = returned /\ r.id # None /\ held[t[1]] = None /\ t[1] \in made
        /\ \A o \in Objects : held[o] # r.id
        /\ \A q \in requests' : q.id # r.id
        /\ \A q \in requests' : q.op = "create" => q.by[1] # t[1]
    BY <1>1, <1>5 DEF RemoteInv, Served, Creates
  <2>2. /\ sid'[t[1]] = r.id /\ held'[t[1]] = r.id
        /\ \A o \in Objects : o # t[1] => sid'[o] = sid[o] /\ held'[o] = held[o]
    BY <1>3, <2>1 DEF RemoteInv, RemoteTypeOK
  <2>3. \A q \in requests' : q \in requests /\ (q.op # "create" => q.by[1] # t[1])
    BY <1>1, <2>1 DEF RemoteInv, Belongs
  <2>4. \A u \in Threads : u[1] = t[1] => local[u] = None
    BY <2>1 DEF RemoteInv, Belongs
  <2>5. Belongs'
    <3>1. \A o \in Objects : sid'[o] \in {None, held'[o]}
      BY <2>2 DEF RemoteInv, Belongs
    <3>2. \A u \in Threads : local'[u] \in {None, held'[u[1]]}
      BY <1>1, <2>2, <2>4, OwnerOf DEF RemoteInv, Belongs
    <3>3. \A u \in Threads : pc'[u] = "clearing" => local'[u] # None
      BY <1>1 DEF RemoteInv, Belongs, RemoteTypeOK
    <3>4. \A q \in requests' : q.op # "create" => q.id # None /\ q.id = held'[q.by[1]]
      BY <1>2, <2>2, <2>3 DEF RemoteInv, Belongs
    <3>5. \A q \in requests' : q.op = "delete" => sid'[q.by[1]] = None
      BY <1>2, <2>2, <2>3 DEF RemoteInv, Belongs
    <3>6. \A o \in returned' : held'[o] # None /\ sid'[o] = None
      BY <2>1, <2>2 DEF RemoteInv, Belongs, RemoteTypeOK
    <3>7. QED
      BY <3>1, <3>2, <3>3, <3>4, <3>5, <3>6 DEF Belongs
  <2>6. Creates'
    BY <1>1, <1>2, <2>1, <2>2, <2>3 DEF RemoteInv, Creates
  <2>7. Served' /\ Tracked'
    BY <1>1, <1>5 DEF RemoteInv, Served, Tracked, ShutdownDestroysAll, Serving
  <2>8. Issued'
    BY <1>1, <2>2 DEF RemoteInv, Issued
  <2>9. Ended'
    BY <1>1, <1>5, <2>1, <2>2, <2>3 DEF RemoteInv, Ended
  <2>10. Flagged'
    BY <1>1 DEF RemoteInv, Flagged
  <2>11. QED
    BY <1>4, <2>5, <2>6, <2>7, <2>8, <2>9, <2>10 DEF RemoteInv
<1>6. CASE ~(r.op = "create" /\ r.at = "ok")
  <2>1. /\ UNCHANGED <<sid, held>>
        /\ \/ returned' = returned
           \/ returned' = returned \cup {t[1]} /\ r.op = "delete"
    BY <1>1, <1>6
  <2>2. Belongs'
    BY <1>1, <1>2, <2>1 DEF RemoteInv, Belongs, RemoteTypeOK
  <2>3. Served' /\ Creates' /\ Issued' /\ Tracked'
    BY <1>1, <2>1 DEF RemoteInv, Served, Creates, Issued, Tracked, ShutdownDestroysAll
  <2>4. Ended'
    BY <1>1, <2>1 DEF RemoteInv, Ended
  <2>5. Flagged'
    BY <1>1 DEF RemoteInv, Flagged
  <2>6. QED
    BY <1>4, <2>2, <2>3, <2>4, <2>5 DEF RemoteInv
<1>7. QED
  BY <1>5, <1>6

\* A request that goes on, whoever moves it, leaves what is said of owners true.
LEMMA Carried ==
    ASSUME RemoteInv, NEW r \in requests, NEW m \in Request,
           m.by = r.by, m.op = r.op, m.id = r.id,
           requests' = (requests \ {r}) \cup {m},
           UNCHANGED <<sid, held, made>>
    PROVE  /\ requests' \subseteq Request
           /\ \A q \in requests' : q.op # "create" => q.id # None /\ q.id = held'[q.by[1]]
           /\ \A q \in requests' : q.op = "delete" => sid'[q.by[1]] = None
           /\ Creates'
<1>1. requests' \subseteq Request
  BY DEF RemoteInv, RemoteTypeOK
<1>2. /\ \A q \in requests' : q.op # "create" => q.id # None /\ q.id = held'[q.by[1]]
      /\ \A q \in requests' : q.op = "delete" => sid'[q.by[1]] = None
  BY DEF RemoteInv, Belongs
<1>3. Creates'
  BY DEF RemoteInv, Creates
<1>4. QED
  BY <1>1, <1>2, <1>3

LEMMA GiveUpStep ==
    ASSUME RemoteInv, NEW t \in Threads, GiveUp(t)
    PROVE  RemoteInv'
<1>1. PICK r \in requests :
        /\ r.by = t /\ r.heard
        /\ pc' = [pc EXCEPT ![t] = "idle"]
        /\ requests' = (requests \ {r}) \cup {[r EXCEPT !.heard = FALSE]}
        /\ LET given == IF r.op = "delete" THEN {t[1]} ELSE {}
           IN  returned' = returned \cup given /\ suppressed' = suppressed \cup given
        /\ UNCHANGED <<sid, held, made, local, server, table, closing, status>>
  BY DEF GiveUp, Goto, serverVars
<1> DEFINE m == [r EXCEPT !.heard = FALSE]
<1>2. r \in Request
  BY DEF RemoteInv, RemoteTypeOK
<1>3. /\ m \in Request /\ m.by = r.by /\ m.op = r.op /\ m.id = r.id /\ m.at = r.at
      /\ t[1] \in Objects
  BY <1>2, OwnerOf DEF Request
<1>4. requests' = (requests \ {r}) \cup {m}
  BY <1>1
<1> HIDE DEF m
<1>5. /\ requests' \subseteq Request /\ Creates'
      /\ \A q \in requests' : q.op # "create" => q.id # None /\ q.id = held'[q.by[1]]
      /\ \A q \in requests' : q.op = "delete" => sid'[q.by[1]] = None
  BY <1>1, <1>3, <1>4, Carried
<1>6. RemoteTypeOK'
  BY <1>1, <1>3, <1>5 DEF RemoteInv, RemoteTypeOK
<1>7. \A o \in returned' : held'[o] # None /\ sid'[o] = None
  BY <1>1, <1>3 DEF RemoteInv, Belongs
<1>8. \A u \in Threads : pc'[u] = "clearing" => pc[u] = "clearing"
  BY <1>1 DEF RemoteInv, RemoteTypeOK
<1>9. Belongs'
  BY <1>1, <1>5, <1>7, <1>8 DEF RemoteInv, Belongs
<1>10. Served' /\ Issued' /\ Tracked'
  BY <1>1, <1>3, <1>4 DEF RemoteInv, Served, Issued, Tracked, ShutdownDestroysAll
<1>11. Ended'
  <2>1. \A q \in requests' : q.op = "delete" /\ q.at \in {"popping", "ok", "error", "cut"}
                                => status'[q.id] # "live"
    BY <1>1, <1>3, <1>4 DEF RemoteInv, Ended
  <2>2. ASSUME NEW o \in Objects \ suppressed',
               held'[o] # None, sid'[o] = None, status'[held'[o]] = "live"
        PROVE  \/ \E u \in Threads : local'[u] = held'[o]
               \/ \E q \in requests' : /\ q.op = "delete" /\ q.id = held'[o] /\ q.heard
                                       /\ q.at \in {"sent", "serving"}
    <3>1. o \notin suppressed
      BY <1>1
    <3>2. r.op = "delete" => r.id # held[o]
      BY <1>1, <1>3, <2>2 DEF RemoteInv, Belongs, Creates
    <3>3. QED
      BY <1>1, <1>4, <2>2, <3>1, <3>2 DEF RemoteInv, Ended
  <2>3. QED
    BY <2>1, <2>2 DEF Ended
<1>12. Flagged'
  BY <1>1, <1>3, <1>4 DEF RemoteInv, Flagged
<1>13. QED
  BY <1>12, <1>5, <1>6, <1>9, <1>10, <1>11 DEF RemoteInv

LEMMA DropStep ==
    ASSUME RemoteInv, Drop
    PROVE  RemoteInv'
<1>1. PICK r \in requests :
        /\ ~r.heard /\ r.at \notin Serving /\ requests' = requests \ {r}
        /\ UNCHANGED <<sid, held, made, pc, local, returned, suppressed, server, table, closing,
                       status>>
  BY DEF Drop, clientVars, serverVars
<1>2. RemoteTypeOK' /\ Belongs' /\ Served'
  BY <1>1 DEF RemoteInv, RemoteTypeOK, Belongs, Served
<1>3. Creates' /\ Issued' /\ Ended'
  BY <1>1 DEF RemoteInv, Creates, Issued, Ended
<1>4. Tracked'
  BY <1>1 DEF RemoteInv, Tracked, ShutdownDestroysAll, Serving
<1>5. Flagged'
  BY <1>1 DEF RemoteInv, Flagged, Serving
<1>6. QED
  BY <1>5, <1>2, <1>3, <1>4 DEF RemoteInv

-----------------------------------------------------------------------------
(* The handlers.                                                           *)

\* What a step of a handler leaves true, for a request that keeps its id.
LEMMA HandlerMoves ==
    ASSUME RemoteInv, NEW r \in requests, NEW a \in Ats, Move(r, a),
           UNCHANGED <<clientVars, server, closing>>
    PROVE  \E m \in Request :
             /\ requests' = (requests \ {r}) \cup {m}
             /\ m.at = a /\ m.by = r.by /\ m.op = r.op /\ m.id = r.id /\ m.heard = r.heard
             /\ Belongs' /\ Creates' /\ requests' \subseteq Request
<1> DEFINE m == [r EXCEPT !.at = a]
<1>1. /\ m \in Request /\ m.at = a /\ m.by = r.by /\ m.op = r.op /\ m.id = r.id
      /\ m.heard = r.heard
  BY Moved DEF RemoteInv, RemoteTypeOK
<1>2. requests' = (requests \ {r}) \cup {m}
  BY DEF Move
<1> HIDE DEF m
<1>3. UNCHANGED <<sid, held, made, pc, local, returned, suppressed>>
  BY DEF clientVars
<1>4. /\ requests' \subseteq Request /\ Creates'
      /\ \A q \in requests' : q.op # "create" => q.id # None /\ q.id = held'[q.by[1]]
      /\ \A q \in requests' : q.op = "delete" => sid'[q.by[1]] = None
  BY <1>1, <1>2, <1>3, Carried
<1>5. Belongs'
  BY <1>3, <1>4 DEF RemoteInv, Belongs
<1>6. QED
  BY <1>1, <1>2, <1>4, <1>5

LEMMA BuildStep ==
    ASSUME RemoteInv, NEW r \in requests, Build(r)
    PROVE  RemoteInv'
<1>0. /\ server = "up" /\ r.op = "create" /\ r.at = "sent"
      /\ UNCHANGED <<sid, held, made, pc, local, returned, suppressed, server, table, closing>>
      /\ r \in Request /\ \A q \in requests : q.by \in Threads /\ q.by[1] \in Objects
  BY Fields DEF Build, clientVars, RemoteInv, RemoteTypeOK
<1>1. ASSUME NEW i \in Ids, status[i] = "unborn", status' = [status EXCEPT ![i] = "live"],
             requests' = (requests \ {r}) \cup {[r EXCEPT !.id = i, !.at = "built"]}
      PROVE  RemoteInv'
  <2> DEFINE m == [r EXCEPT !.id = i, !.at = "built"]
  <2>1. /\ m \in Request /\ m.by = r.by /\ m.op = "create" /\ m.id = i /\ m.at = "built"
        /\ i # None
    BY <1>0, RemoteAssumption DEF Request, Serving
  <2>2. requests' = (requests \ {r}) \cup {m}
    BY <1>1
  <2> HIDE DEF m
  <2>3. /\ \A q \in requests : q.id # i
        /\ \A o \in Objects : held[o] # i
        /\ i \notin table
    BY <1>1, <2>1 DEF RemoteInv, Issued
  <2>4. status'[i] = "live" /\ \A j \in Ids : j # i => status'[j] = status[j]
    BY <1>1 DEF RemoteInv, RemoteTypeOK
  <2>5. RemoteTypeOK'
    BY <1>0, <1>1, <2>1, <2>2 DEF RemoteInv, RemoteTypeOK, Status
  <2>6. Belongs' /\ Served'
    BY <1>0, <2>1, <2>2 DEF RemoteInv, Belongs, Served
  <2>7. Creates'
    BY <1>0, <2>1, <2>2, <2>3 DEF RemoteInv, Creates
  <2>8. Issued'
    <3>1. \A q \in requests' : q.id # None => status'[q.id] # "unborn"
      BY <1>0, <1>1, <2>1, <2>2, <2>4 DEF RemoteInv, RemoteTypeOK, Issued
    <3>2. \A o \in Objects : held'[o] # None => status'[held'[o]] # "unborn"
      BY <1>0, <2>3, <2>4 DEF RemoteInv, RemoteTypeOK, Issued
    <3>3. \A j \in table' : status'[j] # "unborn"
      BY <1>0, <2>4 DEF RemoteInv, RemoteTypeOK, Issued
    <3>4. QED
      BY <3>1, <3>2, <3>3 DEF Issued
  <2>9. Tracked'
    BY <1>0, <1>1, <2>1, <2>2, <2>4 DEF RemoteInv, Tracked, ShutdownDestroysAll
  <2>10. Ended'
    <3>1. \A q \in requests' : q.op = "delete" => q \in requests /\ q.id \in Ids /\ q.id # i
      BY <1>0, <2>1, <2>2, <2>3, Fields DEF RemoteInv, RemoteTypeOK, Belongs
    <3>2. \A o \in Objects : held[o] # None => held[o] \in Ids /\ held[o] # i
      BY <2>3 DEF RemoteInv, RemoteTypeOK
    <3>3. \A q \in requests : q.op = "delete" => q \in requests'
      BY <1>0, <2>2
    <3>4. QED
      BY <1>0, <2>4, <3>1, <3>2, <3>3 DEF RemoteInv, Ended
  <2>11. Flagged'
    <3>1. \A q \in requests' : q.at = "destroying" => q \in requests /\ q.id \in Ids /\ q.id # i
      BY <2>1, <2>2, <2>3, <1>0, Fields DEF RemoteInv, RemoteTypeOK, Flagged, Belongs
    <3>2. \A q \in requests : q.at = "destroying" => q \in requests'
      BY <1>0, <2>2
    <3>3. QED
      BY <2>4, <3>1, <3>2 DEF RemoteInv, Flagged
  <2>12. QED
    BY <2>5, <2>6, <2>7, <2>8, <2>9, <2>10, <2>11 DEF RemoteInv
<1>2. CASE Move(r, "error") /\ UNCHANGED status
  <2>1. PICK m \in Request :
          /\ requests' = (requests \ {r}) \cup {m} /\ m.at = "error"
          /\ m.by = r.by /\ m.op = r.op /\ m.id = r.id /\ m.heard = r.heard
          /\ Belongs' /\ Creates' /\ requests' \subseteq Request
    BY <1>0, <1>2, HandlerMoves DEF Ats, clientVars
  <2>2. RemoteTypeOK' /\ Served'
    BY <1>0, <1>2, <2>1 DEF RemoteInv, RemoteTypeOK, Served, Serving
  <2>3. Issued' /\ Flagged' /\ Tracked' /\ Ended'
    BY <1>0, <1>2, <2>1 DEF RemoteInv, Flagged, Issued, Tracked, ShutdownDestroysAll, Ended
  <2>4. QED
    BY <2>1, <2>2, <2>3 DEF RemoteInv
<1>3. QED
  BY <1>1, <1>2 DEF Build

LEMMA RegisterStep ==
    ASSUME RemoteInv, NEW r \in requests, Register(r)
    PROVE  RemoteInv'
<1>1. /\ r.op = "create" /\ r.at = "built" /\ table' = table \cup {r.id} /\ Move(r, "ok")
      /\ UNCHANGED <<clientVars, server, closing, status>>
      /\ r.id # None /\ r.id \in Ids /\ status[r.id] # "unborn"
  BY Fields DEF Register, RemoteInv, RemoteTypeOK, Served, Issued
<1>2. UNCHANGED <<sid, held, made, pc, local, returned, suppressed>>
  BY <1>1 DEF clientVars
<1>3. PICK m \in Request :
        /\ requests' = (requests \ {r}) \cup {m} /\ m.at = "ok"
        /\ m.by = r.by /\ m.op = r.op /\ m.id = r.id /\ m.heard = r.heard
        /\ Belongs' /\ Creates' /\ requests' \subseteq Request
  BY <1>1, HandlerMoves DEF Ats
<1>4. RemoteTypeOK' /\ Served'
  BY <1>1, <1>2, <1>3 DEF RemoteInv, RemoteTypeOK, Served, Serving
<1>5. Issued' /\ Ended'
  BY <1>1, <1>2, <1>3 DEF RemoteInv, Issued, Ended
<1>6. Tracked'
  BY <1>1, <1>3 DEF RemoteInv, Tracked, ShutdownDestroysAll, Served, Serving
<1>7. Flagged'
  BY <1>1, <1>3 DEF RemoteInv, Flagged
<1>8. QED
  BY <1>7, <1>3, <1>4, <1>5, <1>6 DEF RemoteInv

\* A DELETE that finds nothing on the table is of a sandbox that has ended.
LEMMA LookupStep ==
    ASSUME RemoteInv, NEW r \in requests, Lookup(r)
    PROVE  RemoteInv'
<1> DEFINE a == IF r.id \in table THEN "serving" ELSE "error"
<1>1. /\ server = "up" /\ r.op # "create" /\ r.at = "sent" /\ Move(r, a) /\ a \in Ats
      /\ UNCHANGED <<clientVars, server, table, closing, status>>
      /\ r.id # None /\ r.id \in Ids
  BY Fields DEF Lookup, RemoteInv, RemoteTypeOK, Belongs, serverVars, Ats, Serving
<1>2. UNCHANGED <<sid, held, made, pc, local, returned, suppressed>>
  BY <1>1 DEF clientVars
<1>3. PICK m \in Request :
        /\ requests' = (requests \ {r}) \cup {m} /\ m.at = a
        /\ m.by = r.by /\ m.op = r.op /\ m.id = r.id /\ m.heard = r.heard
        /\ Belongs' /\ Creates' /\ requests' \subseteq Request
  BY <1>1, HandlerMoves
<1>4. RemoteTypeOK' /\ Served'
  BY <1>1, <1>2, <1>3 DEF RemoteInv, RemoteTypeOK, Served, Serving
<1>5. Issued' /\ Tracked'
  BY <1>1, <1>2, <1>3 DEF RemoteInv, Issued, Tracked, ShutdownDestroysAll
<1>6. r.id \notin table => status[r.id] # "live"
  BY <1>1 DEF RemoteInv, Tracked, Served, Creates
<1>7. Ended'
  BY <1>1, <1>2, <1>3, <1>6 DEF RemoteInv, Ended
<1>8. Flagged'
  BY <1>1, <1>3 DEF RemoteInv, Flagged
<1>9. QED
  BY <1>8, <1>3, <1>4, <1>5, <1>7 DEF RemoteInv

LEMMA ExecuteStep ==
    ASSUME RemoteInv, NEW r \in requests, Execute(r)
    PROVE  RemoteInv'
<1>1. PICK a \in {"ok", "error"} : Move(r, a)
  BY DEF Execute
<1>2. /\ r.op = "exec" /\ r.at = "serving" /\ a \in Ats
      /\ UNCHANGED <<clientVars, server, table, closing, status>>
      /\ UNCHANGED <<sid, held, made, pc, local, returned, suppressed>>
  BY DEF Execute, Ats, clientVars, serverVars
<1>3. PICK m \in Request :
        /\ requests' = (requests \ {r}) \cup {m} /\ m.at = a
        /\ m.by = r.by /\ m.op = r.op /\ m.id = r.id /\ m.heard = r.heard
        /\ Belongs' /\ Creates' /\ requests' \subseteq Request
  BY <1>1, <1>2, HandlerMoves
<1>4. RemoteTypeOK' /\ Served'
  BY <1>2, <1>3 DEF RemoteInv, RemoteTypeOK, Served, Serving
<1>5. Issued' /\ Tracked' /\ Ended'
  BY <1>2, <1>3 DEF RemoteInv, Issued, Tracked, ShutdownDestroysAll, Ended
<1>6. Flagged'
  BY <1>2, <1>3 DEF RemoteInv, Flagged
<1>7. QED
  BY <1>6, <1>3, <1>4, <1>5 DEF RemoteInv

\* A sandbox that is being ended goes on to its end, or is left as it is; afterwards
\* it is not live, and what is said of every sandbox is kept.
LEMMA Destroyed ==
    ASSUME RemoteInv, NEW i \in Ids, NEW fate,
           \/ /\ fate \in {"ending", "expiring", "gone", "kept"}
              /\ status[i] \in {"live", "ending", "expiring"}
           \/ fate = status[i] /\ fate # "live",
           status' = [status EXCEPT ![i] = fate]
    PROVE  /\ status' \in [Ids -> Status] /\ status'[i] # "live" /\ status'[i] = fate
           /\ \A j \in Ids : j # i => status'[j] = status[j]
           /\ \A j \in Ids : status'[j] = "live" => j # i /\ status[j] = "live"
           /\ \A j \in Ids : status[j] # "unborn" => status'[j] # "unborn"
           /\ \A j \in Ids : status[j] = "kept" => status'[j] = "kept"
           /\ ShutdownDestroysAll'
<1>1. /\ status' \in [Ids -> Status] /\ status'[i] # "live" /\ status'[i] = fate
      /\ \A j \in Ids : j # i => status'[j] = status[j]
      /\ fate = "unborn" => status[i] = "unborn"
      /\ fate = "left" => status[i] = "left"
      /\ status[i] = "kept" => fate = "kept"
  BY DEF RemoteInv, RemoteTypeOK, Status
<1>2. \A j \in Ids : status[j] = "kept" => status'[j] = "kept"
  BY <1>1
<1>3. ShutdownDestroysAll'
  BY <1>1, <1>2 DEF RemoteInv, Tracked, ShutdownDestroysAll
<1>4. QED
  BY <1>1, <1>2, <1>3

\* One of the two steps by which a DELETE ends its sandbox.
LEMMA DeleteMoves ==
    ASSUME RemoteInv, NEW r \in requests, r.op = "delete",
           NEW a \in {"destroying", "error", "popping"}, Move(r, a),
           NEW fate, status' = [status EXCEPT ![r.id] = fate],
           \/ r.at = "serving" /\ status[r.id] = "live" /\ fate = "ending" /\ a = "destroying"
           \/ /\ r.at = "serving" /\ status[r.id] # "live" /\ fate = status[r.id]
              /\ a = "popping"
           \/ /\ r.at = "destroying" /\ fate \in {"gone", "kept"} /\ a # "destroying",
           UNCHANGED <<clientVars, server, table, closing>>
    PROVE  RemoteInv'
<1>1. /\ r.id # None /\ r.id \in Ids /\ server = "up"
      /\ UNCHANGED <<sid, held, made, pc, local, returned, suppressed>>
      /\ r.at = "destroying" => status[r.id] = "ending"
  BY Fields DEF clientVars, RemoteInv, RemoteTypeOK, Belongs, Served, Flagged, Serving
<1>2. a \in Ats
  BY DEF Ats, Serving
<1>3. PICK m \in Request :
        /\ requests' = (requests \ {r}) \cup {m} /\ m.at = a
        /\ m.by = r.by /\ m.op = r.op /\ m.id = r.id /\ m.heard = r.heard
        /\ Belongs' /\ Creates' /\ requests' \subseteq Request
  BY <1>2, HandlerMoves
<1>4. /\ status' \in [Ids -> Status] /\ status'[r.id] # "live" /\ status'[r.id] = fate
      /\ \A j \in Ids : j # r.id => status'[j] = status[j]
      /\ \A j \in Ids : status'[j] = "live" => j # r.id /\ status[j] = "live"
      /\ \A j \in Ids : status[j] # "unborn" => status'[j] # "unborn"
      /\ \A j \in Ids : status[j] = "kept" => status'[j] = "kept"
      /\ ShutdownDestroysAll'
  BY <1>1, Destroyed
<1>5. RemoteTypeOK' /\ Served'
  BY <1>1, <1>2, <1>3, <1>4 DEF RemoteInv, RemoteTypeOK, Served, Serving
<1>6. \A q \in requests' : q.id \in Ids \cup {None}
  BY <1>3, Fields
<1>7. Issued'
  BY <1>1, <1>3, <1>4, <1>6 DEF RemoteInv, RemoteTypeOK, Issued
<1>8. Tracked'
  BY <1>1, <1>3, <1>4 DEF RemoteInv, Tracked
<1>9. Flagged'
  <2>1. \A q \in requests' : q.at = "destroying" => q.op = "delete" /\ q.id \in Ids
    BY <1>1, <1>3, Fields DEF RemoteInv, Flagged, Belongs
  <2>2. \A q \in requests : q # r /\ q.at = "destroying" /\ q.id = r.id
                               => fate = "ending" /\ a = "popping"
    BY <1>1 DEF RemoteInv, Flagged
  <2>3. ASSUME NEW q \in requests', q.at = "destroying" PROVE status'[q.id] = "ending"
    <3>1. CASE q = m
      BY <1>3, <1>4, <2>3, <3>1
    <3>2. CASE q # m
      BY <1>3, <1>4, <2>1, <2>2, <2>3, <3>2 DEF RemoteInv, Flagged
    <3>3. QED
      BY <3>1, <3>2
  <2>4. \A q, p \in requests' :
            q.at = "destroying" /\ p.at = "destroying" /\ q.id = p.id => q = p
    BY <1>3, <2>2 DEF RemoteInv, Flagged
  <2>5. ASSUME NEW i \in Ids, status'[i] = "ending"
        PROVE  \E q \in requests' : q.op = "delete" /\ q.id = i /\ q.at = "destroying"
    <3>1. CASE i = r.id
      <4>1. r.at = "serving"
        BY <1>4, <2>5, <3>1
      <4>2. CASE a = "destroying"
        BY <1>3, <3>1, <4>2
      <4>3. CASE a # "destroying"
        \* The handler that did set the flag is another one.
        BY <1>3, <1>4, <2>5, <3>1, <4>1, <4>3 DEF RemoteInv, Flagged
      <4>4. QED
        BY <4>2, <4>3
    <3>2. CASE i # r.id
      BY <1>3, <1>4, <2>5, <3>2 DEF RemoteInv, Flagged
    <3>3. QED
      BY <3>1, <3>2
  <2>6. QED
    BY <2>1, <2>3, <2>4, <2>5 DEF Flagged
<1>10. Ended'
  <2>1. \A q \in requests' : q.op = "delete" /\ q.at \in {"popping", "ok", "error", "cut"}
                                => status'[q.id] # "live"
    BY <1>1, <1>3, <1>4, <1>6, RemoteAssumption DEF RemoteInv, Ended, Belongs
  <2>2. \A o \in Objects : held[o] # None => held[o] \in Ids
    BY DEF RemoteInv, RemoteTypeOK
  <2>3. QED
    BY <1>1, <1>3, <1>4, <2>1, <2>2 DEF RemoteInv, Ended
<1>11. QED
  BY <1>3, <1>5, <1>7, <1>8, <1>9, <1>10 DEF RemoteInv

LEMMA DeleteStep ==
    ASSUME RemoteInv, NEW r \in requests, Delete(r) \/ Remove(r)
    PROVE  RemoteInv'
<1>1. r.id \in Ids
  BY Fields DEF Delete, Remove, RemoteInv, RemoteTypeOK, Belongs
<1>2. CASE Delete(r) /\ status[r.id] = "live"
  BY <1>2, DeleteMoves DEF Delete
<1>3. CASE Delete(r) /\ status[r.id] # "live"
  <2>1. status' = [status EXCEPT ![r.id] = status[r.id]]
    BY <1>1, <1>3 DEF Delete, RemoteInv, RemoteTypeOK
  <2>2. QED
    BY <1>3, <2>1, DeleteMoves DEF Delete
<1>4. CASE Remove(r)
  <2>1. PICK fate \in {"gone", "kept"} :
          /\ status' = [status EXCEPT ![r.id] = fate]
          /\ Move(r, IF fate = "kept" THEN "error" ELSE "popping")
    BY <1>4 DEF Remove, Removal
  <2>2. QED
    BY <1>4, <2>1, DeleteMoves DEF Remove
<1>5. QED
  BY <1>2, <1>3, <1>4

LEMMA PopStep ==
    ASSUME RemoteInv, NEW r \in requests, Pop(r)
    PROVE  RemoteInv'
<1>1. /\ r.op = "delete" /\ r.at = "popping" /\ table' = table \ {r.id} /\ Move(r, "ok")
      /\ UNCHANGED <<clientVars, server, closing, status>>
      /\ UNCHANGED <<sid, held, made, pc, local, returned, suppressed>>
      /\ status[r.id] # "live"
  BY DEF Pop, clientVars, RemoteInv, Ended
<1>2. PICK m \in Request :
        /\ requests' = (requests \ {r}) \cup {m} /\ m.at = "ok"
        /\ m.by = r.by /\ m.op = r.op /\ m.id = r.id /\ m.heard = r.heard
        /\ Belongs' /\ Creates' /\ requests' \subseteq Request
  BY <1>1, HandlerMoves DEF Ats
<1>3. RemoteTypeOK' /\ Served'
  BY <1>1, <1>2 DEF RemoteInv, RemoteTypeOK, Served, Serving
<1>4. Issued' /\ Tracked' /\ Ended'
  BY <1>1, <1>2 DEF RemoteInv, Issued, Tracked, ShutdownDestroysAll, Ended
<1>5. Flagged'
  BY <1>1, <1>2 DEF RemoteInv, Flagged
<1>6. QED
  BY <1>5, <1>2, <1>3, <1>4 DEF RemoteInv

-----------------------------------------------------------------------------
(* The worker's own life.                                                  *)

LEMMA LifetimeStep ==
    ASSUME RemoteInv, NEW i \in Ids, Lifetime(i) \/ Expire(i)
    PROVE  RemoteInv'
<1>1. PICK fate \in {"expiring", "gone", "kept"} : status' = [status EXCEPT ![i] = fate]
  BY DEF Lifetime, Expire, Removal
<1>2. /\ UNCHANGED <<sid, held, made, pc, local, returned, suppressed, requests, server, table,
                     closing>>
      /\ status[i] \in {"live", "expiring"}
  BY DEF Lifetime, Expire, clientVars
<1>3. /\ status' \in [Ids -> Status] /\ status'[i] # "live" /\ status'[i] = fate
      /\ \A j \in Ids : j # i => status'[j] = status[j]
      /\ \A j \in Ids : status'[j] = "live" => j # i /\ status[j] = "live"
      /\ \A j \in Ids : status[j] # "unborn" => status'[j] # "unborn"
      /\ \A j \in Ids : status[j] = "kept" => status'[j] = "kept"
      /\ ShutdownDestroysAll'
  BY <1>1, <1>2, Destroyed
<1>4. RemoteTypeOK' /\ Belongs' /\ Served' /\ Creates'
  BY <1>2, <1>3 DEF RemoteInv, RemoteTypeOK, Belongs, Served, Creates
<1>5. \A q \in requests : q.id \in Ids \cup {None}
  BY Fields DEF RemoteInv, RemoteTypeOK
<1>6. \A o \in Objects : held[o] # None => held[o] \in Ids
  BY DEF RemoteInv, RemoteTypeOK
<1>7. Issued' /\ Tracked'
  BY <1>2, <1>3, <1>5, <1>6 DEF RemoteInv, RemoteTypeOK, Issued, Tracked
<1>8. Ended'
  BY <1>2, <1>3, <1>5, <1>6 DEF RemoteInv, Ended, Belongs
<1>9. Flagged'
  <2>1. \A q \in requests : q.at = "destroying" => q.id \in Ids /\ q.id # i
    BY <1>2, <1>5, RemoteAssumption DEF RemoteInv, Flagged, Belongs
  <2>2. QED
    BY <1>2, <1>3, <2>1 DEF RemoteInv, Flagged
<1>10. QED
  BY <1>4, <1>7, <1>8, <1>9 DEF RemoteInv

\* cleanup starts when no handler runs, so what is live is what it took.
LEMMA ShutdownStep ==
    ASSUME RemoteInv, Shutdown
    PROVE  RemoteInv'
<1>1. /\ server = "up" /\ \A r \in requests : r.at \notin Serving
      /\ server' = "closing" /\ closing' = table /\ table' = {}
      /\ UNCHANGED <<sid, held, made, pc, local, returned, suppressed, requests, status>>
  BY DEF Shutdown, clientVars
<1>2. RemoteTypeOK' /\ Belongs' /\ Served'
  BY <1>1 DEF RemoteInv, RemoteTypeOK, Belongs, Served
<1>3. Creates' /\ Issued' /\ Ended'
  BY <1>1 DEF RemoteInv, Creates, Issued, Ended
<1>4. Tracked'
  BY <1>1 DEF RemoteInv, Tracked, ShutdownDestroysAll, Serving
<1>5. Flagged'
  BY <1>1 DEF RemoteInv, Flagged
<1>6. QED
  BY <1>5, <1>2, <1>3, <1>4 DEF RemoteInv

\* The end of the process: nothing is live, and the rest is as it was.
LEMMA Abandons ==
    ASSUME RemoteTypeOK, NEW as \in {"left", "orphan"}, status' = Abandoned(as)
    PROVE  /\ status' \in [Ids -> Status]
           /\ \A j \in Ids : \/ /\ status[j] \in {"live", "ending"}
                               /\ status'[j] = as
                            \/ /\ status[j] = "expiring" /\ status'[j] = "cut"
                            \/ /\ status[j] \notin {"live", "ending", "expiring"}
                               /\ status'[j] = status[j]
  BY DEF Abandoned, Status, RemoteTypeOK

LEMMA CloseNextStep ==
    ASSUME RemoteInv, CloseNext
    PROVE  RemoteInv'
<1>1. /\ server = "closing"
      /\ UNCHANGED <<sid, held, made, pc, local, returned, suppressed, requests, table>>
      /\ \A q \in requests : q.at \notin Serving
  BY DEF CloseNext, clientVars, RemoteInv, Served
<1>2. \A q \in requests : q.id \in Ids \cup {None}
  BY Fields DEF RemoteInv, RemoteTypeOK
<1>3. \A o \in Objects : held[o] # None => held[o] \in Ids
  BY DEF RemoteInv, RemoteTypeOK
<1>4. CASE closing = {} /\ server' = "down" /\ status' = Abandoned("left") /\ UNCHANGED closing
  <2>1. /\ status' \in [Ids -> Status]
        /\ \A j \in Ids : \/ /\ status[j] \in {"live", "ending"}
                            /\ status'[j] = "left"
                         \/ /\ status[j] = "expiring" /\ status'[j] = "cut"
                         \/ /\ status[j] \notin {"live", "ending", "expiring"}
                            /\ status'[j] = status[j]
        /\ \A j \in Ids : status[j] # "ending"
    BY <1>1, <1>4, Abandons DEF RemoteInv, Flagged, Serving
  <2>2. RemoteTypeOK' /\ Belongs' /\ Served' /\ Creates'
    BY <1>1, <1>4, <2>1 DEF RemoteInv, RemoteTypeOK, Belongs, Served, Creates
  <2>3. Issued'
    BY <1>1, <1>2, <1>3, <2>1 DEF RemoteInv, RemoteTypeOK, Issued
  <2>4. Tracked'
    BY <1>1, <1>4, <2>1 DEF RemoteInv, Tracked, ShutdownDestroysAll
  <2>5. Ended'
    BY <1>1, <1>2, <1>3, <2>1 DEF RemoteInv, Ended, Belongs
  <2>6. Flagged'
    BY <1>1, <2>1 DEF RemoteInv, Flagged, Serving
  <2>7. QED
    BY <2>2, <2>3, <2>4, <2>5, <2>6 DEF RemoteInv
<1>5. ASSUME NEW i \in closing, NEW fate \in Fate(i), status' = [status EXCEPT ![i] = fate],
             closing' = (IF status[i] = "live" /\ fate = "kept" THEN {} ELSE closing \ {i}),
             UNCHANGED server
      PROVE  RemoteInv'
  <2>1. i \in Ids
    BY DEF RemoteInv, RemoteTypeOK
  <2>2. \/ status[i] = "live" /\ fate \in {"gone", "kept"}
        \/ fate = status[i] /\ fate # "live"
    BY DEF Fate, Removal
  <2>3. /\ status' \in [Ids -> Status] /\ status'[i] # "live" /\ status'[i] = fate
        /\ \A j \in Ids : j # i => status'[j] = status[j]
        /\ \A j \in Ids : status'[j] = "live" => j # i /\ status[j] = "live"
        /\ \A j \in Ids : status[j] # "unborn" => status'[j] # "unborn"
        /\ \A j \in Ids : status[j] = "kept" => status'[j] = "kept"
        /\ ShutdownDestroysAll'
    BY <1>5, <2>1, <2>2, Destroyed
  <2>4. RemoteTypeOK' /\ Belongs' /\ Served' /\ Creates'
    BY <1>1, <1>5, <2>3 DEF RemoteInv, RemoteTypeOK, Belongs, Served, Creates
  <2>5. Issued'
    BY <1>1, <1>2, <1>3, <2>3 DEF RemoteInv, RemoteTypeOK, Issued
  <2>6. Tracked'
    BY <1>1, <1>5, <2>1, <2>3 DEF RemoteInv, Tracked
  <2>7. Ended'
    BY <1>1, <1>2, <1>3, <2>3 DEF RemoteInv, Ended, Belongs
  <2>8. \A j \in Ids : status'[j] # "ending"
    BY <1>1, <2>2, <2>3 DEF RemoteInv, Flagged, Serving
  <2>9. Flagged'
    BY <1>1, <2>8 DEF Flagged, Serving
  <2>10. QED
    BY <2>4, <2>5, <2>6, <2>7, <2>9 DEF RemoteInv
<1>6. QED
  BY <1>4, <1>5 DEF CloseNext

\* The requests a crash leaves: those being served are cut off.
LEMMA Cut ==
    ASSUME RemoteInv, Crash
    PROVE  /\ requests' \subseteq Request
           /\ \A m \in requests' : \E r \in requests :
                 /\ m.by = r.by /\ m.op = r.op /\ m.id = r.id /\ m.heard = r.heard
                 /\ m = [r EXCEPT !.at = IF @ \in Serving THEN "cut" ELSE @]
                 /\ m.at = (IF r.at \in Serving THEN "cut" ELSE r.at)
<1> DEFINE f(r) == [r EXCEPT !.at = IF @ \in Serving THEN "cut" ELSE @]
<1>1. ASSUME NEW r \in Request
      PROVE  /\ f(r) \in Request /\ f(r).by = r.by /\ f(r).op = r.op /\ f(r).id = r.id
             /\ f(r).heard = r.heard /\ f(r).at = (IF r.at \in Serving THEN "cut" ELSE r.at)
  BY DEF Request
<1>2. requests' = {f(r) : r \in requests} /\ requests \subseteq Request
  BY DEF Crash, RemoteInv, RemoteTypeOK
<1>3. ASSUME NEW m \in requests'
      PROVE  /\ m \in Request
             /\ \E r \in requests :
                   /\ m.by = r.by /\ m.op = r.op /\ m.id = r.id /\ m.heard = r.heard
                   /\ m = f(r) /\ m.at = (IF r.at \in Serving THEN "cut" ELSE r.at)
  <2>1. PICK r \in requests : m = f(r)
    BY <1>2
  <2> HIDE DEF f
  <2>2. QED
    BY <1>1, <1>2, <2>1
<1>4. QED
  BY <1>3

LEMMA CrashStep ==
    ASSUME RemoteInv, Crash
    PROVE  RemoteInv'
<1>1. /\ server' = "down" /\ table' = {} /\ closing' = {} /\ status' = Abandoned("orphan")
      /\ UNCHANGED <<sid, held, made, pc, local, returned, suppressed>>
  BY DEF Crash, clientVars
<1>2. /\ status' \in [Ids -> Status]
      /\ \A j \in Ids : \/ /\ status[j] \in {"live", "ending"}
                          /\ status'[j] = "orphan"
                       \/ /\ status[j] = "expiring" /\ status'[j] = "cut"
                       \/ /\ status[j] \notin {"live", "ending", "expiring"}
                          /\ status'[j] = status[j]
  BY <1>1, Abandons DEF RemoteInv
<1>3. /\ requests' \subseteq Request
      /\ \A m \in requests' : \E r \in requests :
            /\ m.by = r.by /\ m.op = r.op /\ m.id = r.id /\ m.heard = r.heard
            /\ m = [r EXCEPT !.at = IF @ \in Serving THEN "cut" ELSE @]
            /\ m.at = (IF r.at \in Serving THEN "cut" ELSE r.at)
  BY Cut
<1>4. \A m \in requests' : m.at \notin Serving
  BY <1>3 DEF Serving
<1>5. RemoteTypeOK'
  BY <1>1, <1>2, <1>3 DEF RemoteInv, RemoteTypeOK
<1>6. Belongs'
  BY <1>1, <1>3 DEF RemoteInv, Belongs
<1>7. Served'
  BY <1>3, <1>4 DEF RemoteInv, Served, Serving
<1>8. Creates'
  <2>1. \A r, q \in requests' :
            r.op = "create" /\ q.op = "create" /\ r.by[1] = q.by[1] => r = q
    BY <1>3 DEF RemoteInv, Creates
  <2>2. \A r \in requests' : r.op = "create" => r.by[1] \in made' /\ held'[r.by[1]] = None
    BY <1>1, <1>3 DEF RemoteInv, Creates
  <2>3. \A r \in requests' : r.op = "create" /\ r.id # None =>
           /\ \A q \in requests' : q.id = r.id => q = r
           /\ \A o \in Objects : held'[o] # r.id
    BY <1>1, <1>3 DEF RemoteInv, Creates
  <2>4. QED
    BY <1>1, <2>1, <2>2, <2>3 DEF RemoteInv, Creates
<1>9. Issued'
  <2>1. \A r \in requests' : r.id \in Ids \cup {None}
    BY <1>3, Fields
  <2>2. \A o \in Objects : held[o] \in Ids \cup {None}
    BY DEF RemoteInv, RemoteTypeOK
  <2>3. QED
    BY <1>1, <1>2, <1>3, <2>1, <2>2 DEF RemoteInv, Issued
<1>10. Tracked'
  BY <1>1, <1>2 DEF RemoteInv, Tracked, ShutdownDestroysAll
<1>11. Ended'
  <2>1. \A r \in requests' : r.op = "delete" => r.id \in Ids
    BY <1>3, Fields DEF RemoteInv, Belongs
  <2>2. \A o \in Objects : held[o] \in Ids \cup {None}
    BY DEF RemoteInv, RemoteTypeOK
  <2>3. QED
    BY <1>1, <1>2, <2>1, <2>2 DEF Ended
<1>12. Flagged'
  BY <1>1, <1>2, <1>4 DEF Flagged, Serving
<1>13. QED
  BY <1>12, <1>5, <1>6, <1>7, <1>8, <1>9, <1>10, <1>11 DEF RemoteInv

LEMMA RestartStep ==
    ASSUME RemoteInv, Restart
    PROVE  RemoteInv'
<1>1. /\ server = "down" /\ server' = "up"
      /\ UNCHANGED <<sid, held, made, pc, local, returned, suppressed, requests, table, closing,
                     status>>
  BY DEF Restart, clientVars
<1>2. RemoteTypeOK' /\ Belongs' /\ Served' /\ Creates'
  BY <1>1 DEF RemoteInv, RemoteTypeOK, Belongs, Served, Creates
<1>3. Issued' /\ Tracked' /\ Ended'
  BY <1>1 DEF RemoteInv, Issued, Tracked, ShutdownDestroysAll, Ended
<1>4. Flagged'
  BY <1>1 DEF RemoteInv, Flagged
<1>5. QED
  BY <1>4, <1>2, <1>3 DEF RemoteInv

-----------------------------------------------------------------------------
(* The theorems.                                                           *)

LEMMA RemoteInvInit == Init => RemoteInv
<1> SUFFICES ASSUME Init PROVE RemoteInv
  OBVIOUS
<1>1. RemoteTypeOK /\ Belongs /\ Served
  BY OwnerOf DEF Init, RemoteTypeOK, Belongs, Served, Status
<1>2. Creates /\ Issued /\ Flagged /\ Tracked /\ Ended
  BY DEF Init, Flagged, Creates, Issued, Tracked, ShutdownDestroysAll, Ended
<1>3. QED
  BY <1>1, <1>2 DEF RemoteInv

LEMMA RemoteInvNext == RemoteInv /\ [Next]_vars => RemoteInv'
<1> SUFFICES ASSUME RemoteInv, [Next]_vars PROVE RemoteInv'
  OBVIOUS
<1>1. ASSUME NEW t \in Threads,
             Create(t) \/ Exec(t) \/ ReadId(t) \/ ClearId(t) \/ Hear(t) \/ GiveUp(t)
      PROVE  RemoteInv'
  BY <1>1, CreateStep, ExecStep, ReadIdStep, ClearIdStep, HearStep, GiveUpStep
<1>2. ASSUME NEW r \in requests, Handler(r)
      PROVE  RemoteInv'
  BY <1>2, BuildStep, RegisterStep, LookupStep, ExecuteStep, DeleteStep, PopStep DEF Handler
<1>3. ASSUME NEW i \in Ids, Lifetime(i) \/ Expire(i)
      PROVE  RemoteInv'
  BY <1>3, LifetimeStep
<1>4. CASE Drop \/ Shutdown \/ CloseNext \/ Crash \/ Restart
  BY <1>4, DropStep, ShutdownStep, CloseNextStep, CrashStep, RestartStep
<1>5. CASE UNCHANGED vars
  <2>1. UNCHANGED <<sid, held, made, pc, local, returned, suppressed, requests, server, table,
                    closing, status>>
    BY <1>5 DEF vars, clientVars, serverVars
  <2>2. RemoteTypeOK' /\ Belongs' /\ Served' /\ Creates'
    BY <2>1 DEF RemoteInv, RemoteTypeOK, Belongs, Served, Creates
  <2>3. Issued' /\ Flagged' /\ Tracked' /\ Ended'
    BY <2>1 DEF RemoteInv, Flagged, Issued, Tracked, ShutdownDestroysAll, Ended
  <2>4. QED
    BY <2>2, <2>3 DEF RemoteInv
<1>6. QED
  BY <1>1, <1>2, <1>3, <1>4, <1>5 DEF Next

\* RemoteInv is an inductive invariant of client and worker.
LEMMA RemoteInvHolds == Spec => []RemoteInv
  BY RemoteInvInit, RemoteInvNext, PTL DEF Spec

\* The worker loses track of no sandbox and a client gets no "not found" for one it
\* may use (server.py's `sandboxes` against the ids remote.py holds).
THEOREM NothingLost == Spec => []Accounted
<1>1. RemoteInv => Accounted
  <2> SUFFICES ASSUME RemoteInv PROVE Accounted
    OBVIOUS
  <2>1. ASSUME server = "up", NEW o \in Objects, sid[o] # None, status[sid[o]] = "live"
        PROVE  sid[o] \in table
    <3>1. sid[o] = held[o] /\ sid[o] \in Ids
      BY <2>1 DEF RemoteInv, RemoteTypeOK, Belongs
    <3>2. \A r \in requests : ~(r.id = sid[o] /\ r.at = "built")
      BY <2>1, <3>1 DEF RemoteInv, Served, Creates
    <3>3. QED
      BY <2>1, <3>1, <3>2 DEF RemoteInv, Tracked
  <2>2. QED
    BY <2>1 DEF RemoteInv, Tracked, Accounted
<1>2. QED
  BY <1>1, RemoteInvHolds, PTL

\* An orderly shutdown (cleanup of server.py) leaves a sandbox running only if a
\* backend refused to destroy one, or if the sandbox's own timer had set its flag, so
\* that cleanup passed over it, and was cut off with the process (status "cut", not
\* "left").
THEOREM ShutdownEndsAll == Spec => []ShutdownDestroysAll
<1>1. RemoteInv => ShutdownDestroysAll
  BY DEF RemoteInv, Tracked
<1>2. QED
  BY <1>1, RemoteInvHolds, PTL

\* A destroy of remote.py that was answered and is over leaves nothing running at
\* the worker, whatever else of the object is still on its way.
THEOREM AnsweredMeansGone == Spec => []DestroyGoneIfAnswered
<1>1. RemoteInv => DestroyGoneIfAnswered
  <2> SUFFICES ASSUME RemoteInv, NEW o \in returned \ suppressed, ~Deleting(held[o])
               PROVE  status[held[o]] \notin {"live", "ending"}
    BY DEF DestroyGoneIfAnswered
  <2>1. o \in Objects /\ held[o] # None /\ sid[o] = None
    BY DEF RemoteInv, RemoteTypeOK, Belongs
  <2>2. QED
    BY <2>1 DEF RemoteInv, RemoteTypeOK, Ended, Flagged, Deleting, Serving
<1>2. QED
  BY <1>1, RemoteInvHolds, PTL
=============================================================================

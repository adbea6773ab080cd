-------------------------- MODULE PythonSession_proof --------------------------
(***************************************************************************)
(* Theorems about a sandbox with one PythonSession, for any number of      *)
(* calls and whatever calls give up: the two sides, which share no counter *)
(* and no lock, never lose step.                                           *)
(***************************************************************************)
EXTENDS PythonSession, TLAPS

Busy == {"read", "execute", "write", "replace", "remove"}

OneServer == \A s, u \in Sessions : s = u

\* What the files and the counters say of each other.
Protocol ==
    \A s \in Sessions :
        /\ started[s] <=> spc[s] # "off"
        /\ spc[s] = "off" => index[s] = sindex[s] /\ ~polling[s]
        /\ index[s] <= calls[s]
        /\ polling[s] => index[s] < calls[s]
        /\ \A n \in Index : req[n] # None => n <= index[s] /\ n < calls[s]
        /\ \A n \in Index :
               resp[n] # None => \/ n < sindex[s]
                                 \/ n = sindex[s] /\ spc[s] = "remove"
        /\ spc[s] \in Busy => req[sindex[s]] # None
        /\ spc[s] \in Busy \ {"read"} => code[s] # None
        /\ spc[s] = "replace" => tmp[sindex[s]] # None
        /\ spc[s] = "remove" => resp[sindex[s]] # None
        /\ spc[s] # "crashed"

SessionInv == TypeOK /\ Protocol /\ InStep

-----------------------------------------------------------------------------
(* One lemma per step.                                                     *)

LEMMA StartStep ==
    ASSUME OneServer, SessionInv, NEW s \in Sessions, Start(s)
    PROVE  SessionInv'
<1>1. TypeOK'
  BY DEF SessionInv, TypeOK, Start, files, Points
<1>2. Protocol' /\ InStep'
  BY DEF OneServer, SessionInv, TypeOK, Protocol, InStep, Start, files, Busy
<1>3. QED
  BY <1>1, <1>2 DEF SessionInv

LEMMA RunStep ==
    ASSUME OneServer, SessionInv, NEW s \in Sessions, Run(s)
    PROVE  SessionInv'
<1> USE SessionAssumption DEF Index
<1>1. /\ calls[s] \in 0 .. MaxCalls /\ calls[s] + 1 \in 1 .. MaxCalls
      /\ index[s] \in 0 .. MaxCalls /\ index[s] <= calls[s]
  BY DEF SessionInv, TypeOK, Protocol, Run
<1>2. <<s, calls[s] + 1>> \in Call /\ <<s, calls[s] + 1>> # None
  BY <1>1 DEF Call
<1>3. TypeOK'
  <2>1. calls' \in [Sessions -> Index] /\ polling' \in [Sessions -> BOOLEAN]
    BY <1>1 DEF SessionInv, TypeOK, Run
  <2>2. req' \in [Index -> Content]
    BY <1>1, <1>2 DEF SessionInv, TypeOK, Run, Content
  <2>3. QED
    BY <2>1, <2>2 DEF SessionInv, TypeOK, Run, serverVars
<1>4. \A n \in Index : req'[n] # None => n <= index'[s] /\ n < calls'[s]
  BY <1>1 DEF SessionInv, TypeOK, Protocol, Run, serverVars
<1>5. Protocol'
  BY <1>1, <1>2, <1>4 DEF OneServer, SessionInv, TypeOK, Protocol, Run, serverVars, Busy
<1>6. InStep'
  BY DEF SessionInv, InStep, Run, serverVars
<1>7. QED
  BY <1>3, <1>5, <1>6 DEF SessionInv

\* A response the host can read belongs to a request the server has finished or
\* has only to tidy up.
LEMMA AnswerStep ==
    ASSUME OneServer, SessionInv, NEW s \in Sessions, Answer(s)
    PROVE  SessionInv'
<1> USE SessionAssumption DEF Index
<1>1. /\ index[s] \in 0 .. MaxCalls /\ sindex[s] \in 0 .. MaxCalls
      /\ index[s] < calls[s] /\ calls[s] \in 0 .. MaxCalls
      /\ resp[index[s]] # None /\ resp[index[s]] \in Call /\ LastCall(s) \in Call
  BY DEF SessionInv, TypeOK, Protocol, Answer, LastCall, Call, Content
<1>2. \/ sindex[s] = index[s] /\ spc[s] = "remove"
      \/ sindex[s] = index[s] + 1 /\ spc[s] = "scan"
  BY <1>1 DEF SessionInv, Protocol, InStep
<1>3. index' = [index EXCEPT ![s] = index[s] + 1] /\ index'[s] = index[s] + 1
  BY DEF Answer, SessionInv, TypeOK
<1>4. TypeOK'
  BY <1>1, <1>3 DEF SessionInv, TypeOK, Answer, files, serverVars
<1>5. InStep'
  BY <1>1, <1>2, <1>3 DEF OneServer, SessionInv, InStep, Answer, files, serverVars
<1>6. Protocol'
  BY <1>1, <1>2, <1>3 DEF OneServer, SessionInv, TypeOK, Protocol, Answer, files,
                          serverVars, Busy
<1>7. QED
  BY <1>4, <1>5, <1>6 DEF SessionInv

LEMMA GiveUpStep ==
    ASSUME SessionInv, NEW s \in Sessions, Timeout(s) \/ ReadRefused(s)
    PROVE  SessionInv'
<1>1. /\ polling' = [polling EXCEPT ![s] = FALSE]
      /\ UNCHANGED <<started, index, calls, answers, files, serverVars>>
  BY DEF Timeout, ReadRefused
<1>2. QED
  BY <1>1 DEF SessionInv, TypeOK, Protocol, InStep, files, serverVars

LEMMA ScanStep ==
    ASSUME OneServer, SessionInv, NEW s \in Sessions, Scan(s)
    PROVE  SessionInv'
<1> USE SessionAssumption DEF Index
<1>1. TypeOK'
  BY DEF SessionInv, TypeOK, Scan, Server, files, hostVars, Points
<1>2. sindex[s] <= index[s] /\ index[s] \in Nat /\ sindex[s] \in Nat
  BY DEF SessionInv, TypeOK, Protocol, Scan
<1>3. InStep'
  BY <1>2 DEF OneServer, SessionInv, TypeOK, InStep, Scan, Server, files, hostVars
<1>4. Protocol'
  BY DEF OneServer, SessionInv, TypeOK, Protocol, Scan, Server, files, hostVars, Busy
<1>5. QED
  BY <1>1, <1>3, <1>4 DEF SessionInv

\* The server steps that only move the server on.
LEMMA ReadStep ==
    ASSUME OneServer, SessionInv, NEW s \in Sessions, Read(s)
    PROVE  SessionInv'
<1> USE SessionAssumption
<1>1. req[sindex[s]] # None /\ spc[s] = "read"
  BY DEF SessionInv, Protocol, Read, Server, Busy
<1>2. TypeOK'
  BY <1>1 DEF SessionInv, TypeOK, Read, Server, files, hostVars, Points
<1>3. InStep'
  BY <1>1 DEF OneServer, SessionInv, TypeOK, InStep, Read, Server, files, hostVars
<1>4. Protocol'
  BY <1>1 DEF OneServer, SessionInv, TypeOK, Protocol, Read, Server, files, hostVars, Busy
<1>5. QED
  BY <1>2, <1>3, <1>4 DEF SessionInv

LEMMA ExecuteStep ==
    ASSUME OneServer, SessionInv, NEW s \in Sessions, Execute(s)
    PROVE  SessionInv'
<1>1. /\ code[s] \in Call /\ spc[s] = "execute" /\ Executed(s) \in Seq(Call)
      /\ executed' \in {executed, Executed(s)}
      /\ \/ spc' = [spc EXCEPT ![s] = "write"]
         \/ spc' = [spc EXCEPT ![s] = "killed"]
      /\ UNCHANGED <<sindex, code, files, hostVars>>
  BY DEF SessionInv, TypeOK, Protocol, Execute, Executed, Server, Busy, Content
<1>2. TypeOK'
  BY <1>1 DEF SessionInv, TypeOK, files, hostVars, Points
<1>3. InStep'
  BY <1>1 DEF OneServer, SessionInv, TypeOK, InStep, files, hostVars
<1>4. Protocol'
  BY <1>1 DEF OneServer, SessionInv, TypeOK, Protocol, files, hostVars, Busy
<1>5. QED
  BY <1>2, <1>3, <1>4 DEF SessionInv

LEMMA WriteStep ==
    ASSUME OneServer, SessionInv, NEW s \in Sessions, WriteResponse(s)
    PROVE  SessionInv'
<1>1. code[s] # None /\ code[s] \in Content /\ spc[s] = "write" /\ sindex[s] \in Index
  BY DEF SessionInv, TypeOK, Protocol, WriteResponse, Server, Busy
<1>2. TypeOK'
  BY <1>1 DEF SessionInv, TypeOK, WriteResponse, Server, hostVars, Points
<1>3. InStep'
  BY <1>1 DEF OneServer, SessionInv, TypeOK, InStep, WriteResponse, Server, hostVars
<1>4. Protocol'
  BY <1>1 DEF OneServer, SessionInv, TypeOK, Protocol, WriteResponse, Server, hostVars, Busy
<1>5. QED
  BY <1>2, <1>3, <1>4 DEF SessionInv

LEMMA ReplaceStep ==
    ASSUME OneServer, SessionInv, NEW s \in Sessions, ReplaceResponse(s)
    PROVE  SessionInv'
<1> USE SessionAssumption
<1>1. /\ tmp[sindex[s]] # None /\ tmp[sindex[s]] \in Content
      /\ spc[s] = "replace" /\ sindex[s] \in Index
  BY DEF SessionInv, TypeOK, Protocol, ReplaceResponse, Server
<1>2. TypeOK'
  BY <1>1 DEF SessionInv, TypeOK, ReplaceResponse, Server, hostVars, Points, Content
<1>3. InStep'
  BY <1>1 DEF OneServer, SessionInv, TypeOK, InStep, ReplaceResponse, Server, hostVars
<1>4. Protocol'
  BY <1>1 DEF OneServer, SessionInv, TypeOK, Protocol, ReplaceResponse, Server, hostVars, Busy
<1>5. QED
  BY <1>2, <1>3, <1>4 DEF SessionInv

\* The one step that moves the server's counter.
LEMMA RemoveStep ==
    ASSUME OneServer, SessionInv, NEW s \in Sessions, RemoveRequest(s)
    PROVE  SessionInv'
<1> USE SessionAssumption DEF Index
<1>1. /\ spc[s] = "remove" /\ req[sindex[s]] # None /\ resp[sindex[s]] # None
      /\ sindex[s] \in 0 .. MaxCalls /\ index[s] \in 0 .. MaxCalls
      /\ calls[s] \in 0 .. MaxCalls /\ sindex[s] < calls[s]
  BY DEF SessionInv, TypeOK, Protocol, RemoveRequest, Server, Busy
<1>2. /\ spc' = [spc EXCEPT ![s] = "scan"] /\ req' = [req EXCEPT ![sindex[s]] = None]
      /\ sindex' = [sindex EXCEPT ![s] = sindex[s] + 1]
      /\ code' = [code EXCEPT ![s] = None]
      /\ UNCHANGED <<executed, tmp, resp, hostVars>>
  BY <1>1 DEF RemoveRequest, Server
<1>3. TypeOK'
  BY <1>1, <1>2 DEF SessionInv, TypeOK, hostVars, Points, Content
<1>4. sindex[s] = index[s] \/ index[s] = sindex[s] + 1
  BY <1>1 DEF SessionInv, InStep
<1>5. InStep'
  BY <1>1, <1>2, <1>4 DEF OneServer, SessionInv, TypeOK, InStep, hostVars
<1>6. Protocol'
  BY <1>1, <1>2 DEF OneServer, SessionInv, TypeOK, Protocol, hostVars, Busy
<1>7. QED
  BY <1>3, <1>5, <1>6 DEF SessionInv

-----------------------------------------------------------------------------
(* The inductive invariant and what follows from it.                       *)

LEMMA SessionInvHolds == ASSUME OneServer PROVE Spec => []SessionInv
<1>1. Init => SessionInv
  BY SessionAssumption DEF Init, SessionInv, TypeOK, Protocol, InStep, Index, Call,
                           Content, Points, Busy
<1>2. SessionInv /\ [Next]_vars => SessionInv'
  <2>1. CASE SessionInv /\ Next
    <3>1. PICK s \in Sessions : HostStep(s) \/ ServerStep(s)
      BY <2>1 DEF Next
    <3>2. QED
      BY <2>1, <3>1, StartStep, RunStep, AnswerStep, GiveUpStep, ScanStep, ReadStep,
         ExecuteStep, WriteStep, ReplaceStep, RemoveStep DEF HostStep, ServerStep
  <2>2. CASE SessionInv /\ UNCHANGED vars
    BY <2>2 DEF vars, SessionInv, TypeOK, Protocol, InStep
  <2>3. QED
    BY <2>1, <2>2
<1>3. QED
  BY <1>1, <1>2, PTL DEF Spec

\* The variables of a one-session sandbox keep their types; in particular the
\* snippets that run are snippets that were submitted.
THEOREM SessionTypeCorrect == ASSUME OneServer PROVE Spec => []TypeOK
<1>1. SessionInv => TypeOK
  BY DEF SessionInv
<1>2. QED
  BY <1>1, SessionInvHolds, PTL

\* The counters stay in step for any number of calls, timeouts and refused reads.
THEOREM CountersInStep == ASSUME OneServer PROVE Spec => []InStep
<1>1. SessionInv => InStep
  BY DEF SessionInv
<1>2. QED
  BY <1>1, SessionInvHolds, PTL

\* The server of a one-session sandbox never dies of a missing file.
THEOREM ServerSurvives == ASSUME OneServer PROVE Spec => []NeverCrashes
<1>1. SessionInv => NeverCrashes
  BY DEF SessionInv, Protocol, NeverCrashes
<1>2. QED
  BY <1>1, SessionInvHolds, PTL
-----------------------------------------------------------------------------
(* The order of execution.  A request the server has still to read is younger *)
(* than everything it has run, also when it replaced a request under the same  *)
(* number or was written while the server was tidying up.                      *)

Fresh ==
    \A s \in Sessions :
        /\ \A i \in 1 .. Len(executed) : executed[i][2] <= calls[s]
        /\ \A n \in Index : req[n] # None => req[n][2] <= calls[s]
        /\ code[s] # None => code[s][2] <= calls[s]
        /\ \A n \in Index :
               /\ req[n] # None
               /\ \/ n > sindex[s]
                  \/ n = sindex[s] /\ spc[s] \in {"off", "scan", "read"}
               => \A i \in 1 .. Len(executed) : executed[i][2] < req[n][2]
        /\ spc[s] = "execute" => \A i \in 1 .. Len(executed) : executed[i][2] < code[s][2]

OrderInv == SessionInv /\ Fresh /\ InOrder

LEMMA OrderRunStep ==
    ASSUME OneServer, OrderInv, NEW s \in Sessions, Run(s)
    PROVE  Fresh'
<1>1. /\ calls[s] \in Nat /\ index[s] \in Index
      /\ calls' = [calls EXCEPT ![s] = @ + 1]
      /\ req' = [req EXCEPT ![index[s]] = <<s, calls[s] + 1>>]
      /\ UNCHANGED <<sindex, spc, code, executed>>
  BY DEF OrderInv, SessionInv, TypeOK, Index, Run, serverVars
<1>2. \A i \in 1 .. Len(executed) : executed[i] \in Call /\ executed[i][2] <= calls[s]
  BY DEF OrderInv, SessionInv, TypeOK, Fresh
<1>3. \A i \in 1 .. Len(executed) : executed[i][2] \in Nat
  BY <1>2 DEF Call
<1>4. \A n \in Index : req[n] # None => req[n][2] \in Nat
  BY DEF OrderInv, SessionInv, TypeOK, Content, Call
<1>5. calls'[s] = calls[s] + 1
  BY <1>1 DEF OrderInv, SessionInv, TypeOK
<1>6. \A n \in Index : req'[n] = IF n = index[s] THEN <<s, calls[s] + 1>> ELSE req[n]
  BY <1>1 DEF OrderInv, SessionInv, TypeOK
<1>7. ASSUME NEW u \in Sessions PROVE u = s
  BY DEF OneServer
<1>8. \A i \in 1 .. Len(executed) : executed[i][2] <= calls'[s] /\ executed[i][2] < calls[s] + 1
  BY <1>1, <1>2, <1>3, <1>5
<1>9. \A n \in Index : req'[n] # None => req'[n][2] <= calls'[s]
  BY <1>1, <1>4, <1>5, <1>6 DEF OrderInv, Fresh
<1>10. code'[s] # None => code'[s][2] <= calls'[s]
  <2>1. code[s] # None => code[s][2] \in Nat
    BY DEF OrderInv, SessionInv, TypeOK, Content, Call
  <2> QED BY <1>1, <1>5, <2>1 DEF OrderInv, Fresh
<1>11. \A n \in Index :
          /\ req'[n] # None
          /\ n > sindex'[s] \/ (n = sindex'[s] /\ spc'[s] \in {"off", "scan", "read"})
          => \A i \in 1 .. Len(executed') : executed'[i][2] < req'[n][2]
  BY <1>1, <1>6, <1>8 DEF OrderInv, Fresh
<1> QED BY <1>1, <1>7, <1>8, <1>9, <1>10, <1>11 DEF OrderInv, Fresh

\* What the server has read is younger than what it has run.
LEMMA OrderReadStep ==
    ASSUME OneServer, OrderInv, NEW s \in Sessions, Read(s)
    PROVE  Fresh'
<1>1. /\ req[sindex[s]] # None /\ spc[s] = "read" /\ sindex[s] \in Index
      /\ code' = [code EXCEPT ![s] = req[sindex[s]]] /\ code'[s] = req[sindex[s]]
      /\ spc' = [spc EXCEPT ![s] = "execute"]
      /\ UNCHANGED <<calls, req, sindex, executed>>
  BY DEF OrderInv, SessionInv, TypeOK, Protocol, Read, Server, Busy, files, hostVars
<1>2. \A i \in 1 .. Len(executed) : executed[i][2] < code'[s][2]
  BY <1>1 DEF OrderInv, Fresh
<1>3. spc'[s] = "execute" /\ \A u \in Sessions : u = s
  BY <1>1 DEF OneServer, OrderInv, SessionInv, TypeOK
<1> QED BY <1>1, <1>2, <1>3 DEF OrderInv, Fresh

LEMMA OrderExecuteStep ==
    ASSUME OneServer, OrderInv, NEW s \in Sessions, Execute(s)
    PROVE  Fresh' /\ InOrder'
<1>1. /\ spc[s] = "execute" /\ code[s] \in Call
      /\ \/ spc' = [spc EXCEPT ![s] = "write"]
         \/ spc' = [spc EXCEPT ![s] = "killed"]
      /\ executed' \in {executed, Append(executed, code[s])}
      /\ UNCHANGED <<calls, index, req, sindex, code>>
  BY DEF OrderInv, SessionInv, TypeOK, Protocol, Execute, Executed, Server, Busy, Content, files, hostVars
<1>2. /\ executed \in Seq(Call) /\ Len(executed) \in Nat
      /\ \A i \in 1 .. Len(executed) : executed'[i] = executed[i] /\ executed[i] \in Call
      /\ \/ Len(executed') = Len(executed)
         \/ /\ Len(executed') = Len(executed) + 1
            /\ executed'[Len(executed) + 1] = code[s]
  BY <1>1 DEF OrderInv, SessionInv, TypeOK
<1>3. \A i \in 1 .. Len(executed) : executed[i][2] < code[s][2]
  BY <1>1 DEF OrderInv, Fresh
<1>4. \A i, j \in 1 .. Len(executed') :
          i < j /\ executed'[i][1] = executed'[j][1] => executed'[i][2] < executed'[j][2]
  <2> SUFFICES ASSUME NEW i \in 1 .. Len(executed'), NEW j \in 1 .. Len(executed'),
                      i < j, executed'[i][1] = executed'[j][1]
               PROVE  executed'[i][2] < executed'[j][2]
    OBVIOUS
  <2>1. i \in 1 .. Len(executed) /\ executed'[i] = executed[i]
    BY <1>2
  <2>2. CASE j = Len(executed) + 1
    BY <1>2, <1>3, <2>1, <2>2
  <2>3. CASE j # Len(executed) + 1
    <3>1. j \in 1 .. Len(executed) /\ executed'[j] = executed[j]
      BY <1>2, <2>3
    <3> QED BY <2>1, <3>1 DEF OrderInv, InOrder
  <2> QED BY <2>2, <2>3
<1>5. code[s][2] <= calls[s] /\ calls[s] \in Nat
  BY <1>1, SessionAssumption DEF OrderInv, Fresh, SessionInv, TypeOK, Protocol, Busy, Index
<1>6. \A i \in 1 .. Len(executed') : executed'[i][2] <= calls'[s]
  BY <1>1, <1>2, <1>5 DEF OrderInv, Fresh
<1>7. \A n \in Index : ~(req'[n] # None /\ n > sindex'[s])
  \* The host is not ahead while the server executes.
  <2>1. sindex[s] = index[s] /\ sindex'[s] = sindex[s] /\ req' = req
    BY <1>1 DEF OrderInv, SessionInv, InStep
  <2>2. index[s] \in Nat /\ \A n \in Index : n \in Nat /\ (req[n] # None => n <= index[s])
    BY SessionAssumption DEF OrderInv, SessionInv, TypeOK, Protocol, Index
  <2> QED BY <2>1, <2>2
<1>8. spc'[s] \in {"write", "killed"} /\ \A u \in Sessions : u = s
  BY <1>1 DEF OneServer, OrderInv, SessionInv, TypeOK
<1> QED BY <1>1, <1>4, <1>6, <1>7, <1>8 DEF OrderInv, Fresh, InOrder

\* The counter goes on to a number under which there is no request, or one written
\* while the server was tidying up.
LEMMA OrderRemoveStep ==
    ASSUME OneServer, OrderInv, NEW s \in Sessions, RemoveRequest(s)
    PROVE  Fresh'
<1>1. /\ spc[s] = "remove" /\ sindex[s] \in Index
      /\ spc' = [spc EXCEPT ![s] = "scan"] /\ req' = [req EXCEPT ![sindex[s]] = None]
      /\ sindex' = [sindex EXCEPT ![s] = sindex[s] + 1]
      /\ code' = [code EXCEPT ![s] = None]
      /\ UNCHANGED <<executed, calls>>
  BY DEF OrderInv, SessionInv, TypeOK, Protocol, RemoveRequest, Server, Busy, hostVars
<1>2. /\ sindex'[s] = sindex[s] + 1 /\ spc'[s] = "scan" /\ sindex[s] \in Nat /\ code'[s] = None
      /\ \A n \in Index : n \in Nat /\ (req'[n] # None => req'[n] = req[n])
  BY <1>1 DEF OrderInv, SessionInv, TypeOK, Index
<1>3. \A n \in Index : n >= sindex'[s] => n > sindex[s]
  BY <1>2
<1>4. \A u \in Sessions : u = s
  BY DEF OneServer
<1> QED BY <1>1, <1>2, <1>3, <1>4 DEF OrderInv, Fresh

LEMMA OrderOtherStep ==
    ASSUME OneServer, OrderInv, NEW s \in Sessions,
           \/ Start(s) \/ Answer(s) \/ Timeout(s) \/ ReadRefused(s)
           \/ Scan(s) \/ WriteResponse(s) \/ ReplaceResponse(s)
    PROVE  Fresh'
<1>1. UNCHANGED <<calls, req, sindex, code, executed>>
  BY DEF Start, Answer, Timeout, ReadRefused, Scan, WriteResponse, ReplaceResponse,
         files, hostVars, serverVars
<1>2. /\ spc'[s] \in {"off", "scan", "read"} => spc[s] \in {"off", "scan", "read"}
      /\ spc'[s] = "execute" => spc[s] = "execute"
  <2>1. CASE Start(s)
    BY <2>1 DEF OrderInv, SessionInv, TypeOK, Protocol, Start
  <2>2. CASE Answer(s) \/ Timeout(s) \/ ReadRefused(s)
    BY <2>2 DEF Answer, Timeout, ReadRefused, serverVars
  <2>3. CASE Scan(s) \/ WriteResponse(s) \/ ReplaceResponse(s)
    BY <2>3 DEF OrderInv, SessionInv, TypeOK, Scan, WriteResponse, ReplaceResponse, Server
  <2> QED BY <2>1, <2>2, <2>3
<1>3. \A u \in Sessions : u = s
  BY DEF OneServer
<1> QED BY <1>1, <1>2, <1>3 DEF OrderInv, Fresh

LEMMA OrderInvHolds == ASSUME OneServer PROVE Spec => []OrderInv
<1>1. Init => Fresh /\ InOrder
  BY SessionAssumption DEF Init, Fresh, InOrder
<1>2. OrderInv /\ [Next]_vars => Fresh' /\ InOrder'
  <2>1. CASE OrderInv /\ Next
    <3>1. PICK s \in Sessions : HostStep(s) \/ ServerStep(s)
      BY <2>1 DEF Next
    <3>2. CASE Execute(s)
      BY <2>1, <3>2, OrderExecuteStep
    <3>3. CASE HostStep(s) \/ (ServerStep(s) /\ ~Execute(s))
      <4>1. executed' = executed
        BY <3>3 DEF HostStep, ServerStep, Start, Run, Answer, Timeout, ReadRefused, Scan,
              Read, WriteResponse, ReplaceResponse, RemoveRequest, serverVars
      <4>2. InOrder'
        BY <2>1, <4>1 DEF OrderInv, InOrder
      <4> QED BY <2>1, <3>3, <4>2, OrderRunStep, OrderReadStep, OrderRemoveStep,
                 OrderOtherStep DEF HostStep, ServerStep
    <3> QED BY <3>1, <3>2, <3>3
  <2>2. CASE OrderInv /\ UNCHANGED vars
    BY <2>2 DEF vars, OrderInv, Fresh, InOrder
  <2> QED BY <2>1, <2>2
<1>3. OrderInv <=> SessionInv /\ Fresh /\ InOrder
  BY DEF OrderInv
<1>4. OrderInv' <=> SessionInv' /\ Fresh' /\ InOrder'
  BY DEF OrderInv
<1> QED BY <1>1, <1>2, <1>3, <1>4, SessionInvHolds, PTL DEF Spec

-----------------------------------------------------------------------------
(* The pairing of calls and answers.  While every call has been answered, the  *)
(* number of a file says whose it is, on both sides; a call that gives up or   *)
(* cannot read its answer ends this for the rest of the session.               *)

Returned(s) == IF polling[s] THEN calls[s] - 1 ELSE calls[s]

Perfect(s) == \A k \in 1 .. Returned(s) : \E b \in answers : b[1] = <<s, k>>

Matching ==
    \A s \in Sessions :
        /\ \A b \in answers : b[1][2] <= Returned(s)
        /\ Perfect(s) =>
              /\ index[s] = Returned(s)
              /\ \A n \in Index : /\ req[n] # None => req[n] = <<s, n + 1>>
                                  /\ tmp[n] # None => tmp[n] = <<s, n + 1>>
                                  /\ resp[n] # None => resp[n] = <<s, n + 1>>
              /\ code[s] # None => code[s] = <<s, sindex[s] + 1>>

MatchInv == SessionInv /\ Matching /\ MatchUntilFailure

\* The next call leaves what has returned as it was.
LEMMA MatchRunStep ==
    ASSUME OneServer, MatchInv, NEW s \in Sessions, Run(s)
    PROVE  Matching' /\ MatchUntilFailure'
<1>1. /\ calls[s] \in Nat /\ index[s] \in Index /\ ~polling[s]
      /\ calls'[s] = calls[s] + 1 /\ polling'[s] = TRUE
      /\ \A n \in Index : req'[n] = IF n = index[s] THEN <<s, calls[s] + 1>> ELSE req[n]
      /\ UNCHANGED <<index, sindex, code, tmp, resp, answers>>
  BY DEF MatchInv, SessionInv, TypeOK, Index, Run, serverVars
<1>2. Returned(s)' = Returned(s) /\ Returned(s) = calls[s]
  BY <1>1 DEF Returned
<1>3. Perfect(s)' <=> Perfect(s)
  BY <1>1, <1>2 DEF Perfect
<1>4. \A u \in Sessions : u = s
  BY DEF OneServer
<1>5. Matching'
  BY <1>1, <1>2, <1>3, <1>4 DEF MatchInv, Matching
<1>6. MatchUntilFailure'
  BY <1>1 DEF MatchInv, MatchUntilFailure
<1> QED BY <1>5, <1>6

\* The answer read is the one written under the index; if all before it were
\* answered that is the answer of this call, and if not nothing is claimed of it.
LEMMA MatchAnswerStep ==
    ASSUME OneServer, MatchInv, NEW s \in Sessions, Answer(s)
    PROVE  Matching' /\ MatchUntilFailure'
<1>1. /\ calls[s] \in Nat /\ index[s] \in Index /\ index[s] \in Nat /\ polling[s]
      /\ polling'[s] = FALSE /\ index'[s] = index[s] + 1
      /\ resp[index[s]] # None /\ resp[index[s]] \in Call /\ LastCall(s) = <<s, calls[s]>>
      /\ answers' = answers \cup {<<LastCall(s), resp[index[s]]>>}
      /\ UNCHANGED <<calls, req, tmp, resp, sindex, spc, code>>
  BY DEF MatchInv, SessionInv, TypeOK, Index, Answer, LastCall, Content, files, serverVars
<1>2. Returned(s) = calls[s] - 1 /\ Returned(s)' = calls[s]
  BY <1>1 DEF Returned
<1>3. \A u \in Sessions : u = s
  BY DEF OneServer
<1>4. \A b \in answers : /\ b \in Call \X Call /\ b[1] \in Call /\ b[1][1] = s
                         /\ b[1][2] \in Nat /\ b[1][2] <= calls[s] - 1
  BY <1>2, <1>3 DEF MatchInv, SessionInv, TypeOK, Matching, Call
<1>5. Perfect(s)' => Perfect(s)
  <2> SUFFICES ASSUME Perfect(s)', NEW k \in 1 .. calls[s] - 1
               PROVE  \E b \in answers : b[1] = <<s, k>>
    BY <1>2 DEF Perfect
  <2>1. k \in 1 .. calls[s] /\ k # calls[s]
    BY <1>1
  <2>2. PICK b \in answers' : b[1] = <<s, k>>
    BY <1>2, <2>1 DEF Perfect
  <2>3. b # <<LastCall(s), resp[index[s]]>>
    BY <1>1, <2>1, <2>2
  <2> QED BY <1>1, <2>2, <2>3
<1>6. Matching'
  <2>1. \A b \in answers' : b[1][2] <= Returned(s)'
    BY <1>1, <1>2, <1>4
  <2>2. Perfect(s)' => index'[s] = Returned(s)'
    BY <1>1, <1>2, <1>5 DEF MatchInv, Matching
  <2> QED BY <1>1, <1>3, <1>5, <2>1, <2>2 DEF MatchInv, Matching
<1>7. MatchUntilFailure'
  <2> SUFFICES ASSUME NEW a \in answers',
                      \A k \in 1 .. a[1][2] - 1 : \E b \in answers' : b[1] = <<a[1][1], k>>
               PROVE  a[1] = a[2]
    BY DEF MatchUntilFailure
  <2>1. CASE a \in answers
    <3>1. ASSUME NEW k \in 1 .. a[1][2] - 1
          PROVE  \E b \in answers : b[1] = <<a[1][1], k>>
      <4>1. PICK b \in answers' : b[1] = <<a[1][1], k>>
        OBVIOUS
      <4>2. k # calls[s]
        BY <1>1, <1>4, <2>1
      <4>3. b # <<LastCall(s), resp[index[s]]>>
        BY <1>1, <4>1, <4>2
      <4> QED BY <1>1, <4>1, <4>3
    <3> QED BY <2>1, <3>1 DEF MatchInv, MatchUntilFailure
  <2>2. CASE a = <<LastCall(s), resp[index[s]]>>
    <3>1. a[1] = <<s, calls[s]>> /\ a[2] = resp[index[s]]
      BY <1>1, <2>2
    <3>2. Perfect(s)
      <4> SUFFICES ASSUME NEW k \in 1 .. calls[s] - 1
                   PROVE  \E b \in answers : b[1] = <<s, k>>
        BY <1>2 DEF Perfect
      <4>1. k # calls[s]
        BY <1>1
      <4>2. PICK b \in answers' : b[1] = <<s, k>>
        BY <3>1
      <4>3. b # <<LastCall(s), resp[index[s]]>>
        BY <1>1, <4>1, <4>2
      <4> QED BY <1>1, <4>2, <4>3
    <3>3. resp[index[s]] = <<s, index[s] + 1>> /\ index[s] = calls[s] - 1
      BY <1>1, <1>2, <3>2 DEF MatchInv, Matching
    <3> QED BY <1>1, <3>1, <3>3
  <2> QED BY <1>1, <2>1, <2>2
<1> QED BY <1>6, <1>7

\* A call that does not return its answer is one there is no answer for.
LEMMA MatchGiveUpStep ==
    ASSUME OneServer, MatchInv, NEW s \in Sessions, Timeout(s) \/ ReadRefused(s)
    PROVE  Matching' /\ MatchUntilFailure'
<1>1. /\ calls[s] \in Nat /\ polling[s] /\ polling'[s] = FALSE /\ index[s] < calls[s]
      /\ index[s] \in Nat /\ UNCHANGED <<calls, answers>>
  BY DEF MatchInv, SessionInv, TypeOK, Index, Protocol, Timeout, ReadRefused
<1>2. Returned(s) = calls[s] - 1 /\ Returned(s)' = calls[s]
  BY <1>1 DEF Returned
<1>3. \A b \in answers : /\ b[1] \in Call /\ b[1][2] \in Nat /\ b[1][2] <= calls[s] - 1
  BY <1>2 DEF MatchInv, SessionInv, TypeOK, Matching, Call
<1>4. ~Perfect(s)'
  <2>1. calls[s] \in 1 .. Returned(s)'
    BY <1>1, <1>2
  <2>2. \A b \in answers : b[1] # <<s, calls[s]>>
    BY <1>1, <1>3
  <2> QED BY <1>1, <2>1, <2>2 DEF Perfect
<1>5. \A u \in Sessions : u = s
  BY DEF OneServer
<1>6. \A b \in answers' : b[1][2] <= Returned(s)'
  BY <1>1, <1>2, <1>3
<1> QED BY <1>1, <1>4, <1>5, <1>6 DEF MatchInv, Matching, MatchUntilFailure

\* The server hands on, under the number it read, what it read.
LEMMA MatchServerStep ==
    ASSUME OneServer, MatchInv, NEW s \in Sessions, Start(s) \/ ServerStep(s)
    PROVE  Matching' /\ MatchUntilFailure'
<1>1. UNCHANGED <<calls, polling, index, answers>>
  BY DEF Start, ServerStep, Scan, Read, Execute, WriteResponse, ReplaceResponse,
         RemoveRequest, hostVars
<1>2. Returned(s)' = Returned(s)
  BY <1>1 DEF Returned
<1>3. Perfect(s)' <=> Perfect(s)
  BY <1>1, <1>2 DEF Perfect
<1>4. \A u \in Sessions : u = s
  BY DEF OneServer
<1>5. MatchUntilFailure'
  BY <1>1 DEF MatchInv, MatchUntilFailure
<1>6. ASSUME Perfect(s)
      PROVE  /\ \A n \in Index : /\ req'[n] # None => req'[n] = <<s, n + 1>>
                                 /\ tmp'[n] # None => tmp'[n] = <<s, n + 1>>
                                 /\ resp'[n] # None => resp'[n] = <<s, n + 1>>
             /\ code'[s] # None => code'[s] = <<s, sindex'[s] + 1>>
  <2>1. /\ \A n \in Index : /\ req[n] # None => req[n] = <<s, n + 1>>
                            /\ tmp[n] # None => tmp[n] = <<s, n + 1>>
                            /\ resp[n] # None => resp[n] = <<s, n + 1>>
        /\ code[s] # None => code[s] = <<s, sindex[s] + 1>>
        /\ sindex[s] \in Index
    BY <1>6 DEF MatchInv, Matching, SessionInv, TypeOK
  <2>2. CASE Start(s) \/ Scan(s) \/ Execute(s)
    BY <2>1, <2>2 DEF Start, Scan, Execute, files
  <2>3. CASE Read(s)
    BY <2>1, <2>3 DEF Read, files, MatchInv, SessionInv, TypeOK
  <2>4. CASE WriteResponse(s)
    BY <2>1, <2>4 DEF WriteResponse, MatchInv, SessionInv, TypeOK
  <2>5. CASE ReplaceResponse(s)
    BY <2>1, <2>5 DEF ReplaceResponse, MatchInv, SessionInv, TypeOK
  <2>6. CASE RemoveRequest(s)
    BY <2>1, <2>6 DEF RemoveRequest, MatchInv, SessionInv, TypeOK
  <2> QED BY <2>2, <2>3, <2>4, <2>5, <2>6 DEF ServerStep
<1> QED BY <1>1, <1>2, <1>3, <1>4, <1>5, <1>6 DEF MatchInv, Matching

LEMMA MatchInvHolds == ASSUME OneServer PROVE Spec => []MatchInv
<1>1. Init => Matching /\ MatchUntilFailure
  BY DEF Init, Matching, MatchUntilFailure, Returned
<1>2. MatchInv /\ [Next]_vars => Matching' /\ MatchUntilFailure'
  <2>1. CASE MatchInv /\ Next
    BY <2>1, MatchRunStep, MatchAnswerStep, MatchGiveUpStep, MatchServerStep
    DEF Next, HostStep
  <2>2. CASE MatchInv /\ UNCHANGED vars
    BY <2>2 DEF vars, MatchInv, Matching, MatchUntilFailure, Returned, Perfect
  <2> QED BY <2>1, <2>2
<1>3. MatchInv <=> SessionInv /\ Matching /\ MatchUntilFailure
  BY DEF MatchInv
<1>4. MatchInv' <=> SessionInv' /\ Matching' /\ MatchUntilFailure'
  BY DEF MatchInv
<1> QED BY <1>1, <1>2, <1>3, <1>4, SessionInvHolds, PTL DEF Spec

-----------------------------------------------------------------------------
\* The snippets of a session run at most once and in the order of the calls,
\* whatever calls give up and whichever requests are replaced before they are read.
THEOREM ExecutesInOrder == ASSUME OneServer PROVE Spec => []InOrder
<1>1. OrderInv => InOrder
  BY DEF OrderInv
<1> QED BY <1>1, OrderInvHolds, PTL

\* As long as every call has been answered, run returns the output of the code it
\* was given, for any number of calls.
THEOREM AnswersMatchUntilFailure == ASSUME OneServer PROVE Spec => []MatchUntilFailure
<1>1. MatchInv => MatchUntilFailure
  BY DEF MatchInv
<1> QED BY <1>1, MatchInvHolds, PTL
=============================================================================

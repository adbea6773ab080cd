---------------------------- MODULE PythonSession ----------------------------
(***************************************************************************)
(* agentnest/session.py on the host and agentnest/_repl_server.py in the   *)
(* container, which talk through the files req-<n>.py and resp-<n>.json of *)
(* one workspace directory.  A snippet is the call it belongs to, and a    *)
(* response is the call whose snippet produced it, so that a response can  *)
(* be told from the one its reader asked for.                              *)
(***************************************************************************)
EXTENDS Naturals, Sequences

CONSTANTS
    Sessions,   \* PythonSession objects over one sandbox
    MaxCalls,   \* bound: calls of run per session
    Hazards,    \* "timeout": run may give up; "oversize": read_file may refuse;
                \* "fatal": a snippet may be the last the interpreter serves
    None        \* no file, or no snippet

ASSUME SessionAssumption ==
    /\ MaxCalls \in Nat
    /\ Hazards \subseteq {"timeout", "oversize", "fatal"}
    /\ None \notin Sessions \X (1 .. MaxCalls)

VARIABLES
    started,   \* _started
    index,     \* _index, the host's request counter
    calls,     \* calls of run made so far
    polling,   \* the session is inside run, between its write and its return
    req,       \* req-<n>.py
    tmp,       \* resp-<n>.tmp
    resp,      \* resp-<n>.json
    sindex,    \* `index` in serve: the counter of the session's server process
    spc,       \* where the server process is in serve
    code,      \* its local variable `code`, then the response made from it
    executed,  \* history: the calls whose snippets were run, in order
    answers    \* history: pairs of a call and the response run returned for it

vars == <<started, index, calls, polling, req, tmp, resp, sindex, spc, code,
          executed, answers>>
files == <<req, tmp, resp>>
hostVars   == <<started, index, calls, polling, answers>>
serverVars == <<sindex, spc, code, executed>>

Index   == 0 .. MaxCalls
Call    == Sessions \X (1 .. MaxCalls)
Content == Call \cup {None}
Points  == {"off", "scan", "read", "execute", "write", "replace", "remove", "crashed",
            "killed"}

TypeOK ==
    /\ started \in [Sessions -> BOOLEAN]
    /\ index \in [Sessions -> Index]
    /\ calls \in [Sessions -> Index]
    /\ polling \in [Sessions -> BOOLEAN]
    /\ req \in [Index -> Content]
    /\ tmp \in [Index -> Content]
    /\ resp \in [Index -> Content]
    /\ sindex \in [Sessions -> Index]
    /\ spc \in [Sessions -> Points]
    /\ code \in [Sessions -> Content]
    /\ executed \in Seq(Call)
    /\ answers \subseteq Call \X Call

Init ==
    /\ started = [s \in Sessions |-> FALSE]
    /\ index = [s \in Sessions |-> 0]
    /\ calls = [s \in Sessions |-> 0]
    /\ polling = [s \in Sessions |-> FALSE]
    /\ req = [n \in Index |-> None]
    /\ tmp = [n \in Index |-> None]
    /\ resp = [n \in Index |-> None]
    /\ sindex = [s \in Sessions |-> 0]
    /\ spc = [s \in Sessions |-> "off"]
    /\ code = [s \in Sessions |-> None]
    /\ executed = <<>>
    /\ answers = {}

-----------------------------------------------------------------------------
(* The host: start and run.                                                *)

\* server.py is written and the interpreter put in the background.  An exec_shell
\* that launched the interpreter and raised nevertheless, after which the next run
\* would launch a second one over the same files, is left out.
Start(s) ==
    /\ ~started[s]
    /\ started' = [started EXCEPT ![s] = TRUE]
    /\ spc' = [spc EXCEPT ![s] = "scan"]
    /\ UNCHANGED <<index, calls, polling, answers, files, sindex, code, executed>>

LastCall(s) == <<s, calls[s]>>

\* run: the request file is written, atomically, under the current index,
\* whatever file of that name there is.
Run(s) ==
    /\ started[s] /\ ~polling[s]
    /\ calls[s] < MaxCalls
    /\ calls' = [calls EXCEPT ![s] = @ + 1]
    /\ req' = [req EXCEPT ![index[s]] = <<s, calls[s] + 1>>]
    /\ polling' = [polling EXCEPT ![s] = TRUE]
    /\ UNCHANGED <<started, index, answers, tmp, resp, serverVars>>

\* Mutant: the index is not advanced when an answer has been read.
AnswerSameIndex(s) ==
    /\ polling[s] /\ resp[index[s]] # None
    /\ answers' = answers \cup {<<LastCall(s), resp[index[s]]>>}
    /\ polling' = [polling EXCEPT ![s] = FALSE]
    /\ UNCHANGED <<started, index, calls, files, serverVars>>

\* Mutant: the host tidies the request away when it has its answer.
AnswerRemovingRequest(s) ==
    /\ polling[s] /\ resp[index[s]] # None
    /\ answers' = answers \cup {<<LastCall(s), resp[index[s]]>>}
    /\ index' = [index EXCEPT ![s] = @ + 1]
    /\ polling' = [polling EXCEPT ![s] = FALSE]
    /\ req' = [req EXCEPT ![index[s]] = None]
    /\ UNCHANGED <<started, calls, tmp, resp, serverVars>>

\* A response file is there: it is returned and the index advances.
Answer(s) ==
    /\ polling[s] /\ resp[index[s]] # None
    /\ answers' = answers \cup {<<LastCall(s), resp[index[s]]>>}
    /\ index' = [index EXCEPT ![s] = @ + 1]
    /\ polling' = [polling EXCEPT ![s] = FALSE]
    /\ UNCHANGED <<started, calls, files, serverVars>>

\* Mutant: giving up advances the index.
TimeoutAdvancing(s) ==
    /\ "timeout" \in Hazards /\ polling[s]
    /\ index' = [index EXCEPT ![s] = @ + 1]
    /\ polling' = [polling EXCEPT ![s] = FALSE]
    /\ UNCHANGED <<started, calls, answers, files, serverVars>>

\* The deadline passes: ExecutionTimeoutError.  The request stays where it is,
\* and so does the index.
Timeout(s) ==
    /\ "timeout" \in Hazards /\ polling[s]
    /\ polling' = [polling EXCEPT ![s] = FALSE]
    /\ UNCHANGED <<started, index, calls, answers, files, serverVars>>

\* read_file raises ValueError on a response beyond the policy's read limit;
\* run catches FileAccessError only, so the index stays.
ReadRefused(s) ==
    /\ "oversize" \in Hazards /\ polling[s] /\ resp[index[s]] # None
    /\ polling' = [polling EXCEPT ![s] = FALSE]
    /\ UNCHANGED <<started, index, calls, answers, files, serverVars>>

-----------------------------------------------------------------------------
(* The server: one iteration of the loop of serve.  An exception of open,  *)
(* os.replace or os.remove, when the file is not there, ends the process.  *)

Server(s, from, to) == spc[s] = from /\ spc' = [spc EXCEPT ![s] = to]

\* Mutant: the snippet is run before its file has been read.
ScanSkippingRead(s) ==
    /\ req[sindex[s]] # None
    /\ Server(s, "scan", "execute")
    /\ UNCHANGED <<sindex, code, executed, files, hostVars>>

Scan(s) ==
    /\ req[sindex[s]] # None
    /\ Server(s, "scan", "read")
    /\ UNCHANGED <<sindex, code, executed, files, hostVars>>

Read(s) ==
    /\ Server(s, "read", IF req[sindex[s]] # None THEN "execute" ELSE "crashed")
    /\ code' = [code EXCEPT ![s] = req[sindex[s]]]
    /\ UNCHANGED <<sindex, executed, files, hostVars>>

Executed(s) == Append(executed, code[s])

\* execute returns a response whatever the snippet raises.  ast.parse, which comes
\* first, is guarded against SyntaxError only: RecursionError, MemoryError or
\* ValueError end the interpreter and the snippet is not run.  A snippet that is
\* run may leave the interpreter by os._exit, or never come back.
Execute(s) ==
    /\ \/ Server(s, "execute", "write") /\ executed' = Executed(s)
       \/ /\ "fatal" \in Hazards
          /\ Server(s, "execute", "killed")
          /\ executed' \in {executed, Executed(s)}
    /\ UNCHANGED <<sindex, code, files, hostVars>>

WriteResponse(s) ==
    /\ Server(s, "write", "replace")
    /\ tmp' = [tmp EXCEPT ![sindex[s]] = code[s]]
    /\ UNCHANGED <<sindex, code, executed, req, resp, hostVars>>

ReplaceResponse(s) ==
    /\ IF tmp[sindex[s]] # None
       THEN /\ Server(s, "replace", "remove")
            /\ resp' = [resp EXCEPT ![sindex[s]] = tmp[sindex[s]]]
            /\ tmp' = [tmp EXCEPT ![sindex[s]] = None]
       ELSE Server(s, "replace", "crashed") /\ UNCHANGED <<resp, tmp>>
    /\ UNCHANGED <<sindex, code, executed, req, hostVars>>

\* Mutant: the request file is left in place and served again.
RemoveForgotten(s) ==
    /\ Server(s, "remove", "scan")
    /\ UNCHANGED <<sindex, code, executed, files, hostVars>>

\* Whatever request file has that name by now is removed.
RemoveRequest(s) ==
    /\ IF req[sindex[s]] # None
       THEN /\ Server(s, "remove", "scan")
            /\ req' = [req EXCEPT ![sindex[s]] = None]
            /\ sindex' = [sindex EXCEPT ![s] = @ + 1]
            /\ code' = [code EXCEPT ![s] = None]
       ELSE Server(s, "remove", "crashed") /\ UNCHANGED <<req, sindex, code>>
    /\ UNCHANGED <<executed, tmp, resp, hostVars>>

-----------------------------------------------------------------------------
(* Specification.                                                          *)

ServerStep(s) == \/ Scan(s) \/ Read(s) \/ Execute(s) \/ WriteResponse(s)
                 \/ ReplaceResponse(s) \/ RemoveRequest(s)

HostStep(s) == \/ Start(s) \/ Run(s) \/ Answer(s) \/ Timeout(s) \/ ReadRefused(s)

Next == \E s \in Sessions : HostStep(s) \/ ServerStep(s)

Spec == Init /\ [][Next]_vars

\* The container keeps running the server and the host keeps polling.
FairSpec == Spec /\ \A s \in Sessions : WF_vars(ServerStep(s)) /\ WF_vars(Answer(s))

-----------------------------------------------------------------------------
(* Properties.                                                             *)

\* The counters of the two sides, which are never exchanged, stay in step: the
\* host overtakes the server only while the server is tidying up, and the server
\* leads only by a request whose response the host has yet to read.
InStep ==
    \A s \in Sessions :
        \/ sindex[s] = index[s]
        \/ index[s] = sindex[s] + 1 /\ spc[s] = "remove"
        \/ sindex[s] = index[s] + 1 /\ spc[s] = "scan" /\ resp[index[s]] # None

\* The snippets of a session run at most once and in the order of the calls, so
\* the namespace they share is what the caller built up.
InOrder ==
    \A i, j \in 1 .. Len(executed) :
        i < j /\ executed[i][1] = executed[j][1] => executed[i][2] < executed[j][2]

\* A server is never killed by a missing file: nothing but the server itself
\* takes a request or a response away.
NeverCrashes == \A s \in Sessions : spc[s] # "crashed"

\* While every call so far has been answered, each answer is that of the code the
\* call was given: neither a response file that stays for ever nor the late
\* removal of a request can put a call off by one.
MatchUntilFailure ==
    \A a \in answers :
        (\A k \in 1 .. a[1][2] - 1 : \E b \in answers : b[1] = <<a[1][1], k>>)
            => a[1] = a[2]

\* run returns the output of the code it was given.
AnswersMatch == \A a \in answers : a[1] = a[2]

\* A call that waits long enough returns, also after calls that did not, unless its
\* snippet or an earlier one was the end of the interpreter: host and server never
\* wait for each other under different numbers.
Answered == \A s \in Sessions : polling[s] ~> ~polling[s] \/ spc[s] = "killed"

=============================================================================

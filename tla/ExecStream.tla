----------------------------- MODULE ExecStream -----------------------------
(***************************************************************************)
(* One streamed execution: DockerRuntime._iter_exec with its reader thread *)
(* and deadline (agentnest/runtime/docker.py), iterated by an application  *)
(* through Sandbox.stream_shell, or through AsyncSandbox.stream_shell,     *)
(* whose worker thread iterates for an event loop (async_sandbox.py).      *)
(*                                                                         *)
(* The bytes of the process are numbered 1, 2, 3..., and a message is a    *)
(* sequence of them.  A chunk is text: byte by byte the byte itself, a     *)
(* replacement mark or a redaction mark.  So a byte lost, repeated, out of *)
(* place or turned into something else is seen.                            *)
(***************************************************************************)
EXTENDS Naturals, Sequences, Functions

CONSTANTS
    Drivers,     \* who iterates: "sync" the application, "async" a worker thread
    MaxBytes,    \* bound on the bytes a process writes
    Limit,       \* security_policy.max_output_bytes
    Wide,        \* the bytes that begin a character of two bytes
    Secret       \* the bytes that spell a secret value

ASSUME StreamAssumption ==
    /\ Drivers \subseteq {"sync", "async"}
    /\ MaxBytes \in Nat /\ Limit \in Nat \ {0}
    /\ Wide \subseteq 1..MaxBytes /\ Secret \subseteq 1..MaxBytes
    /\ \A i \in Wide : i + 1 \notin Wide
    /\ \A i, j \in Secret : i..j \subseteq Secret

VARIABLES
    driver,      \* who iterates in this behaviour
    wrapped,     \* the command runs under coreutils `timeout`
    ends,        \* where the daemon ends a message, in this behaviour
    process,     \* "unborn", "running", "exited", "timed_out" or "killed"
    written,     \* bytes the process has written
    reader,      \* the reader thread: "idle", "reading", "failed" or "done"
    messages,    \* the queue from the reader thread to the generator
    time,        \* "early", "overdue" (effective_timeout) or "late" (the backstop)
    gen,         \* where the generator is
    handed,      \* the chunk at the yield it is suspended at
    budget,      \* remaining_output
    truncated,
    producer,    \* AsyncSandbox: "iterating", "raising" or "finished"
    events,      \* AsyncSandbox: the queue of the event loop
    app,         \* "asking", "holding", "left", "joining", "done" or "raised"
    received,    \* bytes the application has got
    notices,     \* truncation notices and status chunks it has got
    alive,       \* the sandbox has not been destroyed
    refused      \* history: the daemon refused to remove its container

genVars  == <<gen, handed, budget, truncated>>
hostVars == <<producer, events, app, received, notices>>
procVars == <<process, written, reader>>
setting  == <<driver, wrapped, ends>>
sandbox  == <<alive, refused>>
vars == <<setting, time, sandbox, messages, genVars, hostVars, procVars>>

Spoilt == 0               \* U+FFFD
Hidden == MaxBytes + 1    \* [REDACTED]
Symbol == Spoilt..Hidden
Item == [kind : {"out", "error", "end", "notice", "status"}, bytes : Seq(Symbol)]
Raised == {"overrun", "failed"}

StreamTypeOK ==
    /\ driver \in Drivers /\ wrapped \in BOOLEAN /\ ends \subseteq 1..MaxBytes
    /\ process \in {"unborn", "running", "exited", "timed_out", "killed"}
    /\ written \in 0..MaxBytes
    /\ reader \in {"idle", "reading", "failed", "done"}
    /\ messages \in Seq(Item) /\ events \in Seq(Item) /\ handed \in Item
    /\ time \in {"early", "overdue", "late"}
    /\ gen \in {"unstarted", "head", "waiting", "suffix", "inspect", "yielded",
                "exhausted", "closed"} \cup Raised
    /\ budget \in 0..Limit /\ truncated \in BOOLEAN
    /\ alive \in BOOLEAN /\ refused \in BOOLEAN
    /\ producer \in {"iterating", "raising", "finished"}
    /\ app \in {"asking", "holding", "left", "joining", "done", "raised"}
    /\ received \in Seq(Symbol)
    /\ notices \in Seq({"notice", "status"})

Mark(kind) == [kind |-> kind, bytes |-> <<>>]
Out(bytes) == [kind |-> "out", bytes |-> bytes]

Init ==
    /\ driver \in Drivers /\ wrapped \in BOOLEAN /\ ends \in SUBSET (1..MaxBytes)
    /\ process = "unborn" /\ written = 0 /\ reader = "idle" /\ messages = <<>>
    /\ time = "early" /\ alive = TRUE /\ refused = FALSE
    /\ gen = "unstarted" /\ handed = Mark("end") /\ budget = Limit /\ truncated = FALSE
    /\ producer = "iterating" /\ events = <<>>
    /\ app = "asking" /\ received = <<>> /\ notices = <<>>

-----------------------------------------------------------------------------
(* The process in the container, and time.                                 *)

\* The process writes n bytes; the reader thread puts them as one message.
Write(n) ==
    /\ process = "running" /\ reader = "reading"
    /\ written + n \in ends /\ \A i \in 1..n - 1 : written + i \notin ends
    /\ written' = written + n
    /\ messages' = Append(messages, Out([i \in 1..n |-> written + i]))
    /\ UNCHANGED <<setting, time, sandbox, genVars, hostVars, process, reader>>

Exit ==
    /\ process = "running"
    /\ process' = "exited"
    /\ UNCHANGED <<setting, time, sandbox, messages, genVars, hostVars, written, reader>>

\* coreutils `timeout` ends the process some time after effective_timeout.
TimeoutKills ==
    /\ process = "running" /\ wrapped /\ time # "early"
    /\ process' = "timed_out"
    /\ UNCHANGED <<setting, time, sandbox, messages, genVars, hostVars, written, reader>>

\* time.monotonic() passes effective_timeout, and later the backstop, which is
\* the same moment when the command is not wrapped.
Elapse ==
    /\ gen # "unstarted" /\ time # "late"
    /\ time' = IF wrapped /\ time = "early" THEN "overdue" ELSE "late"
    /\ UNCHANGED <<setting, sandbox, messages, genVars, hostVars, procVars>>

\* destroy.  The daemon may refuse to remove the container, of which nobody is
\* told, and a second destroy finds nothing left to remove.
Destroy ==
    /\ alive' = FALSE
    /\ refused' \in {refused, alive \/ refused}
    /\ process' = IF process = "running" /\ alive /\ ~refused' THEN "killed" ELSE process

\* The lifetime timer, or another thread, destroys the sandbox.
DestroyElsewhere ==
    /\ alive /\ gen # "unstarted"
    /\ Destroy
    /\ UNCHANGED <<setting, time, messages, genVars, hostVars, written, reader>>

-----------------------------------------------------------------------------
(* The reader thread, `consume`.                                           *)

\* Mutant: the end of the stream is put at the head of the queue.
EndOvertakes ==
    /\ reader = "failed" \/ (reader = "reading" /\ process # "running")
    /\ reader' = "done"
    /\ messages' = <<Mark("end")>> \o messages
    /\ UNCHANGED <<setting, time, sandbox, genVars, hostVars, process, written>>

\* The finally block: None is the last message, after a failure as well.
ReaderEnds ==
    /\ reader = "failed" \/ (reader = "reading" /\ process # "running")
    /\ reader' = "done"
    /\ messages' = Append(messages, Mark("end"))
    /\ UNCHANGED <<setting, time, sandbox, genVars, hostVars, process, written>>

\* exec_start raises, whether or not the process goes on.
ReaderFails ==
    /\ reader = "reading"
    /\ reader' = "failed"
    /\ messages' = Append(messages, Mark("error"))
    /\ UNCHANGED <<setting, time, sandbox, genVars, hostVars, process, written>>

-----------------------------------------------------------------------------
(* The generator _iter_exec.  It runs while somebody asks for a chunk.     *)

Asked == IF driver = "sync" THEN app = "asking" ELSE producer = "iterating"

\* It goes on at `to`, with nothing else changed but what the caller says.
At(from, to) == Asked /\ gen = from /\ gen' = to
GenFrame == <<setting, time, hostVars, written>>

\* Up to the loop: exec_create, the reader thread, the deadline.
Begin ==
    /\ \/ At("unstarted", "head") /\ process' = "running" /\ reader' = "reading"
       \/ At("unstarted", "failed") /\ UNCHANGED <<process, reader>>
    /\ UNCHANGED <<GenFrame, sandbox, messages, handed, budget, truncated>>

\* Mutant: messages.get has no timeout.
OverrunAtHead ==
    /\ time = "late"
    /\ At("head", "overrun")
    /\ Destroy
    /\ UNCHANGED <<GenFrame, reader, messages, handed, budget, truncated>>

\* The deadline has passed, at the head of the loop or in messages.get: the
\* sandbox is destroyed and ExecutionTimeoutError raised.
Overrun ==
    /\ time = "late"
    /\ At("head", "overrun") \/ (messages = <<>> /\ At("waiting", "overrun"))
    /\ Destroy
    /\ UNCHANGED <<GenFrame, reader, messages, handed, budget, truncated>>

Wait ==
    /\ time # "late"
    /\ At("head", "waiting")
    /\ UNCHANGED <<GenFrame, sandbox, process, reader, messages, handed, budget, truncated>>

Smaller(m, n) == IF m < n THEN m ELSE n

\* bytes.decode("utf-8", errors="replace"), of a run of bytes: a character whose
\* other byte is in another run is replaced.
Decode(bytes) ==
    [i \in DOMAIN bytes |->
        IF \/ i = Len(bytes) /\ bytes[i] \in Wide
           \/ i = 1 /\ bytes[i] - 1 \in Wide
        THEN Spoilt ELSE bytes[i]]

\* Mutant: a payload larger than what remains of the budget is dropped.
StreamDataWhole(payload) == IF Len(payload) <= budget THEN Decode(payload) ELSE <<>>

\* _stream_data: what of a payload still fits the budget, decoded by itself.
StreamData(payload) == Decode(SubSeq(payload, 1, Smaller(Len(payload), budget)))

\* redact, chunk by chunk: a secret value is replaced where all of it is found.
Redact(text) ==
    [i \in DOMAIN text |->
        IF text[i] \in Secret /\ Secret \subseteq Range(text) THEN Hidden ELSE text[i]]

\* A message taken from the queue.  Output beyond the budget is not yielded.
GetOutput ==
    LET payload == Head(messages).bytes
        data    == StreamData(payload)
    IN  /\ messages # <<>> /\ Head(messages).kind = "out"
        /\ At("waiting", IF data = <<>> THEN "head" ELSE "yielded")
        /\ messages' = Tail(messages)
        /\ handed' = IF data = <<>> THEN handed ELSE Out(data)
        /\ budget' = budget - Len(data)
        /\ truncated' = (truncated \/ Len(payload) > budget)
        /\ UNCHANGED <<GenFrame, sandbox, process, reader>>

GetError ==
    /\ messages # <<>> /\ Head(messages).kind = "error"
    /\ At("waiting", "failed")
    /\ messages' = Tail(messages)
    /\ UNCHANGED <<GenFrame, sandbox, process, reader, handed, budget, truncated>>

\* Mutant: None does not end the loop.
GetEndGoesOn ==
    /\ messages # <<>> /\ Head(messages).kind = "end"
    /\ At("waiting", "head")
    /\ messages' = Tail(messages)
    /\ UNCHANGED <<GenFrame, sandbox, process, reader, handed, budget, truncated>>

GetEnd ==
    /\ messages # <<>> /\ Head(messages).kind = "end"
    /\ At("waiting", IF truncated THEN "suffix" ELSE "inspect")
    /\ messages' = Tail(messages)
    /\ UNCHANGED <<GenFrame, sandbox, process, reader, handed, budget, truncated>>

Suffix ==
    /\ At("suffix", "yielded")
    /\ handed' = Mark("notice")
    /\ UNCHANGED <<GenFrame, sandbox, process, reader, messages, budget, truncated>>

\* exec_inspect: 124 or 137 of a wrapped command raises, as does a container
\* that is gone; otherwise the status is yielded.
Inspect ==
    /\ \/ /\ alive \/ refused
          /\ process # "timed_out"
          /\ At("inspect", "yielded")
          /\ handed' = Mark("status")
       \/ At("inspect", "failed") /\ UNCHANGED handed
    /\ UNCHANGED <<GenFrame, sandbox, process, reader, messages, budget, truncated>>

GenStep ==
    \/ Begin \/ Overrun \/ Wait \/ GetOutput \/ GetError \/ GetEnd \/ Suffix \/ Inspect

\* Where the generator resumes after its yield.
ResumesAt == CASE handed.kind = "out"    -> "head"
               [] handed.kind = "notice" -> "inspect"
               [] OTHER                  -> "exhausted"

-----------------------------------------------------------------------------
(* The application, iterating by itself or over the event loop's queue.    *)

HostFrame == <<setting, time, sandbox, messages, procVars, handed, budget, truncated>>

Deliver(item) ==
    /\ app' = "holding"
    /\ received' = received \o item.bytes
    /\ notices' = IF item.kind = "out" THEN notices ELSE Append(notices, item.kind)

\* Sandbox.stream_shell hands the chunk on, redacted.
Redacted(item) == [item EXCEPT !.bytes = Redact(@)]

\* The application has the chunk in its hands.
Take ==
    /\ driver = "sync" /\ gen = "yielded" /\ app = "asking"
    /\ Deliver(Redacted(handed))
    /\ UNCHANGED <<HostFrame, gen, producer, events>>

\* The for loop asks for the next chunk, or finds the end.
AskAgain ==
    /\ app = "holding"
    /\ app' = "asking"
    /\ gen' = IF driver = "sync" THEN ResumesAt ELSE gen
    /\ UNCHANGED <<HostFrame, producer, events, received, notices>>

StopIteration ==
    /\ driver = "sync" /\ app = "asking"
    /\ \/ gen = "exhausted" /\ app' = "done"
       \/ gen \in Raised /\ app' = "raised"
    /\ UNCHANGED <<HostFrame, gen, producer, events, received, notices>>

\* Mutant: the worker thread is stopped with the application.
LeaveStopsWorker ==
    /\ app = "holding" \/ (driver = "async" /\ app = "asking")
    /\ app' = "left"
    /\ gen' = "closed"
    /\ UNCHANGED <<HostFrame, producer, events, received, notices>>

\* break, an exception in the loop's body, or the task is cancelled.  A
\* generator is closed at its yield; the worker thread of AsyncSandbox goes on.
Leave ==
    /\ app = "holding" \/ (driver = "async" /\ app = "asking")
    /\ app' = "left"
    /\ gen' = IF driver = "sync" THEN "closed" ELSE gen
    /\ UNCHANGED <<HostFrame, producer, events, received, notices>>

\* AsyncSandbox.stream_shell, `produce`: every chunk goes to the loop's queue.
Forward ==
    /\ driver = "async" /\ producer = "iterating" /\ gen = "yielded"
    /\ events' = Append(events, Redacted(handed))
    /\ gen' = ResumesAt
    /\ UNCHANGED <<HostFrame, producer, app, received, notices>>

ForwardException ==
    /\ driver = "async" /\ producer = "iterating" /\ gen \in Raised
    /\ events' = Append(events, Mark("error"))
    /\ producer' = "raising"
    /\ UNCHANGED <<HostFrame, gen, app, received, notices>>

ForwardEnd ==
    /\ driver = "async"
    /\ producer = "raising" \/ (producer = "iterating" /\ gen = "exhausted")
    /\ events' = Append(events, Mark("end"))
    /\ producer' = "finished"
    /\ UNCHANGED <<HostFrame, gen, app, received, notices>>

\* await events.get(): None ends the loop, an exception is raised again.
GetEvent ==
    /\ driver = "async" /\ app = "asking" /\ events # <<>>
    /\ events' = Tail(events)
    /\ CASE Head(events).kind = "end"   -> app' = "joining" /\ UNCHANGED <<received, notices>>
         [] Head(events).kind = "error" -> app' = "raised" /\ UNCHANGED <<received, notices>>
         [] OTHER                       -> Deliver(Head(events))
    /\ UNCHANGED <<HostFrame, gen, producer>>

\* await producer_task.
Join ==
    /\ app = "joining" /\ producer = "finished"
    /\ app' = "done"
    /\ UNCHANGED <<HostFrame, gen, producer, events, received, notices>>

HostStep ==
    \/ Take \/ AskAgain \/ StopIteration \/ Forward \/ ForwardException
    \/ ForwardEnd \/ GetEvent \/ Join

-----------------------------------------------------------------------------
(* Specification.                                                          *)

Next ==
    \/ \E n \in 1..MaxBytes : Write(n)
    \/ Exit \/ TimeoutKills \/ Elapse \/ DestroyElsewhere
    \/ ReaderEnds \/ ReaderFails \/ GenStep \/ HostStep \/ Leave

Spec == Init /\ [][Next]_vars

\* Threads run, time passes, and an application that holds a chunk comes back for
\* the next one.  A process need not write, exit or be noticed by anybody else.
FairSpec ==
    /\ Spec
    /\ WF_vars(Elapse) /\ WF_vars(TimeoutKills) /\ WF_vars(ReaderEnds)
    /\ WF_vars(GenStep) /\ WF_vars(HostStep)

-----------------------------------------------------------------------------
(* Properties.                                                             *)

\* Bytes i to j come in one chunk: no message ends between them, nor the budget.
Together(i, j) == \A c \in ends \cup {Limit} : ~(i <= c /\ c < j)

Torn(i) == \/ i \in Wide /\ ~Together(i, i + 1)
           \/ i - 1 \in Wide /\ ~Together(i - 1, i)

Found == \A i, j \in Secret : Together(i, j) /\ ~Torn(i)

\* What is to be seen of byte i.
Shown(i) == IF i \in Secret /\ Found THEN Hidden
            ELSE IF Torn(i) THEN Spoilt ELSE i

\* What the application has received is what the process wrote, from its first
\* byte on, with no gap, repetition or exchange, through the two queues, and
\* never more than the output limit.  A byte arrives as it is, but for two kinds:
\* a character of several bytes that the end of a message or the limit tears apart
\* is replaced, and a secret value that came in one piece is redacted, and shown
\* otherwise.
PrefixReceived ==
    /\ received = [i \in 1..Len(received) |-> Shown(i)]
    /\ Len(received) <= Smaller(written, Limit)

\* The status is the last thing an application gets, and it vouches for the
\* rest: with it, all the output up to the limit has arrived, and a truncation
\* was announced exactly if bytes are missing.  A normal end without it does not
\* exist.
StatusVouches ==
    /\ "status" \in {notices[i] : i \in DOMAIN notices} =>
           /\ Len(received) = Smaller(written, Limit)
           /\ notices = IF written > Limit THEN <<"notice", "status">> ELSE <<"status">>
    /\ app = "done" => notices # <<>> /\ notices[Len(notices)] = "status"

\* A stream tells what happened, in well-typed states: nothing but the output, and
\* its status is to be trusted.
StreamFaithful == StreamTypeOK /\ PrefixReceived /\ StatusVouches

\* A command that is over costs the sandbox only if its iteration lags behind:
\* the backstop destroys it while output, or the end of it, is still queued.
FinishedIsSpared ==
    [][Overrun /\ process \in {"exited", "timed_out"}
       => messages # <<>> \/ reader = "reading"]_vars

\* Whoever keeps asking gets an end, whatever the process does: a silent one is
\* ended by the backstop, and what the worker thread ends with reaches the loop.
StreamEnds == app = "asking" ~> app \in {"holding", "left", "done", "raised"}

\* A process that runs beyond the backstop is stopped, even if an event loop
\* has lost interest.  What the code cannot stop is a process without `timeout`
\* whose iteration was closed or whose stream broke, and one whose container the
\* daemon refused to remove: destroy is done with it all the same.
RunawayStopped ==
    time = "late" /\ process = "running"
        ~> \/ process # "running" \/ refused
           \/ ~wrapped /\ (gen = "failed" \/ (driver = "sync" /\ gen = "closed"))

=============================================================================

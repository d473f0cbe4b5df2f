------------------------------- MODULE Relay -------------------------------
(***************************************************************************)
(* Running one command over one connection: the gateway client             *)
(* (src/cmd/gateway.rs), the two directions of the executor's relay        *)
(* (src/executor.rs) and the child between them, joined by queues that     *)
(* fill up and ends that close.                                            *)
(*                                                                         *)
(*   caller -> pump_stdin -> toBroker -> relay_stdin -> stdinPipe -> child  *)
(*   caller <- read_responses <- toClient <- stream_pipes <- pipe <- child *)
(*                                                                         *)
(* Data.  The n-th chunk of a stream is the number n; a read returns one   *)
(* chunk and a frame carries one, since where the bytes are cut means      *)
(* nothing to either end.  The child is any program that reads, writes,    *)
(* closes and exits in whatever order, blocking where the kernel blocks    *)
(* it, and it can leave descendants that hold its pipes open.              *)
(***************************************************************************)
EXTENDS Naturals, Sequences

CONSTANTS
    Status,    \* how the child can end: [kind, number]
    NoStatus,  \* it has not ended
    SockCap,   \* frames one direction of the connection holds
    PipeCap,   \* chunks a pipe holds
    MaxIn,     \* bound: chunks on the caller's standard input
    MaxOut     \* bound: chunks the child writes to each stream

ASSUME RelayAssumption ==
    /\ Status \subseteq [kind : {"code", "signal"}, number : Nat]
    /\ NoStatus \notin Status
    /\ SockCap \in Nat \ {0} /\ PipeCap \in Nat \ {0}
    /\ MaxIn \in Nat /\ MaxOut \in [{"stdout", "stderr"} -> Nat]

Stream == {"stdout", "stderr"}

ClientFrame == [kind : {"StdinChunk", "StdinEof"}, data : Nat]

\* StdoutChunk and StderrChunk are named by their stream.
ServerFrame == [kind : Stream \cup {"Exit", "Denied"}, data : Nat]

GATEWAY_ERROR_EXIT == 1

SIGNAL_EXIT_OFFSET == 128

exit_code_from_status(s) ==
    IF s.kind = "code" THEN s.number ELSE SIGNAL_EXIT_OFFSET + s.number

VARIABLES
    forwards,   \* Request::client_frames
    given, sourceEnd,       \* the caller's standard input: chunks read, at its end
    pump,       \* pump_stdin: "reading", "chunk" (sending), "eof" (sending), "done"
    shut,       \* the client's write half is shut down
    toBroker,   \* client frames in the connection
    input,      \* relay_stdin is polled
    held,       \* the chunk relay_stdin is writing to the child, if any
    stdinPipe, stdinOpen,   \* the child's standard input, and its write end
    childStdin,             \* its read end
    child,      \* "unborn", "choose", blocked in "read" or a write, "exited"
    status, got, gotEof, produced,
    pipe, writers,          \* the child's output pipes, and their write ends
    tap,        \* stream_pipes still has this stream
    writing,    \* the server frame being written, if any
    exec,       \* stream_child: "spawn", "relay", "wait", "exit", "closed"
    toClient,   \* server frames in the connection
    client,     \* the gateway: "running", "exited" or "killed"
    delivered, outcome, code

callerVars == <<forwards, given, sourceEnd, pump, shut>>
inputVars  == <<input, held, stdinOpen>>
childVars  == <<childStdin, child, status, got, gotEof, produced, writers>>
outputVars == <<tap, writing, exec>>
clientVars == <<client, delivered, outcome, code>>
vars == <<callerVars, toBroker, inputVars, stdinPipe, childVars, pipe,
          outputVars, toClient, clientVars>>

Init ==
    /\ forwards \in BOOLEAN
    /\ given = 0 /\ sourceEnd = FALSE
    /\ pump = (IF forwards THEN "reading" ELSE "done") /\ shut = FALSE
    /\ toBroker = <<>> /\ toClient = <<>>
    /\ input = FALSE /\ held = <<>> /\ stdinPipe = <<>> /\ stdinOpen = FALSE
    /\ childStdin = FALSE /\ child = "unborn" /\ status = NoStatus
    /\ got = <<>> /\ gotEof = FALSE
    /\ produced = [s \in Stream |-> 0] /\ pipe = [s \in Stream |-> <<>>]
    /\ writers = [s \in Stream |-> FALSE] /\ tap = [s \in Stream |-> FALSE]
    /\ writing = <<>> /\ exec = "spawn"
    /\ client = "running" /\ delivered = [s \in Stream |-> <<>>]
    /\ outcome = "none" /\ code = 0

-----------------------------------------------------------------------------
(* The gateway's stdin direction: pump_stdin. *)

PumpReads ==
    /\ pump = "reading" /\ given < MaxIn
    /\ given' = given + 1 /\ pump' = "chunk"
    /\ UNCHANGED <<forwards, sourceEnd, shut, toBroker, inputVars, stdinPipe, childVars,
                   pipe, outputVars, toClient, clientVars>>

\* End of file; a failed read counts as one.
SourceEnds ==
    /\ pump = "reading"
    /\ sourceEnd' = TRUE /\ pump' = "eof"
    /\ UNCHANGED <<forwards, given, shut, toBroker, inputVars, stdinPipe, childVars,
                   pipe, outputVars, toClient, clientVars>>

PumpSends ==
    /\ exec # "closed" /\ Len(toBroker) < SockCap
    /\ \/ /\ pump = "chunk"
          /\ toBroker' = Append(toBroker, [kind |-> "StdinChunk", data |-> given])
          /\ pump' = "reading" /\ UNCHANGED shut
       \/ /\ pump = "eof"
          /\ toBroker' = Append(toBroker, [kind |-> "StdinEof", data |-> 0])
          /\ pump' = "done" /\ shut' = TRUE
    /\ UNCHANGED <<forwards, given, sourceEnd, inputVars, stdinPipe, childVars,
                   pipe, outputVars, toClient, clientVars>>

\* The broker closed the connection: no frame gets through, the half is shut down.
PumpFails ==
    /\ exec = "closed" /\ pump \in {"chunk", "eof"}
    /\ pump' = "done" /\ shut' = TRUE
    /\ UNCHANGED <<forwards, given, sourceEnd, toBroker, inputVars, stdinPipe, childVars,
                   pipe, outputVars, toClient, clientVars>>

-----------------------------------------------------------------------------
(* The gateway's response direction: read_responses.  It alone decides how *)
(* the gateway ends, and process::exit takes the pump with it.             *)

Leave(state, result, n) ==
    /\ client' = state /\ outcome' = result /\ code' = n
    /\ pump' = "done" /\ shut' = TRUE
    /\ UNCHANGED <<forwards, given, sourceEnd, delivered>>

ClientReads ==
    /\ client = "running" /\ toClient # <<>>
    /\ toClient' = Tail(toClient)
    /\ LET f == Head(toClient) IN
       CASE f.kind \in Stream ->
              /\ delivered' = [delivered EXCEPT ![f.kind] = Append(@, f.data)]
              /\ UNCHANGED <<callerVars, client, outcome, code>>
         [] f.kind = "Exit"   -> Leave("exited", "status", f.data)
         [] f.kind = "Denied" -> Leave("exited", "error", GATEWAY_ERROR_EXIT)
    /\ UNCHANGED <<toBroker, inputVars, stdinPipe, childVars, pipe, outputVars>>

\* The caller's own stdout or stderr cannot be written.
ClientOutputFails ==
    /\ client = "running" /\ toClient # <<>> /\ Head(toClient).kind \in Stream
    /\ toClient' = Tail(toClient)
    /\ Leave("exited", "error", GATEWAY_ERROR_EXIT)
    /\ UNCHANGED <<toBroker, inputVars, stdinPipe, childVars, pipe, outputVars>>

\* The broker closed the connection before an exit code.
ClientEof ==
    /\ client = "running" /\ toClient = <<>> /\ exec = "closed"
    /\ Leave("exited", "error", GATEWAY_ERROR_EXIT)
    /\ UNCHANGED <<toBroker, inputVars, stdinPipe, childVars, pipe, outputVars, toClient>>

ClientKilled ==
    /\ client = "running"
    /\ Leave("killed", "none", code)
    /\ UNCHANGED <<toBroker, inputVars, stdinPipe, childVars, pipe, outputVars, toClient>>

-----------------------------------------------------------------------------
(* stream_child: spawn, relay, wait, report. *)

\* A relay that is over drops relay_stdin, and with it the child's stdin handle.
DropInput == input' = FALSE /\ held' = <<>> /\ stdinOpen' = FALSE

Spawn ==
    /\ exec = "spawn"
    /\ exec' = "relay" /\ child' = "choose"
    /\ input' = TRUE /\ stdinOpen' = TRUE /\ childStdin' = TRUE
    /\ writers' = [s \in Stream |-> TRUE] /\ tap' = [s \in Stream |-> TRUE]
    /\ UNCHANGED <<callerVars, toBroker, held, stdinPipe, status, got, gotEof, produced,
                   pipe, writing, toClient, clientVars>>

SpawnFails ==
    /\ exec = "spawn"
    /\ writing' = <<[kind |-> "Denied", data |-> 0]>> /\ exec' = "exit"
    /\ UNCHANGED <<callerVars, toBroker, inputVars, stdinPipe, childVars, pipe, tap,
                   toClient, clientVars>>

\* child.wait returns.
Reaped ==
    /\ exec = "wait" /\ child = "exited"
    /\ writing' = <<[kind |-> "Exit", data |-> exit_code_from_status(status)]>>
    /\ exec' = "exit"
    /\ UNCHANGED <<callerVars, toBroker, inputVars, stdinPipe, childVars, pipe, tap,
                   toClient, clientVars>>

\* write_frame; after the last frame the connection is shut down.
WriteFrame ==
    /\ writing # <<>> /\ client = "running" /\ Len(toClient) < SockCap
    /\ toClient' = toClient \o writing
    /\ writing' = <<>>
    /\ exec' = IF exec = "exit" THEN "closed" ELSE exec
    /\ UNCHANGED <<callerVars, toBroker, inputVars, stdinPipe, childVars, pipe, tap,
                   clientVars>>

\* The client is gone: the error ends stream_child, which neither waits for the
\* child nor kills it.
WriteFails ==
    /\ writing # <<>> /\ client # "running"
    /\ writing' = <<>> /\ exec' = "closed" /\ DropInput
    /\ UNCHANGED <<callerVars, toBroker, stdinPipe, childVars, pipe, tap, toClient, clientVars>>

\* The daemon stops or dies with the relay under way.
BrokerStops ==
    /\ exec # "closed"
    /\ writing' = <<>> /\ exec' = "closed" /\ DropInput
    /\ UNCHANGED <<callerVars, toBroker, stdinPipe, childVars, pipe, tap, toClient, clientVars>>

-----------------------------------------------------------------------------
(* The input direction: relay_stdin.  A request that declared no client    *)
(* frames has a source that is at its end already.                         *)

InputReads ==
    /\ exec = "relay" /\ input /\ held = <<>>
    /\ forwards /\ toBroker # <<>>
    /\ toBroker' = Tail(toBroker)
    /\ IF Head(toBroker).kind = "StdinChunk"
       THEN held' = <<Head(toBroker).data>> /\ UNCHANGED <<input, stdinOpen>>
       ELSE DropInput
    /\ UNCHANGED <<callerVars, stdinPipe, childVars, pipe, outputVars, toClient, clientVars>>

\* Seeded fault: only a StdinEof frame ends the input, not the end of the connection.
InputEnds_IgnoresEof ==
    /\ exec = "relay" /\ input /\ held = <<>>
    /\ ~forwards
    /\ DropInput
    /\ UNCHANGED <<callerVars, toBroker, stdinPipe, childVars, pipe, outputVars, toClient,
                   clientVars>>

\* End of file, or a frame cut off by it.
InputEnds ==
    /\ exec = "relay" /\ input /\ held = <<>>
    /\ ~forwards \/ (toBroker = <<>> /\ shut)
    /\ DropInput
    /\ UNCHANGED <<callerVars, toBroker, stdinPipe, childVars, pipe, outputVars, toClient,
                   clientVars>>

InputWrites ==
    /\ exec = "relay" /\ held # <<>>
    /\ childStdin /\ Len(stdinPipe) < PipeCap
    /\ stdinPipe' = stdinPipe \o held /\ held' = <<>>
    /\ UNCHANGED <<callerVars, toBroker, input, stdinOpen, childVars, pipe, outputVars,
                   toClient, clientVars>>

\* Nobody reads the child's standard input any more.
InputBreaks ==
    /\ exec = "relay" /\ held # <<>> /\ ~childStdin
    /\ DropInput
    /\ UNCHANGED <<callerVars, toBroker, stdinPipe, childVars, pipe, outputVars, toClient,
                   clientVars>>

-----------------------------------------------------------------------------
(* The output direction: stream_pipes, under relay_until_output_ends. *)

\* Seeded fault: the output is read only once the input is done.
OutputReads_AfterInput(s) ==
    /\ exec = "relay" /\ writing = <<>> /\ ~input
    /\ tap[s] /\ pipe[s] # <<>>
    /\ pipe' = [pipe EXCEPT ![s] = Tail(@)]
    /\ writing' = <<[kind |-> s, data |-> Head(pipe[s])]>>
    /\ UNCHANGED <<callerVars, toBroker, inputVars, stdinPipe, childVars, tap, exec,
                   toClient, clientVars>>

\* Seeded fault: the input future is rebuilt after the other branch of the select ran.
OutputReads_RebuildsInput(s) ==
    /\ exec = "relay" /\ writing = <<>>
    /\ tap[s] /\ pipe[s] # <<>>
    /\ pipe' = [pipe EXCEPT ![s] = Tail(@)]
    /\ writing' = <<[kind |-> s, data |-> Head(pipe[s])]>>
    /\ held' = <<>>
    /\ UNCHANGED <<callerVars, toBroker, input, stdinOpen, stdinPipe, childVars, tap, exec,
                   toClient, clientVars>>

OutputReads(s) ==
    /\ exec = "relay" /\ writing = <<>>
    /\ tap[s] /\ pipe[s] # <<>>
    /\ pipe' = [pipe EXCEPT ![s] = Tail(@)]
    /\ writing' = <<[kind |-> s, data |-> Head(pipe[s])]>>
    /\ UNCHANGED <<callerVars, toBroker, inputVars, stdinPipe, childVars, tap, exec,
                   toClient, clientVars>>

\* Seeded fault: the end of stdout is taken for the end of the output.
OutputEof_Stdout(s) ==
    /\ exec = "relay" /\ writing = <<>>
    /\ tap[s] /\ pipe[s] = <<>> /\ ~writers[s]
    /\ tap' = IF s = "stdout" THEN [t \in Stream |-> FALSE] ELSE [tap EXCEPT ![s] = FALSE]
    /\ UNCHANGED <<callerVars, toBroker, inputVars, stdinPipe, childVars, pipe, writing, exec,
                   toClient, clientVars>>

OutputEof(s) ==
    /\ exec = "relay" /\ writing = <<>>
    /\ tap[s] /\ pipe[s] = <<>> /\ ~writers[s]
    /\ tap' = [tap EXCEPT ![s] = FALSE]
    /\ UNCHANGED <<callerVars, toBroker, inputVars, stdinPipe, childVars, pipe, writing, exec,
                   toClient, clientVars>>

\* Both streams are at their end: the relay ends and drops its input.
OutputEnds ==
    /\ exec = "relay" /\ writing = <<>> /\ \A s \in Stream : ~tap[s]
    /\ exec' = "wait" /\ DropInput
    /\ UNCHANGED <<callerVars, toBroker, stdinPipe, childVars, pipe, tap, writing, toClient,
                   clientVars>>

-----------------------------------------------------------------------------
(* The child and the kernel's pipes (external). *)

ChildChooses ==
    /\ child = "choose"
    /\ \/ child' = "read" /\ childStdin /\ ~gotEof
       \/ \E s \in Stream : child' = s /\ writers[s] /\ produced[s] < MaxOut[s]
    /\ UNCHANGED <<callerVars, toBroker, inputVars, stdinPipe, childStdin, status, got,
                   gotEof, produced, writers, pipe, outputVars, toClient, clientVars>>

ChildReads ==
    /\ child = "read" /\ child' = "choose"
    /\ \/ /\ stdinPipe # <<>>
          /\ got' = Append(got, Head(stdinPipe)) /\ stdinPipe' = Tail(stdinPipe)
          /\ UNCHANGED gotEof
       \/ /\ stdinPipe = <<>> /\ ~stdinOpen
          /\ gotEof' = TRUE
          /\ UNCHANGED <<got, stdinPipe>>
    /\ UNCHANGED <<callerVars, toBroker, inputVars, childStdin, status, produced, writers,
                   pipe, outputVars, toClient, clientVars>>

\* A chunk enters the pipe of s.
WritePipe(s) ==
    /\ exec = "relay" /\ Len(pipe[s]) < PipeCap
    /\ pipe' = [pipe EXCEPT ![s] = Append(@, produced[s] + 1)]
    /\ produced' = [produced EXCEPT ![s] = @ + 1]

\* Nobody reads the output any more: the write fails and the stream is given up.
ChildWrites(s) ==
    /\ child = s /\ child' = "choose"
    /\ \/ WritePipe(s) /\ UNCHANGED writers
       \/ /\ exec # "relay"
          /\ writers' = [writers EXCEPT ![s] = FALSE]
          /\ UNCHANGED <<pipe, produced>>
    /\ UNCHANGED <<callerVars, toBroker, inputVars, stdinPipe, childStdin, status, got,
                   gotEof, outputVars, toClient, clientVars>>

ChildCloses ==
    /\ child = "choose"
    /\ \/ childStdin' = FALSE /\ childStdin /\ UNCHANGED writers
       \/ /\ \E s \in Stream : writers[s] /\ writers' = [writers EXCEPT ![s] = FALSE]
          /\ UNCHANGED childStdin
    /\ UNCHANGED <<callerVars, toBroker, inputVars, stdinPipe, child, status, got, gotEof,
                   produced, pipe, outputVars, toClient, clientVars>>

\* The child ends; descendants may keep some of its descriptors.
End(st) ==
    /\ child' = "exited" /\ status' = st
    /\ \E kept \in SUBSET (Stream \cup {"stdin"}) :
         /\ writers' = [s \in Stream |-> writers[s] /\ s \in kept]
         /\ childStdin' = (childStdin /\ "stdin" \in kept)
    /\ UNCHANGED <<callerVars, toBroker, inputVars, stdinPipe, got, gotEof, produced, pipe,
                   outputVars, toClient, clientVars>>

ChildExits == child = "choose" /\ \E st \in Status : End(st)

ChildKilled ==
    /\ child \in {"read"} \cup Stream
    /\ \E st \in Status : st.kind = "signal" /\ End(st)

DescendantWrites(s) ==
    /\ child = "exited" /\ writers[s] /\ produced[s] < MaxOut[s]
    /\ WritePipe(s)
    /\ UNCHANGED <<callerVars, toBroker, inputVars, stdinPipe, childStdin, child, status,
                   got, gotEof, writers, outputVars, toClient, clientVars>>

DescendantCloses(s) ==
    /\ child = "exited" /\ writers[s]
    /\ writers' = [writers EXCEPT ![s] = FALSE]
    /\ UNCHANGED <<callerVars, toBroker, inputVars, stdinPipe, childStdin, child, status,
                   got, gotEof, produced, pipe, outputVars, toClient, clientVars>>

-----------------------------------------------------------------------------
SourceStep == PumpReads \/ SourceEnds

PumpStep == PumpSends \/ PumpFails

ResponseStep == ClientReads \/ ClientOutputFails \/ ClientEof

InputStep == InputReads \/ InputEnds \/ InputWrites \/ InputBreaks

OutputStep ==
    \/ Spawn \/ SpawnFails \/ Reaped \/ WriteFrame \/ WriteFails \/ OutputEnds
    \/ \E s \in Stream : OutputReads(s) \/ OutputEof(s)

ChildStep ==
    \/ ChildChooses \/ ChildReads \/ ChildCloses \/ ChildExits
    \/ \E s \in Stream : ChildWrites(s) \/ DescendantCloses(s)

Next ==
    \/ SourceStep \/ PumpStep \/ ResponseStep \/ InputStep \/ OutputStep \/ ChildStep
    \/ ClientKilled \/ BrokerStops \/ ChildKilled
    \/ \E s \in Stream : DescendantWrites(s)

Spec == Init /\ [][Next]_vars

\* Both ends poll both of their directions, the child and its descendants go on
\* when the kernel lets them and do not run for ever.
Fairness ==
    /\ WF_vars(PumpStep) /\ WF_vars(ResponseStep)
    /\ WF_vars(InputStep) /\ WF_vars(OutputStep)
    /\ WF_vars(ChildStep)

\* Nothing is assumed of the caller's standard input.
FairSpec == Spec /\ Fairness

-----------------------------------------------------------------------------
(* Properties. *)

\* The gateway exits with 0 only if the child did and the caller was handed every
\* chunk the child and its descendants wrote: no cut connection, failed spawn,
\* denial or output left in a pipe is ever reported as success.
NoFalseSuccess ==
    client = "exited" /\ code = 0 =>
        /\ status = [kind |-> "code", number |-> 0]
        /\ \A s \in Stream : Len(delivered[s]) = produced[s] /\ ~writers[s]

\* The run as the caller and the child see it.
Run ==
    INSTANCE DirectRun
    WITH cut <- ~forwards \/ client # "running" \/ exec \notin {"spawn", "relay"}

\* A relayed run is a direct run: input arrives in order and an early end of file
\* only where the run was cut, output arrives in order, and the exit code is the
\* child's and comes after all output.
ImplementsDirectRun == Run!Spec

OutputOver == child # "unborn" /\ \A s \in Stream : ~writers[s]

\* The gateway ends and the broker's task is done: no full pipe or socket makes
\* caller, broker and child wait for one another, whatever the child reads and
\* writes and wherever one of them is killed.  The one thing that may be waited
\* for without end is the caller's input, and not even that once the child's
\* output is closed ("Only the response direction can end the relay").
RelayEnds ==
    \/ <>[](pump = "reading" /\ ~OutputOver)
    \/ <>(client # "running" /\ exec = "closed")

\* When the gateway is gone, the broker's task ends, and with it the agent and
\* scripts that hold the caller's credentials: the child meets an end of file.
AbandonedRelayEnds == client # "running" ~> exec = "closed"
=============================================================================

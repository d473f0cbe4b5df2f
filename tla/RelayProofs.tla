---------------------------- MODULE RelayProofs ----------------------------
(***************************************************************************)
(* The relay never reports a success that was none, and a relayed run is a *)
(* direct run: for every capacity of the connection and the pipes, every   *)
(* length of input and output, every child and every way it can be cut.    *)
(*                                                                         *)
(* Neither is inductive.  The invariant RelayInv follows a chunk through   *)
(* every queue it can stand in.  InputInOrder and InputWhole say that what *)
(* the child read, its standard input, the chunk in hand and the frames in *)
(* the connection are, end to end, the numbers 1, 2, ... given, and that   *)
(* an end of file stands behind all of them; PipesInOrder and              *)
(* FramesInOrder say the same of the output, and that a frame with an exit *)
(* code stands behind all of it.  InStep ties the five processes together. *)
(* An action moves one chunk across one border, so each part is shown for  *)
(* the few actions that touch its queues, and a frame lemma (KeptInput,    *)
(* KeptPipes, KeptFrames) for all the others.                              *)
(***************************************************************************)
EXTENDS Relay, Integers, SequenceTheorems, TLAPS

\* The values of the variables.
RelayTypes ==
    /\ forwards \in BOOLEAN /\ given \in Nat /\ sourceEnd \in BOOLEAN
    /\ pump \in {"reading", "chunk", "eof", "done"} /\ shut \in BOOLEAN
    /\ toBroker \in Seq(ClientFrame) /\ toClient \in Seq(ServerFrame)
    /\ input \in BOOLEAN /\ stdinOpen \in BOOLEAN /\ childStdin \in BOOLEAN
    /\ held \in Seq(Nat) /\ Len(held) <= 1
    /\ stdinPipe \in Seq(Nat) /\ got \in Seq(Nat) /\ gotEof \in BOOLEAN
    /\ child \in {"unborn", "choose", "read", "exited"} \cup Stream
    /\ status \in Status \cup {NoStatus}
    /\ produced \in [Stream -> Nat] /\ pipe \in [Stream -> Seq(Nat)]
    /\ writers \in [Stream -> BOOLEAN] /\ tap \in [Stream -> BOOLEAN]
    /\ writing \in Seq(ServerFrame) /\ Len(writing) <= 1
    /\ exec \in {"spawn", "relay", "wait", "exit", "closed"}
    /\ client \in {"running", "exited", "killed"}
    /\ delivered \in [Stream -> Seq(Nat)]
    /\ outcome \in {"none", "status", "error"} /\ code \in Nat

\* Where the five processes can stand at the same time.
InStep ==
    /\ stdinOpen = input
    /\ input => exec = "relay"
    /\ held # <<>> => input
    /\ shut \/ ~forwards => pump = "done"
    /\ client # "running" => pump = "done"
    /\ pump \in {"reading", "chunk"} => ~sourceEnd
    /\ pump = "eof" => sourceEnd
    /\ child = "exited" <=> status # NoStatus
    /\ child \in Stream => writers[child]
    /\ child = "read" => childStdin /\ ~gotEof
    /\ exec \in {"relay", "wait"} => child # "unborn"
    /\ exec = "spawn" => /\ child = "unborn" /\ toClient = <<>> /\ got = <<>> /\ stdinPipe = <<>>
                         /\ \A s \in Stream : produced[s] = 0
    /\ exec \in {"spawn", "wait", "closed"} => writing = <<>>
    /\ exec = "relay" => \A i \in DOMAIN writing : writing[i].kind \in Stream
    /\ exec = "exit" => Len(writing) = 1
    /\ client = "exited" <=> outcome # "none"
    /\ outcome = "error" => code = GATEWAY_ERROR_EXIT

\* The chunks the input direction has taken from the connection.
Handed == Len(got) + Len(stdinPipe) + Len(held)

\* The input direction takes, or has yet to be started.
Live == exec = "spawn" \/ input

\* The caller's input is on its way, in order and without a gap.
InputInOrder ==
    /\ \A k \in DOMAIN stdinPipe : stdinPipe[k] = Len(got) + k
    /\ \A k \in DOMAIN held : held[k] = Len(got) + Len(stdinPipe) + k
    /\ Handed <= given
    /\ \A k \in DOMAIN toBroker :
          IF toBroker[k].kind = "StdinEof"
          THEN k = Len(toBroker) /\ pump = "done" /\ sourceEnd
          ELSE Live => toBroker[k].data = Handed + k /\ Handed + k <= given

\* As long as nothing is cut, none of it is missing, and the end of file is
\* behind all of it.
InputWhole ==
    forwards /\ client = "running" =>
        /\ Live =>
             \/ /\ pump \in {"reading", "eof"} /\ Handed + Len(toBroker) = given
             \/ /\ pump = "chunk" /\ Handed + Len(toBroker) + 1 = given
             \/ /\ pump = "done" /\ toBroker # <<>> /\ Handed + Len(toBroker) = given + 1
                /\ toBroker[Len(toBroker)].kind = "StdinEof"
        /\ exec = "relay" /\ ~input /\ childStdin =>
             sourceEnd /\ Len(got) + Len(stdinPipe) = given

\* The frames that the client has not read.
Sent == toClient \o writing

\* The chunks of s that were taken from its pipe.
Taken(s) == produced[s] - Len(pipe[s])

\* A frame on its way carries chunk n of s.
Carries(s, n) == \E i \in DOMAIN Sent : Sent[i].kind = s /\ Sent[i].data = n

\* The output is on its way, in order.
PipesInOrder ==
    \A s \in Stream :
        /\ Len(pipe[s]) <= produced[s]
        /\ \A k \in DOMAIN pipe[s] : pipe[s][k] = Taken(s) + k
        /\ child = "unborn" => ~writers[s] /\ pipe[s] = <<>>
        /\ child # "unborn" /\ exec \in {"relay", "wait"} /\ (~tap[s] \/ exec = "wait") =>
              pipe[s] = <<>> /\ ~writers[s]

\* The frame of an exit code or a denial is the last one.
LastIsLast ==
    \A i \in DOMAIN Sent : Sent[i].kind \notin Stream =>
        i = Len(Sent) /\ exec \in {"exit", "closed"}

\* An exit code is the child's, and all of its output comes before it.
ExitTrue ==
    \A i \in DOMAIN Sent : Sent[i].kind = "Exit" =>
        /\ status # NoStatus /\ Sent[i].data = exit_code_from_status(status)
        /\ \A s \in Stream :
              /\ pipe[s] = <<>> /\ ~writers[s]
              /\ \A n \in (Len(delivered[s]) + 1)..produced[s] : Carries(s, n)

\* The frames of s carry the chunks after the delivered ones, each once, in
\* order; all those taken from the pipe, unless the relay was broken off.
StreamInOrder(s) ==
    /\ Len(delivered[s]) <= Taken(s)
    /\ \A i \in DOMAIN Sent : Sent[i].kind = s =>
          /\ Len(delivered[s]) < Sent[i].data /\ Sent[i].data <= Taken(s)
          /\ \A j \in DOMAIN Sent : Sent[j].kind = s /\ i < j => Sent[i].data < Sent[j].data
          /\ \A n \in (Len(delivered[s]) + 1)..Sent[i].data : Carries(s, n)
    /\ exec \in {"relay", "wait"} =>
          \A n \in (Len(delivered[s]) + 1)..Taken(s) : Carries(s, n)

\* As long as the client reads, the frames on their way to it are in order.
FramesInOrder ==
    client = "running" => LastIsLast /\ ExitTrue /\ \A s \in Stream : StreamInOrder(s)

\* A reported status is final.
Reported ==
    outcome = "status" =>
        /\ exec = "closed" /\ status # NoStatus /\ code = exit_code_from_status(status)
        /\ \A s \in Stream : Len(delivered[s]) = produced[s] /\ ~writers[s]

\* The inductive invariant.
RelayInv ==
    /\ RelayTypes /\ InStep
    /\ InputInOrder /\ InputWhole
    /\ PipesInOrder /\ FramesInOrder /\ Reported

-----------------------------------------------------------------------------

\* What a relay that is over leaves of its input direction.
LEMMA Dropped ==
    DropInput => /\ input' \in BOOLEAN /\ stdinOpen' \in BOOLEAN /\ stdinOpen' = input'
                 /\ ~input' /\ held' = <<>>
                 /\ held' \in Seq(Nat) /\ Len(held') <= 1 /\ DOMAIN held' = {}
<1> SUFFICES ASSUME DropInput PROVE /\ input' \in BOOLEAN /\ stdinOpen' \in BOOLEAN /\ stdinOpen' = input'
                 /\ ~input' /\ held' = <<>>
                 /\ held' \in Seq(Nat) /\ Len(held') <= 1 /\ DOMAIN held' = {}
  OBVIOUS
<1>1. input' \in BOOLEAN /\ stdinOpen' \in BOOLEAN /\ stdinOpen' = input' /\ ~input' /\ held' = <<>>
  BY Zenon DEF DropInput
<1>2. held' \in Seq(Nat) /\ Len(held') <= 1 /\ DOMAIN held' = {}
  BY <1>1
<1> QED
  BY <1>1, <1>2

\* A chunk that enters a pipe is the next one of its stream.
LEMMA PipeWritten ==
    ASSUME RelayTypes, NEW s \in Stream, WritePipe(s)
    PROVE  /\ produced' \in [Stream -> Nat] /\ pipe' \in [Stream -> Seq(Nat)]
           /\ exec = "relay"
           /\ produced'[s] = produced[s] + 1 /\ pipe'[s] = Append(pipe[s], produced[s] + 1)
           /\ \A t \in Stream \ {s} : produced'[t] = produced[t] /\ pipe'[t] = pipe[t]
<1>1. produced \in [Stream -> Nat] /\ pipe \in [Stream -> Seq(Nat)]
  BY DEF RelayTypes
<1>2. Append(pipe[s], produced[s] + 1) \in Seq(Nat)
  BY <1>1, AppendProperties
<1> QED
  BY <1>1, <1>2 DEF WritePipe

\* The relay takes the oldest chunk from a pipe.
LEMMA PipeRead ==
    ASSUME RelayTypes, NEW s \in Stream, OutputReads(s)
    PROVE  /\ exec = "relay" /\ writing = <<>> /\ pipe[s] # <<>>
           /\ pipe' \in [Stream -> Seq(Nat)]
           /\ pipe'[s] = Tail(pipe[s]) /\ \A t \in Stream \ {s} : pipe'[t] = pipe[t]
           /\ writing' = <<[kind |-> s, data |-> Head(pipe[s])]>>
           /\ writing' \in Seq(ServerFrame) /\ Len(writing') = 1
           /\ \A i \in DOMAIN writing' : i = 1 /\ writing'[i].kind = s
           /\ UNCHANGED <<callerVars, toBroker, inputVars, stdinPipe, childVars, tap, exec,
                          toClient, clientVars>>
<1>1. pipe \in [Stream -> Seq(Nat)] /\ pipe[s] # <<>>
  BY DEF RelayTypes, OutputReads
<1>2. Head(pipe[s]) \in Nat /\ Tail(pipe[s]) \in Seq(Nat)
  BY <1>1, HeadTailProperties
<1>3. [kind |-> s, data |-> Head(pipe[s])] \in ServerFrame
  BY <1>2 DEF ServerFrame
<1>4. pipe' = [pipe EXCEPT ![s] = Tail(pipe[s])]
  BY DEF OutputReads
<1>5. writing' = <<[kind |-> s, data |-> Head(pipe[s])]>>
  BY DEF OutputReads
<1>6. /\ writing' \in Seq(ServerFrame) /\ Len(writing') = 1
      /\ \A i \in DOMAIN writing' : i = 1 /\ writing'[i].kind = s
  BY <1>3, <1>5
<1>7. /\ exec = "relay" /\ writing = <<>>
      /\ UNCHANGED <<callerVars, toBroker, inputVars, stdinPipe, childVars, tap, exec,
                          toClient, clientVars>>
  BY DEF OutputReads
<1> QED
  BY <1>1, <1>2, <1>4, <1>5, <1>6, <1>7

-----------------------------------------------------------------------------

\* The relay starts with nothing under way.
LEMMA RelayInit == Init => RelayInv
<1> SUFFICES ASSUME Init PROVE RelayInv
  OBVIOUS
<1> USE RelayAssumption DEF Init, Stream
<1>1. RelayTypes
  <2>1. /\ sourceEnd \in BOOLEAN /\ shut \in BOOLEAN /\ input \in BOOLEAN
        /\ stdinOpen \in BOOLEAN /\ childStdin \in BOOLEAN /\ gotEof \in BOOLEAN
    BY Zenon
  <2>2. writers \in [Stream -> BOOLEAN] /\ tap \in [Stream -> BOOLEAN]
    BY Zenon
  <2>3. pipe \in [Stream -> Seq(Nat)] /\ delivered \in [Stream -> Seq(Nat)]
    OBVIOUS
  <2> QED
    BY <2>1, <2>2, <2>3 DEF RelayTypes
<1>2. InStep
  BY DEF InStep
<1>3. InputInOrder
  BY DEF InputInOrder, Handed
<1>4. InputWhole
  BY DEF InputWhole, Handed, Live
<1>5. PipesInOrder
  BY DEF PipesInOrder, Taken
<1>6. FramesInOrder
  BY DEF FramesInOrder, LastIsLast, ExitTrue, StreamInOrder, Sent, Taken
<1>7. Reported
  BY DEF Reported
<1> QED
  BY <1>1, <1>2, <1>3, <1>4, <1>5, <1>6, <1>7 DEF RelayInv

\* Every step keeps the types and the processes in step.
LEMMA InStepNext ==
    RelayTypes /\ InStep /\ [Next]_vars => RelayTypes' /\ InStep'
<1> SUFFICES ASSUME RelayTypes, InStep, [Next]_vars PROVE RelayTypes' /\ InStep'
  OBVIOUS
<1> USE RelayAssumption DEF RelayTypes, InStep, callerVars, inputVars, childVars, outputVars, clientVars, Stream
<1>u. CASE UNCHANGED vars
  BY <1>u DEF vars
<1>1. CASE PumpReads
  BY <1>1 DEF PumpReads
<1>2. CASE SourceEnds
  BY <1>2 DEF SourceEnds
<1>3. CASE PumpSends
  <2>1. toBroker' \in Seq(ClientFrame) /\ shut' \in BOOLEAN
    <3>1. /\ [kind |-> "StdinChunk", data |-> given] \in ClientFrame
          /\ [kind |-> "StdinEof", data |-> 0] \in ClientFrame
      BY DEF ClientFrame
    <3>2. /\ Append(toBroker, [kind |-> "StdinChunk", data |-> given]) \in Seq(ClientFrame)
          /\ Append(toBroker, [kind |-> "StdinEof", data |-> 0]) \in Seq(ClientFrame)
      BY <3>1, AppendProperties
    <3> QED
      BY <1>3, <3>2, Zenon DEF PumpSends
  <2>2. pump' \in {"reading", "done"} /\ (pump' = "reading" => ~sourceEnd /\ shut' = shut /\ ~shut)
    BY <1>3 DEF PumpSends
  <2>3. UNCHANGED <<forwards, given, sourceEnd, inputVars, stdinPipe, childVars,
                   pipe, outputVars, toClient, clientVars>> /\ exec # "closed" /\ pump \in {"chunk", "eof"}
    BY <1>3 DEF PumpSends
  <2> QED
    BY <2>1, <2>2, <2>3
<1>4. CASE PumpFails
  BY <1>4 DEF PumpFails
<1>5. CASE ClientReads
  <2> DEFINE f == Head(toClient)
  <2>1. /\ toClient' = Tail(toClient) /\ toClient # <<>> /\ client = "running"
        /\ UNCHANGED <<toBroker, inputVars, stdinPipe, childVars, pipe, outputVars>>
    BY <1>5 DEF ClientReads
  <2>2. f \in ServerFrame /\ Tail(toClient) \in Seq(ServerFrame)
    BY <2>1, HeadTailProperties
  <2>3. f.data \in Nat /\ f.kind \in Stream \cup {"Exit", "Denied"}
    BY <2>2 DEF ServerFrame
  <2>4. \/ /\ f.kind \in Stream
           /\ delivered' = [delivered EXCEPT ![f.kind] = Append(@, f.data)]
           /\ UNCHANGED <<callerVars, client, outcome, code>>
        \/ Leave("exited", "status", f.data)
        \/ Leave("exited", "error", GATEWAY_ERROR_EXIT)
    BY <1>5, <2>3 DEF ClientReads
  <2> HIDE DEF f
  <2>5. CASE /\ f.kind \in Stream
             /\ delivered' = [delivered EXCEPT ![f.kind] = Append(@, f.data)]
             /\ UNCHANGED <<callerVars, client, outcome, code>>
    <3>1. Append(delivered[f.kind], f.data) \in Seq(Nat)
      BY <2>3, <2>5, AppendProperties
    <3>2. delivered' \in [Stream -> Seq(Nat)]
      BY <2>5, <3>1
    <3> QED
      BY <2>1, <2>2, <2>5, <3>2
  <2>6. CASE Leave("exited", "status", f.data)
    BY <2>1, <2>2, <2>3, <2>6 DEF Leave
  <2>7. CASE Leave("exited", "error", GATEWAY_ERROR_EXIT)
    BY <2>1, <2>2, <2>3, <2>7 DEF Leave, GATEWAY_ERROR_EXIT
  <2> QED
    BY <2>4, <2>5, <2>6, <2>7
<1>6. CASE ClientOutputFails
  BY <1>6 DEF ClientOutputFails, Leave, GATEWAY_ERROR_EXIT
<1>7. CASE ClientEof
  BY <1>7 DEF ClientEof, Leave, GATEWAY_ERROR_EXIT
<1>8. CASE ClientKilled
  BY <1>8 DEF ClientKilled, Leave
<1>9. CASE Spawn
  BY <1>9 DEF Spawn
<1>10. CASE SpawnFails
  BY <1>10 DEF SpawnFails, ServerFrame
<1>11. CASE Reaped
  BY <1>11 DEF Reaped, ServerFrame, exit_code_from_status, SIGNAL_EXIT_OFFSET
<1>12. CASE WriteFrame
  BY <1>12, ConcatProperties DEF WriteFrame
<1>13. CASE WriteFails
  BY <1>13, Dropped DEF WriteFails
<1>14. CASE BrokerStops
  BY <1>14, Dropped DEF BrokerStops
<1>15. CASE InputReads
  <2>0. toBroker # <<>> /\ Head(toBroker) \in ClientFrame /\ Tail(toBroker) \in Seq(ClientFrame)
    BY <1>15, HeadTailProperties DEF InputReads
  <2>1. /\ toBroker' = Tail(toBroker) /\ Tail(toBroker) \in Seq(ClientFrame)
        /\ Head(toBroker).data \in Nat /\ input /\ exec = "relay"
        /\ UNCHANGED <<callerVars, stdinPipe, childVars, pipe, outputVars, toClient, clientVars>>
    BY <1>15, <2>0 DEF InputReads, ClientFrame
  <2>2. CASE DropInput
    BY <2>1, <2>2, Dropped
  <2>3. CASE held' = <<Head(toBroker).data>> /\ UNCHANGED <<input, stdinOpen>>
    BY <2>1, <2>3
  <2> QED
    BY <1>15, <2>2, <2>3 DEF InputReads
<1>16. CASE InputEnds
  BY <1>16, Dropped DEF InputEnds
<1>17. CASE InputWrites
  BY <1>17, ConcatProperties DEF InputWrites
<1>18. CASE InputBreaks
  BY <1>18, Dropped DEF InputBreaks
<1>19. ASSUME NEW s \in Stream, OutputReads(s) PROVE RelayTypes' /\ InStep'
  <2>1. /\ exec = "relay" /\ pipe' \in [Stream -> Seq(Nat)]
        /\ writing' \in Seq(ServerFrame) /\ Len(writing') = 1
        /\ \A i \in DOMAIN writing' : writing'[i].kind \in Stream
        /\ UNCHANGED <<callerVars, toBroker, inputVars, stdinPipe, childVars, tap, exec,
                       toClient, clientVars>>
    BY <1>19, PipeRead
  <2> QED
    BY <2>1
<1>20. ASSUME NEW s \in Stream, OutputEof(s) PROVE RelayTypes' /\ InStep'
  BY <1>20 DEF OutputEof
<1>21. CASE OutputEnds
  BY <1>21, Dropped DEF OutputEnds
<1>22. CASE ChildChooses
  BY <1>22 DEF ChildChooses
<1>23. CASE ChildReads
  <2>1. stdinPipe' \in Seq(Nat) /\ got' \in Seq(Nat)
    <3>1. CASE stdinPipe # <<>>
      <4>1. got' = Append(got, Head(stdinPipe)) /\ stdinPipe' = Tail(stdinPipe)
        BY <1>23, <3>1 DEF ChildReads
      <4> QED
        BY <3>1, <4>1, HeadTailProperties, AppendProperties
    <3>2. CASE stdinPipe = <<>>
      BY <1>23, <3>2, Zenon DEF ChildReads
    <3> QED
      BY <3>1, <3>2
  <2>2. gotEof' \in BOOLEAN
    BY <1>23, Zenon DEF ChildReads
  <2>3. /\ child = "read" /\ child' = "choose"
        /\ UNCHANGED <<callerVars, toBroker, inputVars, childStdin, status, produced, writers,
                       pipe, outputVars, toClient, clientVars>>
    BY <1>23 DEF ChildReads
  <2> QED
    BY <2>1, <2>2, <2>3
<1>24. ASSUME NEW s \in Stream, ChildWrites(s) PROVE RelayTypes' /\ InStep'
  <2>1. CASE WritePipe(s) /\ UNCHANGED writers
    BY <1>24, <2>1, PipeWritten DEF ChildWrites
  <2>2. CASE exec # "relay" /\ writers' = [writers EXCEPT ![s] = FALSE] /\ UNCHANGED <<pipe, produced>>
    <3>1. writers' \in [Stream -> BOOLEAN]
      BY <2>2, Zenon
    <3> QED
      BY <1>24, <2>2, <3>1 DEF ChildWrites
  <2> QED
    BY <1>24, <2>1, <2>2 DEF ChildWrites
<1>25. CASE ChildCloses
  <2>1. childStdin' \in BOOLEAN /\ writers' \in [Stream -> BOOLEAN]
    <3>1. CASE childStdin' = FALSE /\ UNCHANGED writers
      BY <3>1, Zenon
    <3>2. ASSUME NEW s \in Stream, writers' = [writers EXCEPT ![s] = FALSE]
          PROVE  writers' \in [Stream -> BOOLEAN]
      BY <3>2, Zenon
    <3> QED
      BY <1>25, <3>1, <3>2, Zenon DEF ChildCloses
  <2> QED
    BY <1>25, <2>1 DEF ChildCloses
<1>26. CASE ChildExits
  BY <1>26 DEF ChildExits, End
<1>27. CASE ChildKilled
  BY <1>27 DEF ChildKilled, End
<1>28. ASSUME NEW s \in Stream, DescendantWrites(s) PROVE RelayTypes' /\ InStep'
  BY <1>28, PipeWritten DEF DescendantWrites
<1>29. ASSUME NEW s \in Stream, DescendantCloses(s) PROVE RelayTypes' /\ InStep'
  BY <1>29 DEF DescendantCloses
<1> HIDE DEF RelayTypes, InStep
<1> QED
  BY <1>u, <1>1, <1>2, <1>3, <1>4, <1>5, <1>6, <1>7, <1>8, <1>9, <1>10, <1>11, <1>12, <1>13, <1>14,
     <1>15, <1>16, <1>17, <1>18, <1>19, <1>20, <1>21, <1>22, <1>23, <1>24, <1>25, <1>26, <1>27,
     <1>28, <1>29
     DEF Next, SourceStep, PumpStep, ResponseStep, InputStep, OutputStep, ChildStep

-----------------------------------------------------------------------------
(* The caller's input. *)

\* A step that moves no input and gives the invariants no more to say.
InputKept ==
    /\ UNCHANGED <<forwards, given, sourceEnd, toBroker, input, held, stdinPipe, got>>
    /\ pump' = pump \/ pump' = "done"
    /\ client' = "running" => client = "running" /\ pump' = pump
    /\ exec' = exec \/ exec' \notin {"spawn", "relay"}
    /\ childStdin' => childStdin

\* Such a step keeps the input in order and whole.
LEMMA KeptInput ==
    ASSUME InputInOrder, InputWhole, InputKept
    PROVE  InputInOrder' /\ InputWhole'
<1>1. Handed' = Handed /\ (Live' => Live)
  BY DEF InputKept, Handed, Live
<1>2. InputInOrder'
  BY <1>1 DEF InputKept, InputInOrder
<1>3. InputWhole'
  BY <1>1 DEF InputKept, InputWhole
<1> QED
  BY <1>2, <1>3

\* Steps of the response direction, of the child's output and of its end.
LEMMA InputBystanders ==
    ASSUME RelayTypes, InStep, [Next]_vars
    PROVE  \/ InputKept
           \/ PumpReads \/ SourceEnds \/ PumpSends \/ PumpFails \/ Spawn
           \/ InputReads \/ InputEnds \/ InputWrites \/ InputBreaks
           \/ WriteFails \/ BrokerStops \/ OutputEnds \/ ChildReads
<1> USE DEF InputKept, callerVars, inputVars, childVars, outputVars, clientVars
<1>u. CASE UNCHANGED vars
  BY <1>u DEF vars
<1>1. CASE ClientReads
  <2>1. Head(toClient).kind \in Stream \cup {"Exit", "Denied"}
    <3>1. Head(toClient) \in ServerFrame
      BY <1>1, HeadTailProperties DEF ClientReads, RelayTypes
    <3> QED
      BY <3>1 DEF ServerFrame
  <2>2. \/ UNCHANGED <<callerVars, client, outcome, code>>
        \/ Leave("exited", "status", Head(toClient).data)
        \/ Leave("exited", "error", GATEWAY_ERROR_EXIT)
    BY <1>1, <2>1 DEF ClientReads
  <2> QED
    BY <1>1, <2>2 DEF ClientReads, Leave
<1>2. CASE ClientOutputFails \/ ClientEof \/ ClientKilled
  BY <1>2 DEF ClientOutputFails, ClientEof, ClientKilled, Leave
<1>3. CASE SpawnFails \/ Reaped \/ WriteFrame
  BY <1>3 DEF SpawnFails, Reaped, WriteFrame
<1>4. ASSUME NEW s \in Stream, OutputReads(s) \/ OutputEof(s) PROVE InputKept
  BY <1>4 DEF OutputReads, OutputEof
<1>5. CASE ChildChooses
  BY <1>5 DEF ChildChooses
<1>6. CASE ChildCloses
  BY <1>6 DEF ChildCloses
<1>7. ASSUME NEW st, End(st) PROVE InputKept
  BY <1>7 DEF End
<1>8. ASSUME NEW s \in Stream, ChildWrites(s) PROVE InputKept
  BY <1>8 DEF ChildWrites
<1>9. ASSUME NEW s \in Stream, DescendantWrites(s) \/ DescendantCloses(s) PROVE InputKept
  BY <1>9 DEF DescendantWrites, DescendantCloses
<1> HIDE DEF InputKept
<1> QED
  BY <1>u, <1>1, <1>2, <1>3, <1>4, <1>5, <1>6, <1>7, <1>8, <1>9
     DEF Next, SourceStep, PumpStep, ResponseStep, InputStep, OutputStep, ChildStep, ChildExits, ChildKilled

\* A dropped input direction has nothing more to say of what is in the connection.
LEMMA DroppedInput ==
    ASSUME RelayTypes, InputInOrder, DropInput, exec' # "spawn",
           UNCHANGED <<given, sourceEnd, pump, stdinPipe, got>>,
           toBroker' = toBroker \/ DOMAIN toBroker' = {}
    PROVE  InputInOrder'
<1>1. ~Live' /\ held' = <<>> /\ DOMAIN held' = {} /\ Len(held') = 0
  BY Dropped DEF Live
<1>2. /\ Len(got) \in Nat /\ Len(stdinPipe) \in Nat /\ Len(held) \in Nat /\ given \in Nat
  BY DEF RelayTypes
<1>3. Handed' <= given'
  BY <1>1, <1>2 DEF InputInOrder, Handed
<1> QED
  BY <1>1, <1>3 DEF InputInOrder

\* The input moves on through the connection, the relay and the child's pipe
\* without a chunk lost, doubled or overtaken.
LEMMA InputNext ==
    RelayTypes /\ InStep /\ InputInOrder /\ InputWhole /\ [Next]_vars
        => InputInOrder' /\ InputWhole'
<1> SUFFICES ASSUME RelayTypes, InStep, InputInOrder, InputWhole, [Next]_vars
             PROVE  InputInOrder' /\ InputWhole'
  OBVIOUS
<1>l. /\ Len(got) \in Nat /\ Len(stdinPipe) \in Nat /\ Len(held) \in Nat /\ Len(toBroker) \in Nat
      /\ given \in Nat /\ Handed \in Nat /\ held \in Seq(Nat) /\ stdinPipe \in Seq(Nat)
      /\ got \in Seq(Nat) /\ toBroker \in Seq(ClientFrame)
      /\ DOMAIN stdinPipe = 1..Len(stdinPipe) /\ DOMAIN held = 1..Len(held)
      /\ DOMAIN toBroker = 1..Len(toBroker)
  BY DEF RelayTypes, Handed
<1>n. /\ Len(got) \in Nat /\ Len(stdinPipe) \in Nat /\ Len(held) \in Nat /\ Len(toBroker) \in Nat
      /\ given \in Nat /\ Handed \in Nat
  BY <1>l
<1> USE DEF callerVars, inputVars, childVars, outputVars, clientVars
<1>1. CASE InputKept
  BY <1>1, KeptInput
<1>2. CASE PumpReads
  <2>1. /\ pump = "reading" /\ pump' = "chunk" /\ given' = given + 1
        /\ UNCHANGED <<forwards, sourceEnd, toBroker, input, held, stdinPipe, got, exec, client, childStdin>>
    BY <1>2 DEF PumpReads
  <2>2. Handed' = Handed /\ Live' = Live /\ ~sourceEnd
    BY <2>1 DEF Handed, Live, InStep
  <2>3. InputInOrder'
    BY <1>l, <2>1, <2>2 DEF InputInOrder
  <2>4. InputWhole'
    BY <1>l, <2>1, <2>2 DEF InputWhole
  <2> QED
    BY <2>3, <2>4
<1>3. CASE SourceEnds
  <2>1. /\ pump = "reading" /\ pump' = "eof" /\ sourceEnd'
        /\ UNCHANGED <<forwards, given, toBroker, input, held, stdinPipe, got, exec, client, childStdin>>
    BY <1>3 DEF SourceEnds
  <2>2. Handed' = Handed /\ Live' = Live
    BY <2>1 DEF Handed, Live
  <2>3. InputInOrder'
    BY <1>l, <2>1, <2>2 DEF InputInOrder
  <2>4. InputWhole'
    BY <1>l, <2>1, <2>2 DEF InputWhole
  <2> QED
    BY <2>3, <2>4
<1>4. CASE PumpSends
  <2>1. /\ UNCHANGED <<forwards, given, sourceEnd, input, held, stdinPipe, got, exec, client, childStdin>>
        /\ exec # "closed"
    BY <1>4 DEF PumpSends
  <2>2. Handed' = Handed /\ Live' = Live
    BY <2>1 DEF Handed, Live
  <2>3. \A k \in DOMAIN toBroker : toBroker[k].kind # "StdinEof"
    BY <1>4 DEF PumpSends, InputInOrder
  <2>4. client = "running"
    BY <1>4 DEF PumpSends, InStep
  <2>5. CASE /\ pump = "chunk" /\ pump' = "reading"
             /\ toBroker' = Append(toBroker, [kind |-> "StdinChunk", data |-> given])
    <3> DEFINE f == [kind |-> "StdinChunk", data |-> given]
               n == Len(toBroker)
    <3>1. f \in ClientFrame
      BY <1>l DEF ClientFrame
    <3>2. /\ DOMAIN toBroker' = 1..(n + 1) /\ Len(toBroker') = n + 1 /\ toBroker'[n + 1] = f
          /\ \A k \in 1..n : toBroker'[k] = toBroker[k]
      BY <1>l, <2>5, <3>1, AppendProperties
    <3>3. forwards
      BY <2>5 DEF InStep
    <3>4. Live => Handed + n + 1 = given
      BY <2>4, <2>5, <3>3 DEF InputWhole
    <3>5. InputInOrder'
      <4>1. \A k \in 1..(n + 1) : toBroker'[k].kind # "StdinEof"
        BY <1>l, <2>3, <3>2
      <4>2. ASSUME NEW k \in 1..(n + 1), Live
            PROVE  toBroker'[k].data = Handed + k /\ Handed + k <= given
        <5>1. CASE k = n + 1
          BY <1>l, <3>2, <3>4, <4>2, <5>1
        <5>2. CASE k # n + 1
          <6>1. k \in DOMAIN toBroker /\ toBroker'[k] = toBroker[k]
            BY <1>l, <3>2, <5>2
          <6> QED
            BY <2>3, <4>2, <6>1 DEF InputInOrder
        <5> QED
          BY <5>1, <5>2
      <4> QED
        BY <2>1, <2>2, <3>2, <4>1, <4>2 DEF InputInOrder
    <3>6. InputWhole'
      BY <1>l, <2>1, <2>2, <2>5, <3>2 DEF InputWhole
    <3> QED
      BY <3>5, <3>6
  <2>6. CASE /\ pump = "eof" /\ pump' = "done"
             /\ toBroker' = Append(toBroker, [kind |-> "StdinEof", data |-> 0])
    <3> DEFINE f == [kind |-> "StdinEof", data |-> 0]
               n == Len(toBroker)
    <3>1. f \in ClientFrame
      BY DEF ClientFrame
    <3>2. /\ DOMAIN toBroker' = 1..(n + 1) /\ Len(toBroker') = n + 1 /\ toBroker'[n + 1] = f
          /\ \A k \in 1..n : toBroker'[k] = toBroker[k]
      BY <1>l, <2>6, <3>1, AppendProperties
    <3>3. sourceEnd
      BY <2>6 DEF InStep
    <3>4. InputInOrder'
      BY <1>l, <2>1, <2>2, <2>3, <2>6, <3>2, <3>3 DEF InputInOrder
    <3>5. InputWhole'
      <4>1. toBroker' # <<>> /\ toBroker'[Len(toBroker')].kind = "StdinEof"
        BY <1>l, <3>2
      <4> QED
        BY <1>n, <2>1, <2>2, <2>6, <3>2, <3>3, <4>1 DEF InputWhole
    <3> QED
      BY <3>4, <3>5
  <2> QED
    BY <1>4, <2>5, <2>6 DEF PumpSends
<1>5. CASE PumpFails
  <2>1. /\ exec = "closed" /\ pump' = "done"
        /\ UNCHANGED <<forwards, given, sourceEnd, toBroker, input, held, stdinPipe, got, exec, client, childStdin>>
    BY <1>5 DEF PumpFails
  <2>2. Handed' = Handed /\ ~Live'
    BY <2>1 DEF Handed, Live, InStep
  <2> QED
    BY <2>1, <2>2 DEF InputInOrder, InputWhole
<1>6. CASE Spawn
  <2>1. /\ exec = "spawn" /\ exec' = "relay" /\ input'
        /\ UNCHANGED <<forwards, given, sourceEnd, pump, toBroker, held, stdinPipe, got, client>>
    BY <1>6 DEF Spawn
  <2>2. Handed' = Handed /\ Live /\ Live'
    BY <2>1 DEF Handed, Live
  <2> QED
    BY <2>1, <2>2 DEF InputInOrder, InputWhole
<1>7. CASE WriteFails \/ BrokerStops \/ OutputEnds
  <2>1. /\ DropInput /\ exec' \notin {"spawn", "relay"}
        /\ UNCHANGED <<given, sourceEnd, pump, toBroker, stdinPipe, got>>
    BY <1>7 DEF WriteFails, BrokerStops, OutputEnds
  <2>2. InputInOrder'
    BY <2>1, DroppedInput
  <2>3. InputWhole'
    BY <2>1, Dropped DEF InputWhole, Live
  <2> QED
    BY <2>2, <2>3
<1>8. CASE InputReads
  <2>1. /\ exec = "relay" /\ input /\ held = <<>> /\ toBroker # <<>> /\ toBroker' = Tail(toBroker)
        /\ UNCHANGED <<forwards, given, sourceEnd, pump, stdinPipe, got, exec, client, childStdin>>
    BY <1>8 DEF InputReads
  <2>2. /\ Head(toBroker) = toBroker[1] /\ Len(toBroker) >= 1 /\ toBroker[1] \in ClientFrame
        /\ Len(toBroker') = Len(toBroker) - 1 /\ DOMAIN toBroker' = 1..(Len(toBroker) - 1)
        /\ \A k \in 1..(Len(toBroker) - 1) : toBroker'[k] = toBroker[k + 1]
    BY <1>l, <2>1, HeadTailProperties
  <2>e. ASSUME NEW k \in 1..Len(toBroker)
        PROVE  IF toBroker[k].kind = "StdinEof"
               THEN k = Len(toBroker) /\ pump = "done" /\ sourceEnd
               ELSE toBroker[k].data = Handed + k /\ Handed + k <= given
    BY <1>l, <2>1 DEF InputInOrder, Live
  <2>3. CASE toBroker[1].kind = "StdinChunk"
    <3>1. held' = <<toBroker[1].data>> /\ input'
      BY <1>8, <2>1, <2>2, <2>3 DEF InputReads
    <3>2. /\ Len(held) = 0 /\ Live /\ Live'
      BY <2>1, <3>1 DEF Live
    <3>3. /\ Len(held') = 1 /\ DOMAIN held' = {1} /\ held'[1] = toBroker[1].data
      BY <3>1
    <3>4. Handed' = Handed + 1
      BY <1>l, <2>1, <3>2, <3>3 DEF Handed
    <3>5. toBroker[1].data = Handed + 1 /\ Handed + 1 <= given
      <4>1. 1 \in 1..Len(toBroker)
        BY <1>n, <2>2
      <4> QED
        BY <2>3, <2>e, <4>1
    <3>6. Handed = Len(got) + Len(stdinPipe)
      BY <1>l, <3>2 DEF Handed
    <3>7. \A k \in DOMAIN toBroker' :
             IF toBroker'[k].kind = "StdinEof"
             THEN k = Len(toBroker') /\ pump = "done" /\ sourceEnd
             ELSE toBroker'[k].data = Handed + 1 + k /\ Handed + 1 + k <= given
      <4> SUFFICES ASSUME NEW k \in 1..(Len(toBroker) - 1)
                   PROVE  IF toBroker[k + 1].kind = "StdinEof"
                          THEN k = Len(toBroker) - 1 /\ pump = "done" /\ sourceEnd
                          ELSE toBroker[k + 1].data = Handed + 1 + k /\ Handed + 1 + k <= given
        BY <2>2
      <4>1. k + 1 \in 1..Len(toBroker) /\ Handed + 1 + k = Handed + (k + 1)
        BY <1>l, <2>2
      <4>2. k + 1 = Len(toBroker) => k = Len(toBroker) - 1
        BY <1>n
      <4> QED
        BY <2>e, <4>1, <4>2
    <3>8. InputInOrder'
      BY <1>l, <2>1, <3>3, <3>4, <3>5, <3>6, <3>7 DEF InputInOrder
    <3>9. InputWhole'
      <4>1. ASSUME toBroker[Len(toBroker)].kind = "StdinEof"
            PROVE  toBroker' # <<>> /\ toBroker'[Len(toBroker')].kind = "StdinEof"
        BY <1>l, <2>2, <2>3, <4>1
      <4>2. Handed' + Len(toBroker') = Handed + Len(toBroker)
        BY <1>l, <2>2, <3>4
      <4> QED
        BY <1>l, <2>1, <3>1, <3>2, <4>1, <4>2 DEF InputWhole
    <3> QED
      BY <3>8, <3>9
  <2>4. CASE toBroker[1].kind # "StdinChunk"
    <3>1. DropInput
      BY <1>8, <2>2, <2>4 DEF InputReads
    <3>2. toBroker[1].kind = "StdinEof"
      BY <2>2, <2>4 DEF ClientFrame
    <3>3. Len(toBroker) = 1 /\ pump = "done" /\ sourceEnd
      <4>1. 1 \in 1..Len(toBroker)
        BY <1>n, <2>2
      <4> QED
        BY <2>e, <3>2, <4>1
    <3>4. InputInOrder'
      BY <2>1, <2>2, <3>1, <3>3, DroppedInput
    <3>5. forwards /\ client = "running" => Handed = given
      BY <1>l, <2>1, <3>3 DEF InputWhole, Live
    <3>6. Handed = Len(got) + Len(stdinPipe)
      BY <1>l, <2>1 DEF Handed
    <3> QED
      BY <2>1, <3>1, <3>3, <3>4, <3>5, <3>6, Dropped DEF InputWhole, Live
  <2> QED
    BY <2>3, <2>4
<1>9. CASE InputEnds
  <2>1. /\ DropInput /\ exec = "relay" /\ input /\ (forwards => toBroker = <<>> /\ shut)
        /\ UNCHANGED <<forwards, given, sourceEnd, pump, toBroker, stdinPipe, got, exec, client, childStdin>>
    BY <1>9 DEF InputEnds
  <2>2. InputInOrder'
    BY <2>1, DroppedInput
  <2>3. ~(forwards /\ client = "running")
    BY <2>1 DEF InputWhole, Live, InStep
  <2> QED
    BY <2>1, <2>2, <2>3 DEF InputWhole
<1>10. CASE InputWrites
  <2>1. /\ exec = "relay" /\ held # <<>> /\ stdinPipe' = stdinPipe \o held /\ held' = <<>>
        /\ UNCHANGED <<forwards, given, sourceEnd, pump, toBroker, input, got, exec, client, childStdin>>
    BY <1>10 DEF InputWrites
  <2>2. Len(held) = 1 /\ Len(held') = 0 /\ DOMAIN held' = {} /\ input
    BY <1>l, <2>1 DEF RelayTypes, InStep
  <2>3. /\ Len(stdinPipe') = Len(stdinPipe) + 1 /\ DOMAIN stdinPipe' = 1..(Len(stdinPipe) + 1)
        /\ \A k \in 1..Len(stdinPipe) : stdinPipe'[k] = stdinPipe[k]
        /\ stdinPipe'[Len(stdinPipe) + 1] = held[1]
    <3>1. /\ stdinPipe \o held \in Seq(Nat) /\ Len(stdinPipe \o held) = Len(stdinPipe) + 1
          /\ \A k \in 1..(Len(stdinPipe) + 1) : (stdinPipe \o held)[k] =
                IF k <= Len(stdinPipe) THEN stdinPipe[k] ELSE held[k - Len(stdinPipe)]
      <4>1. \A a, b \in Seq(Nat) :
              /\ a \o b \in Seq(Nat) /\ Len(a \o b) = Len(a) + Len(b)
              /\ \A k \in 1..(Len(a) + Len(b)) : (a \o b)[k] =
                    IF k <= Len(a) THEN a[k] ELSE b[k - Len(a)]
        BY ConcatProperties
      <4> QED
        BY <1>l, <2>2, <4>1, Zenon
    <3> QED
      BY <1>l, <2>1, <3>1
  <2>4. Handed' = Handed /\ Live' = Live
    BY <1>l, <2>1, <2>2, <2>3 DEF Handed, Live
  <2>5. held[1] = Len(got) + Len(stdinPipe) + 1
    BY <1>l, <2>2 DEF InputInOrder
  <2>6. InputInOrder'
    BY <1>l, <2>1, <2>2, <2>3, <2>4, <2>5 DEF InputInOrder
  <2>7. InputWhole'
    BY <2>1, <2>2, <2>4 DEF InputWhole
  <2> QED
    BY <2>6, <2>7
<1>11. CASE InputBreaks
  <2>1. /\ DropInput /\ exec = "relay" /\ ~childStdin
        /\ UNCHANGED <<forwards, given, sourceEnd, pump, toBroker, stdinPipe, got, exec, client, childStdin>>
    BY <1>11 DEF InputBreaks
  <2>2. InputInOrder'
    BY <2>1, DroppedInput
  <2> QED
    BY <2>1, <2>2, Dropped DEF InputWhole, Live
<1>12. CASE ChildReads
  <2>1. UNCHANGED <<forwards, given, sourceEnd, pump, toBroker, input, held, exec, client, childStdin>>
    BY <1>12 DEF ChildReads
  <2>2. CASE UNCHANGED <<got, stdinPipe>>
    BY <2>1, <2>2 DEF InputInOrder, InputWhole, Handed, Live
  <2>3. CASE stdinPipe # <<>> /\ got' = Append(got, Head(stdinPipe)) /\ stdinPipe' = Tail(stdinPipe)
    <3>1. /\ Len(stdinPipe) >= 1 /\ Len(stdinPipe') = Len(stdinPipe) - 1
          /\ DOMAIN stdinPipe' = 1..(Len(stdinPipe) - 1)
          /\ \A k \in 1..(Len(stdinPipe) - 1) : stdinPipe'[k] = stdinPipe[k + 1]
          /\ Head(stdinPipe) \in Nat
      BY <1>l, <2>3, HeadTailProperties
    <3>2. Len(got') = Len(got) + 1
      BY <1>l, <2>3, <3>1, AppendProperties
    <3>3. Handed' = Handed /\ Live' = Live
      BY <1>l, <2>1, <3>1, <3>2 DEF Handed, Live
    <3>4. \A k \in 1..(Len(stdinPipe) - 1) : stdinPipe'[k] = Len(got) + 1 + k
      <4>1. \A k \in 1..(Len(stdinPipe) - 1) : k + 1 \in 1..Len(stdinPipe)
        BY <1>l
      <4>2. \A k \in 1..Len(stdinPipe) : stdinPipe[k] = Len(got) + k
        BY <1>l DEF InputInOrder
      <4> QED
        BY <1>l, <3>1, <4>1, <4>2
    <3>5. \A k \in DOMAIN held : held[k] = Len(got) + 1 + (Len(stdinPipe) - 1) + k
      BY <1>l DEF InputInOrder
    <3>6. InputInOrder'
      BY <1>l, <2>1, <3>1, <3>2, <3>3, <3>4, <3>5 DEF InputInOrder
    <3>7. InputWhole'
      <4>1. Len(got') + Len(stdinPipe') = Len(got) + Len(stdinPipe)
        BY <1>l, <3>1, <3>2
      <4> QED
        BY <2>1, <3>3, <4>1 DEF InputWhole
    <3> QED
      BY <3>6, <3>7
  <2> QED
    BY <1>12, <2>2, <2>3 DEF ChildReads
<1> QED
  BY <1>1, <1>2, <1>3, <1>4, <1>5, <1>6, <1>7, <1>8, <1>9, <1>10, <1>11, <1>12, InputBystanders

-----------------------------------------------------------------------------
(* The child's output. *)

\* A step that moves no chunk through a pipe.
PipesKept ==
    /\ UNCHANGED <<produced, pipe, tap>>
    /\ \A s \in Stream : writers'[s] => writers[s]
    /\ child' = "unborn" <=> child = "unborn"
    /\ exec' = exec \/ exec' \notin {"relay", "wait"}

\* Such a step keeps the pipes in order.
LEMMA KeptPipes ==
    ASSUME PipesInOrder, PipesKept
    PROVE  PipesInOrder'
<1>1. \A s \in Stream : Taken(s)' = Taken(s)
  BY DEF PipesKept, Taken
<1> QED
  BY <1>1 DEF PipesKept, PipesInOrder

\* A chunk more in the pipe is the next one of its stream.
LEMMA PipeGrows ==
    ASSUME RelayTypes, PipesInOrder, NEW s \in Stream, WritePipe(s), writers[s],
           child # "unborn", child' # "unborn", UNCHANGED <<writers, tap, exec>>
    PROVE  /\ PipesInOrder'
           /\ \A t \in Stream : Taken(t)' = Taken(t)
<1> DEFINE n == Len(pipe[s])
           p == produced[s]
<1>1. /\ exec = "relay"
      /\ produced'[s] = p + 1 /\ pipe'[s] = Append(pipe[s], p + 1)
      /\ \A t \in Stream \ {s} : produced'[t] = produced[t] /\ pipe'[t] = pipe[t]
  BY PipeWritten
<1>2. n \in Nat /\ p \in Nat /\ n <= p /\ pipe[s] \in Seq(Nat) /\ DOMAIN pipe[s] = 1..n
  BY DEF RelayTypes, PipesInOrder
<1>3. /\ Len(pipe'[s]) = n + 1 /\ DOMAIN pipe'[s] = 1..(n + 1)
      /\ \A k \in 1..n : pipe'[s][k] = pipe[s][k]
      /\ pipe'[s][n + 1] = p + 1
  BY <1>1, <1>2, AppendProperties
<1>4. Taken(s)' = Taken(s) /\ Taken(s) = p - n
  BY <1>1, <1>2, <1>3 DEF Taken
<1>5. \A t \in Stream \ {s} : Taken(t)' = Taken(t)
  BY <1>1 DEF Taken
<1>6. \A k \in DOMAIN pipe'[s] : pipe'[s][k] = Taken(s) + k
  <2>1. \A k \in 1..n : pipe[s][k] = Taken(s) + k
    BY <1>2 DEF PipesInOrder
  <2>2. p + 1 = Taken(s) + (n + 1)
    BY <1>2, <1>4
  <2> QED
    BY <1>2, <1>3, <2>1, <2>2
<1>7. tap[s]
  BY <1>1 DEF PipesInOrder
<1>8. PipesInOrder'
  <2> SUFFICES ASSUME NEW t \in Stream
               PROVE  /\ Len(pipe'[t]) <= produced'[t]
                      /\ \A k \in DOMAIN pipe'[t] : pipe'[t][k] = Taken(t)' + k
                      /\ child' = "unborn" => ~writers'[t] /\ pipe'[t] = <<>>
                      /\ child' # "unborn" /\ exec' \in {"relay", "wait"} /\ (~tap'[t] \/ exec' = "wait") =>
                            pipe'[t] = <<>> /\ ~writers'[t]
    BY DEF PipesInOrder
  <2>1. CASE t = s
    <3>1. Len(pipe'[s]) <= produced'[s]
      BY <1>1, <1>2, <1>3
    <3> QED
      BY <1>1, <1>4, <1>6, <1>7, <2>1, <3>1
  <2>2. CASE t # s
    BY <1>1, <1>5, <2>2 DEF PipesInOrder
  <2> QED
    BY <2>1, <2>2
<1> QED
  BY <1>4, <1>5, <1>8

\* All but five kinds of steps move nothing through the pipes.
LEMMA PipeBystanders ==
    ASSUME RelayTypes, InStep, [Next]_vars
    PROVE  \/ PipesKept \/ Spawn \/ OutputEnds
           \/ \E s \in Stream : OutputReads(s) \/ OutputEof(s)
                                \/ (WritePipe(s) /\ (ChildWrites(s) \/ DescendantWrites(s)))
<1> USE DEF RelayTypes, PipesKept, callerVars, inputVars, childVars, outputVars, clientVars
<1>u. CASE UNCHANGED vars
  BY <1>u DEF vars
<1>1. CASE PumpReads \/ SourceEnds \/ PumpSends \/ PumpFails
  BY <1>1 DEF PumpReads, SourceEnds, PumpSends, PumpFails
<1>2. CASE ClientReads
  BY <1>2 DEF ClientReads
<1>3. CASE ClientOutputFails \/ ClientEof \/ ClientKilled
  BY <1>3 DEF ClientOutputFails, ClientEof, ClientKilled
<1>4. CASE SpawnFails \/ Reaped \/ WriteFrame \/ WriteFails \/ BrokerStops
  BY <1>4 DEF SpawnFails, Reaped, WriteFrame, WriteFails, BrokerStops
<1>5. CASE InputReads \/ InputEnds \/ InputWrites \/ InputBreaks
  BY <1>5 DEF InputReads, InputEnds, InputWrites, InputBreaks
<1>6. CASE ChildChooses
  BY <1>6 DEF ChildChooses, Stream
<1>7. CASE ChildReads
  BY <1>7 DEF ChildReads
<1>8. CASE ChildCloses
  BY <1>8 DEF ChildCloses
<1>9. ASSUME NEW st, child \in {"choose", "read"} \cup Stream, End(st) PROVE PipesKept
  BY <1>9 DEF End, Stream
<1>10. ASSUME NEW s \in Stream, ChildWrites(s), ~WritePipe(s) PROVE PipesKept
  BY <1>10 DEF ChildWrites, Stream
<1>11. ASSUME NEW s \in Stream, DescendantCloses(s) PROVE PipesKept
  BY <1>11 DEF DescendantCloses
<1>12. ASSUME NEW s \in Stream, DescendantWrites(s) PROVE WritePipe(s)
  BY <1>12 DEF DescendantWrites
<1> HIDE DEF RelayTypes, PipesKept
<1> QED
  BY <1>u, <1>1, <1>2, <1>3, <1>4, <1>5, <1>6, <1>7, <1>8, <1>9, <1>10, <1>11, <1>12
     DEF Next, SourceStep, PumpStep, ResponseStep, InputStep, OutputStep, ChildStep, ChildExits, ChildKilled

\* A write by the child or a descendant of it comes from a holder of the stream.
LEMMA WriterHolds ==
    ASSUME InStep, NEW s \in Stream, ChildWrites(s) \/ DescendantWrites(s), WritePipe(s)
    PROVE  /\ writers[s] /\ child # "unborn" /\ child' # "unborn"
           /\ UNCHANGED <<writers, tap, exec, writing, toClient, client, delivered, status,
                          outcome, code>>
<1>1. CASE ChildWrites(s)
  BY <1>1 DEF ChildWrites, WritePipe, InStep, Stream, outputVars, clientVars
<1>2. CASE DescendantWrites(s)
  BY <1>2 DEF DescendantWrites, outputVars, clientVars
<1> QED
  BY <1>1, <1>2

\* Every pipe holds the next chunks of its stream, and a stream that the relay has
\* given up has nobody left to write it.
LEMMA PipesNext ==
    RelayTypes /\ InStep /\ PipesInOrder /\ [Next]_vars => PipesInOrder'
<1> SUFFICES ASSUME RelayTypes, InStep, PipesInOrder, [Next]_vars PROVE PipesInOrder'
  OBVIOUS
<1>1. CASE PipesKept
  BY <1>1, KeptPipes
<1>2. CASE Spawn
  <2>1. /\ child = "unborn" /\ child' = "choose" /\ exec' = "relay"
        /\ UNCHANGED <<pipe, produced>> /\ \A s \in Stream : tap'[s]
    BY <1>2 DEF Spawn, InStep
  <2>2. \A s \in Stream : Taken(s)' = Taken(s)
    BY <2>1 DEF Taken
  <2> QED
    BY <2>1, <2>2 DEF PipesInOrder
<1>3. CASE OutputEnds
  <2>1. /\ exec = "relay" /\ exec' = "wait" /\ \A s \in Stream : ~tap[s]
        /\ UNCHANGED <<pipe, produced, child, writers, tap>>
    BY <1>3 DEF OutputEnds, childVars
  <2>2. \A s \in Stream : Taken(s)' = Taken(s)
    BY <2>1 DEF Taken
  <2> QED
    BY <2>1, <2>2 DEF PipesInOrder
<1>4. ASSUME NEW s \in Stream, OutputEof(s) PROVE PipesInOrder'
  <2>1. /\ exec = "relay" /\ pipe[s] = <<>> /\ ~writers[s]
        /\ tap' = [tap EXCEPT ![s] = FALSE]
        /\ UNCHANGED <<pipe, produced, child, writers, exec>>
    BY <1>4 DEF OutputEof, childVars
  <2>2. \A t \in Stream : Taken(t)' = Taken(t)
    BY <2>1 DEF Taken
  <2>3. \A t \in Stream \ {s} : tap'[t] = tap[t]
    BY <2>1 DEF RelayTypes
  <2> QED
    BY <2>1, <2>2, <2>3 DEF PipesInOrder
<1>5. ASSUME NEW s \in Stream, OutputReads(s) PROVE PipesInOrder'
  <2> DEFINE n == Len(pipe[s])
  <2>1. /\ exec = "relay" /\ pipe[s] # <<>> /\ pipe'[s] = Tail(pipe[s])
        /\ \A t \in Stream \ {s} : pipe'[t] = pipe[t]
        /\ UNCHANGED <<produced, child, writers, tap, exec>>
    BY <1>5, PipeRead DEF childVars
  <2>2. n \in Nat /\ produced[s] \in Nat /\ n <= produced[s] /\ pipe[s] \in Seq(Nat) /\ DOMAIN pipe[s] = 1..n
    BY DEF RelayTypes, PipesInOrder
  <2>3. /\ Len(pipe'[s]) = n - 1 /\ DOMAIN pipe'[s] = 1..(n - 1)
        /\ \A k \in 1..(n - 1) : pipe'[s][k] = pipe[s][k + 1]
    BY <2>1, <2>2, HeadTailProperties
  <2>4. Taken(s)' = Taken(s) + 1 /\ Taken(s) = produced[s] - n
    BY <2>1, <2>2, <2>3 DEF Taken
  <2>5. \A t \in Stream \ {s} : Taken(t)' = Taken(t)
    BY <2>1 DEF Taken
  <2>6. \A k \in 1..(n - 1) : pipe'[s][k] = Taken(s)' + k
    <3>1. \A k \in 1..n : pipe[s][k] = Taken(s) + k
      BY <2>2 DEF PipesInOrder
    <3>2. \A k \in 1..(n - 1) : k + 1 \in 1..n /\ Taken(s) + (k + 1) = Taken(s) + 1 + k
      <4>1. n \in Nat /\ Taken(s) \in Int
        BY <2>2, <2>4
      <4> QED
        BY <4>1
    <3> QED
      BY <2>3, <2>4, <3>1, <3>2
  <2> SUFFICES ASSUME NEW t \in Stream
               PROVE  /\ Len(pipe'[t]) <= produced'[t]
                      /\ \A k \in DOMAIN pipe'[t] : pipe'[t][k] = Taken(t)' + k
                      /\ child' = "unborn" => ~writers'[t] /\ pipe'[t] = <<>>
                      /\ child' # "unborn" /\ exec' \in {"relay", "wait"} /\ (~tap'[t] \/ exec' = "wait") =>
                            pipe'[t] = <<>> /\ ~writers'[t]
    BY DEF PipesInOrder
  <2>7. CASE t = s
    <3>1. Len(pipe'[s]) <= produced'[s]
      BY <2>1, <2>2, <2>3
    <3>2. tap[s] /\ child # "unborn"
      BY <2>1 DEF PipesInOrder
    <3> QED
      BY <2>1, <2>3, <2>6, <2>7, <3>1, <3>2
  <2>8. CASE t # s
    BY <2>1, <2>5, <2>8 DEF PipesInOrder
  <2> QED
    BY <2>7, <2>8
<1>6. ASSUME NEW s \in Stream, WritePipe(s), ChildWrites(s) \/ DescendantWrites(s) PROVE PipesInOrder'
  BY <1>6, WriterHolds, PipeGrows
<1> QED
  BY <1>1, <1>2, <1>3, <1>4, <1>5, <1>6, PipeBystanders

-----------------------------------------------------------------------------
(* The frames on their way to the client. *)

\* The frames the client has not read are a sequence of frames.
LEMMA SentType ==
    ASSUME RelayTypes
    PROVE  /\ Sent \in Seq(ServerFrame) /\ Len(Sent) \in Nat /\ DOMAIN Sent = 1..Len(Sent)
           /\ Len(Sent) = Len(toClient) + Len(writing)
           /\ \A i \in 1..Len(toClient) : Sent[i] = toClient[i]
           /\ writing = <<>> => Sent = toClient
           /\ \A s \in Stream : /\ Len(delivered[s]) \in Nat /\ produced[s] \in Nat
                                /\ Len(pipe[s]) \in Nat /\ Taken(s) \in Int
           /\ \A i \in DOMAIN Sent : Sent[i].data \in Nat
<1>1. toClient \in Seq(ServerFrame) /\ writing \in Seq(ServerFrame)
  BY DEF RelayTypes
<1>2. /\ Sent \in Seq(ServerFrame) /\ Len(Sent) = Len(toClient) + Len(writing)
      /\ \A i \in 1..(Len(toClient) + Len(writing)) : Sent[i] =
            IF i <= Len(toClient) THEN toClient[i] ELSE writing[i - Len(toClient)]
  BY <1>1, ConcatProperties DEF Sent
<1>3. \A i \in 1..Len(toClient) : Sent[i] = toClient[i]
  <2>1. Len(toClient) \in Nat /\ Len(writing) \in Nat
    BY <1>1
  <2> QED
    BY <1>2, <2>1
<1>4. writing = <<>> => Sent = toClient
  BY <1>1, ConcatEmptySeq DEF Sent
<1>5. Len(Sent) \in Nat /\ DOMAIN Sent = 1..Len(Sent)
  BY <1>2
<1>6. \A s \in Stream : /\ Len(delivered[s]) \in Nat /\ produced[s] \in Nat
                        /\ Len(pipe[s]) \in Nat /\ Taken(s) \in Int
  BY DEF RelayTypes, Taken
<1>7. \A i \in DOMAIN Sent : Sent[i].data \in Nat
  <2>1. \A i \in DOMAIN Sent : Sent[i] \in ServerFrame
    BY <1>2
  <2> QED
    BY <2>1 DEF ServerFrame
<1> QED
  BY <1>2, <1>3, <1>4, <1>5, <1>6, <1>7

\* A step that sends, delivers and loses nothing.
FramesKept ==
    /\ UNCHANGED <<toClient, writing, pipe, produced, delivered, exec, client>>
    /\ status # NoStatus => status' = status
    /\ \A s \in Stream : writers'[s] => writers[s]

\* Such a step keeps the frames in order.
LEMMA KeptFrames ==
    ASSUME FramesInOrder, FramesKept
    PROVE  FramesInOrder'
<1>1. /\ Sent' = Sent /\ \A s \in Stream : Taken(s)' = Taken(s)
      /\ \A s, n : Carries(s, n)' <=> Carries(s, n)
  BY DEF FramesKept, Sent, Taken, Carries
<1> QED
  BY <1>1 DEF FramesKept, FramesInOrder, LastIsLast, ExitTrue, StreamInOrder

\* The client hands a chunk to its caller.
Delivers(s) ==
    /\ client = "running" /\ toClient # <<>> /\ Head(toClient).kind = s
    /\ toClient' = Tail(toClient)
    /\ delivered' = [delivered EXCEPT ![s] = Append(@, Head(toClient).data)]
    /\ UNCHANGED <<writing, pipe, produced, exec, client, outcome, code, status, writers>>

\* What the other steps do to the frames.
LEMMA FrameSteps ==
    ASSUME RelayTypes, InStep, [Next]_vars
    PROVE  \/ FramesKept \/ client' # "running"
           \/ Spawn \/ SpawnFails \/ Reaped \/ WriteFrame \/ BrokerStops \/ OutputEnds
           \/ \E s \in Stream : Delivers(s) \/ OutputReads(s)
                                \/ (WritePipe(s) /\ (ChildWrites(s) \/ DescendantWrites(s)))
<1> USE DEF RelayTypes, FramesKept, callerVars, inputVars, childVars, outputVars, clientVars
<1>u. CASE UNCHANGED vars
  BY <1>u DEF vars
<1>1. CASE PumpReads \/ SourceEnds \/ PumpSends \/ PumpFails
  BY <1>1 DEF PumpReads, SourceEnds, PumpSends, PumpFails
<1>2. CASE ClientReads
  <2>1. Head(toClient) \in ServerFrame
    BY <1>2, HeadTailProperties DEF ClientReads
  <2>2. Head(toClient).kind \in Stream \cup {"Exit", "Denied"}
    BY <2>1 DEF ServerFrame
  <2>3. CASE Head(toClient).kind \in Stream
    <3>1. /\ client = "running" /\ toClient # <<>> /\ toClient' = Tail(toClient)
          /\ delivered' = [delivered EXCEPT ![Head(toClient).kind] = Append(@, Head(toClient).data)]
          /\ UNCHANGED <<writing, pipe, produced, exec, client, outcome, code, status, writers>>
      BY <1>2, <2>3 DEF ClientReads, Stream
    <3>2. Delivers(Head(toClient).kind)
      BY <3>1, Zenon DEF Delivers
    <3> QED
      BY <2>3, <3>2
  <2>4. CASE Head(toClient).kind \in {"Exit", "Denied"}
    BY <1>2, <2>4 DEF ClientReads, Leave, Stream
  <2> QED
    BY <2>2, <2>3, <2>4
<1>3. CASE ClientOutputFails \/ ClientEof \/ ClientKilled
  BY <1>3 DEF ClientOutputFails, ClientEof, ClientKilled, Leave
<1>4. CASE WriteFails
  BY <1>4 DEF WriteFails
<1>5. CASE InputReads \/ InputEnds \/ InputWrites \/ InputBreaks
  BY <1>5 DEF InputReads, InputEnds, InputWrites, InputBreaks
<1>6. CASE ChildChooses \/ ChildReads
  BY <1>6 DEF ChildChooses, ChildReads
<1>7. CASE ChildCloses
  BY <1>7 DEF ChildCloses
<1>8. ASSUME NEW st, child \in {"choose", "read"} \cup Stream, End(st) PROVE FramesKept
  BY <1>8 DEF End, Stream, InStep
<1>9. ASSUME NEW s \in Stream, ChildWrites(s), ~WritePipe(s) PROVE FramesKept
  BY <1>9 DEF ChildWrites
<1>10. ASSUME NEW s \in Stream, OutputEof(s) \/ DescendantCloses(s) PROVE FramesKept
  BY <1>10 DEF OutputEof, DescendantCloses
<1>11. ASSUME NEW s \in Stream, DescendantWrites(s) PROVE WritePipe(s)
  BY <1>11 DEF DescendantWrites
<1> HIDE DEF RelayTypes, FramesKept
<1> QED
  BY <1>u, <1>1, <1>2, <1>3, <1>4, <1>5, <1>6, <1>7, <1>8, <1>9, <1>10, <1>11
     DEF Next, SourceStep, PumpStep, ResponseStep, InputStep, OutputStep, ChildStep, ChildExits, ChildKilled

\* The next frame of a stream carries the next chunk of it.
LEMMA NextDelivered ==
    ASSUME RelayTypes, NEW s \in Stream, StreamInOrder(s), Len(Sent) >= 1, Sent[1].kind = s
    PROVE  Sent[1].data = Len(delivered[s]) + 1
<1> DEFINE d == Len(delivered[s])
<1>1. /\ 1 \in DOMAIN Sent /\ d \in Nat /\ \A i \in DOMAIN Sent : Sent[i].data \in Nat
      /\ DOMAIN Sent = 1..Len(Sent) /\ Len(Sent) \in Nat
  BY SentType
<1>2. /\ d < Sent[1].data
      /\ \A j \in DOMAIN Sent : Sent[j].kind = s /\ 1 < j => Sent[1].data < Sent[j].data
      /\ \A n \in (d + 1)..Sent[1].data : Carries(s, n)
  BY <1>1 DEF StreamInOrder
<1>3. Carries(s, d + 1)
  BY <1>1, <1>2
<1>4. PICK j \in DOMAIN Sent : Sent[j].kind = s /\ Sent[j].data = d + 1
  BY <1>3 DEF Carries
<1> QED
  BY <1>1, <1>2, <1>4

\* Delivering the first frame keeps the rest in order.
LEMMA DeliveredInOrder ==
    ASSUME RelayTypes, RelayTypes', FramesInOrder, NEW s \in Stream, Delivers(s)
    PROVE  FramesInOrder'
<1> DEFINE m == Len(Sent)
           d == Len(delivered[s])
<1>1. /\ m \in Nat /\ DOMAIN Sent = 1..m /\ d \in Nat /\ m >= 1 /\ Sent[1].kind = s
      /\ \A i \in DOMAIN Sent : Sent[i].data \in Nat
  <2>1. toClient \in Seq(ServerFrame) /\ toClient # <<>>
    BY DEF RelayTypes, Delivers
  <2>2. Len(toClient) \in Nat /\ Len(toClient) >= 1 /\ Head(toClient) = toClient[1] /\ Len(writing) \in Nat
    <3>1. writing \in Seq(ServerFrame)
      BY DEF RelayTypes
    <3> QED
      BY <2>1, <3>1
  <2>3. /\ Len(Sent) \in Nat /\ DOMAIN Sent = 1..Len(Sent) /\ Len(delivered[s]) \in Nat
        /\ Len(Sent) = Len(toClient) + Len(writing)
        /\ \A i \in 1..Len(toClient) : Sent[i] = toClient[i]
        /\ \A i \in DOMAIN Sent : Sent[i].data \in Nat
    BY SentType
  <2>4. Sent[1] = toClient[1]
    BY <2>2, <2>3
  <2>5. Head(toClient).kind = s
    BY DEF Delivers
  <2> QED
    BY <2>2, <2>3, <2>4, <2>5
<1>2. /\ DOMAIN Sent' = 1..(m - 1) /\ Len(Sent') = m - 1
      /\ \A i \in 1..(m - 1) : Sent'[i] = Sent[i + 1]
  <2>1. toClient \in Seq(ServerFrame) /\ toClient # <<>> /\ writing \in Seq(ServerFrame)
    BY DEF RelayTypes, Delivers
  <2>2. Sent' = Tail(toClient) \o writing /\ Sent = toClient \o writing
    BY DEF Sent, Delivers
  <2> QED
    BY <2>1, <2>2
<1>3. /\ LastIsLast /\ ExitTrue /\ \A t \in Stream : StreamInOrder(t)
  BY DEF FramesInOrder, Delivers
<1>4. Sent[1].data = d + 1
  BY <1>1, <1>3, NextDelivered
<1>5. /\ Len(delivered'[s]) = d + 1 /\ \A t \in Stream \ {s} : delivered'[t] = delivered[t]
      /\ \A t \in Stream : Taken(t)' = Taken(t) /\ Taken(t) \in Int
      /\ UNCHANGED <<pipe, produced, exec, status, writers>>
  <2>1. delivered' = [delivered EXCEPT ![s] = Append(@, Head(toClient).data)] /\ delivered \in [Stream -> Seq(Nat)]
    BY DEF Delivers, RelayTypes
  <2>2. /\ delivered'[s] = Append(delivered[s], Head(toClient).data)
        /\ \A t \in Stream \ {s} : delivered'[t] = delivered[t]
    BY <2>1
  <2>3. Len(delivered'[s]) = d + 1
    BY <2>1, <2>2
  <2>4. UNCHANGED <<pipe, produced, exec, status, writers>>
    BY DEF Delivers
  <2>5. \A t \in Stream : Taken(t)' = Taken(t) /\ Taken(t) \in Int
    BY <2>4, SentType DEF Taken
  <2> QED
    BY <2>2, <2>3, <2>4, <2>5
<1>6. ASSUME NEW t \in Stream, NEW n \in Nat, Carries(t, n), t # s \/ n # d + 1
      PROVE  Carries(t, n)'
  <2>1. PICK j \in 1..m : Sent[j].kind = t /\ Sent[j].data = n
    BY <1>1, <1>6 DEF Carries
  <2>2. j # 1
    BY <1>1, <1>4, <1>6, <2>1
  <2>3. j - 1 \in 1..(m - 1) /\ (j - 1) + 1 = j
    BY <1>1, <2>2
  <2>4. Sent'[j - 1] = Sent[j]
    BY <1>2, <2>3
  <2> QED
    BY <1>2, <2>1, <2>3, <2>4 DEF Carries
<1>7. \A i \in 1..(m - 1) : i + 1 \in DOMAIN Sent /\ (i + 1 = m => i = m - 1)
  BY <1>1
<1>8. LastIsLast'
  BY <1>2, <1>3, <1>5, <1>7 DEF LastIsLast
<1>9. ExitTrue'
  <2> SUFFICES ASSUME NEW i \in 1..(m - 1), Sent[i + 1].kind = "Exit"
               PROVE  /\ status # NoStatus /\ Sent[i + 1].data = exit_code_from_status(status)
                      /\ \A t \in Stream :
                            /\ pipe[t] = <<>> /\ ~writers[t]
                            /\ \A n \in (Len(delivered'[t]) + 1)..produced[t] : Carries(t, n)'
    BY <1>2, <1>5 DEF ExitTrue
  <2>1. /\ status # NoStatus /\ Sent[i + 1].data = exit_code_from_status(status)
        /\ \A t \in Stream :
              /\ pipe[t] = <<>> /\ ~writers[t]
              /\ \A n \in (Len(delivered[t]) + 1)..produced[t] : Carries(t, n)
    BY <1>3, <1>7 DEF ExitTrue
  <2>2. ASSUME NEW t \in Stream, NEW n \in (Len(delivered'[t]) + 1)..produced[t]
        PROVE  Carries(t, n)'
    <3>1. produced[t] \in Nat /\ Len(delivered[t]) \in Nat
      BY SentType
    <3>2. CASE t = s
      <4>1. n \in (d + 1)..produced[s] /\ n # d + 1 /\ n \in Nat
        BY <1>1, <1>5, <3>1, <3>2
      <4> QED
        BY <1>6, <2>1, <3>2, <4>1
    <3>3. CASE t # s
      <4>1. n \in (Len(delivered[t]) + 1)..produced[t] /\ n \in Nat
        BY <1>5, <3>1, <3>3
      <4> QED
        BY <1>6, <2>1, <3>3, <4>1
    <3> QED
      BY <3>2, <3>3
  <2> QED
    BY <2>1, <2>2
<1>10. ASSUME NEW t \in Stream PROVE StreamInOrder(t)'
  <2> DEFINE e == Len(delivered'[t])
  <2>1. /\ Len(delivered[t]) \in Nat /\ Len(delivered[t]) <= Taken(t)
        /\ e = IF t = s THEN d + 1 ELSE Len(delivered[t])
        /\ e \in Nat /\ e >= Len(delivered[t])
    BY <1>1, <1>3, <1>5, SentType DEF StreamInOrder
  <2>2. ASSUME NEW i \in 1..m, Sent[i].kind = t
        PROVE  /\ Len(delivered[t]) < Sent[i].data /\ Sent[i].data <= Taken(t)
               /\ \A j \in 1..m : Sent[j].kind = t /\ i < j => Sent[i].data < Sent[j].data
               /\ \A n \in (Len(delivered[t]) + 1)..Sent[i].data : Carries(t, n)
    BY <1>1, <1>3, <2>2 DEF StreamInOrder
  <2>3. e <= Taken(t)
    <3>1. CASE t = s
      <4>1. 1 \in 1..m
        BY <1>1
      <4>2. Sent[1].data <= Taken(s)
        BY <1>1, <2>2, <3>1, <4>1
      <4> QED
        BY <1>4, <2>1, <3>1, <4>2
    <3>2. CASE t # s
      BY <2>1, <3>2
    <3> QED
      BY <3>1, <3>2
  <2>4. ASSUME NEW n \in Nat, Carries(t, n), n > e PROVE Carries(t, n)'
    BY <1>1, <1>6, <2>1, <2>4
  <2>5. ASSUME NEW i \in 1..(m - 1), Sent[i + 1].kind = t
        PROVE  /\ e < Sent[i + 1].data /\ Sent[i + 1].data <= Taken(t)
               /\ \A j \in 1..(m - 1) : Sent[j + 1].kind = t /\ i < j => Sent[i + 1].data < Sent[j + 1].data
               /\ \A n \in (e + 1)..Sent[i + 1].data : Carries(t, n)'
    <3>1. i + 1 \in 1..m /\ 1 \in 1..m /\ 1 < i + 1 /\ Sent[i + 1].data \in Nat
      BY <1>1
    <3>2. e < Sent[i + 1].data
      <4>1. CASE t = s
        BY <1>1, <1>4, <2>1, <2>2, <2>5, <3>1, <4>1
      <4>2. CASE t # s
        BY <2>1, <2>2, <2>5, <3>1, <4>2
      <4> QED
        BY <4>1, <4>2
    <3>3. \A j \in 1..(m - 1) : i < j => i + 1 < j + 1 /\ j + 1 \in 1..m
      BY <1>1
    <3>4. \A j \in 1..(m - 1) : Sent[j + 1].kind = t /\ i < j => Sent[i + 1].data < Sent[j + 1].data
      BY <2>2, <2>5, <3>1, <3>3
    <3>5. ASSUME NEW n \in (e + 1)..Sent[i + 1].data PROVE Carries(t, n)'
      <4>1. n \in Nat /\ n > e /\ n \in (Len(delivered[t]) + 1)..Sent[i + 1].data
        BY <2>1, <3>1
      <4>2. Carries(t, n)
        BY <2>2, <2>5, <3>1, <4>1
      <4> QED
        BY <2>4, <4>1, <4>2
    <3> QED
      BY <2>2, <2>5, <3>1, <3>2, <3>4, <3>5
  <2>6. ASSUME exec \in {"relay", "wait"}, NEW n \in (e + 1)..Taken(t) PROVE Carries(t, n)'
    <3>1. n \in Nat /\ n > e /\ n \in (Len(delivered[t]) + 1)..Taken(t)
      BY <1>5, <2>1
    <3>2. Carries(t, n)
      BY <1>3, <2>6, <3>1 DEF StreamInOrder
    <3> QED
      BY <2>4, <3>1, <3>2
  <2> HIDE DEF e
  <2>7. e = Len(delivered'[t])
    BY DEF e
  <2>8. \A i \in DOMAIN Sent' : Sent'[i].kind = t =>
          /\ Len(delivered'[t]) < Sent'[i].data /\ Sent'[i].data <= Taken(t)'
          /\ \A j \in DOMAIN Sent' : Sent'[j].kind = t /\ i < j => Sent'[i].data < Sent'[j].data
          /\ \A n \in (Len(delivered'[t]) + 1)..Sent'[i].data : Carries(t, n)'
    <3> SUFFICES ASSUME NEW i \in 1..(m - 1), Sent'[i].kind = t
                 PROVE  /\ e < Sent'[i].data /\ Sent'[i].data <= Taken(t)'
                        /\ \A j \in 1..(m - 1) : Sent'[j].kind = t /\ i < j => Sent'[i].data < Sent'[j].data
                        /\ \A n \in (e + 1)..Sent'[i].data : Carries(t, n)'
      BY <1>2, <2>7, Zenon
    <3>1. Sent'[i] = Sent[i + 1] /\ \A j \in 1..(m - 1) : Sent'[j] = Sent[j + 1]
      BY <1>2
    <3>2. Sent[i + 1].kind = t
      BY <3>1
    <3>3. Taken(t)' = Taken(t)
      BY <1>5
    <3> QED
      BY <2>5, <3>1, <3>2, <3>3
  <2>9. exec' \in {"relay", "wait"} =>
          \A n \in (Len(delivered'[t]) + 1)..Taken(t)' : Carries(t, n)'
    BY <1>5, <2>6, <2>7
  <2>10. Len(delivered'[t]) <= Taken(t)'
    BY <1>5, <2>3, <2>7
  <2> QED
    BY <2>8, <2>9, <2>10, Zenon DEF StreamInOrder
<1> QED
  BY <1>8, <1>9, <1>10 DEF FramesInOrder

\* A step that leaves the unread frames and the taken chunks as they are keeps
\* the order, if it goes no way back and disturbs no exit code.
LEMMA SameFrames ==
    ASSUME FramesInOrder, client' = client, Sent' = Sent, delivered' = delivered,
           \A s \in Stream : Taken(s)' = Taken(s),
           exec' \in {"relay", "wait"} => exec \in {"relay", "wait"},
           exec \in {"exit", "closed"} => exec' \in {"exit", "closed"},
           exec = "relay" \/ UNCHANGED <<pipe, produced, writers, status>>
    PROVE  FramesInOrder'
<1> SUFFICES ASSUME client = "running" PROVE LastIsLast' /\ ExitTrue' /\ \A s \in Stream : StreamInOrder(s)'
  BY DEF FramesInOrder
<1>1. LastIsLast /\ ExitTrue /\ \A s \in Stream : StreamInOrder(s)
  BY DEF FramesInOrder
<1>2. \A s, n : Carries(s, n)' <=> Carries(s, n)
  BY DEF Carries
<1>3. LastIsLast'
  BY <1>1 DEF LastIsLast
<1>4. ExitTrue'
  <2>1. CASE exec = "relay"
    <3>1. \A i \in DOMAIN Sent : Sent[i].kind # "Exit"
      BY <1>1, <2>1 DEF LastIsLast, Stream
    <3> QED
      BY <3>1 DEF ExitTrue
  <2>2. CASE UNCHANGED <<pipe, produced, writers, status>>
    BY <1>1, <1>2, <2>2 DEF ExitTrue
  <2> QED
    BY <2>1, <2>2
<1>5. ASSUME NEW s \in Stream PROVE StreamInOrder(s)'
  BY <1>1, <1>2 DEF StreamInOrder
<1> QED
  BY <1>3, <1>4, <1>5

\* One more frame: the ones before it are where they were.
LEMMA OneMoreFrame ==
    ASSUME RelayTypes, NEW f \in ServerFrame, Sent' = Append(Sent, f)
    PROVE  /\ Len(Sent') = Len(Sent) + 1 /\ DOMAIN Sent' = 1..(Len(Sent) + 1)
           /\ Sent'[Len(Sent) + 1] = f
           /\ \A i \in 1..Len(Sent) : Sent'[i] = Sent[i]
           /\ \A s, n : Carries(s, n) => Carries(s, n)'
           /\ \A s, n : s = f.kind /\ n = f.data => Carries(s, n)'
<1>1. Sent \in Seq(ServerFrame) /\ Len(Sent) \in Nat /\ DOMAIN Sent = 1..Len(Sent)
  BY SentType
<1>2. /\ Len(Sent') = Len(Sent) + 1 /\ DOMAIN Sent' = 1..(Len(Sent) + 1)
      /\ Sent'[Len(Sent) + 1] = f
      /\ \A i \in 1..Len(Sent) : Sent'[i] = Sent[i]
  BY <1>1, AppendProperties
<1>3. \A i \in 1..Len(Sent) : i \in 1..(Len(Sent) + 1)
  BY <1>1
<1>4. \A s, n : Carries(s, n) => Carries(s, n)'
  BY <1>1, <1>2, <1>3 DEF Carries
<1>5. Len(Sent) + 1 \in 1..(Len(Sent) + 1)
  BY <1>1
<1>6. \A s, n : s = f.kind /\ n = f.data => Carries(s, n)'
  BY <1>2, <1>5 DEF Carries
<1> QED
  BY <1>2, <1>4, <1>6

\* A broken-off frame: the ones before it stay in order.
LEMMA BrokenOffInOrder ==
    ASSUME RelayTypes, RelayTypes', FramesInOrder, BrokerStops
    PROVE  FramesInOrder'
<1> SUFFICES ASSUME client = "running" PROVE LastIsLast' /\ ExitTrue' /\ \A s \in Stream : StreamInOrder(s)'
  BY DEF FramesInOrder, BrokerStops, clientVars
<1>1. LastIsLast /\ ExitTrue /\ \A s \in Stream : StreamInOrder(s)
  BY DEF FramesInOrder
<1>2. /\ UNCHANGED <<toClient, pipe, produced, writers, status, delivered>> /\ writing' = <<>> /\ exec' = "closed"
  BY DEF BrokerStops, childVars, clientVars
<1>3. /\ Sent' = toClient /\ Len(toClient) \in Nat /\ DOMAIN toClient = 1..Len(toClient)
      /\ Len(Sent) \in Nat /\ DOMAIN Sent = 1..Len(Sent) /\ Len(toClient) <= Len(Sent)
      /\ \A i \in 1..Len(toClient) : Sent[i] = toClient[i] /\ i \in DOMAIN Sent
      /\ Len(toClient) = Len(Sent) => Sent = toClient
  <2>1. toClient \in Seq(ServerFrame) /\ writing \in Seq(ServerFrame)
    BY DEF RelayTypes
  <2>2. Len(toClient) \in Nat /\ Len(writing) \in Nat /\ DOMAIN toClient = 1..Len(toClient)
    BY <2>1
  <2>3. Sent' = toClient
    BY <1>2, <2>1, ConcatEmptySeq DEF Sent
  <2>4. /\ Len(Sent) \in Nat /\ DOMAIN Sent = 1..Len(Sent) /\ Len(Sent) = Len(toClient) + Len(writing)
        /\ \A i \in 1..Len(toClient) : Sent[i] = toClient[i]
        /\ writing = <<>> => Sent = toClient
    BY SentType
  <2>5. Len(writing) = 0 => writing = <<>>
    BY <2>1, EmptySeq
  <2>6. Len(toClient) <= Len(Sent) /\ (Len(toClient) = Len(Sent) => Len(writing) = 0)
    <3> DEFINE a == Len(toClient)
               b == Len(writing)
    <3>1. a \in Nat /\ b \in Nat /\ Len(Sent) = a + b
      BY <2>2, <2>4
    <3> HIDE DEF a, b
    <3>2. a <= Len(Sent) /\ (a = Len(Sent) => b = 0)
      BY <3>1
    <3> QED
      BY <3>2 DEF a, b
  <2>7. \A i \in 1..Len(toClient) : i \in DOMAIN Sent
    <3>1. \A a, b \in Nat : a <= b => \A i \in 1..a : i \in 1..b
      OBVIOUS
    <3> QED
      BY <2>2, <2>4, <2>6, <3>1, Zenon
  <2> QED
    BY <2>2, <2>3, <2>4, <2>5, <2>6, <2>7, Zenon
<1>4. \A s \in Stream : Taken(s)' = Taken(s)
  BY <1>2 DEF Taken
<1>5. LastIsLast'
  <2> SUFFICES ASSUME NEW i \in 1..Len(toClient), toClient[i].kind \notin Stream
               PROVE  i = Len(toClient)
    BY <1>2, <1>3 DEF LastIsLast
  <2>1. i \in DOMAIN Sent /\ Sent[i].kind \notin Stream
    BY <1>3
  <2>2. i = Len(Sent)
    BY <1>1, <2>1 DEF LastIsLast
  <2>3. Len(toClient) \in Nat /\ Len(Sent) \in Nat /\ Len(toClient) <= Len(Sent)
    BY <1>3
  <2> QED
    BY <2>2, <2>3
<1>6. ExitTrue'
  <2>1. ASSUME NEW i \in DOMAIN Sent', Sent'[i].kind = "Exit" PROVE Sent' = Sent
    <3>1. i \in DOMAIN Sent /\ Sent[i].kind = "Exit"
      BY <1>3, <2>1
    <3>2. i = Len(Sent)
      BY <1>1, <3>1 DEF LastIsLast, Stream
    <3>3. i \in 1..Len(toClient) /\ Len(toClient) \in Nat /\ Len(Sent) \in Nat /\ Len(toClient) <= Len(Sent)
      BY <1>3, <2>1
    <3>4. Len(toClient) = Len(Sent)
      BY <3>2, <3>3
    <3> QED
      BY <1>3, <3>4
  <2>2. CASE Sent' = Sent
    <3>1. \A s, n : Carries(s, n)' <=> Carries(s, n)
      BY <2>2 DEF Carries
    <3> QED
      BY <1>1, <1>2, <2>2, <3>1 DEF ExitTrue
  <2>3. CASE \A i \in DOMAIN Sent' : Sent'[i].kind # "Exit"
    BY <2>3 DEF ExitTrue
  <2> QED
    BY <2>1, <2>2, <2>3
<1>7. ASSUME NEW s \in Stream PROVE StreamInOrder(s)'
  <2>1. ASSUME NEW i \in 1..Len(toClient), Sent[i].kind = s
        PROVE  /\ Len(delivered[s]) < Sent[i].data /\ Sent[i].data <= Taken(s)
               /\ \A j \in 1..Len(toClient) : Sent[j].kind = s /\ i < j => Sent[i].data < Sent[j].data
               /\ \A n \in (Len(delivered[s]) + 1)..Sent[i].data : Carries(s, n)'
    <3>1. i \in DOMAIN Sent
      BY <1>3
    <3>2. /\ Len(delivered[s]) < Sent[i].data /\ Sent[i].data <= Taken(s)
          /\ \A j \in DOMAIN Sent : Sent[j].kind = s /\ i < j => Sent[i].data < Sent[j].data
          /\ \A n \in (Len(delivered[s]) + 1)..Sent[i].data : Carries(s, n)
      BY <1>1, <2>1, <3>1 DEF StreamInOrder
    <3>3. ASSUME NEW n \in (Len(delivered[s]) + 1)..Sent[i].data PROVE Carries(s, n)'
      <4>1. PICK j \in DOMAIN Sent : Sent[j].kind = s /\ Sent[j].data = n
        BY <3>2 DEF Carries
      <4>2. Len(delivered[s]) \in Nat /\ Sent[i].data \in Nat
        BY <3>1, SentType
      <4>3. ~(i < j)
        BY <3>2, <4>1, <4>2
      <4>4. j \in 1..Len(toClient)
        <5>1. j \in 1..Len(Sent) /\ Len(Sent) \in Nat /\ Len(toClient) \in Nat
          BY <1>3, <4>1
        <5> QED
          BY <4>3, <5>1
      <4> QED
        BY <1>3, <4>1, <4>4 DEF Carries
    <3> QED
      BY <1>3, <3>2, <3>3
  <2>2. \A i \in DOMAIN Sent' : Sent'[i].kind = s =>
          /\ Len(delivered'[s]) < Sent'[i].data /\ Sent'[i].data <= Taken(s)'
          /\ \A j \in DOMAIN Sent' : Sent'[j].kind = s /\ i < j => Sent'[i].data < Sent'[j].data
          /\ \A n \in (Len(delivered'[s]) + 1)..Sent'[i].data : Carries(s, n)'
    <3> SUFFICES ASSUME NEW i \in 1..Len(toClient), toClient[i].kind = s
                 PROVE  /\ Len(delivered[s]) < toClient[i].data /\ toClient[i].data <= Taken(s)
                        /\ \A j \in 1..Len(toClient) :
                              toClient[j].kind = s /\ i < j => toClient[i].data < toClient[j].data
                        /\ \A n \in (Len(delivered[s]) + 1)..toClient[i].data : Carries(s, n)'
      BY <1>2, <1>3, <1>4, Zenon
    <3>1. \A k \in 1..Len(toClient) : toClient[k] = Sent[k]
      BY <1>3
    <3> QED
      BY <2>1, <3>1
  <2>3. Len(delivered'[s]) <= Taken(s)'
    BY <1>1, <1>2, <1>4 DEF StreamInOrder
  <2> QED
    BY <1>2, <2>2, <2>3 DEF StreamInOrder
<1> QED
  BY <1>5, <1>6, <1>7

\* A chunk that is taken from its pipe is the next one, and goes behind the others.
LEMMA ReadInOrder ==
    ASSUME RelayTypes, PipesInOrder, FramesInOrder, NEW s \in Stream, OutputReads(s)
    PROVE  FramesInOrder'
<1> DEFINE f == [kind |-> s, data |-> Head(pipe[s])]
           m == Len(Sent)
<1> SUFFICES ASSUME client = "running" PROVE LastIsLast' /\ ExitTrue' /\ \A t \in Stream : StreamInOrder(t)'
  BY DEF FramesInOrder, OutputReads, clientVars
<1>1. LastIsLast /\ ExitTrue /\ \A t \in Stream : StreamInOrder(t)
  BY DEF FramesInOrder
<1>2. /\ UNCHANGED <<toClient, produced, writers, status, delivered, exec>>
      /\ writing = <<>> /\ writing' = <<f>> /\ exec = "relay"
      /\ pipe' = [pipe EXCEPT ![s] = Tail(@)] /\ pipe[s] # <<>>
  BY DEF OutputReads, childVars, clientVars
<1>3. /\ pipe \in [Stream -> Seq(Nat)] /\ produced \in [Stream -> Nat]
      /\ toClient \in Seq(ServerFrame)
  BY DEF RelayTypes
<1>4. /\ Head(pipe[s]) = Taken(s) + 1 /\ Head(pipe[s]) \in Nat
      /\ Taken(s)' = Taken(s) + 1 /\ \A t \in Stream \ {s} : Taken(t)' = Taken(t)
  <2>1. /\ pipe[s] \in Seq(Nat) /\ Len(pipe[s]) \in Nat /\ Len(pipe[s]) >= 1 /\ Head(pipe[s]) = pipe[s][1]
        /\ Len(Tail(pipe[s])) = Len(pipe[s]) - 1 /\ 1 \in DOMAIN pipe[s] /\ Head(pipe[s]) \in Nat
    BY <1>2, <1>3
  <2>2. pipe[s][1] = Taken(s) + 1
    BY <2>1 DEF PipesInOrder
  <2>3. pipe'[s] = Tail(pipe[s]) /\ \A t \in Stream \ {s} : pipe'[t] = pipe[t]
    BY <1>2, <1>3
  <2>4. produced[s] \in Nat
    BY <1>3
  <2>5. Taken(s)' = Taken(s) + 1
    <3>1. Taken(s)' = produced[s] - Len(Tail(pipe[s]))
      BY <1>2, <2>3 DEF Taken
    <3>2. Len(Tail(pipe[s])) = Len(pipe[s]) - 1 /\ Len(pipe[s]) \in Nat
      BY <2>1
    <3> QED
      BY <2>4, <3>1, <3>2 DEF Taken
  <2>6. \A t \in Stream \ {s} : Taken(t)' = Taken(t)
    BY <1>2, <2>3 DEF Taken
  <2> QED
    BY <2>1, <2>2, <2>5, <2>6
<1>5. f \in ServerFrame
  BY <1>4 DEF ServerFrame
<1>6. Sent' = Append(Sent, f)
  <2>1. Sent = toClient
    BY <1>2, SentType
  <2>2. Sent' = toClient \o <<f>>
    BY <1>2 DEF Sent
  <2> QED
    BY <1>3, <1>5, <2>1, <2>2
<1>7. /\ Len(Sent') = m + 1 /\ DOMAIN Sent' = 1..(m + 1) /\ Sent'[m + 1] = f
      /\ \A i \in 1..m : Sent'[i] = Sent[i]
      /\ \A t, n : Carries(t, n) => Carries(t, n)'
      /\ \A t, n : t = f.kind /\ n = f.data => Carries(t, n)'
  BY <1>5, <1>6, OneMoreFrame
<1>8. /\ m \in Nat /\ DOMAIN Sent = 1..m /\ \A i \in DOMAIN Sent : Sent[i].data \in Nat
      /\ \A t \in Stream : Len(delivered[t]) \in Nat /\ Taken(t) \in Int
  BY SentType
<1>9. f.kind = s /\ f.data = Taken(s) + 1
  BY <1>4
<1> HIDE DEF f, m
<1>10. \A i \in 1..(m + 1) : i \in 1..m \/ i = m + 1
  BY <1>8
<1>11. \A i \in DOMAIN Sent' : Sent'[i].kind \in Stream
  <2>1. \A i \in 1..m : Sent[i].kind \in Stream
    BY <1>1, <1>2, <1>8 DEF LastIsLast
  <2> QED
    BY <1>7, <1>9, <1>10, <2>1
<1>12. LastIsLast' /\ ExitTrue'
  <2>1. "Exit" \notin Stream
    BY DEF Stream
  <2> QED
    BY <1>11, <2>1 DEF LastIsLast, ExitTrue
<1>13. ASSUME NEW t \in Stream PROVE StreamInOrder(t)'
  <2>1. /\ Len(delivered[t]) <= Taken(t)
        /\ \A n \in (Len(delivered[t]) + 1)..Taken(t) : Carries(t, n)
        /\ \A i \in 1..m : Sent[i].kind = t =>
              /\ Len(delivered[t]) < Sent[i].data /\ Sent[i].data <= Taken(t)
              /\ \A j \in 1..m : Sent[j].kind = t /\ i < j => Sent[i].data < Sent[j].data
              /\ \A n \in (Len(delivered[t]) + 1)..Sent[i].data : Carries(t, n)
    BY <1>1, <1>2, <1>8 DEF StreamInOrder
  <2>2. Taken(t)' \in Int /\ Taken(t) <= Taken(t)' /\ (t = s => Taken(t)' = Taken(t) + 1)
        /\ (t # s => Taken(t)' = Taken(t))
    BY <1>4, <1>8
  <2>3. \A n \in (Len(delivered[t]) + 1)..Taken(t)' : Carries(t, n)'
    <3> SUFFICES ASSUME NEW n \in (Len(delivered[t]) + 1)..Taken(t)' PROVE Carries(t, n)'
      OBVIOUS
    <3>1. CASE n = Taken(t) + 1 /\ t = s
      BY <1>7, <1>9, <3>1
    <3>2. CASE ~(n = Taken(t) + 1 /\ t = s)
      <4>1. n \in (Len(delivered[t]) + 1)..Taken(t)
        BY <1>8, <2>2, <3>2
      <4> QED
        BY <1>7, <2>1, <4>1
    <3> QED
      BY <3>1, <3>2
  <2>4. ASSUME NEW i \in 1..(m + 1), Sent'[i].kind = t
        PROVE  /\ Len(delivered[t]) < Sent'[i].data /\ Sent'[i].data <= Taken(t)'
               /\ \A j \in 1..(m + 1) : Sent'[j].kind = t /\ i < j => Sent'[i].data < Sent'[j].data
               /\ \A n \in (Len(delivered[t]) + 1)..Sent'[i].data : Carries(t, n)'
    <3>1. CASE i = m + 1
      <4>1. t = s /\ Sent'[i].data = Taken(t)'
        BY <1>7, <1>9, <2>2, <2>4, <3>1
      <4>2. \A j \in 1..(m + 1) : ~(i < j)
        BY <1>8, <3>1
      <4>3. Len(delivered[t]) < Taken(t)' /\ Taken(t)' <= Taken(t)'
        BY <1>8, <2>1, <2>2, <4>1
      <4> QED
        BY <2>3, <4>1, <4>2, <4>3
    <3>2. CASE i \in 1..m
      <4>1. Sent'[i] = Sent[i] /\ Sent[i].data \in Nat
        BY <1>7, <1>8, <3>2
      <4>2. /\ Len(delivered[t]) < Sent[i].data /\ Sent[i].data <= Taken(t)
            /\ \A j \in 1..m : Sent[j].kind = t /\ i < j => Sent[i].data < Sent[j].data
            /\ \A n \in (Len(delivered[t]) + 1)..Sent[i].data : Carries(t, n)
        BY <2>1, <2>4, <3>2, <4>1
      <4>3. Sent[i].data <= Taken(t)'
        BY <1>8, <2>2, <4>1, <4>2
      <4>4. ASSUME NEW j \in 1..(m + 1), Sent'[j].kind = t, i < j PROVE Sent[i].data < Sent'[j].data
        <5>1. CASE j \in 1..m
          BY <1>7, <4>2, <4>4, <5>1
        <5>2. CASE j = m + 1
          <6>1. t = s /\ Sent'[j].data = Taken(t) + 1
            BY <1>7, <1>9, <4>4, <5>2
          <6> QED
            BY <1>8, <4>1, <4>2, <6>1
        <5> QED
          BY <1>10, <5>1, <5>2
      <4>5. \A n \in (Len(delivered[t]) + 1)..Sent[i].data : Carries(t, n)'
        BY <1>7, <4>2
      <4> QED
        BY <4>1, <4>2, <4>3, <4>4, <4>5
    <3> QED
      BY <1>10, <3>1, <3>2
  <2>5. Len(delivered[t]) <= Taken(t)'
    BY <1>8, <2>1, <2>2
  <2>6. delivered' = delivered
    BY <1>2
  <2>7. \A i \in DOMAIN Sent' : Sent'[i].kind = t =>
          /\ Len(delivered'[t]) < Sent'[i].data /\ Sent'[i].data <= Taken(t)'
          /\ \A j \in DOMAIN Sent' : Sent'[j].kind = t /\ i < j => Sent'[i].data < Sent'[j].data
          /\ \A n \in (Len(delivered'[t]) + 1)..Sent'[i].data : Carries(t, n)'
    BY <1>7, <2>4, <2>6, Zenon
  <2> QED
    BY <2>3, <2>5, <2>6, <2>7, Zenon DEF StreamInOrder
<1> QED
  BY <1>12, <1>13

\* The exit code goes behind all of the output.
LEMMA ReapedInOrder ==
    ASSUME RelayTypes, InStep, PipesInOrder, FramesInOrder, Reaped
    PROVE  FramesInOrder'
<1> DEFINE f == [kind |-> "Exit", data |-> exit_code_from_status(status)]
           m == Len(Sent)
<1> SUFFICES ASSUME client = "running" PROVE LastIsLast' /\ ExitTrue' /\ \A t \in Stream : StreamInOrder(t)'
  BY DEF FramesInOrder, Reaped, clientVars
<1>1. LastIsLast /\ ExitTrue /\ \A t \in Stream : StreamInOrder(t)
  BY DEF FramesInOrder
<1>2. /\ UNCHANGED <<toClient, produced, pipe, writers, status, delivered>>
      /\ writing' = <<f>> /\ exec = "wait" /\ exec' = "exit" /\ child = "exited"
  BY DEF Reaped, childVars, clientVars
<1>3. /\ writing = <<>> /\ status # NoStatus
      /\ \A t \in Stream : pipe[t] = <<>> /\ ~writers[t] /\ Taken(t) = produced[t]
  <2>1. writing = <<>> /\ status # NoStatus
    BY <1>2 DEF InStep
  <2>2. \A t \in Stream : pipe[t] = <<>> /\ ~writers[t]
    BY <1>2 DEF PipesInOrder
  <2>3. \A t \in Stream : Taken(t) = produced[t]
    BY <2>2 DEF Taken, RelayTypes
  <2> QED
    BY <2>1, <2>2, <2>3
<1>4. f \in ServerFrame
  <2>1. status \in Status
    BY <1>3 DEF RelayTypes
  <2>2. exit_code_from_status(status) \in Nat
    BY <2>1, RelayAssumption DEF exit_code_from_status, SIGNAL_EXIT_OFFSET
  <2> QED
    BY <2>2 DEF ServerFrame
<1>5. Sent' = Append(Sent, f)
  <2>1. Sent = toClient /\ toClient \in Seq(ServerFrame)
    BY <1>3, SentType DEF RelayTypes
  <2>2. Sent' = toClient \o <<f>>
    BY <1>2 DEF Sent
  <2> QED
    BY <1>4, <2>1, <2>2
<1>6. /\ Len(Sent') = m + 1 /\ DOMAIN Sent' = 1..(m + 1) /\ Sent'[m + 1] = f
      /\ \A i \in 1..m : Sent'[i] = Sent[i]
      /\ \A t, n : Carries(t, n) => Carries(t, n)'
  BY <1>4, <1>5, OneMoreFrame
<1>7. m \in Nat /\ DOMAIN Sent = 1..m
  BY SentType
<1>8. f.kind = "Exit" /\ f.data = exit_code_from_status(status) /\ "Exit" \notin Stream
  BY DEF Stream
<1> HIDE DEF f, m
<1>9. \A i \in 1..(m + 1) : i \in 1..m \/ i = m + 1
  BY <1>7
<1>10. \A i \in 1..m : Sent'[i].kind \in Stream /\ Sent'[i] = Sent[i]
  BY <1>1, <1>2, <1>6, <1>7 DEF LastIsLast
<1>11. LastIsLast'
  BY <1>2, <1>6, <1>9, <1>10 DEF LastIsLast
<1>12. \A t \in Stream : \A n \in (Len(delivered[t]) + 1)..produced[t] : Carries(t, n)'
  <2>1. \A t \in Stream : \A n \in (Len(delivered[t]) + 1)..Taken(t) : Carries(t, n)
    BY <1>1, <1>2 DEF StreamInOrder
  <2> QED
    BY <1>3, <1>6, <2>1
<1>13. ExitTrue'
  <2>1. \A i \in DOMAIN Sent' : Sent'[i].kind = "Exit" => Sent'[i].data = exit_code_from_status(status)
    BY <1>6, <1>8, <1>9, <1>10
  <2> QED
    BY <1>2, <1>3, <1>12, <2>1 DEF ExitTrue
<1>14. ASSUME NEW t \in Stream PROVE StreamInOrder(t)'
  <2>1. /\ Len(delivered[t]) <= Taken(t)
        /\ \A i \in 1..m : Sent[i].kind = t =>
              /\ Len(delivered[t]) < Sent[i].data /\ Sent[i].data <= Taken(t)
              /\ \A j \in 1..m : Sent[j].kind = t /\ i < j => Sent[i].data < Sent[j].data
              /\ \A n \in (Len(delivered[t]) + 1)..Sent[i].data : Carries(t, n)
    BY <1>1, <1>7 DEF StreamInOrder
  <2>2. \A i \in 1..(m + 1) : Sent'[i].kind = t => i \in 1..m
    BY <1>6, <1>8, <1>9
  <2>3. Taken(t)' = Taken(t) /\ delivered' = delivered
    BY <1>2 DEF Taken
  <2>4. ASSUME NEW i \in 1..(m + 1), Sent'[i].kind = t
        PROVE  /\ Len(delivered[t]) < Sent'[i].data /\ Sent'[i].data <= Taken(t)
               /\ \A j \in 1..(m + 1) : Sent'[j].kind = t /\ i < j => Sent'[i].data < Sent'[j].data
               /\ \A n \in (Len(delivered[t]) + 1)..Sent'[i].data : Carries(t, n)'
    BY <1>6, <2>1, <2>2, <2>4
  <2>5. \A i \in DOMAIN Sent' : Sent'[i].kind = t =>
          /\ Len(delivered'[t]) < Sent'[i].data /\ Sent'[i].data <= Taken(t)'
          /\ \A j \in DOMAIN Sent' : Sent'[j].kind = t /\ i < j => Sent'[i].data < Sent'[j].data
          /\ \A n \in (Len(delivered'[t]) + 1)..Sent'[i].data : Carries(t, n)'
    BY <1>6, <2>3, <2>4, Zenon
  <2> QED
    BY <1>2, <2>1, <2>3, <2>5 DEF StreamInOrder
<1> QED
  BY <1>11, <1>13, <1>14

\* A run that starts, or is denied, has delivered nothing yet.
LEMMA FirstFrames ==
    ASSUME RelayTypes, InStep, PipesInOrder, FramesInOrder, Spawn \/ SpawnFails
    PROVE  FramesInOrder'
<1> SUFFICES ASSUME client = "running" PROVE LastIsLast' /\ ExitTrue' /\ \A t \in Stream : StreamInOrder(t)'
  BY DEF FramesInOrder, Spawn, SpawnFails, clientVars
<1>1. \A t \in Stream : StreamInOrder(t)
  BY DEF FramesInOrder
<1>2. /\ exec = "spawn" /\ UNCHANGED <<toClient, produced, pipe, delivered>>
      /\ \/ writing' = writing /\ exec' = "relay"
         \/ writing' = <<[kind |-> "Denied", data |-> 0]>> /\ exec' = "exit"
  BY DEF Spawn, SpawnFails, childVars, clientVars
<1>3. /\ toClient = <<>> /\ writing = <<>>
      /\ \A t \in Stream : produced[t] = 0 /\ pipe[t] = <<>>
  BY <1>2 DEF InStep, PipesInOrder
<1>4. Sent' = writing'
  <2>1. Sent' = <<>> \o writing'
    BY <1>2, <1>3 DEF Sent
  <2>2. \A x : <<>> \o <<x>> = <<x>>
    OBVIOUS
  <2>3. <<>> \o <<>> = <<>>
    OBVIOUS
  <2> QED
    BY <1>2, <1>3, <2>1, <2>2, <2>3
<1>5. \A t \in Stream : Taken(t) = 0 /\ Taken(t)' = 0 /\ Len(delivered[t]) = 0 /\ delivered'[t] = delivered[t]
  <2>1. \A t \in Stream : Taken(t) = 0 /\ Taken(t)' = 0
    BY <1>2, <1>3 DEF Taken
  <2>2. \A t \in Stream : Len(delivered[t]) \in Nat /\ Len(delivered[t]) <= Taken(t)
    BY <1>1, SentType DEF StreamInOrder
  <2> QED
    BY <1>2, <2>1, <2>2
<1>6. \A i \in DOMAIN Sent' : Sent'[i].kind = "Denied" /\ i = Len(Sent') /\ exec' = "exit"
  <2>1. CASE Sent' = <<>>
    BY <2>1
  <2>2. CASE Sent' = <<[kind |-> "Denied", data |-> 0]>> /\ exec' = "exit"
    BY <2>2
  <2> QED
    BY <1>2, <1>3, <1>4, <2>1, <2>2
<1>7. "Denied" \notin Stream
  BY DEF Stream
<1>8. LastIsLast' /\ ExitTrue'
  BY <1>6 DEF LastIsLast, ExitTrue
<1>9. ASSUME NEW t \in Stream PROVE StreamInOrder(t)'
  <2>1. Len(delivered'[t]) <= Taken(t)'
    BY <1>5
  <2>2. \A n \in (Len(delivered'[t]) + 1)..Taken(t)' : FALSE
    BY <1>5
  <2> QED
    BY <1>6, <1>7, <2>1, <2>2 DEF StreamInOrder
<1> QED
  BY <1>8, <1>9

\* Every step keeps the frames in order.
LEMMA FramesNext ==
    ASSUME RelayTypes, RelayTypes', InStep, PipesInOrder, FramesInOrder, [Next]_vars
    PROVE  FramesInOrder'
<1>1. CASE FramesKept
  BY <1>1, KeptFrames
<1>2. CASE client' # "running"
  BY <1>2 DEF FramesInOrder
<1>3. CASE Spawn \/ SpawnFails
  BY <1>3, FirstFrames
<1>4. CASE Reaped
  BY <1>4, ReapedInOrder
<1>5. CASE BrokerStops
  BY <1>5, BrokenOffInOrder
<1>6. CASE WriteFrame
  <2>1. /\ toClient' = toClient \o writing /\ writing' = <<>>
        /\ exec' = IF exec = "exit" THEN "closed" ELSE exec
        /\ UNCHANGED <<client, delivered, pipe, produced, writers, status>>
    BY <1>6 DEF WriteFrame, clientVars, childVars
  <2>2. Sent' = Sent
    <3>1. Sent \in Seq(ServerFrame)
      BY SentType
    <3>2. Sent' = Sent \o <<>>
      BY <2>1 DEF Sent
    <3> QED
      BY <3>1, <3>2, ConcatEmptySeq
  <2>3. \A s \in Stream : Taken(s)' = Taken(s)
    BY <2>1 DEF Taken
  <2> QED
    BY <2>1, <2>2, <2>3, SameFrames
<1>7. CASE OutputEnds
  <2>1. /\ UNCHANGED <<toClient, writing, client, delivered, pipe, produced, writers, status>>
        /\ exec = "relay" /\ exec' = "wait"
    BY <1>7 DEF OutputEnds, clientVars, childVars
  <2>2. Sent' = Sent /\ \A s \in Stream : Taken(s)' = Taken(s)
    BY <2>1 DEF Taken, Sent
  <2> QED
    BY <2>1, <2>2, SameFrames
<1>8. ASSUME NEW s \in Stream, Delivers(s) PROVE FramesInOrder'
  BY <1>8, DeliveredInOrder
<1>9. ASSUME NEW s \in Stream, OutputReads(s) PROVE FramesInOrder'
  BY <1>9, ReadInOrder
<1>10. ASSUME NEW s \in Stream, WritePipe(s), ChildWrites(s) \/ DescendantWrites(s) PROVE FramesInOrder'
  <2>1. /\ UNCHANGED <<writers, tap, exec, toClient, writing, client, delivered>> /\ exec = "relay"
        /\ writers[s] /\ child # "unborn" /\ child' # "unborn"
    BY <1>10, WriterHolds DEF WritePipe
  <2>2. Sent' = Sent
    BY <2>1 DEF Sent
  <2>3. \A t \in Stream : Taken(t)' = Taken(t)
    BY <1>10, <2>1, PipeGrows
  <2> QED
    BY <2>1, <2>2, <2>3, SameFrames
<1> QED
  BY <1>1, <1>2, <1>3, <1>4, <1>5, <1>6, <1>7, <1>8, <1>9, <1>10, FrameSteps

\* An exit code that the client reads comes after everything the child wrote.
LEMMA ExitComplete ==
    ASSUME RelayTypes, InStep, PipesInOrder, FramesInOrder,
           client = "running", toClient # <<>>, Head(toClient).kind = "Exit"
    PROVE  /\ exec = "closed" /\ status # NoStatus
           /\ Head(toClient).data = exit_code_from_status(status)
           /\ \A s \in Stream : Len(delivered[s]) = produced[s] /\ ~writers[s]
<1>1. LastIsLast /\ ExitTrue /\ \A s \in Stream : StreamInOrder(s)
  BY DEF FramesInOrder
<1>2. /\ toClient \in Seq(ServerFrame) /\ writing \in Seq(ServerFrame)
      /\ Len(toClient) \in Nat /\ Len(toClient) >= 1 /\ Head(toClient) = toClient[1] /\ Len(writing) \in Nat
  <2>1. toClient \in Seq(ServerFrame) /\ writing \in Seq(ServerFrame)
    BY DEF RelayTypes
  <2> QED
    BY <2>1
<1>3. /\ Len(Sent) = Len(toClient) + Len(writing) /\ Sent[1] = toClient[1]
      /\ DOMAIN Sent = 1..Len(Sent) /\ Len(Sent) \in Nat
  <2>1. /\ Len(Sent) = Len(toClient) + Len(writing) /\ \A i \in 1..Len(toClient) : Sent[i] = toClient[i]
        /\ DOMAIN Sent = 1..Len(Sent) /\ Len(Sent) \in Nat
    BY SentType
  <2>2. \A a \in Nat : a >= 1 => 1 \in 1..a
    OBVIOUS
  <2> QED
    BY <1>2, <2>1, <2>2, Zenon
<1>4. 1 \in DOMAIN Sent /\ Sent[1].kind = "Exit" /\ "Exit" \notin Stream
  <2>1. 1 \in DOMAIN Sent
    <3>1. \A a, b \in Nat : a >= 1 => 1 \in 1..(a + b)
      OBVIOUS
    <3> QED
      BY <1>2, <1>3, <3>1, Zenon
  <2> QED
    BY <1>2, <1>3, <2>1 DEF Stream
<1>5. Len(Sent) = 1 /\ exec \in {"exit", "closed"}
  BY <1>1, <1>4 DEF LastIsLast
<1>6. exec = "closed"
  <2>1. Len(writing) = 0
    <3>1. \A a, b \in Nat : a >= 1 /\ a + b = 1 => b = 0
      OBVIOUS
    <3> QED
      BY <1>2, <1>3, <1>5, <3>1, Zenon
  <2> QED
    BY <1>5, <2>1 DEF InStep
<1>7. /\ status # NoStatus /\ Sent[1].data = exit_code_from_status(status)
      /\ \A s \in Stream :
            /\ pipe[s] = <<>> /\ ~writers[s]
            /\ \A n \in (Len(delivered[s]) + 1)..produced[s] : Carries(s, n)
  BY <1>1, <1>4 DEF ExitTrue
<1>8. ASSUME NEW s \in Stream PROVE Len(delivered[s]) = produced[s]
  <2>1. \A n : ~Carries(s, n)
    <3>1. \A i \in DOMAIN Sent : i = 1
      <4>1. DOMAIN Sent = 1..1
        BY <1>3, <1>5, Zenon
      <4> QED
        BY <4>1
    <3> QED
      BY <1>4, <3>1 DEF Carries
  <2>2. Len(delivered[s]) \in Nat /\ produced[s] \in Nat /\ Len(delivered[s]) <= Taken(s)
    BY <1>1, SentType DEF StreamInOrder
  <2>3. Taken(s) = produced[s]
    BY <1>7, <2>2 DEF Taken
  <2>4. \A n \in (Len(delivered[s]) + 1)..produced[s] : FALSE
    BY <1>7, <2>1
  <2> QED
    BY <2>2, <2>3, <2>4
<1> QED
  BY <1>2, <1>3, <1>6, <1>7, <1>8

-----------------------------------------------------------------------------
(* A reported status. *)

\* What a step can do once a status was reported: nothing to the report.
ReportKept ==
    /\ exec' = "closed" /\ UNCHANGED <<status, outcome, code, delivered, produced>>
    /\ \A s \in Stream : writers'[s] => writers[s]

\* Only the response direction reports, and only an exit code as a status.
LEMMA ReportNext ==
    ASSUME RelayTypes, InStep, PipesInOrder, FramesInOrder, Reported, [Next]_vars
    PROVE  Reported'
<1> SUFFICES ASSUME outcome' = "status" PROVE Reported'
  BY DEF Reported
<1>1. CASE outcome = "status"
  <2>1. /\ exec = "closed" /\ status # NoStatus /\ code = exit_code_from_status(status)
        /\ \A s \in Stream : Len(delivered[s]) = produced[s] /\ ~writers[s]
    BY <1>1 DEF Reported
  <2> SUFFICES ReportKept
    BY <2>1 DEF Reported, ReportKept
  <2> USE DEF callerVars, inputVars, childVars, outputVars, clientVars, ReportKept
  <2>2. client = "exited" /\ child = "exited" /\ writing = <<>>
    BY <1>1, <2>1 DEF InStep
  <2>u. CASE UNCHANGED vars
    BY <2>1, <2>u DEF vars
  <2>3. CASE PumpReads \/ SourceEnds \/ PumpSends \/ PumpFails
    BY <2>1, <2>3 DEF PumpReads, SourceEnds, PumpSends, PumpFails
  <2>4. CASE ClientReads \/ ClientOutputFails \/ ClientEof \/ ClientKilled
    BY <2>2, <2>4 DEF ClientReads, ClientOutputFails, ClientEof, ClientKilled
  <2>5. CASE Spawn \/ SpawnFails \/ Reaped \/ WriteFrame \/ WriteFails \/ BrokerStops \/ OutputEnds
    BY <2>1, <2>2, <2>5 DEF Spawn, SpawnFails, Reaped, WriteFrame, WriteFails, BrokerStops, OutputEnds
  <2>6. CASE InputReads \/ InputEnds \/ InputWrites \/ InputBreaks
    BY <2>1, <2>6 DEF InputReads, InputEnds, InputWrites, InputBreaks
  <2>7. CASE ChildChooses \/ ChildReads \/ ChildCloses \/ ChildExits \/ ChildKilled
    BY <2>2, <2>7 DEF ChildChooses, ChildReads, ChildCloses, ChildExits, ChildKilled, Stream
  <2>8. ASSUME NEW s \in Stream,
               OutputReads(s) \/ OutputEof(s) \/ ChildWrites(s) \/ DescendantWrites(s)
        PROVE  FALSE
    BY <2>1, <2>2, <2>8 DEF OutputReads, OutputEof, ChildWrites, DescendantWrites, Stream
  <2>9. ASSUME NEW s \in Stream, DescendantCloses(s) PROVE ReportKept
    BY <2>1, <2>9 DEF DescendantCloses
  <2> HIDE DEF ReportKept
  <2> QED
    BY <2>u, <2>3, <2>4, <2>5, <2>6, <2>7, <2>8, <2>9
       DEF Next, SourceStep, PumpStep, ResponseStep, InputStep, OutputStep, ChildStep
<1>2. CASE outcome # "status"
  <2>1. ClientReads
    <3> USE <1>2 DEF callerVars, inputVars, childVars, outputVars, clientVars
    <3>u. ~UNCHANGED vars
      BY DEF vars
    <3>1. ~(PumpReads \/ SourceEnds \/ PumpSends \/ PumpFails)
      BY DEF PumpReads, SourceEnds, PumpSends, PumpFails
    <3>2. ~(ClientOutputFails \/ ClientEof \/ ClientKilled)
      BY DEF ClientOutputFails, ClientEof, ClientKilled, Leave
    <3>3. ~(Spawn \/ SpawnFails \/ Reaped \/ WriteFrame \/ WriteFails \/ BrokerStops \/ OutputEnds)
      BY DEF Spawn, SpawnFails, Reaped, WriteFrame, WriteFails, BrokerStops, OutputEnds
    <3>4. ~(InputReads \/ InputEnds \/ InputWrites \/ InputBreaks)
      BY DEF InputReads, InputEnds, InputWrites, InputBreaks
    <3>5. ~(ChildChooses \/ ChildReads \/ ChildCloses \/ ChildExits \/ ChildKilled)
      BY DEF ChildChooses, ChildReads, ChildCloses, ChildExits, ChildKilled, End
    <3>6. \A s \in Stream : ~(OutputReads(s) \/ OutputEof(s) \/ ChildWrites(s)
                              \/ DescendantWrites(s) \/ DescendantCloses(s))
      BY DEF OutputReads, OutputEof, ChildWrites, DescendantWrites, DescendantCloses
    <3> QED
      BY <3>u, <3>1, <3>2, <3>3, <3>4, <3>5, <3>6
         DEF Next, SourceStep, PumpStep, ResponseStep, InputStep, OutputStep, ChildStep
  <2>2. /\ client = "running" /\ toClient # <<>>
        /\ UNCHANGED <<exec, status, writers, produced>>
    BY <2>1 DEF ClientReads, childVars, outputVars
  <2>3. Head(toClient) \in ServerFrame
    <3>1. toClient \in Seq(ServerFrame)
      BY DEF RelayTypes
    <3> QED
      BY <2>2, <3>1
  <2>4. Head(toClient).kind \in Stream \cup {"Exit", "Denied"}
    BY <2>3 DEF ServerFrame
  <2>5. Head(toClient).kind = "Exit"
    BY <1>2, <2>1, <2>4 DEF ClientReads, Leave, Stream
  <2>6. code' = Head(toClient).data /\ delivered' = delivered
    BY <2>1, <2>5 DEF ClientReads, Leave, Stream
  <2> QED
    BY <2>2, <2>5, <2>6, ExitComplete DEF Reported
<1> QED
  BY <1>1, <1>2

\* The invariant is kept by every step.
LEMMA RelayNext == RelayInv /\ [Next]_vars => RelayInv'
<1> SUFFICES ASSUME RelayInv, [Next]_vars PROVE RelayInv'
  OBVIOUS
<1>1. RelayTypes /\ InStep /\ InputInOrder /\ InputWhole /\ PipesInOrder /\ FramesInOrder /\ Reported
  BY DEF RelayInv
<1>2. RelayTypes' /\ InStep'
  BY <1>1, InStepNext
<1>3. InputInOrder' /\ InputWhole'
  BY <1>1, InputNext
<1>4. PipesInOrder'
  BY <1>1, PipesNext
<1>5. FramesInOrder'
  BY <1>1, <1>2, FramesNext
<1>6. Reported'
  BY <1>1, ReportNext
<1> QED
  BY <1>2, <1>3, <1>4, <1>5, <1>6 DEF RelayInv

\* The invariant holds in every state of a run.
THEOREM RelayInvariant == Spec => []RelayInv
BY RelayInit, RelayNext, PTL DEF Spec

\* A gateway that exits with 0 reports the child's own 0, after all of the
\* child's output: an error is 1 and a signal 128 and more.
THEOREM NoFalseSuccessAlways == Spec => []NoFalseSuccess
<1>1. RelayInv => NoFalseSuccess
  <2> SUFFICES ASSUME RelayInv, client = "exited", code = 0
               PROVE  /\ status = [kind |-> "code", number |-> 0]
                      /\ \A s \in Stream : Len(delivered[s]) = produced[s] /\ ~writers[s]
    BY DEF NoFalseSuccess
  <2>1. outcome \in {"none", "status", "error"} /\ outcome # "none"
        /\ (outcome = "error" => code = GATEWAY_ERROR_EXIT)
    BY DEF RelayInv, RelayTypes, InStep
  <2>2. outcome = "status"
    BY <2>1 DEF GATEWAY_ERROR_EXIT
  <2>3. /\ status # NoStatus /\ exit_code_from_status(status) = 0
        /\ \A s \in Stream : Len(delivered[s]) = produced[s] /\ ~writers[s]
    BY <2>2 DEF RelayInv, Reported
  <2>4. status \in [kind : {"code", "signal"}, number : Nat]
    BY <2>3, RelayAssumption DEF RelayInv, RelayTypes
  <2>5. status.kind \in {"code", "signal"} /\ status.number \in Nat
        /\ status = [kind |-> status.kind, number |-> status.number]
    BY <2>4
  <2>6. status.kind = "code" /\ status.number = 0
    BY <2>3, <2>5 DEF exit_code_from_status, SIGNAL_EXIT_OFFSET
  <2> QED
    BY <2>3, <2>5, <2>6
<1> QED
  BY RelayInvariant, <1>1, PTL

-----------------------------------------------------------------------------
(* The relay implements a direct run. *)

\* Whether the run was cut, as the refinement has it.
WasCut == ~forwards \/ client # "running" \/ exec \notin {"spawn", "relay"}

\* What a direct run shows and a step of the relay's inside leaves alone.
Shown == <<given, sourceEnd, got, gotEof, produced, delivered, status, outcome, code>>

\* A step that shows nothing is a stutter, or cuts the run.
LEMMA InsideStep ==
    ASSUME UNCHANGED Shown, UNCHANGED WasCut \/ WasCut'
    PROVE  [Run!Next]_Run!runVars
<1>1. CASE UNCHANGED WasCut
  BY <1>1 DEF Shown, WasCut, Run!runVars
<1>2. CASE WasCut'
  <2>1. Run!Cut
    BY <1>2 DEF Shown, WasCut, Run!Cut
  <2> QED
    BY <2>1 DEF Run!Next
<1> QED
  BY <1>1, <1>2

\* The steps of the relay that the caller and the child do not see.
LEMMA InsideSteps ==
    ASSUME RelayInv,
           \/ UNCHANGED vars \/ PumpSends \/ PumpFails \/ ClientKilled
           \/ Spawn \/ SpawnFails \/ Reaped \/ WriteFrame \/ WriteFails \/ BrokerStops \/ OutputEnds
           \/ InputReads \/ InputEnds \/ InputWrites \/ InputBreaks \/ ChildChooses \/ ChildCloses
           \/ \E s \in Stream : OutputReads(s) \/ OutputEof(s) \/ DescendantCloses(s)
                                \/ (ChildWrites(s) /\ ~WritePipe(s))
    PROVE  UNCHANGED Shown /\ (UNCHANGED WasCut \/ WasCut')
<1> USE DEF callerVars, inputVars, childVars, outputVars, clientVars, Shown, WasCut
<1>u. CASE UNCHANGED vars
  BY <1>u DEF vars
<1>1. CASE PumpSends \/ PumpFails
  BY <1>1 DEF PumpSends, PumpFails
<1>2. CASE ClientKilled
  <2>1. outcome = "none"
    BY <1>2 DEF ClientKilled, RelayInv, RelayTypes, InStep
  <2> QED
    BY <1>2, <2>1 DEF ClientKilled, Leave
<1>3. CASE Spawn \/ SpawnFails \/ Reaped \/ WriteFrame \/ WriteFails \/ BrokerStops \/ OutputEnds
  BY <1>3 DEF Spawn, SpawnFails, Reaped, WriteFrame, WriteFails, BrokerStops, OutputEnds
<1>4. CASE InputReads \/ InputEnds \/ InputWrites \/ InputBreaks
  BY <1>4 DEF InputReads, InputEnds, InputWrites, InputBreaks
<1>5. CASE ChildChooses \/ ChildCloses
  BY <1>5 DEF ChildChooses, ChildCloses
<1>6. ASSUME NEW s \in Stream,
             OutputReads(s) \/ OutputEof(s) \/ DescendantCloses(s) \/ (ChildWrites(s) /\ ~WritePipe(s))
      PROVE  UNCHANGED Shown /\ UNCHANGED WasCut
  BY <1>6 DEF OutputReads, OutputEof, DescendantCloses, ChildWrites
<1> QED
  BY <1>u, <1>1, <1>2, <1>3, <1>4, <1>5, <1>6

\* The caller's input is given and ends.
LEMMA SourceSteps ==
    ASSUME RelayInv, PumpReads \/ SourceEnds
    PROVE  Run!Next
<1> USE DEF inputVars, childVars, outputVars, clientVars
<1>1. CASE PumpReads
  <2>1. Run!Give
    BY <1>1 DEF PumpReads, RelayInv, InStep, Run!Give
  <2> QED
    BY <2>1 DEF Run!Next
<1>2. CASE SourceEnds
  <2>1. Run!EndSource
    BY <1>2 DEF SourceEnds, Run!EndSource
  <2> QED
    BY <2>1 DEF Run!Next
<1> QED
  BY <1>1, <1>2

\* The child reads the next chunk, or an end of file that the caller sent or
\* that comes with a cut.
LEMMA ReadSteps ==
    ASSUME RelayInv, ChildReads
    PROVE  Run!Next
<1> USE DEF callerVars, inputVars, outputVars, clientVars
<1>1. /\ RelayTypes /\ InStep /\ InputInOrder /\ InputWhole
      /\ child = "read" /\ childStdin /\ ~gotEof /\ status = NoStatus
  BY DEF RelayInv, InStep, ChildReads
<1>2. /\ got \in Seq(Nat) /\ stdinPipe \in Seq(Nat) /\ held \in Seq(Nat) /\ given \in Nat
  BY <1>1 DEF RelayTypes
<1>3. Len(got) \in Nat /\ Len(stdinPipe) \in Nat /\ Len(held) \in Nat
  BY <1>2
<1>4. CASE stdinPipe # <<>> /\ got' = Append(got, Head(stdinPipe)) /\ UNCHANGED gotEof
  <2>1. Len(stdinPipe) >= 1 /\ 1 \in DOMAIN stdinPipe /\ Head(stdinPipe) = stdinPipe[1]
    BY <1>2, <1>4
  <2>2. stdinPipe[1] = Len(got) + 1
    BY <1>1, <2>1 DEF InputInOrder
  <2>3. Len(got) + Len(stdinPipe) + Len(held) <= given
    BY <1>1 DEF InputInOrder, Handed
  <2>4. Len(got) < given
    BY <1>2, <1>3, <2>1, <2>3
  <2>5. got' = Append(got, Len(got) + 1)
    BY <1>4, <2>1, <2>2
  <2>6. Run!Take
    BY <1>1, <1>4, <2>4, <2>5 DEF ChildReads, Run!Take
  <2> QED
    BY <2>6 DEF Run!Next
<1>5. CASE stdinPipe = <<>> /\ ~stdinOpen /\ gotEof' = TRUE /\ UNCHANGED got
  <2>1. ~input
    BY <1>1, <1>5 DEF InStep
  <2>2. exec # "spawn"
    BY <1>1 DEF InStep
  <2>3. ASSUME ~WasCut PROVE sourceEnd /\ Len(got) = given
    <3>1. exec = "relay" /\ forwards /\ client = "running"
      BY <2>2, <2>3 DEF WasCut
    <3>2. sourceEnd /\ Len(got) + Len(stdinPipe) = given
      BY <1>1, <2>1, <3>1 DEF InputWhole
    <3>3. Len(stdinPipe) = 0
      BY <1>5
    <3> QED
      BY <1>3, <3>2, <3>3
  <2>4. Run!SeeEof
    BY <1>5, <2>3 DEF ChildReads, WasCut, Run!SeeEof
  <2> QED
    BY <2>4 DEF Run!Next
<1> QED
  BY <1>4, <1>5 DEF ChildReads

\* The child and its descendants write, and the child ends.
LEMMA WriteSteps ==
    ASSUME RelayInv,
           \/ ChildExits \/ ChildKilled
           \/ \E s \in Stream : WritePipe(s) /\ (ChildWrites(s) \/ DescendantWrites(s))
    PROVE  Run!Next
<1> USE DEF callerVars, inputVars, outputVars, clientVars
<1>1. ASSUME NEW st \in Status, End(st), child # "exited" PROVE Run!Next
  <2>1. status = NoStatus
    BY <1>1 DEF RelayInv, InStep
  <2>2. Run!End
    BY <1>1, <2>1 DEF End, Run!End
  <2> QED
    BY <2>2 DEF Run!Next
<1>2. ASSUME NEW s \in Stream, WritePipe(s), ChildWrites(s) \/ DescendantWrites(s) PROVE Run!Next
  <2>1. outcome # "status"
    BY <1>2 DEF WritePipe, RelayInv, Reported
  <2>2. Run!Produce(s)
    BY <1>2, <2>1 DEF WritePipe, ChildWrites, DescendantWrites, Run!Produce
  <2> QED
    BY <2>2 DEF Run!Next, Run!Stream, Stream
<1> QED
  BY <1>1, <1>2 DEF ChildExits, ChildKilled, Stream

\* The caller is handed the next chunk, the child's status after all of its
\* output, or an error.
LEMMA AnswerSteps ==
    ASSUME RelayInv, ClientReads \/ ClientOutputFails \/ ClientEof
    PROVE  Run!Next
<1> USE DEF callerVars, inputVars, childVars, outputVars, clientVars
<1>1. /\ RelayTypes /\ InStep /\ PipesInOrder /\ FramesInOrder /\ client = "running" /\ outcome = "none"
  BY DEF RelayInv, RelayTypes, InStep, ClientReads, ClientOutputFails, ClientEof
<1>2. ASSUME Leave("exited", "error", GATEWAY_ERROR_EXIT), UNCHANGED <<childVars, outputVars>> PROVE Run!Next
  <2>1. Run!ReportError
    BY <1>1, <1>2 DEF Leave, GATEWAY_ERROR_EXIT, Run!ReportError, Run!ErrorCode
  <2> QED
    BY <2>1 DEF Run!Next
<1>3. CASE ClientOutputFails \/ ClientEof
  BY <1>2, <1>3 DEF ClientOutputFails, ClientEof
<1>4. CASE ClientReads
  <2>1. toClient # <<>> /\ toClient \in Seq(ServerFrame)
    BY <1>1, <1>4 DEF ClientReads, RelayTypes
  <2>2. Head(toClient) \in ServerFrame
    BY <2>1
  <2>3. Head(toClient).kind \in Stream \cup {"Exit", "Denied"}
    BY <2>2 DEF ServerFrame
  <2>4. CASE Head(toClient).kind = "Denied"
    BY <1>2, <1>4, <2>4 DEF ClientReads, Stream
  <2>5. CASE Head(toClient).kind = "Exit"
    <3>1. /\ Leave("exited", "status", Head(toClient).data) /\ UNCHANGED <<childVars, outputVars>>
      BY <1>4, <2>5 DEF ClientReads, Stream
    <3>2. /\ status # NoStatus /\ Head(toClient).data = exit_code_from_status(status)
          /\ \A s \in Stream : Len(delivered[s]) = produced[s]
      BY <1>1, <2>1, <2>5, ExitComplete
    <3>3. Run!ReportStatus
      BY <1>1, <3>1, <3>2
         DEF Leave, Run!ReportStatus, Run!ShellCode, Run!Stream, Stream, exit_code_from_status, SIGNAL_EXIT_OFFSET
    <3> QED
      BY <3>3 DEF Run!Next
  <2>6. ASSUME NEW s \in Stream, Head(toClient).kind = s PROVE Run!Next
    <3>1. /\ delivered' = [delivered EXCEPT ![s] = Append(@, Head(toClient).data)]
          /\ UNCHANGED <<callerVars, childVars, exec, client, outcome, code>>
      BY <1>4, <2>6 DEF ClientReads, Stream
    <3>2. StreamInOrder(s)
      BY <1>1 DEF FramesInOrder
    <3>3. /\ Len(Sent) >= 1 /\ Sent[1] = Head(toClient) /\ 1 \in DOMAIN Sent
      <4>1. Head(toClient) = toClient[1] /\ Len(toClient) \in Nat /\ Len(toClient) >= 1
        BY <2>1
      <4>2. /\ Len(Sent) = Len(toClient) + Len(writing) /\ DOMAIN Sent = 1..Len(Sent) /\ Len(Sent) \in Nat
            /\ \A i \in 1..Len(toClient) : Sent[i] = toClient[i]
        BY <1>1, SentType
      <4>3. Len(writing) \in Nat
        <5>1. writing \in Seq(ServerFrame)
          BY <1>1 DEF RelayTypes
        <5> QED
          BY <5>1
      <4>4. \A a, b \in Nat : a >= 1 => a + b >= 1 /\ 1 \in 1..a /\ 1 \in 1..(a + b)
        OBVIOUS
      <4> QED
        BY <4>1, <4>2, <4>3, <4>4, Zenon
    <3>4. Head(toClient).data = Len(delivered[s]) + 1
      BY <1>1, <2>6, <3>2, <3>3, NextDelivered
    <3>5. Len(delivered[s]) < produced[s]
      <4>1. Len(delivered[s]) < Sent[1].data /\ Sent[1].data <= Taken(s)
        BY <2>6, <3>2, <3>3 DEF StreamInOrder
      <4>2. Len(delivered[s]) \in Nat /\ produced[s] \in Nat /\ Len(pipe[s]) \in Nat /\ Sent[1].data \in Nat
        BY <1>1, <3>3, SentType
      <4> QED
        BY <4>1, <4>2 DEF Taken
    <3>6. delivered' = [delivered EXCEPT ![s] = Append(@, Len(@) + 1)]
      BY <3>1, <3>4
    <3>7. Run!Deliver(s)
      BY <1>1, <3>1, <3>5, <3>6 DEF Run!Deliver
    <3> QED
      BY <3>7 DEF Run!Next, Run!Stream, Stream
  <2> QED
    BY <2>3, <2>4, <2>5, <2>6
<1> QED
  BY <1>3, <1>4

\* Every step of the relay is a step of a direct run, or invisible.
LEMMA RunNext == RelayInv /\ [Next]_vars => [Run!Next]_Run!runVars
<1> SUFFICES ASSUME RelayInv, [Next]_vars PROVE [Run!Next]_Run!runVars
  OBVIOUS
<1>1. ASSUME NEW s \in Stream, DescendantWrites(s) PROVE WritePipe(s)
  BY <1>1 DEF DescendantWrites
<1>2. \/ PumpReads \/ SourceEnds \/ ChildReads
      \/ ChildExits \/ ChildKilled
      \/ \E s \in Stream : WritePipe(s) /\ (ChildWrites(s) \/ DescendantWrites(s))
      \/ ClientReads \/ ClientOutputFails \/ ClientEof
      \/ \/ UNCHANGED vars \/ PumpSends \/ PumpFails \/ ClientKilled
         \/ Spawn \/ SpawnFails \/ Reaped \/ WriteFrame \/ WriteFails \/ BrokerStops \/ OutputEnds
         \/ InputReads \/ InputEnds \/ InputWrites \/ InputBreaks \/ ChildChooses \/ ChildCloses
         \/ \E s \in Stream : OutputReads(s) \/ OutputEof(s) \/ DescendantCloses(s)
                              \/ (ChildWrites(s) /\ ~WritePipe(s))
  BY <1>1 DEF Next, SourceStep, PumpStep, ResponseStep, InputStep, OutputStep, ChildStep
<1> QED
  BY <1>2, SourceSteps, ReadSteps, WriteSteps, AnswerSteps, InsideSteps, InsideStep

\* A relayed run is a direct run: what the child reads, what the caller is
\* handed and the status it is told are what they would be without the broker,
\* for every number of chunks, every capacity and every interleaving.
THEOREM RelayImplementsDirectRun == Spec => ImplementsDirectRun
<1>1. Init => Run!Init
  BY DEF Init, Run!Init, Run!Stream, Stream
<1> QED
  BY <1>1, RunNext, RelayInvariant, PTL DEF Spec, ImplementsDirectRun, Run!Spec
=============================================================================

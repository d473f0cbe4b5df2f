-------------------------------- MODULE Wire --------------------------------
(***************************************************************************)
(* One direction of a connection at the level of bytes: write_frame at one *)
(* end, read_frame at the other (src/protocol.rs), and a connection that   *)
(* can be cut between any two bytes.                                       *)
(*                                                                         *)
(* A frame is its body's length in HEADER big-endian digits and then the   *)
(* body.  The reader gets nothing but bytes; that it finds the frames      *)
(* again is what is checked.  A peer that is not this program is a writer  *)
(* whose bytes are arbitrary.                                              *)
(*                                                                         *)
(* Scale.  A byte has BASE values, the length HEADER digits and the        *)
(* ceiling is MAX_FRAME_LEN, all small; the length still has values above  *)
(* the ceiling, as a u32 has.                                              *)
(***************************************************************************)
EXTENDS Naturals, Sequences

CONSTANTS
    Message,
    to_vec,         \* the JSON body of each message
    BASE, HEADER, MAX_FRAME_LEN,
    SockCap,        \* bytes the connection holds
    MaxFrames,      \* bound: frames one writer begins
    MaxForeign      \* bound: bytes a foreign writer sends

Byte == 0..(BASE - 1)

\* How many lengths k bytes can express.
Lengths[k \in 0..HEADER] == IF k = 0 THEN 1 ELSE Lengths[k - 1] * BASE

ASSUME WireAssumption ==
    /\ to_vec \in [Message -> Seq(Byte)]
    /\ \A m, n \in Message : to_vec[m] = to_vec[n] => m = n
    /\ BASE \in Nat \ {0, 1} /\ HEADER \in Nat \ {0} /\ SockCap \in Nat \ {0}
    /\ MAX_FRAME_LEN \in 0..(Lengths[HEADER] - 1)
    /\ MaxFrames \in Nat /\ MaxForeign \in Nat

VARIABLES
    foreign,   \* the writer is not write_frame
    writer,    \* "idle", "writing", "refused" (EncodeTooLarge) or "cut"
    frame,     \* the message being written
    out,       \* its bytes not yet written
    begun,     \* frames begun, or foreign bytes sent
    sock,      \* bytes in the connection
    reader,    \* "header", "body", or how read_frame ended
    head, body, len,
    sent, got

writerVars == <<foreign, writer, frame, out, begun, sent>>
readerVars == <<reader, head, body, len, got>>
vars == <<writerVars, sock, readerVars>>

-----------------------------------------------------------------------------
\* The HEADER digits of a length, the most significant first, and back.
to_be_bytes(n) ==
    LET left[k \in 0..HEADER] == IF k = 0 THEN n ELSE left[k - 1] \div BASE
    IN  [i \in 1..HEADER |-> left[HEADER - i] % BASE]

from_be_bytes(bytes) ==
    LET value[k \in 0..HEADER] == IF k = 0 THEN 0 ELSE value[k - 1] * BASE + bytes[k]
    IN  value[HEADER]

Init ==
    /\ foreign \in BOOLEAN /\ writer = "idle" /\ frame = <<>> /\ out = <<>> /\ begun = 0
    /\ sock = <<>>
    /\ reader = "header" /\ head = <<>> /\ body = <<>> /\ len = 0
    /\ sent = <<>> /\ got = <<>>

-----------------------------------------------------------------------------
(* write_frame.                                                            *)

\* Seeded fault: the length goes out before the body is measured.
BeginFrame_Eager(m) ==
    /\ ~foreign /\ writer = "idle" /\ begun < MaxFrames
    /\ begun' = begun + 1 /\ writer' = "writing"
    /\ IF Len(to_vec[m]) > MAX_FRAME_LEN
       THEN frame' = <<>> /\ out' = to_be_bytes(Len(to_vec[m]))
       ELSE frame' = <<m>> /\ out' = to_be_bytes(Len(to_vec[m])) \o to_vec[m]
    /\ UNCHANGED <<foreign, sent, sock, readerVars>>

\* The body is measured before a byte is written.  Whoever sends it gives up
\* on a refusal, and closes.
BeginFrame(m) ==
    /\ ~foreign /\ writer = "idle" /\ begun < MaxFrames
    /\ begun' = begun + 1
    /\ IF Len(to_vec[m]) > MAX_FRAME_LEN
       THEN writer' = "refused" /\ UNCHANGED <<frame, out>>
       ELSE /\ writer' = "writing" /\ frame' = <<m>>
            /\ out' = to_be_bytes(Len(to_vec[m])) \o to_vec[m]
    /\ UNCHANGED <<foreign, sent, sock, readerVars>>

\* write_all, byte by byte as the connection takes them.
WriteByte ==
    /\ writer = "writing" /\ Len(sock) < SockCap
    /\ sock' = Append(sock, Head(out)) /\ out' = Tail(out)
    /\ IF Len(out) = 1
       THEN writer' = "idle" /\ sent' = sent \o frame /\ frame' = <<>>
       ELSE UNCHANGED <<writer, sent, frame>>
    /\ UNCHANGED <<foreign, begun, readerVars>>

\* The writer fails, is cancelled or killed, or has said all it had to say.
Cut ==
    /\ writer \in {"idle", "writing"}
    /\ writer' = "cut" /\ out' = <<>> /\ frame' = <<>>
    /\ UNCHANGED <<foreign, begun, sent, sock, readerVars>>

ForeignByte(b) ==
    /\ foreign /\ writer = "idle" /\ begun < MaxForeign /\ Len(sock) < SockCap
    /\ begun' = begun + 1 /\ sock' = Append(sock, b)
    /\ UNCHANGED <<foreign, writer, frame, out, sent, readerVars>>

-----------------------------------------------------------------------------
(* read_frame, called again after each frame until it fails.               *)

Closed == writer \in {"cut", "refused"} /\ sock = <<>>

ReadHeader ==
    /\ reader = "header" /\ sock # <<>> /\ Len(head) < HEADER
    /\ head' = Append(head, Head(sock)) /\ sock' = Tail(sock)
    /\ UNCHANGED <<writerVars, reader, body, len, got>>

\* Seeded fault: no ceiling on what is read.
CheckLength_Unbounded ==
    /\ reader = "header" /\ Len(head) = HEADER
    /\ len' = from_be_bytes(head) /\ head' = <<>> /\ reader' = "body"
    /\ UNCHANGED <<writerVars, sock, body, got>>

\* A length above the ceiling is refused before the body is read.
CheckLength ==
    /\ reader = "header" /\ Len(head) = HEADER
    /\ len' = from_be_bytes(head) /\ head' = <<>>
    /\ reader' = IF len' > MAX_FRAME_LEN THEN "FrameTooLarge" ELSE "body"
    /\ UNCHANGED <<writerVars, sock, body, got>>

\* Seeded fault: the body is taken in one read, once it is all there.
FillBody_Whole ==
    /\ reader = "body" /\ Len(body) < len /\ Len(sock) >= len
    /\ body' = SubSeq(sock, 1, len) /\ sock' = SubSeq(sock, len + 1, Len(sock))
    /\ UNCHANGED <<writerVars, reader, head, len, got>>

\* One read takes what there is, up to what is missing of the body.
FillBody ==
    /\ reader = "body" /\ Len(body) < len /\ sock # <<>>
    /\ \E n \in 1..Len(sock) :
         /\ Len(body) + n <= len
         /\ body' = body \o SubSeq(sock, 1, n) /\ sock' = SubSeq(sock, n + 1, Len(sock))
    /\ UNCHANGED <<writerVars, reader, head, len, got>>

\* from_slice: the message with that body, or InvalidJson.
Decode ==
    /\ reader = "body" /\ Len(body) = len
    /\ body' = <<>>
    /\ LET ms == {m \in Message : to_vec[m] = body} IN
       IF ms = {} THEN reader' = "InvalidJson" /\ UNCHANGED got
       ELSE reader' = "header" /\ \E m \in ms : got' = Append(got, m)
    /\ UNCHANGED <<writerVars, sock, head, len>>

\* Seeded fault: a peer that has hung up counts as an end of file, though bytes
\* of its are still in the connection.
ReadEnds_HungUp ==
    /\ writer \in {"cut", "refused"}
    /\ \/ reader = "header" /\ Len(head) < HEADER /\ reader' = "Io"
       \/ reader = "body" /\ Len(body) < len /\ reader' = "Truncated"
    /\ UNCHANGED <<writerVars, sock, head, body, len, got>>

\* End of file: an io error within or before the length, Truncated in the body.
ReadEnds ==
    /\ Closed
    /\ \/ reader = "header" /\ Len(head) < HEADER /\ reader' = "Io"
       \/ reader = "body" /\ Len(body) < len /\ reader' = "Truncated"
    /\ UNCHANGED <<writerVars, sock, head, body, len, got>>

WriterStep == (\E m \in Message : BeginFrame(m)) \/ WriteByte \/ Cut

ReaderStep == ReadHeader \/ CheckLength \/ FillBody \/ Decode \/ ReadEnds

Next == WriterStep \/ (\E b \in Byte : ForeignByte(b)) \/ ReaderStep

Spec == Init /\ [][Next]_vars

\* An end of the connection that can read or write is polled.
LiveSpec == Spec /\ WF_vars(ReaderStep) /\ WF_vars(WriteByte)

-----------------------------------------------------------------------------
(* Properties.                                                             *)

Stopped == {"FrameTooLarge", "InvalidJson", "Io", "Truncated"}

\* Type invariant, with the reader's allocation: whatever a peer declares, the
\* body that is read never grows past the ceiling (read_frame).
WireTypeOK ==
    /\ writer \in {"idle", "writing", "refused", "cut"}
    /\ reader \in {"header", "body"} \cup Stopped
    /\ Len(head) <= HEADER /\ Len(body) <= MAX_FRAME_LEN /\ Len(sock) <= SockCap
    /\ len \in 0..(Lengths[HEADER] - 1)

\* The two ends agree: a reader of write_frame's bytes is never told that a
\* frame is too large or not JSON, and it sees a truncated body only when the
\* connection was cut in the middle of one; a frame the writer refuses costs
\* the reader nothing.
OwnFramesUnderstood ==
    ~foreign =>
        /\ reader \notin {"FrameTooLarge", "InvalidJson"}
        /\ reader = "Truncated" => writer = "cut"

\* The promise: with write_frame at the other end this is a Channel, in which
\* the reader ends only after it has read every message written to its end.
\* A foreign peer's bytes may read as messages that nobody sent; they are no part of it.
TheChannel ==
    INSTANCE Channel WITH open <- reader \notin Stopped, got <- IF foreign THEN <<>> ELSE got

ChannelKept == TheChannel!Spec

\* Every message written to its end is read, though the connection be cut right
\* after it; and a frame once begun is read unless the connection is cut, though
\* it be larger than what the connection holds.
FramesArrive ==
    \A n \in 1..MaxFrames :
        /\ Len(sent) >= n ~> Len(got) >= n
        /\ Len(sent \o frame) >= n ~> (Len(got) >= n \/ writer = "cut")

=============================================================================

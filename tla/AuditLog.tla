------------------------------ MODULE AuditLog ------------------------------
(***************************************************************************)
(* The audit file below the level of records: AuditLogger (src/audit.rs),  *)
(* a BufWriter over a file opened for append, behind a mutex.  Each task   *)
(* writes one record.                                                      *)
(*                                                                         *)
(* Data.  A record is a line of size[w] cells, its newline being part of   *)
(* the last; the kernel takes any number of cells of a write before it     *)
(* refuses the rest (a full disk).  What the BufWriter does with a line    *)
(* depends on its room: a line that fits is kept, and its unwritten rest   *)
(* stays when a flush fails; one of CAP cells or more goes past the        *)
(* buffer, and its rest is lost.                                           *)
(***************************************************************************)
EXTENDS Naturals, Sequences, SequencesExt

CONSTANTS
    Writer,     \* tasks, each with one record
    size,       \* cells of each record's line
    CAP,        \* capacity of the BufWriter, in cells
    None,       \* nobody holds the mutex
    MaxStarts   \* bound: how often the daemon is started

ASSUME AuditAssumption ==
    /\ size \in [Writer -> Nat \ {0}] /\ CAP \in Nat \ {0}
    /\ None \notin Writer /\ MaxStarts \in Nat

VARIABLES
    daemon, starts,
    file,     \* the cells in the file
    buf,      \* the cells in the BufWriter
    holder,   \* who holds the mutex
    pc,       \* "idle", "room", "direct", "flush", "ok" or "failed"
    rest,     \* what is left of a line that goes past the buffer
    acks      \* the records whose write returned Ok, in that order

vars == <<daemon, starts, file, buf, holder, pc, rest, acks>>

Cell(w, k) == [rec |-> w, part |-> k]

Line(w) == [k \in 1..size[w] |-> Cell(w, k)]

Init ==
    /\ daemon = "up" /\ starts = 1
    /\ file = <<>> /\ buf = <<>> /\ holder = None
    /\ pc = [w \in Writer |-> "idle"] /\ rest = [w \in Writer |-> <<>>]
    /\ acks = <<>>

Leave(w, result) == holder' = None /\ pc' = [pc EXCEPT ![w] = result]

-----------------------------------------------------------------------------
(* AuditLogger::write: the mutex, write_all, flush.                        *)

\* Seeded fault: no mutex around the file.
Lock_Free(w) ==
    /\ daemon = "up" /\ pc[w] = "idle"
    /\ holder' = w /\ pc' = [pc EXCEPT ![w] = "room"]
    /\ UNCHANGED <<daemon, starts, file, buf, rest, acks>>

Lock(w) ==
    /\ daemon = "up" /\ pc[w] = "idle" /\ holder = None
    /\ holder' = w /\ pc' = [pc EXCEPT ![w] = "room"]
    /\ UNCHANGED <<daemon, starts, file, buf, rest, acks>>

\* The buffer is being emptied: to make room for the line, or by flush.
Draining(w) ==
    /\ daemon = "up" /\ buf # <<>>
    /\ \/ pc[w] = "room" /\ Len(buf) + size[w] > CAP
       \/ pc[w] = "flush"

Drain(w) ==
    /\ Draining(w)
    /\ \E n \in 1..Len(buf) :
         /\ file' = file \o SubSeq(buf, 1, n)
         /\ buf' = SubSeq(buf, n + 1, Len(buf))
    /\ UNCHANGED <<daemon, starts, holder, pc, rest, acks>>

DrainFails(w) ==
    /\ Draining(w) /\ Leave(w, "failed")
    /\ UNCHANGED <<daemon, starts, file, buf, rest, acks>>

Keep(w) ==
    /\ daemon = "up" /\ pc[w] = "room"
    /\ Len(buf) + size[w] <= CAP /\ size[w] < CAP
    /\ buf' = buf \o Line(w) /\ pc' = [pc EXCEPT ![w] = "flush"]
    /\ UNCHANGED <<daemon, starts, file, holder, rest, acks>>

GoPast(w) ==
    /\ daemon = "up" /\ pc[w] = "room" /\ buf = <<>> /\ size[w] >= CAP
    /\ rest' = [rest EXCEPT ![w] = Line(w)] /\ pc' = [pc EXCEPT ![w] = "direct"]
    /\ UNCHANGED <<daemon, starts, file, buf, holder, acks>>

WriteDirect(w) ==
    /\ daemon = "up" /\ pc[w] = "direct"
    /\ \E n \in 1..Len(rest[w]) :
         /\ file' = file \o SubSeq(rest[w], 1, n)
         /\ rest' = [rest EXCEPT ![w] = SubSeq(@, n + 1, Len(@))]
         /\ pc' = [pc EXCEPT ![w] = IF n = Len(rest[w]) THEN "flush" ELSE "direct"]
    /\ UNCHANGED <<daemon, starts, buf, holder, acks>>

DirectFails(w) ==
    /\ daemon = "up" /\ pc[w] = "direct"
    /\ rest' = [rest EXCEPT ![w] = <<>>] /\ Leave(w, "failed")
    /\ UNCHANGED <<daemon, starts, file, buf, acks>>

\* Seeded fault: write returns without flushing.
Flushed_Early(w) ==
    /\ daemon = "up" /\ pc[w] = "flush"
    /\ Leave(w, "ok") /\ acks' = Append(acks, w)
    /\ UNCHANGED <<daemon, starts, file, buf, rest>>

Flushed(w) ==
    /\ daemon = "up" /\ pc[w] = "flush" /\ buf = <<>>
    /\ Leave(w, "ok") /\ acks' = Append(acks, w)
    /\ UNCHANGED <<daemon, starts, file, buf, rest>>

-----------------------------------------------------------------------------
(* The daemon around it: AuditLogger::new, the flush when it stops, and    *)
(* the end of the process.                                                 *)

Open ==
    /\ daemon = "down" /\ starts < MaxStarts
    /\ daemon' = "up" /\ starts' = starts + 1
    /\ UNCHANGED <<file, buf, holder, pc, rest, acks>>

\* The last flush, here or in the drop, writes all of the buffer or fails
\* after part of it; a write that has begun is waited for.
Stop ==
    /\ daemon = "up" /\ holder = None
    /\ \E n \in 0..Len(buf) : file' = file \o SubSeq(buf, 1, n)
    /\ daemon' = "down" /\ buf' = <<>>
    /\ UNCHANGED <<starts, holder, pc, rest, acks>>

Crash ==
    /\ daemon = "up" /\ daemon' = "down"
    /\ buf' = <<>> /\ holder' = None /\ rest' = [w \in Writer |-> <<>>]
    /\ pc' = [w \in Writer |-> IF pc[w] \in {"idle", "ok"} THEN pc[w] ELSE "failed"]
    /\ UNCHANGED <<starts, file, acks>>

Next ==
    \/ \E w \in Writer :
         \/ Lock(w) \/ Drain(w) \/ DrainFails(w) \/ Keep(w) \/ GoPast(w)
         \/ WriteDirect(w) \/ DirectFails(w) \/ Flushed(w)
    \/ Open \/ Stop \/ Crash

Spec == Init /\ [][Next]_vars

-----------------------------------------------------------------------------
(* Properties.                                                             *)

\* The line of record w begins at cell i of the file.
BeginsAt(w, i) == i + size[w] - 1 <= Len(file) /\ SubSeq(file, i, i + size[w] - 1) = Line(w)

\* No line begins behind an unfinished one, and none stops short.
Whole(s) ==
    /\ \A i \in DOMAIN s :
         IF s[i].part = 1 THEN i = 1 \/ s[i - 1].part = size[s[i - 1].rec]
         ELSE i > 1 /\ s[i - 1] = Cell(s[i].rec, s[i].part - 1)
    /\ s # <<>> => Last(s).part = size[Last(s).rec]

\* A record whose write returned Ok is in the file with all its cells in a row,
\* exactly once, and the records stand in the order their writes returned, even
\* where an earlier failure left cells in the buffer (AuditLogger::write).
AckedWhole ==
    /\ \A w \in Writer : pc[w] = "ok" =>
         \E i \in DOMAIN file : /\ BeginsAt(w, i)
                                /\ \A j \in DOMAIN file : file[j].rec = w => j \in i..(i + size[w] - 1)
    /\ \A m, n \in DOMAIN acks : m < n =>
         \A i, j \in DOMAIN file :
             file[i].rec = acks[m] /\ file[j].rec = acks[n] => i < j

\* Within one life of the daemon the file and what is still to be written are
\* whole lines, through any failed and partial writes, as long as no record of
\* the buffer's size or more has failed.
LinesWhole ==
    starts = 1 /\ daemon = "up" /\ ~(\E w \in Writer : size[w] >= CAP /\ pc[w] = "failed") =>
        Whole(file \o (IF holder = None THEN <<>> ELSE rest[holder]) \o buf)

=============================================================================

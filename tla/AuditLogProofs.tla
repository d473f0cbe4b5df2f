--------------------------- MODULE AuditLogProofs ---------------------------
(***************************************************************************)
(* The audit file keeps every acknowledged record in one piece and in      *)
(* order, and its lines whole: for any number of tasks, any size of their  *)
(* records and of the buffer, and any number of failures and restarts.     *)
(*                                                                         *)
(* Neither property is inductive, since a record is acknowledged long      *)
(* after its cells were laid down.  The invariant therefore speaks of      *)
(* Whither, the file as it will be once everything pending is written, and *)
(* says where the line of each record stands in it: nowhere before it is   *)
(* taken in, behind all acknowledged ones while it is under way, inside    *)
(* the file once it is acknowledged.  There are only three things a step   *)
(* can do to file and Whither (AuditSteps): carry cells from one into the  *)
(* other, put one line behind everything, or lose the end of Whither that  *)
(* is not in the file.                                                     *)
(***************************************************************************)
EXTENDS AuditLog, Integers, SequenceTheorems, TLAPS

\* The cells of the records.
Cells == [rec : Writer, part : Nat]

\* Inside AuditLogger::write, past the mutex.
Busy == {"room", "direct", "flush"}

\* What was accepted and is not in the file: the rest of a line that goes past
\* the buffer, or the buffer.
Pending == (IF holder = None THEN <<>> ELSE rest[holder]) \o buf

\* The file as it will be if nothing fails.
Whither == file \o Pending

\* The values of the variables.
AuditTypes ==
    /\ daemon \in {"up", "down"} /\ starts \in Nat /\ starts >= 1
    /\ file \in Seq(Cells) /\ buf \in Seq(Cells) /\ rest \in [Writer -> Seq(Cells)]
    /\ holder \in Writer \cup {None}
    /\ pc \in [Writer -> {"idle", "ok", "failed"} \cup Busy]
    /\ acks \in Seq(Writer)

\* One task at a time is past the mutex, and nothing goes past a buffer that
\* is not empty.
Guarded ==
    /\ \A w \in Writer : pc[w] \in Busy <=> holder = w
    /\ \A w \in Writer : rest[w] # <<>> => pc[w] = "direct"
    /\ \A w \in Writer : pc[w] = "direct" => buf = <<>> /\ size[w] >= CAP
    /\ daemon = "down" => holder = None /\ buf = <<>>

\* The line of w begins at cell i of s, and s has no other cell of w.
StandsAt(w, s, i) ==
    /\ i \in DOMAIN s /\ i + size[w] - 1 <= Len(s)
    /\ \A k \in 1..size[w] : s[i + k - 1] = Cell(w, k)
    /\ \A j \in DOMAIN s : s[j].rec = w => j \in i..(i + size[w] - 1)

\* Every cell of a comes before every cell of w.
Before(a, w, s) == \A i, j \in DOMAIN s : s[i].rec = a /\ s[j].rec = w => i < j

\* A record that was not accepted has no cell anywhere.
Unwritten == \A w \in Writer : pc[w] \in {"idle", "room"} => \A j \in DOMAIN Whither : Whither[j].rec # w

\* One that was accepted is on its way, behind all acknowledged ones.
Underway ==
    \A w \in Writer : pc[w] \in {"direct", "flush"} =>
        /\ \E i \in DOMAIN Whither : StandsAt(w, Whither, i)
        /\ \A n \in DOMAIN acks : Before(acks[n], w, Whither)

\* One that was acknowledged is in the file.
Settled ==
    \A w \in Writer : pc[w] = "ok" =>
        \E i \in DOMAIN file : StandsAt(w, Whither, i) /\ i + size[w] - 1 <= Len(file)

\* The acknowledged ones are in the order of their acknowledgements.
Ordered ==
    /\ \A n \in DOMAIN acks : pc[acks[n]] = "ok"
    /\ \A m, n \in DOMAIN acks : m < n => Before(acks[m], acks[n], Whither)

\* The inductive invariant.
AuditInv ==
    /\ AuditTypes /\ Guarded
    /\ Unwritten /\ Underway /\ Settled /\ Ordered
    /\ LinesWhole

-----------------------------------------------------------------------------
(* Sequences of cells. *)

\* s is the beginning of t.
Begins(s, t) == Len(s) <= Len(t) /\ \A i \in 1..Len(s) : s[i] = t[i]

\* A sequence is the beginning of itself with something behind it.
LEMMA BeginsConcat ==
    ASSUME NEW S, NEW s \in Seq(S), NEW t \in Seq(S)
    PROVE  Begins(s, s \o t)
<1>1. /\ Len(s) \in Nat /\ Len(t) \in Nat /\ Len(s \o t) = Len(s) + Len(t)
      /\ \A i \in 1..(Len(s) + Len(t)) : (s \o t)[i] = IF i <= Len(s) THEN s[i] ELSE t[i - Len(s)]
  BY ConcatProperties
<1> QED
  BY <1>1 DEF Begins

\* A sequence is what was taken from its front and what is left.
LEMMA CutAt ==
    ASSUME NEW S, NEW s \in Seq(S), NEW n \in 0..Len(s)
    PROVE  /\ SubSeq(s, 1, n) \in Seq(S) /\ SubSeq(s, n + 1, Len(s)) \in Seq(S)
           /\ SubSeq(s, 1, n) \o SubSeq(s, n + 1, Len(s)) = s
           /\ n = Len(s) => SubSeq(s, n + 1, Len(s)) = <<>>
<1>1. Len(s) \in Nat /\ n \in Nat /\ n <= Len(s)
  OBVIOUS
<1>2. \A i \in 1..Len(s) : s[i] \in S
  OBVIOUS
<1>3. SubSeq(s, 1, n) \in Seq(S)
  <2>1. \A i \in 1..n : s[i] \in S
    BY <1>1, <1>2
  <2> QED
    BY <1>1, <2>1, SubSeqProperties
<1>4. SubSeq(s, n + 1, Len(s)) \in Seq(S)
  <2>1. \A i \in (n + 1)..Len(s) : s[i] \in S
    BY <1>1, <1>2
  <2>2. n + 1 \in Int /\ Len(s) \in Int
    BY <1>1
  <2> QED
    BY <2>1, <2>2, SubSeqProperties
<1>5. SubSeq(s, 1, n) \o SubSeq(s, n + 1, Len(s)) = s
  <2>1. 1 \in 1..(Len(s) + 1) /\ n \in (1 - 1)..Len(s) /\ Len(s) \in n..Len(s)
    BY <1>1
  <2>2. SubSeq(s, 1, n) \o SubSeq(s, n + 1, Len(s)) = SubSeq(s, 1, Len(s))
    BY <2>1, ConcatAdjacentSubSeq
  <2> QED
    BY <2>2, SubSeqFull
<1>6. n = Len(s) => SubSeq(s, n + 1, Len(s)) = <<>>
  <2>1. n + 1 \in Int /\ Len(s) \in Int /\ (n = Len(s) => Len(s) < n + 1)
    BY <1>1
  <2> QED
    BY <2>1, SubSeqEmpty
<1> QED
  BY <1>3, <1>4, <1>5, <1>6

\* Cells can be put together in either grouping.
LEMMA Regroup ==
    \A a, b, c \in Seq(Cells) : (a \o b) \o c = a \o (b \o c)
BY ConcatAssociative

\* The line of a record is made of its cells.
LEMMA LineType ==
    ASSUME NEW w \in Writer
    PROVE  /\ Line(w) \in Seq(Cells) /\ Len(Line(w)) = size[w] /\ size[w] \in Nat \ {0}
           /\ \A k \in 1..size[w] : /\ Line(w)[k] = Cell(w, k)
                                    /\ Cell(w, k).rec = w /\ Cell(w, k).part = k
<1>1. size[w] \in Nat \ {0}
  BY AuditAssumption
<1>2. \A k \in 1..size[w] : Cell(w, k) \in Cells /\ Cell(w, k).rec = w /\ Cell(w, k).part = k
  BY <1>1 DEF Cell, Cells
<1> QED
  BY <1>1, <1>2 DEF Line

-----------------------------------------------------------------------------
(* What a step does to the file and to what is on its way there. *)

\* What is on its way is made of cells.
LEMMA WhitherType ==
    ASSUME AuditTypes
    PROVE  /\ Pending \in Seq(Cells) /\ Whither \in Seq(Cells)
           /\ Begins(file, Whither)
           /\ Whither = (file \o (IF holder = None THEN <<>> ELSE rest[holder])) \o buf
<1> DEFINE tip == IF holder = None THEN <<>> ELSE rest[holder]
<1>1. file \in Seq(Cells) /\ buf \in Seq(Cells) /\ tip \in Seq(Cells)
  <2>1. holder # None => rest[holder] \in Seq(Cells)
    BY DEF AuditTypes
  <2>2. <<>> \in Seq(Cells)
    OBVIOUS
  <2> QED
    BY <2>1, <2>2 DEF AuditTypes
<1> HIDE DEF tip
<1>2. tip \o buf \in Seq(Cells)
  BY <1>1, ConcatProperties
<1>3. Pending = tip \o buf /\ Whither = file \o (tip \o buf)
  BY DEF Pending, Whither, tip
<1>4. file \o (tip \o buf) \in Seq(Cells) /\ Begins(file, file \o (tip \o buf))
  BY <1>1, <1>2, ConcatProperties, BeginsConcat
<1>5. (file \o tip) \o buf = file \o (tip \o buf)
  BY <1>1, ConcatAssociative
<1> QED
  BY <1>2, <1>3, <1>4, <1>5 DEF tip

\* With no line going past the buffer, the buffer is what is pending.
LEMMA PendingBuf ==
    AuditTypes /\ Guarded /\ (\A w \in Writer : pc[w] # "direct")
        => Pending = buf /\ Whither = file \o buf
<1> SUFFICES ASSUME AuditTypes, Guarded, \A w \in Writer : pc[w] # "direct"
             PROVE  Pending = buf /\ Whither = file \o buf
  OBVIOUS
<1>1. (IF holder = None THEN <<>> ELSE rest[holder]) = <<>>
  BY DEF AuditTypes, Guarded
<1>2. buf \in Seq(Cells)
  BY DEF AuditTypes
<1>3. Pending = buf
  BY <1>1, <1>2, ConcatEmptySeq DEF Pending
<1> QED
  BY <1>3 DEF Whither

\* With one, the rest of the line is.
LEMMA PendingRest ==
    AuditTypes /\ Guarded => \A w \in Writer : pc[w] = "direct" =>
        holder = w /\ buf = <<>> /\ Pending = rest[w] /\ Whither = file \o rest[w]
<1> SUFFICES ASSUME AuditTypes, Guarded, NEW w \in Writer, pc[w] = "direct"
             PROVE  holder = w /\ buf = <<>> /\ Pending = rest[w] /\ Whither = file \o rest[w]
  OBVIOUS
<1>1. holder = w /\ buf = <<>>
  BY DEF Guarded, Busy
<1>2. w # None /\ rest[w] \in Seq(Cells)
  BY AuditAssumption DEF AuditTypes
<1>3. Pending = rest[w]
  BY <1>1, <1>2, ConcatEmptySeq DEF Pending
<1> QED
  BY <1>1, <1>3 DEF Whither

\* The audit file starts empty.
LEMMA AuditInit == Init => AuditInv
<1> SUFFICES ASSUME Init PROVE AuditInv
  OBVIOUS
<1>1. AuditTypes
  BY DEF Init, AuditTypes
<1>2. Guarded
  BY AuditAssumption DEF Init, Guarded, Busy
<1>3. Whither = <<>>
  BY DEF Init, Whither, Pending
<1>4. Unwritten /\ Underway /\ Settled /\ Ordered
  BY <1>3 DEF Init, Unwritten, Underway, Settled, Ordered
<1>5. LinesWhole
  <2>1. (file \o (IF holder = None THEN <<>> ELSE rest[holder])) \o buf = <<>>
    BY DEF Init
  <2> QED
    BY <2>1 DEF LinesWhole, Whole
<1> QED
  BY <1>1, <1>2, <1>4, <1>5 DEF AuditInv

\* Every step keeps the types, the mutex and the order of buffer and line.
LEMMA GuardedNext ==
    ASSUME AuditTypes, Guarded, [Next]_vars
    PROVE  AuditTypes' /\ Guarded'
<1>a. /\ size \in [Writer -> Nat \ {0}] /\ CAP \in Nat \ {0} /\ None \notin Writer
  BY AuditAssumption
<1>t. /\ daemon \in {"up", "down"} /\ starts \in Nat /\ starts >= 1
      /\ file \in Seq(Cells) /\ buf \in Seq(Cells) /\ rest \in [Writer -> Seq(Cells)]
      /\ holder \in Writer \cup {None} /\ acks \in Seq(Writer)
      /\ pc \in [Writer -> {"idle", "ok", "failed"} \cup Busy]
  BY DEF AuditTypes
<1>g. /\ \A w \in Writer : pc[w] \in Busy <=> holder = w
      /\ \A w \in Writer : rest[w] # <<>> => pc[w] = "direct"
      /\ \A w \in Writer : pc[w] = "direct" => buf = <<>> /\ size[w] >= CAP
      /\ daemon = "down" => holder = None /\ buf = <<>>
  BY DEF Guarded
<1> USE DEF AuditTypes, Guarded, Busy
<1>u. CASE UNCHANGED vars
  BY <1>t, <1>g, <1>u DEF vars
<1>1. ASSUME NEW w \in Writer, Lock(w) PROVE AuditTypes' /\ Guarded'
  BY <1>a, <1>t, <1>g, <1>1 DEF Lock
<1>2. ASSUME NEW w \in Writer, Drain(w) PROVE AuditTypes' /\ Guarded'
  <2>1. PICK n \in 1..Len(buf) : file' = file \o SubSeq(buf, 1, n) /\ buf' = SubSeq(buf, n + 1, Len(buf))
    BY <1>2 DEF Drain
  <2>2. n \in 0..Len(buf)
    BY <1>t, <2>1
  <2>3. SubSeq(buf, 1, n) \in Seq(Cells) /\ buf' \in Seq(Cells)
    BY <1>t, <2>1, <2>2, CutAt
  <2>4. file' \in Seq(Cells)
    BY <1>t, <2>1, <2>3, ConcatProperties
  <2>5. UNCHANGED <<daemon, starts, holder, pc, rest, acks>> /\ buf # <<>> /\ daemon = "up"
    BY <1>2 DEF Drain, Draining
  <2> QED
    BY <1>t, <1>g, <2>3, <2>4, <2>5
<1>3. ASSUME NEW w \in Writer, DrainFails(w) PROVE AuditTypes' /\ Guarded'
  BY <1>a, <1>t, <1>g, <1>3 DEF DrainFails, Draining, Leave
<1>4. ASSUME NEW w \in Writer, Keep(w) PROVE AuditTypes' /\ Guarded'
  <2>1. buf' \in Seq(Cells)
    BY <1>t, <1>4, LineType, ConcatProperties DEF Keep
  <2>2. /\ daemon = "up" /\ pc[w] = "room" /\ pc' = [pc EXCEPT ![w] = "flush"]
        /\ UNCHANGED <<daemon, starts, file, holder, rest, acks>>
    BY <1>4 DEF Keep
  <2>3. holder = w
    BY <1>g, <2>2
  <2>4. \A v \in Writer : pc'[v] # "direct"
    BY <1>t, <1>g, <2>2, <2>3
  <2>5. \A v \in Writer : rest[v] = <<>>
    BY <1>t, <1>g, <2>2, <2>3
  <2> QED
    BY <1>t, <1>g, <2>1, <2>2, <2>4, <2>5
<1>5. ASSUME NEW w \in Writer, GoPast(w) PROVE AuditTypes' /\ Guarded'
  <2>1. Line(w) \in Seq(Cells)
    BY LineType
  <2> QED
    BY <1>t, <1>g, <1>5, <2>1 DEF GoPast
<1>6. ASSUME NEW w \in Writer, WriteDirect(w) PROVE AuditTypes' /\ Guarded'
  <2>1. PICK n \in 1..Len(rest[w]) :
          /\ file' = file \o SubSeq(rest[w], 1, n)
          /\ rest' = [rest EXCEPT ![w] = SubSeq(@, n + 1, Len(@))]
          /\ pc' = [pc EXCEPT ![w] = IF n = Len(rest[w]) THEN "flush" ELSE "direct"]
    BY <1>6 DEF WriteDirect
  <2>2. rest[w] \in Seq(Cells) /\ n \in 0..Len(rest[w])
    BY <1>t, <2>1
  <2>3. /\ SubSeq(rest[w], 1, n) \in Seq(Cells) /\ SubSeq(rest[w], n + 1, Len(rest[w])) \in Seq(Cells)
        /\ n = Len(rest[w]) => SubSeq(rest[w], n + 1, Len(rest[w])) = <<>>
    BY <2>2, CutAt
  <2>4. file' \in Seq(Cells)
    BY <1>t, <2>1, <2>3, ConcatProperties
  <2>5. UNCHANGED <<daemon, starts, buf, holder, acks>> /\ daemon = "up" /\ pc[w] = "direct" /\ buf = <<>>
    BY <1>6, <1>g DEF WriteDirect
  <2>6. /\ rest'[w] = SubSeq(rest[w], n + 1, Len(rest[w]))
        /\ pc'[w] = IF n = Len(rest[w]) THEN "flush" ELSE "direct"
        /\ \A v \in Writer \ {w} : rest'[v] = rest[v] /\ pc'[v] = pc[v]
        /\ rest' \in [Writer -> Seq(Cells)]
    BY <1>t, <2>1, <2>3
  <2>7. pc' \in [Writer -> {"idle", "ok", "failed"} \cup Busy]
    BY <1>t, <2>1
  <2> QED
    BY <1>t, <1>g, <2>3, <2>4, <2>5, <2>6, <2>7
<1>7. ASSUME NEW w \in Writer, DirectFails(w) PROVE AuditTypes' /\ Guarded'
  BY <1>a, <1>t, <1>g, <1>7 DEF DirectFails, Leave
<1>8. ASSUME NEW w \in Writer, Flushed(w) PROVE AuditTypes' /\ Guarded'
  BY <1>a, <1>t, <1>g, <1>8 DEF Flushed, Leave
<1>9. CASE Open
  BY <1>t, <1>g, <1>9 DEF Open
<1>10. CASE Stop
  <2>1. PICK n \in 0..Len(buf) : file' = file \o SubSeq(buf, 1, n)
    BY <1>10 DEF Stop
  <2>2. SubSeq(buf, 1, n) \in Seq(Cells)
    BY <1>t, CutAt
  <2>3. file' \in Seq(Cells)
    BY <1>t, <2>1, <2>2, ConcatProperties
  <2> QED
    BY <1>t, <1>g, <1>10, <2>3 DEF Stop
<1>11. CASE Crash
  BY <1>a, <1>t, <1>g, <1>11 DEF Crash
<1> QED
  BY <1>u, <1>1, <1>2, <1>3, <1>4, <1>5, <1>6, <1>7, <1>8, <1>9, <1>10, <1>11 DEF Next

\* A step that takes no record in: what the tasks can do meanwhile.
Onward ==
    /\ acks' = acks
    /\ \A w \in Writer :
          /\ pc'[w] \in {"idle", "room"} => pc[w] \in {"idle", "room"}
          /\ pc'[w] \in {"direct", "flush"} => pc[w] \in {"direct", "flush"}
          /\ pc'[w] = "ok" <=> pc[w] = "ok"
          /\ pc[w] = "failed" => pc'[w] = "failed"

\* Cells get from what is pending into the file.
Carries ==
    /\ Onward /\ Begins(file, file') /\ Whither' = Whither
    /\ starts' = 1 /\ daemon' = "up" => starts = 1 /\ daemon = "up"

\* A record is taken in.
Accepts(w) ==
    /\ pc[w] = "room" /\ pc'[w] \in {"direct", "flush"}
    /\ \A v \in Writer \ {w} : pc'[v] = pc[v]
    /\ Whither' = Whither \o Line(w)
    /\ UNCHANGED <<daemon, starts, file, acks>>

\* What was pending, or the end of it, is lost.
Loses ==
    /\ Onward /\ Begins(file, file') /\ Begins(file', Whither) /\ Whither' = file'
    /\ holder' = None
    /\ daemon' = "down" \/ \E w \in Writer : size[w] >= CAP /\ pc'[w] = "failed"

\* Every step does one of these, or acknowledges a record.
LEMMA AuditSteps ==
    ASSUME AuditTypes, Guarded, AuditTypes', Guarded', [Next]_vars
    PROVE  \/ Carries \/ Loses \/ \E w \in Writer : Accepts(w) \/ Flushed(w)
<1>t. /\ file \in Seq(Cells) /\ buf \in Seq(Cells) /\ rest \in [Writer -> Seq(Cells)]
      /\ pc \in [Writer -> {"idle", "ok", "failed"} \cup Busy]
      /\ holder \in Writer \cup {None} /\ starts \in Nat /\ starts >= 1
  BY DEF AuditTypes
<1>g. /\ \A w \in Writer : pc[w] \in Busy <=> holder = w
      /\ \A w \in Writer : rest[w] # <<>> => pc[w] = "direct"
  BY DEF Guarded
<1>b. Begins(file, file)
  BY <1>t DEF Begins
<1>p. (\A w \in Writer : pc'[w] # "direct") => Whither' = file' \o buf'
  <2>1. (AuditTypes /\ Guarded /\ (\A w \in Writer : pc[w] # "direct")
            => Pending = buf /\ Whither = file \o buf)'
    BY PendingBuf, PTL
  <2> QED
    BY <2>1
<1>r. \A w \in Writer : pc'[w] = "direct" => Whither' = file' \o rest'[w]
  <2>1. (AuditTypes /\ Guarded => \A w \in Writer : pc[w] = "direct" =>
            holder = w /\ buf = <<>> /\ Pending = rest[w] /\ Whither = file \o rest[w])'
    BY PendingRest, PTL
  <2> QED
    BY <2>1
<1>u. CASE UNCHANGED vars
  BY <1>u, <1>b DEF vars, Carries, Onward, Whither, Pending
<1>1. ASSUME NEW w \in Writer, Lock(w) PROVE Carries
  <2>1. \A v \in Writer : pc[v] # "direct" /\ pc'[v] # "direct"
    BY <1>t, <1>g, <1>1, AuditAssumption DEF Lock, Busy
  <2>2. Whither = file \o buf /\ Whither' = file' \o buf'
    BY <1>p, <2>1, PendingBuf
  <2> QED
    BY <1>t, <1>b, <1>1, <2>2 DEF Lock, Carries, Onward
<1>2. ASSUME NEW w \in Writer, Drain(w) PROVE Carries
  <2>1. PICK n \in 1..Len(buf) : file' = file \o SubSeq(buf, 1, n) /\ buf' = SubSeq(buf, n + 1, Len(buf))
    BY <1>2 DEF Drain
  <2>2. n \in 0..Len(buf)
    BY <1>t, <2>1
  <2>3. SubSeq(buf, 1, n) \in Seq(Cells) /\ buf' \in Seq(Cells) /\ SubSeq(buf, 1, n) \o buf' = buf
    BY <1>t, <2>1, <2>2, CutAt
  <2>4. UNCHANGED <<daemon, starts, holder, pc, rest, acks>> /\ pc[w] \in {"room", "flush"}
    BY <1>2 DEF Drain, Draining
  <2>5. \A v \in Writer : pc[v] # "direct" /\ pc'[v] # "direct"
    BY <1>t, <1>g, <2>4 DEF Busy
  <2>6. Whither = file \o buf /\ Whither' = file' \o buf'
    BY <1>p, <2>5, PendingBuf
  <2>7. Whither' = Whither
    <3>1. (file \o SubSeq(buf, 1, n)) \o buf' = file \o (SubSeq(buf, 1, n) \o buf')
      BY <1>t, <2>3, Regroup, Zenon
    <3> QED
      BY <2>1, <2>3, <2>6, <3>1
  <2>8. Begins(file, file')
    BY <1>t, <2>1, <2>3, BeginsConcat
  <2> QED
    BY <2>4, <2>7, <2>8 DEF Carries, Onward
<1>3. ASSUME NEW w \in Writer, DrainFails(w) PROVE Carries
  <2>1. /\ UNCHANGED <<daemon, starts, file, buf, rest, acks>> /\ pc[w] \in {"room", "flush"}
        /\ pc' = [pc EXCEPT ![w] = "failed"]
    BY <1>3 DEF DrainFails, Draining, Leave
  <2>2. \A v \in Writer : pc[v] # "direct" /\ pc'[v] # "direct"
    BY <1>t, <1>g, <2>1 DEF Busy
  <2>3. Whither = file \o buf /\ Whither' = file' \o buf'
    BY <1>p, <2>2, PendingBuf
  <2> QED
    BY <1>t, <1>b, <2>1, <2>3 DEF Carries, Onward
<1>4. ASSUME NEW w \in Writer, Keep(w) PROVE Accepts(w)
  <2>1. /\ UNCHANGED <<daemon, starts, file, holder, rest, acks>> /\ pc[w] = "room"
        /\ pc' = [pc EXCEPT ![w] = "flush"] /\ buf' = buf \o Line(w)
    BY <1>4 DEF Keep
  <2>2. \A v \in Writer : pc[v] # "direct" /\ pc'[v] # "direct"
    BY <1>t, <1>g, <2>1 DEF Busy
  <2>3. Whither = file \o buf /\ Whither' = file' \o buf'
    BY <1>p, <2>2, PendingBuf
  <2>4. Line(w) \in Seq(Cells)
    BY LineType
  <2>5. Whither' = Whither \o Line(w)
    <3>1. (file \o buf) \o Line(w) = file \o (buf \o Line(w))
      BY <1>t, <2>4, Regroup, Zenon
    <3> QED
      BY <2>1, <2>3, <3>1
  <2> QED
    BY <1>t, <2>1, <2>5 DEF Accepts
<1>5. ASSUME NEW w \in Writer, GoPast(w) PROVE Accepts(w)
  <2>1. /\ UNCHANGED <<daemon, starts, file, buf, holder, acks>> /\ pc[w] = "room" /\ buf = <<>>
        /\ pc' = [pc EXCEPT ![w] = "direct"] /\ rest' = [rest EXCEPT ![w] = Line(w)]
    BY <1>5 DEF GoPast
  <2>2. \A v \in Writer : pc[v] # "direct"
    BY <1>t, <1>g, <2>1 DEF Busy
  <2>3. Whither = file
    BY <1>t, <2>1, <2>2, PendingBuf, ConcatEmptySeq
  <2>4. pc'[w] = "direct" /\ rest'[w] = Line(w)
    BY <1>t, <2>1
  <2>5. Whither' = file' \o rest'[w]
    BY <1>r, <2>4
  <2> QED
    BY <1>t, <2>1, <2>3, <2>4, <2>5 DEF Accepts
<1>6. ASSUME NEW w \in Writer, WriteDirect(w) PROVE Carries
  <2>1. PICK n \in 1..Len(rest[w]) :
          /\ file' = file \o SubSeq(rest[w], 1, n)
          /\ rest' = [rest EXCEPT ![w] = SubSeq(@, n + 1, Len(@))]
          /\ pc' = [pc EXCEPT ![w] = IF n = Len(rest[w]) THEN "flush" ELSE "direct"]
    BY <1>6 DEF WriteDirect
  <2>2. rest[w] \in Seq(Cells) /\ n \in 0..Len(rest[w])
    BY <1>t, <2>1
  <2>3. /\ SubSeq(rest[w], 1, n) \in Seq(Cells) /\ SubSeq(rest[w], n + 1, Len(rest[w])) \in Seq(Cells)
        /\ SubSeq(rest[w], 1, n) \o SubSeq(rest[w], n + 1, Len(rest[w])) = rest[w]
        /\ n = Len(rest[w]) => SubSeq(rest[w], n + 1, Len(rest[w])) = <<>>
    BY <2>2, CutAt
  <2>4. UNCHANGED <<daemon, starts, buf, holder, acks>> /\ pc[w] = "direct"
    BY <1>6 DEF WriteDirect
  <2>5. Whither = file \o rest[w] /\ buf = <<>> /\ holder = w
    BY <2>4, PendingRest
  <2>6. rest'[w] = SubSeq(rest[w], n + 1, Len(rest[w])) /\ rest'[w] \in Seq(Cells)
    BY <1>t, <2>1, <2>3
  <2>7. Whither' = file' \o rest'[w]
    <3>1. w # None
      BY AuditAssumption
    <3>2. Pending' = rest'[w] \o <<>>
      BY <2>4, <2>5, <3>1 DEF Pending
    <3> QED
      BY <2>6, <3>2, ConcatEmptySeq DEF Whither
  <2>8. Whither' = Whither
    <3>1. (file \o SubSeq(rest[w], 1, n)) \o rest'[w] = file \o (SubSeq(rest[w], 1, n) \o rest'[w])
      BY <1>t, <2>3, <2>6, Regroup, Zenon
    <3> QED
      BY <2>1, <2>3, <2>5, <2>6, <2>7, <3>1
  <2>9. Begins(file, file')
    BY <1>t, <2>1, <2>3, BeginsConcat
  <2>10. Onward
    BY <1>t, <2>1, <2>4 DEF Onward
  <2> QED
    BY <2>4, <2>8, <2>9, <2>10 DEF Carries
<1>7. ASSUME NEW w \in Writer, DirectFails(w) PROVE Loses
  <2>1. /\ UNCHANGED <<daemon, starts, file, buf, acks>> /\ pc[w] = "direct"
        /\ pc' = [pc EXCEPT ![w] = "failed"] /\ holder' = None
    BY <1>7 DEF DirectFails, Leave
  <2>2. buf = <<>> /\ size[w] >= CAP
    BY <2>1 DEF Guarded
  <2>3. Whither' = file'
    BY <1>t, <2>1, <2>2, ConcatEmptySeq DEF Whither, Pending
  <2>4. Begins(file, Whither)
    BY WhitherType
  <2> QED
    BY <1>t, <1>b, <2>1, <2>2, <2>3, <2>4 DEF Loses, Onward
<1>8. CASE Open
  <2>1. starts' # 1
    BY <1>t, <1>8 DEF Open
  <2> QED
    BY <1>b, <1>8, <2>1 DEF Open, Carries, Onward, Whither, Pending
<1>9. CASE Stop
  <2>1. PICK n \in 0..Len(buf) : file' = file \o SubSeq(buf, 1, n)
    BY <1>9 DEF Stop
  <2>2. /\ SubSeq(buf, 1, n) \in Seq(Cells) /\ SubSeq(buf, n + 1, Len(buf)) \in Seq(Cells)
        /\ SubSeq(buf, 1, n) \o SubSeq(buf, n + 1, Len(buf)) = buf
    BY <1>t, CutAt
  <2>3. file' \in Seq(Cells)
    BY <1>t, <2>1, <2>2, ConcatProperties
  <2>4. Whither = file \o buf
    BY <1>9, <1>t, <1>g, AuditAssumption, PendingBuf DEF Stop, Busy
  <2>5. Whither = file' \o SubSeq(buf, n + 1, Len(buf))
    <3>1. (file \o SubSeq(buf, 1, n)) \o SubSeq(buf, n + 1, Len(buf))
            = file \o (SubSeq(buf, 1, n) \o SubSeq(buf, n + 1, Len(buf)))
      BY <1>t, <2>2, Regroup, Zenon
    <3> QED
      BY <2>1, <2>2, <2>4, <3>1
  <2>6. Begins(file, file') /\ Begins(file', Whither)
    BY <1>t, <2>1, <2>2, <2>3, <2>5, BeginsConcat
  <2>7. Whither' = file'
    BY <1>9, <2>3, ConcatEmptySeq DEF Stop, Whither, Pending
  <2> QED
    BY <1>9, <2>6, <2>7 DEF Stop, Loses, Onward
<1>10. CASE Crash
  <2>1. Whither' = file'
    BY <1>10, <1>t, ConcatEmptySeq DEF Crash, Whither, Pending
  <2>2. Begins(file, Whither)
    BY WhitherType
  <2>3. Onward
    BY <1>10, <1>t DEF Crash, Onward
  <2> QED
    BY <1>b, <1>10, <2>1, <2>2, <2>3 DEF Crash, Loses
<1> QED
  BY <1>u, <1>1, <1>2, <1>3, <1>4, <1>5, <1>6, <1>7, <1>8, <1>9, <1>10 DEF Next

-----------------------------------------------------------------------------
(* Where the lines stand. *)

\* t is s with the line of w behind it, cell by cell.
Longer(s, w, t) ==
    /\ t \in Seq(Cells) /\ Len(s) \in Nat /\ DOMAIN s = 1..Len(s)
    /\ Len(t) = Len(s) + size[w] /\ DOMAIN t = 1..(Len(s) + size[w])
    /\ size[w] \in Nat /\ size[w] >= 1
    /\ \A i \in 1..Len(s) : t[i] = s[i]
    /\ \A k \in 1..size[w] : /\ t[Len(s) + k] = Cell(w, k)
                             /\ t[Len(s) + k].rec = w /\ t[Len(s) + k].part = k
    /\ \A i \in DOMAIN t : i \in 1..Len(s) \/ \E k \in 1..size[w] : i = Len(s) + k

\* The cells of a sequence with one more line.
LEMMA OneMoreLine ==
    ASSUME NEW s \in Seq(Cells), NEW w \in Writer, NEW t, t = s \o Line(w)
    PROVE  Longer(s, w, t)
<1> DEFINE n == Len(s)
           z == size[w]
<1>1. /\ Line(w) \in Seq(Cells) /\ Len(Line(w)) = z /\ z \in Nat /\ z >= 1
      /\ \A k \in 1..z : Line(w)[k] = Cell(w, k) /\ Cell(w, k).rec = w /\ Cell(w, k).part = k
  BY LineType
<1>2. n \in Nat /\ DOMAIN s = 1..n
  OBVIOUS
<1>3. /\ t \in Seq(Cells) /\ Len(t) = n + z
      /\ \A i \in 1..(n + z) : t[i] = IF i <= n THEN s[i] ELSE Line(w)[i - n]
  BY <1>1, ConcatProperties
<1>4. DOMAIN t = 1..(n + z)
  BY <1>3
<1> HIDE DEF n, z
<1>5. \A i \in 1..n : t[i] = s[i]
  BY <1>1, <1>2, <1>3
<1>6. \A k \in 1..z : t[n + k] = Cell(w, k) /\ t[n + k].rec = w /\ t[n + k].part = k
  <2>1. \A k \in 1..z : n + k \in 1..(n + z) /\ ~(n + k <= n) /\ (n + k) - n = k
    BY <1>1, <1>2
  <2> QED
    BY <1>1, <1>3, <2>1
<1>7. ASSUME NEW i \in 1..(n + z) PROVE i \in 1..n \/ \E k \in 1..z : i = n + k
  <2>1. CASE i <= n
    BY <1>2, <2>1
  <2>2. CASE i > n
    <3>1. i - n \in 1..z /\ i = n + (i - n)
      BY <1>1, <1>2, <2>2
    <3> QED
      BY <3>1
  <2> QED
    BY <1>1, <1>2, <2>1, <2>2
<1> QED
  BY <1>1, <1>2, <1>3, <1>4, <1>5, <1>6, <1>7 DEF n, z, Longer

\* A line that ends within the beginning of a sequence stands there too.
LEMMA StandsWithin ==
    ASSUME NEW s \in Seq(Cells), NEW t \in Seq(Cells), Begins(s, t), NEW w \in Writer,
           NEW i \in Nat, StandsAt(w, t, i), i + size[w] - 1 <= Len(s)
    PROVE  i \in DOMAIN s /\ StandsAt(w, s, i)
<1>1. /\ Len(s) \in Nat /\ Len(t) \in Nat /\ DOMAIN s = 1..Len(s) /\ DOMAIN t = 1..Len(t)
      /\ size[w] \in Nat /\ size[w] >= 1
  BY LineType
<1>2. Len(s) <= Len(t) /\ \A j \in 1..Len(s) : s[j] = t[j]
  BY DEF Begins
<1>3. i \in 1..Len(t)
  BY <1>1 DEF StandsAt
<1>4. i \in 1..Len(s)
  BY <1>1, <1>3
<1>5. \A k \in 1..size[w] : i + k - 1 \in 1..Len(s)
  BY <1>1, <1>4
<1>6. \A j \in 1..Len(s) : j \in 1..Len(t)
  BY <1>1, <1>2
<1> QED
  BY <1>1, <1>2, <1>4, <1>5, <1>6 DEF StandsAt

\* A line stands where it stood when one of another record comes behind it.
LEMMA StandsStill ==
    ASSUME NEW s \in Seq(Cells), NEW w \in Writer, NEW v \in Writer \ {w},
           NEW i \in Nat, StandsAt(v, s, i), NEW t, t = s \o Line(w)
    PROVE  StandsAt(v, t, i)
<1>1. /\ Len(s) \in Nat /\ DOMAIN s = 1..Len(s)
      /\ Len(t) = Len(s) + size[w] /\ DOMAIN t = 1..(Len(s) + size[w])
      /\ size[w] \in Nat /\ size[w] >= 1
      /\ \A j \in 1..Len(s) : t[j] = s[j]
      /\ \A k \in 1..size[w] : t[Len(s) + k].rec = w
      /\ \A j \in DOMAIN t : j \in 1..Len(s) \/ \E k \in 1..size[w] : j = Len(s) + k
  <2>1. Longer(s, w, t)
    BY OneMoreLine
  <2> QED
    BY <2>1 DEF Longer
<1>2. size[v] \in Nat /\ size[v] >= 1
  BY LineType
<1>3. /\ i \in 1..Len(s) /\ i + size[v] - 1 <= Len(s)
      /\ \A k \in 1..size[v] : s[i + k - 1] = Cell(v, k)
      /\ \A j \in 1..Len(s) : s[j].rec = v => j \in i..(i + size[v] - 1)
  BY <1>1 DEF StandsAt
<1>4. i \in DOMAIN t /\ i + size[v] - 1 <= Len(t)
  BY <1>1, <1>2, <1>3
<1>5. \A k \in 1..size[v] : i + k - 1 \in 1..Len(s)
  BY <1>1, <1>2, <1>3
<1>6. \A k \in 1..size[v] : t[i + k - 1] = Cell(v, k)
  BY <1>1, <1>3, <1>5
<1>7. ASSUME NEW j \in DOMAIN t, t[j].rec = v PROVE j \in i..(i + size[v] - 1)
  BY <1>1, <1>3, <1>7
<1> QED
  BY <1>4, <1>6, <1>7 DEF StandsAt

\* A new line stands behind everything.
LEMMA StandsLast ==
    ASSUME NEW s \in Seq(Cells), NEW w \in Writer, \A j \in DOMAIN s : s[j].rec # w,
           NEW t, t = s \o Line(w)
    PROVE  /\ Len(s) + 1 \in DOMAIN t /\ StandsAt(w, t, Len(s) + 1)
           /\ \A a \in Writer \ {w} : Before(a, w, t)
<1>1. /\ Len(s) \in Nat /\ DOMAIN s = 1..Len(s)
      /\ Len(t) = Len(s) + size[w] /\ DOMAIN t = 1..(Len(s) + size[w])
      /\ size[w] \in Nat /\ size[w] >= 1
      /\ \A j \in 1..Len(s) : t[j] = s[j]
      /\ \A k \in 1..size[w] : t[Len(s) + k] = Cell(w, k) /\ t[Len(s) + k].rec = w
      /\ \A j \in DOMAIN t : j \in 1..Len(s) \/ \E k \in 1..size[w] : j = Len(s) + k
  <2>1. Longer(s, w, t)
    BY OneMoreLine
  <2> QED
    BY <2>1 DEF Longer
<1>2. Len(s) + 1 \in DOMAIN t /\ (Len(s) + 1) + size[w] - 1 <= Len(t)
  BY <1>1
<1>3. \A k \in 1..size[w] : (Len(s) + 1) + k - 1 = Len(s) + k
  BY <1>1
<1>4. \A k \in 1..size[w] : t[(Len(s) + 1) + k - 1] = Cell(w, k)
  BY <1>1, <1>3
<1>5. ASSUME NEW j \in DOMAIN t, t[j].rec = w PROVE j \in (Len(s) + 1)..((Len(s) + 1) + size[w] - 1)
  <2>1. j \notin 1..Len(s)
    BY <1>1, <1>5
  <2> QED
    BY <1>1, <1>5, <2>1
<1>6. ASSUME NEW a \in Writer \ {w} PROVE Before(a, w, t)
  <2> SUFFICES ASSUME NEW i \in DOMAIN t, NEW j \in DOMAIN t, t[i].rec = a, t[j].rec = w
               PROVE  i < j
    BY DEF Before
  <2>1. i \in 1..Len(s)
    BY <1>1
  <2>2. j \in (Len(s) + 1)..((Len(s) + 1) + size[w] - 1)
    BY <1>5
  <2> QED
    BY <1>1, <2>1, <2>2
<1> QED
  BY <1>2, <1>4, <1>5, <1>6 DEF StandsAt

\* The order of two records is not disturbed by a line of a third.
LEMMA BeforeStill ==
    ASSUME NEW s \in Seq(Cells), NEW w \in Writer, NEW a, NEW b, a # w, b # w,
           Before(a, b, s), NEW t, t = s \o Line(w)
    PROVE  Before(a, b, t)
<1>1. /\ DOMAIN s = 1..Len(s)
      /\ \A j \in 1..Len(s) : t[j] = s[j]
      /\ \A k \in 1..size[w] : t[Len(s) + k].rec = w
      /\ \A j \in DOMAIN t : j \in 1..Len(s) \/ \E k \in 1..size[w] : j = Len(s) + k
  <2>1. Longer(s, w, t)
    BY OneMoreLine
  <2> QED
    BY <2>1 DEF Longer
<1>2. \A j \in DOMAIN t : t[j].rec # w => j \in DOMAIN s /\ t[j] = s[j]
  BY <1>1
<1> QED
  BY <1>2 DEF Before

\* Nor by cutting the sequence.
LEMMA BeforeWithin ==
    ASSUME NEW s \in Seq(Cells), NEW t \in Seq(Cells), Begins(s, t), NEW a, NEW b, Before(a, b, t)
    PROVE  Before(a, b, s)
<1>1. \A j \in DOMAIN s : j \in DOMAIN t /\ s[j] = t[j]
  BY DEF Begins
<1> QED
  BY <1>1 DEF Before

\* Whole lines and one more line are whole lines.
LEMMA WholeStill ==
    ASSUME NEW s \in Seq(Cells), Whole(s), NEW w \in Writer, NEW t, t = s \o Line(w)
    PROVE  Whole(t)
<1> DEFINE n == Len(s)
           z == size[w]
<1>1. /\ t \in Seq(Cells) /\ n \in Nat /\ DOMAIN s = 1..n /\ Len(t) = n + z /\ DOMAIN t = 1..(n + z)
      /\ z \in Nat /\ z >= 1
      /\ \A j \in 1..n : t[j] = s[j]
      /\ \A k \in 1..z : t[n + k] = Cell(w, k) /\ t[n + k].rec = w /\ t[n + k].part = k
      /\ \A j \in DOMAIN t : j \in 1..n \/ \E k \in 1..z : j = n + k
  <2>1. Longer(s, w, t)
    BY OneMoreLine
  <2> QED
    BY <2>1 DEF Longer
<1>2. /\ \A i \in 1..n : IF s[i].part = 1 THEN i = 1 \/ s[i - 1].part = size[s[i - 1].rec]
                         ELSE i > 1 /\ s[i - 1] = Cell(s[i].rec, s[i].part - 1)
      /\ s # <<>> => s[n].part = size[s[n].rec]
  BY <1>1 DEF Whole, Last
<1>3. n = 0 \/ s # <<>>
  OBVIOUS
<1> HIDE DEF n, z
<1>4. ASSUME NEW i \in 1..n
      PROVE  IF t[i].part = 1 THEN i = 1 \/ t[i - 1].part = size[t[i - 1].rec]
             ELSE i > 1 /\ t[i - 1] = Cell(t[i].rec, t[i].part - 1)
  <2>1. CASE i = 1
    BY <1>1, <1>2, <2>1
  <2>2. CASE i # 1
    <3>1. i - 1 \in 1..n
      BY <1>1, <2>2
    <3>2. t[i] = s[i] /\ t[i - 1] = s[i - 1]
      BY <1>1, <3>1
    <3> QED
      BY <1>2, <3>2
  <2> QED
    BY <2>1, <2>2
<1>5. ASSUME NEW k \in 1..z, NEW i, i = n + k
      PROVE  IF t[i].part = 1 THEN i = 1 \/ t[i - 1].part = size[t[i - 1].rec]
             ELSE i > 1 /\ t[i - 1] = Cell(t[i].rec, t[i].part - 1)
  <2>1. t[i].part = k /\ t[i].rec = w
    BY <1>1, <1>5
  <2>2. CASE k = 1
    <3>1. CASE n = 0
      BY <1>5, <2>1, <2>2, <3>1
    <3>2. CASE n # 0
      <4>1. n \in 1..n /\ i - 1 = n
        BY <1>1, <1>5, <2>2, <3>2
      <4>2. t[i - 1] = s[n]
        BY <1>1, <4>1
      <4> QED
        BY <1>2, <1>3, <2>1, <2>2, <3>2, <4>2
    <3> QED
      BY <3>1, <3>2
  <2>3. CASE k # 1
    <3>1. k - 1 \in 1..z /\ i - 1 = n + (k - 1) /\ i > 1
      BY <1>1, <1>5, <2>3
    <3>2. t[n + (k - 1)] = Cell(w, k - 1)
      BY <1>1, <3>1
    <3> QED
      BY <2>1, <2>3, <3>1, <3>2
  <2> QED
    BY <2>2, <2>3
<1>6. Last(t).part = size[Last(t).rec]
  <2>1. z \in 1..z
    BY <1>1
  <2>2. t[n + z].rec = w /\ t[n + z].part = z
    BY <1>1, <2>1
  <2>3. Last(t) = t[n + z]
    BY <1>1 DEF Last
  <2> QED
    BY <2>2, <2>3 DEF z
<1>7. \A i \in DOMAIN t : IF t[i].part = 1 THEN i = 1 \/ t[i - 1].part = size[t[i - 1].rec]
                         ELSE i > 1 /\ t[i - 1] = Cell(t[i].rec, t[i].part - 1)
  <2> SUFFICES ASSUME NEW i \in DOMAIN t
               PROVE  IF t[i].part = 1 THEN i = 1 \/ t[i - 1].part = size[t[i - 1].rec]
                      ELSE i > 1 /\ t[i - 1] = Cell(t[i].rec, t[i].part - 1)
    OBVIOUS
  <2>1. CASE i \in 1..n
    BY <1>4, <2>1
  <2>2. CASE \E k \in 1..z : i = n + k
    <3>1. PICK k \in 1..z : i = n + k
      BY <2>2
    <3> QED
      BY <1>5, <3>1
  <2> QED
    BY <1>1, <2>1, <2>2
<1> QED
  BY <1>6, <1>7 DEF Whole

-----------------------------------------------------------------------------
(* The invariant. *)

\* Cells on their way into the file leave every record where it stands.
LEMMA CarriedRecords ==
    ASSUME AuditTypes, AuditTypes', Unwritten, Underway, Settled, Ordered, Carries
    PROVE  Unwritten' /\ Underway' /\ Settled' /\ Ordered'
<1>1. /\ Whither' = Whither /\ acks' = acks
      /\ \A w \in Writer :
          /\ pc'[w] \in {"idle", "room"} => pc[w] \in {"idle", "room"}
          /\ pc'[w] \in {"direct", "flush"} => pc[w] \in {"direct", "flush"}
          /\ pc'[w] = "ok" <=> pc[w] = "ok"
  BY DEF Carries, Onward
<1>2. Unwritten'
  BY <1>1 DEF Unwritten
<1>3. Underway'
  BY <1>1 DEF Underway
<1>4. Settled'
  <2> SUFFICES ASSUME NEW w \in Writer, pc[w] = "ok"
               PROVE  \E i \in DOMAIN file' : StandsAt(w, Whither, i) /\ i + size[w] - 1 <= Len(file')
    BY <1>1 DEF Settled
  <2>1. PICK i \in DOMAIN file : StandsAt(w, Whither, i) /\ i + size[w] - 1 <= Len(file)
    BY DEF Settled
  <2>2. /\ Len(file) <= Len(file') /\ Len(file) \in Nat /\ Len(file') \in Nat
        /\ DOMAIN file = 1..Len(file) /\ DOMAIN file' = 1..Len(file') /\ size[w] \in Nat
    <3>1. file \in Seq(Cells) /\ file' \in Seq(Cells) /\ size[w] \in Nat
      BY LineType DEF AuditTypes
    <3> QED
      BY <3>1 DEF Carries, Begins
  <2>3. i \in DOMAIN file' /\ i + size[w] - 1 <= Len(file')
    BY <2>1, <2>2
  <2> QED
    BY <2>1, <2>3
<1>5. Ordered'
  <2>1. \A n \in DOMAIN acks : acks[n] \in Writer
    BY DEF AuditTypes
  <2> QED
    BY <1>1, <2>1 DEF Ordered
<1> QED
  BY <1>2, <1>3, <1>4, <1>5

\* A record that is taken in goes behind all others.
LEMMA AcceptedRecords ==
    ASSUME AuditTypes, Guarded, Unwritten, Underway, Settled, Ordered, NEW w \in Writer, Accepts(w)
    PROVE  Unwritten' /\ Underway' /\ Settled' /\ Ordered'
<1>1. /\ pc[w] = "room" /\ pc'[w] \in {"direct", "flush"}
      /\ \A v \in Writer \ {w} : pc'[v] = pc[v]
      /\ Whither' = Whither \o Line(w) /\ UNCHANGED <<file, acks>>
  BY DEF Accepts
<1>2. Whither \in Seq(Cells) /\ DOMAIN Whither = 1..Len(Whither) /\ Len(Whither) \in Nat
  BY WhitherType
<1>3. \A j \in DOMAIN Whither : Whither[j].rec # w
  BY <1>1 DEF Unwritten
<1>4. \A n \in DOMAIN acks : acks[n] \in Writer /\ pc[acks[n]] = "ok" /\ acks[n] # w
  BY <1>1 DEF AuditTypes, Ordered
<1>5. Unwritten'
  <2>1. Longer(Whither, w, Whither')
    BY <1>1, <1>2, OneMoreLine
  <2>2. \A j \in DOMAIN Whither' : Whither'[j].rec # w => j \in DOMAIN Whither /\ Whither'[j] = Whither[j]
    BY <2>1 DEF Longer
  <2> QED
    BY <1>1, <2>2 DEF Unwritten
<1>6. Underway'
  <2> SUFFICES ASSUME NEW v \in Writer, pc'[v] \in {"direct", "flush"}
               PROVE  /\ \E i \in DOMAIN Whither' : StandsAt(v, Whither', i)
                      /\ \A n \in DOMAIN acks : Before(acks[n], v, Whither')
    BY <1>1 DEF Underway
  <2>1. v = w
    BY <1>1 DEF Guarded, Busy
  <2>2. /\ Len(Whither) + 1 \in DOMAIN Whither' /\ StandsAt(w, Whither', Len(Whither) + 1)
        /\ \A a \in Writer \ {w} : Before(a, w, Whither')
    BY <1>1, <1>2, <1>3, StandsLast
  <2>3. \A n \in DOMAIN acks : Before(acks[n], w, Whither')
    BY <1>4, <2>2
  <2> QED
    BY <2>1, <2>2, <2>3
<1>7. Settled'
  <2> SUFFICES ASSUME NEW v \in Writer, pc'[v] = "ok"
               PROVE  \E i \in DOMAIN file : StandsAt(v, Whither', i) /\ i + size[v] - 1 <= Len(file)
    BY <1>1 DEF Settled
  <2>1. v # w /\ pc[v] = "ok"
    BY <1>1
  <2>2. PICK i \in DOMAIN file : StandsAt(v, Whither, i) /\ i + size[v] - 1 <= Len(file)
    BY <2>1 DEF Settled
  <2>3. i \in Nat
    BY <2>2 DEF AuditTypes
  <2>4. StandsAt(v, Whither', i)
    BY <1>1, <1>2, <2>1, <2>2, <2>3, StandsStill
  <2> QED
    BY <2>2, <2>4
<1>8. Ordered'
  <2>1. \A n \in DOMAIN acks : pc'[acks[n]] = "ok"
    BY <1>1, <1>4
  <2>2. ASSUME NEW m \in DOMAIN acks, NEW n \in DOMAIN acks, m < n
        PROVE  Before(acks[m], acks[n], Whither')
    <3>1. Before(acks[m], acks[n], Whither)
      BY <2>2 DEF Ordered
    <3> QED
      BY <1>1, <1>2, <1>4, <3>1, BeforeStill
  <2> QED
    BY <1>1, <2>1, <2>2 DEF Ordered
<1> QED
  BY <1>5, <1>6, <1>7, <1>8

\* An acknowledged record is in the file, behind those acknowledged before.
LEMMA FlushedRecords ==
    ASSUME AuditTypes, Guarded, Unwritten, Underway, Settled, Ordered, NEW w \in Writer, Flushed(w)
    PROVE  /\ Unwritten' /\ Underway' /\ Settled' /\ Ordered'
           /\ Whither' = Whither
<1>1. /\ pc[w] = "flush" /\ buf = <<>> /\ holder' = None /\ pc' = [pc EXCEPT ![w] = "ok"]
      /\ acks' = Append(acks, w) /\ UNCHANGED <<file, buf, rest>>
  BY DEF Flushed, Leave
<1>2. \A v \in Writer \ {w} : pc[v] \notin Busy
  BY <1>1 DEF Guarded, Busy
<1>3. Whither = file /\ Whither' = file
  <2>1. \A v \in Writer : pc[v] # "direct"
    BY <1>1, <1>2 DEF Busy
  <2>2. file \in Seq(Cells)
    BY DEF AuditTypes
  <2>3. Whither = file
    BY <1>1, <2>1, <2>2, PendingBuf, ConcatEmptySeq
  <2>4. Whither' = file
    BY <1>1, <2>2, ConcatEmptySeq DEF Whither, Pending
  <2> QED
    BY <2>3, <2>4
<1>4. /\ pc'[w] = "ok" /\ \A v \in Writer \ {w} : pc'[v] = pc[v]
  BY <1>1 DEF AuditTypes
<1>5. /\ Len(acks) \in Nat /\ DOMAIN acks = 1..Len(acks) /\ DOMAIN acks' = 1..(Len(acks) + 1)
      /\ acks'[Len(acks) + 1] = w /\ \A n \in 1..Len(acks) : acks'[n] = acks[n]
      /\ \A n \in DOMAIN acks : acks[n] \in Writer
  <2>1. acks \in Seq(Writer)
    BY DEF AuditTypes
  <2>2. acks' \in Seq(Writer) /\ Len(acks') = Len(acks) + 1
    BY <1>1, <2>1, AppendProperties
  <2> QED
    BY <1>1, <2>1, <2>2, AppendProperties
<1>6. Unwritten'
  BY <1>3, <1>4 DEF Unwritten
<1>7. Underway'
  BY <1>2, <1>4 DEF Underway, Busy
<1>8. /\ \E i \in DOMAIN file : StandsAt(w, file, i)
      /\ \A n \in DOMAIN acks : Before(acks[n], w, file)
  BY <1>1, <1>3 DEF Underway
<1>9. Settled'
  <2>1. PICK i \in DOMAIN file : StandsAt(w, file, i)
    BY <1>8
  <2>2. i + size[w] - 1 <= Len(file)
    BY <2>1 DEF StandsAt
  <2> QED
    BY <1>1, <1>3, <1>4, <2>1, <2>2 DEF Settled
<1>10. Ordered'
  <2>1. ASSUME NEW n \in DOMAIN acks' PROVE pc'[acks'[n]] = "ok"
    <3>1. CASE n \in 1..Len(acks)
      <4>1. acks'[n] = acks[n] /\ acks[n] \in Writer /\ pc[acks[n]] = "ok"
        BY <1>5, <3>1 DEF Ordered
      <4> QED
        BY <1>4, <4>1
    <3>2. CASE n = Len(acks) + 1
      BY <1>4, <1>5, <3>2
    <3> QED
      BY <1>5, <3>1, <3>2
  <2>2. ASSUME NEW m \in DOMAIN acks', NEW n \in DOMAIN acks', m < n
        PROVE  Before(acks'[m], acks'[n], file)
    <3>1. m \in 1..Len(acks)
      BY <1>5, <2>2
    <3>2. CASE n \in 1..Len(acks)
      BY <1>3, <1>5, <2>2, <3>1, <3>2 DEF Ordered
    <3>3. CASE n = Len(acks) + 1
      BY <1>5, <1>8, <3>1, <3>3
    <3> QED
      BY <1>5, <3>2, <3>3
  <2> QED
    BY <1>3, <2>1, <2>2 DEF Ordered
<1> QED
  BY <1>3, <1>6, <1>7, <1>9, <1>10

\* What is lost is none of what was acknowledged.
LEMMA LostRecords ==
    ASSUME AuditTypes, AuditTypes', Guarded', Unwritten, Underway, Settled, Ordered, Loses
    PROVE  Unwritten' /\ Underway' /\ Settled' /\ Ordered'
<1>1. /\ Whither' = file' /\ acks' = acks /\ holder' = None
      /\ Begins(file, file') /\ Begins(file', Whither)
      /\ \A w \in Writer :
          /\ pc'[w] \in {"idle", "room"} => pc[w] \in {"idle", "room"}
          /\ pc'[w] = "ok" <=> pc[w] = "ok"
  BY DEF Loses, Onward
<1>2. /\ Whither \in Seq(Cells) /\ file' \in Seq(Cells) /\ file \in Seq(Cells)
  BY WhitherType DEF AuditTypes
<1>3. Unwritten'
  <2>1. \A j \in DOMAIN file' : j \in DOMAIN Whither /\ file'[j] = Whither[j]
    <3>1. /\ DOMAIN file' = 1..Len(file') /\ DOMAIN Whither = 1..Len(Whither)
          /\ Len(file') \in Nat /\ Len(Whither) \in Nat
      BY <1>2
    <3>2. Len(file') <= Len(Whither) /\ \A j \in 1..Len(file') : file'[j] = Whither[j]
      BY <1>1 DEF Begins
    <3> QED
      BY <3>1, <3>2
  <2> QED
    BY <1>1, <2>1 DEF Unwritten
<1>4. Underway'
  BY <1>1, AuditAssumption DEF Underway, Guarded, Busy
<1>5. Settled'
  <2> SUFFICES ASSUME NEW w \in Writer, pc[w] = "ok"
               PROVE  \E i \in DOMAIN file' : StandsAt(w, file', i) /\ i + size[w] - 1 <= Len(file')
    BY <1>1 DEF Settled
  <2>1. PICK i \in DOMAIN file : StandsAt(w, Whither, i) /\ i + size[w] - 1 <= Len(file)
    BY DEF Settled
  <2>2. /\ Len(file) <= Len(file') /\ Len(file) \in Nat /\ Len(file') \in Nat /\ i \in Nat /\ size[w] \in Nat
    BY <1>1, <1>2, <2>1, LineType DEF Begins
  <2>3. i + size[w] - 1 <= Len(file')
    BY <2>1, <2>2
  <2> QED
    BY <1>1, <1>2, <2>1, <2>2, <2>3, StandsWithin
<1>6. Ordered'
  <2>1. \A n \in DOMAIN acks : acks[n] \in Writer
    BY DEF AuditTypes
  <2>2. ASSUME NEW m \in DOMAIN acks, NEW n \in DOMAIN acks, m < n
        PROVE  Before(acks[m], acks[n], file')
    <3>1. Before(acks[m], acks[n], Whither)
      BY <2>2 DEF Ordered
    <3> QED
      BY <1>1, <1>2, <3>1, BeforeWithin
  <2> QED
    BY <1>1, <2>1, <2>2 DEF Ordered
<1> QED
  BY <1>3, <1>4, <1>5, <1>6

\* A record that goes past the buffer has failed.
LargeFailed == \E w \in Writer : size[w] >= CAP /\ pc[w] = "failed"

\* The lines that LinesWhole is about are those on their way.
LEMMA LinesAhead ==
    AuditTypes => (LinesWhole <=> (starts = 1 /\ daemon = "up" /\ ~LargeFailed => Whole(Whither)))
BY WhitherType DEF LinesWhole, LargeFailed

\* The lines stay whole.
LEMMA WholeNext ==
    ASSUME AuditTypes, AuditTypes', LinesWhole,
           \/ Carries \/ Loses
           \/ \E w \in Writer : Accepts(w) \/ (Flushed(w) /\ Whither' = Whither)
    PROVE  LinesWhole'
<1>1. starts = 1 /\ daemon = "up" /\ ~LargeFailed => Whole(Whither)
  BY LinesAhead
<1>2. (AuditTypes => (LinesWhole <=> (starts = 1 /\ daemon = "up" /\ ~LargeFailed => Whole(Whither))))'
  BY LinesAhead, PTL
<1> SUFFICES ASSUME starts' = 1, daemon' = "up", ~LargeFailed' PROVE Whole(Whither')
  BY <1>2
<1>3. CASE Carries
  <2>1. starts = 1 /\ daemon = "up" /\ ~LargeFailed /\ Whither' = Whither
    BY <1>3 DEF Carries, Onward, LargeFailed
  <2> QED
    BY <1>1, <2>1
<1>4. CASE Loses
  BY <1>4 DEF Loses, LargeFailed
<1>5. ASSUME NEW w \in Writer, Accepts(w) PROVE Whole(Whither')
  <2>1. starts = 1 /\ daemon = "up" /\ Whither' = Whither \o Line(w)
    BY <1>5 DEF Accepts
  <2>2. ~LargeFailed
    BY <1>5 DEF Accepts, LargeFailed
  <2>3. Whither \in Seq(Cells)
    BY WhitherType
  <2> QED
    BY <1>1, <2>1, <2>2, <2>3, WholeStill
<1>6. ASSUME NEW w \in Writer, Flushed(w), Whither' = Whither PROVE Whole(Whither')
  <2>1. UNCHANGED <<starts, daemon>> /\ pc' = [pc EXCEPT ![w] = "ok"] /\ pc[w] = "flush"
    BY <1>6 DEF Flushed, Leave
  <2>2. ~LargeFailed
    BY <2>1 DEF LargeFailed, AuditTypes
  <2> QED
    BY <1>1, <1>6, <2>1, <2>2
<1> QED
  BY <1>3, <1>4, <1>5, <1>6

\* The invariant is kept by every step.
LEMMA AuditNext == AuditInv /\ [Next]_vars => AuditInv'
<1> SUFFICES ASSUME AuditInv, [Next]_vars PROVE AuditInv'
  OBVIOUS
<1>1. AuditTypes /\ Guarded /\ Unwritten /\ Underway /\ Settled /\ Ordered /\ LinesWhole
  BY DEF AuditInv
<1>2. AuditTypes' /\ Guarded'
  BY <1>1, GuardedNext
<1>3. CASE Carries
  BY <1>1, <1>2, <1>3, CarriedRecords, WholeNext DEF AuditInv
<1>4. CASE Loses
  BY <1>1, <1>2, <1>4, LostRecords, WholeNext DEF AuditInv
<1>5. ASSUME NEW w \in Writer, Accepts(w) PROVE AuditInv'
  <2>1. LinesWhole'
    BY <1>1, <1>2, <1>5, WholeNext
  <2> QED
    BY <1>1, <1>2, <1>5, <2>1, AcceptedRecords DEF AuditInv
<1>6. ASSUME NEW w \in Writer, Flushed(w) PROVE AuditInv'
  <2>1. Unwritten' /\ Underway' /\ Settled' /\ Ordered' /\ Whither' = Whither
    BY <1>1, <1>6, FlushedRecords
  <2>2. LinesWhole'
    BY <1>1, <1>2, <1>6, <2>1, WholeNext
  <2> QED
    BY <1>2, <2>1, <2>2 DEF AuditInv
<1> QED
  BY <1>1, <1>2, <1>3, <1>4, <1>5, <1>6, AuditSteps

\* The invariant holds in every state of the log.
THEOREM AuditInvariant == Spec => []AuditInv
BY AuditInit, AuditNext, PTL DEF Spec

\* The invariant says of the file what AckedWhole says.
LEMMA SettledInFile == AuditInv => AckedWhole
<1> SUFFICES ASSUME AuditInv PROVE AckedWhole
  OBVIOUS
<1>1. /\ file \in Seq(Cells) /\ Whither \in Seq(Cells) /\ Begins(file, Whither)
  BY WhitherType DEF AuditInv, AuditTypes
<1>2. Len(file) \in Nat /\ DOMAIN file = 1..Len(file)
  BY <1>1
<1>3. ASSUME NEW w \in Writer, pc[w] = "ok"
      PROVE  \E i \in DOMAIN file :
                /\ BeginsAt(w, i)
                /\ \A j \in DOMAIN file : file[j].rec = w => j \in i..(i + size[w] - 1)
  <2>1. PICK i \in DOMAIN file : StandsAt(w, Whither, i) /\ i + size[w] - 1 <= Len(file)
    BY <1>3 DEF AuditInv, Settled
  <2>2. i \in Nat
    BY <1>2, <2>1
  <2>3. StandsAt(w, file, i)
    BY <1>1, <2>1, <2>2, StandsWithin
  <2>4. /\ i + size[w] - 1 <= Len(file)
        /\ \A k \in 1..size[w] : file[i + k - 1] = Cell(w, k)
        /\ \A j \in DOMAIN file : file[j].rec = w => j \in i..(i + size[w] - 1)
    BY <2>3 DEF StandsAt
  <2>5. SubSeq(file, i, i + size[w] - 1) = Line(w)
    <3>1. /\ Line(w) \in Seq(Cells) /\ Len(Line(w)) = size[w] /\ size[w] \in Nat \ {0}
          /\ \A k \in 1..size[w] : Line(w)[k] = Cell(w, k)
      BY LineType
    <3>2. i \in Int /\ i + size[w] - 1 \in Int /\ i <= i + size[w] - 1
          /\ (i + size[w] - 1) - i + 1 = size[w]
      BY <2>2, <3>1
    <3>3. \A j \in i..(i + size[w] - 1) : file[j] \in Cells
      <4>1. \A j \in i..(i + size[w] - 1) : j \in 1..Len(file)
        BY <1>2, <2>1, <2>2, <3>1
      <4> QED
        BY <1>1, <4>1, ElementOfSeq
    <3>4. /\ SubSeq(file, i, i + size[w] - 1) \in Seq(Cells)
          /\ Len(SubSeq(file, i, i + size[w] - 1)) = size[w]
          /\ \A k \in 1..size[w] : SubSeq(file, i, i + size[w] - 1)[k] = file[i + k - 1]
      BY <3>2, <3>3, SubSeqProperties
    <3> DEFINE line == SubSeq(file, i, i + size[w] - 1)
    <3>5. /\ line \in Seq(Cells) /\ Line(w) \in Seq(Cells) /\ Len(line) = Len(Line(w))
          /\ \A k \in 1..Len(line) : line[k] = Line(w)[k]
      BY <2>4, <3>1, <3>4
    <3> HIDE DEF line
    <3>6. line = Line(w)
      BY <3>5, SeqEqual, Zenon
    <3> QED
      BY <3>6 DEF line
  <2> QED
    BY <2>1, <2>4, <2>5 DEF BeginsAt
<1>4. ASSUME NEW m \in DOMAIN acks, NEW n \in DOMAIN acks, m < n,
             NEW i \in DOMAIN file, NEW j \in DOMAIN file,
             file[i].rec = acks[m], file[j].rec = acks[n]
      PROVE  i < j
  <2>1. Before(acks[m], acks[n], Whither)
    BY <1>4 DEF AuditInv, Ordered
  <2>2. Before(acks[m], acks[n], file)
    BY <1>1, <2>1, BeforeWithin
  <2> QED
    BY <1>4, <2>2 DEF Before
<1> QED
  BY <1>3, <1>4 DEF AckedWhole

\* Whatever fails and whenever the daemon dies, a record whose write returned
\* Ok is in the file once and in one piece, and the records are in the order
\* their writes returned (AuditLogger::write).
THEOREM AcknowledgedRecordsStay == Spec => []AckedWhole
BY AuditInvariant, SettledInFile, PTL

\* Within one life of the daemon, whatever fails short of a record as large as
\* the buffer, the file and what is to be written are whole lines.
THEOREM LinesStayWhole == Spec => []LinesWhole
<1>1. AuditInv => LinesWhole
  BY DEF AuditInv
<1> QED
  BY AuditInvariant, <1>1, PTL
=============================================================================

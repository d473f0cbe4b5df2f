----------------------------- MODULE WireProofs -----------------------------
(***************************************************************************)
(* Proofs about Wire: the bytes that write_frame puts on a connection and  *)
(* read_frame takes off it, for every set of messages, every base, width   *)
(* and ceiling of the length, every capacity and every way the reads fall. *)
(*                                                                         *)
(* That the bytes of a length, read back, are that length is an induction  *)
(* over the bytes (LengthsComeBack).  The library states induction for an  *)
(* operator, which the provers cannot instantiate; Inductive and Recursion *)
(* state it for a set and a function, from the least element of a set.     *)
(*                                                                         *)
(* The argument.  Ahead, the bytes from the beginning of the frame that    *)
(* the reader is in to the end of what is written or being written, is at  *)
(* every moment the frames of the messages still to be read: no step moves *)
(* a byte out of it but Decode, which takes its first frame whole.  So the *)
(* first HEADER bytes are the length of the next message and the body that *)
(* follows is its body.                                                    *)
(***************************************************************************)
EXTENDS Wire, Integers, SequenceTheorems, WellFoundedInduction, TLAPS

-----------------------------------------------------------------------------
(* The invariant.                                                          *)

\* The bytes of a message.
FrameOf(m) == to_be_bytes(Len(to_vec[m])) \o to_vec[m]

\* How many they are.
Size(m) == HEADER + Len(to_vec[m])

\* The values of the variables.
WireTypes ==
    /\ foreign \in BOOLEAN
    /\ writer \in {"idle", "writing", "refused", "cut"}
    /\ reader \in {"header", "body"} \cup Stopped
    /\ frame \in Seq(Message) /\ Len(frame) <= 1 /\ out \in Seq(Byte) /\ begun \in Nat
    /\ sock \in Seq(Byte) /\ Len(sock) <= SockCap
    /\ head \in Seq(Byte) /\ Len(head) <= HEADER
    /\ body \in Seq(Byte) /\ Len(body) <= MAX_FRAME_LEN
    /\ len \in 0..(Lengths[HEADER] - 1) /\ len \in Nat
    /\ sent \in Seq(Message) /\ got \in Seq(Message)

\* What each end holds, by where it stands.
InHand ==
    /\ writer = "writing" => /\ ~foreign /\ Len(frame) = 1 /\ out # <<>>
                             /\ Len(out) <= Size(frame[1])
    /\ writer # "writing" => frame = <<>> /\ out = <<>>
    /\ reader = "header" => body = <<>>
    /\ reader = "body" => head = <<>> /\ len <= MAX_FRAME_LEN /\ Len(body) <= len
    /\ foreign => sent = <<>>

\* What the reader has taken of the frame it is in.
Taken == IF reader = "header" THEN head ELSE to_be_bytes(len) \o body

\* The bytes from the beginning of that frame on.
Ahead == Taken \o (sock \o out)

\* The messages read are the first of those written.
ReadInOrder ==
    ~foreign => Len(got) <= Len(sent) /\ \A i \in 1..Len(got) : got[i] = sent[i]

\* p gives the offset at which each of the frames of ms ends.
Offsets(p, ms) ==
    /\ p \in [0..Len(ms) -> Nat]
    /\ \A i \in 1..Len(ms) : p[i] = p[i - 1] + Size(ms[i])
    /\ \A i, j \in 0..Len(ms) : i <= j => p[i] <= p[j]

\* From the g-th frame on, the bytes s are those of ms, as far as they go.
Spells(s, ms, p, g) ==
    \A i \in (g + 1)..Len(ms) : \A k \in 1..Size(ms[i]) :
        p[i - 1] - p[g] + k <= Len(s) => s[p[i - 1] - p[g] + k] = FrameOf(ms[i])[k]

\* What the reader has before it: the rest of the messages that were written to
\* their end, and as much of one more, last, as was written before a cut.
Spelled(last, p) ==
    /\ last \in Seq(Message) /\ Len(last) <= 1
    /\ \A i \in 1..Len(sent \o last) : Len(to_vec[(sent \o last)[i]]) <= MAX_FRAME_LEN
    /\ Offsets(p, sent \o last)
    /\ Spells(Ahead, sent \o last, p, Len(got))
    /\ IF writer = "cut"
       THEN /\ p[Len(sent)] - p[Len(got)] <= Len(Ahead)
            /\ Len(Ahead) <= p[Len(sent \o last)] - p[Len(got)]
            /\ last # <<>> => Len(Ahead) < p[Len(sent \o last)] - p[Len(got)]
       ELSE last = frame /\ Len(Ahead) = p[Len(sent \o last)] - p[Len(got)]

\* As long as the reader of write_frame's bytes goes on, they spell messages.
AheadSpelled ==
    ~foreign /\ reader \in {"header", "body"} => \E last, p : Spelled(last, p)

\* The inductive invariant.
WireInv == WireTypes /\ InHand /\ ReadInOrder /\ AheadSpelled /\ OwnFramesUnderstood

-----------------------------------------------------------------------------
(* Bytes. *)

\* The first byte of b goes behind a.
LEMMA MoveOne ==
    ASSUME NEW a \in Seq(Byte), NEW b \in Seq(Byte), b # <<>>
    PROVE  /\ Append(a, Head(b)) \in Seq(Byte) /\ Tail(b) \in Seq(Byte)
           /\ Append(a, Head(b)) \o Tail(b) = a \o b
           /\ Len(Append(a, Head(b))) = Len(a) + 1 /\ Len(Tail(b)) = Len(b) - 1
           /\ Len(a) \in Nat /\ Len(b) \in Nat
           /\ (Len(b) = 1 => Tail(b) = <<>>) /\ (Len(b) # 1 => Tail(b) # <<>>)
<1>1. Head(b) \in Byte /\ Tail(b) \in Seq(Byte)
  OBVIOUS
<1>2. Append(a, Head(b)) \o Tail(b) = a \o b
  BY <1>1
<1>3. Len(b) \in Nat /\ Len(b) # 0 /\ Len(Tail(b)) = Len(b) - 1
  OBVIOUS
<1>4. Len(b) = 1 => Tail(b) = <<>>
  <2>1. \A t \in Seq(Byte) : Len(t) = 0 => t = <<>>
    OBVIOUS
  <2>2. Len(b) = 1 => Len(Tail(b)) = 0
    BY <1>3
  <2> QED
    BY <1>1, <2>1, <2>2, Zenon
<1>5. Len(b) # 1 => Tail(b) # <<>>
  <2>1. Len(b) # 1 => Len(Tail(b)) # 0
    BY <1>3
  <2>2. Len(<<>>) = 0
    OBVIOUS
  <2> QED
    BY <2>1, <2>2, Zenon
<1>6. Append(a, Head(b)) \in Seq(Byte) /\ Len(Append(a, Head(b))) = Len(a) + 1 /\ Len(a) \in Nat
  BY <1>1
<1> QED
  BY <1>1, <1>2, <1>3, <1>4, <1>5, <1>6

\* Bytes can be put together in either grouping.
LEMMA RegroupBytes ==
    \A a, b, c \in Seq(Byte) : (a \o b) \o c = a \o (b \o c)
BY ConcatAssociative

\* So do the first n.
LEMMA MoveSome ==
    ASSUME NEW a \in Seq(Byte), NEW b \in Seq(Byte), NEW n \in 1..Len(b)
    PROVE  /\ a \o SubSeq(b, 1, n) \in Seq(Byte) /\ SubSeq(b, n + 1, Len(b)) \in Seq(Byte)
           /\ Len(a \o SubSeq(b, 1, n)) = Len(a) + n /\ Len(SubSeq(b, n + 1, Len(b))) <= Len(b)
           /\ (a \o SubSeq(b, 1, n)) \o SubSeq(b, n + 1, Len(b)) = a \o b
<1> DEFINE x == SubSeq(b, 1, n)
           y == SubSeq(b, n + 1, Len(b))
<1>1. Len(b) \in Nat /\ n \in Nat /\ 1 <= n /\ n <= Len(b) /\ Len(a) \in Nat
  OBVIOUS
<1>2. x \in Seq(Byte) /\ Len(x) = n
  <2>1. \A i \in 1..n : b[i] \in Byte
    BY <1>1
  <2> QED
    BY <1>1, <2>1, SubSeqProperties
<1>3. y \in Seq(Byte) /\ Len(y) <= Len(b)
  <2>1. \A i \in (n + 1)..Len(b) : b[i] \in Byte
    BY <1>1
  <2>2. n + 1 \in Int /\ Len(b) \in Int
    BY <1>1
  <2>3. y \in Seq(Byte) /\ Len(y) = IF n + 1 <= Len(b) THEN Len(b) - (n + 1) + 1 ELSE 0
    BY <2>1, <2>2, SubSeqProperties
  <2> QED
    BY <1>1, <2>3
<1>4. x \o y = b
  <2>1. 1 \in 1..(Len(b) + 1) /\ n \in (1 - 1)..Len(b) /\ Len(b) \in n..Len(b)
    BY <1>1
  <2>2. x \o y = SubSeq(b, 1, Len(b))
    BY <2>1, ConcatAdjacentSubSeq
  <2> QED
    BY <2>2, SubSeqFull
<1> HIDE DEF x, y
<1>5. a \o x \in Seq(Byte) /\ Len(a \o x) = Len(a) + n
  BY <1>2, ConcatProperties
<1>6. (a \o x) \o y = a \o (x \o y)
  BY <1>2, <1>3, RegroupBytes, Zenon
<1> QED
  BY <1>3, <1>4, <1>5, <1>6 DEF x, y

-----------------------------------------------------------------------------
(* Lengths and their bytes.                                                *)

\* What the two conversions are relied on for: any HEADER bytes are a length, and
\* a length comes back from its bytes.
LengthCodec ==
    /\ \A bytes \in [1..HEADER -> Byte] : from_be_bytes(bytes) \in 0..(Lengths[HEADER] - 1)
    /\ \A n \in 0..MAX_FRAME_LEN : from_be_bytes(to_be_bytes(n)) = n

\* A set of numbers that is not empty has a least one.
LEMMA LeastOf ==
    ASSUME NEW S, S \subseteq Nat, S # {}
    PROVE  \E m \in S : \A n \in S : m <= n
<1>1. \E x \in S : \A y \in S : <<y, x>> \notin OpToRel(<, Nat)
  BY NatLessThanWellFounded, WFMin, Zenon
<1>2. PICK x \in S : \A y \in S : <<y, x>> \notin OpToRel(<, Nat)
  BY <1>1
<1>3. \A y \in S : ~(y < x)
  BY <1>2 DEF OpToRel
<1>4. ASSUME NEW y \in S PROVE x <= y
  <2>1. x \in Nat /\ y \in Nat /\ ~(y < x)
    BY <1>2, <1>3
  <2> QED
    BY <2>1
<1> QED
  BY <1>2, <1>4, Zenon

\* Induction, on a set: what holds of 0 and is handed on holds of all.
LEMMA Inductive ==
    ASSUME NEW n \in Nat, NEW S, 0 \in S, \A k \in 1..n : k - 1 \in S => k \in S
    PROVE  0..n \subseteq S
<1> SUFFICES ASSUME ~(0..n \subseteq S) PROVE FALSE
  OBVIOUS
<1> DEFINE outside == {k \in 0..n : k \notin S}
<1>1. outside \subseteq Nat /\ outside # {}
  OBVIOUS
<1>2. PICK m \in outside : \A k \in outside : m <= k
  BY <1>1, LeastOf, Zenon
<1>3. m \in 1..n /\ m - 1 \in 0..n /\ ~(m <= m - 1)
  BY <1>2
<1>4. m - 1 \in S
  BY <1>2, <1>3
<1> QED
  BY <1>2, <1>3, <1>4

\* A function that is given at 0 and from one number to the next exists.
LEMMA Recursion ==
    ASSUME NEW n \in Nat, NEW first \in Nat, NEW next \in [1..n -> [Nat -> Nat]]
    PROVE  \E g \in [0..n -> Nat] : g[0] = first /\ \A k \in 1..n : g[k] = next[k][g[k - 1]]
<1> DEFINE Up(m, g) == g \in [0..m -> Nat] /\ g[0] = first /\ \A k \in 1..m : g[k] = next[k][g[k - 1]]
           T == {m \in 0..n : \E g : Up(m, g)}
<1>1. 0 \in T
  <2>1. Up(0, [k \in 0..0 |-> first])
    OBVIOUS
  <2> HIDE DEF Up
  <2> QED
    BY <2>1
<1>2. ASSUME NEW m \in 1..n, m - 1 \in T PROVE m \in T
  <2>1. PICK g : Up(m - 1, g)
    BY <1>2
  <2> DEFINE h == [k \in 0..m |-> IF k = m THEN next[m][g[m - 1]] ELSE g[k]]
  <2>2. g[m - 1] \in Nat /\ next[m][g[m - 1]] \in Nat
    BY <2>1
  <2>3. h \in [0..m -> Nat]
    <3>1. ASSUME NEW k \in 0..m PROVE (IF k = m THEN next[m][g[m - 1]] ELSE g[k]) \in Nat
      <4>1. CASE k = m
        BY <2>2, <4>1
      <4>2. CASE k # m
        <5>1. k \in 0..(m - 1)
          BY <4>2
        <5> QED
          BY <2>1, <4>2, <5>1
      <4> QED
        BY <4>1, <4>2
    <3> QED
      BY <3>1
  <2>4. h[0] = first
    BY <2>1
  <2>5. ASSUME NEW k \in 1..m PROVE h[k] = next[k][h[k - 1]]
    <3>1. k \in 0..m /\ k - 1 \in 0..m /\ k - 1 # m
      OBVIOUS
    <3>2. h[k - 1] = g[k - 1]
      BY <3>1
    <3>3. CASE k = m
      BY <3>1, <3>2, <3>3
    <3>4. CASE k # m
      <4>1. k \in 1..(m - 1) /\ h[k] = g[k]
        BY <3>1, <3>4
      <4>2. g[k] = next[k][g[k - 1]]
        BY <2>1, <4>1
      <4> QED
        BY <3>2, <4>1, <4>2
    <3> QED
      BY <3>3, <3>4
  <2>6. Up(m, h)
    BY <2>3, <2>4, <2>5
  <2> HIDE DEF Up, h
  <2> QED
    BY <2>6
<1>3. n \in T
  <2>1. 0..n \subseteq T
    <3> HIDE DEF T
    <3> QED
      BY <1>1, <1>2, Inductive
  <2>2. n \in 0..n
    OBVIOUS
  <2> HIDE DEF T
  <2> QED
    BY <2>1, <2>2
<1>4. PICK g : Up(n, g)
  BY <1>3
<1> QED
  BY <1>4

\* Each byte multiplies the lengths that can be expressed.
LEMMA LengthsGrow ==
    /\ Lengths[0] = 1 /\ \A k \in 1..HEADER : Lengths[k] = Lengths[k - 1] * BASE
    /\ \A k \in 0..HEADER : Lengths[k] \in Nat
<1> DEFINE Is(g) == g = [k \in 0..HEADER |-> IF k = 0 THEN 1 ELSE g[k - 1] * BASE]
           next == [k \in 1..HEADER |-> [x \in Nat |-> x * BASE]]
<1>0. HEADER \in Nat /\ BASE \in Nat
  BY WireAssumption
<1>1. next \in [1..HEADER -> [Nat -> Nat]]
  BY <1>0
<1>2. \E g : Is(g)
  <2>1. PICK g \in [0..HEADER -> Nat] : g[0] = 1 /\ \A k \in 1..HEADER : g[k] = next[k][g[k - 1]]
    <3> HIDE DEF next
    <3>1. 1 \in Nat
      OBVIOUS
    <3> QED
      BY <1>0, <1>1, <3>1, Recursion, Zenon
  <2>2. \A k \in 1..HEADER : k - 1 \in 0..HEADER /\ g[k - 1] \in Nat
    BY <1>0
  <2>3. \A k \in 1..HEADER : next[k][g[k - 1]] = g[k - 1] * BASE
    BY <2>2
  <2>4. Is(g)
    <3> HIDE DEF next
    <3> QED
      BY <1>0, <2>1, <2>3
  <2> HIDE DEF Is
  <2> QED
    BY <2>4
<1>3. Is(Lengths)
  <2>1. Is(CHOOSE f : Is(f))
    <3> HIDE DEF Is
    <3> QED
      BY <1>2
  <2> QED
    BY <2>1 DEF Lengths
<1>4. Lengths[0] = 1 /\ \A k \in 1..HEADER : Lengths[k] = Lengths[k - 1] * BASE
  BY <1>0, <1>3
<1>5. \A k \in 0..HEADER : Lengths[k] \in Nat
  <2> DEFINE S == {k \in 0..HEADER : Lengths[k] \in Nat}
  <2>1. 0 \in S /\ \A k \in 1..HEADER : k - 1 \in S => k \in S
    BY <1>0, <1>4
  <2>2. 0..HEADER \subseteq S
    <3> HIDE DEF S
    <3> QED
      BY <1>0, <2>1, Inductive
  <2> QED
    BY <2>2
<1> QED
  BY <1>4, <1>5

\* What the first k bytes are worth is one of the lengths k bytes can express.
LEMMA ValueOfBytes ==
    ASSUME NEW bytes \in [1..HEADER -> Byte]
    PROVE  \E value \in [0..HEADER -> Nat] :
              /\ from_be_bytes(bytes) = value[HEADER]
              /\ value[0] = 0 /\ \A k \in 1..HEADER : value[k] = value[k - 1] * BASE + bytes[k]
              /\ \A k \in 0..HEADER : value[k] < Lengths[k]
<1> DEFINE Is(g) == g = [k \in 0..HEADER |-> IF k = 0 THEN 0 ELSE g[k - 1] * BASE + bytes[k]]
           next == [k \in 1..HEADER |-> [x \in Nat |-> x * BASE + bytes[k]]]
           value == CHOOSE f : Is(f)
<1>0. HEADER \in Nat /\ BASE \in Nat /\ BASE >= 1 /\ \A k \in 1..HEADER : bytes[k] \in Nat /\ bytes[k] <= BASE - 1
  BY WireAssumption DEF Byte
<1>1. next \in [1..HEADER -> [Nat -> Nat]]
  BY <1>0
<1>2. \E g : Is(g)
  <2>1. PICK g \in [0..HEADER -> Nat] : g[0] = 0 /\ \A k \in 1..HEADER : g[k] = next[k][g[k - 1]]
    <3> HIDE DEF next
    <3>1. 0 \in Nat
      OBVIOUS
    <3> QED
      BY <1>0, <1>1, <3>1, Recursion, Zenon
  <2>2. \A k \in 1..HEADER : k - 1 \in 0..HEADER /\ g[k - 1] \in Nat
    BY <1>0
  <2>3. \A k \in 1..HEADER : next[k][g[k - 1]] = g[k - 1] * BASE + bytes[k]
    BY <2>2
  <2>4. Is(g)
    <3> HIDE DEF next
    <3> QED
      BY <1>0, <2>1, <2>3
  <2> HIDE DEF Is
  <2> QED
    BY <2>4
<1>3. Is(value)
  <2> HIDE DEF Is
  <2> QED
    BY <1>2
<1>4. from_be_bytes(bytes) = value[HEADER]
  BY DEF from_be_bytes
<1> HIDE DEF value
<1>5. value[0] = 0 /\ \A k \in 1..HEADER : value[k] = value[k - 1] * BASE + bytes[k]
  BY <1>0, <1>3
<1>6. \A k \in 0..HEADER : value[k] \in Nat /\ value[k] < Lengths[k]
  <2> DEFINE S == {k \in 0..HEADER : value[k] \in Nat /\ value[k] < Lengths[k]}
  <2>1. 0 \in S
    BY <1>0, <1>5, LengthsGrow
  <2>2. ASSUME NEW k \in 1..HEADER, k - 1 \in S PROVE k \in S
    <3> DEFINE v == value[k - 1]
               most == Lengths[k - 1]
               b == bytes[k]
    <3>1. v \in Nat /\ most \in Nat /\ b \in Nat /\ b <= BASE - 1 /\ v <= most - 1 /\ k \in 0..HEADER
      BY <1>0, <2>2, LengthsGrow
    <3>2. value[k] = v * BASE + b /\ Lengths[k] = most * BASE
      BY <1>5, LengthsGrow
    <3> HIDE DEF v, most, b
    <3>3. v * BASE <= (most - 1) * BASE
      BY <1>0, <3>1
    <3>4. v * BASE + b \in Nat /\ v * BASE + b < most * BASE
      BY <1>0, <3>1, <3>3
    <3> QED
      BY <3>1, <3>2, <3>4
  <2>3. 0..HEADER \subseteq S
    <3> HIDE DEF S
    <3> QED
      BY <1>0, <2>1, <2>2, Inductive
  <2> QED
    BY <2>3
<1>7. value \in [0..HEADER -> Nat]
  <2>1. value = [k \in 0..HEADER |-> value[k]]
    BY <1>3
  <2> QED
    BY <1>6, <2>1
<1> QED
  BY <1>4, <1>5, <1>6, <1>7

\* Dividing by BASE again and again leaves no more than a share of the number,
\* and nothing after HEADER times of one that HEADER bytes can express.
LEMMA BytesOfLength ==
    ASSUME NEW n \in Nat
    PROVE  \E left \in [0..HEADER -> Nat] :
              /\ to_be_bytes(n) = [i \in 1..HEADER |-> left[HEADER - i] % BASE]
              /\ left[0] = n /\ \A k \in 1..HEADER : left[k] = left[k - 1] \div BASE
              /\ n < Lengths[HEADER] => left[HEADER] = 0
<1> DEFINE Is(g) == g = [k \in 0..HEADER |-> IF k = 0 THEN n ELSE g[k - 1] \div BASE]
           next == [k \in 1..HEADER |-> [x \in Nat |-> x \div BASE]]
           left == CHOOSE f : Is(f)
<1>0. /\ HEADER \in Nat /\ BASE \in Nat /\ BASE >= 1
      /\ Lengths[HEADER] \in Nat
  BY WireAssumption, LengthsGrow
<1>1. next \in [1..HEADER -> [Nat -> Nat]]
  BY <1>0
<1>2. \E g : Is(g)
  <2>1. PICK g \in [0..HEADER -> Nat] : g[0] = n /\ \A k \in 1..HEADER : g[k] = next[k][g[k - 1]]
    <3> HIDE DEF next
    <3> QED
      BY <1>0, <1>1, Recursion, Zenon
  <2>2. \A k \in 1..HEADER : k - 1 \in 0..HEADER /\ g[k - 1] \in Nat
    BY <1>0
  <2>3. \A k \in 1..HEADER : next[k][g[k - 1]] = g[k - 1] \div BASE
    BY <2>2
  <2>4. Is(g)
    <3> HIDE DEF next
    <3> QED
      BY <1>0, <2>1, <2>3
  <2> HIDE DEF Is
  <2> QED
    BY <2>4
<1>3. Is(left)
  <2> HIDE DEF Is
  <2> QED
    BY <1>2
<1>4. to_be_bytes(n) = [i \in 1..HEADER |-> left[HEADER - i] % BASE]
  BY DEF to_be_bytes
<1> HIDE DEF left
<1>5. left[0] = n /\ \A k \in 1..HEADER : left[k] = left[k - 1] \div BASE
  BY <1>0, <1>3
<1>6. \A k \in 0..HEADER : left[k] \in Nat /\ left[k] * Lengths[k] <= n
  <2> DEFINE S == {k \in 0..HEADER : left[k] \in Nat /\ left[k] * Lengths[k] <= n}
  <2>1. 0 \in S
    BY <1>0, <1>5, LengthsGrow
  <2>2. ASSUME NEW k \in 1..HEADER, k - 1 \in S PROVE k \in S
    <3> DEFINE x == left[k - 1]
               most == Lengths[k - 1]
               q == x \div BASE
    <3>1. x \in Nat /\ most \in Nat /\ x * most <= n /\ k \in 0..HEADER
      BY <1>0, <2>2, LengthsGrow
    <3>2. left[k] = q /\ Lengths[k] = most * BASE
      BY <1>5, LengthsGrow
    <3>3. q \in Nat /\ q * BASE <= x
      BY <1>0, <3>1
    <3> HIDE DEF x, most, q
    <3>4. (q * BASE) * most <= x * most
      BY <1>0, <3>1, <3>3
    <3>5. q * (most * BASE) = (q * BASE) * most
      BY <1>0, <3>1, <3>3
    <3>6. q * (most * BASE) <= n
      BY <1>0, <3>1, <3>3, <3>4, <3>5
    <3> QED
      BY <3>1, <3>2, <3>3, <3>6
  <2>3. 0..HEADER \subseteq S
    <3> HIDE DEF S
    <3> QED
      BY <1>0, <2>1, <2>2, Inductive
  <2> QED
    BY <2>3
<1>7. ASSUME n < Lengths[HEADER] PROVE left[HEADER] = 0
  <2> DEFINE x == left[HEADER]
             most == Lengths[HEADER]
  <2>1. x \in Nat /\ x * most <= n /\ most \in Nat /\ n < most
    BY <1>0, <1>6, <1>7
  <2> HIDE DEF x, most
  <2>2. x >= 1 => x * most >= most
    BY <2>1
  <2>3. x = 0
    BY <1>0, <2>1, <2>2
  <2> QED
    BY <2>3 DEF x
<1>8. left \in [0..HEADER -> Nat]
  <2>1. left = [k \in 0..HEADER |-> left[k]]
    BY <1>3
  <2> QED
    BY <1>6, <2>1
<1> QED
  BY <1>4, <1>5, <1>7, <1>8

\* The digits of a number are HEADER bytes.
LEMMA DigitsType ==
    \A n \in Nat : /\ to_be_bytes(n) \in Seq(Byte) /\ Len(to_be_bytes(n)) = HEADER
                   /\ to_be_bytes(n) \in [1..HEADER -> Byte]
<1> SUFFICES ASSUME NEW n \in Nat
             PROVE  /\ to_be_bytes(n) \in Seq(Byte) /\ Len(to_be_bytes(n)) = HEADER
                    /\ to_be_bytes(n) \in [1..HEADER -> Byte]
  OBVIOUS
<1>1. HEADER \in Nat /\ BASE \in Nat /\ BASE >= 1
  BY WireAssumption
<1>2. PICK left \in [0..HEADER -> Nat] : to_be_bytes(n) = [i \in 1..HEADER |-> left[HEADER - i] % BASE]
  BY BytesOfLength, Zenon
<1>3. ASSUME NEW i \in 1..HEADER PROVE left[HEADER - i] % BASE \in Byte
  <2>1. HEADER - i \in 0..HEADER
    BY <1>1
  <2>2. left[HEADER - i] \in Nat
    BY <2>1
  <2> QED
    BY <1>1, <2>2 DEF Byte
<1>4. to_be_bytes(n) \in [1..HEADER -> Byte]
  BY <1>2, <1>3
<1> QED
  BY <1>1, <1>4

\* Any HEADER bytes are a length, and a length up to the ceiling comes back from
\* its bytes: the first k bytes are worth what is left after HEADER - k divisions.
THEOREM LengthsComeBack == LengthCodec
<1>0. HEADER \in Nat /\ BASE \in Nat /\ BASE >= 1
  BY WireAssumption
<1>1. ASSUME NEW bytes \in [1..HEADER -> Byte]
      PROVE  from_be_bytes(bytes) \in 0..(Lengths[HEADER] - 1)
  BY <1>0, ValueOfBytes, LengthsGrow
<1>2. ASSUME NEW n \in 0..MAX_FRAME_LEN PROVE from_be_bytes(to_be_bytes(n)) = n
  <2>1. PICK left \in [0..HEADER -> Nat] :
              /\ to_be_bytes(n) = [i \in 1..HEADER |-> left[HEADER - i] % BASE]
              /\ left[0] = n /\ \A k \in 1..HEADER : left[k] = left[k - 1] \div BASE
              /\ left[HEADER] = 0
    <3>1. n \in Nat /\ n < Lengths[HEADER]
      BY WireAssumption, LengthsGrow, <1>0
    <3> QED
      BY <3>1, BytesOfLength
  <2> DEFINE bytes == to_be_bytes(n)
  <2>2. bytes \in [1..HEADER -> Byte] /\ \A k \in 1..HEADER : bytes[k] = left[HEADER - k] % BASE
    <3>1. ASSUME NEW k \in 1..HEADER PROVE left[HEADER - k] % BASE \in Byte
      <4>1. HEADER - k \in 0..HEADER
        BY <1>0
      <4>2. left[HEADER - k] \in Nat
        BY <4>1
      <4> QED
        BY <1>0, <4>2 DEF Byte
    <3> QED
      BY <2>1, <3>1
  <2> HIDE DEF bytes
  <2>3. PICK value \in [0..HEADER -> Nat] :
              /\ from_be_bytes(bytes) = value[HEADER]
              /\ value[0] = 0 /\ \A k \in 1..HEADER : value[k] = value[k - 1] * BASE + bytes[k]
    BY <2>2, ValueOfBytes, Zenon
  <2> DEFINE S == {k \in 0..HEADER : value[k] = left[HEADER - k]}
  <2>4. 0 \in S
    BY <1>0, <2>1, <2>3
  <2>5. ASSUME NEW k \in 1..HEADER, k - 1 \in S PROVE k \in S
    <3> DEFINE x == left[HEADER - k]
    <3>1. HEADER - k \in 0..HEADER /\ HEADER - (k - 1) \in 1..HEADER /\ HEADER - (k - 1) - 1 = HEADER - k
          /\ k \in 0..HEADER
      BY <1>0
    <3>2. x \in Nat /\ value[k - 1] = x \div BASE
      BY <2>1, <2>5, <3>1
    <3>3. value[k] = (x \div BASE) * BASE + (x % BASE)
      BY <2>2, <2>3, <3>2
    <3> HIDE DEF x
    <3>4. value[k] = x
      BY <1>0, <3>2, <3>3
    <3> QED
      BY <3>1, <3>4 DEF x
  <2>6. HEADER \in S
    <3>1. 0..HEADER \subseteq S
      <4> HIDE DEF S
      <4> QED
        BY <1>0, <2>4, <2>5, Inductive
    <3> QED
      BY <1>0, <3>1
  <2> QED
    BY <1>0, <2>1, <2>3, <2>6 DEF bytes
<1> QED
  BY <1>1, <1>2 DEF LengthCodec

-----------------------------------------------------------------------------
(* Frames.                                                                 *)

\* The constants.
LEMMA Constants ==
    /\ HEADER \in Nat /\ HEADER >= 1 /\ MAX_FRAME_LEN \in Nat /\ Lengths[HEADER] \in Nat
    /\ MAX_FRAME_LEN \in 0..(Lengths[HEADER] - 1) /\ SockCap \in Nat /\ SockCap >= 1
    /\ \A m \in Message : /\ to_vec[m] \in Seq(Byte) /\ Len(to_vec[m]) \in Nat
                          /\ Size(m) \in Nat /\ Size(m) >= HEADER
<1>1. /\ HEADER \in Nat /\ HEADER >= 1 /\ MAX_FRAME_LEN \in Nat /\ Lengths[HEADER] \in Nat
      /\ MAX_FRAME_LEN \in 0..(Lengths[HEADER] - 1) /\ SockCap \in Nat /\ SockCap >= 1
  BY WireAssumption, LengthsGrow
<1>2. \A m \in Message : to_vec[m] \in Seq(Byte) /\ Len(to_vec[m]) \in Nat
  <2> TAKE m \in Message
  <2>1. to_vec[m] \in Seq(Byte)
    BY WireAssumption, Zenon
  <2> QED
    BY <2>1, LenProperties, Zenon
<1>3. \A m \in Message : Size(m) \in Nat /\ Size(m) >= HEADER
  <2> TAKE m \in Message
  <2> DEFINE n == Len(to_vec[m])
  <2>1. n \in Nat /\ HEADER \in Nat /\ HEADER >= 1
    BY <1>1, <1>2, Zenon
  <2>2. Size(m) = HEADER + n
    BY DEF Size
  <2> HIDE DEF n
  <2> QED
    BY <2>1, <2>2
<1> QED
  BY <1>1, <1>2, <1>3

\* A frame is the digits of the length and the body.
LEMMA FrameType ==
    ASSUME NEW m \in Message
    PROVE  /\ FrameOf(m) \in Seq(Byte) /\ Len(FrameOf(m)) = Size(m)
           /\ \A k \in 1..HEADER : k \in 1..Size(m) /\ FrameOf(m)[k] = to_be_bytes(Len(to_vec[m]))[k]
           /\ \A k \in 1..Len(to_vec[m]) :
                 HEADER + k \in 1..Size(m) /\ FrameOf(m)[HEADER + k] = to_vec[m][k]
<1> DEFINE d == to_be_bytes(Len(to_vec[m]))
           b == to_vec[m]
<1>1. /\ d \in Seq(Byte) /\ Len(d) = HEADER /\ b \in Seq(Byte) /\ Len(b) \in Nat /\ HEADER \in Nat
  BY DigitsType, Constants
<1> HIDE DEF d, b
<1>2. /\ d \o b \in Seq(Byte) /\ Len(d \o b) = HEADER + Len(b)
      /\ \A i \in 1..(HEADER + Len(b)) : (d \o b)[i] = IF i <= HEADER THEN d[i] ELSE b[i - HEADER]
  BY <1>1, ConcatProperties
<1>3. /\ \A k \in 1..HEADER : k \in 1..(HEADER + Len(b)) /\ k <= HEADER
      /\ \A k \in 1..Len(b) : HEADER + k \in 1..(HEADER + Len(b)) /\ ~(HEADER + k <= HEADER) /\ (HEADER + k) - HEADER = k
  BY <1>1
<1>4. /\ \A k \in 1..HEADER : (d \o b)[k] = d[k]
      /\ \A k \in 1..Len(b) : (d \o b)[HEADER + k] = b[k]
  BY <1>2, <1>3
<1>5. FrameOf(m) = d \o b /\ Size(m) = HEADER + Len(b)
  BY DEF FrameOf, Size, d, b
<1> QED
  BY <1>2, <1>3, <1>4, <1>5 DEF d, b

\* What lies ahead of the reader is bytes, those it has taken first.
LEMMA AheadType ==
    ASSUME WireTypes
    PROVE  /\ Taken \in Seq(Byte) /\ sock \o out \in Seq(Byte) /\ Ahead \in Seq(Byte)
           /\ Len(Taken) \in Nat /\ Len(sock) \in Nat /\ Len(out) \in Nat /\ Len(Ahead) \in Nat
           /\ Len(Ahead) = Len(Taken) + Len(sock) + Len(out)
           /\ \A i \in 1..Len(Taken) : Ahead[i] = Taken[i]
           /\ reader = "header" => Len(Taken) = Len(head)
           /\ reader = "body" => Len(Taken) = HEADER + Len(body)
<1>1. /\ head \in Seq(Byte) /\ body \in Seq(Byte) /\ sock \in Seq(Byte) /\ out \in Seq(Byte) /\ len \in Nat
  BY DEF WireTypes
<1>2. to_be_bytes(len) \in Seq(Byte) /\ Len(to_be_bytes(len)) = HEADER
  BY <1>1, DigitsType
<1>3. to_be_bytes(len) \o body \in Seq(Byte) /\ Len(to_be_bytes(len) \o body) = HEADER + Len(body)
  BY <1>1, <1>2, ConcatProperties
<1>4. Taken \in Seq(Byte) /\ (reader = "header" => Taken = head) /\ (reader = "body" => Taken = to_be_bytes(len) \o body)
  BY <1>1, <1>3 DEF Taken
<1>5. sock \o out \in Seq(Byte) /\ Len(sock \o out) = Len(sock) + Len(out)
  BY <1>1, ConcatProperties
<1>6. /\ Ahead \in Seq(Byte) /\ Len(Ahead) = Len(Taken) + Len(sock \o out)
      /\ \A i \in 1..(Len(Taken) + Len(sock \o out)) :
            Ahead[i] = IF i <= Len(Taken) THEN Taken[i] ELSE (sock \o out)[i - Len(Taken)]
  BY <1>4, <1>5, ConcatProperties DEF Ahead
<1>7. Len(Taken) \in Nat /\ Len(sock) \in Nat /\ Len(out) \in Nat /\ Len(Ahead) \in Nat
  BY <1>1, <1>4, <1>6
<1>8. \A a, b \in Nat : \A i \in 1..a : i \in 1..(a + b) /\ i <= a
  OBVIOUS
<1>9. Len(sock \o out) \in Nat
  BY <1>5
<1>10. \A i \in 1..Len(Taken) : Ahead[i] = Taken[i]
  BY <1>6, <1>7, <1>8, <1>9, Zenon
<1>11. Len(Ahead) = Len(Taken) + Len(sock) + Len(out)
  <2> DEFINE a == Len(Taken)
             b == Len(sock)
             c == Len(out)
             x == Len(sock \o out)
             y == Len(Ahead)
  <2>1. a \in Nat /\ b \in Nat /\ c \in Nat /\ x = b + c /\ y = a + x
    BY <1>5, <1>6, <1>7, Zenon
  <2> HIDE DEF a, b, c, x, y
  <2>2. y = a + b + c
    BY <2>1
  <2> QED
    BY <2>2 DEF a, b, c, y
<1> QED
  BY <1>3, <1>4, <1>5, <1>6, <1>7, <1>10, <1>11
-----------------------------------------------------------------------------
(* The beginning, and the types. *)

\* A fresh connection: nothing is ahead and nothing has been written.
LEMMA WireStart == Init => WireInv
<1> SUFFICES ASSUME Init PROVE WireInv
  OBVIOUS
<1> DEFINE p == [i \in 0..0 |-> 0]
<1>1. /\ reader = "header" /\ head = <<>> /\ sock = <<>> /\ out = <<>> /\ writer = "idle"
      /\ frame = <<>> /\ sent = <<>> /\ got = <<>> /\ body = <<>> /\ len = 0 /\ begun = 0
      /\ foreign \in BOOLEAN
  BY DEF Init
<1>2. WireTypes
  BY <1>1, Constants DEF WireTypes, Stopped
<1>3. InHand
  BY <1>1 DEF InHand
<1>4. ReadInOrder
  BY <1>1 DEF ReadInOrder
<1>5. Ahead = <<>>
  BY <1>1 DEF Ahead, Taken
<1>6. sent \o <<>> = <<>> /\ Len(sent \o <<>>) = 0 /\ Len(got) = 0 /\ Len(Ahead) = 0 /\ Len(sent) = 0
  BY <1>1, <1>5
<1>7. Offsets(p, sent \o <<>>)
  BY <1>6 DEF Offsets
<1>8. Spells(Ahead, sent \o <<>>, p, Len(got))
  BY <1>6 DEF Spells
<1>9. Spelled(<<>>, p)
  BY <1>1, <1>6, <1>7, <1>8 DEF Spelled
<1>10. OwnFramesUnderstood
  BY <1>1 DEF OwnFramesUnderstood
<1> QED
  BY <1>2, <1>3, <1>4, <1>9, <1>10, Zenon DEF WireInv, AheadSpelled

\* The length that is read is that of a header.
LEMMA HeaderRange ==
    ASSUME WireTypes, Len(head) = HEADER
    PROVE  from_be_bytes(head) \in 0..(Lengths[HEADER] - 1) /\ from_be_bytes(head) \in Nat
<1>1. head \in [1..HEADER -> Byte]
  BY DEF WireTypes
<1>2. from_be_bytes(head) \in 0..(Lengths[HEADER] - 1)
  BY <1>1, LengthsComeBack, Zenon DEF LengthCodec
<1> QED
  BY <1>2, Constants

\* Every step keeps the types, and what each end holds.
LEMMA TypesStep ==
    ASSUME WireTypes, InHand, [Next]_vars
    PROVE  WireTypes' /\ InHand'
<1> USE DEF WireTypes, InHand, Stopped
<1>1. ASSUME NEW m \in Message, BeginFrame(m) PROVE WireTypes' /\ InHand'
  <2>1. /\ FrameOf(m) \in Seq(Byte) /\ Len(FrameOf(m)) = Size(m) /\ Size(m) \in Nat /\ Size(m) >= 1
    BY FrameType, Constants
  <2>2. <<m>> \in Seq(Message) /\ Len(<<m>>) = 1 /\ <<m>>[1] = m /\ FrameOf(m) # <<>>
    BY <2>1
  <2>3. \/ writer' = "refused" /\ frame' = frame /\ out' = out
        \/ writer' = "writing" /\ frame' = <<m>> /\ out' = FrameOf(m)
    <3> HIDE DEF WireTypes, InHand, Stopped
    <3>1. IF Len(to_vec[m]) > MAX_FRAME_LEN
          THEN writer' = "refused" /\ frame' = frame /\ out' = out
          ELSE /\ writer' = "writing" /\ frame' = <<m>>
               /\ out' = to_be_bytes(Len(to_vec[m])) \o to_vec[m]
      BY <1>1 DEF BeginFrame
    <3>2. CASE Len(to_vec[m]) > MAX_FRAME_LEN
      BY <3>1, <3>2
    <3>3. CASE ~(Len(to_vec[m]) > MAX_FRAME_LEN)
      BY <3>1, <3>3 DEF FrameOf
    <3> QED
      BY <3>2, <3>3
  <2>4. /\ ~foreign /\ writer = "idle" /\ begun' = begun + 1 /\ foreign' = foreign /\ sent' = sent /\ sock' = sock
        /\ reader' = reader /\ head' = head /\ body' = body /\ len' = len /\ got' = got
    BY <1>1 DEF BeginFrame, readerVars
  <2>5. CASE writer' = "refused" /\ frame' = frame /\ out' = out
    BY <2>4, <2>5
  <2>6. CASE writer' = "writing" /\ frame' = <<m>> /\ out' = FrameOf(m)
    BY <2>1, <2>2, <2>4, <2>6
  <2> QED
    BY <2>3, <2>5, <2>6
<1>2. ASSUME WriteByte PROVE WireTypes' /\ InHand'
  <2>1. /\ writer = "writing" /\ Len(sock) < SockCap /\ sock' = Append(sock, Head(out)) /\ out' = Tail(out)
        /\ \/ Len(out) = 1 /\ writer' = "idle" /\ sent' = sent \o frame /\ frame' = <<>>
           \/ Len(out) # 1 /\ writer' = writer /\ sent' = sent /\ frame' = frame
        /\ foreign' = foreign /\ begun' = begun
        /\ reader' = reader /\ head' = head /\ body' = body /\ len' = len /\ got' = got
    BY <1>2 DEF WriteByte, readerVars
  <2>2. out # <<>> /\ out \in Seq(Byte) /\ sock \in Seq(Byte) /\ frame \in Seq(Message) /\ sent \in Seq(Message) /\ ~foreign
    BY <2>1
  <2>3. /\ out' \in Seq(Byte) /\ sock' \in Seq(Byte) /\ Len(sock') = Len(sock) + 1 /\ Len(out') = Len(out) - 1 /\ Len(out) \in Nat
        /\ (Len(out) # 1 => out' # <<>>) /\ (Len(out) = 1 => out' = <<>>)
        /\ Len(sock) \in Nat
    BY <2>1, <2>2, MoveOne, Zenon
  <2>4. sent \o frame \in Seq(Message)
    BY <2>2
  <2>5. Len(sock') <= SockCap
    BY <2>1, <2>3, Constants
  <2>6. WireTypes'
    <3>1. sent' \in Seq(Message) /\ frame' \in Seq(Message) /\ Len(frame') <= 1 /\ writer' \in {"idle", "writing"}
      <4>1. <<>> \in Seq(Message) /\ Len(<<>>) = 0
        OBVIOUS
      <4>2. frame \in Seq(Message) /\ Len(frame) <= 1 /\ 0 <= 1
        OBVIOUS
      <4> HIDE DEF WireTypes, InHand, Stopped
      <4> QED
        BY <2>1, <2>2, <2>4, <4>1, <4>2, Zenon
    <3>2. /\ foreign' \in BOOLEAN /\ begun' \in Nat /\ head' \in Seq(Byte) /\ Len(head') <= HEADER
          /\ body' \in Seq(Byte) /\ Len(body') <= MAX_FRAME_LEN /\ reader' \in {"header", "body"} \cup Stopped
          /\ len' \in 0..(Lengths[HEADER] - 1) /\ len' \in Nat /\ got' \in Seq(Message)
      BY <2>1, Zenon
    <3>3. writer' \in {"idle", "writing", "refused", "cut"}
      BY <3>1
    <3> QED
      BY <2>3, <2>5, <3>1, <3>2, <3>3, Zenon
  <2>7. CASE Len(out) = 1
    BY <2>1, <2>2, <2>3, <2>6, <2>7
  <2>8. CASE Len(out) # 1
    <3>1. Len(frame) = 1 /\ frame[1] \in Message /\ Size(frame[1]) \in Nat
      <4>1. Len(frame) = 1
        BY <2>1, Zenon
      <4>2. frame[1] \in Message
        <5> HIDE DEF WireTypes, InHand, Stopped
        <5>1. ASSUME NEW f \in Seq(Message), Len(f) = 1 PROVE f[1] \in Message
          <6>1. 1 \in 1..1
            OBVIOUS
          <6> QED
            BY <5>1, <6>1, ElementOfSeq
        <5> QED
          BY <2>2, <4>1, <5>1, Zenon
      <4> QED
        BY <4>1, <4>2, Constants, Zenon
    <3>2. writer' = writer /\ frame' = frame /\ Len(out') <= Size(frame'[1]) /\ out' # <<>>
      BY <2>1, <2>3, <2>8, <3>1
    <3> QED
      BY <2>1, <2>2, <2>6, <3>1, <3>2
  <2> QED
    BY <2>7, <2>8
<1>3. ASSUME Cut PROVE WireTypes' /\ InHand'
  BY <1>3 DEF Cut, readerVars
<1>4. ASSUME NEW b \in Byte, ForeignByte(b) PROVE WireTypes' /\ InHand'
  <2>1. /\ foreign /\ writer = "idle" /\ Len(sock) < SockCap /\ begun' = begun + 1 /\ sock' = Append(sock, b)
        /\ foreign' = foreign /\ writer' = writer /\ frame' = frame /\ out' = out /\ sent' = sent
        /\ reader' = reader /\ head' = head /\ body' = body /\ len' = len /\ got' = got
    BY <1>4 DEF ForeignByte, readerVars
  <2>2. sock' \in Seq(Byte) /\ Len(sock') <= SockCap
    BY <2>1, Constants
  <2> QED
    BY <2>1, <2>2
<1>5. ASSUME ReadHeader PROVE WireTypes' /\ InHand'
  <2>1. /\ reader = "header" /\ sock # <<>> /\ Len(head) < HEADER /\ head' = Append(head, Head(sock)) /\ sock' = Tail(sock)
        /\ foreign' = foreign /\ writer' = writer /\ frame' = frame /\ out' = out /\ begun' = begun /\ sent' = sent
        /\ reader' = reader /\ body' = body /\ len' = len /\ got' = got
    BY <1>5 DEF ReadHeader, writerVars
  <2>2. sock \in Seq(Byte) /\ head \in Seq(Byte)
    OBVIOUS
  <2>3. head' \in Seq(Byte) /\ sock' \in Seq(Byte) /\ Len(head') <= HEADER /\ Len(sock') <= SockCap
    <3>1. /\ head' \in Seq(Byte) /\ sock' \in Seq(Byte) /\ Len(head') = Len(head) + 1 /\ Len(sock') = Len(sock) - 1
          /\ Len(head) \in Nat /\ Len(sock) \in Nat
      BY <2>1, <2>2, MoveOne, Zenon
    <3>2. Len(head) < HEADER /\ Len(sock) <= SockCap /\ HEADER \in Nat /\ SockCap \in Nat
      BY <2>1, Constants
    <3> HIDE DEF WireTypes, InHand, Stopped
    <3>3. Len(head) + 1 <= HEADER /\ Len(sock) - 1 <= SockCap
      BY <3>1, <3>2
    <3> QED
      BY <3>1, <3>3, Zenon
  <2> QED
    BY <2>1, <2>3
<1>6. ASSUME CheckLength PROVE WireTypes' /\ InHand'
  <2>1. /\ reader = "header" /\ Len(head) = HEADER /\ len' = from_be_bytes(head) /\ head' = <<>>
        /\ reader' = IF len' > MAX_FRAME_LEN THEN "FrameTooLarge" ELSE "body"
        /\ foreign' = foreign /\ writer' = writer /\ frame' = frame /\ out' = out /\ begun' = begun /\ sent' = sent
        /\ sock' = sock /\ body' = body /\ got' = got
    BY <1>6 DEF CheckLength, writerVars
  <2>2. len' \in 0..(Lengths[HEADER] - 1) /\ len' \in Nat
    BY <2>1, HeaderRange
  <2>3. body = <<>> /\ Len(body) = 0 /\ Len(head') = 0 /\ head' \in Seq(Byte)
    BY <2>1
  <2> QED
    BY <2>1, <2>2, <2>3, Constants
<1>7. ASSUME FillBody PROVE WireTypes' /\ InHand'
  <2>1. PICK n \in 1..Len(sock) :
            Len(body) + n <= len /\ body' = body \o SubSeq(sock, 1, n) /\ sock' = SubSeq(sock, n + 1, Len(sock))
    BY <1>7 DEF FillBody
  <2>2. /\ reader = "body"
        /\ foreign' = foreign /\ writer' = writer /\ frame' = frame /\ out' = out /\ begun' = begun /\ sent' = sent
        /\ reader' = reader /\ head' = head /\ len' = len /\ got' = got
    BY <1>7 DEF FillBody, writerVars
  <2>3. /\ body' \in Seq(Byte) /\ sock' \in Seq(Byte) /\ Len(body') = Len(body) + n /\ Len(sock') <= Len(sock)
    BY <2>1, MoveSome
  <2>4. Len(body') <= len /\ len <= MAX_FRAME_LEN /\ Len(body') <= MAX_FRAME_LEN /\ Len(sock') <= SockCap
    <3>1. Len(sock') \in Nat /\ Len(sock) \in Nat /\ Len(body') \in Nat /\ Len(sock) <= SockCap /\ len <= MAX_FRAME_LEN /\ len \in Nat
      BY <2>2, <2>3
    <3>2. Len(body') <= len
      BY <2>1, <2>3
    <3> HIDE DEF WireTypes, InHand
    <3> QED
      BY <2>3, <3>1, <3>2, Constants
  <2> QED
    BY <2>2, <2>3, <2>4
<1>8. ASSUME Decode PROVE WireTypes' /\ InHand'
  <2>1. /\ reader = "body" /\ body' = <<>>
        /\ foreign' = foreign /\ writer' = writer /\ frame' = frame /\ out' = out /\ begun' = begun /\ sent' = sent
        /\ sock' = sock /\ head' = head /\ len' = len
        /\ \/ reader' = "InvalidJson" /\ got' = got
           \/ reader' = "header" /\ \E m \in Message : got' = Append(got, m)
    BY <1>8 DEF Decode, writerVars
  <2>2. got' \in Seq(Message)
    <3>1. got \in Seq(Message) /\ \A m \in Message : Append(got, m) \in Seq(Message)
      OBVIOUS
    <3> QED
      BY <2>1, <3>1, Zenon
  <2>3. Len(body') = 0 /\ body' \in Seq(Byte)
    BY <2>1
  <2> QED
    BY <2>1, <2>2, <2>3, Constants
<1>9. ASSUME ReadEnds PROVE WireTypes' /\ InHand'
  BY <1>9 DEF ReadEnds, writerVars
<1>10. ASSUME UNCHANGED vars PROVE WireTypes' /\ InHand'
  BY <1>10 DEF vars, writerVars, readerVars
<1> QED
  BY <1>1, <1>2, <1>3, <1>4, <1>5, <1>6, <1>7, <1>8, <1>9, <1>10 DEF Next, WriterStep, ReaderStep

-----------------------------------------------------------------------------
(* Frames one after the other. *)

\* The numbers in the offsets of some frames.
LEMMA OffsetsType ==
    ASSUME NEW ms \in Seq(Message), NEW p, Offsets(p, ms)
    PROVE  /\ Len(ms) \in Nat /\ \A i \in 0..Len(ms) : p[i] \in Nat
           /\ \A i \in 1..Len(ms) : /\ i \in 0..Len(ms) /\ i - 1 \in 0..Len(ms) /\ ms[i] \in Message
                                    /\ Size(ms[i]) \in Nat /\ p[i] = p[i - 1] + Size(ms[i])
           /\ \A i, j \in 0..Len(ms) : i <= j => p[i] <= p[j]
<1>1. Len(ms) \in Nat
  OBVIOUS
<1>2. \A i \in 1..Len(ms) : i \in 0..Len(ms) /\ i - 1 \in 0..Len(ms)
  BY <1>1
<1>3. \A i \in 1..Len(ms) : ms[i] \in Message
  OBVIOUS
<1>4. \A i \in 1..Len(ms) : Size(ms[i]) \in Nat
  BY <1>3, Constants, Zenon
<1>5. /\ p \in [0..Len(ms) -> Nat]
      /\ \A i \in 1..Len(ms) : p[i] = p[i - 1] + Size(ms[i])
      /\ \A i, j \in 0..Len(ms) : i <= j => p[i] <= p[j]
  BY DEF Offsets
<1>6. \A i \in 0..Len(ms) : p[i] \in Nat
  BY <1>5
<1> QED
  BY <1>1, <1>2, <1>3, <1>4, <1>5, <1>6, Zenon

\* What was spelled is spelled by a beginning of it.
LEMMA SpellsLess ==
    ASSUME NEW ms \in Seq(Message), NEW p, Offsets(p, ms), NEW g \in 0..Len(ms),
           NEW s \in Seq(Byte), NEW t \in Seq(Byte), Spells(s \o t, ms, p, g)
    PROVE  Spells(s, ms, p, g)
<1> SUFFICES ASSUME NEW i \in (g + 1)..Len(ms), NEW k \in 1..Size(ms[i]), p[i - 1] - p[g] + k <= Len(s)
             PROVE  s[p[i - 1] - p[g] + k] = FrameOf(ms[i])[k]
  BY DEF Spells
<1> DEFINE x == p[i - 1] - p[g] + k
<1>1. Len(ms) \in Nat /\ i \in 1..Len(ms) /\ g \in 0..Len(ms) /\ g <= i - 1 /\ i - 1 \in 0..Len(ms)
  <2>1. Len(ms) \in Nat
    OBVIOUS
  <2> QED
    BY <2>1
<1>2. p[i - 1] \in Nat /\ p[g] \in Nat /\ p[g] <= p[i - 1] /\ Size(ms[i]) \in Nat
  BY <1>1, OffsetsType, Zenon
<1>3. k \in Nat /\ k >= 1
  BY <1>2
<1>4. x \in Nat /\ x >= 1 /\ x <= Len(s)
  BY <1>2, <1>3
<1> HIDE DEF x
<1>5. Len(s) \in Nat /\ Len(t) \in Nat /\ Len(s \o t) = Len(s) + Len(t)
  BY ConcatProperties
<1>6. x <= Len(s \o t) /\ x \in 1..(Len(s) + Len(t))
  BY <1>4, <1>5
<1>7. (s \o t)[x] = s[x]
  BY <1>4, <1>6, ConcatProperties
<1>8. (s \o t)[x] = FrameOf(ms[i])[k]
  BY <1>6, Zenon DEF Spells, x
<1> QED
  BY <1>7, <1>8 DEF x

\* With its first frame taken, the rest is spelled by what follows.
LEMMA SpellsRest ==
    ASSUME NEW ms \in Seq(Message), NEW p, Offsets(p, ms), NEW g \in 0..Len(ms), g + 1 \in 1..Len(ms),
           NEW s \in Seq(Byte), NEW t \in Seq(Byte), Len(s) = Size(ms[g + 1]), Spells(s \o t, ms, p, g)
    PROVE  Spells(t, ms, p, g + 1) /\ p[g + 1] = p[g] + Len(s) /\ p[g + 1] \in Nat /\ p[g] \in Nat
<1>1. Len(ms) \in Nat /\ g \in Nat /\ Len(s) \in Nat /\ Len(t) \in Nat /\ (g + 1) - 1 = g
  BY LenProperties
<1>2. p[g + 1] = p[g] + Len(s) /\ p[g] \in Nat /\ p[g + 1] \in Nat
  <2>1. p[g + 1] = p[(g + 1) - 1] + Size(ms[g + 1]) /\ g + 1 \in 0..Len(ms)
    BY OffsetsType, Zenon
  <2> QED
    BY <1>1, <2>1, OffsetsType, Zenon
<1>3. ASSUME NEW i \in (g + 1 + 1)..Len(ms), NEW k \in 1..Size(ms[i]), p[i - 1] - p[g + 1] + k <= Len(t)
      PROVE  t[p[i - 1] - p[g + 1] + k] = FrameOf(ms[i])[k]
  <2> DEFINE x == p[i - 1] - p[g + 1] + k
             y == p[i - 1] - p[g] + k
  <2>1. i \in 1..Len(ms) /\ g + 1 \in 0..Len(ms) /\ g + 1 <= i - 1 /\ i - 1 \in 0..Len(ms) /\ i \in (g + 1)..Len(ms)
    BY <1>1
  <2>2. p[i - 1] \in Nat /\ p[g + 1] <= p[i - 1] /\ Size(ms[i]) \in Nat
    BY <2>1, OffsetsType, Zenon
  <2>3. k \in Nat /\ k >= 1
    BY <2>2
  <2>4. x \in Nat /\ x >= 1 /\ x <= Len(t) /\ y = Len(s) + x
    <3> DEFINE a == p[i - 1]
               b == p[g + 1]
               c == p[g]
               l == Len(s)
    <3>1. a \in Nat /\ b \in Nat /\ c \in Nat /\ l \in Nat /\ b = c + l /\ b <= a /\ k \in Nat /\ k >= 1
      BY <1>1, <1>2, <2>2, <2>3, Zenon
    <3>2. a - b + k <= Len(t)
      BY <1>3
    <3> HIDE DEF a, b, c, l
    <3>3. a - b + k \in Nat /\ a - b + k >= 1 /\ a - c + k = l + (a - b + k)
      BY <3>1
    <3> QED
      BY <3>2, <3>3 DEF a, b, c, l
  <2>5. Len(s \o t) = Len(s) + Len(t)
    BY ConcatProperties
  <2> HIDE DEF x
  <2>6. y <= Len(s \o t) /\ y \in 1..(Len(s) + Len(t)) /\ ~(y <= Len(s)) /\ y - Len(s) = x
    BY <1>1, <2>4, <2>5
  <2> HIDE DEF y
  <2>7. (s \o t)[y] = t[x]
    BY <2>6, ConcatProperties
  <2>8. (s \o t)[y] = FrameOf(ms[i])[k]
    BY <2>1, <2>6, Zenon DEF Spells, y
  <2> QED
    BY <2>7, <2>8 DEF x
<1>4. Spells(t, ms, p, g + 1)
  BY <1>3, Zenon DEF Spells
<1> QED
  BY <1>2, <1>4

\* Bytes that spell something begin with the first frame of it.
LEMMA FirstOf ==
    ASSUME NEW ms \in Seq(Message), NEW p, Offsets(p, ms), NEW g \in 0..Len(ms), NEW s \in Seq(Byte),
           Spells(s, ms, p, g), Len(s) >= 1, Len(s) <= p[Len(ms)] - p[g]
    PROVE  /\ g + 1 \in 1..Len(ms) /\ ms[g + 1] \in Message
           /\ \A k \in 1..Size(ms[g + 1]) : k <= Len(s) => s[k] = FrameOf(ms[g + 1])[k]
<1>1. Len(ms) \in Nat /\ g \in Nat /\ g <= Len(ms) /\ Len(s) \in Nat /\ (g + 1) - 1 = g
  BY LenProperties
<1>2. p[g] \in Nat /\ p[Len(ms)] \in Nat
  <2>1. Len(ms) \in 0..Len(ms)
    BY <1>1
  <2> QED
    BY <2>1, OffsetsType, Zenon
<1>3. g # Len(ms)
  BY <1>1, <1>2
<1>4. g + 1 \in 1..Len(ms) /\ g + 1 \in (g + 1)..Len(ms)
  BY <1>1, <1>3
<1>5. ms[g + 1] \in Message /\ Size(ms[g + 1]) \in Nat
  BY <1>4, OffsetsType, Zenon
<1>6. ASSUME NEW k \in 1..Size(ms[g + 1]), k <= Len(s)
      PROVE  s[k] = FrameOf(ms[g + 1])[k]
  <2>1. k \in Nat
    BY <1>5
  <2>2. p[g] - p[g] + k = k
    BY <1>2, <2>1
  <2>3. p[(g + 1) - 1] - p[g] + k = k
    BY <1>1, <2>2, Zenon
  <2>4. p[(g + 1) - 1] - p[g] + k <= Len(s)
    BY <1>6, <2>3, Zenon
  <2>5. s[p[(g + 1) - 1] - p[g] + k] = FrameOf(ms[g + 1])[k]
    BY <1>4, <2>4, Zenon DEF Spells
  <2> QED
    BY <2>3, <2>5, Zenon
<1> QED
  BY <1>4, <1>5, <1>6, Zenon

\* A frame written behind what is spelled is spelled as well.
LEMMA SpellsMore ==
    ASSUME NEW ms \in Seq(Message), NEW p, Offsets(p, ms), NEW g \in 0..Len(ms), NEW s \in Seq(Byte),
           Spells(s, ms, p, g), Len(s) = p[Len(ms)] - p[g], NEW m \in Message
    PROVE  \E q : /\ Offsets(q, ms \o <<m>>) /\ Spells(s \o FrameOf(m), ms \o <<m>>, q, g)
                  /\ Len(s \o FrameOf(m)) = q[Len(ms \o <<m>>)] - q[g]
<1> DEFINE n == Len(ms)
           q == [i \in 0..(n + 1) |-> IF i <= n THEN p[i] ELSE p[n] + Size(m)]
           f == FrameOf(m)
           ns == ms \o <<m>>
<1>1. n \in Nat /\ g \in Nat /\ g <= n /\ Len(s) \in Nat /\ n \in 0..n /\ g \in 0..n /\ Len(s) = p[n] - p[g]
  BY LenProperties
<1>2. /\ ns \in Seq(Message) /\ Len(ns) = n + 1 /\ ns[n + 1] = m
      /\ \A i \in 1..n : ns[i] = ms[i]
  BY <1>1
<1>3. p[n] \in Nat /\ p[g] \in Nat /\ \A i \in 0..n : p[i] \in Nat
  BY <1>1, OffsetsType, Zenon
<1>4. Size(m) \in Nat /\ f \in Seq(Byte) /\ Len(f) = Size(m)
  BY Constants, FrameType
<1>5. /\ \A i \in 0..n : q[i] = p[i]
      /\ q[n + 1] = p[n] + Size(m)
      /\ q \in [0..(n + 1) -> Nat]
  BY <1>1, <1>3, <1>4
<1>6. \A i \in 1..n : i \in 0..n /\ i - 1 \in 0..n /\ p[i] = p[i - 1] + Size(ms[i]) /\ Size(ms[i]) \in Nat
  BY OffsetsType, Zenon
<1>7. \A i, j \in 0..n : i <= j => p[i] <= p[j]
  BY OffsetsType, Zenon
<1> HIDE DEF q, f, ns, n
<1>8. Offsets(q, ns)
  <2>1. ASSUME NEW i \in 1..(n + 1) PROVE q[i] = q[i - 1] + Size(ns[i])
    <3>1. CASE i \in 1..n
      BY <1>2, <1>5, <1>6, <3>1, Zenon
    <3>2. CASE i = n + 1
      <4>1. i - 1 = n
        BY <1>1, <3>2
      <4> QED
        BY <1>1, <1>2, <1>5, <3>2, <4>1, Zenon
    <3> QED
      BY <1>1, <3>1, <3>2
  <2>2. ASSUME NEW i \in 0..(n + 1), NEW j \in 0..(n + 1), i <= j PROVE q[i] <= q[j]
    <3>1. CASE j \in 0..n
      <4>1. i \in 0..n
        BY <1>1, <2>2, <3>1
      <4> QED
        BY <1>5, <1>7, <2>2, <3>1, <4>1, Zenon
    <3>2. CASE j = n + 1 /\ i \in 0..n
      <4>1. p[i] <= p[n] /\ p[i] \in Nat
        BY <1>1, <1>3, <1>7, <3>2
      <4>2. q[i] = p[i] /\ q[j] = p[n] + Size(m)
        BY <1>5, <3>2, Zenon
      <4> QED
        BY <1>3, <1>4, <4>1, <4>2
    <3>3. CASE j = n + 1 /\ i = n + 1
      <4>1. q[n + 1] \in Nat
        BY <1>3, <1>4, <1>5
      <4> QED
        BY <3>3, <4>1
    <3> QED
      BY <1>1, <3>1, <3>2, <3>3
  <2> QED
    BY <1>2, <1>5, <2>1, <2>2, Zenon DEF Offsets
<1>9. /\ s \o f \in Seq(Byte) /\ Len(s \o f) = Len(s) + Size(m)
      /\ \A i \in 1..(Len(s) + Size(m)) : (s \o f)[i] = IF i <= Len(s) THEN s[i] ELSE f[i - Len(s)]
  <2>1. s \in Seq(Byte) /\ f \in Seq(Byte)
    BY <1>4
  <2>2. /\ s \o f \in Seq(Byte) /\ Len(s \o f) = Len(s) + Len(f)
        /\ \A i \in 1..(Len(s) + Len(f)) : (s \o f)[i] = IF i <= Len(s) THEN s[i] ELSE f[i - Len(s)]
    BY <2>1, ConcatProperties, Zenon
  <2> QED
    BY <1>4, <2>2, Zenon
<1>10. Spells(s \o f, ns, q, g)
  <2> SUFFICES ASSUME NEW i \in (g + 1)..(n + 1), NEW k \in 1..Size(ns[i])
               PROVE  (s \o f)[q[i - 1] - q[g] + k] = FrameOf(ns[i])[k]
    BY <1>2, Zenon DEF Spells
  <2>1. q[g] = p[g]
    BY <1>1, <1>5, Zenon
  <2>2. CASE i <= n
    <3>1. i \in 1..n /\ i - 1 \in 0..n /\ i \in (g + 1)..n /\ i \in 0..n /\ g <= i - 1
      BY <1>1, <2>2
    <3>2. q[i - 1] = p[i - 1] /\ ns[i] = ms[i] /\ p[i] = p[i - 1] + Size(ms[i]) /\ Size(ms[i]) \in Nat /\ p[i] <= p[n] /\ p[g] <= p[i - 1]
      <4>1. p[i] <= p[n]
        BY <1>1, <1>7, <2>2, <3>1, Zenon
      <4>2. p[g] <= p[i - 1]
        BY <1>1, <1>7, <3>1, Zenon
      <4> QED
        BY <1>2, <1>5, <1>6, <3>1, <4>1, <4>2, Zenon
    <3>3. p[i] \in Nat /\ p[i - 1] \in Nat
      BY <1>3, <3>1
    <3> DEFINE x == p[i - 1] - p[g] + k
    <3>4. k \in 1..Size(ms[i]) /\ k \in Nat /\ k >= 1 /\ k <= Size(ms[i])
      BY <3>2
    <3>5. x \in Nat /\ x >= 1 /\ x <= Len(s)
      <4>1. \A a, e, z, c, l, h, f0 \in Nat : l = z - c /\ e = a + f0 /\ e <= z /\ c <= a /\ h >= 1 /\ h <= f0
                => a - c + h \in Nat /\ a - c + h >= 1 /\ a - c + h <= l
        OBVIOUS
      <4> QED
        BY <1>1, <1>3, <3>2, <3>3, <3>4, <4>1, Zenon
    <3> HIDE DEF x
    <3>6. x \in 1..(Len(s) + Size(m))
      BY <1>1, <1>4, <3>5
    <3>7. (s \o f)[x] = s[x]
      BY <1>9, <3>5, <3>6
    <3>8. s[x] = FrameOf(ms[i])[k]
      BY <3>1, <3>4, <3>5, Zenon DEF Spells, x, n
    <3> QED
      BY <2>1, <3>2, <3>7, <3>8, Zenon DEF x
  <2>3. CASE ~(i <= n)
    <3>1. i = n + 1 /\ i - 1 = n
      BY <1>1, <2>3
    <3>2. ns[i] = m /\ q[i - 1] = p[n]
      BY <1>1, <1>2, <1>5, <3>1, Zenon
    <3>3. k \in 1..Size(m) /\ k \in Nat /\ k >= 1 /\ k <= Size(m)
      BY <1>4, <3>2
    <3> DEFINE x == p[n] - p[g] + k
    <3>4. x = Len(s) + k
      BY <1>1
    <3>5. x \in 1..(Len(s) + Size(m)) /\ ~(x <= Len(s)) /\ x - Len(s) = k
      BY <1>1, <1>4, <3>3, <3>4
    <3> HIDE DEF x
    <3>6. (s \o f)[x] = f[k]
      BY <1>9, <3>5
    <3> QED
      BY <2>1, <3>2, <3>6, Zenon DEF x, f
  <2> QED
    BY <2>2, <2>3
<1>11. Len(s \o f) = q[Len(ns)] - q[g]
  <2>1. q[g] = p[g] /\ q[Len(ns)] = p[n] + Size(m)
    BY <1>1, <1>2, <1>5, Zenon
  <2> QED
    BY <1>1, <1>3, <1>4, <1>9, <2>1
<1> QED
  BY <1>8, <1>10, <1>11, Zenon DEF f, ns

-----------------------------------------------------------------------------
(* What the reader finds. *)

\* The message whose frame it is in.
Coming(last) == (sent \o last)[Len(got) + 1]

\* The reader stands between the first frame and the end of the last.
LEMMA Standing ==
    ASSUME WireTypes, ReadInOrder, ~foreign, NEW last, NEW p, Spelled(last, p)
    PROVE  /\ last \in Seq(Message) /\ sent \o last \in Seq(Message)
           /\ Len(sent) \in Nat /\ Len(got) \in Nat /\ Len(last) \in Nat
           /\ Len(sent \o last) = Len(sent) + Len(last)
           /\ Len(got) \in 0..Len(sent \o last) /\ Len(got) <= Len(sent) /\ Len(sent) \in 0..Len(sent \o last)
           /\ \A i \in 1..Len(sent) : (sent \o last)[i] = sent[i]
<1>1. sent \in Seq(Message) /\ got \in Seq(Message) /\ last \in Seq(Message) /\ Len(got) <= Len(sent)
  BY DEF WireTypes, ReadInOrder, Spelled
<1>2. /\ sent \o last \in Seq(Message) /\ Len(sent \o last) = Len(sent) + Len(last)
      /\ \A i \in 1..(Len(sent) + Len(last)) : (sent \o last)[i] = IF i <= Len(sent) THEN sent[i] ELSE last[i - Len(sent)]
  BY <1>1, ConcatProperties
<1>3. Len(sent) \in Nat /\ Len(got) \in Nat /\ Len(last) \in Nat
  BY <1>1
<1>4. \A i \in 1..Len(sent) : (sent \o last)[i] = sent[i]
  BY <1>2, <1>3
<1>5. Len(got) \in 0..Len(sent \o last) /\ Len(sent) \in 0..Len(sent \o last)
  BY <1>1, <1>2, <1>3
<1> QED
  BY <1>1, <1>2, <1>3, <1>4, <1>5

\* How much is ahead of it.
LEMMA HowMuch ==
    ASSUME WireTypes, ReadInOrder, ~foreign, NEW last, NEW p, Spelled(last, p)
    PROVE  /\ Offsets(p, sent \o last) /\ Spells(Ahead, sent \o last, p, Len(got))
           /\ p[Len(got)] \in Nat /\ p[Len(sent)] \in Nat /\ p[Len(sent \o last)] \in Nat
           /\ p[Len(sent)] - p[Len(got)] <= Len(Ahead)
           /\ Len(Ahead) <= p[Len(sent \o last)] - p[Len(got)]
<1>1. Offsets(p, sent \o last) /\ Spells(Ahead, sent \o last, p, Len(got))
  BY DEF Spelled
<1>2. /\ sent \o last \in Seq(Message) /\ Len(got) \in 0..Len(sent \o last) /\ Len(sent) \in 0..Len(sent \o last)
      /\ Len(sent \o last) \in 0..Len(sent \o last) /\ Len(sent) <= Len(sent \o last)
  BY Standing
<1>3. /\ p[Len(got)] \in Nat /\ p[Len(sent)] \in Nat /\ p[Len(sent \o last)] \in Nat
      /\ p[Len(sent)] <= p[Len(sent \o last)]
  BY <1>1, <1>2, OffsetsType, Zenon
<1>4. CASE writer = "cut"
  BY <1>1, <1>3, <1>4 DEF Spelled
<1>5. CASE writer # "cut"
  <2>1. Len(Ahead) = p[Len(sent \o last)] - p[Len(got)]
    BY <1>5 DEF Spelled
  <2>2. \A a, b, c \in Nat : a <= b => a - c <= b - c /\ b - c <= b - c
    OBVIOUS
  <2> QED
    BY <1>1, <1>3, <2>1, <2>2, Zenon
<1> QED
  BY <1>4, <1>5

\* With a header's bytes ahead, they are those of a message that is coming.
LEMMA ComingFrame ==
    ASSUME WireTypes, ReadInOrder, ~foreign, NEW last, NEW p, Spelled(last, p), Len(Ahead) >= HEADER
    PROVE  /\ Len(got) + 1 \in 1..Len(sent \o last) /\ Coming(last) \in Message
           /\ Len(to_vec[Coming(last)]) \in 0..MAX_FRAME_LEN
           /\ \A k \in 1..Size(Coming(last)) : k <= Len(Ahead) => Ahead[k] = FrameOf(Coming(last))[k]
           /\ \A k \in 1..HEADER : Ahead[k] = to_be_bytes(Len(to_vec[Coming(last)]))[k]
<1>1. Ahead \in Seq(Byte) /\ Len(Ahead) \in Nat
  BY AheadType, Zenon
<1>2. Len(Ahead) >= 1
  BY <1>1, Constants
<1>3. /\ Len(got) + 1 \in 1..Len(sent \o last) /\ Coming(last) \in Message
      /\ \A k \in 1..Size(Coming(last)) : k <= Len(Ahead) => Ahead[k] = FrameOf(Coming(last))[k]
  <2>1. /\ sent \o last \in Seq(Message) /\ Len(got) \in 0..Len(sent \o last)
    BY Standing, Zenon
  <2>2. /\ Offsets(p, sent \o last) /\ Spells(Ahead, sent \o last, p, Len(got))
        /\ Len(Ahead) <= p[Len(sent \o last)] - p[Len(got)]
    BY HowMuch, Zenon
  <2> QED
    BY <1>1, <1>2, <2>1, <2>2, FirstOf, Zenon DEF Coming
<1>4. Len(to_vec[Coming(last)]) \in 0..MAX_FRAME_LEN
  <2>1. Len(to_vec[Coming(last)]) <= MAX_FRAME_LEN
    BY <1>3, Zenon DEF Spelled, Coming
  <2>2. Len(to_vec[Coming(last)]) \in Nat
    BY <1>3, Constants, Zenon
  <2> QED
    BY <2>1, <2>2, Constants
<1>5. ASSUME NEW k \in 1..HEADER PROVE Ahead[k] = to_be_bytes(Len(to_vec[Coming(last)]))[k]
  <2>1. k <= Len(Ahead)
    BY <1>1, Constants
  <2>2. k \in 1..Size(Coming(last)) /\ FrameOf(Coming(last))[k] = to_be_bytes(Len(to_vec[Coming(last)]))[k]
    BY <1>3, FrameType, Zenon
  <2> QED
    BY <1>3, <2>1, <2>2, Zenon
<1> QED
  BY <1>3, <1>4, <1>5, Zenon

\* The length that read_frame finds in a whole header is that of the message.
LEMMA LengthFound ==
    ASSUME WireTypes, ReadInOrder, ~foreign, NEW last, NEW p, Spelled(last, p),
           reader = "header", Len(head) = HEADER
    PROVE  /\ from_be_bytes(head) = Len(to_vec[Coming(last)]) /\ head = to_be_bytes(from_be_bytes(head))
           /\ from_be_bytes(head) \in 0..MAX_FRAME_LEN
<1> DEFINE n == Len(to_vec[Coming(last)])
<1>1. /\ Len(Taken) \in Nat /\ Len(sock) \in Nat /\ Len(out) \in Nat
      /\ Len(Ahead) = Len(Taken) + Len(sock) + Len(out) /\ Len(Taken) = HEADER
      /\ \A i \in 1..Len(Taken) : Ahead[i] = Taken[i]
  BY AheadType, Zenon
<1>2. Len(Ahead) >= HEADER
  BY <1>1, Constants
<1>3. /\ n \in 0..MAX_FRAME_LEN /\ \A k \in 1..HEADER : Ahead[k] = to_be_bytes(n)[k]
  BY <1>2, ComingFrame, Zenon
<1>4. n \in Nat
  BY <1>3
<1> HIDE DEF n
<1>5. to_be_bytes(n) \in Seq(Byte) /\ Len(to_be_bytes(n)) = HEADER
  BY <1>4, DigitsType, Zenon
<1>6. head \in Seq(Byte) /\ Taken = head
  BY DEF WireTypes, Taken
<1>7. \A k \in 1..HEADER : head[k] = to_be_bytes(n)[k]
  BY <1>1, <1>3, <1>6, Zenon
<1>8. head = to_be_bytes(n)
  BY <1>5, <1>6, <1>7, SeqEqual
<1>9. from_be_bytes(head) = n
  BY <1>3, <1>8, LengthsComeBack, Zenon DEF LengthCodec
<1> QED
  BY <1>3, <1>8, <1>9, Zenon DEF n

\* While it fills the body, it is that of the message.
LEMMA BodyFound ==
    ASSUME WireTypes, InHand, ReadInOrder, ~foreign, NEW last, NEW p, Spelled(last, p),
           reader = "body"
    PROVE  /\ len = Len(to_vec[Coming(last)]) /\ Len(got) + 1 \in 1..Len(sent \o last) /\ Coming(last) \in Message
           /\ \A k \in 1..Len(body) : body[k] = to_vec[Coming(last)][k]
           /\ Len(Ahead) >= HEADER
<1> DEFINE n == Len(to_vec[Coming(last)])
<1>1. /\ Len(Taken) \in Nat /\ Len(sock) \in Nat /\ Len(out) \in Nat
      /\ Len(Ahead) = Len(Taken) + Len(sock) + Len(out) /\ Len(Taken) = HEADER + Len(body)
      /\ \A i \in 1..Len(Taken) : Ahead[i] = Taken[i]
  BY AheadType, Zenon
<1>2. body \in Seq(Byte) /\ Len(body) \in Nat /\ len \in Nat /\ Len(body) <= len /\ len \in 0..MAX_FRAME_LEN
  BY Constants DEF WireTypes, InHand
<1>3. Len(Ahead) >= HEADER /\ Len(Ahead) >= HEADER + Len(body)
  <2> DEFINE a == Len(Taken)
             b == Len(body)
             c == Len(sock)
             d == Len(out)
             e == Len(Ahead)
  <2>1. a \in Nat /\ b \in Nat /\ c \in Nat /\ d \in Nat /\ e = a + c + d /\ a = HEADER + b /\ HEADER \in Nat
    BY <1>1, <1>2, Constants, Zenon
  <2> HIDE DEF a, b, c, d, e
  <2>2. e >= HEADER /\ e >= HEADER + b
    BY <2>1
  <2> QED
    BY <2>2 DEF b, e
<1>4. /\ n \in 0..MAX_FRAME_LEN /\ \A k \in 1..HEADER : Ahead[k] = to_be_bytes(n)[k]
      /\ Len(got) + 1 \in 1..Len(sent \o last) /\ Coming(last) \in Message
      /\ \A k \in 1..Size(Coming(last)) : k <= Len(Ahead) => Ahead[k] = FrameOf(Coming(last))[k]
  BY <1>3, ComingFrame, Zenon
<1>5. n \in Nat /\ n = Len(to_vec[Coming(last)])
  BY <1>4
<1> HIDE DEF n
<1>6. /\ to_be_bytes(n) \in Seq(Byte) /\ Len(to_be_bytes(n)) = HEADER
      /\ to_be_bytes(len) \in Seq(Byte) /\ Len(to_be_bytes(len)) = HEADER
  BY <1>2, <1>5, DigitsType, Zenon
<1>7. /\ Taken = to_be_bytes(len) \o body
      /\ \A i \in 1..(HEADER + Len(body)) :
            Taken[i] = IF i <= HEADER THEN to_be_bytes(len)[i] ELSE body[i - HEADER]
  <2>1. Taken = to_be_bytes(len) \o body
    BY DEF Taken
  <2> QED
    BY <1>2, <1>6, <2>1, ConcatProperties
<1>8. \A k \in 1..HEADER : to_be_bytes(len)[k] = to_be_bytes(n)[k]
  <2> TAKE k \in 1..HEADER
  <2>1. k \in 1..(HEADER + Len(body)) /\ k <= HEADER
    BY <1>2, Constants
  <2>2. Taken[k] = to_be_bytes(len)[k]
    BY <1>7, <2>1
  <2> QED
    BY <1>1, <1>4, <2>1, <2>2, Zenon
<1>9. to_be_bytes(len) = to_be_bytes(n)
  BY <1>6, <1>8, SeqEqual
<1>10. len = n
  BY <1>2, <1>4, <1>9, LengthsComeBack, Zenon DEF LengthCodec
<1>11. ASSUME NEW k \in 1..Len(body) PROVE body[k] = to_vec[Coming(last)][k]
  <2>1. /\ k \in Nat /\ HEADER + k \in 1..(HEADER + Len(body)) /\ ~(HEADER + k <= HEADER) /\ (HEADER + k) - HEADER = k
    BY <1>2, Constants
  <2>2. Taken[HEADER + k] = body[k]
    BY <1>7, <2>1
  <2>3. HEADER + k <= Len(Ahead) /\ k \in 1..n
    <3>1. Len(Ahead) \in Nat
      BY AheadType, Zenon
    <3> QED
      BY <1>2, <1>3, <1>10, <2>1, <3>1, Constants
  <2>4. HEADER + k \in 1..Size(Coming(last)) /\ FrameOf(Coming(last))[HEADER + k] = to_vec[Coming(last)][k]
    BY <1>4, <1>5, <2>3, FrameType, Zenon
  <2> QED
    BY <1>1, <1>4, <2>1, <2>2, <2>3, <2>4, Zenon
<1> QED
  BY <1>3, <1>4, <1>5, <1>10, <1>11, Zenon

\* A whole body is that of a message that was written to its end.
LEMMA BodyWhole ==
    ASSUME WireTypes, InHand, ReadInOrder, ~foreign, NEW last, NEW p, Spelled(last, p),
           reader = "body", Len(body) = len
    PROVE  /\ body = to_vec[Coming(last)] /\ Coming(last) \in Message /\ Len(Taken) = Size(Coming(last))
           /\ Len(got) < Len(sent) /\ Coming(last) = sent[Len(got) + 1]
<1>1. /\ len = Len(to_vec[Coming(last)]) /\ Len(got) + 1 \in 1..Len(sent \o last) /\ Coming(last) \in Message
      /\ \A k \in 1..Len(body) : body[k] = to_vec[Coming(last)][k]
  BY BodyFound, Zenon
<1>2. body \in Seq(Byte) /\ to_vec[Coming(last)] \in Seq(Byte)
  <2>1. to_vec[Coming(last)] \in Seq(Byte)
    BY <1>1, Constants, Zenon
  <2> QED
    BY <2>1 DEF WireTypes
<1>3. body = to_vec[Coming(last)]
  BY <1>1, <1>2, SeqEqual
<1>4. /\ Len(Taken) \in Nat /\ Len(sock) \in Nat /\ Len(out) \in Nat
      /\ Len(Ahead) = Len(Taken) + Len(sock) + Len(out) /\ Len(Taken) = HEADER + Len(body)
  BY AheadType, Zenon
<1>5. Len(Taken) = Size(Coming(last))
  BY <1>1, <1>4, Zenon DEF Size
<1>6. Len(got) # Len(sent)
  <2> SUFFICES ASSUME Len(got) = Len(sent) PROVE FALSE
    OBVIOUS
  <2>1. /\ last \in Seq(Message) /\ sent \o last \in Seq(Message) /\ Len(sent) \in Nat /\ Len(last) \in Nat
        /\ Len(sent \o last) = Len(sent) + Len(last)
    BY Standing, Zenon
  <2>2. Len(last) = 1 /\ Len(sent \o last) = Len(got) + 1
    <3>1. Len(last) <= 1
      BY DEF Spelled
    <3> DEFINE a == Len(got)
               b == Len(last)
               c == Len(sent \o last)
    <3>2. a \in Nat /\ b \in Nat /\ b <= 1 /\ c = a + b /\ a + 1 \in 1..c
      BY <1>1, <2>1, <3>1, Zenon
    <3> HIDE DEF a, b, c
    <3>3. b = 1 /\ c = a + 1
      BY <3>2
    <3> QED
      BY <3>3 DEF a, b, c
  <2>3. last # <<>>
    BY <2>2
  <2>4. Offsets(p, sent \o last) /\ p[Len(got)] \in Nat
    BY HowMuch, Zenon
  <2>5. p[Len(got) + 1] = p[(Len(got) + 1) - 1] + Size(Coming(last)) /\ p[Len(got) + 1] \in Nat /\ Size(Coming(last)) \in Nat
    BY <1>1, <2>1, <2>4, OffsetsType, Zenon DEF Coming
  <2>6. p[Len(sent \o last)] - p[Len(got)] = Len(Taken)
    <3>1. (Len(got) + 1) - 1 = Len(got)
      BY <2>1
    <3>2. p[Len(got) + 1] = p[Len(got)] + Len(Taken)
      BY <1>5, <2>5, <3>1, Zenon
    <3> QED
      BY <1>4, <2>2, <2>4, <2>5, <3>2
  <2>7. CASE writer = "cut"
    <3>1. Len(Ahead) < Len(Taken)
      BY <2>3, <2>6, <2>7 DEF Spelled
    <3> QED
      BY <1>4, <3>1
  <2>8. CASE writer # "cut"
    <3>1. last = frame /\ Len(Ahead) = Len(Taken)
      BY <2>6, <2>8 DEF Spelled
    <3>2. out # <<>> /\ out \in Seq(Byte)
      BY <2>3, <3>1 DEF InHand, WireTypes
    <3>3. Len(out) # 0
      BY <3>2
    <3> QED
      BY <1>4, <3>1, <3>3
  <2> QED
    BY <2>7, <2>8
<1>7. Len(got) < Len(sent) /\ Len(got) + 1 \in 1..Len(sent)
  <2>1. Len(got) \in Nat /\ Len(sent) \in Nat /\ Len(got) <= Len(sent)
    BY Standing, Zenon
  <2> QED
    BY <1>6, <2>1
<1>8. Coming(last) = sent[Len(got) + 1]
  BY <1>7, Standing, Zenon DEF Coming
<1> QED
  BY <1>1, <1>3, <1>5, <1>7, <1>8

-----------------------------------------------------------------------------
(* The steps. *)

\* Of the invariant, what is not types.
Kept == ReadInOrder /\ AheadSpelled /\ OwnFramesUnderstood

\* A step that moves bytes on without changing what lies ahead of the reader.
LEMMA MovesBytes ==
    ASSUME WireInv, ~foreign, foreign' = foreign, reader \in {"header", "body"}, reader' \in {"header", "body"},
           Ahead' = Ahead, sent' = sent, got' = got, frame' = frame, writer' = "cut" <=> writer = "cut"
    PROVE  Kept'
<1>1. PICK last, p : Spelled(last, p)
  BY Zenon DEF WireInv, AheadSpelled
<1>2. Spelled(last, p)'
  BY <1>1 DEF Spelled
<1>3. AheadSpelled'
  BY <1>2, Zenon DEF AheadSpelled
<1>4. ReadInOrder'
  BY DEF WireInv, ReadInOrder
<1>5. OwnFramesUnderstood'
  BY DEF OwnFramesUnderstood
<1> QED
  BY <1>3, <1>4, <1>5 DEF Kept

\* A step of the writer once the reader has given up.
LEMMA NobodyReads ==
    ASSUME WireInv, ~foreign, foreign' = foreign, reader \notin {"header", "body"}, reader' = reader, got' = got,
           sent' = sent \/ sent' = sent \o frame, writer = "cut" => writer' = "cut"
    PROVE  Kept'
<1>1. AheadSpelled'
  BY DEF AheadSpelled
<1>2. OwnFramesUnderstood'
  BY DEF WireInv, OwnFramesUnderstood
<1>3. ReadInOrder'
  <2>1. sent \in Seq(Message) /\ frame \in Seq(Message) /\ got \in Seq(Message)
    BY DEF WireInv, WireTypes
  <2>2. Len(got) <= Len(sent) /\ \A i \in 1..Len(got) : got[i] = sent[i]
    BY DEF WireInv, ReadInOrder
  <2>3. CASE sent' = sent
    BY <2>2, <2>3 DEF ReadInOrder
  <2>4. CASE sent' = sent \o frame
    <3>1. Len(sent \o frame) = Len(sent) + Len(frame) /\ Len(frame) \in Nat /\ Len(sent) \in Nat /\ Len(got) \in Nat
      BY <2>1
    <3>2. \A i \in 1..Len(got) : (sent \o frame)[i] = sent[i]
      BY <2>1, <2>2, <3>1
    <3>3. Len(got) <= Len(sent \o frame)
      BY <2>2, <3>1
    <3> QED
      BY <2>2, <2>4, <3>2, <3>3 DEF ReadInOrder
  <2> QED
    BY <2>3, <2>4
<1> QED
  BY <1>1, <1>2, <1>3 DEF Kept

\* Beginning a frame puts it behind everything ahead; a refused one puts nothing.
LEMMA BeginFrameStep ==
    ASSUME WireInv, ~foreign, NEW m \in Message, BeginFrame(m)
    PROVE  Kept'
<1>1. /\ writer = "idle" /\ foreign' = foreign /\ sent' = sent /\ sock' = sock
      /\ reader' = reader /\ head' = head /\ body' = body /\ len' = len /\ got' = got
  BY DEF BeginFrame, readerVars
<1>2. CASE reader \notin {"header", "body"}
  BY <1>1, <1>2, NobodyReads
<1>3. CASE reader \in {"header", "body"} /\ Len(to_vec[m]) > MAX_FRAME_LEN
  <2>1. writer' = "refused" /\ frame' = frame /\ out' = out
    BY <1>3 DEF BeginFrame
  <2>2. Ahead' = Ahead
    BY <1>1, <2>1 DEF Ahead, Taken
  <2>3. reader \in {"header", "body"} /\ reader' \in {"header", "body"} /\ (writer' = "cut" <=> writer = "cut")
    BY <1>1, <1>3, <2>1
  <2> QED
    BY <1>1, <2>1, <2>2, <2>3, MovesBytes
<1>4. CASE reader \in {"header", "body"} /\ ~(Len(to_vec[m]) > MAX_FRAME_LEN)
  <2>1. writer' = "writing" /\ frame' = <<m>> /\ out' = FrameOf(m)
    BY <1>4 DEF BeginFrame, FrameOf
  <2>2. PICK last, p : Spelled(last, p)
    BY <1>4, Zenon DEF WireInv, AheadSpelled
  <2>3. WireTypes /\ ReadInOrder
    BY DEF WireInv
  <2>4. out = <<>> /\ frame = <<>> /\ last = <<>>
    BY <1>1, <2>2 DEF WireInv, InHand, Spelled
  <2>5. sent \in Seq(Message) /\ Len(got) \in 0..Len(sent)
    <3>1. sent \in Seq(Message) /\ Len(sent) \in Nat /\ Len(got) \in Nat /\ Len(got) <= Len(sent)
      BY <2>2, <2>3, Standing DEF WireTypes
    <3> QED
      BY <3>1
  <2>6. sent \o last = sent
    BY <2>4, <2>5
  <2>7. Taken \in Seq(Byte) /\ sock \in Seq(Byte) /\ FrameOf(m) \in Seq(Byte) /\ Ahead \in Seq(Byte)
    BY <2>3, AheadType, FrameType DEF WireTypes
  <2>8. Ahead = Taken \o sock
    <3>1. sock \o out = sock
      BY <2>4, <2>7
    <3> QED
      BY <3>1 DEF Ahead
  <2>9. Ahead' = Ahead \o FrameOf(m)
    <3>1. Taken' = Taken
      BY <1>1 DEF Taken
    <3>2. Ahead' = Taken \o (sock \o FrameOf(m))
      BY <1>1, <2>1, <3>1 DEF Ahead
    <3> QED
      BY <2>7, <2>8, <3>2, RegroupBytes, Zenon
  <2>10. /\ Offsets(p, sent) /\ Spells(Ahead, sent, p, Len(got)) /\ Len(Ahead) = p[Len(sent)] - p[Len(got)]
    BY <1>1, <2>2, <2>6 DEF Spelled
  <2>11. PICK q : /\ Offsets(q, sent \o <<m>>) /\ Spells(Ahead \o FrameOf(m), sent \o <<m>>, q, Len(got))
                  /\ Len(Ahead \o FrameOf(m)) = q[Len(sent \o <<m>>)] - q[Len(got)]
    BY <2>5, <2>7, <2>10, SpellsMore, Zenon
  <2>12. \A i \in 1..Len(sent \o <<m>>) : Len(to_vec[(sent \o <<m>>)[i]]) <= MAX_FRAME_LEN
    <3>1. \A i \in 1..Len(sent) : Len(to_vec[sent[i]]) <= MAX_FRAME_LEN
      BY <2>2, <2>6 DEF Spelled
    <3>2. Len(to_vec[m]) <= MAX_FRAME_LEN
      BY <1>4, Constants
    <3>3. /\ Len(sent \o <<m>>) = Len(sent) + 1 /\ (sent \o <<m>>)[Len(sent) + 1] = m /\ Len(sent) \in Nat
          /\ \A i \in 1..Len(sent) : (sent \o <<m>>)[i] = sent[i]
      BY <2>5
    <3>4. \A i \in 1..(Len(sent) + 1) : i \in 1..Len(sent) \/ i = Len(sent) + 1
      BY <3>3
    <3> QED
      BY <3>1, <3>2, <3>3, <3>4, Zenon
  <2>13. <<m>> \in Seq(Message) /\ Len(<<m>>) <= 1
    OBVIOUS
  <2>14. Spelled(<<m>>, q)'
    <3>1. Offsets(q, sent \o <<m>>)' /\ Spells(Ahead, sent \o <<m>>, q, Len(got))'
      BY <1>1, <2>9, <2>11, Zenon
    <3> QED
      BY <1>1, <2>1, <2>9, <2>11, <2>12, <2>13, <3>1 DEF Spelled
  <2>15. AheadSpelled'
    BY <2>14, Zenon DEF AheadSpelled
  <2>16. ReadInOrder'
    BY <1>1, <2>3 DEF ReadInOrder
  <2>17. OwnFramesUnderstood'
    BY <1>1, <1>4 DEF OwnFramesUnderstood
  <2> QED
    BY <2>15, <2>16, <2>17 DEF Kept
<1> QED
  BY <1>2, <1>3, <1>4

\* A byte written moves on; with the last one the message counts as sent.
LEMMA WriteByteStep ==
    ASSUME WireInv, ~foreign, WriteByte
    PROVE  Kept'
<1>1. /\ writer = "writing" /\ sock' = Append(sock, Head(out)) /\ out' = Tail(out) /\ foreign' = foreign
      /\ reader' = reader /\ head' = head /\ body' = body /\ len' = len /\ got' = got
      /\ \/ Len(out) = 1 /\ writer' = "idle" /\ sent' = sent \o frame /\ frame' = <<>>
         \/ Len(out) # 1 /\ writer' = writer /\ sent' = sent /\ frame' = frame
  BY DEF WriteByte, readerVars
<1>2. WireTypes /\ InHand /\ ReadInOrder
  BY DEF WireInv
<1>3. sock \in Seq(Byte) /\ out \in Seq(Byte) /\ out # <<>> /\ sent \in Seq(Message) /\ got \in Seq(Message)
  BY <1>1, <1>2 DEF WireTypes, InHand
<1>4. Ahead' = Ahead
  <2>1. sock' \o out' = sock \o out
    BY <1>1, <1>3, MoveOne, Zenon
  <2>2. Taken' = Taken
    BY <1>1 DEF Taken
  <2> QED
    BY <2>1, <2>2 DEF Ahead
<1>5. CASE reader \notin {"header", "body"}
  <2>1. writer # "cut" /\ (sent' = sent \/ sent' = sent \o frame)
    BY <1>1
  <2> QED
    BY <1>1, <1>5, <2>1, NobodyReads, Zenon
<1>6. CASE reader \in {"header", "body"} /\ Len(out) # 1
  <2>1. sent' = sent /\ frame' = frame /\ (writer' = "cut" <=> writer = "cut") /\ reader' \in {"header", "body"}
    BY <1>1, <1>6
  <2> QED
    BY <1>1, <1>4, <1>6, <2>1, MovesBytes, Zenon
<1>7. CASE reader \in {"header", "body"} /\ Len(out) = 1
  <2>1. writer' = "idle" /\ sent' = sent \o frame /\ frame' = <<>>
    BY <1>1, <1>7
  <2>2. PICK last, p : Spelled(last, p)
    BY <1>7, Zenon DEF WireInv, AheadSpelled
  <2>3. last = frame /\ Len(Ahead) = p[Len(sent \o last)] - p[Len(got)]
    BY <1>1, <2>2 DEF Spelled
  <2>4. /\ sent \o last \in Seq(Message) /\ Len(got) <= Len(sent) /\ Len(sent) \in Nat /\ Len(got) \in Nat
        /\ \A i \in 1..Len(sent) : (sent \o last)[i] = sent[i]
        /\ Len(sent) <= Len(sent \o last)
    BY <1>2, <2>2, Standing
  <2>5. sent' = sent \o last /\ sent' \o <<>> = sent \o last
    BY <2>1, <2>3, <2>4
  <2>6. Spelled(<<>>, p)'
    <3>1. <<>> \in Seq(Message) /\ Len(<<>>) <= 1
      OBVIOUS
    <3>2. (sent \o <<>>)' = sent \o last
      BY <2>5
    <3>3. Offsets(p, sent \o <<>>)' /\ Spells(Ahead, sent \o <<>>, p, Len(got))'
      <4>1. Offsets(p, sent \o last) /\ Spells(Ahead, sent \o last, p, Len(got))
        BY <2>2 DEF Spelled
      <4> QED
        BY <1>1, <1>4, <3>2, <4>1, Zenon
    <3>4. (\A i \in 1..Len(sent \o <<>>) : Len(to_vec[(sent \o <<>>)[i]]) <= MAX_FRAME_LEN)'
      <4>1. \A i \in 1..Len(sent \o last) : Len(to_vec[(sent \o last)[i]]) <= MAX_FRAME_LEN
        BY <2>2 DEF Spelled
      <4> QED
        BY <3>2, <4>1, Zenon
    <3>5. (Len(Ahead) = p[Len(sent \o <<>>)] - p[Len(got)])'
      BY <1>1, <1>4, <2>3, <3>2, Zenon
    <3> QED
      BY <2>1, <3>1, <3>3, <3>4, <3>5 DEF Spelled
  <2>7. AheadSpelled'
    BY <2>6, Zenon DEF AheadSpelled
  <2>8. ReadInOrder'
    <3>1. \A i \in 1..Len(got) : got[i] = (sent \o last)[i]
      BY <1>2, <2>4 DEF ReadInOrder
    <3>2. Len(got) <= Len(sent \o last)
      BY <1>3, <2>4
    <3> QED
      BY <1>1, <2>5, <3>1, <3>2 DEF ReadInOrder
  <2>9. OwnFramesUnderstood'
    BY <1>1, <1>7 DEF OwnFramesUnderstood
  <2> QED
    BY <2>7, <2>8, <2>9 DEF Kept
<1> QED
  BY <1>5, <1>6, <1>7

\* A cut leaves every whole frame, and less than all of the one being written.
LEMMA CutStep ==
    ASSUME WireInv, ~foreign, Cut
    PROVE  Kept'
<1>1. /\ writer \in {"idle", "writing"} /\ writer' = "cut" /\ out' = <<>> /\ frame' = <<>> /\ foreign' = foreign
      /\ sent' = sent /\ sock' = sock /\ reader' = reader /\ head' = head /\ body' = body /\ len' = len /\ got' = got
  BY DEF Cut, readerVars
<1>2. WireTypes /\ InHand /\ ReadInOrder
  BY DEF WireInv
<1>3. CASE reader \notin {"header", "body"}
  BY <1>1, <1>3, NobodyReads
<1>4. CASE reader \in {"header", "body"}
  <2>1. PICK last, p : Spelled(last, p)
    BY <1>4, Zenon DEF WireInv, AheadSpelled
  <2>2. last = frame /\ Len(Ahead) = p[Len(sent \o last)] - p[Len(got)]
    BY <1>1, <2>1 DEF Spelled
  <2>3. /\ Taken \in Seq(Byte) /\ sock \in Seq(Byte) /\ out \in Seq(Byte) /\ Len(Taken) \in Nat /\ Len(sock) \in Nat
        /\ Len(out) \in Nat /\ Len(Ahead) = Len(Taken) + Len(sock) + Len(out)
    BY <1>2, AheadType DEF WireTypes
  <2> DEFINE s == Taken \o sock
  <2>4. s \in Seq(Byte) /\ Len(s) = Len(Taken) + Len(sock)
    BY <2>3, ConcatProperties
  <2>5. Ahead' = s
    <3>1. Taken' = Taken
      BY <1>1 DEF Taken
    <3>2. sock \o <<>> = sock
      BY <2>3
    <3> QED
      BY <1>1, <3>1, <3>2 DEF Ahead
  <2>6. Ahead = s \o out
    BY <2>3, RegroupBytes, Zenon DEF Ahead
  <2> HIDE DEF s
  <2>7. /\ sent \o last \in Seq(Message) /\ Len(got) \in 0..Len(sent \o last) /\ Len(sent) \in Nat /\ Len(last) \in Nat
        /\ Len(sent \o last) = Len(sent) + Len(last)
    BY <1>2, <2>1, Standing, Zenon
  <2>8. /\ Offsets(p, sent \o last) /\ Spells(Ahead, sent \o last, p, Len(got))
        /\ p[Len(got)] \in Nat /\ p[Len(sent)] \in Nat /\ p[Len(sent \o last)] \in Nat
    BY <1>2, <2>1, HowMuch, Zenon
  <2>9. Spells(s, sent \o last, p, Len(got))
    BY <2>3, <2>4, <2>6, <2>7, <2>8, SpellsLess, Zenon
  <2>10. Len(Ahead) = Len(s) + Len(out) /\ Len(s) \in Nat
    BY <2>3, <2>4
  <2>11. /\ p[Len(sent)] - p[Len(got)] <= Len(s)
         /\ Len(s) <= p[Len(sent \o last)] - p[Len(got)]
         /\ last # <<>> => Len(s) < p[Len(sent \o last)] - p[Len(got)]
    <3> DEFINE a == p[Len(got)]
               b == p[Len(sent)]
               c == p[Len(sent \o last)]
               l == Len(s)
               o == Len(out)
    <3>1. a \in Nat /\ b \in Nat /\ c \in Nat /\ l \in Nat /\ o \in Nat /\ l + o = c - a
      BY <2>2, <2>3, <2>8, <2>10, Zenon
    <3>2. CASE last = <<>>
      <4>1. Len(sent \o last) = Len(sent)
        BY <2>7, <3>2
      <4>2. b = c
        BY <4>1, Zenon
      <4>3. out = <<>>
        BY <1>1, <1>2, <2>2, <3>2 DEF InHand
      <4>4. o = 0
        BY <4>3
      <4> HIDE DEF a, b, c, l, o
      <4>5. b - a <= l /\ l <= c - a
        BY <3>1, <4>2, <4>4
      <4> QED
        BY <3>2, <4>5 DEF a, b, c, l
    <3>3. CASE last # <<>>
      <4>1. writer = "writing" /\ Len(frame) = 1 /\ out # <<>> /\ Len(out) <= Size(frame[1])
        BY <1>2, <2>2, <3>3 DEF InHand
      <4>2. o # 0
        BY <2>3, <4>1
      <4>3. Len(last) = 1 /\ Len(sent \o last) = Len(sent) + 1
        BY <2>2, <2>7, <4>1
      <4>4. (sent \o last)[Len(sent) + 1] = frame[1]
        <5>1. sent \in Seq(Message) /\ last \in Seq(Message)
          BY <1>2, <2>2 DEF WireTypes
        <5>2. (sent \o last)[Len(sent) + 1] = last[1]
          BY <4>3, <5>1
        <5> QED
          BY <2>2, <5>2
      <4>5. c = b + Size(frame[1]) /\ Size(frame[1]) \in Nat
        <5>1. Len(sent) + 1 \in 1..Len(sent \o last) /\ (Len(sent) + 1) - 1 = Len(sent)
          BY <2>7, <4>3
        <5>2. p[Len(sent) + 1] = p[(Len(sent) + 1) - 1] + Size((sent \o last)[Len(sent) + 1]) /\ Size((sent \o last)[Len(sent) + 1]) \in Nat
          BY <2>7, <2>8, <5>1, OffsetsType, Zenon
        <5> QED
          BY <4>3, <4>4, <5>1, <5>2, Zenon
      <4>6. o <= Size(frame[1])
        BY <4>1
      <4> HIDE DEF a, b, c, l, o
      <4>7. b - a <= l /\ l <= c - a /\ l < c - a
        BY <3>1, <4>2, <4>5, <4>6
      <4> QED
        BY <4>7 DEF a, b, c, l
    <3> QED
      BY <3>2, <3>3
  <2>12. Spelled(last, p)'
    <3>1. Offsets(p, sent \o last)' /\ Spells(Ahead, sent \o last, p, Len(got))'
      BY <1>1, <2>5, <2>8, <2>9, Zenon
    <3>2. last \in Seq(Message) /\ Len(last) <= 1 /\ \A i \in 1..Len(sent \o last) : Len(to_vec[(sent \o last)[i]]) <= MAX_FRAME_LEN
      BY <2>1 DEF Spelled
    <3> QED
      BY <1>1, <2>5, <2>11, <3>1, <3>2 DEF Spelled
  <2>13. AheadSpelled'
    BY <2>12, Zenon DEF AheadSpelled
  <2>14. ReadInOrder'
    BY <1>1, <1>2 DEF ReadInOrder
  <2>15. OwnFramesUnderstood'
    BY <1>1, <1>4 DEF OwnFramesUnderstood
  <2> QED
    BY <2>13, <2>14, <2>15 DEF Kept
<1> QED
  BY <1>3, <1>4

\* A digit read is still ahead.
LEMMA ReadHeaderStep ==
    ASSUME WireInv, ~foreign, ReadHeader
    PROVE  Kept'
<1>1. /\ reader = "header" /\ sock # <<>> /\ head' = Append(head, Head(sock)) /\ sock' = Tail(sock)
      /\ foreign' = foreign /\ writer' = writer /\ frame' = frame /\ out' = out /\ sent' = sent
      /\ reader' = reader /\ got' = got
  BY DEF ReadHeader, writerVars
<1>2. head \in Seq(Byte) /\ sock \in Seq(Byte) /\ out \in Seq(Byte)
  BY DEF WireInv, WireTypes
<1>3. head' \in Seq(Byte) /\ sock' \in Seq(Byte) /\ head' \o sock' = head \o sock
  BY <1>1, <1>2, MoveOne, Zenon
<1>4. head' \o (sock' \o out) = head \o (sock \o out)
  <2>1. head' \o (sock' \o out) = (head' \o sock') \o out /\ head \o (sock \o out) = (head \o sock) \o out
    BY <1>2, <1>3, RegroupBytes
  <2> QED
    BY <1>3, <2>1, Zenon
<1>5. Ahead' = Ahead
  BY <1>1, <1>4 DEF Ahead, Taken
<1>6. reader \in {"header", "body"} /\ reader' \in {"header", "body"} /\ (writer' = "cut" <=> writer = "cut")
  BY <1>1
<1> QED
  BY <1>1, <1>5, <1>6, MovesBytes, Zenon

\* The header is that of a message, so it is never above the ceiling.
LEMMA CheckLengthStep ==
    ASSUME WireInv, ~foreign, CheckLength
    PROVE  Kept' /\ reader' = "body"
<1>1. /\ reader = "header" /\ Len(head) = HEADER /\ len' = from_be_bytes(head)
      /\ reader' = IF len' > MAX_FRAME_LEN THEN "FrameTooLarge" ELSE "body"
      /\ foreign' = foreign /\ writer' = writer /\ frame' = frame /\ out' = out /\ sent' = sent
      /\ sock' = sock /\ body' = body /\ got' = got
  BY DEF CheckLength, writerVars
<1>2. WireTypes /\ InHand /\ ReadInOrder
  BY DEF WireInv
<1>3. PICK last, p : Spelled(last, p)
  BY <1>1, Zenon DEF WireInv, AheadSpelled
<1>4. head = to_be_bytes(len') /\ len' \in 0..MAX_FRAME_LEN
  BY <1>1, <1>2, <1>3, LengthFound, Zenon
<1>5. reader' = "body"
  BY <1>1, <1>4, Constants
<1>6. body = <<>> /\ head \in Seq(Byte)
  BY <1>1, <1>2 DEF InHand, WireTypes
<1>7. to_be_bytes(len') \o body' = head
  BY <1>1, <1>4, <1>6
<1>8. Ahead' = Ahead
  BY <1>1, <1>5, <1>7 DEF Ahead, Taken
<1>9. reader \in {"header", "body"} /\ reader' \in {"header", "body"} /\ (writer' = "cut" <=> writer = "cut")
  BY <1>1, <1>5
<1> QED
  BY <1>1, <1>5, <1>8, <1>9, MovesBytes, Zenon

\* The bytes of a body that are read are still ahead.
LEMMA FillBodyStep ==
    ASSUME WireInv, ~foreign, FillBody
    PROVE  Kept'
<1>1. /\ reader = "body"
      /\ foreign' = foreign /\ writer' = writer /\ frame' = frame /\ out' = out /\ sent' = sent
      /\ reader' = reader /\ len' = len /\ got' = got
  BY DEF FillBody, writerVars
<1>2. PICK n \in 1..Len(sock) : body' = body \o SubSeq(sock, 1, n) /\ sock' = SubSeq(sock, n + 1, Len(sock))
  BY DEF FillBody
<1>3. body \in Seq(Byte) /\ sock \in Seq(Byte) /\ out \in Seq(Byte) /\ len \in Nat
  BY DEF WireInv, WireTypes
<1>4. body' \in Seq(Byte) /\ sock' \in Seq(Byte) /\ body' \o sock' = body \o sock
  BY <1>2, <1>3, MoveSome, Zenon
<1>5. to_be_bytes(len) \in Seq(Byte)
  BY <1>3, DigitsType, Zenon
<1>6. body' \o (sock' \o out) = body \o (sock \o out)
  <2>1. body' \o (sock' \o out) = (body' \o sock') \o out /\ body \o (sock \o out) = (body \o sock) \o out
    BY <1>3, <1>4, RegroupBytes
  <2> QED
    BY <1>4, <2>1, Zenon
<1>7. (to_be_bytes(len) \o body') \o (sock' \o out) = (to_be_bytes(len) \o body) \o (sock \o out)
  <2>1. sock' \o out \in Seq(Byte) /\ sock \o out \in Seq(Byte)
    BY <1>3, <1>4, ConcatProperties
  <2>2. /\ (to_be_bytes(len) \o body') \o (sock' \o out) = to_be_bytes(len) \o (body' \o (sock' \o out))
        /\ (to_be_bytes(len) \o body) \o (sock \o out) = to_be_bytes(len) \o (body \o (sock \o out))
    BY <1>3, <1>4, <1>5, <2>1, RegroupBytes
  <2> QED
    BY <1>6, <2>2, Zenon
<1>8. Ahead' = Ahead
  BY <1>1, <1>7 DEF Ahead, Taken
<1>9. reader \in {"header", "body"} /\ reader' \in {"header", "body"} /\ (writer' = "cut" <=> writer = "cut")
  BY <1>1
<1> QED
  BY <1>1, <1>8, <1>9, MovesBytes, Zenon

\* A message of this program's is decoded, and it is the next one that was sent.
LEMMA DecodeStep ==
    ASSUME WireInv, ~foreign, Decode
    PROVE  /\ Kept' /\ reader' = "header" /\ Len(got) < Len(sent) /\ got' = Append(got, sent[Len(got) + 1])
           /\ sent' = sent /\ foreign' = foreign
<1>1. /\ reader = "body" /\ Len(body) = len
      /\ foreign' = foreign /\ writer' = writer /\ frame' = frame /\ out' = out /\ sent' = sent
      /\ sock' = sock /\ head' = head
  BY DEF Decode, writerVars
<1>2. WireTypes /\ InHand /\ ReadInOrder
  BY DEF WireInv
<1>3. PICK last, p : Spelled(last, p)
  BY <1>1, Zenon DEF WireInv, AheadSpelled
<1>4. /\ body = to_vec[Coming(last)] /\ Coming(last) \in Message /\ Len(Taken) = Size(Coming(last))
      /\ Len(got) < Len(sent) /\ Coming(last) = sent[Len(got) + 1]
  BY <1>1, <1>2, <1>3, BodyWhole, Zenon
<1>5. /\ reader' = "header" /\ got' = Append(got, Coming(last))
  <2>1. {m \in Message : to_vec[m] = body} # {}
    BY <1>4
  <2>2. reader' = "header" /\ \E m \in {m \in Message : to_vec[m] = body} : got' = Append(got, m)
    BY <2>1 DEF Decode
  <2>3. PICK m \in Message : to_vec[m] = body /\ got' = Append(got, m)
    BY <2>2
  <2>4. m = Coming(last)
    BY <1>4, <2>3, WireAssumption
  <2> QED
    BY <2>2, <2>3, <2>4
<1> DEFINE g == Len(got)
           ms == sent \o last
           t == sock \o out
<1>6. /\ ms \in Seq(Message) /\ g \in Nat /\ Len(sent) \in Nat /\ g \in 0..Len(ms) /\ Len(sent) \in 0..Len(ms) /\ Len(ms) \in Nat
      /\ Len(ms) = Len(sent) + Len(last) /\ Len(last) \in Nat
  BY <1>2, <1>3, Standing
<1>7. g + 1 \in 1..Len(ms) /\ g + 1 \in 1..Len(sent)
  BY <1>4, <1>6
<1>8. Taken \in Seq(Byte) /\ t \in Seq(Byte) /\ Ahead = Taken \o t /\ Len(Ahead) = Len(Taken) + Len(t) /\ Len(Taken) \in Nat /\ Len(t) \in Nat
  <2>1. Taken \in Seq(Byte) /\ t \in Seq(Byte)
    BY <1>2, AheadType, Zenon
  <2>2. Ahead = Taken \o t
    BY DEF Ahead
  <2> QED
    BY <2>1, <2>2
<1>9. Ahead' = t
  <2>1. head = <<>>
    BY <1>1, <1>2 DEF InHand
  <2>2. Taken' = <<>>
    BY <1>1, <1>5, <2>1 DEF Taken
  <2> QED
    BY <1>1, <1>8, <2>2 DEF Ahead
<1>10. /\ Offsets(p, ms) /\ Spells(Ahead, ms, p, g)
       /\ p[g] \in Nat /\ p[Len(sent)] \in Nat /\ p[Len(ms)] \in Nat
  BY <1>2, <1>3, HowMuch, Zenon
<1>11. Spells(t, ms, p, g + 1) /\ p[g + 1] = p[g] + Len(Taken) /\ p[g + 1] \in Nat
  BY <1>4, <1>6, <1>7, <1>8, <1>10, SpellsRest, Zenon DEF Coming
<1>12. Len(got') = g + 1
  BY <1>2, <1>4, <1>5 DEF WireTypes
<1>13. Spelled(last, p)'
  <2> HIDE DEF g, ms, t
  <2>1. Offsets(p, ms) /\ Spells(t, ms, p, g + 1)
    BY <1>10, <1>11
  <2>2. last \in Seq(Message) /\ Len(last) <= 1 /\ \A i \in 1..Len(ms) : Len(to_vec[ms[i]]) <= MAX_FRAME_LEN
    BY <1>3, Zenon DEF Spelled, ms
  <2>3. ms' = ms
    BY <1>1 DEF ms
  <2>4. CASE writer = "cut"
    <3>1. /\ p[Len(sent)] - p[g] <= Len(Ahead) /\ Len(Ahead) <= p[Len(ms)] - p[g]
          /\ last # <<>> => Len(Ahead) < p[Len(ms)] - p[g]
      BY <1>3, <2>4, Zenon DEF Spelled, ms, g
    <3> DEFINE a == Len(Ahead)
               b == p[g + 1]
               c == p[g]
               u == Len(Taken)
               v == Len(t)
               w == p[Len(sent)]
               z == p[Len(ms)]
    <3>2. /\ b \in Nat /\ c \in Nat /\ u \in Nat /\ v \in Nat /\ w \in Nat /\ z \in Nat
          /\ a = u + v /\ b = c + u
          /\ w - c <= a /\ a <= z - c /\ (last # <<>> => a < z - c)
      BY <1>8, <1>10, <1>11, <3>1, Zenon
    <3> HIDE DEF a, b, c, u, v, w, z
    <3>3. w - b <= v /\ v <= z - b /\ (last # <<>> => v < z - b)
      BY <3>2
    <3>4. /\ p[Len(sent)] - p[g + 1] <= Len(t) /\ Len(t) <= p[Len(ms)] - p[g + 1]
          /\ last # <<>> => Len(t) < p[Len(ms)] - p[g + 1]
      BY <3>3, Zenon DEF b, v, w, z
    <3> QED
      BY <1>1, <1>9, <1>12, <2>1, <2>2, <2>3, <2>4, <3>4, Zenon DEF Spelled, ms
  <2>5. CASE writer # "cut"
    <3>1. last = frame /\ Len(Ahead) = p[Len(ms)] - p[g]
      BY <1>3, <2>5, Zenon DEF Spelled, ms, g
    <3>2. Len(t) = p[Len(ms)] - p[g + 1]
      BY <1>8, <1>10, <1>11, <3>1
    <3> QED
      BY <1>1, <1>9, <1>12, <2>1, <2>2, <2>3, <2>5, <3>1, <3>2, Zenon DEF Spelled, ms
  <2> QED
    BY <2>4, <2>5
<1>14. AheadSpelled'
  BY <1>13, Zenon DEF AheadSpelled
<1>15. ReadInOrder'
  <2>1. got \in Seq(Message) /\ Coming(last) \in Message /\ \A i \in 1..g : got[i] = sent[i]
    BY <1>2, <1>4 DEF WireTypes, ReadInOrder
  <2>2. \A i \in 1..g : Append(got, Coming(last))[i] = got[i]
    BY <2>1
  <2>3. Append(got, Coming(last))[g + 1] = sent[g + 1]
    BY <1>4, <2>1
  <2>4. \A i \in 1..(g + 1) : i \in 1..g \/ i = g + 1
    BY <1>6
  <2>5. \A i \in 1..(g + 1) : got'[i] = sent[i]
    BY <1>5, <2>1, <2>2, <2>3, <2>4, Zenon
  <2>6. g + 1 <= Len(sent)
    BY <1>7
  <2> QED
    BY <1>1, <1>12, <2>5, <2>6, Zenon DEF ReadInOrder
<1>16. OwnFramesUnderstood'
  BY <1>5 DEF OwnFramesUnderstood
<1> QED
  BY <1>1, <1>4, <1>5, <1>14, <1>15, <1>16, Zenon DEF Kept

\* The reader of this program's bytes gives up with every message read, and in
\* the middle of a body only after a cut.
LEMMA ReadEndsStep ==
    ASSUME WireInv, ~foreign, ReadEnds
    PROVE  /\ Kept' /\ got = sent /\ reader' \in {"Io", "Truncated"} /\ reader \in {"header", "body"}
           /\ got' = got /\ sent' = sent /\ foreign' = foreign
<1>1. /\ writer \in {"cut", "refused"} /\ sock = <<>>
      /\ foreign' = foreign /\ writer' = writer /\ sent' = sent /\ got' = got
      /\ \/ reader = "header" /\ Len(head) < HEADER /\ reader' = "Io"
         \/ reader = "body" /\ Len(body) < len /\ reader' = "Truncated"
  BY DEF ReadEnds, Closed, writerVars
<1>2. WireTypes /\ InHand /\ ReadInOrder
  BY DEF WireInv
<1>3. PICK last, p : Spelled(last, p)
  BY <1>1, Zenon DEF WireInv, AheadSpelled
<1>4. out = <<>> /\ frame = <<>>
  BY <1>1, <1>2 DEF InHand
<1>5. Len(sock) = 0 /\ Len(out) = 0
  BY <1>1, <1>4
<1>6. /\ Len(Taken) \in Nat /\ Len(Ahead) \in Nat /\ Len(Ahead) = Len(Taken) + Len(sock) + Len(out)
      /\ (reader = "header" => Len(Taken) = Len(head)) /\ (reader = "body" => Len(Taken) = HEADER + Len(body))
  BY <1>2, AheadType, Zenon
<1>7. Len(Ahead) = Len(Taken)
  BY <1>5, <1>6
<1>8. sent \in Seq(Message) /\ got \in Seq(Message) /\ Len(got) \in Nat /\ Len(sent) \in Nat /\ Len(got) <= Len(sent)
  <2>1. sent \in Seq(Message) /\ got \in Seq(Message)
    BY <1>2 DEF WireTypes
  <2> QED
    BY <1>2, <1>3, <2>1, Standing, Zenon
<1>9. Len(got) = Len(sent)
  <2> SUFFICES ASSUME Len(got) # Len(sent) PROVE FALSE
    OBVIOUS
  <2> DEFINE m == Coming(last)
             g == Len(got)
  <2>1. /\ sent \o last \in Seq(Message) /\ Len(sent) \in 0..Len(sent \o last)
        /\ Len(sent \o last) = Len(sent) + Len(last) /\ Len(last) \in Nat
    BY <1>2, <1>3, Standing, Zenon
  <2>2. /\ g + 1 \in 1..Len(sent \o last) /\ g + 1 \in 0..Len(sent \o last) /\ g + 1 <= Len(sent) /\ (g + 1) - 1 = g
    BY <1>8, <2>1
  <2>3. /\ Offsets(p, sent \o last) /\ p[g] \in Nat /\ p[Len(sent)] \in Nat
        /\ p[Len(sent)] - p[g] <= Len(Ahead)
    BY <1>2, <1>3, HowMuch, Zenon
  <2>4. /\ p[g + 1] = p[(g + 1) - 1] + Size(m) /\ p[g + 1] <= p[Len(sent)] /\ p[g + 1] \in Nat /\ m \in Message
    BY <2>1, <2>2, <2>3, OffsetsType, Zenon DEF Coming
  <2>5. Size(m) \in Nat /\ Size(m) >= HEADER /\ Size(m) = HEADER + Len(to_vec[m]) /\ Len(to_vec[m]) \in Nat /\ HEADER \in Nat
    BY <2>4, Constants, Zenon DEF Size
  <2>6. p[g + 1] = p[g] + Size(m)
    BY <2>2, <2>4, Zenon
  <2> HIDE DEF m, g
  <2>7. Size(m) <= Len(Taken)
    <3>1. \A a, b, c, d, e \in Nat : b = a + d /\ b <= c /\ c - a <= e => d <= e
      OBVIOUS
    <3> QED
      BY <1>6, <1>7, <2>3, <2>4, <2>5, <2>6, <3>1, Zenon
  <2>8. CASE reader = "header" /\ Len(head) < HEADER
    <3>1. Len(Taken) = Len(head)
      BY <1>6, <2>8, Zenon
    <3> QED
      BY <1>6, <2>5, <2>7, <2>8, <3>1
  <2>9. CASE reader = "body" /\ Len(body) < len
    <3>1. len = Len(to_vec[m]) /\ Len(Taken) = HEADER + Len(body)
      BY <1>2, <1>3, <1>6, <2>9, BodyFound, Zenon DEF m
    <3>2. Len(body) \in Nat /\ len \in Nat
      BY <1>2 DEF WireTypes
    <3> QED
      BY <2>5, <2>7, <2>9, <3>1, <3>2
  <2> QED
    BY <1>1, <2>8, <2>9, Zenon
<1>10. got = sent
  <2>1. \A i \in 1..Len(got) : got[i] = sent[i]
    BY <1>2 DEF ReadInOrder
  <2> QED
    BY <1>8, <1>9, <2>1, SeqEqual
<1>11. reader' = "Truncated" => writer' = "cut"
  <2> SUFFICES ASSUME reader' = "Truncated", writer # "cut" PROVE FALSE
    BY <1>1
  <2>1. reader = "body"
    BY <1>1
  <2>2. Len(Ahead) >= HEADER
    BY <1>2, <1>3, <2>1, BodyFound, Zenon
  <2>3. last = <<>> /\ Len(Ahead) = p[Len(sent \o last)] - p[Len(got)]
    BY <1>3, <1>4 DEF Spelled
  <2>4. sent \o last = sent
    BY <1>8, <2>3
  <2>5. Len(Ahead) = p[Len(sent)] - p[Len(sent)] /\ p[Len(sent)] \in Nat
    <3>1. p[Len(sent)] \in Nat
      BY <1>2, <1>3, HowMuch, Zenon
    <3> QED
      BY <1>9, <2>3, <2>4, <3>1, Zenon
  <2>6. Len(Ahead) = 0
    BY <2>5
  <2> QED
    BY <2>2, <2>6, Constants
<1>12. reader' \in {"Io", "Truncated"} /\ reader \in {"header", "body"}
  BY <1>1
<1>13. OwnFramesUnderstood'
  BY <1>11, <1>12 DEF OwnFramesUnderstood
<1>14. AheadSpelled'
  BY <1>12 DEF AheadSpelled
<1>15. ReadInOrder'
  BY <1>1, <1>2 DEF ReadInOrder
<1> QED
  BY <1>1, <1>10, <1>12, <1>13, <1>14, <1>15 DEF Kept

\* Bytes of a foreign writer's promise nothing.
LEMMA ForeignStep ==
    ASSUME WireInv, foreign, [Next]_vars
    PROVE  Kept' /\ foreign' = foreign /\ sent' = sent
<1>1. writer # "writing"
  BY DEF WireInv, InHand
<1>2. foreign' = foreign /\ sent' = sent
  BY <1>1 DEF Next, WriterStep, ReaderStep, BeginFrame, WriteByte, Cut, ForeignByte,
              ReadHeader, CheckLength, FillBody, Decode, ReadEnds, vars, writerVars
<1> QED
  BY <1>2 DEF Kept, ReadInOrder, AheadSpelled, OwnFramesUnderstood

\* The invariant is inductive.
LEMMA WireStep ==
    ASSUME WireInv, [Next]_vars
    PROVE  WireInv'
<1>1. WireTypes /\ InHand
  BY DEF WireInv
<1>2. WireTypes' /\ InHand'
  BY <1>1, TypesStep
<1>3. CASE foreign
  BY <1>2, <1>3, ForeignStep DEF WireInv, Kept
<1>4. CASE ~foreign
  <2> SUFFICES Kept'
    BY <1>2 DEF WireInv, Kept
  <2>1. CASE UNCHANGED vars
    <3>1. Ahead' = Ahead
      BY <2>1 DEF Ahead, Taken, vars, writerVars, readerVars
    <3>2. /\ foreign' = foreign /\ sent' = sent /\ got' = got /\ frame' = frame /\ writer' = writer /\ reader' = reader
      BY <2>1 DEF vars, writerVars, readerVars
    <3>3. CASE reader \in {"header", "body"}
      BY <1>4, <3>1, <3>2, <3>3, MovesBytes
    <3>4. CASE reader \notin {"header", "body"}
      BY <1>4, <3>2, <3>4, NobodyReads
    <3> QED
      BY <3>3, <3>4
  <2>2. CASE Next
    <3>1. \A b : ~ForeignByte(b)
      BY <1>4 DEF ForeignByte
    <3> QED
      BY <1>4, <2>2, <3>1, BeginFrameStep, WriteByteStep, CutStep, ReadHeaderStep, CheckLengthStep,
         FillBodyStep, DecodeStep, ReadEndsStep DEF Next, WriterStep, ReaderStep
  <2> QED
    BY <2>1, <2>2
<1> QED
  BY <1>3, <1>4

-----------------------------------------------------------------------------
(* Theorems.                                                               *)

\* The bytes between write_frame and read_frame are at every moment the frames
\* that are still to be read, however they are split between the two ends and
\* the connection.
THEOREM WireInvariant == Spec => []WireInv
<1>1. WireInv /\ [Next]_vars => WireInv'
  BY WireStep
<1> QED
  BY <1>1, WireStart, PTL DEF Spec

\* Whatever length a peer declares, read_frame reads no body past the ceiling.
THEOREM BodyNeverPastCeiling == Spec => []WireTypeOK
<1>1. WireInv => WireTypeOK
  BY Zenon DEF WireInv, WireTypes, WireTypeOK
<1> QED
  BY <1>1, WireInvariant, PTL

\* read_frame never finds one of write_frame's frames too large or malformed,
\* and finds one truncated only when the connection was cut.
THEOREM OwnFramesAreUnderstood == Spec => []OwnFramesUnderstood
<1>1. WireInv => OwnFramesUnderstood
  BY DEF WireInv
<1> QED
  BY <1>1, WireInvariant, PTL

-----------------------------------------------------------------------------
(* The connection implements the channel.                                  *)

\* A step of which the channel sees nothing.
LEMMA Unseen ==
    ASSUME sent' = sent, foreign' = foreign, got' = got \/ foreign,
           reader' \in Stopped <=> reader \in Stopped
    PROVE  UNCHANGED TheChannel!vars
BY DEF TheChannel!vars

\* A step with which the reader gives up, every message read.
LEMMA SeenEnd ==
    ASSUME sent' = sent, foreign' = foreign, got' = got, (~foreign /\ got = sent) \/ (foreign /\ sent = <<>>),
           reader \notin Stopped, reader' \in Stopped
    PROVE  TheChannel!Next
<1>1. TheChannel!End
  BY DEF TheChannel!End
<1> QED
  BY <1>1 DEF TheChannel!Next

\* With write_frame at the other end every step is one of the channel, or unseen.
LEMMA OwnStepsMap ==
    ASSUME WireInv, ~foreign, Next
    PROVE  TheChannel!Next \/ UNCHANGED TheChannel!vars
<1>1. ASSUME NEW m \in Message, BeginFrame(m) PROVE UNCHANGED TheChannel!vars
  BY <1>1, Unseen DEF BeginFrame, readerVars
<1>2. ASSUME WriteByte PROVE TheChannel!Next \/ UNCHANGED TheChannel!vars
  <2>1. /\ writer = "writing" /\ foreign' = foreign /\ reader' = reader /\ got' = got
        /\ sent' = sent \/ sent' = sent \o frame
    BY <1>2 DEF WriteByte, readerVars
  <2>2. sent \in Seq(Message) /\ frame \in Seq(Message) /\ Len(frame) = 1
    BY <2>1 DEF WireInv, WireTypes, InHand
  <2>3. frame[1] \in Message /\ sent \o frame = Append(sent, frame[1])
    <3>1. frame[1] \in Message /\ frame = <<frame[1]>>
      <4>1. \A f \in Seq(Message) : Len(f) = 1 => f[1] \in Message /\ f = <<f[1]>>
        <5> SUFFICES ASSUME NEW f \in Seq(Message), Len(f) = 1 PROVE f[1] \in Message /\ f = <<f[1]>>
          OBVIOUS
        <5>1. f[1] \in Message
          OBVIOUS
        <5>2. <<f[1]>> \in Seq(Message) /\ Len(<<f[1]>>) = 1 /\ \A i \in 1..1 : f[i] = <<f[1]>>[i]
          BY <5>1
        <5> QED
          BY <5>1, <5>2, SeqEqual
      <4> QED
        BY <2>2, <4>1, Zenon
    <3>2. \A x \in Message : sent \o <<x>> = Append(sent, x)
      BY <2>2
    <3> QED
      BY <3>1, <3>2, Zenon
  <2>4. CASE sent' = sent
    BY <2>1, <2>4, Unseen
  <2>5. CASE sent' = sent \o frame
    <3>1. TheChannel!Send(frame[1])
      BY <2>1, <2>3, <2>5 DEF TheChannel!Send
    <3> QED
      BY <2>3, <3>1, Zenon DEF TheChannel!Next
  <2> QED
    BY <2>1, <2>4, <2>5
<1>3. ASSUME Cut PROVE UNCHANGED TheChannel!vars
  BY <1>3, Unseen DEF Cut, readerVars
<1>4. ASSUME ReadHeader PROVE UNCHANGED TheChannel!vars
  BY <1>4, Unseen DEF ReadHeader, writerVars
<1>5. ASSUME CheckLength PROVE UNCHANGED TheChannel!vars
  <2>1. sent' = sent /\ foreign' = foreign /\ got' = got /\ reader = "header"
    BY <1>5 DEF CheckLength, writerVars
  <2>2. reader' = "body"
    BY <1>5, CheckLengthStep
  <2>3. reader' \notin Stopped /\ reader \notin Stopped
    BY <2>1, <2>2 DEF Stopped
  <2> QED
    BY <2>1, <2>3, Unseen
<1>6. ASSUME FillBody PROVE UNCHANGED TheChannel!vars
  BY <1>6, Unseen DEF FillBody, writerVars
<1>7. ASSUME Decode PROVE TheChannel!Next
  <2>1. /\ reader' = "header" /\ Len(got) < Len(sent) /\ got' = Append(got, sent[Len(got) + 1])
        /\ sent' = sent /\ foreign' = foreign
    BY <1>7, DecodeStep
  <2>2. reader = "body"
    BY <1>7 DEF Decode
  <2>3. reader' \notin Stopped /\ reader \notin Stopped
    BY <2>1, <2>2 DEF Stopped
  <2>4. TheChannel!Deliver
    BY <2>1, <2>3 DEF TheChannel!Deliver
  <2> QED
    BY <2>4 DEF TheChannel!Next
<1>8. ASSUME ReadEnds PROVE TheChannel!Next
  <2>1. /\ got = sent /\ reader' \in {"Io", "Truncated"} /\ reader \in {"header", "body"}
        /\ got' = got /\ sent' = sent /\ foreign' = foreign
    BY <1>8, ReadEndsStep
  <2>2. reader' \in Stopped /\ reader \notin Stopped
    BY <2>1 DEF Stopped
  <2> QED
    BY <2>1, <2>2, SeenEnd
<1>9. \A b : ~ForeignByte(b)
  BY DEF ForeignByte
<1> QED
  BY <1>1, <1>2, <1>3, <1>4, <1>5, <1>6, <1>7, <1>8, <1>9 DEF Next, WriterStep, ReaderStep

\* With a foreign writer the channel carries nothing, and at most ends.
LEMMA ForeignStepsMap ==
    ASSUME WireInv, foreign, Next
    PROVE  TheChannel!Next \/ UNCHANGED TheChannel!vars
<1>1. sent' = sent /\ foreign' = foreign /\ sent = <<>>
  <2>1. sent = <<>>
    BY DEF WireInv, InHand
  <2> QED
    BY <2>1, ForeignStep
<1>2. CASE reader' \in Stopped <=> reader \in Stopped
  BY <1>1, <1>2, Unseen
<1>3. CASE ~(reader' \in Stopped <=> reader \in Stopped)
  <2>1. reader # reader'
    BY <1>3
  <2>2. writer # "writing"
    BY DEF WireInv, InHand
  <2>3. CheckLength \/ Decode \/ ReadEnds
    BY <2>1, <2>2 DEF Next, WriterStep, ReaderStep, BeginFrame, WriteByte, Cut, ForeignByte,
                      ReadHeader, FillBody, readerVars
  <2>4. reader \in {"header", "body"}
    BY <2>3 DEF CheckLength, Decode, ReadEnds
  <2>5. reader \notin Stopped /\ reader' \in Stopped
    BY <1>3, <2>4 DEF Stopped
  <2>6. TheChannel!End
    BY <1>1, <2>5 DEF TheChannel!End
  <2> QED
    BY <2>6 DEF TheChannel!Next
<1> QED
  BY <1>2, <1>3

\* With write_frame at the other end, read_frame returns the messages written,
\* in order, none twice and none invented, and fails only after the last.
THEOREM WireImplementsChannel == Spec => ChannelKept
<1>1. Init => TheChannel!Init
  <2> SUFFICES ASSUME Init PROVE TheChannel!Init
    OBVIOUS
  <2>1. sent = <<>> /\ got = <<>> /\ reader \notin Stopped
    BY DEF Init, Stopped
  <2> QED
    BY <2>1 DEF TheChannel!Init
<1>2. WireInv /\ [Next]_vars => [TheChannel!Next]_(TheChannel!vars)
  <2> SUFFICES ASSUME WireInv, [Next]_vars PROVE TheChannel!Next \/ UNCHANGED TheChannel!vars
    OBVIOUS
  <2>1. CASE Next
    BY <2>1, OwnStepsMap, ForeignStepsMap
  <2>2. CASE UNCHANGED vars
    BY <2>2, Unseen DEF vars, writerVars, readerVars
  <2> QED
    BY <2>1, <2>2
<1> QED
  BY <1>1, <1>2, WireInvariant, PTL DEF Spec, ChannelKept, TheChannel!Spec

=============================================================================

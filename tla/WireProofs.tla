----------------------------- MODULE WireProofs -----------------------------
(***************************************************************************)
(* Wire for any messages, any limit on their length, any short writes and  *)
(* any portions in which the stream is read: that deserialize undoes       *)
(* serialize, the type invariant, the two invariants about the frames, and *)
(* that payload items and SD messages are read as they were written.       *)
(*                                                                         *)
(* The proof keeps the places of the frames in the stream, counted from    *)
(* what is still unread: a read moves all of them, a send adds one behind  *)
(* the last.  As long as the receive thread is in front of the first short *)
(* write, it stands at such a place or inside the frame behind it.         *)
(*                                                                         *)
(* Payloads and SD messages are parts put together one behind the other:   *)
(* Joined and PartsLie say where each part lies, ReaderAt and ParseIs what *)
(* the readers have found there.                                           *)
(***************************************************************************)
EXTENDS Wire, WellFoundedInduction, FiniteSetTheorems, SequenceTheorems, TLAPS

-----------------------------------------------------------------------------
(* Numbers and bytes.                                                      *)

\* A number is its low byte and the rest; each byte is a factor of 256.
LEMMA Halves ==
    /\ \A n \in Nat : High(n) \in Nat /\ Low(n) \in Byte /\ Join(High(n), Low(n)) = n
    /\ \A n, k \in Nat : n < 256 * k => High(n) < k
    /\ \A n \in Byte : Low(n) = n
  <1>1. \A n \in Nat : High(n) \in Nat /\ Low(n) \in Byte
    BY DEF High, Low, Byte
  <1>2. \A n \in Nat : Join(High(n), Low(n)) = n
    BY DEF High, Low, Join
  <1>3. \A n, k \in Nat : n < 256 * k => High(n) < k
    BY DEF High
  <1>4. \A n \in Byte : Low(n) = n
    BY DEF Byte, Low
  <1> QED
    BY <1>1, <1>2, <1>3, <1>4

\* Numbers put together from bytes.
LEMMA Joins ==
    /\ \A x, y \in Nat : Join(x, y) \in Nat
    /\ \A x, y \in Byte : Join(x, y) \in Uint16
    /\ \A x \in Byte : x \in Nat
  BY DEF Byte, Uint16, Join

\* A function on 1 .. n is a sequence.
LEMMA IsSeq ==
    ASSUME NEW S, NEW n \in Nat, NEW F \in [1 .. n -> S]
    PROVE  F \in Seq(S) /\ Len(F) = n
  <1>1. F \in Seq(S)
    BY SeqDef
  <1>2. DOMAIN F = 1 .. n /\ DOMAIN F = 1 .. Len(F) /\ Len(F) \in Nat
    BY <1>1, LenProperties
  <1> QED
    BY <1>1, <1>2

\* The bytes of a number.
LEMMA BytesAre ==
    ASSUME NEW n \in Nat
    PROVE  /\ Bytes(n, 2) \in Seq(Byte) /\ Len(Bytes(n, 2)) = 2
           /\ Bytes(n, 2)[1] = Low(High(n)) /\ Bytes(n, 2)[2] = Low(n)
           /\ Bytes(n, 3) \in Seq(Byte) /\ Len(Bytes(n, 3)) = 3
           /\ Bytes(n, 3)[1] = Low(High(High(n))) /\ Bytes(n, 3)[2] = Low(High(n))
           /\ Bytes(n, 3)[3] = Low(n)
           /\ Bytes(n, 4) \in Seq(Byte) /\ Len(Bytes(n, 4)) = 4
           /\ Bytes(n, 4)[1] = Low(High(High(High(n)))) /\ Bytes(n, 4)[2] = Low(High(High(n)))
           /\ Bytes(n, 4)[3] = Low(High(n)) /\ Bytes(n, 4)[4] = Low(n)
  <1> DEFINE S == Shifted(n)
  <1>1. High(n) \in Nat /\ High(High(n)) \in Nat /\ High(High(High(n))) \in Nat
    BY Halves
  <1>2. S[1] = High(High(High(n))) /\ S[2] = High(High(n)) /\ S[3] = High(n) /\ S[4] = n
    BY DEF Shifted
  <1> HIDE DEF S
  <1>3. \A i \in 1 .. 4 : i = 1 \/ i = 2 \/ i = 3 \/ i = 4
    OBVIOUS
  <1>4. \A i \in 1 .. 4 : S[i] \in Nat
    BY <1>1, <1>2, <1>3
  <1>5. \A i \in 1 .. 4 : Low(S[i]) \in Byte
    BY <1>4, Halves
  <1>6. \A w \in 0 .. 4 : /\ Bytes(n, w) \in Seq(Byte) /\ Len(Bytes(n, w)) = w
                          /\ \A i \in 1 .. w : Bytes(n, w)[i] = Low(S[4 - w + i])
    <2> TAKE w \in 0 .. 4
    <2> DEFINE F == [i \in 1 .. w |-> Low(S[4 - w + i])]
    <2>1. Bytes(n, w) = F
      BY DEF Bytes, S
    <2>2. \A i \in 1 .. w : 4 - w + i \in 1 .. 4
      OBVIOUS
    <2>3. F \in [1 .. w -> Byte]
      BY <2>2, <1>5
    <2>4. w \in Nat
      OBVIOUS
    <2> HIDE DEF F
    <2>5. F \in Seq(Byte) /\ Len(F) = w
      BY <2>3, <2>4, IsSeq
    <2> QED
      BY <2>1, <2>5 DEF F
  <1>7. /\ Bytes(n, 2) \in Seq(Byte) /\ Len(Bytes(n, 2)) = 2
        /\ Bytes(n, 2)[1] = Low(S[3]) /\ Bytes(n, 2)[2] = Low(S[4])
    BY <1>6
  <1>8. /\ Bytes(n, 4) \in Seq(Byte) /\ Len(Bytes(n, 4)) = 4
        /\ Bytes(n, 4)[1] = Low(S[1]) /\ Bytes(n, 4)[2] = Low(S[2])
        /\ Bytes(n, 4)[3] = Low(S[3]) /\ Bytes(n, 4)[4] = Low(S[4])
    BY <1>6
  <1>9. /\ Bytes(n, 3) \in Seq(Byte) /\ Len(Bytes(n, 3)) = 3
        /\ Bytes(n, 3)[1] = Low(S[2]) /\ Bytes(n, 3)[2] = Low(S[3])
        /\ Bytes(n, 3)[3] = Low(S[4])
    BY <1>6
  <1> QED
    BY <1>2, <1>7, <1>8, <1>9

\* A number of two bytes survives the way to bytes and back,
LEMMA TwoBytes ==
    ASSUME NEW n \in Uint16
    PROVE  Number(Bytes(n, 2)) = n
  <1> DEFINE s == Bytes(n, 2)
  <1>1. n \in Nat /\ n < 256 * 256
    BY DEF Uint16
  <1>2. Len(s) = 2 /\ s[1] = Low(High(n)) /\ s[2] = Low(n)
    BY <1>1, BytesAre
  <1>3. High(n) \in Nat /\ High(n) < 256
    BY <1>1, Halves
  <1>4. High(n) \in Byte
    BY <1>3 DEF Byte
  <1> HIDE DEF s
  <1>5. Number(s) = Join(s[1], s[2])
    BY <1>2 DEF Number
  <1>6. Low(High(n)) = High(n) /\ Join(High(n), Low(n)) = n
    BY <1>1, <1>4, Halves
  <1> QED
    BY <1>2, <1>5, <1>6 DEF s

\* and so does one of four.
LEMMA FourBytes ==
    ASSUME NEW n \in Nat, n < Huge
    PROVE  Number(Bytes(n, 4)) = n
  <1> DEFINE s == Bytes(n, 4)
             a == High(n)
             b == High(a)
             c == High(b)
  <1>1. /\ Len(s) = 4 /\ s[1] = Low(c) /\ s[2] = Low(b)
        /\ s[3] = Low(a) /\ s[4] = Low(n)
    BY BytesAre
  <1>2. a \in Nat /\ b \in Nat /\ c \in Nat
    BY Halves
  <1>3. n < 256 * (256 * (256 * 64))
    BY DEF Huge
  <1>4. Join(a, Low(n)) = n /\ Join(b, Low(a)) = a /\ Join(c, Low(b)) = b
    BY <1>2, Halves
  <1> HIDE DEF a, s
  <1>5. a < 256 * (256 * 64)
    BY <1>2, <1>3, Halves DEF a
  <1> HIDE DEF b
  <1>6. b < 256 * 64
    BY <1>2, <1>5, Halves DEF b
  <1> HIDE DEF c
  <1>7. c < 64
    BY <1>2, <1>6, Halves DEF c
  <1>8. c \in Byte /\ ~(c >= 64)
    BY <1>2, <1>7 DEF Byte
  <1>9. Low(c) = c
    BY <1>8, Halves
  <1>10. Number(s) = IF s[1] >= 64 THEN Huge
                     ELSE Join(Join(Join(s[1], s[2]), s[3]), s[4])
    BY <1>1 DEF Number
  <1>11. Number(s) = Join(Join(Join(c, Low(b)), Low(a)), Low(n))
    BY <1>1, <1>8, <1>9, <1>10
  <1> QED
    BY <1>4, <1>11 DEF s

\* Bytes always stand for some number, two of them for one of sixteen bits.
LEMMA NumberType ==
    ASSUME NEW s \in Seq(Byte)
    PROVE  /\ Len(s) = 1 => Number(s) = s[1] /\ s[1] \in Byte
           /\ Len(s) = 2 => Number(s) \in Uint16
           /\ Len(s) = 4 => Number(s) \in Nat
  <1>1. \A i \in 1 .. Len(s) : s[i] \in Byte
    BY LenProperties
  <1>2. ASSUME Len(s) = 1 PROVE Number(s) = s[1] /\ s[1] \in Byte
    BY <1>1, <1>2 DEF Number
  <1>3. ASSUME Len(s) = 2 PROVE Number(s) \in Uint16
    <2>1. s[1] \in Byte /\ s[2] \in Byte
      BY <1>1, <1>3
    <2>2. Number(s) = Join(s[1], s[2])
      BY <1>3 DEF Number
    <2> QED
      BY <2>1, <2>2, Joins
  <1>4. ASSUME Len(s) = 4 PROVE Number(s) \in Nat
    <2>1. s[1] \in Byte /\ s[2] \in Byte /\ s[3] \in Byte /\ s[4] \in Byte
      BY <1>1, <1>4
    <2>2. Number(s) = IF s[1] >= 64 THEN Huge
                      ELSE Join(Join(Join(s[1], s[2]), s[3]), s[4])
      BY <1>4 DEF Number
    <2>3. Huge \in Nat
      BY DEF Huge
    <2>4. Join(Join(Join(s[1], s[2]), s[3]), s[4]) \in Nat
      BY <2>1, Joins, Zenon
    <2> QED
      BY <2>2, <2>3, <2>4
  <1> QED
    BY <1>2, <1>3, <1>4

-----------------------------------------------------------------------------
(* Parts of byte sequences.                                                *)

\* A slice within the data.
LEMMA SliceIs ==
    ASSUME NEW u \in Seq(Byte), NEW o \in Nat, NEW l \in Nat, o + l <= Len(u)
    PROVE  /\ Slice(u, o, l) \in Seq(Byte) /\ Len(Slice(u, o, l)) = l
           /\ \A i \in 1 .. l : Slice(u, o, l)[i] = u[o + i]
  <1> DEFINE m == o + 1
             n == o + l
  <1>1. m \in Int /\ n \in Int /\ n - m + 1 = l /\ Len(u) \in Nat
    BY LenProperties
  <1>2. \A i \in m .. n : i \in 1 .. Len(u)
    BY <1>1
  <1>3. \A i \in m .. n : u[i] \in Byte
    BY <1>2, LenProperties
  <1>4. \A i \in 1 .. l : m + i - 1 = o + i
    OBVIOUS
  <1>5. (IF m <= n THEN n - m + 1 ELSE 0) = l
    OBVIOUS
  <1> HIDE DEF m, n
  <1>6. /\ SubSeq(u, m, n) \in Seq(Byte)
        /\ Len(SubSeq(u, m, n)) = IF m <= n THEN n - m + 1 ELSE 0
        /\ \A i \in 1 .. n - m + 1 : SubSeq(u, m, n)[i] = u[m + i - 1]
    BY <1>1, <1>3, SubSeqProperties
  <1>7. Slice(u, o, l) = SubSeq(u, m, n)
    BY DEF Slice, m, n
  <1> QED
    BY <1>1, <1>4, <1>5, <1>6, <1>7

\* One part after the other.
LEMMA Concat ==
    ASSUME NEW u \in Seq(Byte), NEW v \in Seq(Byte)
    PROVE  /\ u \o v \in Seq(Byte) /\ Len(u \o v) = Len(u) + Len(v)
           /\ \A i \in 1 .. Len(u) + Len(v) :
                 (u \o v)[i] = IF i <= Len(u) THEN u[i] ELSE v[i - Len(u)]
  BY ConcatProperties

\* A slice of the first part of the data is one of that part.
LEMMA SliceLeft ==
    ASSUME NEW u \in Seq(Byte), NEW v \in Seq(Byte),
           NEW o \in Nat, NEW l \in Nat, o + l <= Len(u)
    PROVE  Slice(u \o v, o, l) = Slice(u, o, l)
  <1>1. /\ u \o v \in Seq(Byte) /\ Len(u \o v) = Len(u) + Len(v)
        /\ \A i \in 1 .. Len(u) + Len(v) :
              (u \o v)[i] = IF i <= Len(u) THEN u[i] ELSE v[i - Len(u)]
    BY Concat
  <1>2. Len(u) \in Nat /\ Len(v) \in Nat
    BY LenProperties
  <1>3. o + l <= Len(u \o v)
    BY <1>1, <1>2
  <1>4. /\ Slice(u, o, l) \in Seq(Byte) /\ Len(Slice(u, o, l)) = l
        /\ \A i \in 1 .. l : Slice(u, o, l)[i] = u[o + i]
    BY SliceIs
  <1>5. /\ Slice(u \o v, o, l) \in Seq(Byte) /\ Len(Slice(u \o v, o, l)) = l
        /\ \A i \in 1 .. l : Slice(u \o v, o, l)[i] = (u \o v)[o + i]
    BY <1>1, <1>3, SliceIs
  <1>6. \A i \in 1 .. l : o + i \in 1 .. Len(u) + Len(v) /\ o + i <= Len(u)
    BY <1>2
  <1>7. \A i \in 1 .. l : (u \o v)[o + i] = u[o + i]
    BY <1>1, <1>6
  <1>8. \A i \in 1 .. l : Slice(u \o v, o, l)[i] = Slice(u, o, l)[i]
    BY <1>4, <1>5, <1>7
  <1> QED
    BY <1>4, <1>5, <1>8, SeqEqual

\* The slice of a part in the middle of the data is that part.
LEMMA SliceMiddle ==
    ASSUME NEW u \in Seq(Byte), NEW v \in Seq(Byte)
    PROVE  Slice(u \o v, Len(u), Len(v)) = v
  <1>1. /\ u \o v \in Seq(Byte) /\ Len(u \o v) = Len(u) + Len(v)
        /\ \A i \in 1 .. Len(u) + Len(v) :
              (u \o v)[i] = IF i <= Len(u) THEN u[i] ELSE v[i - Len(u)]
    BY Concat
  <1>2. Len(u) \in Nat /\ Len(v) \in Nat
    BY LenProperties
  <1> DEFINE s == Slice(u \o v, Len(u), Len(v))
  <1>3. Len(u) + Len(v) <= Len(u \o v)
    BY <1>1, <1>2
  <1>4. s \in Seq(Byte) /\ Len(s) = Len(v) /\ \A i \in 1 .. Len(v) : s[i] = (u \o v)[Len(u) + i]
    BY <1>1, <1>2, <1>3, SliceIs
  <1> HIDE DEF s
  <1>5. \A i \in 1 .. Len(v) : /\ Len(u) + i \in 1 .. Len(u) + Len(v)
                               /\ ~(Len(u) + i <= Len(u)) /\ (Len(u) + i) - Len(u) = i
    BY <1>2
  <1>6. \A i \in 1 .. Len(v) : s[i] = v[i]
    BY <1>1, <1>4, <1>5
  <1>7. s = v
    BY <1>4, <1>6, SeqEqual
  <1> QED
    BY <1>7 DEF s
-----------------------------------------------------------------------------
(* Messages and their bytes.                                               *)

\* Data of h bytes u and behind them k bytes v.
Grown(s, u, v, h, k) ==
    /\ s \in Seq(Byte) /\ Len(s) = h + k
    /\ \A o, l \in Nat : o + l <= h => Slice(s, o, l) = Slice(u, o, l)
    /\ Slice(s, h, k) = v

\* Data with something behind it keeps its slices.
LEMMA Extended ==
    ASSUME NEW u \in Seq(Byte), NEW v \in Seq(Byte), NEW h, NEW k,
           Len(u) = h, Len(v) = k
    PROVE  Grown(u \o v, u, v, h, k)
  <1>1. u \o v \in Seq(Byte) /\ Len(u \o v) = h + k
    BY Concat
  <1>2. \A o, l \in Nat : o + l <= h => Slice(u \o v, o, l) = Slice(u, o, l)
    BY SliceLeft
  <1>3. Slice(u \o v, h, k) = v
    BY SliceMiddle
  <1> QED
    BY <1>1, <1>2, <1>3 DEF Grown

\* The fields of a message lie where deserialize looks for them.
LEMMA Layout ==
    ASSUME NEW m \in AnyMessage
    PROVE  /\ serialize(m) \in Seq(Byte)
           /\ Len(serialize(m)) = HEADER_SIZE + Len(m.payload)
           /\ Slice(serialize(m), 0, 2) = Bytes(m.service_id, 2)
           /\ Slice(serialize(m), 2, 2) = Bytes(m.method_id, 2)
           /\ Slice(serialize(m), 4, 4) = Bytes(Len(m.payload), 4)
           /\ Slice(serialize(m), 8, 2) = Bytes(m.client_id, 2)
           /\ Slice(serialize(m), 10, 2) = Bytes(m.session_id, 2)
           /\ Slice(serialize(m), 12, 1) = <<m.protocol_version>>
           /\ Slice(serialize(m), 13, 1) = <<m.interface_version>>
           /\ Slice(serialize(m), 14, 1) = <<m.message_type>>
           /\ Slice(serialize(m), 15, 1) = <<m.return_code>>
           /\ Slice(serialize(m), HEADER_SIZE, Len(m.payload)) = m.payload
  <1> DEFINE A == Bytes(m.service_id, 2)
             B == Bytes(m.method_id, 2)
             C == Bytes(Len(m.payload), 4)
             D == Bytes(m.client_id, 2)
             E == Bytes(m.session_id, 2)
             F == <<m.protocol_version, m.interface_version, m.message_type, m.return_code>>
             P == m.payload
             AB == A \o B
             AC == AB \o C
             AD == AC \o D
             AE == AD \o E
             AF == AE \o F
             S == AF \o P
  <1>1. /\ m.service_id \in Nat /\ m.method_id \in Nat /\ m.client_id \in Nat
        /\ m.session_id \in Nat
    BY DEF AnyMessage, Uint16
  <1>2. /\ m.protocol_version \in Byte /\ m.interface_version \in Byte
        /\ m.message_type \in Byte /\ m.return_code \in Byte /\ P \in Seq(Byte)
    BY DEF AnyMessage
  <1>3. Len(P) \in Nat
    BY <1>2, LenProperties
  <1>4. /\ A \in Seq(Byte) /\ Len(A) = 2 /\ B \in Seq(Byte) /\ Len(B) = 2
        /\ D \in Seq(Byte) /\ Len(D) = 2 /\ E \in Seq(Byte) /\ Len(E) = 2
    BY <1>1, BytesAre
  <1>5. C \in Seq(Byte) /\ Len(C) = 4
    BY <1>3, BytesAre
  <1>6. /\ F \in Seq(Byte) /\ Len(F) = 4
        /\ F[1] = m.protocol_version /\ F[2] = m.interface_version
        /\ F[3] = m.message_type /\ F[4] = m.return_code
    BY <1>2
  <1>7. serialize(m) = S
    BY DEF serialize
  <1>8. AB = A \o B /\ AC = AB \o C /\ AD = AC \o D /\ AE = AD \o E /\ AF = AE \o F /\ S = AF \o P
    OBVIOUS
  <1> HIDE DEF A, B, C, D, E, F, P, AB, AC, AD, AE, AF, S
  <1>9. /\ AB \in Seq(Byte) /\ Len(AB) = 4 /\ Slice(AB, 2, 2) = B
        /\ \A o, l \in Nat : o + l <= 2 => Slice(AB, o, l) = Slice(A, o, l)
    <2>1. Grown(AB, A, B, 2, 2)
      BY <1>4, <1>8, Extended, Zenon
    <2> QED
      BY <2>1 DEF Grown
  <1>10. Slice(AB, 0, 2) = A
    <2>1. Slice(A, 0, 2) = SubSeq(A, 1, 2)
      BY DEF Slice
    <2>2. SubSeq(A, 1, 2) = A
      BY <1>4, SubSeqFull
    <2> QED
      BY <1>9, <2>1, <2>2
  <1>11. /\ AC \in Seq(Byte) /\ Len(AC) = 8 /\ Slice(AC, 4, 4) = C
         /\ \A o, l \in Nat : o + l <= 4 => Slice(AC, o, l) = Slice(AB, o, l)
    <2>1. Grown(AC, AB, C, 4, 4)
      BY <1>5, <1>8, <1>9, Extended, Zenon
    <2> QED
      BY <2>1 DEF Grown
  <1>12. /\ AD \in Seq(Byte) /\ Len(AD) = 10 /\ Slice(AD, 8, 2) = D
         /\ \A o, l \in Nat : o + l <= 8 => Slice(AD, o, l) = Slice(AC, o, l)
    <2>1. Grown(AD, AC, D, 8, 2)
      BY <1>4, <1>8, <1>11, Extended, Zenon
    <2> QED
      BY <2>1 DEF Grown
  <1>13. /\ AE \in Seq(Byte) /\ Len(AE) = 12 /\ Slice(AE, 10, 2) = E
         /\ \A o, l \in Nat : o + l <= 10 => Slice(AE, o, l) = Slice(AD, o, l)
    <2>1. Grown(AE, AD, E, 10, 2)
      BY <1>4, <1>8, <1>12, Extended, Zenon
    <2> QED
      BY <2>1 DEF Grown
  <1>14. /\ AF \in Seq(Byte) /\ Len(AF) = 16 /\ Slice(AF, 12, 4) = F
         /\ \A o, l \in Nat : o + l <= 12 => Slice(AF, o, l) = Slice(AE, o, l)
    <2>1. Grown(AF, AE, F, 12, 4)
      BY <1>6, <1>8, <1>13, Extended, Zenon
    <2> QED
      BY <2>1 DEF Grown
  <1>15. \A i \in 1 .. 4 : AF[12 + i] = F[i]
    <2>1. 12 + 4 <= Len(AF) /\ 12 \in Nat /\ 4 \in Nat
      BY <1>14
    <2>2. \A i \in 1 .. 4 : Slice(AF, 12, 4)[i] = AF[12 + i]
      BY <1>14, <2>1, SliceIs, Zenon
    <2> QED
      BY <1>14, <2>2
  <1>16. /\ S \in Seq(Byte) /\ Len(S) = 16 + Len(P) /\ Slice(S, 16, Len(P)) = P
         /\ \A o, l \in Nat : o + l <= 16 => Slice(S, o, l) = Slice(AF, o, l)
    <2>1. Grown(S, AF, P, 16, Len(P))
      BY <1>2, <1>8, <1>14, Extended, Zenon
    <2> QED
      BY <2>1 DEF Grown
  <1>17. /\ Slice(S, 0, 2) = A /\ Slice(S, 2, 2) = B /\ Slice(S, 4, 4) = C
         /\ Slice(S, 8, 2) = D /\ Slice(S, 10, 2) = E
    BY <1>9, <1>10, <1>11, <1>12, <1>13, <1>14, <1>16
  <1>18. \A i \in 1 .. 4 : Slice(S, 11 + i, 1) = <<F[i]>>
    <2> TAKE i \in 1 .. 4
    <2> DEFINE s == Slice(AF, 11 + i, 1)
    <2>1. 11 + i \in Nat /\ 1 \in Nat /\ (11 + i) + 1 <= 16 /\ (11 + i) + 1 = 12 + i
      OBVIOUS
    <2>2. (11 + i) + 1 <= Len(AF)
      BY <1>14, <2>1
    <2>3. s \in Seq(Byte) /\ Len(s) = 1 /\ \A j \in 1 .. 1 : s[j] = AF[(11 + i) + j]
      BY <1>14, <2>1, <2>2, SliceIs, Zenon
    <2>4. Slice(S, 11 + i, 1) = s
      BY <1>16, <2>1
    <2> HIDE DEF s
    <2>5. s[1] = F[i]
      BY <1>15, <2>1, <2>3
    <2>6. s = <<s[1]>>
      BY <2>3
    <2> QED
      BY <2>4, <2>5, <2>6
  <1>19. /\ Slice(S, 12, 1) = <<F[1]>> /\ Slice(S, 13, 1) = <<F[2]>>
         /\ Slice(S, 14, 1) = <<F[3]>> /\ Slice(S, 15, 1) = <<F[4]>>
    BY <1>18
  <1> QED
    BY <1>6, <1>7, <1>16, <1>17, <1>19 DEF A, B, C, D, E, P, HEADER_SIZE

\* What one byte stands for.
LEMMA OneByte ==
    ASSUME NEW x \in Byte
    PROVE  Number(<<x>>) = x
  <1>1. Len(<<x>>) = 1 /\ <<x>>[1] = x
    OBVIOUS
  <1> QED
    BY <1>1 DEF Number

\* The two directions of the codec fit together: deserialize reads from the
\* bytes serialize writes the message with every field, and only the instance
\* and the reliable flag are lost.
THEOREM CodecRoundTrip ==
    ASSUME NEW m, Sendable(m)
    PROVE  deserialize(serialize(m)) = <<Received(m)>>
  <1> DEFINE S == serialize(m)
             field(o, w) == Number(Slice(S, o, w))
  <1>1. m \in AnyMessage /\ m.protocol_version = 1
    BY DEF Sendable, SOMEIP_PROTOCOL_VERSION
  <1>2. /\ m.service_id \in Uint16 /\ m.method_id \in Uint16 /\ m.client_id \in Uint16
        /\ m.session_id \in Uint16 /\ m.protocol_version \in Byte
        /\ m.interface_version \in Byte /\ m.message_type \in Byte
        /\ m.return_code \in Byte /\ m.payload \in Seq(Byte)
    BY <1>1 DEF AnyMessage
  <1>3. Len(m.payload) \in Nat /\ Len(m.payload) < Huge
    <2>1. Len(m.payload) \in Nat
      BY <1>2, LenProperties
    <2>2. 16 + Len(m.payload) < Huge
      BY DEF Sendable, HEADER_SIZE
    <2>3. Huge \in Nat
      BY DEF Huge
    <2> QED
      BY <2>1, <2>2, <2>3
  <1>4. /\ field(0, 2) = m.service_id /\ field(2, 2) = m.method_id
        /\ field(8, 2) = m.client_id /\ field(10, 2) = m.session_id
    BY <1>1, <1>2, Layout, TwoBytes
  <1>5. field(4, 4) = Len(m.payload)
    <2>1. Slice(S, 4, 4) = Bytes(Len(m.payload), 4)
      BY <1>1, Layout, Zenon
    <2>2. Number(Bytes(Len(m.payload), 4)) = Len(m.payload)
      BY <1>3, FourBytes, Zenon
    <2> QED
      BY <2>1, <2>2, Zenon
  <1>6. /\ field(12, 1) = m.protocol_version /\ field(13, 1) = m.interface_version
        /\ field(14, 1) = m.message_type /\ field(15, 1) = m.return_code
    BY <1>1, <1>2, Layout, OneByte
  <1>7. Len(S) = HEADER_SIZE + Len(m.payload)
    BY <1>1, Layout
  <1>8. Slice(S, HEADER_SIZE, field(4, 4)) = m.payload
    BY <1>1, <1>5, Layout
  <1> DEFINE R == [service_id |-> field(0, 2), method_id |-> field(2, 2),
                   client_id |-> field(8, 2), session_id |-> field(10, 2),
                   protocol_version |-> field(12, 1),
                   interface_version |-> field(13, 1),
                   message_type |-> field(14, 1), return_code |-> field(15, 1),
                   instance_id |-> AnyInstance, reliable |-> FALSE,
                   payload |-> Slice(S, HEADER_SIZE, field(4, 4))]
  <1>9. deserialize(S) =
            IF \/ Len(S) < HEADER_SIZE \/ field(12, 1) # SOMEIP_PROTOCOL_VERSION
               \/ Len(S) < HEADER_SIZE + field(4, 4)
            THEN <<>> ELSE <<R>>
    BY DEF deserialize
  <1>10. R = Received(m)
    <2>1. R = [service_id |-> m.service_id, method_id |-> m.method_id,
               client_id |-> m.client_id, session_id |-> m.session_id,
               protocol_version |-> m.protocol_version,
               interface_version |-> m.interface_version,
               message_type |-> m.message_type, return_code |-> m.return_code,
               instance_id |-> AnyInstance, reliable |-> FALSE,
               payload |-> m.payload]
      BY <1>4, <1>6, <1>8
    <2>2. Received(m) =
              [service_id |-> m.service_id, method_id |-> m.method_id,
               client_id |-> m.client_id, session_id |-> m.session_id,
               protocol_version |-> m.protocol_version,
               interface_version |-> m.interface_version,
               message_type |-> m.message_type, return_code |-> m.return_code,
               instance_id |-> AnyInstance, reliable |-> FALSE,
               payload |-> m.payload]
      <3> HIDE DEF R
      <3> DEFINE M(x, y) ==
                     [service_id |-> m.service_id, method_id |-> m.method_id,
                      client_id |-> m.client_id, session_id |-> m.session_id,
                      protocol_version |-> m.protocol_version,
                      interface_version |-> m.interface_version,
                      message_type |-> m.message_type, return_code |-> m.return_code,
                      instance_id |-> x, reliable |-> y, payload |-> m.payload]
                 N(x, y) == [m EXCEPT !.instance_id = x, !.reliable = y]
      <3>1. ASSUME NEW x, NEW y PROVE N(x, y) = M(x, y)
        <4> DEFINE X == [m EXCEPT !.instance_id = x]
        <4>1. X = M(x, m.reliable)
          BY <1>1 DEF AnyMessage
        <4>2. [X EXCEPT !.reliable = y] = M(x, y)
          <5> HIDE DEF X
          <5> QED
            BY <4>1
        <4> QED
          BY <4>2
      <3> HIDE DEF M, N
      <3>2. N(AnyInstance, FALSE) = M(AnyInstance, FALSE)
        BY <3>1, Zenon
      <3> QED
        BY <3>2, Zenon DEF M, N, Received
    <2> QED
      BY <2>1, <2>2
  <1> HIDE DEF S, R, field
  <1>11. ~(Len(S) < HEADER_SIZE) /\ ~(Len(S) < HEADER_SIZE + field(4, 4))
    BY <1>3, <1>5, <1>7 DEF HEADER_SIZE
  <1>12. field(12, 1) = SOMEIP_PROTOCOL_VERSION
    BY <1>6, <1>1 DEF SOMEIP_PROTOCOL_VERSION
  <1> QED
    BY <1>9, <1>10, <1>11, <1>12 DEF S
\* deserialize makes a message of any bytes, or none.
LEMMA DeserializeType ==
    ASSUME NEW b \in Seq(Byte)
    PROVE  deserialize(b) \in Seq(AnyMessage)
  <1> DEFINE field(o, w) == Number(Slice(b, o, w))
             n == field(4, 4)
             Bad == \/ Len(b) < HEADER_SIZE \/ field(12, 1) # SOMEIP_PROTOCOL_VERSION
                    \/ Len(b) < HEADER_SIZE + n
             R == [service_id |-> field(0, 2), method_id |-> field(2, 2),
                   client_id |-> field(8, 2), session_id |-> field(10, 2),
                   protocol_version |-> field(12, 1),
                   interface_version |-> field(13, 1),
                   message_type |-> field(14, 1), return_code |-> field(15, 1),
                   instance_id |-> AnyInstance, reliable |-> FALSE,
                   payload |-> Slice(b, HEADER_SIZE, n)]
  <1>1. deserialize(b) = IF Bad THEN <<>> ELSE <<R>>
    BY DEF deserialize
  <1>2. CASE Bad
    <2>1. deserialize(b) = <<>>
      BY <1>1, <1>2
    <2> QED
      BY <2>1
  <1>3. CASE ~Bad
    <2>1. Len(b) \in Nat /\ ~(Len(b) < 16)
      BY <1>3, LenProperties DEF HEADER_SIZE
    <2> HIDE DEF field, n, R
    <2>2. \A o \in 0 .. 14 : field(o, 2) \in Uint16
      <3> TAKE o \in 0 .. 14
      <3>1. o \in Nat /\ 2 \in Nat /\ o + 2 <= Len(b)
        BY <2>1
      <3>2. Slice(b, o, 2) \in Seq(Byte) /\ Len(Slice(b, o, 2)) = 2
        BY <3>1, SliceIs, Zenon
      <3> QED
        BY <3>2, NumberType, Zenon DEF field
    <2>3. \A o \in 0 .. 15 : field(o, 1) \in Byte
      <3> TAKE o \in 0 .. 15
      <3>1. o \in Nat /\ 1 \in Nat /\ o + 1 <= Len(b)
        BY <2>1
      <3>2. Slice(b, o, 1) \in Seq(Byte) /\ Len(Slice(b, o, 1)) = 1
        BY <3>1, SliceIs, Zenon
      <3> QED
        BY <3>2, NumberType DEF field
    <2>4. n \in Nat
      <3>1. 4 \in Nat /\ 4 + 4 <= Len(b)
        BY <2>1
      <3>2. Slice(b, 4, 4) \in Seq(Byte) /\ Len(Slice(b, 4, 4)) = 4
        BY <3>1, SliceIs, Zenon
      <3> QED
        BY <3>2, NumberType, Zenon DEF field, n
    <2>5. Slice(b, HEADER_SIZE, n) \in Seq(Byte)
      <3>1. HEADER_SIZE \in Nat
        BY DEF HEADER_SIZE
      <3>2. HEADER_SIZE + n <= Len(b)
        BY <1>3, <2>1, <2>4, <3>1
      <3> QED
        BY <2>4, <3>1, <3>2, SliceIs, Zenon
    <2>6. AnyInstance \in Uint16
      BY SMT DEF AnyInstance, Uint16
    <2>7. /\ field(0, 2) \in Uint16 /\ field(2, 2) \in Uint16
          /\ field(8, 2) \in Uint16 /\ field(10, 2) \in Uint16
          /\ field(12, 1) \in Byte /\ field(13, 1) \in Byte
          /\ field(14, 1) \in Byte /\ field(15, 1) \in Byte
      BY <2>2, <2>3
    <2>8. FALSE \in BOOLEAN
      OBVIOUS
    <2>9. R \in AnyMessage
      BY <2>5, <2>6, <2>7, <2>8, Zenon DEF R, AnyMessage
    <2>10. deserialize(b) = <<R>>
      BY <1>1, <1>3, Zenon
    <2> QED
      BY <2>9, <2>10
  <1> QED
    BY <1>2, <1>3

\* A frame is the length of the message, in four bytes, and its bytes.
LEMMA FrameIs ==
    ASSUME NEW m, Sendable(m)
    PROVE  /\ serialize(m) \in Seq(Byte) /\ Len(serialize(m)) \in Nat
           /\ Len(serialize(m)) < Huge /\ Len(serialize(m)) >= 16
           /\ Frame(m) \in Seq(Byte) /\ Len(Frame(m)) = 4 + Len(serialize(m))
           /\ \A j \in 1 .. 4 : Frame(m)[j] = Bytes(Len(serialize(m)), 4)[j]
           /\ \A j \in 1 .. Len(serialize(m)) : Frame(m)[4 + j] = serialize(m)[j]
  <1> DEFINE d == serialize(m)
             b == Bytes(Len(d), 4)
  <1>1. m \in AnyMessage /\ HEADER_SIZE + Len(m.payload) < Huge
    BY DEF Sendable
  <1>2. d \in Seq(Byte) /\ Len(d) = HEADER_SIZE + Len(m.payload)
    BY <1>1, Layout
  <1>3. m.payload \in Seq(Byte)
    BY <1>1 DEF AnyMessage
  <1>4. Len(m.payload) \in Nat /\ Len(d) \in Nat
    BY <1>2, <1>3, LenProperties
  <1>5. Len(d) < Huge /\ Len(d) >= 16
    BY <1>1, <1>2, <1>4 DEF HEADER_SIZE
  <1>6. b \in Seq(Byte) /\ Len(b) = 4
    BY <1>4, BytesAre
  <1>7. Frame(m) = b \o d
    BY DEF Frame, PrefixSize
  <1> HIDE DEF b, d
  <1>8. /\ b \o d \in Seq(Byte) /\ Len(b \o d) = 4 + Len(d)
        /\ \A i \in 1 .. 4 + Len(d) : (b \o d)[i] = IF i <= 4 THEN b[i] ELSE d[i - 4]
    <2>1. /\ b \o d \in Seq(Byte) /\ Len(b \o d) = Len(b) + Len(d)
          /\ \A i \in 1 .. Len(b) + Len(d) :
                (b \o d)[i] = IF i <= Len(b) THEN b[i] ELSE d[i - Len(b)]
      BY <1>2, <1>6, Concat, Zenon
    <2> QED
      BY <1>6, <2>1, Zenon
  <1>9. \A j \in 1 .. 4 : j \in 1 .. 4 + Len(d) /\ j <= 4
    BY <1>4
  <1>10. \A j \in 1 .. Len(d) : 4 + j \in 1 .. 4 + Len(d) /\ ~(4 + j <= 4) /\ (4 + j) - 4 = j
    BY <1>4
  <1>11. \A j \in 1 .. 4 : (b \o d)[j] = b[j]
    BY <1>8, <1>9
  <1>12. \A j \in 1 .. Len(d) : (b \o d)[4 + j] = d[j]
    BY <1>8, <1>10
  <1> QED
    BY <1>2, <1>4, <1>5, <1>7, <1>8, <1>11, <1>12 DEF b, d

\* Who reads the first four bytes of a frame gets the length of the message.
LEMMA PrefixIs ==
    ASSUME NEW m, Sendable(m), NEW s \in Seq(Byte), Len(s) >= 4,
           \A j \in 1 .. 4 : s[j] = Frame(m)[j]
    PROVE  Number(SubSeq(s, 1, PrefixSize)) = Len(serialize(m))
  <1> DEFINE n == Len(serialize(m))
             t == SubSeq(s, 1, 4)
  <1>1. n \in Nat /\ n < Huge /\ \A j \in 1 .. 4 : Frame(m)[j] = Bytes(n, 4)[j]
    BY FrameIs
  <1>2. Bytes(n, 4) \in Seq(Byte) /\ Len(Bytes(n, 4)) = 4
    BY <1>1, BytesAre
  <1>3. Len(s) \in Nat
    BY LenProperties
  <1>4. \A i \in 1 .. 4 : s[i] \in Byte
    BY <1>3, LenProperties
  <1>5. t \in Seq(Byte) /\ Len(t) = 4 /\ \A i \in 1 .. 4 : t[i] = s[i]
    <2>1. /\ t \in Seq(Byte) /\ Len(t) = IF 1 <= 4 THEN 4 - 1 + 1 ELSE 0
          /\ \A i \in 1 .. 4 - 1 + 1 : t[i] = s[1 + i - 1]
      BY <1>4, SubSeqProperties
    <2>2. \A i \in 1 .. 4 : i \in 1 .. 4 - 1 + 1 /\ 1 + i - 1 = i
      OBVIOUS
    <2> HIDE DEF t
    <2> QED
      BY <2>1, <2>2
  <1> HIDE DEF n, t
  <1>6. t = Bytes(n, 4)
    <2>1. \A i \in 1 .. 4 : t[i] = Bytes(n, 4)[i]
      BY <1>1, <1>5
    <2>2. Len(t) = Len(Bytes(n, 4)) /\ \A i \in 1 .. Len(t) : t[i] = Bytes(n, 4)[i]
      BY <1>2, <1>5, <2>1
    <2> QED
      BY <1>2, <1>5, <2>2, SeqEqual, Zenon
  <1>7. Number(t) = n
    BY <1>1, <1>6, FourBytes
  <1> QED
    BY <1>7 DEF n, t, PrefixSize
-----------------------------------------------------------------------------
(* Where the frames lie.                                                   *)

\* The first w messages of sn lie in the stream st as frames one behind the
\* other, the i-th behind position at[i]; positions count from what is unread,
\* so that of what was read they are negative.
Track(at, w, sn, st) ==
    /\ at \in [1 .. w + 1 -> Int]
    /\ \A i \in 1 .. w : at[i + 1] = at[i] + Len(Frame(sn[i].message))
    /\ \A i \in 1 .. w + 1 : at[i] <= Len(st)
    /\ \A i \in 1 .. w : \A j \in 1 .. Len(Frame(sn[i].message)) :
          at[i] + j >= 1 => st[at[i] + j] = Frame(sn[i].message)[j]

\* sn holds w messages that can be sent.
AllSendable(sn, w) == \A i \in 1 .. w : Sendable(sn[i].message)

\* The end of a frame is within the stream.
LEMMA TrackWithin ==
    ASSUME NEW w \in Nat, NEW sn, AllSendable(sn, w), NEW st \in Seq(Byte), NEW at,
           Track(at, w, sn, st), NEW i \in 1 .. w
    PROVE  /\ at[i] \in Int /\ Len(Frame(sn[i].message)) \in Nat
           /\ at[i] + Len(Frame(sn[i].message)) <= Len(st)
  <1>1. i \in 1 .. w + 1 /\ i + 1 \in 1 .. w + 1
    OBVIOUS
  <1>2. at[i] \in Int /\ at[i + 1] <= Len(st)
    BY <1>1 DEF Track
  <1>3. at[i + 1] = at[i] + Len(Frame(sn[i].message))
    BY DEF Track
  <1>4. Sendable(sn[i].message)
    BY DEF AllSendable
  <1>5. Len(Frame(sn[i].message)) \in Nat
    BY <1>4, FrameIs, LenProperties
  <1> QED
    BY <1>2, <1>3, <1>5

\* Who reads n bytes moves everything by n.
LEMMA TrackRead ==
    ASSUME NEW w \in Nat, NEW sn, AllSendable(sn, w), NEW st \in Seq(Byte), NEW at,
           Track(at, w, sn, st), NEW n \in 1 .. Len(st)
    PROVE  /\ Track([i \in 1 .. w + 1 |-> at[i] - n], w, sn, SubSeq(st, n + 1, Len(st)))
           /\ SubSeq(st, n + 1, Len(st)) \in Seq(Byte)
           /\ Len(SubSeq(st, n + 1, Len(st))) = Len(st) - n
  <1> DEFINE L == Len(st)
             t == SubSeq(st, n + 1, L)
             b == [i \in 1 .. w + 1 |-> at[i] - n]
  <1>1. L \in Nat
    BY LenProperties
  <1>2. n + 1 \in Int /\ L \in Int /\ n \in Nat
    BY <1>1
  <1>3. \A i \in n + 1 .. L : st[i] \in Byte
    BY <1>1, LenProperties
  <1>4. /\ t \in Seq(Byte) /\ Len(t) = IF n + 1 <= L THEN L - (n + 1) + 1 ELSE 0
        /\ \A i \in 1 .. L - (n + 1) + 1 : t[i] = st[(n + 1) + i - 1]
    <2> HIDE DEF L
    <2> QED
      BY <1>2, <1>3, SubSeqProperties
  <1>5. L - (n + 1) + 1 = L - n /\ \A i \in 1 .. L - n : (n + 1) + i - 1 = n + i
    BY <1>1
  <1>6. (IF n + 1 <= L THEN L - (n + 1) + 1 ELSE 0) = L - n
    BY <1>1
  <1> HIDE DEF t
  <1>7. Len(t) = L - n /\ \A i \in 1 .. L - n : t[i] = st[n + i]
    BY <1>4, <1>5, <1>6
  <1>8. at \in [1 .. w + 1 -> Int] /\ \A i \in 1 .. w + 1 : at[i] \in Int /\ at[i] <= L
    BY DEF Track
  <1>9. \A i \in 1 .. w + 1 : b[i] = at[i] - n /\ b[i] \in Int
    BY <1>8
  <1>10. b \in [1 .. w + 1 -> Int]
    BY <1>8
  <1> HIDE DEF b, L
  <1>11. \A i \in 1 .. w : b[i + 1] = b[i] + Len(Frame(sn[i].message))
    <2> TAKE i \in 1 .. w
    <2>1. i \in 1 .. w + 1 /\ i + 1 \in 1 .. w + 1
      OBVIOUS
    <2>2. at[i + 1] = at[i] + Len(Frame(sn[i].message)) /\ Len(Frame(sn[i].message)) \in Nat
      BY TrackWithin DEF Track
    <2> QED
      BY <1>2, <1>8, <1>9, <2>1, <2>2
  <1>12. \A i \in 1 .. w + 1 : b[i] <= Len(t)
    BY <1>2, <1>7, <1>8, <1>9
  <1>13. ASSUME NEW i \in 1 .. w, NEW j \in 1 .. Len(Frame(sn[i].message)), b[i] + j >= 1
         PROVE  t[b[i] + j] = Frame(sn[i].message)[j]
    <2> DEFINE f == Len(Frame(sn[i].message))
    <2>1. i \in 1 .. w + 1
      OBVIOUS
    <2>2. at[i] \in Int /\ f \in Nat /\ at[i] + f <= L
      BY TrackWithin DEF L
    <2>3. st[at[i] + j] = Frame(sn[i].message)[j] \/ ~(at[i] + j >= 1)
      BY DEF Track
    <2>4. b[i] = at[i] - n
      BY <1>9, <2>1
    <2> HIDE DEF f
    <2>5. j \in 1 .. f
      BY DEF f
    <2>6. b[i] + j \in 1 .. L - n /\ n + (b[i] + j) = at[i] + j /\ at[i] + j >= 1
      <3>1. \A a, x, y, z, q \in Int :
                q \in 1 .. x /\ a + x <= y /\ (a - z) + q >= 1 /\ z >= 0 =>
                    (a - z) + q \in 1 .. y - z /\ z + ((a - z) + q) = a + q /\ a + q >= 1
        OBVIOUS
      <3>2. n \in Int /\ n >= 0 /\ f \in Int /\ j \in Int
        BY <1>2, <2>2
      <3>3. (at[i] - n) + j >= 1
        BY <1>13, <2>4, Zenon
      <3>4. /\ (at[i] - n) + j \in 1 .. L - n /\ n + ((at[i] - n) + j) = at[i] + j
            /\ at[i] + j >= 1
        BY <1>2, <2>2, <2>5, <3>1, <3>2, <3>3, Zenon
      <3> QED
        BY <2>4, <3>4, Zenon
    <2> QED
      BY <1>7, <2>3, <2>6
  <1>14. Track(b, w, sn, t)
    BY <1>10, <1>11, <1>12, <1>13 DEF Track
  <1> QED
    BY <1>4, <1>7, <1>14 DEF b, t, L

\* What is written behind the stream moves nothing.
LEMMA TrackGrows ==
    ASSUME NEW w \in Nat, NEW sn, AllSendable(sn, w), NEW st \in Seq(Byte), NEW at,
           Track(at, w, sn, st), NEW t \in Seq(Byte), NEW ss,
           \A i \in 1 .. w : ss[i] = sn[i]
    PROVE  Track(at, w, ss, st \o t)
  <1>1. Len(st) \in Nat /\ Len(t) \in Nat
    BY LenProperties
  <1>2. /\ st \o t \in Seq(Byte) /\ Len(st \o t) = Len(st) + Len(t)
        /\ \A i \in 1 .. Len(st) + Len(t) :
              (st \o t)[i] = IF i <= Len(st) THEN st[i] ELSE t[i - Len(st)]
    BY Concat
  <1>3. at \in [1 .. w + 1 -> Int]
    BY DEF Track
  <1>4. \A i \in 1 .. w : at[i + 1] = at[i] + Len(Frame(ss[i].message))
    BY DEF Track
  <1>5. \A i \in 1 .. w + 1 : at[i] <= Len(st \o t)
    <2>1. \A i \in 1 .. w + 1 : at[i] \in Int /\ at[i] <= Len(st)
      BY DEF Track
    <2> QED
      BY <1>1, <1>2, <2>1
  <1>6. ASSUME NEW i \in 1 .. w, NEW j \in 1 .. Len(Frame(ss[i].message)), at[i] + j >= 1
        PROVE  (st \o t)[at[i] + j] = Frame(ss[i].message)[j]
    <2> DEFINE f == Len(Frame(sn[i].message))
    <2>1. ss[i] = sn[i]
      OBVIOUS
    <2>2. at[i] \in Int /\ f \in Nat /\ at[i] + f <= Len(st)
      BY TrackWithin
    <2>3. j \in 1 .. f
      BY <2>1
    <2>4. st[at[i] + j] = Frame(ss[i].message)[j]
      BY <1>6, <2>1, <2>3 DEF Track
    <2> HIDE DEF f
    <2>5. at[i] + j \in 1 .. Len(st) + Len(t) /\ at[i] + j <= Len(st)
      BY <1>1, <1>6, <2>2, <2>3
    <2> QED
      BY <1>2, <2>4, <2>5
  <1> QED
    BY <1>3, <1>4, <1>5, <1>6 DEF Track
\* The stream st holds one frame more, to its end.
Prolonged(at, w, ss, st) ==
    \E b : /\ Track(b, w + 1, ss, st)
           /\ \A i \in 1 .. w + 1 : b[i] = at[i]
           /\ b[(w + 1) + 1] = Len(st)

\* A whole frame behind the last one.
LEMMA TrackSend ==
    ASSUME NEW w \in Nat, NEW sn, AllSendable(sn, w), NEW st \in Seq(Byte), NEW at,
           Track(at, w, sn, st), at[w + 1] = Len(st), NEW ss,
           \A i \in 1 .. w : ss[i] = sn[i], Sendable(ss[w + 1].message)
    PROVE  Prolonged(at, w, ss, st \o Frame(ss[w + 1].message))
  <1> DEFINE fr == Frame(ss[w + 1].message)
             f == Len(fr)
             L == Len(st)
             t == st \o fr
             b == [i \in 1 .. (w + 1) + 1 |-> IF i <= w + 1 THEN at[i] ELSE L + f]
  <1>1. L \in Nat
    BY LenProperties
  <1>2. fr \in Seq(Byte) /\ f \in Nat
    BY FrameIs, LenProperties
  <1>3. /\ t \in Seq(Byte) /\ Len(t) = L + f
        /\ \A i \in 1 .. L + f : t[i] = IF i <= L THEN st[i] ELSE fr[i - L]
    <2> HIDE DEF fr
    <2> QED
      BY <1>2, Concat
  <1>4. Track(at, w, ss, t)
    <2> HIDE DEF fr
    <2> QED
      BY <1>2, TrackGrows
  <1>5. \A i \in 1 .. w + 1 : at[i] \in Int
    BY DEF Track
  <1>6. \A i \in 1 .. w + 1 : i \in 1 .. (w + 1) + 1 /\ i <= w + 1
    OBVIOUS
  <1>7. (w + 1) + 1 \in 1 .. (w + 1) + 1 /\ ~((w + 1) + 1 <= w + 1) /\ w + 1 \in 1 .. w + 1
    OBVIOUS
  <1> HIDE DEF L, fr, f, t
  <1>8. (\A i \in 1 .. w + 1 : b[i] = at[i]) /\ b[(w + 1) + 1] = L + f
    BY <1>6, <1>7
  <1>9. \A i \in 1 .. (w + 1) + 1 : i \in 1 .. w + 1 \/ i = (w + 1) + 1
    OBVIOUS
  <1>10. L + f \in Int
    BY <1>1, <1>2
  <1>11. b \in [1 .. (w + 1) + 1 -> Int]
    BY <1>5, <1>9, <1>10
  <1> HIDE DEF b
  <1>12. \A i \in 1 .. w + 1 : i \in 1 .. w \/ i = w + 1
    OBVIOUS
  <1>13. ASSUME NEW i \in 1 .. w + 1 PROVE b[i + 1] = b[i] + Len(Frame(ss[i].message))
    <2>1. CASE i \in 1 .. w
      <3>1. i + 1 \in 1 .. w + 1
        BY <2>1
      <3>2. at[i + 1] = at[i] + Len(Frame(ss[i].message))
        BY <1>4, <2>1 DEF Track
      <3> QED
        BY <1>8, <3>1, <3>2
    <2>2. CASE i = w + 1
      <3>1. b[i] = L
        BY <1>7, <1>8, <2>2 DEF L
      <3>2. Len(Frame(ss[i].message)) = f
        BY <2>2 DEF f, fr
      <3> QED
        BY <1>8, <2>2, <3>1, <3>2
    <2> QED
      BY <1>12, <2>1, <2>2
  <1>14. ASSUME NEW i \in 1 .. (w + 1) + 1 PROVE b[i] <= Len(t)
    <2>1. CASE i \in 1 .. w + 1
      <3>1. at[i] <= Len(t)
        BY <1>4, <2>1 DEF Track
      <3> QED
        BY <1>8, <2>1, <3>1
    <2>2. CASE i = (w + 1) + 1
      BY <1>3, <1>8, <1>10, <2>2
    <2> QED
      BY <1>9, <2>1, <2>2
  <1>15. ASSUME NEW i \in 1 .. w + 1, NEW j \in 1 .. Len(Frame(ss[i].message)), b[i] + j >= 1
         PROVE  t[b[i] + j] = Frame(ss[i].message)[j]
    <2>1. CASE i \in 1 .. w
      <3>1. b[i] = at[i]
        BY <1>8
      <3>2. at[i] + j >= 1
        BY <1>15, <3>1
      <3>3. t[at[i] + j] = Frame(ss[i].message)[j]
        BY <1>4, <2>1, <3>2 DEF Track
      <3> QED
        BY <3>1, <3>3
    <2>2. CASE i = w + 1
      <3>1. b[i] = L /\ Frame(ss[i].message) = fr
        BY <1>7, <1>8, <2>2 DEF L, fr
      <3>2. j \in 1 .. f
        BY <3>1 DEF f
      <3>3. L + j \in 1 .. L + f /\ ~(L + j <= L) /\ (L + j) - L = j
        BY <1>1, <1>2, <3>2
      <3> QED
        BY <1>3, <3>1, <3>3
    <2> QED
      BY <1>12, <2>1, <2>2
  <1>16. Track(b, w + 1, ss, t)
    BY <1>11, <1>13, <1>14, <1>15 DEF Track
  <1>17. /\ Track(b, w + 1, ss, t) /\ \A i \in 1 .. w + 1 : b[i] = at[i]
         /\ b[(w + 1) + 1] = Len(t)
    BY <1>3, <1>8, <1>16
  <1> QED
    BY <1>17 DEF Prolonged, t, fr

-----------------------------------------------------------------------------
(* The inductive invariant.                                                *)

Types ==
    /\ running \in BOOLEAN /\ lost \in BOOLEAN
    /\ stream \in Seq(Byte) /\ buffer \in Seq(Byte)
    /\ sent \in Seq(Outgoing) /\ Len(sent) <= MaxSends
    /\ short \in 0 .. Len(sent)
    /\ delivered \in Seq(AnyMessage)
    /\ msg_length \in {None} \cup 0 .. MaxMessageSize
    /\ IF msg_length = None THEN buffer = <<>> ELSE Len(buffer) <= msg_length
    /\ heard \in {Silence} \cup [built : Datagrams, parsed : {heard.parsed}]

\* The receive thread is still in front of the first short write.
InFront == running /\ (short = 0 \/ Len(delivered) < Whole)

\* It stands before the next frame, or in the middle of it with its length and
\* what was read of it.
Place(at) ==
    LET k == Len(delivered) + 1 IN
    /\ Len(delivered) <= Whole
    /\ short = 0 => at[Whole + 1] = Len(stream)
    /\ IF msg_length = None THEN at[k] = 0
       ELSE /\ k <= Whole /\ at[k] = 0 - (4 + Len(buffer))
            /\ msg_length = Len(serialize(sent[k].message))
            /\ \A j \in 1 .. Len(buffer) : buffer[j] = serialize(sent[k].message)[j]

InStep == InFront => \E at : Track(at, Whole, sent, stream) /\ Place(at)

IInv == Types /\ FramesIntact /\ FittingIsDelivered /\ InStep

\* What the types give.
LEMMA Basics ==
    ASSUME Types
    PROVE  /\ Len(stream) \in Nat /\ Len(buffer) \in Nat /\ Len(delivered) \in Nat
           /\ Len(sent) \in Nat /\ Whole \in Nat /\ Whole <= Len(sent)
           /\ short = 0 => Whole = Len(sent)
           /\ short # 0 => Whole = short - 1 /\ Whole < Len(sent)
           /\ \A i \in 1 .. Len(sent) : sent[i] \in Outgoing /\ Sendable(sent[i].message)
           /\ AllSendable(sent, Whole)
  <1>1. /\ Len(stream) \in Nat /\ Len(buffer) \in Nat /\ Len(delivered) \in Nat
        /\ Len(sent) \in Nat
    BY LenProperties DEF Types
  <1>2. short \in 0 .. Len(sent)
    BY DEF Types
  <1>3. /\ Whole \in Nat /\ Whole <= Len(sent)
        /\ short = 0 => Whole = Len(sent)
        /\ short # 0 => Whole = short - 1 /\ Whole < Len(sent)
    BY <1>1, <1>2 DEF Whole
  <1>4. \A i \in 1 .. Len(sent) : sent[i] \in Outgoing
    BY LenProperties DEF Types
  <1>5. \A i \in 1 .. Len(sent) : Sendable(sent[i].message)
    BY <1>4, WireAssumption
  <1>6. \A i \in 1 .. Whole : i \in 1 .. Len(sent)
    BY <1>1, <1>3
  <1>7. AllSendable(sent, Whole)
    BY <1>5, <1>6 DEF AllSendable
  <1> QED
    BY <1>1, <1>3, <1>4, <1>5, <1>7

\* One more message was sent, whole or in part.
LEMMA OneMore ==
    ASSUME Types, NEW o \in Outgoing, sent' = Append(sent, o)
    PROVE  /\ sent' \in Seq(Outgoing) /\ Len(sent') = Len(sent) + 1
           /\ \A i \in 1 .. Len(sent) : sent'[i] = sent[i]
           /\ sent'[Len(sent) + 1] = o
  <1>1. sent \in Seq(Outgoing)
    BY DEF Types
  <1> QED
    BY <1>1, AppendProperties

\* The receive thread has what it had.
LEMMA TypesSend ==
    ASSUME Types, NEW o \in Outgoing, running, Len(sent) < MaxSends,
           sent' = Append(sent, o), NEW t \in Seq(Byte), stream' = stream \o t,
           short' \in 0 .. Len(sent) + 1,
           UNCHANGED <<running, lost, msg_length, buffer, delivered, heard>>
    PROVE  Types'
  <1>1. sent' \in Seq(Outgoing) /\ Len(sent') = Len(sent) + 1 /\ Len(sent) \in Nat
    BY OneMore, Basics
  <1>2. stream' \in Seq(Byte)
    BY Concat DEF Types
  <1>3. Len(sent') <= MaxSends
    BY <1>1, WireAssumption
  <1>4. short' \in 0 .. Len(sent')
    BY <1>1
  <1> QED
    BY <1>1, <1>2, <1>3, <1>4 DEF Types

\* Behind a short write nothing changes for the frames in front of it.
LEMMA Behind ==
    ASSUME Types, InStep, InFront, NEW o \in Outgoing, sent' = Append(sent, o),
           NEW t \in Seq(Byte), stream' = stream \o t, Whole' = Whole, short' # 0,
           msg_length' = msg_length, buffer' = buffer, delivered' = delivered
    PROVE  \E at : Track(at, Whole', sent', stream') /\ Place(at)'
  <1>1. /\ Len(delivered) \in Nat /\ Len(sent) \in Nat /\ Whole \in Nat
        /\ Whole <= Len(sent) /\ AllSendable(sent, Whole)
    BY Basics
  <1>2. \A i \in 1 .. Whole : sent'[i] = sent[i]
    BY <1>1, OneMore
  <1>3. PICK at : Track(at, Whole, sent, stream) /\ Place(at)
    BY DEF InStep
  <1>4. stream \in Seq(Byte)
    BY DEF Types
  <1>5. Track(at, Whole, sent', stream')
    BY <1>1, <1>2, <1>3, <1>4, TrackGrows
  <1>6. Place(at)'
    <2>1. CASE msg_length = None
      BY <1>3, <2>1 DEF Place
    <2>2. CASE msg_length # None
      <3> DEFINE k == Len(delivered) + 1
      <3>1. /\ Len(delivered) <= Whole /\ k <= Whole /\ at[k] = 0 - (4 + Len(buffer))
            /\ msg_length = Len(serialize(sent[k].message))
            /\ \A j \in 1 .. Len(buffer) : buffer[j] = serialize(sent[k].message)[j]
        BY <1>3, <2>2 DEF Place
      <3>2. k \in 1 .. Whole
        BY <1>1, <3>1
      <3>3. sent'[k] = sent[k]
        BY <1>2, <3>2
      <3> QED
        BY <2>2, <3>1, <3>3 DEF Place
    <2> QED
      BY <2>1, <2>2
  <1> QED
    BY <1>5, <1>6

\* A whole frame is written.
LEMMA SendStep ==
    ASSUME IInv, NEW o \in Outgoing, Send(o)
    PROVE  IInv'
  <1> DEFINE fr == Frame(o.message)
             n == Len(sent)
  <1>1. Types /\ FramesIntact /\ InStep
    BY DEF IInv
  <1>2. /\ running /\ n < MaxSends /\ stream' = stream \o fr /\ sent' = Append(sent, o)
        /\ running' = running /\ lost' = lost /\ short' = short /\ msg_length' = msg_length
        /\ buffer' = buffer /\ delivered' = delivered /\ heard' = heard
    BY DEF Send
  <1>3. Sendable(o.message)
    BY WireAssumption
  <1>4. fr \in Seq(Byte)
    BY <1>3, FrameIs
  <1>5. /\ Len(delivered) \in Nat /\ n \in Nat /\ Whole \in Nat /\ Whole <= n
        /\ short = 0 => Whole = n
        /\ AllSendable(sent, Whole) /\ Len(stream) \in Nat
    BY <1>1, Basics
  <1>6. /\ sent' \in Seq(Outgoing) /\ Len(sent') = n + 1
        /\ (\A i \in 1 .. n : sent'[i] = sent[i]) /\ sent'[n + 1] = o
    BY <1>1, <1>2, OneMore
  <1>7. Types'
    <2>1. short' \in 0 .. Len(sent) + 1
      BY <1>1, <1>2, <1>5 DEF Types
    <2> HIDE DEF fr
    <2> QED
      BY <1>1, <1>2, <1>4, <2>1, TypesSend
  <1>8. Whole' = IF short = 0 THEN Whole + 1 ELSE Whole
    BY <1>2, <1>5, <1>6 DEF Whole
  <1>9. \A i \in 1 .. Whole : sent'[i] = sent[i]
    BY <1>5, <1>6
  <1>10. DOMAIN delivered = 1 .. Len(delivered)
    BY <1>1, LenProperties DEF Types
  <1>11. FramesIntact'
    <2>1. short' = 0 => Len(delivered') <= Len(sent')
      BY <1>1, <1>2, <1>5, <1>6 DEF FramesIntact
    <2>2. ASSUME NEW i \in DOMAIN delivered', i <= Whole'
          PROVE  delivered'[i] = Received(sent'[i].message)
      <3>1. i \in 1 .. Len(delivered) /\ i \in DOMAIN delivered
        BY <1>2, <1>10
      <3>2. i <= Whole
        <4>1. CASE short = 0
          <5>1. Len(delivered) <= n
            BY <1>1, <4>1 DEF FramesIntact
          <5> QED
            BY <1>5, <3>1, <4>1, <5>1
        <4>2. CASE short # 0
          BY <1>8, <2>2, <4>2
        <4> QED
          BY <4>1, <4>2
      <3>3. delivered[i] = Received(sent[i].message)
        BY <1>1, <3>1, <3>2 DEF FramesIntact
      <3>4. sent'[i] = sent[i]
        BY <1>5, <1>9, <3>1, <3>2
      <3> QED
        BY <1>2, <3>3, <3>4
    <2> QED
      BY <2>1, <2>2 DEF FramesIntact
  <1>12. FittingIsDelivered'
    BY <1>2 DEF FittingIsDelivered
  <1>13. InStep'
    <2> SUFFICES ASSUME InFront'
                 PROVE  \E at : Track(at, Whole', sent', stream') /\ Place(at)'
      BY DEF InStep
    <2>1. InFront
      <3>1. CASE short = 0
        BY <1>2, <3>1 DEF InFront
      <3>2. CASE short # 0
        BY <1>2, <1>8, <3>2 DEF InFront
      <3> QED
        BY <3>1, <3>2
    <2>2. PICK at : Track(at, Whole, sent, stream) /\ Place(at)
      BY <1>1, <2>1 DEF InStep
    <2>3. stream \in Seq(Byte)
      BY <1>1 DEF Types
    <2> HIDE DEF fr
    <2>4. CASE short = 0
      <3>1. at[Whole + 1] = Len(stream) /\ Whole = n /\ Len(delivered) <= Whole
        BY <1>5, <2>2, <2>4 DEF Place
      <3>2. sent'[Whole + 1] = o
        BY <1>6, <3>1
      <3>3. Sendable(sent'[Whole + 1].message)
        BY <1>3, <3>2
      <3>4. Prolonged(at, Whole, sent', stream \o Frame(sent'[Whole + 1].message))
        BY <1>5, <1>9, <2>2, <2>3, <3>1, <3>3, TrackSend, Zenon
      <3>5. stream' = stream \o Frame(sent'[Whole + 1].message)
        BY <1>2, <3>2 DEF fr
      <3> PICK b : /\ Track(b, Whole + 1, sent', stream')
                   /\ \A i \in 1 .. Whole + 1 : b[i] = at[i]
                   /\ b[(Whole + 1) + 1] = Len(stream')
        BY <3>4, <3>5, Zenon DEF Prolonged
      <3>6. Whole' = Whole + 1
        BY <1>8, <2>4
      <3>7. Track(b, Whole', sent', stream')
        BY <3>6
      <3>8. b[Whole' + 1] = Len(stream')
        BY <3>6
      <3>9. Len(delivered) + 1 \in 1 .. Whole + 1
        BY <1>5, <3>1
      <3>10. b[Len(delivered) + 1] = at[Len(delivered) + 1]
        BY <3>9
      <3>11. Len(delivered') <= Whole'
        BY <1>2, <1>5, <3>1, <3>6
      <3>12. CASE msg_length = None
        <4>1. at[Len(delivered) + 1] = 0
          BY <2>2, <3>12 DEF Place
        <4> QED
          BY <1>2, <3>7, <3>8, <3>10, <3>11, <3>12, <4>1 DEF Place
      <3>13. CASE msg_length # None
        <4> DEFINE k == Len(delivered) + 1
        <4>1. /\ k <= Whole /\ at[k] = 0 - (4 + Len(buffer))
              /\ msg_length = Len(serialize(sent[k].message))
              /\ \A j \in 1 .. Len(buffer) : buffer[j] = serialize(sent[k].message)[j]
          BY <2>2, <3>13 DEF Place
        <4>2. k \in 1 .. Whole /\ k <= Whole'
          BY <1>5, <3>6, <4>1
        <4>3. sent'[k] = sent[k]
          BY <1>9, <4>2
        <4> QED
          BY <1>2, <3>7, <3>8, <3>10, <3>11, <3>13, <4>1, <4>2, <4>3 DEF Place
      <3> QED
        BY <3>12, <3>13
    <2>5. CASE short # 0
      <3>1. Whole' = Whole /\ short' # 0
        BY <1>2, <1>8, <2>5
      <3> QED
        BY <1>1, <1>2, <1>4, <2>1, <3>1, Behind
    <2> QED
      BY <2>4, <2>5
  <1> QED
    BY <1>7, <1>11, <1>12, <1>13 DEF IInv
\* A part of a frame is written.
LEMMA SendShortStep ==
    ASSUME IInv, NEW o \in Outgoing, NEW cut \in Cuts, SendShort(o, cut)
    PROVE  IInv'
  <1> DEFINE fr == Frame(o.message)
             t == SubSeq(fr, 1, cut)
             n == Len(sent)
  <1>1. Types /\ FramesIntact /\ InStep
    BY DEF IInv
  <1>2. /\ running /\ n < MaxSends /\ cut < Len(fr) /\ stream' = stream \o t
        /\ sent' = Append(sent, o) /\ short' = IF short = 0 THEN n + 1 ELSE short
        /\ running' = running /\ lost' = lost /\ msg_length' = msg_length
        /\ buffer' = buffer /\ delivered' = delivered /\ heard' = heard
    BY DEF SendShort
  <1>3. Sendable(o.message) /\ cut \in Nat
    BY WireAssumption
  <1>4. fr \in Seq(Byte)
    BY <1>3, FrameIs
  <1>5. t \in Seq(Byte)
    <2> HIDE DEF fr
    <2>1. 1 \in Int /\ cut \in Int /\ Len(fr) \in Nat
      BY <1>3, <1>4, LenProperties
    <2>2. \A i \in 1 .. cut : i \in 1 .. Len(fr)
      BY <1>2, <2>1
    <2>3. \A i \in 1 .. cut : fr[i] \in Byte
      BY <1>4, <2>2, LenProperties
    <2> QED
      BY <2>1, <2>3, SubSeqProperties
  <1>6. /\ Len(delivered) \in Nat /\ n \in Nat /\ Whole \in Nat /\ Whole <= n
        /\ short = 0 => Whole = n
        /\ short # 0 => Whole = short - 1
    BY <1>1, Basics
  <1>7. \A i \in 1 .. Whole : sent'[i] = sent[i]
    BY <1>1, <1>2, <1>6, OneMore
  <1>8. short \in 0 .. n
    BY <1>1 DEF Types
  <1>9. short' \in 0 .. n + 1 /\ short' # 0
    <2>1. short' = IF short = 0 THEN n + 1 ELSE short
      BY <1>2
    <2> HIDE DEF n
    <2> QED
      BY <1>6, <1>8, <2>1
  <1>10. Whole' = Whole
    BY <1>2, <1>6, <1>8 DEF Whole
  <1> HIDE DEF t
  <1>11. Types'
    BY <1>1, <1>2, <1>5, <1>9, TypesSend
  <1>12. FramesIntact'
    <2>1. ASSUME NEW i \in DOMAIN delivered', i <= Whole'
          PROVE  delivered'[i] = Received(sent'[i].message)
      <3>1. i \in DOMAIN delivered /\ i <= Whole
        BY <1>2, <1>10, <2>1
      <3>2. delivered[i] = Received(sent[i].message)
        BY <1>1, <3>1 DEF FramesIntact
      <3>3. DOMAIN delivered = 1 .. Len(delivered)
        BY <1>1, LenProperties DEF Types
      <3>4. i \in 1 .. Whole
        BY <1>6, <3>1, <3>3
      <3> QED
        BY <1>2, <1>7, <3>2, <3>4
    <2> QED
      BY <1>9, <2>1 DEF FramesIntact
  <1>13. FittingIsDelivered'
    BY <1>2 DEF FittingIsDelivered
  <1>14. InStep'
    <2> SUFFICES ASSUME InFront'
                 PROVE  \E at : Track(at, Whole', sent', stream') /\ Place(at)'
      BY DEF InStep
    <2>1. Len(delivered) < Whole
      BY <1>2, <1>9, <1>10 DEF InFront
    <2>2. InFront
      BY <1>2, <2>1 DEF InFront
    <2> QED
      BY <1>1, <1>2, <1>5, <1>9, <1>10, <2>2, Behind
  <1> QED
    BY <1>11, <1>12, <1>13, <1>14 DEF IInv
\* Nothing of the sender's changes, and nothing is delivered.
LEMMA IntactKept ==
    ASSUME FramesIntact, sent' = sent, short' = short, delivered' = delivered
    PROVE  FramesIntact'
  BY DEF FramesIntact, Whole

\* The prefix of the next frame is read.
LEMMA ReadLengthStep ==
    ASSUME IInv, ReadLength
    PROVE  IInv'
  <1> DEFINE n == Number(SubSeq(stream, 1, PrefixSize))
             k == Len(delivered) + 1
             m == sent[k].message
  <1>1. Types /\ FramesIntact /\ InStep
    BY DEF IInv
  <1>2. /\ running /\ msg_length = None /\ Len(stream) >= 4
        /\ stream' = SubSeq(stream, 4 + 1, Len(stream))
        /\ running' = ~TooLong(n) /\ msg_length' = IF TooLong(n) THEN None ELSE n
        /\ sent' = sent /\ short' = short /\ lost' = lost
        /\ buffer' = buffer /\ delivered' = delivered /\ heard' = heard
    BY DEF ReadLength, PrefixSize, sender
  <1>3. /\ Len(stream) \in Nat /\ Len(delivered) \in Nat /\ Whole \in Nat
        /\ Whole <= Len(sent) /\ (short = 0 => Whole = Len(sent))
        /\ AllSendable(sent, Whole)
    BY <1>1, Basics
  <1>4. stream \in Seq(Byte) /\ buffer = <<>>
    BY <1>1, <1>2 DEF Types
  <1>5. \A i \in 1 .. Len(stream) : stream[i] \in Byte
    BY <1>4, LenProperties
  <1>6. n \in Nat
    <2> DEFINE s == SubSeq(stream, 1, 4)
    <2>1. \A i \in 1 .. 4 : stream[i] \in Byte
      BY <1>2, <1>3, <1>5
    <2>2. s \in Seq(Byte) /\ Len(s) = IF 1 <= 4 THEN 4 - 1 + 1 ELSE 0
      BY <2>1, SubSeqProperties
    <2> HIDE DEF s
    <2>3. Len(s) = 4
      BY <2>2
    <2>4. Number(s) \in Nat
      BY <2>2, <2>3, NumberType
    <2> QED
      BY <2>4 DEF s, PrefixSize
  <1> HIDE DEF n
  <1>7. stream' \in Seq(Byte) /\ Len(stream') = Len(stream) - 4
    <2>1. \A i \in 4 + 1 .. Len(stream) : stream[i] \in Byte
      BY <1>3, <1>5
    <2>2. /\ stream' \in Seq(Byte)
          /\ Len(stream') = IF 4 + 1 <= Len(stream) THEN Len(stream) - (4 + 1) + 1 ELSE 0
      BY <1>2, <1>3, <2>1, SubSeqProperties
    <2>3. \A x \in Nat : x >= 4 => (IF 4 + 1 <= x THEN x - (4 + 1) + 1 ELSE 0) = x - 4
      OBVIOUS
    <2>4. Len(stream') = Len(stream) - 4
      BY <1>2, <1>3, <2>2, <2>3, Zenon
    <2> QED
      BY <2>2, <2>4
  <1>8. Types'
    <2>1. TooLong(n) \/ n \in 0 .. MaxMessageSize
      BY <1>6, WireAssumption DEF TooLong
    <2>2. msg_length' \in {None} \cup 0 .. MaxMessageSize
      BY <1>2, <2>1
    <2>3. Len(buffer') = 0 /\ buffer' = <<>>
      BY <1>2, <1>4
    <2>4. IF msg_length' = None THEN buffer' = <<>> ELSE Len(buffer') <= msg_length'
      <3>1. CASE TooLong(n)
        BY <1>2, <2>3, <3>1
      <3>2. CASE ~TooLong(n)
        BY <1>2, <1>6, <2>3, <3>2
      <3> QED
        BY <3>1, <3>2
    <2>5. running' \in BOOLEAN
      BY <1>2 DEF TooLong
    <2> QED
      BY <1>1, <1>2, <1>7, <2>2, <2>4, <2>5 DEF Types
  <1>9. FramesIntact'
    BY <1>1, <1>2, IntactKept
  <1>10. ASSUME InFront
         PROVE  /\ k \in 1 .. Whole /\ Sendable(m) /\ n = Len(serialize(m))
                /\ \E at : Track(at, Whole, sent, stream) /\ Place(at)
    <2>1. PICK at : Track(at, Whole, sent, stream) /\ Place(at)
      BY <1>1, <1>10 DEF InStep
    <2>2. Len(delivered) <= Whole /\ at[k] = 0 /\ (short = 0 => at[Whole + 1] = Len(stream))
      BY <1>2, <2>1 DEF Place
    <2>3. Len(delivered) < Whole
      <3>1. CASE short = 0
        <4>1. Len(delivered) # Whole
          BY <1>2, <2>2, <3>1
        <4>2. \A x, y \in Nat : x <= y /\ x # y => x < y
          OBVIOUS
        <4> QED
          BY <1>3, <2>2, <4>1, <4>2, Zenon
      <3>2. CASE short # 0
        BY <1>10, <3>2 DEF InFront
      <3> QED
        BY <3>1, <3>2
    <2>4. k \in 1 .. Whole
      BY <1>3, <2>3
    <2>5. Sendable(m)
      BY <1>3, <2>4 DEF AllSendable
    <2>6. Len(Frame(m)) \in Nat /\ Len(Frame(m)) >= 4
      BY <2>5, FrameIs
    <2>7. \A j \in 1 .. 4 : j \in 1 .. Len(Frame(m)) /\ at[k] + j >= 1 /\ at[k] + j = j
      BY <2>2, <2>6
    <2>8. \A j \in 1 .. 4 : stream[j] = Frame(m)[j]
      BY <2>1, <2>4, <2>7 DEF Track
    <2>9. n = Len(serialize(m))
      BY <1>2, <1>4, <2>5, <2>8, PrefixIs DEF n
    <2> QED
      BY <2>1, <2>4, <2>5, <2>9
  <1>11. FittingIsDelivered'
    <2> SUFFICES ASSUME ~running', short' = 0
                 PROVE  \E i \in DOMAIN sent' : Len(serialize(sent'[i].message)) > MaxMessageSize
      BY DEF FittingIsDelivered
    <2>1. TooLong(n) /\ InFront
      BY <1>2 DEF InFront
    <2>2. k \in 1 .. Whole /\ n = Len(serialize(m))
      BY <1>10, <2>1
    <2>3. DOMAIN sent = 1 .. Len(sent) /\ Len(sent) \in Nat
      BY <1>1, LenProperties DEF Types
    <2>4. k \in DOMAIN sent
      <3>1. \A x, y \in Nat : x <= y => \A i \in 1 .. x : i \in 1 .. y
        OBVIOUS
      <3> QED
        BY <1>3, <2>2, <2>3, <3>1, Zenon
    <2>5. Len(serialize(sent[k].message)) > MaxMessageSize
      BY <2>1, <2>2 DEF TooLong
    <2> QED
      BY <1>2, <2>4, <2>5
  <1>12. InStep'
    <2> SUFFICES ASSUME InFront'
                 PROVE  \E at : Track(at, Whole', sent', stream') /\ Place(at)'
      BY DEF InStep
    <2>1. Whole' = Whole
      BY <1>2 DEF Whole
    <2>2. InFront /\ ~TooLong(n)
      BY <1>2, <2>1 DEF InFront
    <2>3. k \in 1 .. Whole /\ n = Len(serialize(m))
      BY <1>10, <2>2
    <2>4. PICK at : Track(at, Whole, sent, stream) /\ Place(at)
      BY <1>10, <2>2
    <2> PICK b : b = [i \in 1 .. Whole + 1 |-> at[i] - 4]
      OBVIOUS
    <2>5. 4 \in 1 .. Len(stream)
      BY <1>2, <1>3
    <2>6. Track(b, Whole, sent, stream')
      BY <1>2, <1>3, <1>4, <2>4, <2>5, TrackRead
    <2>7. at[k] = 0 /\ (short = 0 => at[Whole + 1] = Len(stream)) /\ Len(delivered) <= Whole
      BY <1>2, <2>4 DEF Place
    <2>8. k \in 1 .. Whole + 1 /\ Whole + 1 \in 1 .. Whole + 1
      BY <1>3, <2>3
    <2>9. b[k] = at[k] - 4 /\ b[Whole + 1] = at[Whole + 1] - 4
      BY <2>8
    <2>10. Len(buffer) = 0
      BY <1>4
    <2>11. b[k] = 0 - (4 + Len(buffer))
      BY <2>7, <2>9, <2>10
    <2>12. short = 0 => b[Whole + 1] = Len(stream')
      BY <1>7, <2>7, <2>9
    <2>13. msg_length' = n /\ n # None
      BY <1>2, <1>6, <2>2 DEF None
    <2>14. \A j \in 1 .. Len(buffer) : buffer[j] = serialize(m)[j]
      BY <2>10
    <2>15. k <= Whole
      BY <1>3, <2>3
    <2>16. /\ Len(delivered') <= Whole' /\ (short' = 0 => b[Whole' + 1] = Len(stream'))
           /\ msg_length' # None /\ Len(delivered') + 1 <= Whole'
           /\ b[Len(delivered') + 1] = 0 - (4 + Len(buffer'))
           /\ msg_length' = Len(serialize(sent'[Len(delivered') + 1].message))
           /\ \A j \in 1 .. Len(buffer') :
                 buffer'[j] = serialize(sent'[Len(delivered') + 1].message)[j]
      BY <1>2, <2>1, <2>3, <2>7, <2>11, <2>12, <2>13, <2>14, <2>15
    <2>17. Place(b)'
      BY <2>16 DEF Place
    <2> QED
      BY <1>2, <2>1, <2>6, <2>17
  <1> QED
    BY <1>8, <1>9, <1>11, <1>12 DEF IInv
\* A portion of the frame is read.
LEMMA ReadSomeStep ==
    ASSUME IInv, NEW n, ReadSome(n)
    PROVE  IInv'
  <1> DEFINE k == Len(delivered) + 1
             m == sent[k].message
             t == SubSeq(stream, 1, n)
  <1>1. Types /\ FramesIntact /\ InStep
    BY DEF IInv
  <1>2. /\ running /\ msg_length # None /\ n \in 1 .. Len(stream)
        /\ Len(buffer) + n <= msg_length
        /\ buffer' = buffer \o t /\ stream' = SubSeq(stream, n + 1, Len(stream))
        /\ running' = running /\ lost' = lost /\ sent' = sent /\ short' = short
        /\ msg_length' = msg_length /\ delivered' = delivered /\ heard' = heard
    BY DEF ReadSome, sender
  <1>3. /\ Len(stream) \in Nat /\ Len(delivered) \in Nat /\ Whole \in Nat
        /\ Len(buffer) \in Nat /\ AllSendable(sent, Whole)
    BY <1>1, Basics
  <1>4. stream \in Seq(Byte) /\ buffer \in Seq(Byte)
    BY <1>1 DEF Types
  <1>5. n \in Nat /\ n >= 1 /\ n <= Len(stream)
    BY <1>2, <1>3
  <1>6. t \in Seq(Byte) /\ Len(t) = n /\ \A i \in 1 .. n : t[i] = stream[i]
    <2>1. 0 \in Nat /\ 0 + n <= Len(stream)
      BY <1>5
    <2>2. /\ Slice(stream, 0, n) \in Seq(Byte) /\ Len(Slice(stream, 0, n)) = n
          /\ \A i \in 1 .. n : Slice(stream, 0, n)[i] = stream[0 + i]
      BY <1>4, <1>5, <2>1, SliceIs, Zenon
    <2>3. 0 + 1 = 1 /\ 0 + n = n /\ \A i \in 1 .. n : 0 + i = i
      BY <1>5
    <2>4. Slice(stream, 0, n) = t
      BY <2>3 DEF Slice
    <2> HIDE DEF t
    <2> QED
      BY <2>2, <2>3, <2>4
  <1> HIDE DEF t
  <1>7. /\ buffer' \in Seq(Byte) /\ Len(buffer') = Len(buffer) + n
        /\ \A i \in 1 .. Len(buffer) + n :
              buffer'[i] = IF i <= Len(buffer) THEN buffer[i] ELSE t[i - Len(buffer)]
    <2>1. /\ buffer \o t \in Seq(Byte) /\ Len(buffer \o t) = Len(buffer) + Len(t)
          /\ \A i \in 1 .. Len(buffer) + Len(t) :
                (buffer \o t)[i] = IF i <= Len(buffer) THEN buffer[i] ELSE t[i - Len(buffer)]
      BY <1>4, <1>6, Concat, Zenon
    <2> QED
      BY <1>2, <1>6, <2>1, Zenon
  <1>8. stream' \in Seq(Byte)
    <2>1. \A i \in n + 1 .. Len(stream) : i \in 1 .. Len(stream)
      BY <1>3, <1>5
    <2>2. \A i \in n + 1 .. Len(stream) : stream[i] \in Byte
      BY <1>4, <2>1, LenProperties
    <2>3. n + 1 \in Int /\ Len(stream) \in Int
      BY <1>3, <1>5
    <2> QED
      BY <1>2, <2>2, <2>3, SubSeqProperties
  <1>9. Types'
    <2>1. IF msg_length' = None THEN buffer' = <<>> ELSE Len(buffer') <= msg_length'
      BY <1>2, <1>7
    <2> QED
      BY <1>1, <1>2, <1>7, <1>8, <2>1 DEF Types
  <1>10. FramesIntact'
    BY <1>1, <1>2, IntactKept
  <1>11. FittingIsDelivered'
    BY <1>2 DEF FittingIsDelivered
  <1>12. InStep'
    <2> SUFFICES ASSUME InFront'
                 PROVE  \E at : Track(at, Whole', sent', stream') /\ Place(at)'
      BY DEF InStep
    <2>1. Whole' = Whole
      BY <1>2 DEF Whole
    <2>2. InFront
      BY <1>2, <2>1 DEF InFront
    <2>3. PICK at : Track(at, Whole, sent, stream) /\ Place(at)
      BY <1>1, <2>2 DEF InStep
    <2>4. /\ Len(delivered) <= Whole /\ (short = 0 => at[Whole + 1] = Len(stream))
          /\ k <= Whole /\ at[k] = 0 - (4 + Len(buffer))
          /\ msg_length = Len(serialize(m))
          /\ \A j \in 1 .. Len(buffer) : buffer[j] = serialize(m)[j]
      BY <1>2, <2>3 DEF Place
    <2>5. k \in 1 .. Whole
      BY <1>3, <2>4
    <2>6. Sendable(m)
      BY <1>3, <2>5 DEF AllSendable
    <2>7. /\ Len(serialize(m)) \in Nat /\ Len(Frame(m)) = 4 + Len(serialize(m))
          /\ \A j \in 1 .. Len(serialize(m)) : Frame(m)[4 + j] = serialize(m)[j]
      BY <2>6, FrameIs
    <2> PICK b : b = [i \in 1 .. Whole + 1 |-> at[i] - n]
      OBVIOUS
    <2>8. /\ Track(b, Whole, sent, stream') /\ Len(stream') = Len(stream) - n
      BY <1>2, <1>3, <1>4, <2>3, TrackRead
    <2>9. k \in 1 .. Whole + 1 /\ Whole + 1 \in 1 .. Whole + 1
      BY <1>3, <2>5
    <2>10. b[k] = at[k] - n /\ b[Whole + 1] = at[Whole + 1] - n
      BY <2>9
    <2>11. b[k] = 0 - (4 + Len(buffer'))
      BY <1>3, <1>5, <1>7, <2>4, <2>10
    <2>12. short = 0 => b[Whole + 1] = Len(stream')
      BY <2>4, <2>8, <2>10
    <2>13. ASSUME NEW i \in 1 .. n PROVE stream[i] = serialize(m)[Len(buffer) + i]
      <3> DEFINE j == 4 + (Len(buffer) + i)
      <3>1. Len(buffer) + i \in 1 .. Len(serialize(m))
        BY <1>2, <1>3, <1>5, <2>4, <2>7
      <3>2. j \in 1 .. Len(Frame(m)) /\ at[k] + j = i
        BY <1>3, <2>4, <2>7, <3>1
      <3>3. stream[at[k] + j] = Frame(m)[j] \/ ~(at[k] + j >= 1)
        BY <2>3, <2>5, <3>2 DEF Track
      <3>4. stream[i] = Frame(m)[j]
        BY <3>2, <3>3
      <3> QED
        BY <2>7, <3>1, <3>4
    <2>14. ASSUME NEW j \in 1 .. Len(buffer) + n PROVE buffer'[j] = serialize(m)[j]
      <3>1. CASE j <= Len(buffer)
        <4>1. j \in 1 .. Len(buffer)
          BY <1>3, <3>1
        <4> QED
          BY <1>7, <2>4, <3>1, <4>1
      <3>2. CASE ~(j <= Len(buffer))
        <4>1. j - Len(buffer) \in 1 .. n /\ Len(buffer) + (j - Len(buffer)) = j
          BY <1>3, <1>5, <3>2
        <4>2. buffer'[j] = stream[j - Len(buffer)]
          BY <1>6, <1>7, <3>2, <4>1
        <4> QED
          BY <2>13, <4>1, <4>2
      <3> QED
        BY <3>1, <3>2
    <2>15. /\ Len(delivered') <= Whole' /\ (short' = 0 => b[Whole' + 1] = Len(stream'))
           /\ msg_length' # None /\ Len(delivered') + 1 <= Whole'
           /\ b[Len(delivered') + 1] = 0 - (4 + Len(buffer'))
           /\ msg_length' = Len(serialize(sent'[Len(delivered') + 1].message))
           /\ \A j \in 1 .. Len(buffer') :
                 buffer'[j] = serialize(sent'[Len(delivered') + 1].message)[j]
      BY <1>2, <1>7, <2>1, <2>4, <2>11, <2>12, <2>14
    <2>16. Place(b)'
      BY <2>15 DEF Place
    <2> QED
      BY <1>2, <2>1, <2>8, <2>16
  <1> QED
    BY <1>9, <1>10, <1>11, <1>12 DEF IInv
\* The frame is complete: its message is delivered.
LEMMA DeliverStep ==
    ASSUME IInv, Deliver
    PROVE  IInv'
  <1> DEFINE d == Len(delivered)
             k == d + 1
             m == sent[k].message
             new == deserialize(buffer)
  <1>1. Types /\ FramesIntact /\ InStep
    BY DEF IInv
  <1>2. /\ running /\ msg_length # None /\ Len(buffer) = msg_length
        /\ delivered' = delivered \o new /\ msg_length' = None /\ buffer' = <<>>
        /\ running' = running /\ lost' = lost /\ stream' = stream /\ sent' = sent /\ short' = short
        /\ heard' = heard
    BY DEF Deliver, sender
  <1>3. /\ Len(stream) \in Nat /\ d \in Nat /\ Whole \in Nat /\ Len(sent) \in Nat
        /\ Len(buffer) \in Nat /\ AllSendable(sent, Whole)
        /\ (short = 0 => Whole = Len(sent))
    BY <1>1, Basics
  <1>4. buffer \in Seq(Byte) /\ delivered \in Seq(AnyMessage)
    BY <1>1 DEF Types
  <1>5. new \in Seq(AnyMessage) /\ Len(new) \in Nat
    BY <1>4, DeserializeType, LenProperties
  <1>6. Whole' = Whole
    BY <1>2 DEF Whole
  <1> HIDE DEF new
  <1>7. /\ delivered' \in Seq(AnyMessage) /\ Len(delivered') = d + Len(new)
        /\ \A i \in 1 .. d + Len(new) :
              delivered'[i] = IF i <= d THEN delivered[i] ELSE new[i - d]
    <2>1. /\ delivered \o new \in Seq(AnyMessage) /\ Len(delivered \o new) = d + Len(new)
          /\ \A i \in 1 .. d + Len(new) :
                (delivered \o new)[i] = IF i <= d THEN delivered[i] ELSE new[i - d]
      BY <1>4, <1>5, ConcatProperties
    <2> QED
      BY <1>2, <2>1
  <1>8. DOMAIN delivered = 1 .. d /\ DOMAIN delivered' = 1 .. d + Len(new)
    BY <1>4, <1>7, LenProperties
  <1>9. Types'
    <2>1. buffer' \in Seq(Byte)
      BY <1>2
    <2> QED
      BY <1>1, <1>2, <1>7, <2>1 DEF Types
  <1>10. ASSUME InFront
         PROVE  /\ k <= Whole /\ new = <<Received(m)>> /\ d <= Whole
                /\ \E at : /\ Track(at, Whole, sent, stream)
                           /\ (short = 0 => at[Whole + 1] = Len(stream))
                           /\ at[k + 1] = 0
    <2>1. PICK at : Track(at, Whole, sent, stream) /\ Place(at)
      BY <1>1, <1>10 DEF InStep
    <2>2. /\ d <= Whole /\ (short = 0 => at[Whole + 1] = Len(stream))
          /\ k <= Whole /\ at[k] = 0 - (4 + Len(buffer))
          /\ msg_length = Len(serialize(m))
          /\ \A j \in 1 .. Len(buffer) : buffer[j] = serialize(m)[j]
      BY <1>2, <2>1 DEF Place
    <2>3. k \in 1 .. Whole
      BY <1>3, <2>2
    <2>4. Sendable(m)
      BY <1>3, <2>3 DEF AllSendable
    <2>5. /\ serialize(m) \in Seq(Byte) /\ Len(Frame(m)) = 4 + Len(serialize(m))
      BY <2>4, FrameIs
    <2>6. Len(buffer) = Len(serialize(m))
      BY <1>2, <2>2
    <2>7. buffer = serialize(m)
      BY <1>4, <2>2, <2>5, <2>6, SeqEqual, Zenon
    <2>8. new = <<Received(m)>>
      BY <2>4, <2>7, CodecRoundTrip DEF new
    <2>9. at[k + 1] = at[k] + Len(Frame(m))
      BY <2>1, <2>3 DEF Track
    <2>10. at[k + 1] = 0
      <3>1. \A x \in Nat : (0 - (4 + x)) + (4 + x) = 0
        OBVIOUS
      <3> QED
        BY <1>3, <2>2, <2>5, <2>6, <2>9, <3>1, Zenon
    <2> QED
      BY <2>1, <2>2, <2>8, <2>10
  <1>11. FramesIntact'
    <2>1. CASE InFront
      <3>1. k <= Whole /\ new = <<Received(m)>>
        BY <1>10, <2>1
      <3>2. Len(new) = 1 /\ new[1] = Received(m)
        BY <3>1
      <3>3. short' = 0 => Len(delivered') <= Len(sent')
        BY <1>2, <1>3, <1>7, <3>1, <3>2
      <3>4. ASSUME NEW i \in DOMAIN delivered', i <= Whole'
            PROVE  delivered'[i] = Received(sent'[i].message)
        <4>1. i \in 1 .. d + Len(new) /\ i \in 1 .. d + 1
          BY <1>8, <3>2
        <4>2. CASE i <= d
          <5>1. i \in DOMAIN delivered
            BY <1>3, <1>8, <4>1, <4>2
          <5>2. delivered[i] = Received(sent[i].message)
            BY <1>1, <1>6, <3>4, <5>1 DEF FramesIntact
          <5> QED
            BY <1>2, <1>7, <4>1, <4>2, <5>2
        <4>3. CASE ~(i <= d)
          <5>1. i = k /\ i - d = 1
            BY <1>3, <4>1, <4>3
          <5>2. delivered'[i] = new[1]
            BY <1>7, <4>1, <4>3, <5>1
          <5> QED
            BY <1>2, <3>2, <5>1, <5>2
        <4> QED
          BY <4>2, <4>3
      <3> QED
        BY <3>3, <3>4 DEF FramesIntact
    <2>2. CASE ~InFront
      <3>1. short # 0 /\ ~(d < Whole)
        BY <1>2, <2>2 DEF InFront
      <3>2. ASSUME NEW i \in DOMAIN delivered', i <= Whole'
            PROVE  delivered'[i] = Received(sent'[i].message)
        <4>1. i \in 1 .. d + Len(new) /\ i <= Whole
          BY <1>6, <1>8, <3>2
        <4>2. i <= d /\ i \in 1 .. d
          BY <1>3, <1>5, <3>1, <4>1
        <4>3. delivered[i] = Received(sent[i].message)
          BY <1>1, <1>8, <4>1, <4>2 DEF FramesIntact
        <4> QED
          BY <1>2, <1>7, <4>1, <4>2, <4>3
      <3> QED
        BY <1>2, <3>1, <3>2 DEF FramesIntact
    <2> QED
      BY <2>1, <2>2
  <1>12. FittingIsDelivered'
    BY <1>2 DEF FittingIsDelivered
  <1>13. InStep'
    <2> SUFFICES ASSUME InFront'
                 PROVE  \E at : Track(at, Whole', sent', stream') /\ Place(at)'
      BY DEF InStep
    <2>1. InFront
      <3>1. CASE short = 0
        BY <1>2, <3>1 DEF InFront
      <3>2. CASE short # 0
        <4>1. Len(delivered') < Whole
          BY <1>2, <1>6, <3>2 DEF InFront
        <4>2. d < Whole
          BY <1>3, <1>5, <1>7, <4>1
        <4> QED
          BY <1>2, <4>2 DEF InFront
      <3> QED
        BY <3>1, <3>2
    <2>2. k <= Whole /\ new = <<Received(m)>>
      BY <1>10, <2>1
    <2>3. PICK at : /\ Track(at, Whole, sent, stream)
                    /\ (short = 0 => at[Whole + 1] = Len(stream))
                    /\ at[k + 1] = 0
      BY <1>10, <2>1
    <2>4. Len(delivered') = k
      <3>1. Len(new) = 1
        BY <2>2
      <3> QED
        BY <1>7, <3>1
    <2>5. /\ Len(delivered') <= Whole' /\ (short' = 0 => at[Whole' + 1] = Len(stream'))
          /\ msg_length' = None /\ at[Len(delivered') + 1] = 0
      BY <1>2, <1>6, <2>2, <2>3, <2>4
    <2>6. Place(at)'
      BY <2>5 DEF Place
    <2> QED
      BY <1>2, <1>6, <2>3, <2>6
  <1> QED
    BY <1>9, <1>11, <1>12, <1>13 DEF IInv

\* The peer has closed the connection: everything was delivered.
LEMMA EndStep ==
    ASSUME IInv, EndOfStream
    PROVE  IInv'
  <1> DEFINE d == Len(delivered)
             k == d + 1
             m == sent[k].message
  <1>1. Types /\ FramesIntact /\ InStep
    BY DEF IInv
  <1>2. /\ running /\ ~running' /\ running' \in BOOLEAN
        /\ IF msg_length = None THEN Len(stream) < 4
           ELSE stream = <<>> /\ Len(buffer) < msg_length
        /\ stream' = stream /\ sent' = sent /\ short' = short
        /\ msg_length' = msg_length /\ buffer' = buffer /\ delivered' = delivered
        /\ heard' = heard /\ lost' = lost
    BY DEF EndOfStream, sender, PrefixSize
  <1>3. /\ Len(stream) \in Nat /\ d \in Nat /\ Whole \in Nat /\ Len(buffer) \in Nat
        /\ AllSendable(sent, Whole) /\ (short = 0 => Whole = Len(sent))
    BY <1>1, Basics
  <1>4. Types'
    BY <1>1, <1>2 DEF Types
  <1>5. FramesIntact'
    BY <1>1, <1>2, IntactKept
  <1>6. InStep'
    BY <1>2 DEF InStep, InFront
  <1>7. FittingIsDelivered'
    <2> SUFFICES ASSUME short = 0
                 PROVE  delivered = [i \in DOMAIN sent |-> Received(sent[i].message)]
      BY <1>2 DEF FittingIsDelivered
    <2>1. PICK at : Track(at, Whole, sent, stream) /\ Place(at)
      BY <1>1, <1>2 DEF InStep, InFront
    <2>2. d <= Whole
      BY <2>1 DEF Place
    <2>3. ~(k <= Whole)
      <3> SUFFICES ASSUME k <= Whole PROVE FALSE
        OBVIOUS
      <3>1. k \in 1 .. Whole /\ k + 1 \in 1 .. Whole + 1
        BY <1>3
      <3>2. Sendable(m)
        BY <1>3, <3>1 DEF AllSendable
      <3>3. /\ Len(serialize(m)) \in Nat /\ Len(serialize(m)) >= 16
            /\ Len(Frame(m)) = 4 + Len(serialize(m))
        BY <3>2, FrameIs
      <3>4. at[k + 1] = at[k] + Len(Frame(m)) /\ at[k + 1] <= Len(stream)
        BY <2>1, <3>1 DEF Track
      <3>5. CASE msg_length = None
        <4>1. at[k] = 0
          BY <2>1, <3>5 DEF Place
        <4> QED
          BY <1>2, <1>3, <3>3, <3>4, <3>5, <4>1
      <3>6. CASE msg_length # None
        <4>1. at[k] = 0 - (4 + Len(buffer)) /\ msg_length = Len(serialize(m))
          BY <2>1, <3>6 DEF Place
        <4>2. Len(stream) = 0 /\ Len(buffer) < Len(serialize(m))
          BY <1>2, <3>6, <4>1
        <4> QED
          BY <1>3, <3>3, <3>4, <4>1, <4>2
      <3> QED
        BY <3>5, <3>6
    <2>4. d = Len(sent) /\ d = Whole
      <3>1. \A x, y \in Nat : x <= y /\ ~(x + 1 <= y) => x = y
        OBVIOUS
      <3>2. d = Whole
        BY <1>3, <2>2, <2>3, <3>1, Zenon
      <3> QED
        BY <1>3, <3>2
    <2>5. /\ delivered \in [1 .. d -> AnyMessage] /\ DOMAIN delivered = 1 .. d
          /\ DOMAIN sent = 1 .. Len(sent)
      BY <1>1, LenProperties DEF Types
    <2>6. \A i \in DOMAIN sent : delivered[i] = Received(sent[i].message)
      <3> TAKE i \in DOMAIN sent
      <3>1. i \in DOMAIN delivered /\ i <= Whole
        BY <1>3, <2>4, <2>5
      <3> QED
        BY <1>1, <3>1 DEF FramesIntact
    <2>7. DOMAIN delivered = DOMAIN sent
      BY <2>4, <2>5
    <2>8. delivered = [i \in DOMAIN sent |-> delivered[i]]
      <3>1. \A D, R : \A f \in [D -> R] : f = [i \in D |-> f[i]]
        OBVIOUS
      <3>2. delivered = [i \in 1 .. d |-> delivered[i]]
        BY <2>5, <3>1, Zenon
      <3> QED
        BY <2>5, <2>7, <3>2, Zenon
    <2>9. [i \in DOMAIN sent |-> delivered[i]] = [i \in DOMAIN sent |-> Received(sent[i].message)]
      BY <2>6, Zenon
    <2> QED
      BY <2>8, <2>9
  <1> QED
    BY <1>4, <1>5, <1>6, <1>7 DEF IInv

\* The connection was ended by this side or failed.
LEMMA LostStep ==
    ASSUME IInv, ConnectionEnds
    PROVE  IInv'
  <1>1. /\ ~running' /\ running' \in BOOLEAN /\ lost' = TRUE
        /\ stream' = stream /\ sent' = sent /\ short' = short
        /\ msg_length' = msg_length /\ buffer' = buffer /\ delivered' = delivered
        /\ heard' = heard
    BY DEF ConnectionEnds, sender
  <1>2. Types'
    BY <1>1 DEF IInv, Types
  <1>3. FramesIntact'
    BY <1>1, IntactKept DEF IInv
  <1>4. FittingIsDelivered' /\ InStep'
    BY <1>1 DEF FittingIsDelivered, InStep, InFront
  <1> QED
    BY <1>2, <1>3, <1>4 DEF IInv

\* A datagram touches nothing of the connection, and neither does a stuttering
\* step.
LEMMA ConnectionKept ==
    ASSUME IInv, UNCHANGED <<running, lost, stream, sender, msg_length, buffer, delivered>>,
           heard' \in {Silence} \cup [built : Datagrams, parsed : {heard'.parsed}]
    PROVE  IInv'
  <1>1. /\ running' = running /\ lost' = lost /\ stream' = stream /\ sent' = sent /\ short' = short
        /\ msg_length' = msg_length /\ buffer' = buffer /\ delivered' = delivered
    BY DEF sender
  <1>2. Types'
    BY <1>1 DEF IInv, Types
  <1>3. FramesIntact'
    BY <1>1, IntactKept DEF IInv
  <1>4. FittingIsDelivered'
    BY <1>1 DEF IInv, FittingIsDelivered
  <1>5. InStep'
    <2>1. Whole' = Whole /\ (InFront' = InFront)
      BY <1>1 DEF Whole, InFront
    <2>2. \A at : Place(at)' = Place(at)
      BY <1>1, <2>1 DEF Place
    <2> QED
      BY <1>1, <2>1, <2>2 DEF IInv, InStep
  <1> QED
    BY <1>2, <1>3, <1>4, <1>5 DEF IInv

\* Hearing an SD message leaves the stream and the receive thread alone.
LEMMA HearStep ==
    ASSUME IInv, NEW d \in Datagrams, HearSd(d)
    PROVE  IInv'
  <1>1. PICK p : /\ heard' = [built |-> d, parsed |-> p]
                 /\ UNCHANGED <<running, lost, stream, sender, msg_length, buffer, delivered>>
    BY DEF HearSd
  <1>2. heard' \in [built : Datagrams, parsed : {heard'.parsed}]
    BY <1>1
  <1> QED
    BY <1>1, <1>2, ConnectionKept

\* The inductive invariant holds at the start,
LEMMA InitInv == Init => IInv
  <1> SUFFICES ASSUME Init PROVE IInv
    OBVIOUS
  <1>1. /\ running = TRUE /\ lost = FALSE /\ stream = <<>> /\ sent = <<>> /\ short = 0
        /\ msg_length = None /\ buffer = <<>> /\ delivered = <<>> /\ heard = Silence
    BY DEF Init
  <1>2. Len(sent) = 0 /\ Len(delivered) = 0 /\ Len(stream) = 0 /\ Whole = 0
    BY <1>1 DEF Whole
  <1>3. Types
    <2>1. /\ stream \in Seq(Byte) /\ buffer \in Seq(Byte) /\ sent \in Seq(Outgoing)
          /\ delivered \in Seq(AnyMessage)
      BY <1>1
    <2>2. Len(sent) <= MaxSends /\ short \in 0 .. Len(sent)
      BY <1>1, <1>2, WireAssumption
    <2> QED
      BY <1>1, <2>1, <2>2 DEF Types
  <1>4. FramesIntact
    <2>1. \A i \in DOMAIN delivered : FALSE
      BY <1>1
    <2> QED
      BY <1>2, <2>1 DEF FramesIntact
  <1>5. FittingIsDelivered
    BY <1>1 DEF FittingIsDelivered
  <1>6. InStep
    <2> PICK at : at = [i \in 1 .. 1 |-> 0]
      OBVIOUS
    <2>1. at \in [1 .. 0 + 1 -> Int] /\ at[1] = 0
      OBVIOUS
    <2>2. \A i \in 1 .. 0 : FALSE
      OBVIOUS
    <2>3. \A i \in 1 .. 0 + 1 : at[i] <= Len(stream)
      BY <1>2, <2>1
    <2>4. Track(at, Whole, sent, stream)
      BY <1>2, <2>1, <2>2, <2>3 DEF Track
    <2>5. Place(at)
      BY <1>1, <1>2, <2>1 DEF Place
    <2> QED
      BY <2>4, <2>5 DEF InStep
  <1> QED
    BY <1>3, <1>4, <1>5, <1>6 DEF IInv

\* and every step keeps it.
LEMMA NextInv == IInv /\ [Next]_vars => IInv'
  <1> SUFFICES ASSUME IInv, [Next]_vars PROVE IInv'
    OBVIOUS
  <1>1. ASSUME NEW o \in Outgoing, Send(o) PROVE IInv'
    BY <1>1, SendStep
  <1>2. ASSUME NEW o \in Outgoing, NEW cut \in Cuts, SendShort(o, cut) PROVE IInv'
    BY <1>2, SendShortStep
  <1>3. CASE ReadLength
    BY <1>3, ReadLengthStep
  <1>4. ASSUME NEW n \in 1 .. MaxMessageSize, ReadSome(n) PROVE IInv'
    BY <1>4, ReadSomeStep
  <1>5. CASE Deliver
    BY <1>5, DeliverStep
  <1>6. CASE EndOfStream
    BY <1>6, EndStep
  <1>9. CASE ConnectionEnds
    BY <1>9, LostStep
  <1>7. ASSUME NEW d \in Datagrams, HearSd(d) PROVE IInv'
    BY <1>7, HearStep
  <1>8. CASE UNCHANGED vars
    <2>1. /\ UNCHANGED <<running, lost, stream, sender, msg_length, buffer, delivered>>
          /\ heard' = heard
      BY <1>8 DEF vars, sender
    <2>2. heard' \in {Silence} \cup [built : Datagrams, parsed : {heard'.parsed}]
      BY <2>1 DEF IInv, Types
    <2> QED
      BY <2>1, <2>2, ConnectionKept
  <1> QED
    BY <1>1, <1>2, <1>3, <1>4, <1>5, <1>6, <1>7, <1>8, <1>9 DEF Next, Read

\* The invariant holds in every reachable state.
THEOREM Invariance == Spec => []IInv
  BY InitInv, NextInv, PTL DEF Spec

\* Every variable keeps its type, and what is read of a frame never goes beyond
\* the length it announced, for every choice of messages, cuts and limits.
THEOREM TypeCorrect == Spec => []TypeOK
  <1>1. IInv => TypeOK
    <2> SUFFICES ASSUME IInv PROVE TypeOK
      OBVIOUS
    <2>1. Types
      BY DEF IInv
    <2>2. \A i \in DOMAIN stream : stream[i] \in Byte
      BY <2>1, LenProperties DEF Types
    <2>3. \A i \in DOMAIN sent : sent[i] \in Outgoing
      BY <2>1, LenProperties DEF Types
    <2> QED
      BY <2>1, <2>2, <2>3 DEF Types, TypeOK
  <1> QED
    BY <1>1, Invariance, PTL

\* The receive thread delivers what was sent, in order, each once and with
\* every field on the wire, for messages and portions of any size; a short
\* write spoils nothing in front of it.
THEOREM FramesArriveIntact == Spec => []FramesIntact
  <1>1. IInv => FramesIntact
    BY DEF IInv
  <1> QED
    BY <1>1, Invariance, PTL

\* While no stop, disconnect or failed recv ends the connection, the receive
\* thread gives it up only for a message above MAX_MESSAGE_SIZE, for a short
\* write, or because the peer closed it and everything was delivered.
THEOREM FittingArrive == Spec => []FittingIsDelivered
  <1>1. IInv => FittingIsDelivered
    BY DEF IInv
  <1> QED
    BY <1>1, Invariance, PTL

-----------------------------------------------------------------------------
(* Induction and loops.                                                    *)

\* A set of numbers that is not empty has a least one.
LEMMA LeastNumber ==
    ASSUME NEW S \in SUBSET Nat, S # {}
    PROVE  \E n \in S : \A k \in S : n <= k
  <1>1. PICK n \in S : \A k \in S : <<k, n>> \notin OpToRel(<, Nat)
    BY WFMin, NatLessThanWellFounded
  <1>2. \A k \in S : ~(k < n)
    BY <1>1 DEF OpToRel
  <1> QED
    BY <1>2

\* Induction up to a bound, with a set in the place of the predicate.
LEMMA BoundedInduction ==
    ASSUME NEW N \in Nat, NEW S, 0 \in S,
           \A n \in 0 .. N - 1 : n \in S => n + 1 \in S
    PROVE  0 .. N \subseteq S
  <1> DEFINE T == {n \in 0 .. N : n \notin S}
  <1> SUFFICES ASSUME T # {} PROVE FALSE
    OBVIOUS
  <1>1. T \in SUBSET Nat
    OBVIOUS
  <1>2. PICK n \in T : \A k \in T : n <= k
    <2> HIDE DEF T
    <2> QED
      BY <1>1, LeastNumber
  <1>3. n # 0 /\ n - 1 \in 0 .. N - 1 /\ n - 1 \in 0 .. N
    OBVIOUS
  <1>4. n - 1 \in S
    BY <1>2, <1>3
  <1> QED
    BY <1>3, <1>4

\* step takes the states X of a loop of N rounds to states.
IsStep(X, N, step) == \A x \in X, n \in 1 .. N : step[<<x, n>>] \in X

\* f[0], ..., f[N] are the states of the loop begun with a.
IsRun(X, a, N, step, f) ==
    /\ f \in [0 .. N -> X]
    /\ f[0] = a
    /\ \A n \in 1 .. N : f[n] = step[<<f[n - 1], n>>]

\* Every loop has its states.
LEMMA LoopExists ==
    ASSUME NEW X, NEW a \in X, NEW N \in Nat, NEW step, IsStep(X, N, step)
    PROVE  \E f : IsRun(X, a, N, step, f)
  <1> USE DEF IsStep
  <1> DEFINE Run(f, k) ==
                 /\ f[0] = a
                 /\ \A n \in 1 .. k : f[n] = step[<<f[n - 1], n>>]
             S == {k \in 0 .. N : \E f \in [0 .. k -> X] : Run(f, k)}
  <1>1. 0 \in S
    <2> DEFINE f == [n \in 0 .. 0 |-> a]
    <2>1. f \in [0 .. 0 -> X] /\ Run(f, 0)
      OBVIOUS
    <2>2. 0 \in 0 .. N
      OBVIOUS
    <2> HIDE DEF f, Run
    <2> QED
      BY <2>1, <2>2
  <1>2. ASSUME NEW k \in 0 .. N - 1, k \in S PROVE k + 1 \in S
    <2>1. PICK f \in [0 .. k -> X] : Run(f, k)
      BY <1>2
    <2> DEFINE y == step[<<f[k], k + 1>>]
               g == [n \in 0 .. k + 1 |-> IF n = k + 1 THEN y ELSE f[n]]
    <2>2. y \in X
      <3>1. f[k] \in X /\ k + 1 \in 1 .. N
        OBVIOUS
      <3> QED
        BY <3>1
    <2>3. \A n \in 0 .. k + 1 : n # k + 1 => n \in 0 .. k
      OBVIOUS
    <2> HIDE DEF y
    <2>4. g \in [0 .. k + 1 -> X]
      BY <2>2, <2>3
    <2>5. /\ g[k + 1] = y
          /\ \A n \in 0 .. k : g[n] = f[n]
      OBVIOUS
    <2> HIDE DEF g
    <2>6. Run(g, k + 1)
      <3>1. g[0] = a
        BY <2>1, <2>5
      <3>2. ASSUME NEW n \in 1 .. k + 1 PROVE g[n] = step[<<g[n - 1], n>>]
        <4>1. CASE n = k + 1
          BY <2>5, <4>1 DEF y
        <4>2. CASE n \in 1 .. k
          <5>1. n \in 0 .. k /\ n - 1 \in 0 .. k
            BY <4>2
          <5>2. f[n] = step[<<f[n - 1], n>>]
            BY <2>1, <4>2
          <5> QED
            BY <2>5, <5>1, <5>2
        <4> QED
          BY <4>1, <4>2
      <3> QED
        BY <3>1, <3>2
    <2>7. k + 1 \in 0 .. N
      OBVIOUS
    <2> HIDE DEF Run
    <2> QED
      BY <2>4, <2>6, <2>7
  <1>3. N \in S
    <2> HIDE DEF S
    <2>1. 0 .. N \subseteq S
      BY <1>1, <1>2, BoundedInduction
    <2>2. N \in 0 .. N
      OBVIOUS
    <2> QED
      BY <2>1, <2>2
  <1> QED
    BY <1>3 DEF IsRun
-----------------------------------------------------------------------------
(* Data put together part by part.                                         *)

\* g[n] is the first n of the N parts es, one behind the other.
Joined(g, es, N) ==
    /\ g \in [0 .. N -> Seq(Byte)]
    /\ \A n \in 1 .. N : es[n] \in Seq(Byte)
    /\ g[0] = <<>>
    /\ \A n \in 1 .. N : g[n] = g[n - 1] \o es[n]

\* Parts can be put together one behind the other.
LEMMA JoinedExists ==
    ASSUME NEW N \in Nat, NEW es, \A n \in 1 .. N : es[n] \in Seq(Byte)
    PROVE  \E g : Joined(g, es, N)
  <1> DEFINE step == [x \in Seq(Byte) \X (1 .. N) |-> x[1] \o es[x[2]]]
  <1>1. \A s \in Seq(Byte), n \in 1 .. N : s \o es[n] \in Seq(Byte)
    BY Concat
  <1>2. \A s \in Seq(Byte), n \in 1 .. N :
           step[<<s, n>>] = s \o es[n] /\ step[<<s, n>>] \in Seq(Byte)
    BY <1>1
  <1> HIDE DEF step
  <1>3. IsStep(Seq(Byte), N, step)
    BY <1>2 DEF IsStep
  <1>4. <<>> \in Seq(Byte)
    OBVIOUS
  <1>5. \E g : IsRun(Seq(Byte), <<>>, N, step, g)
    BY <1>3, <1>4, LoopExists
  <1>6. PICK g : IsRun(Seq(Byte), <<>>, N, step, g)
    BY <1>5
  <1>7. \A n \in 1 .. N : n - 1 \in 0 .. N
    OBVIOUS
  <1>8. \A n \in 1 .. N : g[n] = g[n - 1] \o es[n]
    BY <1>2, <1>6, <1>7 DEF IsRun
  <1> QED
    BY <1>6, <1>8 DEF Joined, IsRun

\* u is the front of v.
FrontOf(u, v) ==
    /\ Len(u) <= Len(v)
    /\ \A o, l \in Nat : o + l <= Len(u) => Slice(v, o, l) = Slice(u, o, l)

\* Earlier data is the front of later data.
LEMMA JoinedGrows ==
    ASSUME NEW N \in Nat, NEW es, NEW g, Joined(g, es, N), NEW n \in 0 .. N
    PROVE  \A m \in 0 .. N : n <= m => FrontOf(g[n], g[m])
  <1> DEFINE S == {m \in 0 .. N : n <= m => FrontOf(g[n], g[m])}
  <1>0. \A m \in 0 .. N : g[m] \in Seq(Byte) /\ Len(g[m]) \in Nat
    BY LenProperties DEF Joined
  <1>1. 0 \in S
    <2>1. CASE n = 0
      BY <1>0, <2>1 DEF FrontOf
    <2>2. CASE n # 0
      BY <2>2
    <2> QED
      BY <2>1, <2>2
  <1>2. ASSUME NEW k \in 0 .. N - 1, k \in S PROVE k + 1 \in S
    <2>1. k + 1 \in 1 .. N /\ k + 1 \in 0 .. N /\ k \in 0 .. N /\ (k + 1) - 1 = k
      OBVIOUS
    <2>2. g[k + 1] = g[k] \o es[k + 1] /\ es[k + 1] \in Seq(Byte)
      BY <2>1 DEF Joined
    <2>3. CASE n = k + 1
      BY <1>0, <2>1, <2>3 DEF FrontOf
    <2>4. CASE n <= k
      <3>1. FrontOf(g[n], g[k])
        BY <1>2, <2>4
      <3>2. Len(g[k + 1]) = Len(g[k]) + Len(es[k + 1]) /\ Len(es[k + 1]) \in Nat
        BY <1>0, <2>1, <2>2, Concat, LenProperties
      <3>3. Len(g[n]) <= Len(g[k]) /\ Len(g[n]) \in Nat /\ Len(g[k]) \in Nat
        BY <1>0, <2>1, <3>1 DEF FrontOf
      <3>4. ASSUME NEW o \in Nat, NEW l \in Nat, o + l <= Len(g[n])
            PROVE  Slice(g[k + 1], o, l) = Slice(g[n], o, l)
        <4>1. o + l <= Len(g[k])
          BY <3>3, <3>4
        <4>2. Slice(g[k] \o es[k + 1], o, l) = Slice(g[k], o, l)
          BY <1>0, <2>1, <2>2, <4>1, SliceLeft
        <4>3. Slice(g[k], o, l) = Slice(g[n], o, l)
          BY <3>1, <3>4 DEF FrontOf
        <4> QED
          BY <2>2, <4>2, <4>3
      <3>5. Len(g[n]) <= Len(g[k + 1])
        <4>1. \A a, b, c \in Nat : a <= b => a <= b + c
          OBVIOUS
        <4> QED
          BY <3>2, <3>3, <4>1, Zenon
      <3>6. FrontOf(g[n], g[k + 1])
        BY <3>4, <3>5 DEF FrontOf
      <3> QED
        BY <2>1, <3>6
    <2>5. n = k + 1 \/ n <= k \/ ~(n <= k + 1)
      OBVIOUS
    <2> QED
      BY <2>1, <2>3, <2>4, <2>5
  <1>3. 0 .. N \subseteq S
    <2> HIDE DEF S
    <2> QED
      BY <1>1, <1>2, BoundedInduction
  <1> QED
    BY <1>3

\* A slice of the second part of the data is one of that part.
LEMMA SliceRight ==
    ASSUME NEW u \in Seq(Byte), NEW v \in Seq(Byte),
           NEW o \in Nat, NEW l \in Nat, o + l <= Len(v)
    PROVE  Slice(u \o v, Len(u) + o, l) = Slice(v, o, l)
  <1>1. /\ u \o v \in Seq(Byte) /\ Len(u \o v) = Len(u) + Len(v)
        /\ \A i \in 1 .. Len(u) + Len(v) :
              (u \o v)[i] = IF i <= Len(u) THEN u[i] ELSE v[i - Len(u)]
    BY Concat
  <1>2. Len(u) \in Nat /\ Len(v) \in Nat
    BY LenProperties
  <1>3. Len(u) + o \in Nat /\ (Len(u) + o) + l <= Len(u \o v)
    BY <1>1, <1>2
  <1>4. /\ Slice(v, o, l) \in Seq(Byte) /\ Len(Slice(v, o, l)) = l
        /\ \A i \in 1 .. l : Slice(v, o, l)[i] = v[o + i]
    BY SliceIs
  <1> DEFINE s == Slice(u \o v, Len(u) + o, l)
  <1>5. s \in Seq(Byte) /\ Len(s) = l /\ \A i \in 1 .. l : s[i] = (u \o v)[(Len(u) + o) + i]
    BY <1>1, <1>3, SliceIs
  <1> HIDE DEF s
  <1>6. \A i \in 1 .. l : /\ (Len(u) + o) + i \in 1 .. Len(u) + Len(v)
                          /\ ~((Len(u) + o) + i <= Len(u))
                          /\ ((Len(u) + o) + i) - Len(u) = o + i
    BY <1>2
  <1>7. \A i \in 1 .. l : (u \o v)[(Len(u) + o) + i] = v[o + i]
    BY <1>1, <1>6
  <1>8. \A i \in 1 .. l : s[i] = Slice(v, o, l)[i]
    BY <1>4, <1>5, <1>7
  <1>9. s = Slice(v, o, l)
    BY <1>4, <1>5, <1>8, SeqEqual
  <1> QED
    BY <1>9 DEF s

\* The n-th part lies behind the first n - 1.
PartsLie(g, es, N) ==
    \A n \in 1 .. N : \A o, l \in Nat : o + l <= Len(es[n]) =>
        Slice(g[N], Len(g[n - 1]) + o, l) = Slice(es[n], o, l)

\* What was put together is where PartsLie says.
LEMMA PartsAre ==
    ASSUME NEW N \in Nat, NEW es, NEW g, Joined(g, es, N)
    PROVE  PartsLie(g, es, N)
  <1> SUFFICES ASSUME NEW n \in 1 .. N, NEW o \in Nat, NEW l \in Nat, o + l <= Len(es[n])
               PROVE  Slice(g[N], Len(g[n - 1]) + o, l) = Slice(es[n], o, l)
    BY DEF PartsLie
  <1>1. n \in 0 .. N /\ n - 1 \in 0 .. N /\ N \in 0 .. N /\ n <= N
    OBVIOUS
  <1>2. /\ g[n] = g[n - 1] \o es[n] /\ es[n] \in Seq(Byte)
        /\ g[n] \in Seq(Byte) /\ g[n - 1] \in Seq(Byte)
    BY <1>1 DEF Joined
  <1>3. Len(g[n - 1]) \in Nat /\ Len(es[n]) \in Nat /\ Len(g[n]) = Len(g[n - 1]) + Len(es[n])
    BY <1>2, Concat, LenProperties
  <1>4. Slice(g[n], Len(g[n - 1]) + o, l) = Slice(es[n], o, l)
    <2>1. Slice(g[n - 1] \o es[n], Len(g[n - 1]) + o, l) = Slice(es[n], o, l)
      BY <1>2, SliceRight, Zenon
    <2> QED
      BY <1>2, <2>1, Zenon
  <1>5. FrontOf(g[n], g[N])
    BY <1>1, JoinedGrows
  <1>6. Len(g[n - 1]) + o \in Nat /\ (Len(g[n - 1]) + o) + l <= Len(g[n])
    <2>1. \A a, b, c, e, f \in Nat : e = a + b /\ c + f <= b => a + c \in Nat /\ (a + c) + f <= e
      OBVIOUS
    <2>2. Len(g[n]) \in Nat
      BY <1>2, LenProperties
    <2> QED
      BY <1>3, <2>1, <2>2, Zenon
  <1> QED
    BY <1>4, <1>5, <1>6 DEF FrontOf
-----------------------------------------------------------------------------
(* Payload items.                                                          *)

\* What is written for an item.
Encoded(x) ==
    CASE x.kind = "uint" -> Ordered(x.value, x.big_endian)
      [] x.kind = "string" -> Bytes(Len(x.value), 4) \o x.value
      [] x.kind = "bytes" -> x.value

\* Bytes in the other order.
LEMMA OrderedIs ==
    ASSUME NEW s \in Seq(Byte), NEW b \in BOOLEAN
    PROVE  /\ Ordered(s, b) \in Seq(Byte) /\ Len(Ordered(s, b)) = Len(s)
           /\ Ordered(Ordered(s, b), b) = s
  <1> DEFINE n == Len(s)
             r == Reverse(s)
             q == Reverse(r)
  <1>1. n \in Nat /\ \A i \in 1 .. n : s[i] \in Byte
    BY LenProperties
  <1>2. \A i \in 1 .. n : (n - i) + 1 \in 1 .. n /\ (n - ((n - i) + 1)) + 1 = i
    BY <1>1
  <1>3. r = [i \in 1 .. n |-> s[(n - i) + 1]]
    BY DEF Reverse
  <1>4. r \in [1 .. n -> Byte]
    BY <1>1, <1>2, <1>3
  <1>5. r \in Seq(Byte) /\ Len(r) = n
    BY <1>1, <1>4, IsSeq
  <1>6. q = [i \in 1 .. n |-> r[(n - i) + 1]]
    BY <1>5 DEF Reverse
  <1>7. \A i \in 1 .. n : q[i] = s[i]
    BY <1>2, <1>3, <1>6
  <1>8. q \in [1 .. n -> Byte]
    <2>1. \A i \in 1 .. n : r[(n - i) + 1] \in Byte
      BY <1>2, <1>4
    <2> HIDE DEF n, r, q
    <2> QED
      BY <1>6, <2>1
  <1>9. q \in Seq(Byte) /\ Len(q) = n
    BY <1>1, <1>8, IsSeq
  <1>10. q = s
    BY <1>7, <1>9, SeqEqual
  <1> HIDE DEF r, q, n
  <1>11. Ordered(s, TRUE) = s /\ Ordered(s, FALSE) = r /\ Ordered(r, FALSE) = q
    BY DEF Ordered, r, q
  <1>12. Len(s) = n
    BY DEF n
  <1>13. b = TRUE \/ b = FALSE
    OBVIOUS
  <1> QED
    BY <1>5, <1>10, <1>11, <1>12, <1>13

\* The encoding of each kind.
LEMMA EncodedIs ==
    ASSUME NEW x \in Item
    PROVE  /\ x.kind \in {"uint", "string", "bytes"} /\ x.value \in Seq(Byte)
           /\ Len(x.value) \in Nat /\ x.big_endian \in BOOLEAN
           /\ Encoded(x) \in Seq(Byte) /\ Len(Encoded(x)) \in Nat
           /\ x.kind = "uint" => /\ Encoded(x) = Ordered(x.value, x.big_endian)
                                 /\ Len(Encoded(x)) = Len(x.value)
           /\ x.kind = "bytes" => Encoded(x) = x.value
           /\ x.kind = "string" =>
                 Grown(Encoded(x), Bytes(Len(x.value), 4), x.value, 4, Len(x.value))
           /\ \A u : Put(u, x) = u \o Encoded(x)
  <1>1. /\ x.kind \in {"uint", "string", "bytes"} /\ x.value \in Seq(Byte)
        /\ Len(x.value) \in Nat /\ x.big_endian \in BOOLEAN
    BY LenProperties DEF Item
  <1>2. \A u : Put(u, x) = u \o Encoded(x)
    <2>1. CASE x.kind = "uint"
      BY <2>1 DEF Put, append, Encoded
    <2>2. CASE x.kind = "string"
      <3> DEFINE b == Bytes(Len(x.value), 4) \o x.value
      <3>1. Encoded(x) = b
        BY <2>2 DEF Encoded
      <3>2. Raw(b).kind # "uint" /\ Raw(b).value = b
        BY DEF Raw
      <3>3. \A u : append(u, Raw(b)) = u \o b
        BY <3>2 DEF append
      <3>4. \A u : Put(u, x) = append(u, Raw(b))
        BY <2>2 DEF Put
      <3> QED
        BY <3>1, <3>3, <3>4
    <2>3. CASE x.kind = "bytes"
      BY <2>3 DEF Put, append, Encoded
    <2> QED
      BY <1>1, <2>1, <2>2, <2>3
  <1>3. /\ x.kind = "uint" => Encoded(x) = Ordered(x.value, x.big_endian)
        /\ x.kind = "bytes" => Encoded(x) = x.value
        /\ x.kind = "string" => Encoded(x) = Bytes(Len(x.value), 4) \o x.value
    BY DEF Encoded
  <1>4. /\ Ordered(x.value, x.big_endian) \in Seq(Byte)
        /\ Len(Ordered(x.value, x.big_endian)) = Len(x.value)
    BY <1>1, OrderedIs
  <1>5. Bytes(Len(x.value), 4) \in Seq(Byte) /\ Len(Bytes(Len(x.value), 4)) = 4
    BY <1>1, BytesAre
  <1>6. Grown(Bytes(Len(x.value), 4) \o x.value, Bytes(Len(x.value), 4), x.value, 4, Len(x.value))
    BY <1>1, <1>5, Extended
  <1>7. Bytes(Len(x.value), 4) \o x.value \in Seq(Byte)
    BY <1>6 DEF Grown
  <1>8. Encoded(x) \in Seq(Byte)
    BY <1>1, <1>3, <1>4, <1>7
  <1>9. Len(Encoded(x)) \in Nat
    BY <1>8, LenProperties
  <1> QED
    BY <1>1, <1>2, <1>3, <1>4, <1>6, <1>8, <1>9

\* What Growth computes.
LEMMA GrowthIs ==
    ASSUME NEW items \in Seq(Item)
    PROVE  Joined(Growth(items), [n \in 1 .. Len(items) |-> Encoded(items[n])], Len(items))
  <1> DEFINE N == Len(items)
             es == [n \in 1 .. N |-> Encoded(items[n])]
             F(g) == [n \in 0 .. N |-> IF n = 0 THEN <<>> ELSE Put(g[n - 1], items[n])]
             f == CHOOSE g : g = F(g)
  <1>1. N \in Nat /\ \A n \in 1 .. N : items[n] \in Item
    BY LenProperties
  <1>2. \A n \in 1 .. N : es[n] = Encoded(items[n]) /\ es[n] \in Seq(Byte)
    BY <1>1, EncodedIs
  <1>3. Growth(items) = f
    BY DEF Growth
  <1> HIDE DEF N, es
  <1>4. PICK g : Joined(g, es, N)
    BY <1>1, <1>2, JoinedExists
  <1>5. \A n \in 1 .. N : \A u : Put(u, items[n]) = u \o es[n]
    BY <1>1, <1>2, EncodedIs
  <1>6. \A n \in 0 .. N : n # 0 => n \in 1 .. N
    BY <1>1
  <1>7. g = F(g)
    BY <1>4, <1>5, <1>6 DEF Joined
  <1>8. f = F(f)
    <2> HIDE DEF F
    <2> QED
      BY <1>7
  <1> HIDE DEF f
  <1>9. /\ DOMAIN f = 0 .. N /\ f[0] = <<>>
        /\ \A n \in 1 .. N : f[n] = f[n - 1] \o es[n]
    <2>1. 0 \in 0 .. N /\ \A n \in 1 .. N : n \in 0 .. N /\ n # 0
      BY <1>1
    <2>2. f[0] = <<>> /\ \A n \in 1 .. N : f[n] = Put(f[n - 1], items[n])
      BY <1>8, <2>1
    <2>3. DOMAIN f = 0 .. N
      BY <1>8
    <2> QED
      BY <1>5, <2>2, <2>3
  <1>10. 0 .. N \subseteq {n \in 0 .. N : f[n] \in Seq(Byte)}
    <2> DEFINE S == {n \in 0 .. N : f[n] \in Seq(Byte)}
    <2>1. 0 \in S
      <3>1. 0 \in 0 .. N
        BY <1>1
      <3>2. f[0] = <<>> /\ <<>> \in Seq(Byte)
        BY <1>9
      <3> QED
        BY <3>1, <3>2, Zenon
    <2>2. ASSUME NEW n \in 0 .. N - 1, n \in S PROVE n + 1 \in S
      <3>1. n + 1 \in 1 .. N /\ n + 1 \in 0 .. N /\ (n + 1) - 1 = n
        BY <1>1
      <3>2. f[n + 1] = f[n] \o es[n + 1]
        BY <1>9, <3>1
      <3>3. f[n] \o es[n + 1] \in Seq(Byte)
        BY <1>2, <2>2, <3>1, Concat
      <3> QED
        BY <3>1, <3>2, <3>3
    <2> HIDE DEF S
    <2>3. 0 .. N \subseteq S
      BY <1>1, <2>1, <2>2, BoundedInduction
    <2> QED
      BY <2>3 DEF S
  <1>11. f \in [0 .. N -> Seq(Byte)]
    <2>1. f = [n \in 0 .. N |-> f[n]]
      BY <1>8
    <2> QED
      BY <1>10, <2>1
  <1>12. Joined(f, es, N)
    BY <1>2, <1>9, <1>11 DEF Joined
  <1> QED
    BY <1>3, <1>12 DEF es, N

\* A slice of everything.
LEMMA SliceAll ==
    ASSUME NEW e \in Seq(Byte)
    PROVE  Slice(e, 0, Len(e)) = e
  <1> DEFINE n == Len(e)
             s == Slice(e, 0, n)
  <1>1. n \in Nat /\ 0 + n <= Len(e) /\ \A i \in 1 .. n : 0 + i = i
    BY LenProperties
  <1>2. s \in Seq(Byte) /\ Len(s) = n /\ \A i \in 1 .. n : s[i] = e[0 + i]
    BY <1>1, SliceIs
  <1> HIDE DEF s
  <1>3. \A i \in 1 .. n : s[i] = e[i]
    BY <1>1, <1>2
  <1>4. s = e
    BY <1>2, <1>3, SeqEqual
  <1> QED
    BY <1>4 DEF s

\* From position p on the data d holds e, as far as it goes.
Holds(d, p, e) ==
    \A o, l \in Nat :
       o + l <= Len(e) /\ (p + o) + l <= Len(d) => Slice(d, p + o, l) = Slice(e, o, l)

\* A cursor that has read up to p.
Cursor(d, p, v) == [data |-> d, position |-> p, ok |-> TRUE, value |-> v]

\* r is a read of l bytes at p: the value w, or a failure at the end of d.
Fetched(r, d, p, l, w) ==
    /\ p + l <= Len(d) => r = Cursor(d, p + l, w)
    /\ ~(p + l <= Len(d)) => r.ok = FALSE

\* get_bytes within the data, and beyond its end.
LEMMA GetBytes ==
    ASSUME NEW d \in Seq(Byte), NEW p \in Nat, NEW v, NEW l \in Nat
    PROVE  Fetched(get_bytes(Cursor(d, p, v), l), d, p, l, Slice(d, p, l))
  <1> DEFINE c == Cursor(d, p, v)
  <1>1. c.data = d /\ c.position = p
    BY DEF Cursor
  <1>2. Len(d) \in Nat
    BY LenProperties
  <1>3. CASE p + l <= Len(d)
    <2>1. ~(c.position + l > Len(c.data))
      BY <1>1, <1>2, <1>3
    <2>2. get_bytes(c, l) = Cursor(d, p + l, Slice(d, p, l))
      BY <1>1, <2>1 DEF get_bytes, Cursor
    <2> QED
      BY <1>3, <2>2 DEF Fetched
  <1>4. CASE ~(p + l <= Len(d))
    <2>1. c.position + l > Len(c.data)
      BY <1>1, <1>2, <1>4
    <2>2. get_bytes(c, l).ok = FALSE
      BY <2>1 DEF get_bytes, Failed
    <2> QED
      BY <1>4, <2>2 DEF Fetched
  <1> QED
    BY <1>3, <1>4

\* get_uint in either order.
LEMMA GetUint ==
    ASSUME NEW d \in Seq(Byte), NEW p \in Nat, NEW v, NEW l \in Nat, NEW b
    PROVE  Fetched(get_uint(Cursor(d, p, v), l, b), d, p, l, Ordered(Slice(d, p, l), b))
  <1> DEFINE r == get_bytes(Cursor(d, p, v), l)
             u == get_uint(Cursor(d, p, v), l, b)
             w == Ordered(Slice(d, p, l), b)
  <1>1. u = [r EXCEPT !.value = Ordered(@, b)]
    BY DEF get_uint
  <1>2. CASE p + l <= Len(d)
    <2>1. r = Cursor(d, p + l, Slice(d, p, l))
      BY <1>2, GetBytes DEF Fetched
    <2>2. r.value = Slice(d, p, l)
      BY <2>1 DEF Cursor
    <2>3. u = [r EXCEPT !.value = w]
      BY <1>1, <2>2
    <2> HIDE DEF r, u, w
    <2>4. PICK T : T = TRUE
      OBVIOUS
    <2>5. r = [data |-> d, position |-> p + l, ok |-> T, value |-> Slice(d, p, l)]
      BY <2>1, <2>4, Zenon DEF Cursor
    <2>6. u = [data |-> d, position |-> p + l, ok |-> T, value |-> w]
      <3> HIDE <2>4
      <3> QED
        BY <2>3, <2>5
    <2>7. u = Cursor(d, p + l, w)
      BY <2>4, <2>6, Zenon DEF Cursor
    <2> QED
      BY <1>2, <2>7 DEF Fetched, u, w
  <1>3. CASE ~(p + l <= Len(d))
    <2>1. r = Failed(Cursor(d, p, v))
      <3>1. Len(d) \in Nat
        BY LenProperties
      <3>2. Cursor(d, p, v).position = p /\ Cursor(d, p, v).data = d
        BY DEF Cursor
      <3>3. Cursor(d, p, v).position + l > Len(Cursor(d, p, v).data)
        BY <1>3, <3>1, <3>2
      <3> QED
        BY <3>3 DEF get_bytes
    <2>2. u.ok = FALSE
      BY <1>1, <2>1 DEF Failed
    <2> QED
      BY <1>3, <2>2 DEF Fetched
  <1> QED
    BY <1>2, <1>3

\* The get that fits an item: it reads the value if all of it is there, and
\* fails otherwise.
LEMMA GetIs ==
    ASSUME NEW x \in Item, Len(Encoded(x)) < Huge, NEW d \in Seq(Byte), NEW p \in Nat, NEW v,
           Holds(d, p, Encoded(x))
    PROVE  Fetched(Get(Cursor(d, p, v), x), d, p, Len(Encoded(x)), x.value)
  <1> DEFINE e == Encoded(x)
             n == Len(e)
             l == Len(x.value)
             c == Cursor(d, p, v)
  <1>1. /\ x.value \in Seq(Byte) /\ l \in Nat /\ e \in Seq(Byte) /\ n \in Nat
        /\ x.big_endian \in BOOLEAN /\ Len(d) \in Nat
    BY EncodedIs, LenProperties
  <1>2. ASSUME NEW o \in Nat, NEW k \in Nat, o + k <= n, (p + o) + k <= Len(d)
        PROVE  Slice(d, p + o, k) = Slice(e, o, k)
    BY <1>2 DEF Holds
  <1>3. p + n <= Len(d) => Slice(d, p, n) = e
    <2>1. SUFFICES ASSUME p + n <= Len(d) PROVE Slice(d, p, n) = e
      OBVIOUS
    <2>2. p + 0 = p /\ 0 + n <= n /\ (p + 0) + n <= Len(d)
      BY <1>1, <2>1
    <2>3. Slice(d, p + 0, n) = Slice(e, 0, n)
      BY <1>1, <1>2, <2>2
    <2>4. Slice(e, 0, n) = e
      BY <1>1, SliceAll
    <2> QED
      BY <2>2, <2>3, <2>4
  <1>4. CASE x.kind = "uint"
    <2>1. Get(c, x) = get_uint(c, l, x.big_endian)
      BY <1>4 DEF Get
    <2>2. e = Ordered(x.value, x.big_endian) /\ n = l
      BY <1>4, EncodedIs
    <2>3. Ordered(e, x.big_endian) = x.value
      BY <1>1, <2>2, OrderedIs
    <2> HIDE DEF e, n, l, c
    <2>4. Fetched(get_uint(c, l, x.big_endian), d, p, l, Ordered(Slice(d, p, l), x.big_endian))
      BY <1>1, GetUint, Zenon DEF c
    <2>5. Fetched(Get(c, x), d, p, n, x.value)
      BY <1>3, <2>1, <2>2, <2>3, <2>4, Zenon DEF Fetched
    <2> QED
      BY <2>5 DEF e, n, c
  <1>5. CASE x.kind = "bytes"
    <2>1. Get(c, x) = get_bytes(c, l)
      BY <1>5 DEF Get
    <2>2. e = x.value /\ n = l
      BY <1>5, EncodedIs
    <2> HIDE DEF e, n, l, c
    <2>3. Fetched(get_bytes(c, l), d, p, l, Slice(d, p, l))
      BY <1>1, GetBytes, Zenon DEF c
    <2>4. Fetched(Get(c, x), d, p, n, x.value)
      BY <1>3, <2>1, <2>2, <2>3, Zenon DEF Fetched
    <2> QED
      BY <2>4 DEF e, n, c
  <1>6. CASE x.kind = "string"
    <2> DEFINE L == Bytes(l, 4)
               r == get_uint(c, 4, TRUE)
    <2>1. Get(c, x) = IF r.ok THEN get_bytes(r, Number(r.value)) ELSE r
      BY <1>6 DEF Get, get_string
    <2>2. /\ n = 4 + l /\ Slice(e, 4, l) = x.value
          /\ \A o, k \in Nat : o + k <= 4 => Slice(e, o, k) = Slice(L, o, k)
      BY <1>6, EncodedIs DEF Grown
    <2>3. L \in Seq(Byte) /\ Len(L) = 4
      BY <1>1, BytesAre
    <2>4. Slice(e, 0, 4) = L
      <3>1. Slice(e, 0, 4) = Slice(L, 0, 4)
        BY <2>2
      <3>2. Slice(L, 0, 4) = L
        BY <2>3, SliceAll
      <3> QED
        BY <3>1, <3>2
    <2>5. l < Huge
      <3>1. n < Huge /\ Huge \in Nat
        BY DEF Huge
      <3> HIDE DEF l, n
      <3> QED
        BY <1>1, <2>2, <3>1
    <2>6. Number(L) = l
      BY <1>1, <2>5, FourBytes
    <2>7. Ordered(L, TRUE) = L
      BY DEF Ordered
    <2> HIDE DEF e, n, l, c, L, r
    <2>8. Fetched(r, d, p, 4, Ordered(Slice(d, p, 4), TRUE))
      <3>1. 4 \in Nat
        OBVIOUS
      <3> QED
        BY <3>1, GetUint, Zenon DEF r, c
    <2>9. CASE p + 4 <= Len(d)
      <3>1. p + 0 = p /\ 0 + 4 <= n /\ (p + 0) + 4 <= Len(d)
        BY <1>1, <2>2, <2>9
      <3>2. Slice(d, p, 4) = L
        <4>1. Slice(d, p + 0, 4) = Slice(e, 0, 4)
          BY <1>2, <3>1
        <4> QED
          BY <2>4, <3>1, <4>1, Zenon
      <3>3. r = Cursor(d, p + 4, L)
        BY <2>7, <2>8, <2>9, <3>2, Zenon DEF Fetched
      <3>4. r.ok = TRUE /\ r.value = L
        BY <3>3 DEF Cursor
      <3>5. Get(c, x) = get_bytes(Cursor(d, p + 4, L), l)
        BY <2>1, <2>6, <3>3, <3>4
      <3>6. p + 4 \in Nat /\ (p + 4) + l = p + n
        BY <1>1, <2>2
      <3>7. Fetched(get_bytes(Cursor(d, p + 4, L), l), d, p + 4, l, Slice(d, p + 4, l))
        BY <1>1, <3>6, GetBytes, Zenon
      <3>8. (p + 4) + l <= Len(d) => Slice(d, p + 4, l) = x.value
        <4>1. SUFFICES ASSUME (p + 4) + l <= Len(d) PROVE Slice(d, p + 4, l) = x.value
          OBVIOUS
        <4>2. 4 \in Nat /\ 4 + l <= n
          BY <1>1, <2>2
        <4>3. Slice(d, p + 4, l) = Slice(e, 4, l)
          BY <1>1, <1>2, <4>1, <4>2
        <4> QED
          BY <2>2, <4>3
      <3>9. Fetched(Get(c, x), d, p, n, x.value)
        BY <3>5, <3>6, <3>7, <3>8, Zenon DEF Fetched
      <3> QED
        BY <3>9 DEF e, n, c
    <2>10. CASE ~(p + 4 <= Len(d))
      <3>1. ~(p + n <= Len(d))
        BY <1>1, <2>2, <2>10
      <3>2. r.ok = FALSE
        BY <2>8, <2>10 DEF Fetched
      <3>3. Get(c, x).ok = FALSE
        BY <2>1, <3>2
      <3>4. Fetched(Get(c, x), d, p, n, x.value)
        BY <3>1, <3>3 DEF Fetched
      <3> QED
        BY <3>4 DEF e, n, c
    <2> QED
      BY <2>9, <2>10
  <1>7. x.kind \in {"uint", "string", "bytes"}
    BY EncodedIs
  <1> QED
    BY <1>4, <1>5, <1>6, <1>7

\* The front of the data has its slices.
LEMMA SliceFront ==
    ASSUME NEW u \in Seq(Byte), NEW k \in 0 .. Len(u)
    PROVE  /\ SubSeq(u, 1, k) \in Seq(Byte) /\ Len(SubSeq(u, 1, k)) = k
           /\ \A o, l \in Nat : o + l <= k => Slice(SubSeq(u, 1, k), o, l) = Slice(u, o, l)
  <1> DEFINE d == SubSeq(u, 1, k)
  <1>1. Len(u) \in Nat /\ k \in Nat /\ k <= Len(u) /\ 0 + k <= Len(u) /\ 0 + 1 = 1 /\ 0 + k = k
    BY LenProperties
  <1>2. d = Slice(u, 0, k)
    BY <1>1 DEF Slice
  <1>3. d \in Seq(Byte) /\ Len(d) = k /\ \A i \in 1 .. k : d[i] = u[0 + i]
    BY <1>1, <1>2, SliceIs
  <1> HIDE DEF d
  <1>4. ASSUME NEW o \in Nat, NEW l \in Nat, o + l <= k PROVE Slice(d, o, l) = Slice(u, o, l)
    <2>1. o + l <= Len(u) /\ o + l <= Len(d)
      BY <1>1, <1>3, <1>4
    <2>2. /\ Slice(u, o, l) \in Seq(Byte) /\ Len(Slice(u, o, l)) = l
          /\ \A i \in 1 .. l : Slice(u, o, l)[i] = u[o + i]
      BY <2>1, SliceIs
    <2>3. /\ Slice(d, o, l) \in Seq(Byte) /\ Len(Slice(d, o, l)) = l
          /\ \A i \in 1 .. l : Slice(d, o, l)[i] = d[o + i]
      BY <1>3, <2>1, SliceIs
    <2>4. \A i \in 1 .. l : o + i \in 1 .. k /\ 0 + (o + i) = o + i
      BY <1>1, <1>4
    <2>5. \A i \in 1 .. l : Slice(d, o, l)[i] = Slice(u, o, l)[i]
      BY <1>3, <2>2, <2>3, <2>4
    <2> QED
      BY <2>2, <2>3, <2>5, SeqEqual
  <1> QED
    BY <1>3, <1>4 DEF d

\* The first m parts, and no more, lie within k bytes.
CutAt(g, N, k, m) == \A n \in 0 .. N : Len(g[n]) <= k <=> n <= m

\* There is a last item that lies whole in a cut payload.
LEMMA CutExists ==
    ASSUME NEW N \in Nat, NEW es, NEW g, Joined(g, es, N), NEW k \in Nat
    PROVE  \E m \in 0 .. N : CutAt(g, N, k, m)
  <1>1. \A n \in 0 .. N : g[n] \in Seq(Byte) /\ Len(g[n]) \in Nat
    BY LenProperties DEF Joined
  <1>2. \A n, m \in 0 .. N : n <= m => Len(g[n]) <= Len(g[m])
    BY JoinedGrows DEF FrontOf
  <1>3. 0 \in 0 .. N /\ g[0] = <<>> /\ Len(g[0]) = 0
    BY DEF Joined
  <1> DEFINE T == {n \in 0 .. N : ~(Len(g[n]) <= k)}
  <1>4. CASE T = {}
    <2>1. CutAt(g, N, k, N)
      BY <1>4 DEF CutAt
    <2> QED
      BY <2>1
  <1>5. CASE T # {}
    <2>1. T \in SUBSET Nat
      OBVIOUS
    <2>2. PICK t \in T : \A n \in T : t <= n
      <3> HIDE DEF T
      <3> QED
        BY <1>5, <2>1, LeastNumber
    <2>3. t \in 0 .. N /\ t # 0 /\ ~(Len(g[t]) <= k)
      BY <1>3, <2>2
    <2>4. t - 1 \in 0 .. N
      BY <2>3
    <2>5. ASSUME NEW n \in 0 .. N PROVE Len(g[n]) <= k <=> n <= t - 1
      <3>1. CASE n <= t - 1
        <4>1. n \notin T
          BY <2>2, <2>3, <3>1
        <4> QED
          BY <3>1, <4>1
      <3>2. CASE ~(n <= t - 1)
        <4>1. t <= n
          BY <2>3, <3>2
        <4>2. Len(g[t]) <= Len(g[n]) /\ Len(g[t]) \in Nat /\ Len(g[n]) \in Nat
          BY <1>1, <1>2, <2>3, <4>1
        <4>3. ~(Len(g[n]) <= k)
          BY <2>3, <4>2
        <4> QED
          BY <3>2, <4>3
      <3> QED
        BY <3>1, <3>2
    <2> QED
      BY <2>4, <2>5 DEF CutAt
  <1> QED
    BY <1>4, <1>5

\* The values of the first n items.
Values(items, n) == [i \in 1 .. n |-> items[i].value]

\* The values of one item more.
LEMMA ValuesGrow ==
    ASSUME NEW items \in Seq(Item), NEW n \in 1 .. Len(items)
    PROVE  /\ Append(Values(items, n - 1), items[n].value) = Values(items, n)
           /\ Values(items, 0) = <<>>
  <1> DEFINE V == Seq(Byte)
             u == Values(items, n - 1)
             w == Values(items, n)
             a == Append(u, items[n].value)
  <1>1. Len(items) \in Nat /\ \A i \in 1 .. Len(items) : items[i] \in Item
    BY LenProperties
  <1>2. \A i \in 1 .. Len(items) : items[i].value \in V
    BY <1>1, EncodedIs
  <1>3. /\ n - 1 \in Nat /\ n \in Nat /\ (n - 1) + 1 = n
        /\ \A i \in 1 .. n : i \in 1 .. Len(items) /\ (i # n => i \in 1 .. n - 1)
        /\ \A i \in 1 .. n - 1 : i \in 1 .. Len(items) /\ i \in 1 .. n
    BY <1>1
  <1>4. u \in [1 .. n - 1 -> V] /\ w \in [1 .. n -> V]
    BY <1>2, <1>3 DEF Values
  <1>5. u \in Seq(V) /\ Len(u) = n - 1 /\ w \in Seq(V) /\ Len(w) = n
    BY <1>3, <1>4, IsSeq
  <1>6. /\ \A i \in 1 .. n - 1 : u[i] = items[i].value
        /\ \A i \in 1 .. n : w[i] = items[i].value
    BY DEF Values
  <1>7. Values(items, 0) = <<>>
    BY DEF Values
  <1> HIDE DEF u, w
  <1>8. /\ a \in Seq(V) /\ Len(a) = n /\ a[n] = items[n].value
        /\ \A i \in 1 .. n - 1 : a[i] = u[i]
    BY <1>2, <1>3, <1>5, AppendProperties
  <1> HIDE DEF a
  <1>9. \A i \in 1 .. n : a[i] = w[i]
    BY <1>3, <1>6, <1>8
  <1>10. a = w
    BY <1>5, <1>8, <1>9, SeqEqual
  <1> QED
    BY <1>7, <1>10 DEF a, u, w

\* The reader of data d behind the first n items, g being the data as it grew.
ReaderAt(items, g, d, n) ==
    [cursor |-> Cursor(d, Len(g[n]), IF n = 0 THEN <<>> ELSE items[n].value),
     values |-> Values(items, n)]

\* The reader after n rounds if m items lie within d.
After(items, g, d, m, n) ==
    IF n <= m THEN ReaderAt(items, g, d, n)
    ELSE [cursor |-> Get(ReaderAt(items, g, d, m).cursor, items[m + 1]),
          values |-> Values(items, m)]

\* One round of the reader.
LEMMA ReadRound ==
    ASSUME NEW items \in Seq(Item), Len(Written(items)) < Huge,
           NEW k \in 0 .. Len(Written(items)), NEW m \in 0 .. Len(items),
           CutAt(Growth(items), Len(items), k, m), NEW n \in 1 .. Len(items)
    PROVE  After(items, Growth(items), SubSeq(Written(items), 1, k), m, n)
             = ReadNext(After(items, Growth(items), SubSeq(Written(items), 1, k), m, n - 1),
                        items[n])
  <1> DEFINE g == Growth(items)
             N == Len(items)
             W == Written(items)
             d == SubSeq(W, 1, k)
             es == [i \in 1 .. N |-> Encoded(items[i])]
             B(i) == ReaderAt(items, g, d, i)
             A(i) == After(items, g, d, m, i)
  <1>1. N \in Nat /\ \A i \in 1 .. N : items[i] \in Item
    BY LenProperties
  <1>2. Joined(g, es, N)
    BY GrowthIs
  <1>3. W = g[N] /\ W \in Seq(Byte)
    <2>1. W = g[N] /\ N \in 0 .. N
      BY <1>1 DEF Written
    <2> QED
      BY <1>2, <2>1 DEF Joined
  <1>4. /\ d \in Seq(Byte) /\ Len(d) = k
        /\ \A o, l \in Nat : o + l <= k => Slice(d, o, l) = Slice(W, o, l)
    BY <1>3, SliceFront
  <1>5. \A i \in 0 .. N : g[i] \in Seq(Byte) /\ Len(g[i]) \in Nat
    BY <1>2, LenProperties DEF Joined
  <1>6. \A i \in 1 .. N : /\ es[i] = Encoded(items[i]) /\ es[i] \in Seq(Byte)
                          /\ Len(es[i]) \in Nat /\ i - 1 \in 0 .. N /\ i \in 0 .. N
                          /\ Len(g[i]) = Len(g[i - 1]) + Len(es[i])
    <2>1. ASSUME NEW i \in 1 .. N
          PROVE  /\ es[i] = Encoded(items[i]) /\ es[i] \in Seq(Byte)
                 /\ Len(es[i]) \in Nat /\ i - 1 \in 0 .. N /\ i \in 0 .. N
                 /\ Len(g[i]) = Len(g[i - 1]) + Len(es[i])
      <3>1. i - 1 \in 0 .. N /\ i \in 0 .. N
        BY <1>1
      <3>2. es[i] = Encoded(items[i])
        OBVIOUS
      <3> HIDE DEF es, g, N
      <3>3. es[i] \in Seq(Byte) /\ g[i] = g[i - 1] \o es[i]
        BY <1>2 DEF Joined
      <3>4. Len(es[i]) \in Nat
        BY <3>3, LenProperties
      <3>5. Len(g[i - 1] \o es[i]) = Len(g[i - 1]) + Len(es[i])
        BY <1>5, <3>1, <3>3, Concat
      <3> QED
        BY <3>1, <3>2, <3>3, <3>4, <3>5
    <2> QED
      BY <2>1
  <1>7. CutAt(g, N, k, m)
    OBVIOUS
  <1>8. Len(W) < Huge /\ Len(W) \in Nat /\ k \in Nat
    BY <1>3, LenProperties
  <1> HIDE DEF g, N, W, d, es
  <1>9. ASSUME NEW i \in 1 .. N PROVE Holds(d, Len(g[i - 1]), Encoded(items[i]))
    <2>1. ASSUME NEW o \in Nat, NEW l \in Nat, o + l <= Len(es[i]),
                 (Len(g[i - 1]) + o) + l <= Len(d)
          PROVE  Slice(d, Len(g[i - 1]) + o, l) = Slice(es[i], o, l)
      <3>1. Slice(g[N], Len(g[i - 1]) + o, l) = Slice(es[i], o, l)
        <4>1. PartsLie(g, es, N)
          BY <1>1, <1>2, PartsAre, Zenon
        <4> QED
          BY <2>1, <4>1 DEF PartsLie
      <3>2. Len(g[i - 1]) + o \in Nat
        BY <1>5, <1>6
      <3>3. Slice(d, Len(g[i - 1]) + o, l) = Slice(W, Len(g[i - 1]) + o, l)
        BY <1>4, <2>1, <3>2
      <3> QED
        BY <1>3, <3>1, <3>3
    <2> QED
      BY <1>6, <2>1 DEF Holds
  <1>10. ASSUME NEW i \in 1 .. N PROVE Len(Encoded(items[i])) < Huge
    <2>1. FrontOf(g[i], g[N])
      <3>1. i \in 0 .. N /\ N \in 0 .. N /\ i <= N
        BY <1>1
      <3> QED
        BY <1>1, <1>2, <3>1, JoinedGrows
    <2>2. Len(g[i]) <= Len(W)
      BY <1>3, <2>1 DEF FrontOf
    <2>3. \A a, b, c, f, h \in Nat : a = b + c /\ a <= f /\ f < h => c < h
      OBVIOUS
    <2>4. Huge \in Nat
      BY DEF Huge
    <2>5. Len(g[i]) \in Nat /\ Len(g[i - 1]) \in Nat /\ Len(es[i]) \in Nat
      BY <1>5, <1>6
    <2>6. Len(es[i]) < Huge
      BY <1>6, <1>8, <2>2, <2>3, <2>4, <2>5, Zenon
    <2> QED
      BY <1>6, <2>6
  <1>11. ASSUME NEW i \in 1 .. N, NEW v
         PROVE  Fetched(Get(Cursor(d, Len(g[i - 1]), v), items[i]), d, Len(g[i - 1]),
                        Len(Encoded(items[i])), items[i].value)
    <2>1. items[i] \in Item /\ Len(g[i - 1]) \in Nat
      BY <1>1, <1>5, <1>6
    <2>2. Len(Encoded(items[i])) < Huge /\ Holds(d, Len(g[i - 1]), Encoded(items[i]))
      BY <1>9, <1>10
    <2> QED
      BY <1>4, <2>1, <2>2, GetIs, Zenon
  <1>12. \A i : B(i).values = Values(items, i) /\
                B(i).cursor = Cursor(d, Len(g[i]), IF i = 0 THEN <<>> ELSE items[i].value)
    BY DEF ReaderAt
  <1>13. \A a, b, c : Cursor(a, b, c).ok = TRUE /\ Cursor(a, b, c).value = c
    BY DEF Cursor
  <1>14. /\ n \in 1 .. N /\ m \in 0 .. N /\ n - 1 \in 0 .. N /\ n \in 0 .. N
         /\ (n - 1) + 1 = n /\ n # 0
    BY <1>6 DEF N
  <1> DEFINE c == Get(B(n - 1).cursor, items[n])
  <1>15. Fetched(c, d, Len(g[n - 1]), Len(Encoded(items[n])), items[n].value)
    BY <1>11, <1>12, <1>14
  <1>16. Len(g[n - 1]) + Len(Encoded(items[n])) = Len(g[n])
    BY <1>6, <1>14
  <1>17. (Len(g[n]) <= k <=> n <= m) /\ Len(d) = k
    BY <1>4, <1>7, <1>14 DEF CutAt
  <1>18. CASE n <= m
    <2>1. n - 1 <= m
      BY <1>14, <1>18
    <2>2. c = Cursor(d, Len(g[n]), items[n].value)
      BY <1>15, <1>16, <1>17, <1>18, Zenon DEF Fetched
    <2>3. B(n - 1).cursor.ok = TRUE
      BY <1>12, <1>13
    <2>4. ReadNext(B(n - 1), items[n]) = [cursor |-> c, values |-> Append(B(n - 1).values, c.value)]
      <3>1. c.ok = TRUE
        BY <1>13, <2>2
      <3> QED
        BY <2>3, <3>1 DEF ReadNext
    <2>5. Append(B(n - 1).values, c.value) = Values(items, n)
      <3>1. Append(Values(items, n - 1), items[n].value) = Values(items, n)
        BY <1>14, ValuesGrow DEF N
      <3>2. c.value = items[n].value
        BY <1>13, <2>2
      <3> QED
        BY <1>12, <3>1, <3>2
    <2>6. B(n) = [cursor |-> c, values |-> Values(items, n)]
      BY <1>14, <2>2 DEF ReaderAt
    <2>7. A(n) = B(n) /\ A(n - 1) = B(n - 1)
      BY <1>18, <2>1 DEF After
    <2>8. A(n) = ReadNext(A(n - 1), items[n])
      BY <2>4, <2>5, <2>6, <2>7
    <2> QED
      BY <2>8 DEF d, g, W
  <1>19. CASE n = m + 1
    <2>1. ~(n <= m) /\ n - 1 = m /\ m <= m
      BY <1>14, <1>19
    <2>2. c.ok = FALSE
      BY <1>15, <1>16, <1>17, <2>1, Zenon DEF Fetched
    <2>3. B(n - 1).cursor.ok = TRUE
      BY <1>12, <1>13
    <2>4. ReadNext(B(n - 1), items[n]) = [cursor |-> c, values |-> B(n - 1).values]
      BY <2>2, <2>3 DEF ReadNext
    <2>5. A(n) = [cursor |-> c, values |-> Values(items, m)] /\ A(n - 1) = B(n - 1)
      BY <1>19, <2>1 DEF After
    <2>6. B(n - 1).values = Values(items, m)
      BY <1>12, <2>1
    <2>7. A(n) = ReadNext(A(n - 1), items[n])
      BY <2>4, <2>5, <2>6
    <2> QED
      BY <2>7 DEF d, g, W
  <1>20. CASE n > m + 1
    <2>1. ~(n <= m) /\ ~(n - 1 <= m) /\ m + 1 \in 1 .. N /\ (m + 1) - 1 = m /\ m + 1 \in 0 .. N
          /\ ~(m + 1 <= m)
      BY <1>1, <1>14, <1>20
    <2> DEFINE e == Get(B(m).cursor, items[m + 1])
    <2>2. Fetched(e, d, Len(g[m]), Len(Encoded(items[m + 1])), items[m + 1].value)
      BY <1>11, <1>12, <2>1
    <2>3. Len(g[m]) + Len(Encoded(items[m + 1])) = Len(g[m + 1])
      BY <1>6, <2>1
    <2>4. ~(Len(g[m + 1]) <= k)
      BY <1>7, <2>1 DEF CutAt
    <2>5. e.ok = FALSE
      BY <1>17, <2>2, <2>3, <2>4, Zenon DEF Fetched
    <2>6. A(n) = [cursor |-> e, values |-> Values(items, m)] /\ A(n - 1) = A(n)
      BY <2>1 DEF After
    <2>7. A(n - 1).cursor.ok = FALSE
      <3> HIDE DEF e
      <3> QED
        BY <2>5, <2>6
    <2>8. ReadNext(A(n - 1), items[n]) = A(n - 1)
      BY <2>7 DEF ReadNext
    <2>9. A(n) = ReadNext(A(n - 1), items[n])
      BY <2>6, <2>8
    <2> QED
      BY <2>9 DEF d, g, W
  <1>21. n <= m \/ n = m + 1 \/ n > m + 1
    BY <1>14
  <1> QED
    BY <1>18, <1>19, <1>20, <1>21

\* A reader gets back the values of the items that lie within its data.
LEMMA ReadsBack ==
    ASSUME NEW items \in Seq(Item), Len(Written(items)) < Huge,
           NEW k \in 0 .. Len(Written(items))
    PROVE  ReadBack(SubSeq(Written(items), 1, k), items) = ItemsWithin(items, k)
  <1> DEFINE g == Growth(items)
             N == Len(items)
             d == SubSeq(Written(items), 1, k)
             es == [i \in 1 .. N |-> Encoded(items[i])]
  <1>1. N \in Nat /\ Joined(g, es, N) /\ k \in Nat
    BY GrowthIs, LenProperties
  <1>2. PICK m \in 0 .. N : CutAt(g, N, k, m)
    <2> HIDE DEF g, N, es
    <2> QED
      BY <1>1, CutExists
  <1> DEFINE F(f) == [n \in 0 .. N |-> IF n = 0 THEN Reader(d) ELSE ReadNext(f[n - 1], items[n])]
             h == CHOOSE f : f = F(f)
             A(n) == After(items, g, d, m, n)
             a == [n \in 0 .. N |-> A(n)]
  <1>3. ReadBack(d, items) = h[N].values
    BY DEF ReadBack
  <1>4. \A n \in 1 .. N : A(n) = ReadNext(A(n - 1), items[n])
    BY <1>2, ReadRound
  <1>5. A(0) = Reader(d)
    <2>1. 0 <= m
      BY <1>1, <1>2
    <2>2. Values(items, 0) = <<>>
      BY DEF Values
    <2>3. Len(g[0]) = 0
      BY <1>1 DEF Joined
    <2> HIDE DEF d, g
    <2>4. ReaderAt(items, g, d, 0) = Reader(d)
      BY <2>2, <2>3 DEF ReaderAt, Reader, Cursor
    <2> QED
      BY <2>1, <2>4 DEF After
  <1> HIDE DEF A, N, d
  <1>6. /\ \A n \in 1 .. N : n - 1 \in 0 .. N /\ n \in 0 .. N /\ n # 0
        /\ \A n \in 0 .. N : n # 0 => n \in 1 .. N
        /\ 0 \in 0 .. N /\ N \in 0 .. N
    BY <1>1
  <1>7. a = F(a)
    BY <1>4, <1>5, <1>6
  <1>8. h = F(h)
    <2> HIDE DEF F, a
    <2> QED
      BY <1>7
  <1> HIDE DEF h
  <1>9. h[0] = Reader(d) /\ \A n \in 1 .. N : h[n] = ReadNext(h[n - 1], items[n])
    BY <1>6, <1>8
  <1>10. h[N] = A(N)
    <2> DEFINE S == {n \in 0 .. N : h[n] = A(n)}
    <2>1. 0 \in S
      BY <1>5, <1>6, <1>9
    <2>2. ASSUME NEW n \in 0 .. N - 1, n \in S PROVE n + 1 \in S
      <3>1. n + 1 \in 1 .. N /\ n + 1 \in 0 .. N /\ (n + 1) - 1 = n
        BY <1>1
      <3>2. h[n + 1] = ReadNext(h[n], items[n + 1]) /\ A(n + 1) = ReadNext(A(n), items[n + 1])
        BY <1>4, <1>9, <3>1
      <3> QED
        BY <2>2, <3>1, <3>2
    <2> HIDE DEF S
    <2>3. 0 .. N \subseteq S
      BY <1>1, <2>1, <2>2, BoundedInduction
    <2>4. N \in S
      BY <1>6, <2>3
    <2> QED
      BY <2>4 DEF S
  <1>11. A(N).values = Values(items, m)
    <2>1. CASE N <= m
      <3>1. m = N
        BY <1>1, <1>2, <2>1
      <3> QED
        BY <2>1, <3>1 DEF A, After, ReaderAt
    <2>2. CASE ~(N <= m)
      BY <2>2 DEF A, After
    <2> QED
      BY <2>1, <2>2
  <1>12. ItemsWithin(items, k) = Values(items, m)
    <2> DEFINE whole == {n \in 0 .. Len(items) : Len(Growth(items)[n]) <= k}
               top == CHOOSE n \in whole : \A j \in whole : j <= n
    <2>1. whole = {n \in 0 .. N : n <= m}
      BY <1>2 DEF CutAt, N
    <2>2. ItemsWithin(items, k) = Values(items, top)
      BY DEF ItemsWithin, Values
    <2> HIDE DEF whole
    <2>3. m \in whole /\ \A j \in whole : j <= m
      BY <1>1, <1>2, <2>1
    <2>4. \A n \in whole : (\A j \in whole : j <= n) => n = m
      BY <1>1, <1>2, <2>1, <2>3
    <2>5. top = m
      BY <2>3, <2>4
    <2> QED
      BY <2>2, <2>5
  <1> QED
    BY <1>3, <1>10, <1>11, <1>12 DEF d

\* A receiver that reads the payload of a delivered message with the gets that
\* match the appends gets exactly the values whose bytes are still there, for
\* payloads of any items, cut off anywhere.
THEOREM ItemsArrive == Spec => []ItemsReadBack
  <1>1. IInv => ItemsReadBack
    <2> SUFFICES ASSUME IInv, NEW i \in DOMAIN delivered, i <= Whole,
                        NEW k \in 0 .. Len(delivered[i].payload)
                 PROVE  ReadBack(SubSeq(delivered[i].payload, 1, k), sent[i].items)
                            = ItemsWithin(sent[i].items, k)
      BY DEF ItemsReadBack
    <2> DEFINE m == sent[i].message
    <2>1. Types /\ delivered[i] = Received(m)
      BY DEF IInv, FramesIntact
    <2>2. i \in 1 .. Len(sent)
      <3>1. delivered \in Seq(AnyMessage) /\ Len(delivered) \in Nat /\ Len(sent) \in Nat
            /\ Whole \in Nat /\ Whole <= Len(sent)
        BY <2>1, Basics DEF Types
      <3>2. i \in 1 .. Len(delivered)
        BY <3>1, LenProperties
      <3> QED
        BY <3>1, <3>2
    <2>3. sent[i] \in Outgoing /\ Sendable(m)
      BY <2>1, <2>2, Basics
    <2>4. sent[i].items \in Seq(Item) /\ m.payload = Written(sent[i].items)
      BY <2>3, WireAssumption
    <2>5. delivered[i].payload = m.payload
      <3>1. m \in AnyMessage
        BY <2>3 DEF Sendable
      <3> QED
        BY <2>1, <3>1 DEF Received, AnyMessage
    <2>6. Len(Written(sent[i].items)) < Huge
      <3>1. 16 + Len(m.payload) < Huge /\ Len(m.payload) \in Nat /\ Huge \in Nat
        <4>1. 16 + Len(m.payload) < Huge /\ m.payload \in Seq(Byte)
          BY <2>3 DEF Sendable, HEADER_SIZE, AnyMessage
        <4>2. Huge \in Nat
          BY DEF Huge
        <4> QED
          BY <4>1, <4>2, LenProperties
      <3>2. Len(m.payload) < Huge
        <4> HIDE DEF m
        <4> QED
          BY <3>1
      <3> QED
        BY <2>4, <3>2
    <2>7. k \in 0 .. Len(Written(sent[i].items))
      BY <2>4, <2>5
    <2> QED
      BY <2>4, <2>5, <2>6, <2>7, ReadsBack
  <1> QED
    BY <1>1, Invariance, PTL
-----------------------------------------------------------------------------
(* Entries and options of service discovery.                               *)

\* Three bytes keep a number modulo 2^24.
LEMMA ThreeBytes ==
    ASSUME NEW n \in Nat
    PROVE  Number(Bytes(n, 3)) = n % (256 * 256 * 256)
  <1> DEFINE s == Bytes(n, 3)
             a == High(n)
             b == High(a)
             c == High(b)
  <1>1. Len(s) = 3 /\ s[1] = Low(b) /\ s[2] = Low(a) /\ s[3] = Low(n)
    BY BytesAre
  <1>2. a \in Nat /\ b \in Nat /\ c \in Nat
    BY Halves
  <1>3. Join(a, Low(n)) = n /\ Join(b, Low(a)) = a /\ Join(c, Low(b)) = b
    BY <1>2, Halves
  <1>4. Low(n) \in Byte /\ Low(a) \in Byte /\ Low(b) \in Byte
    BY <1>2, Halves
  <1> HIDE DEF a, b, c, s
  <1>5. Number(s) = Join(Join(s[1], s[2]), s[3])
    BY <1>1 DEF Number
  <1>6. \A x, y, z \in 0 .. 255 : \A t \in Nat :
           (((t * 256 + x) * 256 + y) * 256 + z) % (256 * 256 * 256) = (x * 256 + y) * 256 + z
    OBVIOUS
  <1>7. \A x, y, z \in Byte : \A t \in Nat :
           Join(Join(Join(t, x), y), z) % (256 * 256 * 256) = Join(Join(x, y), z)
    BY <1>6 DEF Join, Byte
  <1>8. Join(Join(Join(c, Low(b)), Low(a)), Low(n)) % (256 * 256 * 256)
            = Join(Join(Low(b), Low(a)), Low(n))
    BY <1>2, <1>4, <1>7
  <1> QED
    BY <1>1, <1>3, <1>5, <1>8 DEF s

\* The fields of an entry lie where ServiceEntry::deserialize looks for them.
LEMMA EntryLayout ==
    ASSUME NEW e \in AnyEntry
    PROVE  /\ EntryBytes(e) \in Seq(Byte) /\ Len(EntryBytes(e)) = 16
           /\ Slice(EntryBytes(e), 0, 1) = <<e.type>>
           /\ Slice(EntryBytes(e), 1, 3) = e.options
           /\ Slice(EntryBytes(e), 4, 2) = Bytes(e.service_id, 2)
           /\ Slice(EntryBytes(e), 6, 2) = Bytes(e.instance_id, 2)
           /\ Slice(EntryBytes(e), 8, 1) = <<e.major_version>>
           /\ Slice(EntryBytes(e), 9, 3) = Bytes(e.ttl, 3)
           /\ Slice(EntryBytes(e), 12, 4) = e.minor_version
  <1> DEFINE A == <<e.type>>
             B == e.options
             C == Bytes(e.service_id, 2)
             D == Bytes(e.instance_id, 2)
             E == <<e.major_version>>
             F == Bytes(e.ttl, 3)
             G == e.minor_version
             AB == A \o B
             AC == AB \o C
             AD == AC \o D
             AE == AD \o E
             AF == AE \o F
             S == AF \o G
  <1>1. /\ e.type \in Byte /\ e.major_version \in Byte /\ e.ttl \in Nat
        /\ e.service_id \in Nat /\ e.instance_id \in Nat
        /\ B \in [1 .. 3 -> Byte] /\ G \in [1 .. 4 -> Byte]
    BY DEF AnyEntry, Uint16
  <1>2. A \in Seq(Byte) /\ Len(A) = 1 /\ E \in Seq(Byte) /\ Len(E) = 1
    BY <1>1
  <1>3. B \in Seq(Byte) /\ Len(B) = 3 /\ G \in Seq(Byte) /\ Len(G) = 4
    BY <1>1, IsSeq
  <1>4. /\ C \in Seq(Byte) /\ Len(C) = 2 /\ D \in Seq(Byte) /\ Len(D) = 2
        /\ F \in Seq(Byte) /\ Len(F) = 3
    BY <1>1, BytesAre
  <1>5. EntryBytes(e) = S
    BY DEF EntryBytes
  <1>6. AB = A \o B /\ AC = AB \o C /\ AD = AC \o D /\ AE = AD \o E /\ AF = AE \o F /\ S = AF \o G
    OBVIOUS
  <1> HIDE DEF A, B, C, D, E, F, G, AB, AC, AD, AE, AF, S
  <1>7. /\ AB \in Seq(Byte) /\ Len(AB) = 4 /\ Slice(AB, 1, 3) = B
         /\ \A o, l \in Nat : o + l <= 1 => Slice(AB, o, l) = Slice(A, o, l)
    <2>1. Grown(AB, A, B, 1, 3)
      BY <1>2, <1>3, <1>6, Extended, Zenon
    <2> QED
      BY <2>1 DEF Grown
  <1>8. /\ AC \in Seq(Byte) /\ Len(AC) = 6 /\ Slice(AC, 4, 2) = C
         /\ \A o, l \in Nat : o + l <= 4 => Slice(AC, o, l) = Slice(AB, o, l)
    <2>1. Grown(AC, AB, C, 4, 2)
      BY <1>4, <1>6, <1>7, Extended, Zenon
    <2> QED
      BY <2>1 DEF Grown
  <1>9. /\ AD \in Seq(Byte) /\ Len(AD) = 8 /\ Slice(AD, 6, 2) = D
         /\ \A o, l \in Nat : o + l <= 6 => Slice(AD, o, l) = Slice(AC, o, l)
    <2>1. Grown(AD, AC, D, 6, 2)
      BY <1>4, <1>6, <1>8, Extended, Zenon
    <2> QED
      BY <2>1 DEF Grown
  <1>10. /\ AE \in Seq(Byte) /\ Len(AE) = 9 /\ Slice(AE, 8, 1) = E
         /\ \A o, l \in Nat : o + l <= 8 => Slice(AE, o, l) = Slice(AD, o, l)
    <2>1. Grown(AE, AD, E, 8, 1)
      BY <1>2, <1>6, <1>9, Extended, Zenon
    <2> QED
      BY <2>1 DEF Grown
  <1>11. /\ AF \in Seq(Byte) /\ Len(AF) = 12 /\ Slice(AF, 9, 3) = F
         /\ \A o, l \in Nat : o + l <= 9 => Slice(AF, o, l) = Slice(AE, o, l)
    <2>1. Grown(AF, AE, F, 9, 3)
      BY <1>4, <1>6, <1>10, Extended, Zenon
    <2> QED
      BY <2>1 DEF Grown
  <1>12. /\ S \in Seq(Byte) /\ Len(S) = 16 /\ Slice(S, 12, 4) = G
         /\ \A o, l \in Nat : o + l <= 12 => Slice(S, o, l) = Slice(AF, o, l)
    <2>1. Grown(S, AF, G, 12, 4)
      BY <1>3, <1>6, <1>11, Extended, Zenon
    <2> QED
      BY <2>1 DEF Grown
  <1>13. Slice(A, 0, 1) = A
    BY <1>2, SliceAll
  <1>14. /\ Slice(S, 0, 1) = A /\ Slice(S, 1, 3) = B /\ Slice(S, 4, 2) = C
         /\ Slice(S, 6, 2) = D /\ Slice(S, 8, 1) = E /\ Slice(S, 9, 3) = F
         /\ Slice(S, 12, 4) = G
    BY <1>7, <1>8, <1>9, <1>10, <1>11, <1>12, <1>13
  <1> QED
    BY <1>5, <1>12, <1>14 DEF A, B, C, D, E, F, G

\* The fields of an option.
LEMMA OptionLayout ==
    ASSUME NEW p \in AnyOption
    PROVE  /\ OptionBytes(p) \in Seq(Byte) /\ Len(OptionBytes(p)) = 12
           /\ Slice(OptionBytes(p), 0, 2) = Bytes(9, 2)
           /\ Slice(OptionBytes(p), 2, 2) = <<p.type, 0>>
           /\ Slice(OptionBytes(p), 4, 4) = p.address
           /\ Slice(OptionBytes(p), 8, 2) = <<0, p.protocol>>
           /\ Slice(OptionBytes(p), 10, 2) = Bytes(p.port, 2)
  <1> DEFINE A == Bytes(9, 2)
             B == <<p.type, 0>>
             C == p.address
             D == <<0, p.protocol>>
             E == Bytes(p.port, 2)
             AB == A \o B
             AC == AB \o C
             AD == AC \o D
             S == AD \o E
  <1>1. /\ p.type \in Byte /\ p.protocol \in Byte /\ p.port \in Nat /\ C \in [1 .. 4 -> Byte]
    BY DEF AnyOption, Uint16
  <1>2. B \in Seq(Byte) /\ Len(B) = 2 /\ D \in Seq(Byte) /\ Len(D) = 2
    BY <1>1 DEF Byte
  <1>3. C \in Seq(Byte) /\ Len(C) = 4
    BY <1>1, IsSeq
  <1>4. A \in Seq(Byte) /\ Len(A) = 2 /\ E \in Seq(Byte) /\ Len(E) = 2
    <2>1. 9 \in Nat
      OBVIOUS
    <2> QED
      BY <1>1, <2>1, BytesAre
  <1>5. OptionBytes(p) = S
    BY DEF OptionBytes
  <1>6. AB = A \o B /\ AC = AB \o C /\ AD = AC \o D /\ S = AD \o E
    OBVIOUS
  <1> HIDE DEF A, B, C, D, E, AB, AC, AD, S
  <1>7. /\ AB \in Seq(Byte) /\ Len(AB) = 4 /\ Slice(AB, 2, 2) = B
         /\ \A o, l \in Nat : o + l <= 2 => Slice(AB, o, l) = Slice(A, o, l)
    <2>1. Grown(AB, A, B, 2, 2)
      BY <1>2, <1>4, <1>6, Extended, Zenon
    <2> QED
      BY <2>1 DEF Grown
  <1>8. /\ AC \in Seq(Byte) /\ Len(AC) = 8 /\ Slice(AC, 4, 4) = C
         /\ \A o, l \in Nat : o + l <= 4 => Slice(AC, o, l) = Slice(AB, o, l)
    <2>1. Grown(AC, AB, C, 4, 4)
      BY <1>3, <1>6, <1>7, Extended, Zenon
    <2> QED
      BY <2>1 DEF Grown
  <1>9. /\ AD \in Seq(Byte) /\ Len(AD) = 10 /\ Slice(AD, 8, 2) = D
         /\ \A o, l \in Nat : o + l <= 8 => Slice(AD, o, l) = Slice(AC, o, l)
    <2>1. Grown(AD, AC, D, 8, 2)
      BY <1>2, <1>6, <1>8, Extended, Zenon
    <2> QED
      BY <2>1 DEF Grown
  <1>10. /\ S \in Seq(Byte) /\ Len(S) = 12 /\ Slice(S, 10, 2) = E
         /\ \A o, l \in Nat : o + l <= 10 => Slice(S, o, l) = Slice(AD, o, l)
    <2>1. Grown(S, AD, E, 10, 2)
      BY <1>4, <1>6, <1>9, Extended, Zenon
    <2> QED
      BY <2>1 DEF Grown
  <1>11. Slice(A, 0, 2) = A
    BY <1>4, SliceAll
  <1>12. /\ Slice(S, 0, 2) = A /\ Slice(S, 2, 2) = B /\ Slice(S, 4, 4) = C
         /\ Slice(S, 8, 2) = D /\ Slice(S, 10, 2) = E
    BY <1>7, <1>8, <1>9, <1>10, <1>11
  <1> QED
    BY <1>5, <1>10, <1>12 DEF A, B, C, D, E

\* From position p on, u holds all of e.
Holding(u, p, e) ==
    /\ u \in Seq(Byte) /\ p \in Nat /\ p + Len(e) <= Len(u)
    /\ \A o, l \in Nat : o + l <= Len(e) => Slice(u, p + o, l) = Slice(e, o, l)

\* ServiceEntry::deserialize gives back an entry but for the bits of the TTL
\* that are not on the wire.
LEMMA EntryReadAt ==
    ASSUME NEW e \in AnyEntry, NEW u, NEW p, Holding(u, p, EntryBytes(e))
    PROVE  EntryAt(u, p) = [e EXCEPT !.ttl = @ % (256 * 256 * 256)]
  <1> DEFINE s == EntryBytes(e)
             T == e.ttl % (256 * 256 * 256)
  <1>1. /\ e.type \in Byte /\ e.major_version \in Byte /\ e.ttl \in Nat
        /\ e.service_id \in Uint16 /\ e.instance_id \in Uint16
    BY DEF AnyEntry
  <1>2. Len(s) = 16 /\ p \in Nat
    BY EntryLayout DEF Holding
  <1>3. /\ Slice(u, p + 0, 1) = <<e.type>> /\ Slice(u, p + 1, 3) = e.options
        /\ Slice(u, p + 4, 2) = Bytes(e.service_id, 2)
        /\ Slice(u, p + 6, 2) = Bytes(e.instance_id, 2)
        /\ Slice(u, p + 8, 1) = <<e.major_version>>
        /\ Slice(u, p + 9, 3) = Bytes(e.ttl, 3)
        /\ Slice(u, p + 12, 4) = e.minor_version
    <2>1. \A o, l \in Nat : o + l <= 16 => Slice(u, p + o, l) = Slice(s, o, l)
      BY <1>2 DEF Holding
    <2> HIDE DEF s
    <2>2. /\ Slice(u, p + 0, 1) = Slice(s, 0, 1) /\ Slice(u, p + 1, 3) = Slice(s, 1, 3)
          /\ Slice(u, p + 4, 2) = Slice(s, 4, 2) /\ Slice(u, p + 6, 2) = Slice(s, 6, 2)
          /\ Slice(u, p + 8, 1) = Slice(s, 8, 1) /\ Slice(u, p + 9, 3) = Slice(s, 9, 3)
          /\ Slice(u, p + 12, 4) = Slice(s, 12, 4)
      BY <2>1
    <2> QED
      BY <2>2, EntryLayout DEF s
  <1>4. /\ Number(<<e.type>>) = e.type /\ Number(<<e.major_version>>) = e.major_version
        /\ Number(Bytes(e.service_id, 2)) = e.service_id
        /\ Number(Bytes(e.instance_id, 2)) = e.instance_id
    BY <1>1, OneByte, TwoBytes
  <1>5. Number(Bytes(e.ttl, 3)) = T
    BY <1>1, ThreeBytes
  <1> HIDE DEF T
  <1>6. EntryAt(u, p) =
            [type |-> e.type, options |-> e.options, service_id |-> e.service_id,
             instance_id |-> e.instance_id, major_version |-> e.major_version,
             ttl |-> T, minor_version |-> e.minor_version]
    BY <1>3, <1>4, <1>5 DEF EntryAt
  <1>7. [e EXCEPT !.ttl = T] =
            [type |-> e.type, options |-> e.options, service_id |-> e.service_id,
             instance_id |-> e.instance_id, major_version |-> e.major_version,
             ttl |-> T, minor_version |-> e.minor_version]
    BY DEF AnyEntry
  <1>8. EntryAt(u, p) = [e EXCEPT !.ttl = T]
    BY <1>6, <1>7
  <1> QED
    BY <1>8 DEF T

\* The types of option the parser knows.
Known(p) == p.type \in {IPv4_ENDPOINT, IPv4_MULTICAST}

\* SdOption::deserialize gives back an option of a known type and nothing for
\* others.
LEMMA OptionReadAt ==
    ASSUME NEW p \in AnyOption, NEW u, NEW a, Holding(u, a, OptionBytes(p)),
           NEW n \in Nat, n >= 12
    PROVE  OptionAt(u, a, n) = IF Known(p) THEN <<p>> ELSE <<>>
  <1> DEFINE s == OptionBytes(p)
  <1>1. /\ p.type \in Byte /\ p.protocol \in Byte /\ p.port \in Uint16
        /\ p.type = IPv4_MULTICAST => p.protocol = 0
    BY DEF AnyOption
  <1>2. Len(s) = 12 /\ a \in Nat /\ u \in Seq(Byte) /\ a + 12 <= Len(u) /\ Len(u) \in Nat
    BY OptionLayout, LenProperties DEF Holding
  <1>3. /\ Slice(u, a, 2) = Bytes(9, 2) /\ Slice(u, a + 2, 2) = <<p.type, 0>>
        /\ Slice(u, a + 4, 4) = p.address /\ Slice(u, a + 8, 2) = <<0, p.protocol>>
        /\ Slice(u, a + 10, 2) = Bytes(p.port, 2)
    <2>1. \A o, l \in Nat : o + l <= 12 => Slice(u, a + o, l) = Slice(s, o, l)
      BY <1>2 DEF Holding
    <2> HIDE DEF s
    <2>2. /\ Slice(u, a + 0, 2) = Slice(s, 0, 2) /\ Slice(u, a + 2, 2) = Slice(s, 2, 2)
          /\ Slice(u, a + 4, 4) = Slice(s, 4, 4) /\ Slice(u, a + 8, 2) = Slice(s, 8, 2)
          /\ Slice(u, a + 10, 2) = Slice(s, 10, 2)
      BY <2>1
    <2>3. a + 0 = a
      BY <1>2
    <2> QED
      BY <2>2, <2>3, OptionLayout DEF s
  <1>4. u[a + 3] = p.type /\ u[a + 10] = p.protocol
    <2>1. /\ a + 2 \in Nat /\ (a + 2) + 2 <= Len(u) /\ (a + 2) + 1 = a + 3
          /\ a + 8 \in Nat /\ (a + 8) + 2 <= Len(u) /\ (a + 8) + 2 = a + 10
          /\ 2 \in Nat /\ 1 \in 1 .. 2 /\ 2 \in 1 .. 2
      BY <1>2
    <2>2. /\ \A i \in 1 .. 2 : Slice(u, a + 2, 2)[i] = u[(a + 2) + i]
          /\ \A i \in 1 .. 2 : Slice(u, a + 8, 2)[i] = u[(a + 8) + i]
      BY <1>2, <2>1, SliceIs, Zenon
    <2>3. Slice(u, a + 2, 2)[1] = u[a + 3] /\ Slice(u, a + 8, 2)[2] = u[a + 10]
      BY <2>1, <2>2
    <2>4. <<p.type, 0>>[1] = p.type /\ <<0, p.protocol>>[2] = p.protocol
      OBVIOUS
    <2> QED
      BY <1>3, <2>3, <2>4
  <1>5. Number(Slice(u, a, 2)) = 9 /\ Number(Slice(u, a + 10, 2)) = p.port
    <2>1. 9 \in Uint16
      BY DEF Uint16
    <2> QED
      BY <1>1, <1>3, <2>1, TwoBytes
  <1> DEFINE R == [type |-> p.type, address |-> p.address,
                   protocol |-> IF p.type = IPv4_ENDPOINT THEN p.protocol ELSE 0,
                   port |-> p.port]
  <1>6. OptionAt(u, a, n) =
            IF n < 4 \/ n < 2 + 9 \/ ~Known(p) \/ 9 # 9 THEN <<>> ELSE <<R>>
    BY <1>3, <1>4, <1>5 DEF OptionAt, Known
  <1>7. Known(p) => R = p
    <2> SUFFICES ASSUME Known(p) PROVE R = p
      OBVIOUS
    <2>1. (IF p.type = IPv4_ENDPOINT THEN p.protocol ELSE 0) = p.protocol
      BY <1>1 DEF Known
    <2>2. R = [type |-> p.type, address |-> p.address, protocol |-> p.protocol, port |-> p.port]
      BY <2>1
    <2> QED
      BY <2>2 DEF AnyOption
  <1>8. ~(n < 4) /\ ~(n < 2 + 9)
    OBVIOUS
  <1> HIDE DEF R
  <1> QED
    BY <1>6, <1>7, <1>8

\* FlattenSeq puts parts one behind the other.
LEMMA FlattenIs ==
    ASSUME NEW N \in Nat, NEW es \in [1 .. N -> Seq(Byte)]
    PROVE  \E g : Joined(g, es, N) /\ FlattenSeq(es) = g[N]
  <1>1. PICK g : Joined(g, es, N)
    BY JoinedExists
  <1>2. es \in Seq(Seq(Byte)) /\ Len(es) = N
    BY IsSeq
  <1>3. CASE N = 0
    <2>1. es = <<>> /\ g[0] = <<>>
      BY <1>1, <1>2, <1>3, EmptySeq DEF Joined
    <2>2. FlattenSeq(es) = es
      BY <1>2, <1>3 DEF FlattenSeq
    <2> QED
      BY <1>1, <1>3, <2>1, <2>2
  <1>4. CASE N # 0
    <2> DEFINE F(f) == [i \in 1 .. N |-> IF i = 1 THEN es[i] ELSE f[i - 1] \o es[i]]
               h == CHOOSE f : f = F(f)
               a == [i \in 1 .. N |-> g[i]]
    <2>1. FlattenSeq(es) = h[N]
      BY <1>2, <1>4 DEF FlattenSeq
    <2>2. /\ \A i \in 1 .. N : i # 1 => i - 1 \in 1 .. N
          /\ 1 \in 1 .. N /\ 1 - 1 = 0 /\ N \in 1 .. N
      BY <1>4
    <2>3. \A i \in 1 .. N : g[i] = g[i - 1] \o es[i]
      BY <1>1 DEF Joined
    <2>4. g[1] = es[1]
      <3>1. g[1] = <<>> \o es[1] /\ es[1] \in Seq(Byte)
        BY <1>1, <2>2, <2>3 DEF Joined
      <3> QED
        BY <3>1, ConcatEmptySeq
    <2>5. a = F(a)
      BY <2>2, <2>3, <2>4
    <2>6. h = F(h)
      <3> HIDE DEF F, a
      <3> QED
        BY <2>5
    <2> HIDE DEF h
    <2>7. h[1] = es[1] /\ \A i \in 1 .. N : i # 1 => h[i] = h[i - 1] \o es[i]
      BY <2>2, <2>6
    <2> DEFINE S == {n \in 0 .. N : n = 0 \/ h[n] = g[n]}
    <2>8. 0 \in S
      OBVIOUS
    <2>9. ASSUME NEW n \in 0 .. N - 1, n \in S PROVE n + 1 \in S
      <3>1. n + 1 \in 1 .. N /\ n + 1 \in 0 .. N /\ (n + 1) - 1 = n
        OBVIOUS
      <3>2. CASE n = 0
        <4>1. n + 1 = 1
          BY <3>2
        <4> QED
          BY <2>4, <2>7, <3>1, <4>1
      <3>3. CASE n # 0
        <4>1. n + 1 # 1 /\ h[n] = g[n]
          BY <2>9, <3>3
        <4>2. h[n + 1] = h[n] \o es[n + 1] /\ g[n + 1] = g[n] \o es[n + 1]
          BY <2>3, <2>7, <3>1, <4>1
        <4> QED
          BY <3>1, <4>1, <4>2
      <3> QED
        BY <3>2, <3>3
    <2> HIDE DEF S
    <2>10. 0 .. N \subseteq S
      BY <2>8, <2>9, BoundedInduction
    <2>11. N \in S
      BY <2>10
    <2>12. h[N] = g[N]
      BY <1>4, <2>11 DEF S
    <2> QED
      BY <1>1, <2>1, <2>12
  <1> QED
    BY <1>3, <1>4

\* N records es of w bytes each make up u.
Records(u, es, N, w) ==
    /\ u \in Seq(Byte) /\ Len(u) = w * N
    /\ \A n \in 1 .. N : \A o, l \in Nat :
          o + l <= w => Slice(u, w * (n - 1) + o, l) = Slice(es[n], o, l)

\* Records of one size lie at the multiples of that size.
LEMMA FlattenRecords ==
    ASSUME NEW N \in Nat, NEW es \in [1 .. N -> Seq(Byte)], NEW w \in {12, 16},
           \A n \in 1 .. N : Len(es[n]) = w
    PROVE  Records(FlattenSeq(es), es, N, w)
  <1>1. PICK g : Joined(g, es, N) /\ FlattenSeq(es) = g[N]
    BY FlattenIs
  <1>2. \A n \in 0 .. N : g[n] \in Seq(Byte)
    BY <1>1 DEF Joined
  <1> DEFINE S == {n \in 0 .. N : Len(g[n]) = w * n}
  <1>3. 0 \in S
    BY <1>1 DEF Joined
  <1>4. ASSUME NEW n \in 0 .. N - 1, n \in S PROVE n + 1 \in S
    <2>1. n + 1 \in 1 .. N /\ n + 1 \in 0 .. N /\ (n + 1) - 1 = n /\ n \in 0 .. N
      OBVIOUS
    <2>2. g[n + 1] = g[n] \o es[n + 1] /\ es[n + 1] \in Seq(Byte)
      BY <1>1, <2>1 DEF Joined
    <2>3. Len(g[n] \o es[n + 1]) = Len(g[n]) + Len(es[n + 1])
      BY <1>2, <2>1, <2>2, Concat
    <2>4. Len(es[n + 1]) = w /\ Len(g[n]) = w * n
      BY <1>4, <2>1
    <2>5. w * n + w = w * (n + 1)
      <3>1. CASE w = 12
        BY <3>1
      <3>2. CASE w = 16
        BY <3>2
      <3> QED
        BY <3>1, <3>2
    <2>6. Len(g[n + 1]) = w * (n + 1)
      BY <2>2, <2>3, <2>4, <2>5, Zenon
    <2> QED
      BY <2>1, <2>6
  <1>5. 0 .. N \subseteq S
    <2> HIDE DEF S
    <2> QED
      BY <1>3, <1>4, BoundedInduction
  <1>6. \A n \in 0 .. N : Len(g[n]) = w * n
    BY <1>5
  <1>7. ASSUME NEW n \in 1 .. N, NEW o \in Nat, NEW l \in Nat, o + l <= w
        PROVE  Slice(g[N], w * (n - 1) + o, l) = Slice(es[n], o, l)
    <2>1. n - 1 \in 0 .. N /\ o + l <= Len(es[n])
      BY <1>7
    <2>2. Slice(g[N], Len(g[n - 1]) + o, l) = Slice(es[n], o, l)
      <3>1. PartsLie(g, es, N)
        BY <1>1, PartsAre, Zenon
      <3> QED
        BY <2>1, <3>1 DEF PartsLie
    <2>3. Len(g[n - 1]) = w * (n - 1)
      BY <1>6, <2>1
    <2> QED
      BY <2>2, <2>3
  <1>8. N \in 0 .. N
    OBVIOUS
  <1>9. g[N] \in Seq(Byte) /\ Len(g[N]) = w * N
    BY <1>2, <1>6, <1>8
  <1> QED
    BY <1>1, <1>7, <1>9 DEF Records

\* Data in the middle of other data.
LEMMA SliceInside ==
    ASSUME NEW u \in Seq(Byte), NEW v \in Seq(Byte), NEW w \in Seq(Byte)
    PROVE  \A o, l \in Nat : o + l <= Len(v) =>
               Slice((u \o v) \o w, Len(u) + o, l) = Slice(v, o, l)
  <1> TAKE o, l \in Nat
  <1> SUFFICES ASSUME o + l <= Len(v)
               PROVE  Slice((u \o v) \o w, Len(u) + o, l) = Slice(v, o, l)
    OBVIOUS
  <1>1. u \o v \in Seq(Byte) /\ Len(u \o v) = Len(u) + Len(v)
    BY Concat
  <1>2. Len(u) \in Nat /\ Len(v) \in Nat
    BY LenProperties
  <1>3. Len(u) + o \in Nat /\ (Len(u) + o) + l <= Len(u \o v)
    BY <1>1, <1>2
  <1>4. Slice((u \o v) \o w, Len(u) + o, l) = Slice(u \o v, Len(u) + o, l)
    BY <1>1, <1>3, SliceLeft, Zenon
  <1>5. Slice(u \o v, Len(u) + o, l) = Slice(v, o, l)
    BY SliceRight, Zenon
  <1> QED
    BY <1>4, <1>5

\* Where the parts of an SD message lie.
SdParts(P, entries, options) ==
    /\ P \in Seq(Byte) /\ Len(P) = 12 + 16 * Len(entries) + 12 * Len(options)
    /\ Slice(P, 4, 4) = Bytes(16 * Len(entries), 4)
    /\ Slice(P, 8 + 16 * Len(entries), 4) = Bytes(12 * Len(options), 4)
    /\ \A n \in 1 .. Len(entries) : Holding(P, 8 + (n - 1) * 16, EntryBytes(entries[n]))
    /\ \A n \in 1 .. Len(options) :
          Holding(P, 12 + 16 * Len(entries) + (n - 1) * 12, OptionBytes(options[n]))

\* Where the parts of an SD payload lie.
LEMMA SdLayout ==
    ASSUME NEW entries \in Seq(AnyEntry), NEW options \in Seq(AnyOption)
    PROVE  SdParts(SdPayload(entries, options), entries, options)
  <1> DEFINE N == Len(entries)
             M == Len(options)
             eb == [i \in DOMAIN entries |-> EntryBytes(entries[i])]
             ob == [i \in DOMAIN options |-> OptionBytes(options[i])]
             es == FlattenSeq(eb)
             os == FlattenSeq(ob)
             Z == <<0, 0, 0, 0>>
             A == Bytes(Len(es), 4)
             B == Bytes(Len(os), 4)
             ZA == Z \o A
             ZE == ZA \o es
             ZB == ZE \o B
             P == ZB \o os
  <1>1. /\ N \in Nat /\ M \in Nat /\ DOMAIN entries = 1 .. N /\ DOMAIN options = 1 .. M
        /\ \A i \in 1 .. N : entries[i] \in AnyEntry
        /\ \A i \in 1 .. M : options[i] \in AnyOption
    BY LenProperties
  <1>2. /\ \A i \in 1 .. N : /\ eb[i] = EntryBytes(entries[i])
                             /\ eb[i] \in Seq(Byte) /\ Len(eb[i]) = 16
        /\ eb \in [1 .. N -> Seq(Byte)]
    BY <1>1, EntryLayout
  <1>3. /\ \A i \in 1 .. M : /\ ob[i] = OptionBytes(options[i])
                             /\ ob[i] \in Seq(Byte) /\ Len(ob[i]) = 12
        /\ ob \in [1 .. M -> Seq(Byte)]
    BY <1>1, OptionLayout
  <1>4. SdPayload(entries, options) = P
    BY DEF SdPayload
  <1> HIDE DEF eb, ob, N, M
  <1>5. Records(es, eb, N, 16)
    <2>1. 16 \in {12, 16}
      OBVIOUS
    <2> QED
      BY <1>1, <1>2, <2>1, FlattenRecords, Zenon
  <1>6. Records(os, ob, M, 12)
    <2>1. 12 \in {12, 16}
      OBVIOUS
    <2> QED
      BY <1>1, <1>3, <2>1, FlattenRecords, Zenon
  <1>7. es \in Seq(Byte) /\ Len(es) = 16 * N /\ os \in Seq(Byte) /\ Len(os) = 12 * M
    BY <1>5, <1>6 DEF Records
  <1>8. Z \in Seq(Byte) /\ Len(Z) = 4
    BY DEF Byte
  <1> HIDE DEF es, os, Z
  <1>9. A \in Seq(Byte) /\ Len(A) = 4 /\ B \in Seq(Byte) /\ Len(B) = 4
    <2>1. Len(es) \in Nat /\ Len(os) \in Nat
      BY <1>7, LenProperties
    <2> QED
      BY <2>1, BytesAre
  <1>10. A = Bytes(16 * N, 4) /\ B = Bytes(12 * M, 4)
    BY <1>7
  <1> HIDE DEF A, B
  <1>11. /\ ZA \in Seq(Byte) /\ Len(ZA) = 8
         /\ ZE \in Seq(Byte) /\ Len(ZE) = 8 + 16 * N
         /\ ZB \in Seq(Byte) /\ Len(ZB) = 12 + 16 * N
         /\ P \in Seq(Byte) /\ Len(P) = 12 + 16 * N + 12 * M
    <2>1. ZA \in Seq(Byte) /\ Len(ZA) = 8
      <3>1. ZA \in Seq(Byte) /\ Len(ZA) = Len(Z) + Len(A)
        BY <1>8, <1>9, Concat, Zenon
      <3> QED
        BY <1>8, <1>9, <3>1
    <2> HIDE DEF ZA
    <2>2. ZE \in Seq(Byte) /\ Len(ZE) = 8 + 16 * N
      BY <1>7, <2>1, Concat
    <2> HIDE DEF ZE
    <2>3. ZB \in Seq(Byte) /\ Len(ZB) = (8 + 16 * N) + 4
      BY <1>9, <2>2, Concat
    <2> HIDE DEF ZB
    <2>4. P \in Seq(Byte) /\ Len(P) = ((8 + 16 * N) + 4) + 12 * M
      BY <1>7, <2>3, Concat
    <2>5. (8 + 16 * N) + 4 = 12 + 16 * N /\ ((8 + 16 * N) + 4) + 12 * M = 12 + 16 * N + 12 * M
      BY <1>1
    <2> QED
      BY <2>1, <2>2, <2>3, <2>4, <2>5
  \* What is in front stays.
  <1>12. \A o, l \in Nat : o + l <= 8 + 16 * N => Slice(P, o, l) = Slice(ZE, o, l)
    <2> HIDE DEF ZE, ZA
    <2> SUFFICES ASSUME NEW o \in Nat, NEW l \in Nat, o + l <= 8 + 16 * N
                 PROVE  Slice(P, o, l) = Slice(ZE, o, l)
      OBVIOUS
    <2>1. o + l <= Len(ZE) /\ o + l <= Len(ZB)
      BY <1>1, <1>11
    <2>2. Slice(ZE \o B, o, l) = Slice(ZE, o, l)
      BY <1>9, <1>11, <2>1, SliceLeft, Zenon
    <2>3. Slice(ZB \o os, o, l) = Slice(ZB, o, l)
      <3> HIDE DEF ZB
      <3> QED
        BY <1>7, <1>11, <2>1, SliceLeft, Zenon
    <2> QED
      BY <2>2, <2>3
  <1>13. \A o, l \in Nat : o + l <= 16 * N => Slice(P, 8 + o, l) = Slice(es, o, l)
    <2> HIDE DEF ZA
    <2> SUFFICES ASSUME NEW o \in Nat, NEW l \in Nat, o + l <= 16 * N
                 PROVE  Slice(P, 8 + o, l) = Slice(es, o, l)
      OBVIOUS
    <2>1. 8 + o \in Nat /\ (8 + o) + l <= 8 + 16 * N
      BY <1>1
    <2>2. Slice(P, 8 + o, l) = Slice(ZE, 8 + o, l)
      <3> HIDE DEF P, ZE
      <3> QED
        BY <1>12, <2>1
    <2>3. Slice(ZA \o es, Len(ZA) + o, l) = Slice(es, o, l)
      <3>1. o + l <= Len(es)
        BY <1>7
      <3>2. ZA \in Seq(Byte) /\ es \in Seq(Byte)
        BY <1>7, <1>11
      <3> QED
        BY <3>1, <3>2, SliceRight, Zenon
    <2> QED
      BY <1>11, <2>2, <2>3
  <1>14. \A o, l \in Nat : o + l <= 12 * M => Slice(P, (12 + 16 * N) + o, l) = Slice(os, o, l)
    <2> HIDE DEF ZB
    <2> SUFFICES ASSUME NEW o \in Nat, NEW l \in Nat, o + l <= 12 * M
                 PROVE  Slice(P, (12 + 16 * N) + o, l) = Slice(os, o, l)
      OBVIOUS
    <2>1. Slice(ZB \o os, Len(ZB) + o, l) = Slice(os, o, l)
      <3>1. o + l <= Len(os)
        BY <1>7
      <3>2. ZB \in Seq(Byte) /\ os \in Seq(Byte)
        BY <1>7, <1>11
      <3> QED
        BY <3>1, <3>2, SliceRight, Zenon
    <2> QED
      BY <1>11, <2>1
  <1>15. Slice(P, 4, 4) = A
    <2>1. Slice(P, 4, 4) = Slice(ZE, 4, 4)
      <3> HIDE DEF P, ZE
      <3> QED
        BY <1>1, <1>12
    <2>2. Slice((Z \o A) \o es, Len(Z) + 0, 4) = Slice(A, 0, 4)
      <3>1. 0 \in Nat /\ 4 \in Nat /\ 0 + 4 <= Len(A)
        BY <1>9
      <3> QED
        <4>1. Z \in Seq(Byte) /\ A \in Seq(Byte) /\ es \in Seq(Byte)
          BY <1>7, <1>8, <1>9
        <4>2. \A x, y \in Nat : x + y <= Len(A) =>
                 Slice((Z \o A) \o es, Len(Z) + x, y) = Slice(A, x, y)
          BY <4>1, SliceInside, Zenon
        <4> QED
          BY <3>1, <4>2
    <2>3. Slice(A, 0, 4) = A
      BY <1>9, SliceAll
    <2> QED
      BY <1>8, <2>1, <2>2, <2>3
  <1>16. Slice(P, 8 + 16 * N, 4) = B
    <2> HIDE DEF ZE
    <2>1. Slice((ZE \o B) \o os, Len(ZE) + 0, 4) = Slice(B, 0, 4)
      <3>1. 0 \in Nat /\ 4 \in Nat /\ 0 + 4 <= Len(B)
        BY <1>9
      <3> QED
        <4>1. ZE \in Seq(Byte) /\ B \in Seq(Byte) /\ os \in Seq(Byte)
          BY <1>7, <1>9, <1>11
        <4>2. \A x, y \in Nat : x + y <= Len(B) =>
                 Slice((ZE \o B) \o os, Len(ZE) + x, y) = Slice(B, x, y)
          BY <4>1, SliceInside, Zenon
        <4> QED
          BY <3>1, <4>2
    <2>2. Slice(B, 0, 4) = B
      BY <1>9, SliceAll
    <2>3. Len(ZE) + 0 = 8 + 16 * N
      BY <1>1, <1>11
    <2> QED
      BY <2>1, <2>2, <2>3
  <1> HIDE DEF P, ZA, ZE, ZB
  <1>17. ASSUME NEW n \in 1 .. N PROVE Holding(P, 8 + (n - 1) * 16, EntryBytes(entries[n]))
    <2>1. Len(EntryBytes(entries[n])) = 16
      BY <1>2
    <2>2. 8 + (n - 1) * 16 \in Nat /\ (8 + (n - 1) * 16) + 16 <= Len(P)
      BY <1>1, <1>11
    <2>3. ASSUME NEW o \in Nat, NEW l \in Nat, o + l <= 16
          PROVE  Slice(P, (8 + (n - 1) * 16) + o, l) = Slice(EntryBytes(entries[n]), o, l)
      <3>1. /\ 16 * (n - 1) + o \in Nat /\ (16 * (n - 1) + o) + l <= 16 * N
            /\ (8 + (n - 1) * 16) + o = 8 + (16 * (n - 1) + o)
        BY <1>1, <2>3
      <3>2. Slice(P, 8 + (16 * (n - 1) + o), l) = Slice(es, 16 * (n - 1) + o, l)
        BY <1>13, <3>1
      <3>3. Slice(es, 16 * (n - 1) + o, l) = Slice(eb[n], o, l)
        BY <1>5, <2>3 DEF Records
      <3> QED
        BY <1>2, <3>1, <3>2, <3>3
    <2> QED
      BY <1>11, <2>1, <2>2, <2>3 DEF Holding
  <1>18. ASSUME NEW n \in 1 .. M
         PROVE  Holding(P, 12 + 16 * N + (n - 1) * 12, OptionBytes(options[n]))
    <2>1. Len(OptionBytes(options[n])) = 12
      BY <1>3
    <2>2. 12 + 16 * N + (n - 1) * 12 \in Nat /\ (12 + 16 * N + (n - 1) * 12) + 12 <= Len(P)
      BY <1>1, <1>11
    <2>3. ASSUME NEW o \in Nat, NEW l \in Nat, o + l <= 12
          PROVE  Slice(P, (12 + 16 * N + (n - 1) * 12) + o, l)
                   = Slice(OptionBytes(options[n]), o, l)
      <3>1. /\ 12 * (n - 1) + o \in Nat /\ (12 * (n - 1) + o) + l <= 12 * M
            /\ (12 + 16 * N + (n - 1) * 12) + o = (12 + 16 * N) + (12 * (n - 1) + o)
        BY <1>1, <2>3
      <3>2. Slice(P, (12 + 16 * N) + (12 * (n - 1) + o), l) = Slice(os, 12 * (n - 1) + o, l)
        BY <1>14, <3>1
      <3>3. Slice(os, 12 * (n - 1) + o, l) = Slice(ob[n], o, l)
        BY <1>6, <2>3 DEF Records
      <3> QED
        BY <1>3, <3>1, <3>2, <3>3
    <2> QED
      BY <1>11, <2>1, <2>2, <2>3 DEF Holding
  <1>19. SdParts(P, entries, options)
    BY <1>10, <1>11, <1>15, <1>16, <1>17, <1>18 DEF SdParts, N, M
  <1> QED
    BY <1>4, <1>19

\* The options in front of the first unknown one are the first c.
KnownUpTo(options, c) ==
    /\ c \in 0 .. Len(options)
    /\ \A i \in 1 .. Len(options) : (\A j \in 1 .. i : Known(options[j])) <=> i <= c
    /\ KnownOptions(options) = [i \in 1 .. c |-> options[i]]

\* The options of known types end somewhere.
LEMMA KnownExists ==
    ASSUME NEW options \in Seq(AnyOption)
    PROVE  \E c : KnownUpTo(options, c)
  <1> DEFINE M == Len(options)
             U == {i \in 1 .. M : options[i].type \notin {IPv4_ENDPOINT, IPv4_MULTICAST}}
             next == IF U # {} THEN Min(U) ELSE 0
  <1>1. M \in Nat /\ DOMAIN options = 1 .. M
    BY LenProperties
  <1>2. KnownOptions(options) = IF next = 0 THEN options ELSE SubSeq(options, 1, next - 1)
    BY DEF KnownOptions, SelectInSeq
  <1>3. \A i \in 1 .. M : Known(options[i]) <=> i \notin U
    BY DEF Known
  <1> HIDE DEF U
  <1>4. U \in SUBSET (1 .. M)
    BY DEF U
  <1>5. CASE U = {}
    <2>1. KnownOptions(options) = options
      BY <1>2, <1>5
    <2>2. options = [i \in 1 .. M |-> options[i]]
      BY <1>1
    <2>3. \A i \in 1 .. M : i <= M /\ \A j \in 1 .. i : j \in 1 .. M
      BY <1>1
    <2>4. \A i \in 1 .. M : (\A j \in 1 .. i : Known(options[j])) <=> i <= M
      BY <1>3, <1>5, <2>3
    <2>5. M \in 0 .. M
      BY <1>1
    <2> HIDE DEF M
    <2>6. KnownOptions(options) = [i \in 1 .. M |-> options[i]]
      BY <2>1, <2>2
    <2>7. KnownUpTo(options, M)
      BY <2>4, <2>5, <2>6 DEF KnownUpTo, M
    <2> QED
      BY <2>7
  <1>6. CASE U # {}
    <2>1. U \in SUBSET Nat
      BY <1>1, <1>4
    <2>2. \E t \in U : \A j \in U : t <= j
      BY <1>6, <2>1, LeastNumber
    <2>3. PICK t : t = Min(U)
      OBVIOUS
    <2>4. t \in U /\ \A j \in U : t <= j
      BY <2>2, <2>3 DEF Min
    <2>5. t \in 1 .. M /\ t - 1 \in 0 .. M /\ t # 0 /\ t - 1 \in Nat
      BY <1>1, <1>4, <2>4
    <2>6. KnownOptions(options) = SubSeq(options, 1, t - 1)
      BY <1>2, <1>6, <2>3, <2>5
    <2>7. ASSUME NEW i \in 1 .. M
          PROVE  (\A j \in 1 .. i : Known(options[j])) <=> i <= t - 1
      <3>1. CASE i <= t - 1
        <4>1. \A j \in 1 .. i : j \in 1 .. M /\ ~(t <= j)
          BY <1>1, <2>5, <3>1
        <4>2. \A j \in 1 .. i : j \notin U
          BY <2>4, <4>1
        <4> QED
          BY <1>3, <3>1, <4>1, <4>2
      <3>2. CASE ~(i <= t - 1)
        <4>1. t \in 1 .. i
          BY <1>1, <2>5, <3>2
        <4>2. ~Known(options[t])
          BY <1>3, <2>4, <2>5
        <4> QED
          BY <3>2, <4>1, <4>2
      <3> QED
        BY <3>1, <3>2
    <2>8. SubSeq(options, 1, t - 1) = [i \in 1 .. t - 1 |-> options[i]]
      <3> DEFINE a == SubSeq(options, 1, t - 1)
                 b == [i \in 1 .. t - 1 |-> options[i]]
      <3>1. \A i \in 1 .. t - 1 : i \in 1 .. M /\ options[i] \in AnyOption
        <4>1. \A i \in 1 .. t - 1 : i \in 1 .. M
          BY <1>1, <2>5
        <4> QED
          BY <4>1, LenProperties
      <3>2. b \in [1 .. t - 1 -> AnyOption]
        BY <3>1
      <3>3. b \in Seq(AnyOption) /\ Len(b) = t - 1
        BY <2>5, <3>2, IsSeq
      <3>4. (IF 1 <= t - 1 THEN (t - 1) - 1 + 1 ELSE 0) = t - 1 /\ (t - 1) - 1 + 1 = t - 1
        BY <2>5
      <3>5. /\ a \in Seq(AnyOption)
            /\ Len(a) = IF 1 <= t - 1 THEN (t - 1) - 1 + 1 ELSE 0
            /\ \A i \in 1 .. (t - 1) - 1 + 1 : a[i] = options[1 + i - 1]
        BY <2>5, <3>1, SubSeqProperties
      <3>6. Len(a) = t - 1
        BY <3>4, <3>5
      <3>7. \A i \in 1 .. t - 1 : a[i] = b[i]
        <4>1. \A i \in 1 .. t - 1 : i \in 1 .. (t - 1) - 1 + 1 /\ 1 + i - 1 = i
          BY <2>5
        <4>2. \A i \in 1 .. t - 1 : b[i] = options[i]
          OBVIOUS
        <4> QED
          BY <3>5, <4>1, <4>2
      <3> HIDE DEF a, b
      <3>8. a = b
        BY <3>3, <3>5, <3>6, <3>7, SeqEqual
      <3> QED
        BY <3>8 DEF a, b
    <2>9. KnownUpTo(options, t - 1)
      BY <2>5, <2>6, <2>7, <2>8 DEF KnownUpTo
    <2> QED
      BY <2>9
  <1> QED
    BY <1>5, <1>6

\* The parser of process_sd_message finds the entries and the known options of
\* a message.
LEMMA ParseIs ==
    ASSUME NEW entries \in Seq(AnyEntry), NEW options \in Seq(AnyOption), NEW P,
           SdParts(P, entries, options), Len(P) < Huge
    PROVE  ParseSd(P) =
             [entries |-> [i \in DOMAIN entries |->
                              [entries[i] EXCEPT !.ttl = @ % (256 * 256 * 256)]],
              options |-> KnownOptions(options)]
  <1> DEFINE N == Len(entries)
             M == Len(options)
             entries_end == 8 + Number(Slice(P, 4, 4))
             options_start == entries_end + 4
             options_end == options_start + Number(Slice(P, entries_end, 4))
             at(i) == options_start + (i - 1) * OPTION_SIZE
             parsed(i) == OptionAt(P, at(i), options_end - at(i))
             whole == {i \in 1 .. Len(P) \div OPTION_SIZE : at(i) + OPTION_SIZE <= options_end}
             count == Cardinality({i \in whole : \A j \in 1 .. i : parsed(j) # <<>>})
             es == [i \in 1 .. (entries_end - 8) \div ENTRY_SIZE |->
                       EntryAt(P, 8 + (i - 1) * ENTRY_SIZE)]
             os == [i \in 1 .. count |-> parsed(i)[1]]
  <1>1. /\ N \in Nat /\ M \in Nat /\ DOMAIN entries = 1 .. N
        /\ \A i \in 1 .. N : entries[i] \in AnyEntry
        /\ \A i \in 1 .. M : options[i] \in AnyOption
    BY LenProperties
  <1>2. /\ P \in Seq(Byte) /\ Len(P) = 12 + 16 * N + 12 * M
        /\ Slice(P, 4, 4) = Bytes(16 * N, 4)
        /\ Slice(P, 8 + 16 * N, 4) = Bytes(12 * M, 4)
        /\ \A n \in 1 .. N : Holding(P, 8 + (n - 1) * 16, EntryBytes(entries[n]))
        /\ \A n \in 1 .. M : Holding(P, 12 + 16 * N + (n - 1) * 12, OptionBytes(options[n]))
    BY DEF SdParts
  <1>3. ParseSd(P) = IF Len(P) < 12 \/ options_start > Len(P) THEN Nothing
                     ELSE [entries |-> es, options |-> os]
    BY DEF ParseSd
  <1> HIDE DEF N, M
  <1>4. Number(Slice(P, 4, 4)) = 16 * N /\ Number(Slice(P, 8 + 16 * N, 4)) = 12 * M
    <2>1. /\ 16 * N \in Nat /\ 12 * M \in Nat /\ Huge \in Nat
      BY <1>1 DEF Huge
    <2>2. 16 * N < Huge /\ 12 * M < Huge
      BY <1>1, <1>2, <2>1
    <2> QED
      BY <1>2, <2>1, <2>2, FourBytes
  <1>5. entries_end = 8 + 16 * N
    BY <1>4
  <1> HIDE DEF entries_end
  <1>6. options_start = 12 + 16 * N /\ options_end = 12 + 16 * N + 12 * M
    BY <1>1, <1>4, <1>5
  <1> HIDE DEF options_start, options_end
  <1>7. ~(Len(P) < 12 \/ options_start > Len(P))
    BY <1>1, <1>2, <1>6
  <1>8. es = [i \in DOMAIN entries |-> [entries[i] EXCEPT !.ttl = @ % (256 * 256 * 256)]]
    <2>1. (entries_end - 8) \div ENTRY_SIZE = N
      BY <1>1, <1>5 DEF ENTRY_SIZE
    <2>2. \A i \in 1 .. N : EntryAt(P, 8 + (i - 1) * ENTRY_SIZE)
                                = [entries[i] EXCEPT !.ttl = @ % (256 * 256 * 256)]
      <3>1. ASSUME NEW i \in 1 .. N
            PROVE  EntryAt(P, 8 + (i - 1) * 16)
                       = [entries[i] EXCEPT !.ttl = @ % (256 * 256 * 256)]
        <4> DEFINE e == entries[i]
                   p == 8 + (i - 1) * 16
        <4>1. e \in AnyEntry /\ Holding(P, p, EntryBytes(e))
          BY <1>1, <1>2
        <4> HIDE DEF e, p
        <4>2. EntryAt(P, p) = [e EXCEPT !.ttl = @ % (256 * 256 * 256)]
          BY <4>1, EntryReadAt
        <4> QED
          BY <4>2 DEF e, p
      <3> QED
        BY <3>1 DEF ENTRY_SIZE
    <2> QED
      BY <1>1, <2>1, <2>2
  <1>9. \A i \in 1 .. M : parsed(i) = IF Known(options[i]) THEN <<options[i]>> ELSE <<>>
    <2> SUFFICES ASSUME NEW i \in 1 .. M
                 PROVE  parsed(i) = IF Known(options[i]) THEN <<options[i]>> ELSE <<>>
      OBVIOUS
    <2>1. at(i) = 12 + 16 * N + (i - 1) * 12
      BY <1>6 DEF OPTION_SIZE
    <2>2. Holding(P, at(i), OptionBytes(options[i]))
      BY <1>2, <2>1
    <2>3. options_end - at(i) \in Nat /\ options_end - at(i) >= 12
      BY <1>1, <1>6, <2>1
    <2> HIDE DEF at
    <2> QED
      BY <1>1, <2>2, <2>3, OptionReadAt
  <1>10. PICK c : KnownUpTo(options, c)
    BY KnownExists
  <1>11. whole = 1 .. M
    <2>1. M <= Len(P) \div 12
      <3>1. \A x, y \in Nat : (12 + 16 * x + 12 * y) \div 12 >= y
        OBVIOUS
      <3> QED
        BY <1>1, <1>2, <3>1
    <2>2. Len(P) \in Nat /\ Len(P) \div 12 \in Int
      BY <1>2, LenProperties
    <2>3. \A i \in Int : at(i) + 12 <= options_end <=> i <= M
      BY <1>1, <1>6 DEF OPTION_SIZE
    <2> HIDE DEF at
    <2> QED
      BY <1>1, <2>1, <2>2, <2>3 DEF OPTION_SIZE
  <1> HIDE DEF whole, parsed
  <1>12. c \in 0 .. M /\ \A i \in 1 .. M : (\A j \in 1 .. i : Known(options[j])) <=> i <= c
    BY <1>10 DEF KnownUpTo, M
  <1>13. \A i \in 1 .. M : parsed(i) # <<>> <=> Known(options[i])
    <2>1. ASSUME NEW i \in 1 .. M, Known(options[i])
          PROVE  parsed(i) # <<>>
      <3>1. parsed(i) = <<options[i]>>
        BY <1>9, <2>1
      <3>2. \A x : <<x>> # <<>>
        OBVIOUS
      <3> QED
        BY <3>1, <3>2
    <2>2. ASSUME NEW i \in 1 .. M, ~Known(options[i])
          PROVE  parsed(i) = <<>>
      BY <1>9, <2>2
    <2> QED
      BY <2>1, <2>2
  <1>14. {i \in whole : \A j \in 1 .. i : parsed(j) # <<>>} = 1 .. c
    <2>1. \A i \in 1 .. M : \A j \in 1 .. i : j \in 1 .. M
      BY <1>1
    <2>2. \A i \in 1 .. M : (\A j \in 1 .. i : parsed(j) # <<>>) <=> i <= c
      BY <1>12, <1>13, <2>1
    <2>3. \A i : i \in 1 .. c <=> i \in 1 .. M /\ i <= c
      BY <1>1, <1>12
    <2> QED
      BY <1>11, <2>2, <2>3
  <1>15. count = c
    <2>1. c \in Int /\ 1 \in Int /\ (IF 1 > c THEN 0 ELSE c - 1 + 1) = c
      BY <1>1, <1>12
    <2>2. Cardinality(1 .. c) = IF 1 > c THEN 0 ELSE c - 1 + 1
      BY <2>1, FS_Interval, Zenon
    <2> QED
      BY <1>14, <2>1, <2>2
  <1> HIDE DEF count
  <1>16. os = KnownOptions(options)
    <2>1. \A i \in 1 .. c : i \in 1 .. M /\ i <= c /\ i \in 1 .. i
      BY <1>1, <1>12
    <2>2. \A i \in 1 .. c : Known(options[i])
      BY <1>12, <2>1
    <2>3. \A i \in 1 .. c : parsed(i) = <<options[i]>>
      BY <1>9, <2>1, <2>2
    <2>4. \A i \in 1 .. c : parsed(i)[1] = options[i]
      BY <2>3
    <2>5. KnownOptions(options) = [i \in 1 .. c |-> options[i]]
      BY <1>10 DEF KnownUpTo
    <2> QED
      BY <1>15, <2>4, <2>5
  <1> HIDE DEF es, os
  <1> QED
    BY <1>3, <1>7, <1>8, <1>16

\* An SD message that goes through the codecs is understood as it was built.
LEMMA HeardIsUnderstood ==
    ASSUME NEW d \in Datagrams, HearSd(d)
    PROVE  SdIsUnderstood'
  <1> DEFINE P == SdPayload(d.entries, d.options)
             B == create_notification(SOMEIP_SD_SERVICE_ID, 0, SOMEIP_SD_METHOD_ID)
             message == [B EXCEPT !.payload = P]
  <1>1. /\ d.entries \in Seq(AnyEntry) /\ d.options \in Seq(AnyOption)
        /\ HEADER_SIZE + Len(P) < Huge
    BY WireAssumption
  <1>2. SdParts(P, d.entries, d.options)
    BY <1>1, SdLayout
  <1>3. P \in Seq(Byte) /\ Len(P) \in Nat
    BY <1>2, LenProperties DEF SdParts
  <1> HIDE DEF P
  <1>4. /\ message \in AnyMessage /\ message.payload = P
        /\ message.protocol_version = SOMEIP_PROTOCOL_VERSION
    <2>1. B \in AnyMessage /\ B.protocol_version = SOMEIP_PROTOCOL_VERSION
      <3>1. Blank \in AnyMessage
        BY DEF Blank, AnyMessage, Byte, Uint16, SOMEIP_PROTOCOL_VERSION, REQUEST, E_OK, AnyInstance
      <3>2. Blank.protocol_version = SOMEIP_PROTOCOL_VERSION
        BY DEF Blank
      <3>3. /\ SOMEIP_SD_SERVICE_ID \in Uint16 /\ 0 \in Uint16 /\ NOTIFICATION \in Byte
            /\ (IF SOMEIP_SD_METHOD_ID < 32768 THEN SOMEIP_SD_METHOD_ID + 32768
                                               ELSE SOMEIP_SD_METHOD_ID) \in Uint16
        BY DEF Uint16, Byte, NOTIFICATION, SOMEIP_SD_SERVICE_ID, SOMEIP_SD_METHOD_ID
      <3> DEFINE event == IF SOMEIP_SD_METHOD_ID < 32768 THEN SOMEIP_SD_METHOD_ID + 32768
                                                         ELSE SOMEIP_SD_METHOD_ID
      <3>5. B = [Blank EXCEPT !.service_id = SOMEIP_SD_SERVICE_ID, !.instance_id = 0,
                              !.method_id = event, !.message_type = NOTIFICATION]
        BY DEF create_notification
      <3>6. event \in Uint16
        BY <3>3
      <3> HIDE DEF event, B
      <3>7. B \in AnyMessage /\ B.protocol_version = Blank.protocol_version
        <4> DEFINE m1 == [Blank EXCEPT !.service_id = SOMEIP_SD_SERVICE_ID]
                   m2 == [m1 EXCEPT !.instance_id = 0]
                   m3 == [m2 EXCEPT !.method_id = event]
                   m4 == [m3 EXCEPT !.message_type = NOTIFICATION]
        <4>1. m1 \in AnyMessage /\ m1.protocol_version = Blank.protocol_version
          BY <3>1, <3>3 DEF AnyMessage
        <4> HIDE DEF m1
        <4>2. m2 \in AnyMessage /\ m2.protocol_version = Blank.protocol_version
          BY <3>3, <4>1 DEF AnyMessage
        <4> HIDE DEF m2
        <4>3. m3 \in AnyMessage /\ m3.protocol_version = Blank.protocol_version
          BY <3>6, <4>2 DEF AnyMessage
        <4> HIDE DEF m3
        <4>4. m4 \in AnyMessage /\ m4.protocol_version = Blank.protocol_version
          BY <3>3, <4>3 DEF AnyMessage
        <4>5. B = m4
          BY <3>5 DEF m1, m2, m3
        <4> HIDE DEF m4
        <4> QED
          BY <4>4, <4>5
      <3> QED
        BY <3>2, <3>7
    <2> HIDE DEF B
    <2> QED
      BY <1>3, <2>1 DEF AnyMessage
  <1>5. Sendable(message)
    BY <1>1, <1>4 DEF Sendable
  <1>6. deserialize(serialize(message)) = <<Received(message)>>
    BY <1>5, CodecRoundTrip
  <1>7. PICK m \in ToSet(deserialize(serialize(message))) :
           heard' = [built |-> d, parsed |-> ParseSd(m.payload)]
    BY DEF HearSd, P
  <1>8. m = Received(message)
    BY <1>6, <1>7 DEF ToSet
  <1> HIDE DEF message
  <1>9. m.payload = P
    BY <1>4, <1>8 DEF Received, AnyMessage
  <1>10. Len(P) < Huge
    <2>1. 16 + Len(P) < Huge /\ Huge \in Nat
      BY <1>1 DEF HEADER_SIZE, Huge
    <2> QED
      BY <1>3, <2>1
  <1>11. ParseSd(P) =
             [entries |-> [i \in DOMAIN d.entries |->
                              [d.entries[i] EXCEPT !.ttl = @ % (256 * 256 * 256)]],
              options |-> KnownOptions(d.options)]
    BY <1>1, <1>2, <1>10, ParseIs
  <1> QED
    BY <1>7, <1>9, <1>11 DEF SdIsUnderstood

\* process_sd_message sees the entries and options of every SD message as they
\* were built, with TTLs modulo 2^24 and up to the first option of an unknown
\* type, for any number of entries and options.
THEOREM SdArrives == Spec => []SdIsUnderstood
  <1>1. Init => SdIsUnderstood
    <2> SUFFICES ASSUME Init PROVE SdIsUnderstood
      OBVIOUS
    <2>1. heard = Silence
      BY DEF Init
    <2>2. heard.built.entries = <<>> /\ heard.built.options = <<>> /\ heard.parsed = Nothing
      BY <2>1 DEF Silence, Nothing
    <2>3. KnownOptions(<<>>) = <<>>
      <3>1. PICK c : KnownUpTo(<<>>, c)
        <4>1. <<>> \in Seq(AnyOption)
          OBVIOUS
        <4> QED
          BY <4>1, KnownExists
      <3>2. c = 0
        BY <3>1 DEF KnownUpTo
      <3> QED
        BY <3>1, <3>2 DEF KnownUpTo
    <2> QED
      BY <2>2, <2>3 DEF SdIsUnderstood, Nothing
  <1>2. SdIsUnderstood /\ [Next]_vars => SdIsUnderstood'
    <2> SUFFICES ASSUME SdIsUnderstood, [Next]_vars PROVE SdIsUnderstood'
      OBVIOUS
    <2>1. CASE \E d \in Datagrams : HearSd(d)
      BY <2>1, HeardIsUnderstood
    <2>2. CASE heard' = heard
      BY <2>2 DEF SdIsUnderstood
    <2> QED
      BY <2>1, <2>2 DEF Next, vars, Send, SendShort, Read, ReadLength, ReadSome, Deliver,
                        EndOfStream, ConnectionEnds
  <1> QED
    BY <1>1, <1>2, PTL DEF Spec
=============================================================================

--------------------------- MODULE HttpBytesProofs ---------------------------
(***************************************************************************)
(* Facts about sequences of units: cutting them at a terminator or after a *)
(* number of units, and putting them together again. For the proofs about  *)
(* the readers of requests and responses.                                  *)
(***************************************************************************)
EXTENDS HttpBytes, SequenceTheorems, WellFoundedInduction, TLAPS

-----------------------------------------------------------------------------
(* Sequences and the position of the terminator.                           *)

(* A non-empty set of natural numbers has a least element.                 *)
LEMMA Least ==
  ASSUME NEW T, T \subseteq Nat, T # {}
  PROVE  \E x \in T : \A y \in T : x <= y
<1> DEFINE R == OpToRel(<, Nat)
<1>1. \A p \in Nat \X Nat : p \in R <=> p[1] < p[2]
  BY DEF OpToRel
<1>2. IsWellFoundedOn(R, Nat)
  BY NatLessThanWellFounded
<1> HIDE DEF R
<1>3. PICK x \in T : \A y \in T : ~ (<<y, x>> \in R)
  BY <1>2, WFMin
<1>4. ASSUME NEW y \in T PROVE x <= y
  <2>1. x \in Nat /\ y \in Nat /\ <<y, x>> \in Nat \X Nat
    OBVIOUS
  <2>2. ~ (<<y, x>>[1] < <<y, x>>[2])
    BY <1>1, <1>3, <2>1
  <2>3. QED
    BY <2>1, <2>2
<1>5. QED
  BY <1>4

(* A sequence is what it is cut into.                                      *)
LEMMA Cut ==
  ASSUME NEW S, NEW s \in Seq(S), NEW n \in 0 .. Len(s)
  PROVE  /\ SubSeq(s, 1, n) \in Seq(S) /\ SubSeq(s, n + 1, Len(s)) \in Seq(S)
         /\ SubSeq(s, 1, n) \o SubSeq(s, n + 1, Len(s)) = s
<1>1. /\ 1 \in 1 .. Len(s) + 1 /\ n \in 1 - 1 .. Len(s) /\ Len(s) \in n .. Len(s)
      /\ \A i \in 1 .. Len(s) : s[i] \in S
  BY LenProperties, ElementOfSeq
<1>2. SubSeq(s, 1, n) \in Seq(S) /\ SubSeq(s, n + 1, Len(s)) \in Seq(S)
  BY <1>1, SubSeqProperties
<1>3. QED
  BY <1>1, <1>2, ConcatAdjacentSubSeq, SubSeqFull

LEMMA TerminatorType == HEADER_TERMINATOR \in Seq(Unit) /\ Len(HEADER_TERMINATOR) = 2
<1>1. EOL \in Unit
  BY DEF EOL, Unit
<1>2. QED
  BY <1>1 DEF HEADER_TERMINATOR

(* std::string::find returns the position of the first terminator.         *)
LEMMA FirstTerminator ==
  ASSUME NEW b \in Seq(Unit), HasTerminator(b)
  PROVE  /\ PosTerminator(b) \in 1 .. Len(b) - 1
         /\ TerminatorAt(b, PosTerminator(b))
         /\ \A j \in 1 .. PosTerminator(b) - 1 : ~TerminatorAt(b, j)
<1> DEFINE T == {i \in 1 .. Len(b) : TerminatorAt(b, i)}
<1>1. T \subseteq Nat /\ T # {}
  BY LenProperties DEF HasTerminator
<1>2. PICK i \in T : \A j \in T : i <= j
  BY <1>1, Least
<1>3. \A j \in 1 .. i - 1 : ~TerminatorAt(b, j)
  <2>1. SUFFICES ASSUME NEW j \in 1 .. i - 1, TerminatorAt(b, j) PROVE FALSE
    OBVIOUS
  <2>2. j \in T
    BY <2>1, LenProperties
  <2>3. QED
    BY <1>1, <1>2, <2>2
<1>4. \E k \in 1 .. Len(b) : TerminatorAt(b, k) /\ \A j \in 1 .. k - 1 : ~TerminatorAt(b, j)
  BY <1>2, <1>3
<1>5. /\ TerminatorAt(b, PosTerminator(b))
      /\ \A j \in 1 .. PosTerminator(b) - 1 : ~TerminatorAt(b, j)
  BY <1>4 DEF PosTerminator
<1>6. QED
  BY <1>5 DEF TerminatorAt

(* Headers, terminator and the rest make up the buffer.                    *)
LEMMA CutAtTerminator ==
  ASSUME NEW b \in Seq(Unit), HasTerminator(b),
         NEW p, p = PosTerminator(b)
  PROVE  /\ p \in 1 .. Len(b) - 1
         /\ SubSeq(b, 1, p - 1) \in Seq(Unit)
         /\ SubSeq(b, p + 2, Len(b)) \in Seq(Unit)
         /\ SubSeq(b, 1, p - 1) \o HEADER_TERMINATOR \o SubSeq(b, p + 2, Len(b)) = b
<1>1. /\ p \in 1 .. Len(b) - 1 /\ Len(b) \in Nat
      /\ b[p] = EOL /\ b[p + 1] = EOL
  BY FirstTerminator, LenProperties DEF TerminatorAt
<1>2. \A i \in 1 .. Len(b) : b[i] \in Unit
  BY ElementOfSeq
<1>3. /\ SubSeq(b, 1, p - 1) \in Seq(Unit)
      /\ SubSeq(b, p + 2, Len(b)) \in Seq(Unit)
      /\ SubSeq(b, p, p + 1) \in Seq(Unit) /\ Len(SubSeq(b, p, p + 1)) = 2
      /\ SubSeq(b, p, p + 1)[1] = EOL /\ SubSeq(b, p, p + 1)[2] = EOL
  <2>1. /\ 1 \in Int /\ p - 1 \in Int /\ p \in Int /\ p + 1 \in Int /\ p + 2 \in Int
        /\ Len(b) \in Int
        /\ \A i \in 1 .. p - 1 : b[i] \in Unit
        /\ \A i \in p .. p + 1 : b[i] \in Unit
        /\ \A i \in p + 2 .. Len(b) : b[i] \in Unit
    BY <1>1, <1>2
  <2>2. /\ SubSeq(b, 1, p - 1) \in Seq(Unit)
        /\ SubSeq(b, p + 2, Len(b)) \in Seq(Unit)
    BY <2>1, SubSeqProperties
  <2>3. /\ SubSeq(b, p, p + 1) \in Seq(Unit)
        /\ Len(SubSeq(b, p, p + 1)) = IF p <= p + 1 THEN (p + 1) - p + 1 ELSE 0
        /\ \A i \in 1 .. (p + 1) - p + 1 : SubSeq(b, p, p + 1)[i] = b[p + i - 1]
    BY <2>1, SubSeqProperties
  <2>4. /\ 1 \in 1 .. (p + 1) - p + 1 /\ 2 \in 1 .. (p + 1) - p + 1
        /\ p + 1 - 1 = p /\ p + 2 - 1 = p + 1
        /\ (IF p <= p + 1 THEN (p + 1) - p + 1 ELSE 0) = 2
    BY <2>1
  <2>5. SubSeq(b, p, p + 1)[1] = EOL /\ SubSeq(b, p, p + 1)[2] = EOL
    BY <1>1, <2>3, <2>4
  <2>6. QED
    BY <2>2, <2>3, <2>4, <2>5
<1>4. SubSeq(b, p, p + 1) = HEADER_TERMINATOR
  <2>1. HEADER_TERMINATOR[1] = EOL /\ HEADER_TERMINATOR[2] = EOL
    BY DEF HEADER_TERMINATOR
  <2>2. \A i \in 1 .. 2 : SubSeq(b, p, p + 1)[i] = HEADER_TERMINATOR[i]
    <3>1. 1 .. 2 = {1, 2}
      OBVIOUS
    <3>2. QED
      BY <1>3, <2>1, <3>1
  <2>3. QED
    BY <1>3, <2>2, TerminatorType, SeqEqual
<1>5. SubSeq(b, 1, p - 1) \o SubSeq(b, p, p + 1) = SubSeq(b, 1, p + 1)
  <2>1. /\ 1 \in 1 .. Len(b) + 1 /\ p - 1 \in 1 - 1 .. Len(b)
        /\ p + 1 \in p - 1 .. Len(b) /\ (p - 1) + 1 = p
    BY <1>1
  <2>2. SubSeq(b, 1, p - 1) \o SubSeq(b, (p - 1) + 1, p + 1) = SubSeq(b, 1, p + 1)
    BY <2>1, ConcatAdjacentSubSeq
  <2>3. QED
    BY <2>1, <2>2
<1>6. SubSeq(b, 1, p + 1) \o SubSeq(b, (p + 1) + 1, Len(b)) = b
  <2>1. p + 1 \in 0 .. Len(b)
    BY <1>1
  <2>2. QED
    BY <2>1, Cut
<1>7. (p + 1) + 1 = p + 2
  BY <1>1
<1>8. QED
  BY <1>1, <1>3, <1>4, <1>5, <1>6, <1>7

(* Regrouping.                                                             *)
LEMMA Regroup ==
  \A a, b, c \in Seq(Unit) : (a \o b) \o c = a \o (b \o c)
BY ConcatAssociative

LEMMA ConcatType ==
  \A a, b \in Seq(Unit) : a \o b \in Seq(Unit)
BY ConcatProperties

LEMMA ConcatLen ==
  \A a, b \in Seq(Unit) : Len(a \o b) = Len(a) + Len(b)
BY ConcatProperties

LEMMA ConcatElements ==
  \A a, b \in Seq(Unit) : \A i \in 1 .. Len(a) + Len(b) :
    (a \o b)[i] = IF i <= Len(a) THEN a[i] ELSE b[i - Len(a)]
BY ConcatProperties

LEMMA ContentLengthsType ==
  ASSUME NEW h \in Seq(Unit)
  PROVE  ContentLengths(h) \subseteq Int
<1>1. \A i \in 1 .. Len(h) : h[i] \in Unit
  BY ElementOfSeq
<1>2. \A u \in Unit : u.val \in Int
  BY DEF Unit
<1>3. QED
  BY <1>1, <1>2 DEF ContentLengths

LEMMA BodyLengthType ==
  ASSUME NEW l \in Int
  PROVE  BodyLength(l) \in Nat
BY DEF BodyLength

(* Cutting a chunk of n units off a sequence keeps both parts sequences.   *)
LEMMA Chunk ==
  ASSUME NEW s \in Seq(Unit), NEW m \in Nat, NEW n \in 0 .. Smaller(m, Len(s))
  PROVE  /\ n \in 0 .. Len(s)
         /\ SubSeq(s, 1, n) \in Seq(Unit) /\ Len(SubSeq(s, 1, n)) = n
         /\ SubSeq(s, n + 1, Len(s)) \in Seq(Unit)
         /\ SubSeq(s, 1, n) \o SubSeq(s, n + 1, Len(s)) = s
<1>1. Len(s) \in Nat /\ n \in 0 .. Len(s) /\ n <= m
  BY LenProperties DEF Smaller
<1>2. /\ SubSeq(s, 1, n) \in Seq(Unit) /\ SubSeq(s, n + 1, Len(s)) \in Seq(Unit)
      /\ SubSeq(s, 1, n) \o SubSeq(s, n + 1, Len(s)) = s
  BY <1>1, Cut
<1>3. Len(SubSeq(s, 1, n)) = n
  <2>1. 1 \in Int /\ n \in Int /\ \A i \in 1 .. n : s[i] \in Unit
    BY <1>1, ElementOfSeq
  <2>2. Len(SubSeq(s, 1, n)) = IF 1 <= n THEN n - 1 + 1 ELSE 0
    BY <2>1, SubSeqProperties
  <2>3. QED
    BY <1>1, <2>2
<1>4. QED
  BY <1>1, <1>2, <1>3

(* The middle of three sequences.                                          *)
LEMMA Piece ==
  ASSUME NEW a \in Seq(Unit), NEW b \in Seq(Unit), NEW c \in Seq(Unit)
  PROVE  SubSeq(a \o b \o c, Len(a) + 1, Len(a) + Len(b)) = b
<1> DEFINE s == a \o b \o c
           m == Len(a) + 1
           n == Len(a) + Len(b)
<1>1. Len(a) \in Nat /\ Len(b) \in Nat /\ Len(c) \in Nat
  BY LenProperties
<1>2. /\ a \o b \in Seq(Unit) /\ Len(a \o b) = n
      /\ \A i \in 1 .. n : (a \o b)[i] = IF i <= Len(a) THEN a[i] ELSE b[i - Len(a)]
  BY ConcatProperties
<1>3. /\ s \in Seq(Unit) /\ Len(s) = n + Len(c)
      /\ \A i \in 1 .. n + Len(c) : s[i] = IF i <= n THEN (a \o b)[i] ELSE c[i - n]
  BY <1>2, ConcatProperties
<1>4. \A i \in 1 .. Len(s) : s[i] \in Unit
  BY <1>3, ElementOfSeq
<1> HIDE DEF s
<1>5. \A i \in 1 .. Len(b) : s[m + i - 1] = b[i]
  <2>1. SUFFICES ASSUME NEW i \in 1 .. Len(b) PROVE s[m + i - 1] = b[i]
    OBVIOUS
  <2>2. m + i - 1 = Len(a) + i /\ Len(a) + i \in 1 .. n /\ Len(a) + i \in 1 .. n + Len(c)
    BY <1>1
  <2>3. ~(Len(a) + i <= Len(a)) /\ Len(a) + i <= n /\ (Len(a) + i) - Len(a) = i
    BY <1>1
  <2>4. QED
    BY <1>2, <1>3, <2>2, <2>3
<1>6. /\ SubSeq(s, m, n) \in Seq(Unit)
      /\ Len(SubSeq(s, m, n)) = Len(b)
      /\ \A i \in 1 .. Len(b) : SubSeq(s, m, n)[i] = s[m + i - 1]
  <2>1. m \in Int /\ n \in Int /\ \A i \in m .. n : s[i] \in Unit
    BY <1>1, <1>3, <1>4
  <2>2. /\ SubSeq(s, m, n) \in Seq(Unit)
        /\ Len(SubSeq(s, m, n)) = IF m <= n THEN n - m + 1 ELSE 0
        /\ \A i \in 1 .. n - m + 1 : SubSeq(s, m, n)[i] = s[m + i - 1]
    BY <2>1, SubSeqProperties
  <2>3. n - m + 1 = Len(b) /\ (m <= n <=> Len(b) > 0)
    BY <1>1
  <2>4. QED
    BY <1>1, <2>2, <2>3
<1>7. SubSeq(s, m, n) = b
  BY <1>5, <1>6, SeqEqual
<1>8. QED
  BY <1>7 DEF s

(* Whether a terminator starts in the headers does not depend on what      *)
(* follows the one they were cut at.                                       *)
LEMMA TerminatorInHeaders ==
  ASSUME NEW h \in Seq(Unit), NEW z \in Seq(Unit), NEW i \in 1 .. Len(h)
  PROVE  TerminatorAt(h \o HEADER_TERMINATOR \o z, i)
           <=> TerminatorAt(h \o HEADER_TERMINATOR, i)
<1> DEFINE ht == h \o HEADER_TERMINATOR
<1>1. Len(h) \in Nat /\ Len(z) \in Nat
  BY LenProperties
<1>2. ht \in Seq(Unit) /\ Len(ht) = Len(h) + 2
  BY TerminatorType, ConcatType, ConcatLen
<1> HIDE DEF ht
<1>3. /\ Len(ht \o z) = Len(ht) + Len(z)
      /\ \A j \in 1 .. Len(ht) + Len(z) :
           (ht \o z)[j] = IF j <= Len(ht) THEN ht[j] ELSE z[j - Len(ht)]
  BY <1>2, ConcatLen, ConcatElements
<1>4. (ht \o z)[i] = ht[i] /\ (ht \o z)[i + 1] = ht[i + 1]
  BY <1>1, <1>2, <1>3
<1>5. QED
  BY <1>1, <1>2, <1>3, <1>4 DEF TerminatorAt, ht

(* Headers contain no terminator.                                          *)
NoTerminator(h) == \A i \in 1 .. Len(h) : ~TerminatorAt(h \o HEADER_TERMINATOR, i)

(* A stream that starts with such headers and a terminator is cut there.   *)
LEMMA FrontOfStream ==
  ASSUME NEW h \in Seq(Unit), NEW z \in Seq(Unit), NoTerminator(h)
  PROVE  /\ HasTerminator(h \o HEADER_TERMINATOR \o z)
         /\ PosTerminator(h \o HEADER_TERMINATOR \o z) = Len(h) + 1
<1> DEFINE r == h \o HEADER_TERMINATOR \o z
           q == Len(h) + 1
<1>1. Len(h) \in Nat /\ Len(z) \in Nat
  BY LenProperties
<1>2. /\ h \o HEADER_TERMINATOR \in Seq(Unit) /\ Len(h \o HEADER_TERMINATOR) = Len(h) + 2
      /\ \A j \in 1 .. Len(h) + 2 : (h \o HEADER_TERMINATOR)[j]
            = IF j <= Len(h) THEN h[j] ELSE HEADER_TERMINATOR[j - Len(h)]
  <2>1. h \o HEADER_TERMINATOR \in Seq(Unit) /\ Len(h \o HEADER_TERMINATOR) = Len(h) + 2
    BY TerminatorType, ConcatType, ConcatLen
  <2>2. \A j \in 1 .. Len(h) + Len(HEADER_TERMINATOR) : (h \o HEADER_TERMINATOR)[j]
          = IF j <= Len(h) THEN h[j] ELSE HEADER_TERMINATOR[j - Len(h)]
    BY TerminatorType, ConcatElements
  <2>3. QED
    BY <2>1, <2>2, TerminatorType
<1>3. /\ r \in Seq(Unit) /\ Len(r) = Len(h) + 2 + Len(z)
      /\ \A j \in 1 .. Len(h) + 2 + Len(z) :
           r[j] = IF j <= Len(h) + 2 THEN (h \o HEADER_TERMINATOR)[j] ELSE z[j - (Len(h) + 2)]
  <2> DEFINE ht == h \o HEADER_TERMINATOR
  <2>1. ht \in Seq(Unit) /\ Len(ht) = Len(h) + 2
    BY <1>2
  <2> HIDE DEF ht
  <2>2. /\ ht \o z \in Seq(Unit) /\ Len(ht \o z) = Len(ht) + Len(z)
        /\ \A j \in 1 .. Len(ht) + Len(z) :
             (ht \o z)[j] = IF j <= Len(ht) THEN ht[j] ELSE z[j - Len(ht)]
    BY <2>1, ConcatType, ConcatLen, ConcatElements
  <2>3. QED
    BY <2>1, <2>2 DEF ht
<1>4. r[q] = EOL /\ r[q + 1] = EOL
  <2>1. HEADER_TERMINATOR[1] = EOL /\ HEADER_TERMINATOR[2] = EOL
    BY DEF HEADER_TERMINATOR
  <2>2. q - Len(h) = 1 /\ (q + 1) - Len(h) = 2
    BY <1>1
  <2>3. r[q] = (h \o HEADER_TERMINATOR)[q] /\ r[q + 1] = (h \o HEADER_TERMINATOR)[q + 1]
    BY <1>1, <1>3
  <2>4. /\ (h \o HEADER_TERMINATOR)[q] = HEADER_TERMINATOR[q - Len(h)]
        /\ (h \o HEADER_TERMINATOR)[q + 1] = HEADER_TERMINATOR[(q + 1) - Len(h)]
    BY <1>1, <1>2
  <2>5. QED
    BY <2>1, <2>2, <2>3, <2>4
<1>5. \A i \in 1 .. Len(h) : ~TerminatorAt(r, i)
  BY TerminatorInHeaders DEF NoTerminator
<1> HIDE DEF r
<1>6. TerminatorAt(r, q) /\ q \in 1 .. Len(r)
  BY <1>1, <1>3, <1>4 DEF TerminatorAt
<1>7. HasTerminator(r)
  BY <1>6 DEF HasTerminator
<1>8. /\ PosTerminator(r) \in 1 .. Len(r) - 1
      /\ TerminatorAt(r, PosTerminator(r))
      /\ \A j \in 1 .. PosTerminator(r) - 1 : ~TerminatorAt(r, j)
  BY <1>3, <1>7, FirstTerminator
<1>9. ~(PosTerminator(r) <= Len(h))
  BY <1>1, <1>5, <1>8
<1>10. ~(q <= PosTerminator(r) - 1)
  BY <1>1, <1>6, <1>8
<1>11. PosTerminator(r) = q
  BY <1>1, <1>3, <1>8, <1>9, <1>10
<1>12. QED
  BY <1>7, <1>11 DEF r

(* Cutting there gives the headers and the body back.                      *)
LEMMA HeadersAreCut ==
  ASSUME NEW h \in Seq(Unit), NEW z \in Seq(Unit)
  PROVE  SubSeq(h \o HEADER_TERMINATOR \o z, 1, Len(h) + 1 - 1) = h
<1> DEFINE T == HEADER_TERMINATOR
<1>1. T \in Seq(Unit) /\ <<>> \in Seq(Unit) /\ Len(<<>>) = 0 /\ Len(h) \in Nat
  BY TerminatorType, EmptySeq, LenProperties
<1> HIDE DEF T
<1>2. T \o z \in Seq(Unit)
  BY <1>1, ConcatType
<1>3. SubSeq(<<>> \o h \o (T \o z), Len(<<>>) + 1, Len(<<>>) + Len(h)) = h
  BY <1>1, <1>2, Piece
<1>4. <<>> \o h = h /\ (h \o T) \o z = h \o (T \o z)
  BY <1>1, Regroup, ConcatEmptySeq
<1>5. QED
  BY <1>1, <1>3, <1>4 DEF T

LEMMA BodyIsCut ==
  ASSUME NEW h \in Seq(Unit), NEW b \in Seq(Unit), NEW z \in Seq(Unit)
  PROVE  /\ SubSeq(h \o HEADER_TERMINATOR \o b \o z, 1, Len(h) + 1 - 1) = h
         /\ SubSeq(h \o HEADER_TERMINATOR \o b \o z, Len(h) + 1 + 2, Len(h) + 1 + 1 + Len(b)) = b
<1> DEFINE ht == h \o HEADER_TERMINATOR
<1>1. /\ ht \in Seq(Unit) /\ Len(ht) = Len(h) + 2 /\ b \o z \in Seq(Unit)
      /\ Len(h) \in Nat /\ Len(b) \in Nat
  BY TerminatorType, ConcatType, ConcatLen, LenProperties
<1>2. SubSeq(ht \o (b \o z), 1, Len(h) + 1 - 1) = h
  BY <1>1, HeadersAreCut
<1> HIDE DEF ht
<1>3. (ht \o b) \o z = ht \o (b \o z)
  BY <1>1, Regroup
<1>4. SubSeq(ht \o b \o z, Len(ht) + 1, Len(ht) + Len(b)) = b
  BY <1>1, Piece
<1>5. /\ Len(h) + 1 + 2 = Len(ht) + 1
      /\ Len(h) + 1 + 1 + Len(b) = Len(ht) + Len(b)
  BY <1>1
<1>6. QED
  BY <1>2, <1>3, <1>4, <1>5 DEF ht

(* Headers cut off at the first terminator contain none.                   *)
LEMMA CutHeaders ==
  ASSUME NEW b \in Seq(Unit), HasTerminator(b),
         NEW h, h = SubSeq(b, 1, PosTerminator(b) - 1)
  PROVE  NoTerminator(h)
<1> DEFINE p == PosTerminator(b)
           z == SubSeq(b, p + 2, Len(b))
<1>1. p \in 1 .. Len(b) - 1 /\ \A j \in 1 .. p - 1 : ~TerminatorAt(b, j)
  BY FirstTerminator
<1>2. h \in Seq(Unit) /\ z \in Seq(Unit) /\ h \o HEADER_TERMINATOR \o z = b
  BY CutAtTerminator
<1>3. Len(h) = p - 1
  <2>1. 1 \in Int /\ p - 1 \in Int /\ \A i \in 1 .. p - 1 : b[i] \in Unit
    BY <1>1, ElementOfSeq, LenProperties
  <2>2. Len(SubSeq(b, 1, p - 1)) = IF 1 <= p - 1 THEN (p - 1) - 1 + 1 ELSE 0
    BY <2>1, SubSeqProperties
  <2>3. QED
    BY <1>1, <2>2, LenProperties
<1> HIDE DEF p, z
<1>4. QED
  BY <1>1, <1>2, <1>3, TerminatorInHeaders DEF NoTerminator

(* Taking up to m units off the front.                                     *)
LEMMA Take ==
  ASSUME NEW s \in Seq(Unit), NEW m \in Nat, NEW k, k = Smaller(Len(s), m)
  PROVE  /\ SubSeq(s, 1, k) \in Seq(Unit) /\ SubSeq(s, k + 1, Len(s)) \in Seq(Unit)
         /\ SubSeq(s, 1, k) \o SubSeq(s, k + 1, Len(s)) = s
         /\ Len(SubSeq(s, 1, k)) = k /\ k <= m
         /\ SubSeq(s, k + 1, Len(s)) = <<>> \/ k = m
<1>1. /\ Len(s) \in Nat /\ k \in Nat /\ k \in 0 .. Smaller(m, Len(s)) /\ k <= m
      /\ k = m \/ k = Len(s)
  BY LenProperties DEF Smaller
<1>2. k = Len(s) => SubSeq(s, k + 1, Len(s)) = <<>>
  BY <1>1, SubSeqEmpty
<1>3. QED
  BY <1>1, <1>2, Chunk

=============================================================================

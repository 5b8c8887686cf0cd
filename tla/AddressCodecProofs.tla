------------------------- MODULE AddressCodecProofs -------------------------
(***************************************************************************)
(* Proofs about AddressCodec, for any size of a byte, any lengths of the   *)
(* addresses and any names.  Lossy decoding is recursive, so that what it  *)
(* computes needs an induction: over sets of numbers, which follows from   *)
(* the well-foundedness of finite sets.                                    *)
(***************************************************************************)
EXTENDS AddressCodec, FiniteSetTheorems, WellFoundedInduction, SequenceTheorems, TLAPS

-----------------------------------------------------------------------------
\* A set of numbers that is not empty has a smallest one.
LEMMA Smallest ==
  ASSUME NEW T \in SUBSET Nat, T # {}
  PROVE  \E n \in T : \A m \in T : n <= m
<1>1. PICK b \in T : TRUE
  OBVIOUS
<1> DEFINE F == {0..n : n \in {m \in T : m <= b}}
<1>2. IsFiniteSet(0..b)
  BY FS_Interval
<1>3. IsWellFoundedOn(StrictSubsetOrdering(0..b), SUBSET (0..b))
  BY <1>2, FS_StrictSubsetOrderingWellFounded, FS_FiniteSubsetsOfFinite
<1>4. F \subseteq SUBSET (0..b) /\ F # {}
  <2>1. b \in T /\ b <= b /\ b \in Nat
    OBVIOUS
  <2> QED BY <2>1
<1> HIDE DEF F
<1>5. PICK x \in F : \A y \in F : <<y, x>> \notin StrictSubsetOrdering(0..b)
  BY <1>3, <1>4, WFMin
<1>6. PICK n \in T : n <= b /\ x = 0..n
  BY DEF F
<1>7. ASSUME NEW m \in T, m < n PROVE FALSE
  <2>1. 0..m \in F
    BY <1>6, <1>7 DEF F
  <2>2. 0..m \subseteq 0..n /\ 0..m # 0..n
    BY <1>6, <1>7
  <2>3. <<0..m, 0..n>> \in StrictSubsetOrdering(0..b)
    BY <2>1, <2>2, <1>4, <1>5, <1>6 DEF StrictSubsetOrdering
  <2> QED
    BY <2>1, <2>3, <1>5, <1>6
<1> QED
  BY <1>7

\* A set that has 0, and with a number the next one, has all.
LEMMA Induction ==
  ASSUME NEW S \in SUBSET Nat, 0 \in S, \A n \in S : n + 1 \in S
  PROVE  S = Nat
<1> SUFFICES ASSUME Nat \ S # {} PROVE FALSE
  OBVIOUS
<1>1. PICK n \in Nat \ S : \A m \in Nat \ S : n <= m
  BY Smallest
<1>2. n # 0 /\ n - 1 \in Nat /\ n - 1 \notin Nat \ S
  BY <1>1
<1>3. n - 1 \in S /\ (n - 1) + 1 = n
  BY <1>2
<1> QED
  BY <1>1, <1>3

-----------------------------------------------------------------------------
\* The first piece of a text, what becomes of it, and the rest.
First(s) == SubSeq(s, 1, Piece(s))
Decoded(s) == IF WellFormed(First(s)) THEN First(s) ELSE Replacement
Rest(s, i) == SubSeq(s, i, Len(s))

\* The recursion of Lossy: from[i] is what becomes of Rest(s, i).
Body(s, from, i) ==
  IF i > Len(s) THEN <<>> ELSE Decoded(Rest(s, i)) \o from[i + Len(First(Rest(s, i)))]

From(s) == CHOOSE from : from = [i \in 1..(Len(s) + 1) |-> Body(s, from, i)]

LEMMA LossyIsFrom ==
  ASSUME NEW s PROVE Lossy(s) = From(s)[1]
BY DEF Lossy, From, Body, Decoded, First, Rest

LEMMA Characters ==
  /\ Byte \subseteq Nat /\ Replacement \in Seq(Byte) /\ Len(Replacement) = 3
  /\ WellFormed(Replacement) /\ ByteMod \in Nat
BY SizesAssumption DEF Byte, Replacement, Lead, Cont, WellFormed

LEMMA FirstPiece ==
  ASSUME NEW s \in Seq(Byte), s # <<>>
  PROVE  /\ Piece(s) \in 1..Len(s) /\ Piece(s) <= 3
         /\ First(s) \in Seq(Byte) /\ Len(First(s)) = Piece(s)
         /\ Decoded(s) \in Seq(Byte) /\ WellFormed(Decoded(s))
         /\ Len(Decoded(s)) \in 1..3
<1>1. Len(s) \in Nat /\ Len(s) >= 1
  BY EmptySeq
<1>2. Piece(s) \in 1..Len(s) /\ Piece(s) <= 3
  BY <1>1 DEF Piece
<1>3. First(s) \in Seq(Byte) /\ Len(First(s)) = Piece(s)
  <2>1. \A i \in 1..Piece(s) : s[i] \in Byte
    BY <1>1, <1>2
  <2>2. Piece(s) \in Int /\ 1 <= Piece(s)
    BY <1>1, <1>2
  <2> QED
    BY <2>1, <2>2, SubSeqProperties DEF First
<1>4. Decoded(s) \in Seq(Byte) /\ WellFormed(Decoded(s))
  BY <1>3, Characters DEF Decoded
<1>5. Len(Decoded(s)) \in 1..3
  BY <1>2, <1>3, Characters DEF Decoded
<1> QED
  BY <1>2, <1>3, <1>4, <1>5

LEMMA RestOf ==
  ASSUME NEW s \in Seq(Byte), NEW i \in 1..(Len(s) + 1)
  PROVE  /\ Rest(s, i) \in Seq(Byte) /\ Len(Rest(s, i)) = Len(s) + 1 - i
         /\ i <= Len(s) <=> Rest(s, i) # <<>>
<1>1. Len(s) \in Nat
  OBVIOUS
<1>2. \A j \in i..Len(s) : s[j] \in Byte
  BY <1>1
<1>3. Rest(s, i) \in Seq(Byte) /\ Len(Rest(s, i)) = Len(s) + 1 - i
  BY <1>1, <1>2, SubSeqProperties DEF Rest
<1>4. i <= Len(s) <=> Rest(s, i) # <<>>
  BY <1>1, <1>3, EmptySeq
<1> QED
  BY <1>3, <1>4

\* The recursion looks ahead only, and never beyond the end.
LEMMA Ahead ==
  ASSUME NEW s \in Seq(Byte), NEW i \in 1..Len(s)
  PROVE  i + Len(First(Rest(s, i))) \in (i + 1)..(Len(s) + 1)
<1>1. Len(s) \in Nat /\ i \in 1..(Len(s) + 1)
  OBVIOUS
<1>2. Len(First(Rest(s, i))) \in 1..(Len(s) + 1 - i)
  BY <1>1, RestOf, FirstPiece
<1> QED
  BY <1>1, <1>2

LEMMA BodyLocal ==
  ASSUME NEW s \in Seq(Byte), NEW i \in 1..(Len(s) + 1), NEW f, NEW g,
         \A j \in (i + 1)..(Len(s) + 1) : f[j] = g[j]
  PROVE  Body(s, f, i) = Body(s, g, i)
<1>1. CASE i > Len(s)
  BY <1>1 DEF Body
<1>2. CASE i \in 1..Len(s)
  <2>1. i + Len(First(Rest(s, i))) \in (i + 1)..(Len(s) + 1)
    BY <1>2, Ahead
  <2> QED
    BY <1>2, <2>1 DEF Body
<1> QED
  BY <1>1, <1>2

\* There is a function that does what the recursion says.
LEMMA FromDefined ==
  ASSUME NEW s \in Seq(Byte)
  PROVE  From(s) = [i \in 1..(Len(s) + 1) |-> Body(s, From(s), i)]
<1> DEFINE L == Len(s)
           Done(n) == (L + 1 - n)..(L + 1)
           S == {n \in Nat : n <= L => \E f : f = [i \in Done(n) |-> Body(s, f, i)]}
<1>1. L \in Nat
  OBVIOUS
<1>2. 0 \in S
  <2> DEFINE f == [i \in (L + 1)..(L + 1) |-> <<>>]
  <2>1. \A i \in (L + 1)..(L + 1) : Body(s, f, i) = <<>>
    BY <1>1 DEF Body
  <2>2. f = [i \in (L + 1)..(L + 1) |-> Body(s, f, i)]
    BY <2>1
  <2>3. Done(0) = (L + 1)..(L + 1)
    BY <1>1
  <2> HIDE DEF f
  <2> QED
    BY <2>2, <2>3
<1>3. ASSUME NEW n \in S PROVE n + 1 \in S
  <2>1. n \in Nat
    OBVIOUS
  <2> SUFFICES ASSUME n + 1 <= L
               PROVE  \E f : f = [i \in Done(n + 1) |-> Body(s, f, i)]
    BY <2>1
  <2>2. PICK f : f = [i \in Done(n) |-> Body(s, f, i)]
    BY <1>1, <2>1
  <2> DEFINE g == [i \in Done(n + 1) |-> IF i = L - n THEN Body(s, f, i) ELSE f[i]]
  <2>3. ASSUME NEW i \in Done(n + 1) PROVE g[i] = Body(s, g, i)
    <3>1. i \in 1..(L + 1) /\ i >= L - n
      BY <1>1, <2>1
    <3>2. \A j \in (i + 1)..(L + 1) : g[j] = f[j]
      BY <1>1, <2>1, <3>1
    <3>3. Body(s, g, i) = Body(s, f, i)
      BY <3>1, <3>2, BodyLocal
    <3>4. i = L - n \/ i \in Done(n)
      BY <1>1, <2>1, <3>1
    <3> QED
      BY <2>2, <3>3, <3>4
  <2>4. g = [i \in Done(n + 1) |-> Body(s, g, i)]
    <3>1. [i \in Done(n + 1) |-> g[i]] = [i \in Done(n + 1) |-> Body(s, g, i)]
      BY <2>3
    <3>2. g = [i \in Done(n + 1) |-> g[i]]
      OBVIOUS
    <3> QED
      BY <3>1, <3>2
  <2> HIDE DEF g, Done
  <2> QED
    BY <2>4
<1> HIDE DEF S
<1>4. L \in S
  BY <1>1, <1>2, <1>3, Induction DEF S
<1>5. \E f : f = [i \in Done(L) |-> Body(s, f, i)]
  BY <1>1, <1>4 DEF S
<1>6. Done(L) = 1..(L + 1)
  BY <1>1
<1> QED
  BY <1>5, <1>6 DEF From

LEMMA FromAt ==
  ASSUME NEW s \in Seq(Byte), NEW i \in 1..(Len(s) + 1)
  PROVE  From(s)[i] = Body(s, From(s), i)
BY FromDefined

LEMMA RestIndex ==
  ASSUME NEW s \in Seq(Byte), NEW i \in 1..(Len(s) + 1), NEW j \in 1..Len(Rest(s, i))
  PROVE  Rest(s, i)[j] = s[i + j - 1]
<1>1. Len(s) \in Nat /\ (\A k \in i..Len(s) : s[k] \in Byte) /\ j \in 1..(Len(s) - i + 1)
  BY RestOf
<1> QED
  BY <1>1, SubSeqProperties DEF Rest

LEMMA RestOfRest ==
  ASSUME NEW s \in Seq(Byte), NEW i \in 1..(Len(s) + 1), NEW k \in 0..(Len(s) + 1 - i)
  PROVE  Rest(Rest(s, i), 1 + k) = Rest(s, i + k)
<1> DEFINE r == Rest(s, i)
           t == Rest(s, i + k)
<1>1. Len(s) \in Nat /\ i + k \in 1..(Len(s) + 1) /\ k \in Nat
  OBVIOUS
<1>2. r \in Seq(Byte) /\ Len(r) = Len(s) + 1 - i /\ 1 + k \in 1..(Len(r) + 1)
  BY <1>1, RestOf
<1>3. Rest(r, 1 + k) \in Seq(Byte) /\ Len(Rest(r, 1 + k)) = Len(r) + 1 - (1 + k)
  BY <1>2, RestOf
<1>4. t \in Seq(Byte) /\ Len(t) = Len(s) + 1 - (i + k)
  BY <1>1, RestOf
<1>5. Len(Rest(r, 1 + k)) = Len(t)
  BY <1>1, <1>2, <1>3, <1>4
<1>6. ASSUME NEW j \in 1..Len(t) PROVE Rest(r, 1 + k)[j] = t[j]
  <2>1. Rest(r, 1 + k)[j] = r[(1 + k) + j - 1]
    BY <1>2, <1>5, <1>6, RestIndex
  <2>2. (1 + k) + j - 1 = k + j /\ k + j \in 1..Len(r) /\ i + (k + j) - 1 = (i + k) + j - 1
    BY <1>1, <1>2, <1>4, <1>6
  <2>3. r[k + j] = s[i + (k + j) - 1]
    BY <2>2, RestIndex
  <2>4. t[j] = s[(i + k) + j - 1]
    BY <1>1, <1>6, RestIndex
  <2> QED
    BY <2>1, <2>2, <2>3, <2>4
<1> HIDE DEF r, t
<1>7. Rest(r, 1 + k) = t
  BY <1>3, <1>4, <1>5, <1>6, SeqEqual
<1> QED
  BY <1>7 DEF r, t

LEMMA RestIsAll ==
  ASSUME NEW s \in Seq(Byte) PROVE Rest(s, 1) = s
BY SubSeqFull DEF Rest

\* What becomes of the rest of a text does not depend on what came before it.
LEMMA EveryRest ==
  \A s \in Seq(Byte) : \A i \in 1..(Len(s) + 1) : From(s)[i] = From(Rest(s, i))[1]
<1> DEFINE Holds(s, i) == From(s)[i] = From(Rest(s, i))[1]
           Short(n) == \A s \in Seq(Byte) : \A i \in 1..(Len(s) + 1) :
                         Len(s) + 1 - i <= n => Holds(s, i)
           S == {n \in Nat : Short(n)}
<1>1. ASSUME NEW s \in Seq(Byte), NEW i \in 1..(Len(s) + 1), Rest(s, i) = <<>>
      PROVE  Holds(s, i)
  <2>1. Len(s) \in Nat /\ i > Len(s)
    BY <1>1, RestOf
  <2>2. From(s)[i] = <<>>
    BY <2>1, FromAt DEF Body
  <2>3. <<>> \in Seq(Byte) /\ Len(<<>>) = 0 /\ 1 \in 1..(0 + 1) /\ 1 > 0
    BY EmptySeq
  <2>4. From(<<>>)[1] = <<>>
    BY <2>3, FromAt DEF Body
  <2> QED
    BY <1>1, <2>2, <2>4
<1>2. 0 \in S
  <2> SUFFICES ASSUME NEW s \in Seq(Byte), NEW i \in 1..(Len(s) + 1), Len(s) + 1 - i <= 0
               PROVE  Holds(s, i)
    OBVIOUS
  <2>1. Rest(s, i) = <<>>
    <3>1. Len(s) \in Nat /\ ~ (i <= Len(s))
      OBVIOUS
    <3> QED
      BY <3>1, RestOf
  <2> HIDE DEF Holds
  <2> QED
    BY <1>1, <2>1
<1>3. ASSUME NEW n \in S PROVE n + 1 \in S
  <2>1. n \in Nat /\ Short(n)
    OBVIOUS
  <2> SUFFICES ASSUME NEW s \in Seq(Byte), NEW i \in 1..(Len(s) + 1),
                      Len(s) + 1 - i <= n + 1
               PROVE  Holds(s, i)
    BY <2>1
  <2> DEFINE r == Rest(s, i)
             k == Piece(r)
  <2>2. CASE r = <<>>
    BY <1>1, <2>2
  <2>3. CASE r # <<>>
    <3>1. Len(s) \in Nat /\ i \in 1..Len(s) /\ r \in Seq(Byte) /\ Len(r) = Len(s) + 1 - i
      BY <2>3, RestOf
    <3>2. k \in 1..Len(r) /\ Len(First(r)) = k
      BY <2>3, <3>1, FirstPiece
    <3>3. i + k \in 1..(Len(s) + 1) /\ Len(s) + 1 - (i + k) <= n
      BY <2>1, <3>1, <3>2
    <3>4. From(s)[i] = Decoded(r) \o From(s)[i + k]
      <4>1. From(s)[i] = Body(s, From(s), i)
        BY FromAt
      <4>2. ~ (i > Len(s))
        BY <3>1
      <4> QED
        BY <3>2, <4>1, <4>2 DEF Body
    <3>5. From(s)[i + k] = From(Rest(s, i + k))[1]
      BY <2>1, <3>3
    <3>6. 1 \in 1..(Len(r) + 1) /\ 1 + k \in 1..(Len(r) + 1) /\ Len(r) + 1 - (1 + k) <= n
      BY <2>1, <3>1, <3>2
    <3>7. From(r)[1] = Decoded(r) \o From(r)[1 + k]
      <4>1. From(r)[1] = Body(r, From(r), 1)
        BY <3>1, <3>6, FromAt
      <4>2. ~ (1 > Len(r)) /\ Rest(r, 1) = r
        BY <3>1, <3>2, RestIsAll
      <4> QED
        BY <3>2, <4>1, <4>2 DEF Body
    <3>8. From(r)[1 + k] = From(Rest(r, 1 + k))[1]
      BY <2>1, <3>1, <3>6
    <3>9. Rest(r, 1 + k) = Rest(s, i + k)
      <4>1. k \in 0..(Len(s) + 1 - i)
        BY <3>1, <3>2
      <4> QED
        BY <4>1, RestOfRest
    <3> QED
      BY <3>4, <3>5, <3>7, <3>8, <3>9
  <2> QED
    BY <2>2, <2>3
<1> HIDE DEF S
<1>4. S = Nat
  BY <1>2, <1>3, Induction DEF S
<1> SUFFICES ASSUME NEW s \in Seq(Byte), NEW i \in 1..(Len(s) + 1) PROVE Holds(s, i)
  OBVIOUS
<1>5. Len(s) + 1 - i \in Nat
  OBVIOUS
<1>6. Short(Len(s) + 1 - i)
  BY <1>4, <1>5 DEF S
<1> QED
  BY <1>5, <1>6

LEMMA LossyEmpty == Lossy(<<>>) = <<>>
<1>1. <<>> \in Seq(Byte) /\ Len(<<>>) = 0 /\ 1 \in 1..(0 + 1) /\ 1 > 0
  BY EmptySeq
<1> QED
  BY <1>1, LossyIsFrom, FromAt DEF Body

\* from_utf8_lossy goes piece by piece.
LEMMA LossyPiece ==
  ASSUME NEW s \in Seq(Byte), s # <<>>
  PROVE  /\ Rest(s, 1 + Piece(s)) \in Seq(Byte)
         /\ Len(Rest(s, 1 + Piece(s))) = Len(s) - Piece(s)
         /\ Lossy(s) = Decoded(s) \o Lossy(Rest(s, 1 + Piece(s)))
<1>1. Len(s) \in Nat /\ Piece(s) \in 1..Len(s) /\ Len(First(s)) = Piece(s)
  BY FirstPiece
<1>2. 1 + Piece(s) \in 1..(Len(s) + 1) /\ 1 \in 1..(Len(s) + 1) /\ ~ (1 > Len(s))
  BY <1>1
<1>3. From(s)[1] = Decoded(s) \o From(s)[1 + Piece(s)]
  BY ZenonT(40), <1>1, <1>2, FromAt, RestIsAll DEF Body
<1>4. From(s)[1 + Piece(s)] = Lossy(Rest(s, 1 + Piece(s)))
  BY <1>2, EveryRest, LossyIsFrom
<1>5. Rest(s, 1 + Piece(s)) \in Seq(Byte)
      /\ Len(Rest(s, 1 + Piece(s))) = Len(s) + 1 - (1 + Piece(s))
  BY <1>2, RestOf
<1> QED
  BY SMTT(30), <1>1, <1>3, <1>4, <1>5, LossyIsFrom

-----------------------------------------------------------------------------
\* The two parts of a concatenation.
LEMMA FrontOfConcat ==
  ASSUME NEW p \in Seq(Byte), NEW t \in Seq(Byte)
  PROVE  SubSeq(p \o t, 1, Len(p)) = p
<1> DEFINE u == p \o t
           f == SubSeq(u, 1, Len(p))
<1>1. /\ u \in Seq(Byte) /\ Len(u) = Len(p) + Len(t)
      /\ \A i \in 1..(Len(p) + Len(t)) : u[i] = IF i <= Len(p) THEN p[i] ELSE t[i - Len(p)]
  BY ConcatProperties
<1>2. Len(p) \in Nat /\ Len(t) \in Nat
  OBVIOUS
<1> HIDE DEF u
<1>3. CASE Len(p) = 0
  <2>1. f = <<>>
    BY <1>3, SubSeqEmpty
  <2>2. p = <<>>
    BY <1>3, EmptySeq
  <2> QED
    BY <2>1, <2>2 DEF u
<1>4. CASE Len(p) # 0
  <2>1. 1 <= Len(p) /\ Len(p) - 1 + 1 = Len(p) /\ (\A i \in 1..Len(p) : u[i] \in Byte)
    BY <1>1, <1>2, <1>4
  <2>2. /\ f \in Seq(Byte) /\ Len(f) = Len(p)
        /\ \A i \in 1..Len(p) : f[i] = u[1 + i - 1]
    BY <1>2, <2>1, SubSeqProperties
  <2>3. \A i \in 1..Len(p) : f[i] = p[i]
    BY <1>1, <1>2, <2>2
  <2> HIDE DEF f
  <2> QED
    BY <2>2, <2>3, SeqEqual DEF f, u
<1> QED
  BY <1>3, <1>4

LEMMA RestOfConcat ==
  ASSUME NEW p \in Seq(Byte), NEW t \in Seq(Byte)
  PROVE  Rest(p \o t, 1 + Len(p)) = t
<1> DEFINE u == p \o t
           r == Rest(u, 1 + Len(p))
<1>1. /\ u \in Seq(Byte) /\ Len(u) = Len(p) + Len(t)
      /\ \A i \in 1..(Len(p) + Len(t)) : u[i] = IF i <= Len(p) THEN p[i] ELSE t[i - Len(p)]
  BY ConcatProperties
<1>2. Len(p) \in Nat /\ Len(t) \in Nat
  OBVIOUS
<1> HIDE DEF u
<1>3. 1 + Len(p) \in 1..(Len(u) + 1)
  BY <1>1, <1>2
<1>4. r \in Seq(Byte) /\ Len(r) = Len(t)
  <2>1. r \in Seq(Byte) /\ Len(r) = Len(u) + 1 - (1 + Len(p))
    BY <1>1, <1>3, RestOf
  <2> QED
    BY <2>1, <1>1, <1>2
<1>5. ASSUME NEW i \in 1..Len(t) PROVE r[i] = t[i]
  <2>1. r[i] = u[(1 + Len(p)) + i - 1]
    BY <1>1, <1>3, <1>4, RestIndex
  <2>2. /\ (1 + Len(p)) + i - 1 = Len(p) + i /\ Len(p) + i \in 1..(Len(p) + Len(t))
        /\ ~ (Len(p) + i <= Len(p)) /\ (Len(p) + i) - Len(p) = i
    BY <1>2
  <2> QED
    BY <1>1, <2>1, <2>2
<1> HIDE DEF r
<1> QED
  BY <1>4, <1>5, SeqEqual DEF r, u

\* A text that begins with a well-formed piece keeps it.
LEMMA WellFormedFirst ==
  ASSUME NEW p \in Seq(Byte), WellFormed(p), NEW t \in Seq(Byte)
  PROVE  p \o t \in Seq(Byte) /\ Lossy(p \o t) = p \o Lossy(t)
<1> DEFINE u == p \o t
<1>1. /\ u \in Seq(Byte) /\ Len(u) = Len(p) + Len(t)
      /\ \A i \in 1..(Len(p) + Len(t)) : u[i] = IF i <= Len(p) THEN p[i] ELSE t[i - Len(p)]
  BY ConcatProperties
<1>2. Len(p) \in {1, 3} /\ Len(t) \in Nat /\ Len(u) \in Nat
  BY <1>1, Characters DEF WellFormed
<1> HIDE DEF u
<1>3. u # <<>>
  <2>1. Len(<<>>) = 0
    OBVIOUS
  <2>2. Len(u) # 0
    BY <1>1, <1>2
  <2> QED
    BY <2>1, <2>2
<1>4. SubSeq(u, 1, Len(p)) = p
  BY FrontOfConcat DEF u
<1>5. Piece(u) = Len(p)
  <2>1. CASE p = Replacement
    <3>1. Len(p) = 3 /\ Len(u) >= 3 /\ SubSeq(u, 1, 3) = Replacement
      BY <1>1, <1>2, <1>4, <2>1, Characters
    <3> QED
      BY <3>1 DEF Piece
  <2>2. CASE Len(p) = 1 /\ p[1] \notin {Lead, Cont, Invalid}
    <3>1. u[1] = p[1] /\ u[1] # Lead
      BY <1>1, <1>2, <2>2
    <3>2. ~ (Len(u) >= 3 /\ SubSeq(u, 1, 3) = Replacement)
      <4> SUFFICES ASSUME Len(u) >= 3, SubSeq(u, 1, 3) = Replacement PROVE FALSE
        OBVIOUS
      <4>1. \A i \in 1..3 : u[i] \in Byte
        BY <1>1
      <4>2. SubSeq(u, 1, 3)[1] = u[1]
        BY <4>1, SubSeqProperties
      <4>3. Replacement[1] = Lead
        BY DEF Replacement
      <4> QED
        BY <4>2, <4>3, <3>1
    <3> QED
      BY <2>2, <3>1, <3>2 DEF Piece
  <2> QED
    BY <2>1, <2>2 DEF WellFormed
<1>6. Decoded(u) = p
  BY <1>4, <1>5 DEF Decoded, First
<1>7. Rest(u, 1 + Piece(u)) = t
  BY <1>5, RestOfConcat DEF u
<1>8. Lossy(u) = p \o Lossy(t)
  BY <1>1, <1>3, <1>6, <1>7, LossyPiece
<1> QED
  BY <1>1, <1>8 DEF u

\* from_utf8_lossy makes text, and leaves text alone.
LEMMA LossyText ==
  \A s \in Seq(Byte) :
    Lossy(s) \in Seq(Byte) /\ Lossy(Lossy(s)) = Lossy(s)
<1> DEFINE Fine(s) == Lossy(s) \in Seq(Byte) /\ Lossy(Lossy(s)) = Lossy(s)
           Short(n) == \A s \in Seq(Byte) : Len(s) <= n => Fine(s)
           S == {n \in Nat : Short(n)}
<1>1. Fine(<<>>)
  <2>1. <<>> \in Seq(Byte)
    OBVIOUS
  <2> QED
    BY <2>1, LossyEmpty, Zenon
<1>2. 0 \in S
  <2> SUFFICES ASSUME NEW s \in Seq(Byte), Len(s) <= 0 PROVE Fine(s)
    OBVIOUS
  <2>1. s = <<>>
    BY EmptySeq
  <2> HIDE DEF Fine
  <2> QED
    BY <1>1, <2>1
<1>3. ASSUME NEW n \in S PROVE n + 1 \in S
  <2>1. n \in Nat /\ Short(n)
    OBVIOUS
  <2> SUFFICES ASSUME NEW s \in Seq(Byte), Len(s) <= n + 1 PROVE Fine(s)
    BY <2>1
  <2>2. CASE s = <<>>
    <3> HIDE DEF Fine
    <3> QED
      BY <1>1, <2>2
  <2>3. CASE s # <<>>
    <3> DEFINE r == Rest(s, 1 + Piece(s))
               t == Lossy(r)
               p == Decoded(s)
    <3>1. /\ r \in Seq(Byte) /\ Len(r) = Len(s) - Piece(s) /\ Lossy(s) = p \o t
          /\ Piece(s) \in 1..Len(s) /\ Len(s) \in Nat /\ Len(p) \in 1..3
          /\ p \in Seq(Byte) /\ WellFormed(p)
      <4>1. r \in Seq(Byte) /\ Len(r) = Len(s) - Piece(s) /\ Lossy(s) = p \o t
        BY <2>3, LossyPiece
      <4>2. /\ Piece(s) \in 1..Len(s) /\ Len(p) \in 1..3
            /\ p \in Seq(Byte) /\ WellFormed(p)
        BY <2>3, FirstPiece
      <4> HIDE DEF r, t, p
      <4> QED
        BY <4>1, <4>2
    <3>2. Len(r) \in Nat /\ Len(r) <= n /\ Len(r) + 1 <= Len(s)
      BY <2>1, <3>1
    <3>3. Fine(r)
      BY <2>1, <3>1, <3>2
    <3> HIDE DEF r, p
    <3>4. t \in Seq(Byte) /\ Lossy(t) = t
      BY <3>3
    <3> HIDE DEF t
    <3>5. p \o t \in Seq(Byte) /\ Lossy(p \o t) = p \o t
      <4>1. p \o t \in Seq(Byte) /\ Lossy(p \o t) = p \o Lossy(t)
        BY <3>1, <3>4, WellFormedFirst
      <4> QED
        BY <3>4, <4>1
    <3> QED
      BY <3>1, <3>5
  <2> QED
    BY <2>2, <2>3
<1> HIDE DEF S
<1>4. S = Nat
  BY <1>2, <1>3, Induction DEF S
<1> SUFFICES ASSUME NEW s \in Seq(Byte) PROVE Fine(s)
  OBVIOUS
<1>5. Len(s) \in Nat
  OBVIOUS
<1>6. Short(Len(s))
  BY <1>4, <1>5 DEF S
<1> QED
  BY <1>5, <1>6

-----------------------------------------------------------------------------
\* What read_address can return, and parse_header.
Strings ==
  Numeric \cup {Address(Domain, b) : b \in {b \in Seq(Byte) : Lossy(b) = b /\ b \notin DOMAIN Literal}}

LEMMA Types ==
  Ipv4 \in Byte /\ Domain \in Byte /\ Ipv6 \in Byte /\ Ipv4 # Domain /\ Ipv6 # Domain /\ Ipv4 # Ipv6
BY SizesAssumption DEF Byte, Ipv4, Domain, Ipv6

LEMMA NumericBytes ==
  ASSUME NEW a \in Numeric
  PROVE  /\ a.type \in {Ipv4, Ipv6} /\ a = Address(a.type, a.bytes)
         /\ a.bytes \in Seq(Byte) /\ Len(a.bytes) < ByteMod
         /\ Len(a.bytes) = IF a.type = Ipv4 THEN V4Len ELSE V6Len
<1>1. V4Len \in Nat /\ V6Len \in Nat /\ V4Len < ByteMod /\ V6Len < ByteMod /\ ByteMod \in Nat
  BY SizesAssumption
<1>2. CASE a \in [type : {Ipv4}, bytes : [1..V4Len -> Byte]]
  BY <1>1, <1>2, Types DEF Address
<1>3. CASE a \in [type : {Ipv6}, bytes : [1..V6Len -> Byte]]
  BY <1>1, <1>3, Types DEF Address
<1> QED
  BY <1>2, <1>3 DEF Numeric

LEMMA StringBytes ==
  ASSUME NEW a \in Strings
  PROVE  /\ a.type \in AddressType /\ a.bytes \in Seq(Byte) /\ a = Address(a.type, a.bytes)
         /\ a.type # Domain => a \in Numeric
         /\ a.type = Domain => Lossy(a.bytes) = a.bytes /\ a.bytes \notin DOMAIN Literal
<1>1. CASE a \in Numeric
  BY <1>1, NumericBytes, Types DEF AddressType
<1>2. ASSUME NEW b \in Seq(Byte), Lossy(b) = b, b \notin DOMAIN Literal, a = Address(Domain, b)
      PROVE  /\ a.type = Domain /\ a.bytes = b
             /\ a = Address(a.type, a.bytes)
  BY <1>2 DEF Address
<1> QED
  BY <1>1, <1>2 DEF Strings, AddressType

\* The text that a decoded name is taken for.
LEMMA TextString ==
  ASSUME NEW b \in Seq(Byte), Lossy(b) = b
  PROVE  /\ Text(b) \in Strings
         /\ Len(Text(b).bytes) < ByteMod \/ Text(b) = Address(Domain, b)
<1>1. CASE b \in DOMAIN Literal
  BY <1>1, LiteralAssumption, NumericBytes DEF Text, Strings
<1>2. CASE b \notin DOMAIN Literal
  BY <1>2 DEF Text, Strings, Address
<1> QED
  BY <1>1, <1>2

-----------------------------------------------------------------------------
\* What encode_address writes before the bytes of an address.
Prelude(a) == <<a.type>> \o (IF a.type = Domain THEN NameLen(Len(a.bytes)) ELSE <<>>)

LEMMA PreludeBytes ==
  ASSUME NEW a \in Strings
  PROVE  /\ Prelude(a) \in Seq(Byte) /\ Prelude(a)[1] = a.type
         /\ Len(Prelude(a)) = IF a.type = Domain THEN 2 ELSE 1
         /\ a.type = Domain => Prelude(a)[2] = Len(a.bytes) % ByteMod
<1>1. a.type \in Byte /\ a.bytes \in Seq(Byte)
  BY StringBytes, Types DEF AddressType
<1>2. Len(a.bytes) \in Nat /\ ByteMod \in Nat \ {0}
  BY <1>1, SizesAssumption
<1>3. Len(a.bytes) % ByteMod \in Byte
  <2>1. \A n \in Nat, m \in Nat \ {0} : n % m \in 0..(m - 1)
    OBVIOUS
  <2> QED
    BY <1>2, <2>1 DEF Byte
<1>4. <<a.type>> \in Seq(Byte) /\ Len(<<a.type>>) = 1
  BY <1>1
<1>5. CASE a.type = Domain
  <2> DEFINE l == <<Len(a.bytes) % ByteMod>>
  <2>1. l \in Seq(Byte) /\ Len(l) = 1
    BY <1>3
  <2>2. Prelude(a) = <<a.type>> \o l
    BY <1>5 DEF Prelude, NameLen
  <2> QED
    BY <1>4, <1>5, <2>1, <2>2, ConcatProperties
<1>6. CASE a.type # Domain
  <2>1. Prelude(a) = <<a.type>>
    BY <1>4, <1>6, ConcatEmptySeq DEF Prelude
  <2> QED
    BY <1>4, <1>6, <2>1
<1> QED
  BY <1>5, <1>6

\* A header: the prelude, the address, the port.
LEMMA HeaderBytes ==
  ASSUME NEW a \in Strings, NEW f, f = encode_address(a) \o Port
  PROVE  /\ encode_address(a) \in Seq(Byte) /\ f \in Seq(Byte)
         /\ Len(f) = Len(Prelude(a)) + Len(a.bytes) + 2
         /\ \A i \in 1..Len(Prelude(a)) : f[i] = Prelude(a)[i]
         /\ \A i \in 1..Len(a.bytes) : f[Len(Prelude(a)) + i] = a.bytes[i]
         /\ \A i \in 1..2 : f[Len(Prelude(a)) + Len(a.bytes) + i] = Port[i]
<1> DEFINE h == Prelude(a)
           b == a.bytes
           e == h \o b
<1>1. h \in Seq(Byte) /\ Len(h) \in Nat /\ b \in Seq(Byte) /\ Len(b) \in Nat
  BY PreludeBytes, StringBytes
<1>2. Port \in Seq(Byte) /\ Len(Port) = 2
  BY SizesAssumption DEF Port, Byte
<1>3. encode_address(a) = e
  BY DEF encode_address, Prelude
<1> HIDE DEF h, b
<1>4. /\ e \in Seq(Byte) /\ Len(e) = Len(h) + Len(b)
      /\ \A i \in 1..(Len(h) + Len(b)) : e[i] = IF i <= Len(h) THEN h[i] ELSE b[i - Len(h)]
  BY <1>1, ConcatProperties
<1> HIDE DEF e
<1>5. /\ f \in Seq(Byte) /\ Len(f) = Len(e) + 2
      /\ \A i \in 1..(Len(e) + 2) : f[i] = IF i <= Len(e) THEN e[i] ELSE Port[i - Len(e)]
  <2>1. f = e \o Port
    BY <1>3
  <2>2. /\ e \o Port \in Seq(Byte) /\ Len(e \o Port) = Len(e) + Len(Port)
        /\ \A i \in 1..(Len(e) + Len(Port)) :
             (e \o Port)[i] = IF i <= Len(e) THEN e[i] ELSE Port[i - Len(e)]
    <3>1. e \in Seq(Byte)
      BY <1>4
    <3> QED
      BY Zenon, <1>2, <3>1, ConcatProperties
  <2> QED
    BY <1>2, <2>1, <2>2
<1>6. \A i \in 1..Len(h) : f[i] = h[i]
  BY <1>1, <1>4, <1>5
<1>7. ASSUME NEW i \in 1..Len(b) PROVE f[Len(h) + i] = b[i]
  <2>1. /\ Len(h) + i \in 1..(Len(h) + Len(b)) /\ Len(h) + i <= Len(e)
        /\ ~ (Len(h) + i <= Len(h)) /\ (Len(h) + i) - Len(h) = i
        /\ Len(h) + i \in 1..(Len(e) + 2)
    BY <1>1, <1>4
  <2> QED
    BY <1>4, <1>5, <2>1
<1>8. ASSUME NEW i \in 1..2 PROVE f[Len(h) + Len(b) + i] = Port[i]
  <2>1. /\ Len(h) + Len(b) + i \in 1..(Len(e) + 2) /\ ~ (Len(h) + Len(b) + i <= Len(e))
        /\ (Len(h) + Len(b) + i) - Len(e) = i
    BY <1>1, <1>4
  <2> QED
    BY <1>5, <2>1
<1> QED
  BY <1>3, <1>4, <1>5, <1>6, <1>7, <1>8 DEF h, b

-----------------------------------------------------------------------------
\* A slice within its data.
LEMMA SliceBytes ==
  ASSUME NEW f \in Seq(Byte), NEW i \in Nat \ {0}, NEW n \in Nat, i + n - 1 <= Len(f)
  PROVE  /\ Slice(f, i, n) \in Seq(Byte) /\ Len(Slice(f, i, n)) = n
         /\ \A j \in 1..n : Slice(f, i, n)[j] = f[i + j - 1]
<1>1. ASSUME NEW j \in 1..n PROVE At(f, i + j - 1) = f[i + j - 1] /\ f[i + j - 1] \in Byte
  <2>1. i + j - 1 \in 1..Len(f) /\ DOMAIN f = 1..Len(f)
    OBVIOUS
  <2> QED
    BY <2>1 DEF At
<1>2. Slice(f, i, n) = [j \in 1..n |-> f[i + j - 1]]
  BY <1>1 DEF Slice
<1>3. [j \in 1..n |-> f[i + j - 1]] \in [1..n -> Byte]
  BY <1>1
<1> QED
  BY <1>2, <1>3

\* What is behind the checks of parse_header is in the data.
LEMMA LongEnough ==
  ASSUME NEW f \in Seq(Byte), f # <<>>, f[1] \in AddressType, ~ TooShort(f)
  PROVE  /\ AddrBytes(f) \in Nat /\ Len(f) \in Nat /\ 1 + AddrBytes(f) + 2 <= Len(f)
         /\ f[1] = Domain => f[2] \in Byte /\ AddrBytes(f) = 1 + f[2]
<1>1. Len(f) \in Nat /\ Len(f) >= 2 /\ ~ (Len(f) < 1 + AddrBytes(f) + 2) /\ 2 \in DOMAIN f
  BY DEF TooShort
<1>2. f[2] \in Byte /\ At(f, 2) = f[2] /\ f[2] \in Nat
  <2>1. f[2] \in Byte
    BY <1>1
  <2> QED
    BY <1>1, <2>1, Characters DEF At
<1>3. V4Len \in Nat /\ V6Len \in Nat
  BY SizesAssumption
<1>4. f[1] = Domain => AddrBytes(f) = 1 + f[2]
  BY <1>2, Types DEF AddrBytes
<1>5. AddrBytes(f) \in Nat
  <2>1. CASE f[1] = Domain
    BY <1>2, <1>4, <2>1
  <2>2. CASE f[1] = Ipv4
    BY <1>3, <2>2, Types DEF AddrBytes
  <2>3. CASE f[1] = Ipv6
    BY <1>3, <2>3, Types DEF AddrBytes
  <2> QED
    BY <2>1, <2>2, <2>3 DEF AddressType
<1> QED
  BY <1>1, <1>2, <1>4, <1>5

\* parse_header gives bytes or refuses.
LEMMA Parsed ==
  ASSUME NEW f \in Seq(Byte)
  PROVE  /\ parse_header(f).ok \in BOOLEAN
         /\ parse_header(f).ok =>
              parse_header(f).addr.bytes \in Seq(Byte) /\ parse_header(f).port \in Seq(Byte)
<1>1. CASE f = <<>> \/ f[1] \notin AddressType \/ TooShort(f)
  BY <1>1 DEF parse_header, Refused
<1>2. CASE ~ (f = <<>> \/ f[1] \notin AddressType \/ TooShort(f))
  <2> DEFINE port == Slice(f, 2 + AddrBytes(f), 2)
             name == Slice(f, 3, f[2])
             address == Slice(f, 2, AddrBytes(f))
             addr == IF f[1] = Domain THEN Text(Lossy(name)) ELSE Address(f[1], address)
  <2>1. /\ AddrBytes(f) \in Nat /\ Len(f) \in Nat /\ 1 + AddrBytes(f) + 2 <= Len(f)
        /\ f[1] = Domain => f[2] \in Byte /\ AddrBytes(f) = 1 + f[2]
    BY <1>2, LongEnough
  <2>2. port \in Seq(Byte)
    <3>1. 2 + AddrBytes(f) \in Nat \ {0} /\ 2 + AddrBytes(f) + 2 - 1 <= Len(f)
      BY <2>1
    <3> QED
      BY <3>1, SliceBytes
  <2>3. addr.bytes \in Seq(Byte)
    <3>1. CASE f[1] = Domain
      <4>1. f[2] \in Nat /\ 3 + f[2] - 1 <= Len(f)
        <5>1. f[2] \in Nat /\ AddrBytes(f) = 1 + f[2]
          BY <2>1, <3>1, Characters
        <5>2. 1 + (1 + f[2]) + 2 <= Len(f)
          BY <2>1, <5>1
        <5> QED
          BY <2>1, <5>1, <5>2
      <4>2. name \in Seq(Byte)
        BY <4>1, SliceBytes
      <4> HIDE DEF name
      <4>3. Lossy(name) \in Seq(Byte) /\ Lossy(Lossy(name)) = Lossy(name)
        BY <4>2, LossyText
      <4>4. Text(Lossy(name)).bytes \in Seq(Byte)
        BY <4>3, TextString, StringBytes
      <4> QED
        BY <3>1, <4>4
    <3>2. CASE f[1] # Domain
      <4>1. 2 + AddrBytes(f) - 1 <= Len(f)
        BY <2>1
      <4>2. address \in Seq(Byte)
        BY <2>1, <4>1, SliceBytes
      <4> QED
        BY <3>2, <4>2 DEF Address
    <3> QED
      BY <3>1, <3>2
  <2>4. parse_header(f) = [ok |-> TRUE, addr |-> addr, port |-> port]
    BY <1>2 DEF parse_header
  <2> HIDE DEF port, name, address, addr
  <2> QED
    BY <2>2, <2>3, <2>4
<1> QED
  BY <1>1, <1>2

\* parse_header undoes encode_address, if the length of a name fits its byte.
LEMMA RoundTrip ==
  ASSUME NEW a \in Strings, Len(a.bytes) < ByteMod
  PROVE  parse_header(encode_address(a) \o Port) = [ok |-> TRUE, addr |-> a, port |-> Port]
<1> DEFINE f == encode_address(a) \o Port
           h == Len(Prelude(a))
           n == Len(a.bytes)
<1>1. /\ f \in Seq(Byte) /\ Len(f) = h + n + 2
      /\ \A i \in 1..h : f[i] = Prelude(a)[i]
      /\ \A i \in 1..n : f[h + i] = a.bytes[i]
      /\ \A i \in 1..2 : f[h + n + i] = Port[i]
  BY ZenonT(40), HeaderBytes
<1>2. /\ a.type \in AddressType /\ a.bytes \in Seq(Byte) /\ a = Address(a.type, a.bytes)
      /\ a.type # Domain => a \in Numeric
      /\ a.type = Domain => Lossy(a.bytes) = a.bytes /\ a.bytes \notin DOMAIN Literal
  BY StringBytes
<1>3. /\ Prelude(a)[1] = a.type /\ h = IF a.type = Domain THEN 2 ELSE 1
      /\ a.type = Domain => Prelude(a)[2] = n % ByteMod
  BY PreludeBytes
<1>4. n \in Nat /\ n < ByteMod /\ ByteMod \in Nat
  BY <1>2, SizesAssumption
<1> HIDE DEF f, h
<1>5. n % ByteMod = n
  <2>1. \A x, m \in Nat : x < m => x % m = x
    OBVIOUS
  <2> QED
    BY <1>4, <2>1
<1> HIDE DEF n
<1>6. f # <<>> /\ f[1] = a.type /\ h \in {1, 2}
  <2>1. h \in {1, 2}
    BY <1>3
  <2>2. Len(f) # 0 /\ Len(<<>>) = 0 /\ 1 \in 1..h
    BY <1>1, <1>4, <2>1
  <2> QED
    BY <1>1, <1>3, <2>1, <2>2
<1>7. a.type = Domain => h = 2 /\ f[2] = n /\ At(f, 2) = n
  <2> SUFFICES ASSUME a.type = Domain PROVE h = 2 /\ f[2] = n /\ At(f, 2) = n
    OBVIOUS
  <2>1. h = 2 /\ f[2] = n
    BY <1>1, <1>3, <1>5
  <2>2. 2 \in DOMAIN f
    BY <1>1, <1>4, <2>1
  <2> QED
    BY <2>1, <2>2 DEF At
<1>8. AddrBytes(f) = h + n - 1
  <2>1. CASE a.type = Domain
    <3>1. AddrBytes(f) = 1 + n
      BY <1>6, <1>7, <2>1, Types DEF AddrBytes
    <3> QED
      BY <1>4, <1>7, <2>1, <3>1
  <2>2. CASE a.type # Domain
    <3>1. /\ a.type \in {Ipv4, Ipv6} /\ n = IF a.type = Ipv4 THEN V4Len ELSE V6Len
          /\ h = 1
      BY <1>2, <1>3, <2>2, NumericBytes DEF n
    <3>2. AddrBytes(f) = n
      BY <1>6, <3>1, Types DEF AddrBytes
    <3> QED
      BY <1>4, <3>1, <3>2
  <2> QED
    BY <2>1, <2>2
<1>9. ~ TooShort(f)
  <2>1. ~ (Len(f) < 2) /\ ~ (Len(f) < 1 + (h + n - 1) + 2)
    BY <1>1, <1>4, <1>6
  <2> QED
    BY <1>8, <2>1 DEF TooShort
<1>10. Slice(f, h + 1, n) = a.bytes
  <2>1. h + 1 \in Nat \ {0} /\ (h + 1) + n - 1 <= Len(f)
    BY <1>1, <1>4, <1>6
  <2> DEFINE s == Slice(f, h + 1, n)
  <2>2. s \in Seq(Byte) /\ Len(s) = n /\ \A j \in 1..n : s[j] = f[(h + 1) + j - 1]
    BY <1>1, <1>4, <2>1, SliceBytes
  <2>3. ASSUME NEW j \in 1..n PROVE s[j] = a.bytes[j]
    <3>1. (h + 1) + j - 1 = h + j
      BY <1>4, <1>6
    <3> QED
      BY <1>1, <2>2, <3>1
  <2> HIDE DEF s
  <2>4. s = a.bytes
    BY <1>2, <2>2, <2>3, SeqEqual DEF n
  <2> QED
    BY <2>4 DEF s
<1>11. Slice(f, 2 + AddrBytes(f), 2) = Port
  <2> DEFINE k == h + n + 1
             s == Slice(f, k, 2)
  <2>1. k \in Nat \ {0} /\ k + 2 - 1 <= Len(f) /\ 2 + AddrBytes(f) = k
    BY <1>1, <1>4, <1>6, <1>8
  <2>2. s \in Seq(Byte) /\ Len(s) = 2 /\ \A j \in 1..2 : s[j] = f[k + j - 1]
    <3> HIDE DEF k
    <3>1. 2 \in Nat
      OBVIOUS
    <3> QED
      BY Zenon, <1>1, <2>1, <3>1, SliceBytes
  <2>3. ASSUME NEW j \in 1..2 PROVE s[j] = Port[j]
    <3>1. k + j - 1 = h + n + j
      BY <1>4, <1>6
    <3> HIDE DEF k, s
    <3> QED
      BY <1>1, <2>2, <3>1
  <2>4. Port \in Seq(Byte) /\ Len(Port) = 2
    BY SizesAssumption DEF Port, Byte
  <2> HIDE DEF s, k
  <2>5. s = Port
    BY <2>2, <2>3, <2>4, SeqEqual
  <2> QED
    BY <2>1, <2>5 DEF s
<1>12. (IF f[1] = Domain THEN Text(Lossy(Slice(f, 3, f[2])))
                         ELSE Address(f[1], Slice(f, 2, AddrBytes(f)))) = a
  <2>1. CASE a.type = Domain
    <3>1. h + 1 = 3 /\ f[2] = n
      BY <1>7, <2>1
    <3>2. Slice(f, 3, f[2]) = a.bytes
      BY <1>10, <3>1
    <3>3. Text(Lossy(a.bytes)) = Address(Domain, a.bytes)
      BY <1>2, <2>1 DEF Text, Address
    <3> QED
      BY <1>2, <1>6, <2>1, <3>2, <3>3
  <2>2. CASE a.type # Domain
    <3>1. h = 1 /\ h + 1 = 2 /\ AddrBytes(f) = n
      BY <1>3, <1>4, <1>8, <2>2
    <3>2. Slice(f, 2, AddrBytes(f)) = a.bytes
      BY <1>10, <3>1
    <3> QED
      BY <1>2, <1>6, <2>2, <3>2
  <2> QED
    BY <2>1, <2>2
<1>13. parse_header(f) = [ok |-> TRUE, addr |-> a, port |-> Port]
  BY <1>2, <1>6, <1>9, <1>11, <1>12 DEF parse_header
<1> QED
  BY <1>13 DEF f

\* A slice of a part of the data.
LEMMA SliceInside ==
  ASSUME NEW f \in Seq(Byte), NEW b \in Seq(Byte), NEW h \in Nat, h + Len(b) <= Len(f),
         \A i \in 1..Len(b) : f[h + i] = b[i],
         NEW k \in Nat, NEW m \in Nat, k + m <= Len(b)
  PROVE  Slice(f, h + k + 1, m) = SubSeq(b, k + 1, k + m)
<1> DEFINE s == Slice(f, h + k + 1, m)
           t == SubSeq(b, k + 1, k + m)
<1>1. h + k + 1 \in Nat \ {0} /\ (h + k + 1) + m - 1 <= Len(f) /\ Len(b) \in Nat
  OBVIOUS
<1>2. s \in Seq(Byte) /\ Len(s) = m /\ \A j \in 1..m : s[j] = f[(h + k + 1) + j - 1]
  <2> DEFINE i == h + k + 1
  <2> HIDE DEF i
  <2>1. i \in Nat \ {0} /\ i + m - 1 <= Len(f)
    BY <1>1 DEF i
  <2>2. Slice(f, i, m) \in Seq(Byte) /\ Len(Slice(f, i, m)) = m
        /\ \A j \in 1..m : Slice(f, i, m)[j] = f[i + j - 1]
    BY Zenon, <2>1, SliceBytes
  <2> QED
    BY <2>2 DEF i
<1>3. t \in Seq(Byte) /\ Len(t) = m /\ \A j \in 1..m : t[j] = b[(k + 1) + j - 1]
  <2> DEFINE i == k + 1
             e == k + m
  <2>1. i \in Int /\ e \in Int /\ e - i + 1 = m /\ (i <= e \/ m = 0) /\ (m = 0 => ~ (i <= e))
    OBVIOUS
  <2>2. \A j \in i..e : b[j] \in Byte
    BY <1>1
  <2> HIDE DEF i, e
  <2>3. /\ SubSeq(b, i, e) \in Seq(Byte) /\ Len(SubSeq(b, i, e)) = IF i <= e THEN e - i + 1 ELSE 0
        /\ \A j \in 1..(e - i + 1) : SubSeq(b, i, e)[j] = b[i + j - 1]
    BY <2>1, <2>2, SubSeqProperties
  <2> QED
    BY <2>1, <2>3 DEF i, e
<1>4. ASSUME NEW j \in 1..m PROVE s[j] = t[j]
  <2>1. (h + k + 1) + j - 1 = h + (k + j) /\ (k + 1) + j - 1 = k + j /\ k + j \in 1..Len(b)
    OBVIOUS
  <2> HIDE DEF s, t
  <2> QED
    BY <1>2, <1>3, <2>1
<1> HIDE DEF s, t
<1>5. s = t
  BY <1>2, <1>3, <1>4, SeqEqual
<1> QED
  BY <1>5 DEF s, t

CutName(name) ==
  LET n == Len(name) % ByteMod
  IN [ok |-> TRUE, addr |-> Text(Lossy(SubSeq(name, 1, n))), port |-> SubSeq(name, n + 1, n + 2)]

\* parse_header on a header whose name is longer than its byte can tell.
LEMMA LongName ==
  ASSUME NEW a \in Strings, Len(a.bytes) >= ByteMod
  PROVE  parse_header(encode_address(a) \o Port) = CutName(a.bytes)
<1> DEFINE f == encode_address(a) \o Port
           b == a.bytes
           n == Len(b) % ByteMod
<1>1. b \in Seq(Byte) /\ Len(b) \in Nat /\ a.type = Domain
  <2>1. b \in Seq(Byte) /\ (a.type # Domain => a \in Numeric)
    BY StringBytes
  <2>2. Len(b) \in Nat /\ ByteMod \in Nat
    BY <2>1, SizesAssumption
  <2>3. ~ (Len(b) < ByteMod)
    BY <2>2
  <2> QED
    BY <2>1, <2>2, <2>3, NumericBytes
<1>2. n \in Nat /\ n + 2 <= Len(b)
  <2>1. \A x \in Nat, m \in Nat \ {0} : x % m \in 0..(m - 1) /\ m % m = 0
    OBVIOUS
  <2>2. ByteMod \in Nat \ {0} /\ ByteMod > 7 /\ Len(b) >= ByteMod
    BY SizesAssumption
  <2>3. n \in 0..(ByteMod - 1) /\ (Len(b) = ByteMod => n = 0)
    BY <1>1, <2>1, <2>2
  <2> HIDE DEF n, b
  <2> QED
    BY <1>1, <2>2, <2>3
<1>3. /\ f \in Seq(Byte) /\ Len(f) = 2 + Len(b) + 2
      /\ f[1] = Domain /\ f[2] = n
      /\ \A i \in 1..Len(b) : f[2 + i] = b[i]
  <2>1. Len(Prelude(a)) = 2 /\ Prelude(a)[1] = Domain /\ Prelude(a)[2] = n
    BY <1>1, PreludeBytes
  <2>2. /\ f \in Seq(Byte) /\ Len(f) = Len(Prelude(a)) + Len(b) + 2
        /\ \A i \in 1..Len(Prelude(a)) : f[i] = Prelude(a)[i]
        /\ \A i \in 1..Len(b) : f[Len(Prelude(a)) + i] = b[i]
    BY ZenonT(40), HeaderBytes
  <2>3. 1 \in 1..2 /\ 2 \in 1..2
    OBVIOUS
  <2> HIDE DEF f, b, n
  <2> QED
    BY <2>1, <2>2, <2>3
<1> HIDE DEF f, b, n
<1>4. f # <<>> /\ f[1] \in AddressType /\ At(f, 2) = n
  <2>1. 2 \in DOMAIN f /\ Len(f) # 0 /\ Len(<<>>) = 0
    BY <1>1, <1>3
  <2> QED
    BY <1>3, <2>1 DEF AddressType, At
<1>5. AddrBytes(f) = 1 + n
  BY <1>3, <1>4, Types DEF AddrBytes
<1>6. ~ TooShort(f)
  <2>1. ~ (Len(f) < 2) /\ ~ (Len(f) < 1 + (1 + n) + 2)
    BY <1>1, <1>2, <1>3
  <2> QED
    BY <1>5, <2>1 DEF TooShort
<1>7. ASSUME NEW k \in Nat, NEW m \in Nat, k + m <= Len(b)
      PROVE  Slice(f, 2 + k + 1, m) = SubSeq(b, k + 1, k + m)
  <2> DEFINE h == 2
  <2>1. h \in Nat /\ h + Len(b) <= Len(f)
    BY <1>1, <1>3
  <2>2. \A i \in 1..Len(b) : f[h + i] = b[i]
    BY <1>3
  <2> HIDE DEF h
  <2>3. Slice(f, h + k + 1, m) = SubSeq(b, k + 1, k + m)
    BY Zenon, <1>1, <1>3, <1>7, <2>1, <2>2, SliceInside
  <2> QED
    BY <2>3 DEF h
<1>8. /\ Slice(f, 3, f[2]) = SubSeq(b, 1, n)
      /\ Slice(f, 2 + AddrBytes(f), 2) = SubSeq(b, n + 1, n + 2)
  <2>1. 0 \in Nat /\ 2 \in Nat /\ 0 + n <= Len(b)
    BY <1>1, <1>2
  <2>2. /\ Slice(f, 2 + 0 + 1, n) = SubSeq(b, 0 + 1, 0 + n)
        /\ Slice(f, 2 + n + 1, 2) = SubSeq(b, n + 1, n + 2)
    BY <1>2, <1>7, <2>1
  <2>3. 2 + 0 + 1 = 3 /\ 0 + 1 = 1 /\ 0 + n = n /\ 2 + (1 + n) = 2 + n + 1
    BY <1>2
  <2> QED
    BY <1>3, <1>5, <2>2, <2>3
<1>9. parse_header(f) = [ok |-> TRUE, addr |-> Text(Lossy(SubSeq(b, 1, n))),
                         port |-> SubSeq(b, n + 1, n + 2)]
  BY <1>3, <1>4, <1>6, <1>8 DEF parse_header
<1> QED
  BY <1>9 DEF f, b, n, CutName

-----------------------------------------------------------------------------
\* What read_address makes of a target.
Heard(t) == IF t.type = Domain THEN Text(Lossy(t.bytes)) ELSE t

LEMMA TargetBytes ==
  ASSUME NEW t \in Targets
  PROVE  /\ t.type \in AddressType /\ t.bytes \in Seq(Byte) /\ Len(t.bytes) < ByteMod
         /\ Written(t) \in Seq(Byte)
         /\ t.type # Domain => t \in Numeric
<1>1. CASE t.type # Domain
  <2>1. \/ t \in [type : {Ipv4}, bytes : [1..V4Len -> Octets]]
        \/ t \in [type : {Ipv6}, bytes : [1..V6Len -> Octets]]
    BY <1>1 DEF Targets
  <2>2. t \in Numeric
    BY <2>1, SizesAssumption DEF Numeric
  <2>3. t.type \in {Ipv4, Ipv6} /\ t.bytes \in Seq(Byte) /\ Len(t.bytes) < ByteMod
    BY <2>2, NumericBytes
  <2>4. Written(t) = t.bytes
    BY <1>1, <2>3, ConcatEmptySeq DEF Written
  <2> QED
    BY <1>1, <2>2, <2>3, <2>4 DEF AddressType
<1>2. CASE t.type = Domain
  <2>1. t.bytes \in Names
    BY <1>2, Types DEF Targets
  <2>2. t.bytes \in Seq(Byte) /\ Len(t.bytes) < ByteMod /\ Len(t.bytes) \in Nat /\ ByteMod \in Nat
    BY <2>1, SizesAssumption
  <2>3. <<Len(t.bytes)>> \in Seq(Byte)
    BY <2>2 DEF Byte
  <2>4. Written(t) = <<Len(t.bytes)>> \o t.bytes
    BY <1>2 DEF Written
  <2>5. Written(t) \in Seq(Byte)
    BY <2>2, <2>3, <2>4, ConcatProperties
  <2> QED
    BY <1>2, <2>2, <2>5 DEF AddressType
<1> QED
  BY <1>1, <1>2

LEMMA HeardString ==
  ASSUME NEW t \in Targets
  PROVE  Heard(t) \in Strings
<1>1. t.bytes \in Seq(Byte) /\ (t.type # Domain => t \in Numeric)
  BY TargetBytes
<1>2. CASE t.type # Domain
  BY <1>1, <1>2 DEF Heard, Strings
<1>3. CASE t.type = Domain
  BY <1>1, <1>3, LossyText, TextString DEF Heard
<1> QED
  BY <1>2, <1>3

\* read_address takes what stands for the target, and nothing of what follows.
LEMMA ReadBack ==
  ASSUME NEW t \in Targets, NEW r \in Seq(Byte)
  PROVE  /\ read_address(t.type, Written(t) \o r).addr = Heard(t)
         /\ read_address(t.type, Written(t) \o r).used = Len(Written(t))
<1> DEFINE w == Written(t)
           s == w \o r
<1>1. /\ t.type \in AddressType /\ t.bytes \in Seq(Byte) /\ Len(t.bytes) \in Nat
      /\ w \in Seq(Byte) /\ (t.type # Domain => t \in Numeric)
  BY TargetBytes
<1>2. CASE t.type # Domain
  <2>1. t.type \in {Ipv4, Ipv6} /\ t = Address(t.type, t.bytes)
        /\ Len(t.bytes) = IF t.type = Ipv4 THEN V4Len ELSE V6Len
    BY <1>1, <1>2, NumericBytes
  <2>2. w = t.bytes
    BY <1>1, <1>2, ConcatEmptySeq DEF Written
  <2> HIDE DEF w
  <2>3. SubSeq(s, 1, Len(t.bytes)) = t.bytes
    BY <1>1, <2>2, FrontOfConcat
  <2> HIDE DEF s
  <2>4. CASE t.type = Ipv4
    <3>1. read_address(t.type, s) = [addr |-> Address(Ipv4, t.bytes), used |-> Len(t.bytes)]
      BY <2>1, <2>3, <2>4, Types DEF read_address
    <3> QED
      BY <1>2, <2>1, <2>2, <2>4, <3>1 DEF Heard, s, w
  <2>5. CASE t.type = Ipv6
    <3>1. read_address(t.type, s) = [addr |-> Address(Ipv6, t.bytes), used |-> Len(t.bytes)]
      BY <2>1, <2>3, <2>5, Types DEF read_address
    <3> QED
      BY <1>2, <2>1, <2>2, <2>5, <3>1 DEF Heard, s, w
  <2> QED
    BY <2>1, <2>4, <2>5
<1>3. CASE t.type = Domain
  <2> DEFINE n == Len(t.bytes)
             l == <<n>>
             q == t.bytes \o r
  <2>1. w = l \o t.bytes
    BY <1>3 DEF Written
  <2>2. l \in Seq(Byte) /\ Len(l) = 1 /\ l[1] = n
    <3>1. n \in Byte
      BY <1>1, TargetBytes, SizesAssumption DEF Byte
    <3> QED
      BY <3>1
  <2>3. Len(w) = 1 + n
    BY <1>1, <2>1, <2>2, ConcatProperties
  <2> HIDE DEF w, l
  <2>4. s = l \o q /\ q \in Seq(Byte)
    <3>1. q \in Seq(Byte)
      BY Zenon, <1>1, ConcatProperties
    <3>2. (l \o t.bytes) \o r = l \o (t.bytes \o r)
      <4> DEFINE b == t.bytes
      <4>1. b \in Seq(Byte)
        BY <1>1
      <4> HIDE DEF b
      <4>2. (l \o b) \o r = l \o (b \o r)
        BY SMTT(30), <2>2, <4>1, ConcatAssociative
      <4> QED
        BY <4>2 DEF b
    <3> QED
      BY <2>1, <3>1, <3>2
  <2>5. s[1] = n
    <3>1. Len(q) \in Nat
      BY <2>4
    <3>2. \A i \in 1..(Len(l) + Len(q)) : (l \o q)[i] = IF i <= Len(l) THEN l[i] ELSE q[i - Len(l)]
      <4> HIDE DEF q
      <4> QED
        BY SMTT(30), <2>2, <2>4, ConcatProperties
    <3>3. 1 \in 1..(Len(l) + Len(q)) /\ 1 <= Len(l)
      BY <2>2, <3>1
    <3> QED
      BY <2>2, <2>4, <3>2, <3>3
  <2>6. SubSeq(s, 2, 1 + n) = t.bytes
    <3>1. s \in Seq(Byte) /\ Len(s) = 1 + n + Len(r) /\ Len(r) \in Nat
      <4>1. s \in Seq(Byte) /\ Len(s) = Len(w) + Len(r)
        BY Zenon, <1>1, ConcatProperties
      <4>2. Len(r) \in Nat
        OBVIOUS
      <4> HIDE DEF s, n
      <4> QED
        BY <2>3, <4>1, <4>2
    <3>2. \A i \in 1..(Len(w) + Len(r)) : s[i] = IF i <= Len(w) THEN w[i] ELSE r[i - Len(w)]
      BY Zenon, <1>1, ConcatProperties
    <3>3. \A i \in 1..(Len(l) + n) : w[i] = IF i <= Len(l) THEN l[i] ELSE t.bytes[i - Len(l)]
      BY Zenon, <1>1, <2>1, <2>2, ConcatProperties
    <3> DEFINE m == SubSeq(s, 2, 1 + n)
    <3>4. m \in Seq(Byte) /\ Len(m) = n /\ \A i \in 1..n : m[i] = s[2 + i - 1]
      <4>1. (\A i \in 2..(1 + n) : s[i] \in Byte) /\ 2 \in Int /\ 1 + n \in Int
        BY <1>1, <3>1
      <4>2. /\ m \in Seq(Byte) /\ Len(m) = IF 2 <= 1 + n THEN (1 + n) - 2 + 1 ELSE 0
            /\ \A i \in 1..((1 + n) - 2 + 1) : m[i] = s[2 + i - 1]
        <5> HIDE DEF s, n
        <5> QED
          BY <4>1, SubSeqProperties
      <4>3. (1 + n) - 2 + 1 = n /\ (n = 0 \/ 2 <= 1 + n)
        BY <1>1
      <4> HIDE DEF m
      <4> QED
        BY <1>1, <4>2, <4>3
    <3>5. ASSUME NEW i \in 1..n PROVE m[i] = t.bytes[i]
      <4>1. 2 + i - 1 = 1 + i /\ 1 + i \in 1..(Len(w) + Len(r)) /\ 1 + i <= Len(w)
            /\ 1 + i \in 1..(Len(l) + n) /\ ~ (1 + i <= Len(l)) /\ (1 + i) - Len(l) = i
        BY <1>1, <2>2, <2>3, <3>1
      <4> HIDE DEF m, s
      <4> QED
        BY <3>2, <3>3, <3>4, <4>1
    <3> HIDE DEF m
    <3>6. m = t.bytes
      BY <1>1, <3>4, <3>5, SeqEqual
    <3> QED
      BY <3>6 DEF m
  <2> HIDE DEF s
  <2>7. read_address(t.type, s) = [addr |-> Text(Lossy(t.bytes)), used |-> 1 + n]
    BY <1>3, <2>5, <2>6, Types DEF read_address, Took
  <2> QED
    BY <1>3, <2>3, <2>7 DEF Heard, s, w
<1> QED
  BY <1>2, <1>3

-----------------------------------------------------------------------------
\* The inductive invariant: what each variable holds at each stage.
Received ==
  /\ asked \in Targets
  /\ stage = "request" => stream = Written(asked) \o (Port \o Pipelined) /\ target = Refused
  /\ stage # "request" =>
       stream = Pipelined /\ target = [ok |-> TRUE, addr |-> Heard(asked), port |-> Port]

Passed ==
  /\ frame \in Seq(Byte)
  /\ stage \in {"header", "dialled"} => frame = encode_address(Heard(asked)) \o Port
  /\ stage \notin {"dialled", "answered"} => dialled = Refused
  /\ stage \in {"dialled", "answered"} => dialled = parse_header(frame)

IInv ==
  /\ stage \in {"request", "encode", "header", "foreign", "dialled", "answered"}
  /\ Received /\ Passed

LEMMA PortBytes ==
  /\ Port \in Seq(Byte) /\ Len(Port) = 2 /\ Pipelined \in Seq(Byte)
  /\ Port \o Pipelined \in Seq(Byte)
<1>1. Port \in Seq(Byte) /\ Len(Port) = 2 /\ Pipelined \in Seq(Byte)
  BY SizesAssumption DEF Port, Pipelined, Byte
<1> QED
  BY <1>1, ConcatProperties

LEMMA Start == Init => IInv
<1> SUFFICES ASSUME Init PROVE IInv
  OBVIOUS
<1>1. asked \in Targets /\ stream = Written(asked) \o Port \o Pipelined /\ stage = "request"
      /\ target = Refused /\ frame = <<>> /\ dialled = Refused
  BY DEF Init
<1>2. stream = Written(asked) \o (Port \o Pipelined)
  BY <1>1, TargetBytes, PortBytes, ConcatAssociative
<1>3. frame \in Seq(Byte)
  BY <1>1
<1> QED
  BY <1>1, <1>2, <1>3 DEF IInv, Received, Passed

\* handle_socks_client leaves the stream at the app's own data.
LEMMA ReadTargetKeeps == ASSUME IInv, ReadTarget PROVE IInv'
<1>1. /\ stage = "request" /\ stage' = "encode" /\ asked' = asked /\ frame' = frame
      /\ dialled' = dialled
  BY DEF ReadTarget
<1> DEFINE w == Written(asked)
           r == Port \o Pipelined
<1>2. asked \in Targets /\ stream = w \o r /\ w \in Seq(Byte) /\ r \in Seq(Byte)
  BY <1>1, TargetBytes, PortBytes DEF IInv, Received
<1> DEFINE read == read_address(asked.type, stream)
           rest == SubSeq(stream, read.used + 1, Len(stream))
<1>3. read.addr = Heard(asked) /\ read.used = Len(w)
  BY <1>2, ReadBack
<1>4. rest = r
  <2>1. Rest(w \o r, 1 + Len(w)) = r
    BY <1>2, RestOfConcat
  <2>2. Len(w) + 1 = 1 + Len(w)
    BY <1>2
  <2> QED
    BY <1>2, <1>3, <2>1, <2>2 DEF Rest
<1>5. target' = [ok |-> TRUE, addr |-> read.addr, port |-> SubSeq(rest, 1, 2)]
      /\ stream' = SubSeq(rest, 3, Len(rest))
  BY DEF ReadTarget
<1> HIDE DEF w, read, rest
<1>6. SubSeq(rest, 1, 2) = Port
  BY <1>4, PortBytes, FrontOfConcat
<1>7. SubSeq(rest, 3, Len(rest)) = Pipelined
  <2>1. Rest(Port \o Pipelined, 1 + Len(Port)) = Pipelined
    BY Zenon, PortBytes, RestOfConcat
  <2>2. 1 + Len(Port) = 3
    BY PortBytes
  <2> QED
    BY <1>4, <2>1, <2>2 DEF Rest
<1>8. Received'
  BY <1>1, <1>2, <1>3, <1>5, <1>6, <1>7 DEF Received
<1>9. Passed'
  BY <1>1 DEF IInv, Passed
<1> QED
  BY <1>1, <1>8, <1>9 DEF IInv

LEMMA SendHeaderKeeps == ASSUME IInv, SendHeader PROVE IInv'
<1>1. /\ stage = "encode" /\ stage' = "header" /\ frame' = encode_address(target.addr) \o target.port
      /\ UNCHANGED <<stream, asked, target, dialled>>
  BY DEF SendHeader
<1>2. asked \in Targets /\ target = [ok |-> TRUE, addr |-> Heard(asked), port |-> Port]
  BY <1>1 DEF IInv, Received
<1>3. frame' = encode_address(Heard(asked)) \o Port
  BY <1>1, <1>2
<1>4. frame' \in Seq(Byte)
  BY <1>2, <1>3, HeardString, HeaderBytes
<1>5. Received'
  BY <1>1 DEF IInv, Received
<1>6. Passed'
  BY <1>1, <1>3, <1>4 DEF IInv, Passed
<1> QED
  BY <1>1, <1>5, <1>6 DEF IInv

LEMMA ForeignHeaderKeeps ==
  ASSUME IInv, stage = "encode", NEW f \in ForeignHeaders, ForeignHeader(f) PROVE IInv'
<1>1. stage' = "foreign" /\ frame' = f /\ UNCHANGED <<stream, asked, target, dialled>>
  BY DEF ForeignHeader
<1>2. asked \in Targets /\ target.addr = Heard(asked)
  BY DEF IInv, Received
<1> DEFINE e == encode_address(target.addr)
<1>3. e \in Seq(Byte) /\ e # <<>>
  <2>1. /\ Heard(asked) \in Strings /\ Prelude(Heard(asked)) \in Seq(Byte)
        /\ Len(Prelude(Heard(asked))) \in {1, 2} /\ Heard(asked).bytes \in Seq(Byte)
    BY <1>2, HeardString, PreludeBytes, StringBytes
  <2>2. e = Prelude(Heard(asked)) \o Heard(asked).bytes
    BY <1>2 DEF encode_address, Prelude
  <2>3. Prelude(Heard(asked)) # <<>>
    <3>1. Len(<<>>) = 0 /\ 0 \notin {1, 2}
      OBVIOUS
    <3> QED
      BY Zenon, <2>1, <3>1
  <2> QED
    BY <2>1, <2>2, <2>3, ConcatProperties, ConcatEqualIffEmpty
<1> HIDE DEF e
<1>4. PICK b \in Byte : f \in Cut(<<b>> \o Tail(e) \o Port)
  BY DEF ForeignHeaders, e
<1>5. <<b>> \o Tail(e) \o Port \in Seq(Byte)
  <2>1. <<b>> \in Seq(Byte) /\ Tail(e) \in Seq(Byte)
    BY <1>3, HeadTailProperties
  <2>2. <<b>> \o Tail(e) \in Seq(Byte)
    BY <2>1, ConcatProperties
  <2> QED
    BY <2>2, PortBytes, ConcatProperties
<1> DEFINE g == <<b>> \o Tail(e) \o Port
<1>6. PICK n \in 0..Len(g) : f = SubSeq(g, 1, n)
  BY <1>4 DEF Cut
<1> HIDE DEF g
<1>7. f \in Seq(Byte)
  <2>1. g \in Seq(Byte) /\ Len(g) \in Nat
    BY <1>5 DEF g
  <2>2. (\A i \in 1..n : g[i] \in Byte) /\ 1 \in Int /\ n \in Int
    BY <2>1
  <2> QED
    BY <1>6, <2>2, SubSeqProperties
<1>8. Received'
  BY <1>1 DEF IInv, Received
<1>9. Passed'
  BY <1>1, <1>7 DEF IInv, Passed
<1> QED
  BY <1>1, <1>8, <1>9 DEF IInv

LEMMA ParseHeaderKeeps == ASSUME IInv, ParseHeader PROVE IInv'
<1>1. /\ stage \in {"header", "foreign"} /\ dialled' = parse_header(frame)
      /\ stage' = IF stage = "header" THEN "dialled" ELSE "answered"
      /\ UNCHANGED <<stream, asked, target, frame>>
  BY DEF ParseHeader
<1>2. Received'
  BY <1>1 DEF IInv, Received
<1>3. Passed'
  BY <1>1 DEF IInv, Passed
<1> QED
  BY <1>1, <1>2, <1>3 DEF IInv

LEMMA NextKeeps == IInv /\ [Next]_vars => IInv'
<1> SUFFICES ASSUME IInv, [Next]_vars PROVE IInv'
  OBVIOUS
<1>1. CASE UNCHANGED vars
  <2>1. Received' = Received /\ Passed' = Passed /\ stage' = stage
    BY <1>1 DEF vars, Received, Passed
  <2> QED
    BY <2>1 DEF IInv
<1>2. CASE ReadTarget
  BY <1>2, ReadTargetKeeps
<1>3. CASE SendHeader
  BY <1>3, SendHeaderKeeps
<1>4. CASE ParseHeader
  BY <1>4, ParseHeaderKeeps
<1>5. ASSUME stage = "encode", NEW f \in ForeignHeaders, ForeignHeader(f) PROVE IInv'
  BY <1>5, ForeignHeaderKeeps
<1> QED
  BY <1>1, <1>2, <1>3, <1>4, <1>5 DEF Next

LEMMA Invariance == Spec => []IInv
BY Start, NextKeeps, PTL DEF Spec

-----------------------------------------------------------------------------
\* The stream, the headers and what is read of them are bytes.
THEOREM TypeCorrect == Spec => []TypeOK
<1>1. IInv => TypeOK
  <2> SUFFICES ASSUME IInv PROVE TypeOK
    OBVIOUS
  <2>1. stream \in Seq(Byte)
    <3>1. Written(asked) \in Seq(Byte)
      BY TargetBytes DEF IInv, Received
    <3>2. Written(asked) \o (Port \o Pipelined) \in Seq(Byte)
      BY <3>1, PortBytes, ConcatProperties
    <3> QED
      BY <3>2, PortBytes DEF IInv, Received
  <2>2. target.ok \in BOOLEAN
    <3>1. CASE stage = "request"
      <4>1. target = [ok |-> FALSE]
        BY <3>1 DEF IInv, Received, Refused
      <4> QED
        BY <4>1
    <3>2. CASE stage # "request"
      <4>1. target = [ok |-> TRUE, addr |-> Heard(asked), port |-> Port]
        BY <3>2 DEF IInv, Received
      <4> QED
        BY <4>1
    <3> QED
      BY <3>1, <3>2
  <2>3. dialled.ok \in BOOLEAN
    <3>1. CASE stage \in {"dialled", "answered"}
      BY <3>1, Parsed DEF IInv, Passed
    <3>2. CASE stage \notin {"dialled", "answered"}
      <4>1. dialled = [ok |-> FALSE]
        BY <3>2 DEF IInv, Passed, Refused
      <4> QED
        BY <4>1
    <3> QED
      BY <3>1, <3>2
  <2> QED
    BY <2>1, <2>2, <2>3 DEF IInv, Received, Passed, TypeOK
<1> QED
  BY <1>1, Invariance, PTL

\* parse_header never indexes past the end of a frame, whoever sent it and
\* whatever it says of its own length.
THEOREM HeadersCannotPanic == Spec => []NeverPanics
<1>1. IInv => NeverPanics
  <2> SUFFICES ASSUME IInv, dialled.ok
               PROVE  Panic \notin (ToSet(dialled.addr.bytes) \cup ToSet(dialled.port))
    BY DEF NeverPanics
  <2>1. dialled = parse_header(frame) /\ frame \in Seq(Byte)
    <3>1. Refused.ok = FALSE
      BY DEF Refused
    <3> QED
      BY <3>1 DEF IInv, Passed
  <2>2. dialled.addr.bytes \in Seq(Byte) /\ dialled.port \in Seq(Byte)
    BY <2>1, Parsed
  <2>3. ASSUME NEW s \in Seq(Byte) PROVE ToSet(s) \subseteq Byte
    BY DEF ToSet
  <2>4. Panic \notin Byte
    BY Characters DEF Panic
  <2> QED
    BY <2>2, <2>3, <2>4
<1> QED
  BY <1>1, Invariance, PTL

\* Whatever target it reads, the client leaves the app's own data in the stream.
THEOREM PipelinedDataStays == Spec => []LeavesPipelined
<1>1. IInv => LeavesPipelined
  BY DEF IInv, Received, LeavesPipelined
<1> QED
  BY <1>1, Invariance, PTL

\* What the client read is what the server dials, if the length of a name fits
\* its byte; and that is what the app meant, if its name is text.
THEOREM TargetArrives == Spec => []DialsWhatWasAsked
<1>1. IInv => DialsWhatWasAsked
  <2> SUFFICES ASSUME IInv, stage = "dialled"
               PROVE  /\ Len(target.addr.bytes) < ByteMod => dialled = target
                      /\ Utf8(asked) =>
                           dialled = [ok |-> TRUE, addr |-> Meant(asked), port |-> Port]
    BY DEF DialsWhatWasAsked
  <2> DEFINE a == Heard(asked)
  <2>1. /\ asked \in Targets /\ target = [ok |-> TRUE, addr |-> a, port |-> Port]
        /\ dialled = parse_header(encode_address(a) \o Port)
    BY DEF IInv, Received, Passed
  <2>2. a \in Strings
    BY <2>1, HeardString
  <2>3. Len(a.bytes) < ByteMod =>
          dialled = [ok |-> TRUE, addr |-> a, port |-> Port]
    BY <2>1, <2>2, RoundTrip
  <2>4. ASSUME Utf8(asked) PROVE a = Meant(asked) /\ Len(a.bytes) < ByteMod
    <3>1. /\ asked.bytes \in Seq(Byte) /\ Len(asked.bytes) < ByteMod
          /\ asked.type # Domain => asked \in Numeric
      BY <2>1, TargetBytes
    <3>2. CASE asked.type # Domain
      BY <3>1, <3>2 DEF Heard, Meant
    <3>3. CASE asked.type = Domain
      <4>1. Lossy(asked.bytes) = asked.bytes
        BY <2>4, <3>3 DEF Utf8
      <4>2. a = Text(asked.bytes) /\ Meant(asked) = Text(asked.bytes)
        BY <3>3, <4>1 DEF Heard, Meant
      <4>3. Len(Text(asked.bytes).bytes) < ByteMod
            \/ Text(asked.bytes) = Address(Domain, asked.bytes)
        BY <3>1, <4>1, TextString
      <4> QED
        BY <3>1, <4>2, <4>3 DEF Address
    <3> QED
      BY <3>2, <3>3
  <2> HIDE DEF a
  <2> QED
    BY <2>1, <2>3, <2>4
<1> QED
  BY <1>1, Invariance, PTL

\* What becomes of a name that is too long for the byte of its length: the server
\* dials the front of it, at a port made of its next two letters.
THEOREM LongNamesAreCut == Spec => []WrappedNameIsCut
<1>1. IInv => WrappedNameIsCut
  <2> SUFFICES ASSUME IInv, stage = "dialled", Len(target.addr.bytes) >= ByteMod
               PROVE  dialled = CutName(target.addr.bytes)
    BY DEF WrappedNameIsCut, CutName
  <2> DEFINE a == Heard(asked)
  <2>1. /\ asked \in Targets /\ target.addr = a
        /\ dialled = parse_header(encode_address(a) \o Port)
    <3>1. asked \in Targets /\ target = [ok |-> TRUE, addr |-> a, port |-> Port]
          /\ dialled = parse_header(encode_address(a) \o Port)
      BY DEF IInv, Received, Passed
    <3> HIDE DEF a
    <3> QED
      BY <3>1
  <2>2. a \in Strings
    BY <2>1, HeardString
  <2> HIDE DEF a
  <2> QED
    BY <2>1, <2>2, LongName
<1> QED
  BY <1>1, Invariance, PTL
=============================================================================

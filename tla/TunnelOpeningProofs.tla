------------------------ MODULE TunnelOpeningProofs ------------------------
(***************************************************************************)
(* Proofs about TunnelOpening, for any size of a byte, any lengths of the  *)
(* hello and of the tag, any hellos, headers and bytes of the target, and  *)
(* any secrets.                                                            *)
(***************************************************************************)
EXTENDS TunnelOpening, SequenceTheorems, TLAPS

-----------------------------------------------------------------------------
\* The inductive invariant.

\* The ends that Init lets meet, and what their options have to do with it.
Guarded ==
  \A s \in Side : guarded[s] /\ kind[s] # "quic" => kind[s] = "encrypted"

Matched ==
  \/ \A s \in Side : kind[s] = "plain"
  \/ \A s \in Side : kind[s] = "quic"
  \/ \E s \in Side : kind[s] = "encrypted" /\ kind[Peer(s)] = "plain"

\* How far an end has come, and what it has sent and got by then.
Before == {"connected", "send_hello"} \cup Reading
Silent(s) == pc[s] = "connected" \/ (s = "server" /\ pc[s] = "recv_hello")

Progress ==
  /\ \A s \in Side :
       /\ pc[s] \in Before => got[s] = <<>>
       /\ pc[s] \in {"handed", "dial", "send_raw", "relay"} => got[s] # <<>>
       /\ Len(got[s]) <= 1
       /\ pc[s] \in {"send_hello", "recv_hello"} => kind[s] = "encrypted"
       /\ pc[s] = "recv_len" => want[s] = 2
       /\ pc[s] = "recv_hello" => want[s] = HelloLen
       /\ pc[s] = "send_frame" => Len(sent[s]) = 1
       /\ Silent(s) => drawn[s] = <<>>
  /\ pc["client"] \in {"connected", "send_hello", "send_frame"} =>
       got["client"] = <<>> /\ (kind["client"] # "encrypted" => buf["client"] = <<>>)
  /\ pc["client"] \in {"connected", "send_hello", "recv_hello"} => sent["client"] = <<>>
  /\ pc["client"] \notin {"relay", "over", "left"} \/ got["client"] = <<>> => relayed = <<>>
  /\ pc["client"] = "relay" => IsSuccess(got["client"][1])
  /\ pc["client"] \notin {"dial", "send_raw"} /\ pc["server"] # "connected"
  /\ pc["server"] \in Before \cup {"handed", "dial"} => sent["server"] = <<>>
  /\ pc["server"] \in {"send_raw", "relay"} => sent["server"] = <<<<0>>>>
  /\ pc["server"] = "send_frame" \/ sent["server"] # <<>> => got["server"] # <<>>
  /\ \A s \in Side : Len(sent[s]) <= 1

\* An encrypted end is handed no frame; and as long as its server has not taken
\* one out of its hello, an encrypted client hears nothing.
Unheard ==
  /\ \A s \in Side : kind[s] = "encrypted" => got[s] = <<>>
  /\ kind["server"] = "encrypted" => sent["server"] = <<>>
  /\ kind["client"] = "encrypted" /\ got["server"] = <<>> =>
       /\ wire["server"] = <<>> /\ buf["client"] = <<>>
       /\ pc["client"] \in {"connected", "send_hello", "recv_hello", "over", "left"}

\* A stream that was cut short carries nothing more.
Padding ==
  \A s \in Side : padded[s] =>
    /\ kind[s] = "quic" /\ wire[Peer(s)] = <<>> /\ end[Peer(s)] # "open"
    /\ s = "client" => relayed = <<>>

\* What was handed over, unless it was cut short, is what was sent.
Truthful ==
  \A s \in Side : got[s] # <<>> /\ ~padded[s] /\ Alike(s) => got[s] = sent[Peer(s)]

\* What is handed over by an end of the other kind is what its hello begins with.
Spelled ==
  \A s \in Side : got[s] # <<>> /\ ~Alike(s) =>
    drawn[Peer(s)] \in Hellos /\ Spells(drawn[Peer(s)], got[s][1])

\* q is what F holds behind its first k bytes, or a part of that.
Part(q, F, k) ==
  /\ k + Len(q) <= Len(F)
  /\ \A i \in 1..Len(q) : q[i] = F[k + i]

\* All that s may come to write while its peer looks for a frame, with what it has
\* decided so far.
Streams(s) ==
  IF kind[s] = "encrypted" THEN {drawn[s]}
  ELSE IF sent[s] = <<>> THEN {<<>>}
  ELSE {Encoded(sent[s][1]) \o (IF s = "server" /\ sent[s] = <<<<0>>>> THEN Raw ELSE <<>>)}

\* What p has taken out of its peer's stream, and what it is looking at.
Past(p) ==
  IF got[p] = <<>> THEN (IF pc[p] = "recv_body" THEN 2 ELSE 0)
  ELSE 2 + Len(got[p][1]) + (IF p = "client" THEN Len(relayed) ELSE 0)

Held(p) == IF got[p] = <<>> THEN buf[p] ELSE <<>>

\* Where the stream is when s has written what it is writing.
Goal(s, F) == IF pc[s] = "send_frame" THEN 2 + Len(sent[s][1]) ELSE Len(F)

Aligned(s, F) ==
  LET p == Peer(s)
      ahead == Past(p) + Len(Held(p))
  IN /\ Part(Held(p), F, Past(p))
     /\ Part(wire[s], F, ahead)
     /\ pc[p] = "recv_body" => want[p] = Value(F)
     /\ end[s] = "open" /\ pc[s] \in Writing =>
          /\ Part(todo[s], F, ahead + Len(wire[s]))
          /\ ahead + Len(wire[s]) + Len(todo[s]) = Goal(s, F)

Watched(s) ==
  /\ kind[Peer(s)] # "encrypted" /\ ~Gone(Peer(s)) /\ ~padded[Peer(s)]
  /\ s = "client" => got["server"] = <<>>

\* An end that still reads, and reads frames, is in step with its peer; of what
\* comes behind the header the server's relay makes no difference.
StreamAligned == \A s \in Side : Watched(s) => \E F \in Streams(s) : Aligned(s, F)

IInv ==
  /\ TypeOK /\ Guarded /\ Matched /\ Progress /\ Unheard /\ Padding /\ Truthful
  /\ Spelled /\ RelayIntact /\ StreamAligned

-----------------------------------------------------------------------------
\* Parts of a stream.

LEMMA PartCat ==
  ASSUME NEW S, NEW q \in Seq(S), NEW r \in Seq(S), NEW F \in Seq(S), NEW k \in Nat,
         Part(q, F, k), Part(r, F, k + Len(q))
  PROVE  Part(q \o r, F, k)
<1>1. /\ Len(q \o r) = Len(q) + Len(r)
      /\ \A i \in 1..(Len(q) + Len(r)) :
           (q \o r)[i] = IF i <= Len(q) THEN q[i] ELSE r[i - Len(q)]
  BY ConcatProperties
<1>2. Len(q) \in Nat /\ Len(r) \in Nat /\ Len(F) \in Nat
  OBVIOUS
<1>3. ASSUME NEW i \in 1..Len(q \o r)
      PROVE  (q \o r)[i] = F[k + i]
  <2>1. CASE i <= Len(q)
    BY <1>1, <1>2, <2>1 DEF Part
  <2>2. CASE i > Len(q)
    <3>1. i - Len(q) \in 1..Len(r) /\ (q \o r)[i] = r[i - Len(q)]
      BY <1>1, <1>2, <2>2
    <3>2. r[i - Len(q)] = F[k + Len(q) + (i - Len(q))]
      BY <3>1 DEF Part
    <3>3. k + Len(q) + (i - Len(q)) = k + i
      BY <1>2
    <3> QED
      BY <3>1, <3>2, <3>3
  <2> QED
    BY <1>1, <1>2, <2>1, <2>2
<1> QED
  BY <1>1, <1>2, <1>3 DEF Part

LEMMA PartSplit ==
  ASSUME NEW S, NEW q \in Seq(S), NEW F \in Seq(S), NEW k \in Nat, NEW n \in 0..Len(q),
         Part(q, F, k)
  PROVE  /\ SubSeq(q, 1, n) \in Seq(S) /\ Len(SubSeq(q, 1, n)) = n
         /\ SubSeq(q, n + 1, Len(q)) \in Seq(S)
         /\ Len(SubSeq(q, n + 1, Len(q))) = Len(q) - n
         /\ Part(SubSeq(q, 1, n), F, k)
         /\ Part(SubSeq(q, n + 1, Len(q)), F, k + n)
<1>0. Len(q) \in Nat /\ Len(F) \in Nat /\ \A i \in 1..Len(q) : q[i] \in S
  OBVIOUS
<1>1. /\ SubSeq(q, 1, n) \in Seq(S) /\ Len(SubSeq(q, 1, n)) = n
      /\ \A i \in 1..n : SubSeq(q, 1, n)[i] = q[i]
  <2>1. \A i \in 1..n : q[i] \in S
    BY SMTT(30), <1>0
  <2> QED
    BY <1>0, <2>1, SubSeqProperties
<1>2. /\ SubSeq(q, n + 1, Len(q)) \in Seq(S)
      /\ Len(SubSeq(q, n + 1, Len(q))) = Len(q) - n
      /\ \A i \in 1..(Len(q) - n) : SubSeq(q, n + 1, Len(q))[i] = q[n + i]
  <2>1. \A i \in (n + 1)..Len(q) : q[i] \in S
    BY <1>0
  <2>2. /\ SubSeq(q, n + 1, Len(q)) \in Seq(S)
        /\ Len(SubSeq(q, n + 1, Len(q))) = IF n + 1 <= Len(q) THEN Len(q) - (n + 1) + 1 ELSE 0
        /\ \A i \in 1..(Len(q) - (n + 1) + 1) :
             SubSeq(q, n + 1, Len(q))[i] = q[n + 1 + i - 1]
    BY <1>0, <2>1, SubSeqProperties
  <2>3. /\ Len(q) - (n + 1) + 1 = Len(q) - n
        /\ (IF n + 1 <= Len(q) THEN Len(q) - (n + 1) + 1 ELSE 0) = Len(q) - n
        /\ \A i \in 1..(Len(q) - n) : n + 1 + i - 1 = n + i
    BY <1>0
  <2> QED
    BY <2>2, <2>3
<1>3. Part(SubSeq(q, 1, n), F, k)
  BY <1>0, <1>1 DEF Part
<1>4. Part(SubSeq(q, n + 1, Len(q)), F, k + n)
  <2>1. ASSUME NEW i \in 1..(Len(q) - n)
        PROVE  SubSeq(q, n + 1, Len(q))[i] = F[k + n + i]
    <3>1. n + i \in 1..Len(q) /\ k + (n + i) = k + n + i
      BY <1>0
    <3>2. q[n + i] = F[k + (n + i)]
      BY <3>1 DEF Part
    <3> QED
      BY <1>2, <3>1, <3>2
  <2>2. k + n + (Len(q) - n) <= Len(F)
    BY <1>0 DEF Part
  <2> QED
    BY <1>2, <2>1, <2>2 DEF Part
<1> QED
  BY <1>1, <1>2, <1>3, <1>4

LEMMA PartPrefix ==
  ASSUME NEW S, NEW q \in Seq(S), NEW p \in Prefixes(q)
  PROVE  /\ p \in Seq(S) /\ (q = <<>> => p = <<>>)
         /\ \A F \in Seq(S), k \in Nat : Part(q, F, k) => Part(p, F, k)
<1>1. PICK n \in 0..Len(q) : p = SubSeq(q, 1, n)
  BY DEF Prefixes
<1>2. Part(q, q, 0)
  BY DEF Part
<1>3. p \in Seq(S) /\ Len(p) = n
  BY <1>1, <1>2, PartSplit
<1>4. q = <<>> => p = <<>>
  BY <1>3
<1>5. \A F \in Seq(S), k \in Nat : Part(q, F, k) => Part(p, F, k)
  BY <1>1, PartSplit
<1> QED
  BY <1>3, <1>4, <1>5

\* A part as long as the whole is the whole.
LEMMA PartWhole ==
  ASSUME NEW S, NEW q \in Seq(S), NEW f \in Seq(S), NEW r \in Seq(S),
         NEW e \in Seq(S), Part(q, (e \o f) \o r, Len(e)), Len(q) = Len(f)
  PROVE  q = f
<1>1. /\ Len(e) \in Nat /\ Len(f) \in Nat /\ Len(r) \in Nat
      /\ e \o f \in Seq(S) /\ Len(e \o f) = Len(e) + Len(f)
  BY ConcatProperties
<1>2. ASSUME NEW i \in 1..Len(q)
      PROVE  q[i] = f[i]
  <2>1. /\ Len(e) + i \in 1..(Len(e) + Len(f))
        /\ Len(e) + i \in 1..(Len(e \o f) + Len(r))
        /\ ~(Len(e) + i <= Len(e)) /\ Len(e) + i - Len(e) = i
    BY <1>1
  <2>2. (e \o f)[Len(e) + i] = f[i]
    BY <2>1, ConcatProperties
  <2>3. ((e \o f) \o r)[Len(e) + i] = (e \o f)[Len(e) + i]
    BY <1>1, <2>1, ConcatProperties
  <2> QED
    BY <2>2, <2>3 DEF Part
<1> QED
  BY <1>1, <1>2, SeqEqual

\* A part of what is behind w is a part of the rest.
LEMMA PartBehind ==
  ASSUME NEW S, NEW q \in Seq(S), NEW w \in Seq(S), NEW r \in Seq(S), NEW k \in Nat,
         Part(q, w \o r, Len(w) + k)
  PROVE  Part(q, r, k)
<1>1. /\ Len(q) \in Nat /\ Len(w) \in Nat /\ Len(r) \in Nat
      /\ Len(w \o r) = Len(w) + Len(r)
      /\ \A i \in 1..(Len(w) + Len(r)) :
           (w \o r)[i] = IF i <= Len(w) THEN w[i] ELSE r[i - Len(w)]
  BY ConcatProperties
<1>2. Len(w) + k + Len(q) <= Len(w) + Len(r)
  BY <1>1 DEF Part
<1>3. k + Len(q) <= Len(r)
  BY <1>1, <1>2
<1>4. ASSUME NEW i \in 1..Len(q)
      PROVE  q[i] = r[k + i]
  <2>1. /\ Len(w) + k + i \in 1..(Len(w) + Len(r)) /\ ~(Len(w) + k + i <= Len(w))
        /\ Len(w) + k + i - Len(w) = k + i
    BY <1>1, <1>3
  <2>2. q[i] = (w \o r)[Len(w) + k + i]
    BY DEF Part
  <2> QED
    BY <1>1, <2>1, <2>2
<1> QED
  BY <1>3, <1>4 DEF Part

LEMMA PrefixIsPart ==
  ASSUME NEW S, NEW p \in Seq(S), NEW q \in Seq(S)
  PROVE  IsPrefix(p, q) <=> Part(p, q, 0)
<1>0. Len(p) \in Nat /\ Len(q) \in Nat /\ SubSeq(p, 1, Len(p)) = p
  BY SubSeqFull
<1>1. ASSUME Len(p) <= Len(q)
      PROVE  /\ SubSeq(q, 1, Len(p)) \in Seq(S) /\ Len(SubSeq(q, 1, Len(p))) = Len(p)
             /\ \A i \in 1..Len(p) : SubSeq(q, 1, Len(p))[i] = q[i]
  <2>1. Part(q, q, 0) /\ Len(p) \in 0..Len(q)
    BY <1>0, <1>1 DEF Part
  <2>2. /\ SubSeq(q, 1, Len(p)) \in Seq(S) /\ Len(SubSeq(q, 1, Len(p))) = Len(p)
        /\ Part(SubSeq(q, 1, Len(p)), q, 0)
    BY <2>1, PartSplit
  <2> QED
    BY <2>2 DEF Part
<1>2. ASSUME IsPrefix(p, q)
      PROVE  Part(p, q, 0)
  <2>1. Len(p) <= Len(q) /\ p = SubSeq(q, 1, Len(p))
    BY <1>0, <1>2 DEF IsPrefix
  <2>2. \A i \in 1..Len(p) : p[i] = q[i]
    BY <1>1, <2>1
  <2> QED
    BY <1>0, <2>1, <2>2 DEF Part
<1>3. ASSUME Part(p, q, 0)
      PROVE  IsPrefix(p, q)
  <2>1. Len(p) <= Len(q) /\ \A i \in 1..Len(p) : p[i] = q[i]
    BY <1>0, <1>3 DEF Part
  <2>2. p = SubSeq(q, 1, Len(p))
    BY <1>1, <2>1, SeqEqual
  <2> QED
    BY <1>0, <2>1, <2>2 DEF IsPrefix
<1> QED
  BY <1>2, <1>3

-----------------------------------------------------------------------------
\* Two bytes.

\* The two bytes of a length are bytes, and spell it.
LEMMA LengthBytes ==
  ASSUME NEW n \in Nat, n < Base * Base
  PROVE  /\ LenBytes(n) \in Seq(Byte) /\ Len(LenBytes(n)) = 2
         /\ Value(LenBytes(n)) = n
<1> DEFINE a == n \div Base
           b == n % Base
<1>0. Base \in Nat /\ Base >= 2
  BY OpeningAssumption
<1>1. a \in Nat /\ b \in 0..(Base - 1) /\ n = Base * a + b
  BY <1>0
<1>2. a < Base
  <2>1. Base * a < Base * Base
    BY <1>0, <1>1
  <2> QED
    BY <1>0, <1>1, <2>1
<1>6. LenBytes(n) = <<a % Base, b>>
  BY DEF LenBytes
<1> HIDE DEF a, b
<1>3. a % Base = a
  BY <1>0, <1>1, <1>2
<1>4. LenBytes(n) = <<a, b>>
  BY <1>3, <1>6
<1>5. a * Base = Base * a
  BY <1>0, <1>1
<1>7. a \in Byte /\ b \in Byte
  BY <1>0, <1>1, <1>2 DEF Byte
<1>8. <<a, b>> \in Seq(Byte) /\ Len(<<a, b>>) = 2
  BY <1>7
<1>9. Value(LenBytes(n)) = a * Base + b
  BY <1>4 DEF Value
<1> QED
  BY <1>0, <1>1, <1>4, <1>5, <1>8, <1>9

\* What two bytes spell, two bytes can hold.
LEMMA ValueRange ==
  ASSUME NEW b \in Seq(Byte), Len(b) >= 2
  PROVE  Value(b) \in 0..(Base * Base - 1)
<1>0. Base \in Nat /\ Base >= 2
  BY OpeningAssumption
<1>1. b[1] \in 0..(Base - 1) /\ b[2] \in 0..(Base - 1)
  <2>1. b[1] \in Byte /\ b[2] \in Byte
    OBVIOUS
  <2> QED
    BY <2>1 DEF Byte
<1>2. b[1] * Base <= (Base - 1) * Base
  BY <1>0, <1>1
<1>3. (Base - 1) * Base = Base * Base - Base /\ b[1] * Base \in Nat /\ Base * Base \in Nat
  BY <1>0, <1>1
<1> QED
  BY <1>0, <1>1, <1>2, <1>3 DEF Value

-----------------------------------------------------------------------------
\* Frames and streams.

LEMMA FrameBytes ==
  ASSUME NEW f \in Frame
  PROVE  f \in Seq(Byte) /\ f # <<>> /\ Len(f) \in Nat /\ Len(f) < Base * Base
<1>1. Base \in Nat /\ Base >= 2 /\ Base * Base >= 4
  <2>1. Base \in Nat /\ Base >= 2
    BY OpeningAssumption
  <2>2. Base * Base >= 2 * Base
    BY <2>1
  <2>3. Base * Base \in Nat /\ 2 * Base >= 4
    BY <2>1
  <2> QED
    BY <2>1, <2>2, <2>3
<1>2. CASE f \in Headers
  <2>1. f \in Seq(Byte) /\ f # <<>> /\ Len(f) < Base * Base
    BY <1>2, OpeningAssumption
  <2> QED
    BY <2>1
<1>3. CASE f \in {<<0>>, <<1>>}
  <2>1. 0 \in Byte /\ 1 \in Byte
    BY <1>1 DEF Byte
  <2>2. <<0>> \in Seq(Byte) /\ <<1>> \in Seq(Byte) /\ Len(<<0>>) = 1 /\ Len(<<1>>) = 1
    BY <2>1
  <2>3. f \in Seq(Byte) /\ f # <<>> /\ Len(f) = 1
    <3>1. f = <<0>> \/ f = <<1>>
      BY <1>3
    <3>2. f \in Seq(Byte) /\ Len(f) = 1
      BY <2>2, <3>1
    <3>3. f # <<>>
      <4>1. <<0>> # <<>> /\ <<1>> # <<>>
        OBVIOUS
      <4> QED
        BY <3>1, <4>1, Zenon
    <3> QED
      BY <3>2, <3>3
  <2>4. 1 < Base * Base
    BY <1>1
  <2> QED
    BY <2>3, <2>4
<1> QED
  BY <1>2, <1>3 DEF Frame

\* A frame on the wire: two bytes that spell its length, and its bytes.
LEMMA EncodedFrame ==
  ASSUME NEW f \in Frame, NEW r \in Seq(Byte)
  PROVE  /\ LenBytes(Len(f)) \in Seq(Byte) /\ Len(LenBytes(Len(f))) = 2
         /\ Encoded(f) \in Seq(Byte) /\ Len(Encoded(f)) = 2 + Len(f)
         /\ Encoded(f) \o r \in Seq(Byte) /\ Len(Encoded(f) \o r) = 2 + Len(f) + Len(r)
         /\ Value(Encoded(f) \o r) = Len(f)
         /\ Part(Encoded(f), Encoded(f) \o r, 0)
         /\ Part(r, Encoded(f) \o r, 2 + Len(f))
<1> DEFINE e == LenBytes(Len(f))
           w == Encoded(f)
<1>1. f \in Seq(Byte) /\ Len(f) \in Nat /\ Len(r) \in Nat
  BY FrameBytes
<1>2. e \in Seq(Byte) /\ Len(e) = 2 /\ Value(e) = Len(f)
  BY FrameBytes, LengthBytes
<1>3. w = e \o f
  BY DEF Encoded
<1> HIDE DEF e, w
<1>4. w \in Seq(Byte) /\ Len(w) = 2 + Len(f) /\ w[1] = e[1] /\ w[2] = e[2]
  BY SMTT(30), <1>1, <1>2, <1>3, ConcatProperties
<1>5. /\ w \o r \in Seq(Byte) /\ Len(w \o r) = Len(w) + Len(r)
      /\ \A i \in 1..(Len(w) + Len(r)) :
           (w \o r)[i] = IF i <= Len(w) THEN w[i] ELSE r[i - Len(w)]
  <2>1. w \in Seq(Byte) /\ r \in Seq(Byte)
    BY <1>4
  <2> QED
    BY <2>1, ConcatProperties, Zenon
<1>6. (w \o r)[1] = e[1] /\ (w \o r)[2] = e[2]
  BY <1>1, <1>4, <1>5
<1>7. Value(w \o r) = Len(f)
  BY <1>2, <1>6 DEF Value
<1>8. Part(w, w \o r, 0)
  BY <1>1, <1>4, <1>5 DEF Part
<1>9. Part(r, w \o r, 2 + Len(f))
  <2>1. ASSUME NEW i \in 1..Len(r)
        PROVE  r[i] = (w \o r)[2 + Len(f) + i]
    <3>1. /\ 2 + Len(f) + i \in 1..(Len(w) + Len(r)) /\ ~(2 + Len(f) + i <= Len(w))
          /\ 2 + Len(f) + i - Len(w) = i
      BY <1>1, <1>4
    <3> QED
      BY <1>5, <3>1
  <2> QED
    BY <1>1, <1>4, <1>5, <2>1 DEF Part
<1> QED
  BY <1>1, <1>2, <1>4, <1>5, <1>7, <1>8, <1>9 DEF e, w

\* Any frame on the wire is two bytes and as many more.
LEMMA EncodedBytes ==
  ASSUME NEW f \in Seq(Byte)
  PROVE  Encoded(f) \in Seq(Byte) /\ Len(Encoded(f)) = 2 + Len(f)
<1> DEFINE n == Len(f)
           a == (n \div Base) % Base
           b == n % Base
<1>1. n \in Nat /\ Base \in Nat /\ Base >= 2
  BY OpeningAssumption
<1> HIDE DEF n
<1>2. n \div Base \in Nat /\ b \in 0..(Base - 1)
  BY <1>1
<1>3. a \in 0..(Base - 1)
  BY <1>1, <1>2
<1>4. a \in Byte /\ b \in Byte /\ LenBytes(n) = <<a, b>>
  BY <1>2, <1>3 DEF Byte, LenBytes
<1> HIDE DEF a, b
<1>5. LenBytes(n) \in Seq(Byte) /\ Len(LenBytes(n)) = 2
  BY <1>4
<1>6. Encoded(f) = LenBytes(n) \o f
  BY DEF Encoded, n
<1>7. Len(Encoded(f)) = Len(LenBytes(n)) + Len(f) /\ Encoded(f) \in Seq(Byte)
  BY <1>5, <1>6, ConcatProperties
<1> QED
  BY <1>5, <1>7

\* The bytes of a length are the two that spell it.
LEMMA SpelledBytes ==
  ASSUME NEW a \in Byte, NEW b \in Byte
  PROVE  LenBytes(a * Base + b) = <<a, b>>
<1> DEFINE n == a * Base + b
           q == n \div Base
           m == n % Base
<1>1. Base \in Nat /\ Base >= 2 /\ a \in Nat /\ a < Base /\ b \in Nat /\ b < Base
  BY OpeningAssumption DEF Byte
<1>2. n \in Nat
  BY <1>1
<1>3. q \in Nat /\ m \in 0..(Base - 1) /\ n = Base * q + m
  BY <1>1, <1>2
<1>4. Base * q + m = Base * a + b
  BY <1>1, <1>3
<1>5. LenBytes(n) = <<q % Base, m>>
  BY DEF LenBytes
<1> HIDE DEF q, m, n
<1>6. q = a
  <2>1. q <= a
    <3>1. SUFFICES ASSUME q >= a + 1 PROVE FALSE
      BY <1>1, <1>3
    <3>2. Base * q >= Base * (a + 1)
      BY <1>1, <1>3, <3>1
    <3>3. Base * (a + 1) = Base * a + Base
      BY <1>1
    <3>4. PICK x \in Int, y \in Int : x = Base * q /\ y = Base * a
      BY <1>1, <1>3
    <3> QED
      BY <1>1, <1>3, <1>4, <3>2, <3>3, <3>4
  <2>2. a <= q
    <3>1. SUFFICES ASSUME a >= q + 1 PROVE FALSE
      BY <1>1, <1>3
    <3>2. Base * a >= Base * (q + 1)
      BY <1>1, <1>3, <3>1
    <3>3. Base * (q + 1) = Base * q + Base
      BY <1>1, <1>3
    <3>4. PICK x \in Int, y \in Int : x = Base * q /\ y = Base * a
      BY <1>1, <1>3
    <3> QED
      BY <1>1, <1>3, <1>4, <3>2, <3>3, <3>4
  <2> QED
    BY <1>1, <1>3, <2>1, <2>2
<1>7. m = b
  <2>1. PICK x \in Int : x = Base * a
    BY <1>1
  <2> QED
    BY <1>1, <1>3, <1>4, <1>6, <2>1
<1>8. q % Base = a
  BY <1>1, <1>6
<1> QED
  BY <1>5, <1>7, <1>8 DEF n

\* What follows two bytes that spell how much it is makes a frame with them.
LEMMA BeginsWithFrame ==
  ASSUME NEW h \in Seq(Byte), Len(h) >= 2,
         NEW f \in Seq(Byte), Part(f, h, 2), Len(f) = Value(h)
  PROVE  Spells(h, f)
<1> DEFINE e == LenBytes(Len(f))
           w == Encoded(f)
<1>1. h[1] \in Byte /\ h[2] \in Byte /\ Len(f) \in Nat /\ Len(h) \in Nat
  OBVIOUS
<1>2. e = <<h[1], h[2]>>
  BY <1>1, SpelledBytes DEF Value
<1>3. w = e \o f /\ w \in Seq(Byte) /\ Len(w) = 2 + Len(f)
  BY EncodedBytes DEF Encoded
<1> HIDE DEF e, w
<1>4. e \in Seq(Byte) /\ Len(e) = 2 /\ e[1] = h[1] /\ e[2] = h[2]
  BY <1>1, <1>2
<1>5. Part(e, h, 0)
  <2>1. \A i \in 1..2 : e[i] = h[0 + i]
    BY <1>4
  <2> QED
    BY <1>1, <1>4, <2>1 DEF Part
<1>6. Part(f, h, 0 + Len(e))
  BY <1>4
<1>7. Part(w, h, 0)
  BY <1>3, <1>4, <1>5, <1>6, PartCat
<1>8. IsPrefix(w, h)
  BY <1>3, <1>7, PrefixIsPart
<1> QED
  BY <1>8 DEF Spells, w

\* A ciphertext is bytes.
LEMMA SealedBytes ==
  ASSUME NEW f \in Headers
  PROVE  Sealed(f) \in Seq(Byte)
<1> DEFINE n == Len(f) + TagLen
           c == [i \in 1..n |-> 0]
<1>1. Base \in Nat /\ Base >= 2 /\ n \in Nat /\ n < Base * Base
  BY OpeningAssumption
<1>2. LenBytes(n) \in Seq(Byte)
  BY <1>1, LengthBytes
<1>3. 0 \in Byte
  BY <1>1 DEF Byte
<1> HIDE DEF n
<1>4. c \in [1..n -> Byte]
  BY <1>3
<1>5. c \in Seq(Byte)
  BY <1>1, <1>4
<1>6. Sealed(f) = LenBytes(n) \o c
  BY DEF Sealed, n
<1> HIDE DEF c
<1> QED
  BY <1>2, <1>5, <1>6, ConcatProperties

\* The first two bytes of a stream spell what the stream's do.
LEMMA ValueOfPart ==
  ASSUME NEW q \in Seq(Byte), NEW F \in Seq(Byte), Part(q, F, 0), Len(q) = 2
  PROVE  Value(q) = Value(F)
<1>1. q[1] = F[0 + 1] /\ q[2] = F[0 + 2]
  BY DEF Part
<1> QED
  BY <1>1 DEF Value

LEMMA StreamBytes ==
  ASSUME TypeOK, NEW s \in Side, NEW F \in Streams(s)
  PROVE  F \in Seq(Byte)
<1>1. <<>> \in Seq(Byte) /\ Raw \in Seq(Byte) /\ \A h \in Hellos : h \in Seq(Byte)
  BY OpeningAssumption
<1>2. sent[s] \in Seq(Frame) /\ drawn[s] \in Hellos \cup {<<>>}
  BY DEF TypeOK
<1>3. CASE kind[s] = "encrypted"
  BY <1>1, <1>2, <1>3 DEF Streams
<1>4. CASE kind[s] # "encrypted" /\ sent[s] = <<>>
  BY <1>1, <1>4 DEF Streams
<1>5. CASE kind[s] # "encrypted" /\ sent[s] # <<>>
  <2>1. sent[s][1] \in Frame
    BY <1>2, <1>5
  <2>2. PICK r \in {Raw, <<>>} : F = Encoded(sent[s][1]) \o r
    BY <1>5 DEF Streams
  <2> QED
    BY <1>1, <2>1, <2>2, EncodedFrame
<1> QED
  BY <1>3, <1>4, <1>5

LEMMA PastHeld ==
  ASSUME TypeOK, NEW p \in Side
  PROVE  Past(p) \in Nat /\ Held(p) \in Seq(Byte)
<1>1. buf[p] \in Seq(Byte) /\ got[p] \in Seq(Seq(Byte)) /\ relayed \in Seq(Byte)
  BY DEF TypeOK
<1>2. Len(relayed) \in Nat /\ (got[p] # <<>> => Len(got[p][1]) \in Nat)
  BY <1>1
<1>3. CASE got[p] = <<>>
  BY <1>1, <1>3 DEF Past, Held
<1>4. CASE got[p] # <<>>
  <2>1. Past(p) = 2 + Len(got[p][1]) + (IF p = "client" THEN Len(relayed) ELSE 0)
    BY <1>4 DEF Past
  <2>2. CASE p = "client"
    BY <1>2, <1>4, <2>1, <2>2 DEF Held
  <2>3. CASE p # "client"
    BY <1>2, <1>4, <2>1, <2>3 DEF Held
  <2> QED
    BY <2>2, <2>3
<1> QED
  BY <1>3, <1>4

\* Nothing of a stream that is empty can have been read.
LEMMA StreamUnwritten ==
  ASSUME TypeOK, NEW s \in Side, Aligned(s, <<>>)
  PROVE  Past(Peer(s)) = 0 /\ Held(Peer(s)) = <<>> /\ wire[s] = <<>>
<1> DEFINE p == Peer(s)
<1>1. p \in Side
  BY DEF Side, Peer
<1> HIDE DEF p
<1>2. wire[s] \in Seq(Byte) /\ Past(p) \in Nat /\ Held(p) \in Seq(Byte)
  BY <1>1, PastHeld DEF TypeOK
<1>3. Past(p) + Len(Held(p)) <= 0 /\ Past(p) + Len(Held(p)) + Len(wire[s]) <= 0
  BY DEF Aligned, Part, p
<1>4. Len(Held(p)) = 0 /\ Past(p) = 0 /\ Len(wire[s]) = 0
  BY <1>2, <1>3
<1> QED
  BY <1>2, <1>4 DEF p

\* What p reads, and where it is, stays as it is.
Unmoved(p) ==
  /\ kind' = kind /\ pc'[p] = pc[p] /\ want'[p] = want[p] /\ buf'[p] = buf[p]
  /\ got'[p] = got[p] /\ padded'[p] = padded[p] /\ relayed' = relayed

\* A step that takes nothing out of the stream of t, and adds nothing.
LEMMA StreamKept ==
  ASSUME IInv, NEW t \in Side,
         Watched(t)' => Watched(t), Streams(t) \subseteq Streams(t)',
         Past(Peer(t))' = Past(Peer(t)), Held(Peer(t))' = Held(Peer(t)),
         pc'[Peer(t)] = "recv_body" =>
           pc[Peer(t)] = "recv_body" /\ want'[Peer(t)] = want[Peer(t)],
         wire'[t] = wire[t],
         end'[t] = "open" /\ pc'[t] \in Writing =>
           /\ end[t] = "open" /\ pc'[t] = pc[t]
           /\ todo'[t] = todo[t] /\ sent'[t] = sent[t]
  PROVE  Watched(t)' => \E F \in Streams(t)' : Aligned(t, F)'
<1> SUFFICES ASSUME Watched(t)' PROVE \E F \in Streams(t)' : Aligned(t, F)'
  OBVIOUS
<1>1. PICK F \in Streams(t) : Aligned(t, F)
  BY DEF IInv, StreamAligned
<1>2. Aligned(t, F)'
  BY <1>1 DEF Aligned, Goal
<1> QED
  BY <1>1, <1>2

LEMMA ReaderUnmoved ==
  ASSUME NEW p \in Side, Unmoved(p)
  PROVE  Past(p)' = Past(p) /\ Held(p)' = Held(p)
BY DEF Unmoved, Past, Held

\* The first bytes that t writes.
LEMMA StreamBegins ==
  ASSUME IInv, NEW t \in Side, Streams(t) = {<<>>},
         Watched(t)' => Unmoved(Peer(t)) /\ Watched(t), wire'[t] = wire[t],
         NEW F \in Seq(Byte), F \in Streams(t)',
         todo'[t] \in Seq(Byte), Part(todo'[t], F, 0), Len(todo'[t]) = Goal(t, F)'
  PROVE  Watched(t)' => \E G \in Streams(t)' : Aligned(t, G)'
<1> SUFFICES ASSUME Watched(t)' PROVE Aligned(t, F)'
  OBVIOUS
<1> DEFINE p == Peer(t)
<1>0. p \in Side
  BY DEF Side, Peer
<1> HIDE DEF p
<1>1. Aligned(t, <<>>)
  BY DEF IInv, StreamAligned
<1>2. Past(p) = 0 /\ Held(p) = <<>> /\ wire[t] = <<>>
  BY <1>1, StreamUnwritten DEF p, IInv
<1>3. Past(p)' = 0 /\ Held(p)' = <<>>
  BY <1>0, <1>2, ReaderUnmoved DEF p
<1>4. pc'[p] # "recv_body"
  <2>1. pc[p] = "recv_body" => got[p] = <<>>
    BY <1>0 DEF IInv, Progress, Before, Reading
  <2>2. pc[p] = "recv_body" => Past(p) = 2
    BY <2>1 DEF Past
  <2>3. pc'[p] = pc[p]
    BY DEF Unmoved, p
  <2> QED
    BY <1>2, <2>2, <2>3
<1>5. Len(F) \in Nat /\ Part(<<>>, F, 0) /\ Len(<<>>) = 0
  BY DEF Part
<1>6. Len(todo'[t]) \in Nat
  OBVIOUS
<1> QED
  BY <1>2, <1>3, <1>4, <1>5, <1>6 DEF Aligned, p

-----------------------------------------------------------------------------
\* What an end runs, from its options: the one it has to ask of the peer.

LEMMA Launched ==
  /\ \A o \in ClientOptions : GivesSecret(o) => LaunchClient(o).kind # "plain"
  /\ \A o \in ServerOptions : GivesSecret(o) => LaunchServer(o).kind # "plain"
<1>1. NoKey \notin Secrets /\ BadKey \notin Secrets /\ NoKey # BadKey
  BY SecretsAssumption DEF NoKey, BadKey
<1>2. ASSUME NEW o, o.by \in {"cli", "app"}, GivesSecret(o)
      PROVE  run(Key(o)).kind # "plain"
  <2>1. Key(o) # NoKey
    <3>1. CASE o.by = "app"
      BY <1>1, <1>2, <3>1 DEF Key, parse_secret_opt, GivesSecret
    <3>2. CASE o.by = "cli"
      <4>1. o.secret # "absent"
        BY <1>2, SecretsAssumption DEF GivesSecret
      <4>2. Key(o) = parse_secret(o.secret)
        BY <3>2, <4>1 DEF Key
      <4> QED
        BY <1>1, <4>2 DEF parse_secret
    <3> QED
      BY <1>2, <3>1, <3>2
  <2>2. CASE Key(o) = BadKey
    BY <1>1, <2>2 DEF run, Exit
  <2>3. CASE Key(o) # BadKey
    BY <2>1, <2>3 DEF run
  <2> QED
    BY <2>2, <2>3
<1>3. Quic.kind # "plain" /\ Exit.kind # "plain"
  BY DEF Quic, Exit
<1>4. ASSUME NEW o \in ClientOptions, GivesSecret(o)
      PROVE  LaunchClient(o).kind # "plain"
  <2>1. o.by \in {"cli", "app"}
    BY DEF ClientOptions
  <2> QED
    BY <1>2, <1>3, <1>4, <2>1 DEF LaunchClient, build_quic_client_tls
<1>5. ASSUME NEW o \in ServerOptions, GivesSecret(o)
      PROVE  LaunchServer(o).kind # "plain"
  <2>1. o.by \in {"cli", "app"}
    BY DEF ServerOptions
  <2> QED
    BY <1>2, <1>3, <1>5, <2>1 DEF LaunchServer
<1> QED
  BY <1>4, <1>5

LEMMA Starts ==
  ASSUME Init
  PROVE  IInv
<1>0. Base \in Nat /\ Base >= 2 /\ HelloLen \in Nat /\ HelloLen < Base * Base /\ HelloLen >= 2
  BY OpeningAssumption
<1>1. /\ guarded \in [Side -> BOOLEAN] /\ kind \in [Side -> {"plain", "encrypted", "quic"}]
      /\ Guarded /\ Matched
  <2>1. PICK c \in ClientOptions : \E s \in ServerOptions :
          /\ guarded = [client |-> GivesSecret(c), server |-> GivesSecret(s)]
          /\ kind = [client |-> LaunchClient(c).kind, server |-> LaunchServer(s).kind]
    BY DEF Init
  <2>2. PICK s \in ServerOptions :
          /\ guarded = [client |-> GivesSecret(c), server |-> GivesSecret(s)]
          /\ kind = [client |-> LaunchClient(c).kind, server |-> LaunchServer(s).kind]
    BY <2>1
  <2>3. GivesSecret(c) \in BOOLEAN /\ GivesSecret(s) \in BOOLEAN
    BY DEF GivesSecret
  <2>4. /\ guarded["client"] = GivesSecret(c) /\ guarded["server"] = GivesSecret(s)
        /\ kind["client"] = LaunchClient(c).kind /\ kind["server"] = LaunchServer(s).kind
    BY <2>2
  <2>5. \/ kind["client"] = "plain" /\ kind["server"] = "plain"
        \/ kind["client"] = "quic" /\ kind["server"] = "quic"
        \/ kind["client"] = "encrypted" /\ kind["server"] = "plain"
        \/ kind["client"] = "plain" /\ kind["server"] = "encrypted"
    BY DEF Init
  <2>6. guarded["client"] => kind["client"] # "plain"
    BY <2>4, Launched
  <2>7. guarded["server"] => kind["server"] # "plain"
    BY <2>4, Launched
  <2>8. guarded \in [Side -> BOOLEAN] /\ kind \in [Side -> {"plain", "encrypted", "quic"}]
    <3>1. guarded \in [{"client", "server"} -> BOOLEAN]
      BY <2>2, <2>3
    <3>2. DOMAIN kind = {"client", "server"} /\ kind = [s1 \in {"client", "server"} |-> kind[s1]]
      BY <2>2
    <3> QED
      BY <2>5, <3>1, <3>2 DEF Side
  <2> QED
    BY <2>5, <2>6, <2>7, <2>8 DEF Guarded, Matched, Side, Peer
<1>2. /\ pc["client"] = "connected"
      /\ pc["server"] = IF kind["server"] = "encrypted" THEN "recv_hello" ELSE "recv_len"
      /\ \A s \in Side :
           /\ want[s] = IF pc[s] = "recv_hello" THEN HelloLen ELSE 2
           /\ buf[s] = <<>> /\ todo[s] = <<>> /\ wire[s] = <<>> /\ end[s] = "open"
           /\ ~padded[s] /\ drawn[s] = <<>> /\ sent[s] = <<>> /\ got[s] = <<>>
      /\ relayed = <<>>
  BY DEF Init
<1>3. TypeOK
  <2>1. pc \in [Side -> Reading \cup Writing
                      \cup {"connected", "handed", "dial", "relay", "over", "left"}]
    BY DEF Init, Side, Reading
  <2>2. 2 <= Base * Base - 1 /\ HelloLen <= Base * Base - 1 /\ Base * Base \in Nat
    <3>1. Base * Base >= 2 * Base /\ Base * Base \in Nat
      BY <1>0
    <3> QED
      BY <1>0, <3>1
  <2>3. want \in [Side -> 0..(Base * Base - 1)]
    BY <1>0, <2>2 DEF Init
  <2>4. \A s \in Side : Len(buf[s]) <= want[s]
    BY <1>0, <1>2
  <2> QED
    BY <1>1, <1>2, <2>1, <2>3, <2>4 DEF TypeOK, Init
<1>4. Progress
  BY <1>2 DEF Progress, Before, Reading, Writing, Side
<1>5. Unheard /\ Padding /\ Truthful /\ Spelled
  BY <1>2 DEF Unheard, Padding, Truthful, Spelled, Side
<1>6. RelayIntact
  BY <1>2 DEF RelayIntact
<1>7. ASSUME NEW s \in Side
      PROVE  \E F \in Streams(s) : Aligned(s, F)
  <2>1. <<>> \in Streams(s)
    BY <1>2 DEF Streams
  <2>2. Peer(s) \in Side
    BY DEF Peer, Side
  <2>3. Past(Peer(s)) = 0 /\ Held(Peer(s)) = <<>>
    BY <1>2, <2>2 DEF Past, Held, Side
  <2>4. pc[s] \notin Writing /\ pc[Peer(s)] # "recv_body"
    BY <1>2, <2>2 DEF Writing, Side
  <2>5. Part(<<>>, <<>>, 0) /\ Len(<<>>) = 0 /\ 0 + 0 = 0
    BY DEF Part
  <2>6. Part(Held(Peer(s)), <<>>, Past(Peer(s)))
    BY <2>3, <2>5
  <2>7. Part(wire[s], <<>>, Past(Peer(s)) + Len(Held(Peer(s))))
    BY <1>2, <2>3, <2>5
  <2>8. Aligned(s, <<>>)
    BY <2>4, <2>6, <2>7 DEF Aligned
  <2> QED
    BY <2>1, <2>8
<1> QED
  BY <1>1, <1>3, <1>4, <1>5, <1>6, <1>7 DEF IInv, StreamAligned

-----------------------------------------------------------------------------
\* The steps, one by one.

LEMMA Ends ==
  ASSUME NEW s \in Side
  PROVE  /\ Peer(s) \in Side /\ Peer(Peer(s)) = s /\ s # Peer(s)
         /\ \A t \in Side : t = s \/ t = Peer(s)
BY DEF Side, Peer

\* Nothing changes how the two ends were started.
LEMMA ConfigKept ==
  ASSUME IInv, UNCHANGED config
  PROVE  Guarded' /\ Matched'
BY DEF IInv, Guarded, Matched, config

LEMMA NoEmptyHello == <<>> \notin Hellos
<1>1. \A h \in Hellos : Len(h) = HelloLen
  BY OpeningAssumption
<1> QED
  BY <1>1, OpeningAssumption

LEMMA StartKeeps ==
  ASSUME IInv, Start
  PROVE  IInv'
<1> USE DEF config, input, At, Emit, SendFrame
<1>1. /\ pc["client"] = "connected" /\ sent["client"] = <<>> /\ got["client"] = <<>>
      /\ relayed = <<>> /\ drawn["client"] = <<>> /\ Streams("client") = {<<>>}
  BY DEF Start, IInv, Progress, Before, Streams, Silent, Side
<1>2. UNCHANGED <<config, input, wire, end, got, padded, relayed>>
  BY DEF Start
<1>3. Peer("client") = "server" /\ Peer("server") = "client"
  BY DEF Peer
<1>4. /\ pc' = [pc EXCEPT !["client"] = pc'["client"]]
      /\ todo' = [todo EXCEPT !["client"] = todo'["client"]]
      /\ sent' = [sent EXCEPT !["client"] = sent'["client"]]
      /\ todo'["client"] \in Seq(Byte) /\ sent'["client"] \in Seq(Frame)
      /\ drawn' = [drawn EXCEPT !["client"] = drawn'["client"]]
      /\ drawn'["client"] \in Hellos \cup {<<>>}
      /\ \/ /\ kind["client"] = "encrypted" /\ pc'["client"] = "send_hello"
            /\ todo'["client"] = drawn'["client"] /\ sent' = sent
         \/ /\ kind["client"] # "encrypted" /\ pc'["client"] = "send_frame"
            /\ Len(sent'["client"]) = 1 /\ todo'["client"] = Encoded(sent'["client"][1])
  <2>1. CASE kind["client"] = "encrypted"
    <3>1. PICK h \in Hellos : /\ Emit("client", "send_hello", h) /\ sent' = sent
                              /\ drawn' = [drawn EXCEPT !["client"] = h]
      BY <2>1 DEF Start, SendHello
    <3>2. h \in Seq(Byte)
      BY OpeningAssumption
    <3> QED
      BY <2>1, <3>1, <3>2 DEF IInv, TypeOK, Side
  <2>2. CASE kind["client"] # "encrypted"
    <3>1. PICK h \in Headers : SendFrame("client", h) /\ drawn' = drawn
      BY <2>2 DEF Start
    <3>2. h \in Frame /\ Encoded(h) \in Seq(Byte)
      BY OpeningAssumption, EmptySeq, EncodedFrame DEF Frame
    <3>3. <<h>> \in Seq(Frame) /\ Len(<<h>>) = 1 /\ <<h>>[1] = h
      BY <3>2
    <3> QED
      BY <2>2, <3>1, <3>2, <3>3 DEF IInv, TypeOK, Side
  <2> QED
    BY <2>1, <2>2
<1>5. TypeOK'
  BY <1>2, <1>4 DEF IInv, TypeOK, Writing, Reading, Side
<1>6. Progress'
  <2>1. Len(sent'["client"]) <= 1 /\ sent'["server"] = sent["server"]
    <3>1. sent'["server"] = sent["server"]
      BY <1>4 DEF IInv, TypeOK, Side
    <3>2. sent' = sent \/ Len(sent'["client"]) = 1
      BY <1>4
    <3>3. Len(sent["client"]) = 0
      BY <1>1
    <3>4. 0 <= 1 /\ 1 <= 1
      OBVIOUS
    <3>5. Len(sent'["client"]) <= 1
      BY <3>2, <3>3, <3>4, Zenon
    <3> QED
      BY <3>1, <3>5
  <2>2. \A s \in Side : Len(sent'[s]) <= 1
    BY <2>1 DEF IInv, Progress, Side
  <2>3. /\ pc'["server"] = pc["server"] /\ sent'["server"] = sent["server"]
        /\ drawn'["server"] = drawn["server"]
        /\ pc'["client"] \in {"send_hello", "send_frame"}
        /\ pc'["client"] = "send_hello" => kind["client"] = "encrypted" /\ sent' = sent
        /\ pc'["client"] = "send_frame" => Len(sent'["client"]) = 1
    BY <1>4 DEF IInv, TypeOK, Side
  <2>4. \A s \in Side : Silent(s)' => drawn'[s] = <<>>
    BY <2>3 DEF IInv, Progress, Silent, Side
  <2> QED
    BY <1>1, <1>2, <2>2, <2>3, <2>4 DEF IInv, Progress, Before, Reading, Side
<1>7. Unheard' /\ Padding' /\ Truthful' /\ Spelled' /\ RelayIntact'
  <2>1. /\ drawn'["server"] = drawn["server"] /\ sent'["server"] = sent["server"]
        /\ pc'["client"] \in {"send_hello", "send_frame"}
        /\ kind["client"] = "encrypted" => pc'["client"] = "send_hello"
    BY <1>4 DEF IInv, TypeOK, Side
  <2>2. Unheard'
    BY <1>2, <2>1 DEF IInv, Unheard, Side
  <2>3. Padding'
    BY <1>2 DEF IInv, Padding
  <2>4. got["server"] # <<>> => Alike("server")
    BY <1>1, <1>3, NoEmptyHello DEF IInv, Spelled, Side
  <2>5. got["server"] # <<>> => padded["server"]
    BY <1>1, <1>3, <2>4 DEF IInv, Truthful, Side
  <2>6. Alike("client")' = Alike("client") /\ Alike("server")' = Alike("server")
    BY <1>2 DEF Alike
  <2>7. Truthful' /\ Spelled'
    BY <1>1, <1>2, <1>3, <2>4, <2>5, <2>6 DEF Truthful, Spelled, Side
  <2>8. RelayIntact'
    BY <1>1, <1>2 DEF RelayIntact
  <2> QED
    BY <2>2, <2>3, <2>7, <2>8
<1>8. StreamAligned'
  <2>1. Watched("client")' => \E F \in Streams("client")' : Aligned("client", F)'
    <3>1. Watched("client")' => Unmoved("server") /\ Watched("client")
      BY <1>2, <1>3, <1>4 DEF Watched, Unmoved, Gone, IInv, TypeOK, Side
    <3>2. PICK F \in Seq(Byte) : todo'["client"] = F
      BY <1>4
    <3>3. Part(F, F, 0)
      BY DEF Part
    <3>4. CASE kind["client"] = "encrypted"
      <4>1. F \in Streams("client")'
        BY <1>2, <1>4, <3>4, <3>2 DEF Streams
      <4>2. Len(F) = Goal("client", F)'
        BY <1>4, <3>4 DEF Goal
      <4> QED
        BY <1>1, <1>2, <1>3, <3>1, <3>2, <3>3, <4>1, <4>2, StreamBegins DEF Side
    <3>5. CASE kind["client"] # "encrypted"
      <4>1. sent'["client"][1] \in Frame /\ <<>> \in Seq(Byte) /\ sent'["client"] # <<>>
        BY <1>4, <3>5
      <4>2. /\ Encoded(sent'["client"][1]) \in Seq(Byte)
            /\ Len(Encoded(sent'["client"][1])) = 2 + Len(sent'["client"][1])
            /\ Encoded(sent'["client"][1]) \o <<>> = Encoded(sent'["client"][1])
        BY <4>1, EncodedFrame, ConcatEmptySeq
      <4>3. F \in Streams("client")'
        BY <1>2, <1>4, <3>5, <3>2, <4>1, <4>2 DEF Streams
      <4>4. Len(F) = Goal("client", F)'
        BY <1>4, <3>5, <3>2, <4>2 DEF Goal
      <4> QED
        BY <1>1, <1>2, <1>3, <3>1, <3>2, <3>3, <4>3, <4>4, StreamBegins DEF Side
    <3> QED
      BY <3>4, <3>5
  <2>2. Watched("server")' => \E F \in Streams("server")' : Aligned("server", F)'
    <3>1. pc'["server"] = pc["server"] /\ todo'["server"] = todo["server"]
          /\ sent'["server"] = sent["server"] /\ drawn'["server"] = drawn["server"]
          /\ pc'["client"] \notin {"recv_body", "over", "left"}
      BY <1>4 DEF IInv, TypeOK, Side
    <3>2. Watched("server")' => Watched("server")
      BY <1>1, <1>2, <1>3 DEF Watched, Gone
    <3>3. Streams("server")' = Streams("server")
      BY <1>2, <3>1 DEF Streams
    <3>4. Past("client")' = Past("client") /\ Held("client")' = Held("client")
      BY <1>1, <1>2, <3>1 DEF Past, Held
    <3> QED
      BY <1>2, <1>3, <3>1, <3>2, <3>3, <3>4, StreamKept DEF Side
  <2> QED
    BY <2>1, <2>2 DEF StreamAligned, Side
<1> QED
  BY <1>2, <1>5, <1>6, <1>7, <1>8, ConfigKept DEF IInv

\* The step of an end that is done with its frame, or with the tunnel.
LEMMA MoveKeeps ==
  ASSUME IInv, NEW s \in Side, NEW q \in {"dial", "relay", "over", "left"}, At(s, q),
         UNCHANGED <<config, todo, input, wire, end, history>>,
         q = "dial" => s = "server" /\ pc[s] = "handed",
         q = "relay" => /\ todo[s] = <<>>
                        /\ pc[s] = (IF s = "client" THEN "handed" ELSE "send_raw")
                        /\ s = "client" => IsSuccess(got[s][1])
  PROVE  IInv'
<1> USE DEF config, input, history, At
<1>1. /\ pc'[s] = q /\ \A t \in Side : t # s => pc'[t] = pc[t]
      /\ pc' = [pc EXCEPT ![s] = q]
  BY DEF IInv, TypeOK
<1>2. TypeOK'
  <2>1. pc' \in [Side -> Reading \cup Writing
                      \cup {"connected", "handed", "dial", "relay", "over", "left"}]
    BY <1>1 DEF IInv, TypeOK
  <2>2. q \in {"dial", "relay"} => todo[s] = <<>>
    BY DEF IInv, TypeOK, Writing
  <2>3. \A t \in Side : todo[t] # <<>> => pc'[t] \in Writing \cup {"over", "left"}
    BY <1>1, <2>2 DEF IInv, TypeOK
  <2> QED
    BY <2>1, <2>3 DEF IInv, TypeOK
<1>3. Progress'
  <2>1. \A t \in Side : pc'[t] = pc[t] \/ (t = s /\ pc'[t] = q)
    BY <1>1
  <2>2. /\ q = "dial" => got[s] # <<>> /\ sent["server"] = <<>>
        /\ q = "relay" => got[s] # <<>>
    BY DEF IInv, Progress, Side
  <2>3. q = "relay" /\ s = "server" => sent["server"] = <<<<0>>>>
    BY DEF IInv, Progress
  <2>4. \A t \in Side :
          /\ pc'[t] \in Before => got[t] = <<>>
          /\ pc'[t] \in {"handed", "dial", "send_raw", "relay"} => got[t] # <<>>
          /\ Len(got[t]) <= 1
          /\ pc'[t] \in {"send_hello", "recv_hello"} => kind[t] = "encrypted"
          /\ pc'[t] = "recv_len" => want[t] = 2
          /\ pc'[t] = "recv_hello" => want[t] = HelloLen
          /\ pc'[t] = "send_frame" => Len(sent[t]) = 1
          /\ Silent(t)' => drawn[t] = <<>>
    BY <2>1, <2>2 DEF IInv, Progress, Silent, Before, Reading
  <2>5. \/ pc'["client"] = pc["client"]
        \/ pc'["client"] = q /\ q \in {"relay", "over", "left"} /\ s = "client"
    BY <2>1 DEF Side
  <2>6. \/ pc'["server"] = pc["server"]
        \/ pc'["server"] = q /\ s = "server"
    BY <2>1 DEF Side
  <2> QED
    BY <2>2, <2>3, <2>4, <2>5, <2>6 DEF IInv, Progress, Before, Reading
<1>4. Unheard' /\ Padding' /\ Truthful' /\ Spelled' /\ RelayIntact'
  <2>1. \/ pc'["client"] = pc["client"] \/ pc'["client"] \in {"over", "left"}
        \/ kind["client"] # "encrypted"
    BY <1>1 DEF IInv, Progress, Unheard, Side
  <2> QED
    BY <2>1 DEF IInv, Unheard, Padding, Truthful, Spelled, Alike, RelayIntact
<1>5. ASSUME NEW t \in Side, Watched(t)'
      PROVE  \E F \in Streams(t)' : Aligned(t, F)'
  <2>1. Peer(t) \in Side
    BY Ends
  <2>2. Watched(t)
    <3>1. q \in {"dial", "relay"} => ~Gone(s)
      BY DEF Gone
    <3>2. pc'[Peer(t)] = pc[Peer(t)] \/ (Peer(t) = s /\ q \in {"dial", "relay"})
      BY <1>1, <1>5, <2>1 DEF Watched, Gone
    <3>3. ~Gone(Peer(t))
      BY <1>5, <3>1, <3>2 DEF Watched, Gone
    <3> QED
      BY <1>5, <3>3 DEF Watched
  <2>3. pc'[t] = pc[t] \/ (pc'[t] = q /\ t = s)
    BY <1>1
  <2>4. Streams(t) \subseteq Streams(t)'
    BY DEF Streams
  <2>5. Past(Peer(t))' = Past(Peer(t)) /\ Held(Peer(t))' = Held(Peer(t))
    <3>1. CASE pc'[Peer(t)] = pc[Peer(t)]
      BY <3>1 DEF Past, Held
    <3>2. CASE Peer(t) = s
      <4>1. q \in {"dial", "relay"}
        BY <1>1, <1>5, <3>2 DEF Watched, Gone
      <4>2. got[s] # <<>>
        BY <4>1 DEF IInv, Progress
      <4> QED
        BY <3>2, <4>2 DEF Past, Held
    <3> QED
      BY <1>1, <2>1, <3>1, <3>2
  <2>6. pc'[Peer(t)] = "recv_body" => pc[Peer(t)] = "recv_body"
    BY <1>1, <2>1
  <2>7. pc'[t] \in Writing => pc'[t] = pc[t]
    BY <2>3 DEF Writing
  <2> QED
    BY <1>5, <2>2, <2>4, <2>5, <2>6, <2>7, StreamKept
<1> QED
  BY <1>2, <1>3, <1>4, <1>5, ConfigKept DEF IInv, StreamAligned

LEMMA WriteKeeps ==
  ASSUME IInv, NEW s \in Side, NEW n \in 1..Len(todo[s]), Write(s, n)
  PROVE  IInv'
<1> USE DEF config, input, history
<1> DEFINE out == SubSeq(todo[s], 1, n)
           rest == SubSeq(todo[s], n + 1, Len(todo[s]))
<1>1. todo[s] \in Seq(Byte) /\ wire[s] \in Seq(Byte) /\ n \in 0..Len(todo[s])
  BY DEF IInv, TypeOK
<1>2. Part(todo[s], todo[s], 0)
  BY DEF Part
<1>3. /\ out \in Seq(Byte) /\ Len(out) = n
      /\ rest \in Seq(Byte) /\ Len(rest) = Len(todo[s]) - n
      /\ \A F \in Seq(Byte), k \in Nat :
           Part(todo[s], F, k) => Part(out, F, k) /\ Part(rest, F, k + n)
  BY <1>1, <1>2, PartSplit
<1> HIDE DEF out, rest
<1>4. /\ wire' = [wire EXCEPT ![s] = wire[s] \o out]
      /\ todo' = [todo EXCEPT ![s] = rest]
      /\ UNCHANGED <<config, pc, input, end, history>>
      /\ pc[s] \in Writing /\ end[s] = "open"
  BY DEF Write, out, rest
<1>5. wire[s] \o out \in Seq(Byte) /\ Len(wire[s] \o out) = Len(wire[s]) + n
  BY <1>1, <1>3, ConcatProperties
<1>6. TypeOK'
  <2>1. wire' \in [Side -> Seq(Byte)] /\ todo' \in [Side -> Seq(Byte)]
    BY <1>3, <1>4, <1>5 DEF IInv, TypeOK
  <2>2. \A t \in Side : todo'[t] # <<>> => pc'[t] \in Writing \cup {"over", "left"}
    BY <1>4 DEF IInv, TypeOK
  <2> QED
    BY <1>4, <2>1, <2>2 DEF IInv, TypeOK
<1>7. Progress' /\ Truthful' /\ Spelled' /\ RelayIntact'
  BY <1>4 DEF IInv, Progress, Silent, Truthful, Spelled, Alike, RelayIntact
<1>8. Unheard' /\ Padding'
  <2>1. \A t \in Side : t # s => wire'[t] = wire[t]
    BY <1>4 DEF IInv, TypeOK
  <2>2. Unheard'
    <3>1. s = "server" /\ kind["client"] = "encrypted" => got["server"] # <<>>
      BY <1>4 DEF IInv, Matched, Progress, Writing, Side, Peer
    <3> QED
      BY <1>4, <2>1, <3>1 DEF IInv, Unheard, Side
  <2>3. Padding'
    BY <1>4, <2>1, Ends DEF IInv, Padding
  <2> QED
    BY <2>2, <2>3
<1>9. ASSUME NEW t \in Side, Watched(t)'
      PROVE  \E F \in Streams(t)' : Aligned(t, F)'
  <2>1. Watched(t)
    BY <1>4, <1>9 DEF Watched, Gone
  <2>2. PICK F \in Streams(t) : Aligned(t, F)
    BY <2>1 DEF IInv, StreamAligned
  <2>3. F \in Streams(t)' /\ F \in Seq(Byte)
    BY <1>4, <2>2, StreamBytes DEF Streams, IInv
  <2>4. CASE t = s
    <3> DEFINE p == Peer(s)
               k == Past(p) + Len(Held(p))
    <3>1. k \in Nat /\ p \in Side /\ Len(wire[s]) \in Nat
      BY <1>1, Ends, PastHeld DEF IInv
    <3>2. Past(p)' = Past(p) /\ Held(p)' = Held(p)
      BY <1>4 DEF Past, Held
    <3>3. /\ Part(Held(p), F, Past(p)) /\ Part(wire[s], F, k)
          /\ pc[p] = "recv_body" => want[p] = Value(F)
          /\ Part(todo[s], F, k + Len(wire[s]))
          /\ k + Len(wire[s]) + Len(todo[s]) = Goal(s, F)
      BY <1>4, <2>2, <2>4 DEF Aligned
    <3> HIDE DEF k, p
    <3>8. k + Len(wire[s]) \in Nat
      BY <3>1
    <3>9. Part(out, F, k + Len(wire[s])) /\ Part(rest, F, k + Len(wire[s]) + n)
      BY <1>3, <2>3, <3>3, <3>8
    <3>4. Part(wire[s] \o out, F, k)
      BY <1>1, <1>3, <2>3, <3>1, <3>3, <3>9, PartCat
    <3>5. /\ wire'[s] = wire[s] \o out /\ todo'[s] = rest /\ Goal(s, F)' = Goal(s, F)
      BY <1>4 DEF IInv, TypeOK, Goal
    <3>6. /\ k + (Len(wire[s]) + n) = k + Len(wire[s]) + n
          /\ k + Len(wire[s]) + n + Len(rest) = Goal(s, F)
      <4>1. Len(todo[s]) \in Nat /\ Len(rest) = Len(todo[s]) - n /\ n \in Nat
        BY <1>1, <1>3
      <4>2. PICK a \in Nat, b \in Nat, c \in Nat :
              a = k /\ b = Len(wire[s]) /\ c = Len(todo[s])
        BY <3>1, <4>1
      <4>3. a + (b + n) = a + b + n /\ a + b + n + (c - n) = a + b + c
        BY <4>1
      <4> QED
        BY <3>3, <4>1, <4>2, <4>3
    <3>7. /\ Part(todo'[s], F, k + Len(wire'[s]))
          /\ k + Len(wire'[s]) + Len(todo'[s]) = Goal(s, F)
      BY <1>5, <3>5, <3>6, <3>9
    <3> QED
      BY <1>4, <2>3, <2>4, <3>2, <3>3, <3>4, <3>5, <3>7 DEF Aligned, k, p
  <2>5. CASE t # s
    <3>1. wire'[t] = wire[t] /\ todo'[t] = todo[t]
      BY <1>4, <2>5 DEF IInv, TypeOK
    <3>2. Past(Peer(t))' = Past(Peer(t)) /\ Held(Peer(t))' = Held(Peer(t))
      BY <1>4 DEF Past, Held
    <3>3. Streams(t)' = Streams(t)
      BY <1>4 DEF Streams
    <3> QED
      BY <1>4, <1>9, <2>1, <3>1, <3>2, <3>3, StreamKept
  <2> QED
    BY <2>4, <2>5
<1> QED
  BY <1>4, <1>6, <1>7, <1>8, <1>9, ConfigKept DEF IInv, StreamAligned

\* An end that has written its hello, or its header, goes on to read.
LEMMA ExpectKeeps ==
  ASSUME IInv, NEW s \in Side, NEW q, NEW n, Expect(s, q, n),
         UNCHANGED <<config, todo, wire, end, history>>,
         pc[s] \in {"send_hello", "send_frame"}, todo[s] = <<>>,
         pc[s] = "send_frame" => s = "client",
         \/ q = "recv_hello" /\ n = HelloLen /\ s = "client" /\ pc[s] = "send_hello"
         \/ q = "recv_len" /\ n = 2 /\ (pc[s] = "send_hello" => s = "server")
  PROVE  IInv'
<1> USE DEF config, history, Expect, At
<1>1. /\ pc'[s] = q /\ want'[s] = n /\ buf'[s] = <<>>
      /\ \A t \in Side : t # s => pc'[t] = pc[t] /\ want'[t] = want[t] /\ buf'[t] = buf[t]
  BY DEF IInv, TypeOK
<1>2. got[s] = <<>> /\ (kind[s] = "encrypted" \/ buf[s] = <<>>)
  BY DEF IInv, Progress, Before, Side
<1>3. TypeOK'
  <2>1. n \in 0..(Base * Base - 1)
    <3>1. Base \in Nat /\ Base >= 2 /\ HelloLen \in Nat /\ HelloLen < Base * Base
      BY OpeningAssumption
    <3>2. Base * Base >= 2 * Base /\ Base * Base \in Nat
      BY <3>1
    <3> QED
      BY <3>1, <3>2
  <2>2. /\ want' \in [Side -> 0..(Base * Base - 1)] /\ buf' \in [Side -> Seq(Byte)]
        /\ pc' \in [Side -> Reading \cup Writing
                      \cup {"connected", "handed", "dial", "relay", "over", "left"}]
    BY <2>1 DEF IInv, TypeOK, Reading
  <2>3. \A t \in Side : Len(buf'[t]) <= want'[t]
    BY <1>1, <2>1 DEF IInv, TypeOK
  <2>4. \A t \in Side : todo[t] # <<>> => pc'[t] \in Writing \cup {"over", "left"}
    BY <1>1 DEF IInv, TypeOK
  <2> QED
    BY <2>2, <2>3, <2>4 DEF IInv, TypeOK
<1>4. Progress'
  <2>1. \A t \in Side :
          /\ pc'[t] \in Before => got[t] = <<>>
          /\ pc'[t] \in {"handed", "dial", "send_raw", "relay"} => got[t] # <<>>
          /\ Len(got[t]) <= 1
          /\ pc'[t] \in {"send_hello", "recv_hello"} => kind[t] = "encrypted"
          /\ pc'[t] = "recv_len" => want'[t] = 2
          /\ pc'[t] = "recv_hello" => want'[t] = HelloLen
          /\ pc'[t] = "send_frame" => Len(sent[t]) = 1
          /\ Silent(t)' => drawn[t] = <<>>
    BY <1>1, <1>2 DEF IInv, Progress, Silent, Before, Reading
  <2>2. \/ pc'["client"] = pc["client"] /\ buf'["client"] = buf["client"]
        \/ pc'["client"] = "recv_hello" /\ pc["client"] = "send_hello"
        \/ pc'["client"] = "recv_len" /\ pc["client"] = "send_frame"
    BY <1>1 DEF Side
  <2>3. \/ pc'["server"] = pc["server"]
        \/ pc'["server"] = "recv_len" /\ pc["server"] = "send_hello"
    BY <1>1 DEF Side
  <2> QED
    BY <2>1, <2>2, <2>3 DEF IInv, Progress, Before, Reading
<1>5. Padding' /\ Truthful' /\ Spelled' /\ RelayIntact'
  BY DEF IInv, Padding, Truthful, Spelled, Alike, RelayIntact
<1>6. Unheard'
  BY <1>1 DEF IInv, Unheard, Side
<1>7. ASSUME NEW t \in Side, Watched(t)'
      PROVE  \E F \in Streams(t)' : Aligned(t, F)'
  <2>1. Peer(t) \in Side /\ (Peer(t) = s \/ t = s)
    BY Ends
  <2>2. Watched(t)
    BY <1>1, <1>7, <2>1 DEF Watched, Gone
  <2>3. Streams(t) \subseteq Streams(t)'
    BY DEF Streams
  <2>4. Past(Peer(t))' = Past(Peer(t)) /\ Held(Peer(t))' = Held(Peer(t))
    <3>1. CASE Peer(t) = s
      BY <1>1, <1>2, <1>7, <3>1 DEF Watched, Past, Held
    <3>2. CASE Peer(t) # s
      BY <1>1, <2>1, <3>2 DEF Past, Held
    <3> QED
      BY <3>1, <3>2
  <2>5. pc'[Peer(t)] = "recv_body" =>
          pc[Peer(t)] = "recv_body" /\ want'[Peer(t)] = want[Peer(t)]
    BY <1>1, <2>1
  <2>6. pc'[t] \in Writing => pc'[t] = pc[t]
    BY <1>1 DEF Writing
  <2> QED
    BY <1>7, <2>2, <2>3, <2>4, <2>5, <2>6, StreamKept
<1> QED
  BY <1>3, <1>4, <1>5, <1>6, <1>7, ConfigKept DEF IInv, StreamAligned

\* The server has reported a success, and what the target says comes next.
LEMMA RawKeeps ==
  ASSUME IInv, pc["server"] = "send_frame", todo["server"] = <<>>,
         sent["server"] = << << 0 >> >>, Emit("server", "send_raw", Raw),
         UNCHANGED <<config, input, wire, end, history>>
  PROVE  IInv'
<1> USE DEF config, input, history, Emit, At
<1>1. /\ pc'["server"] = "send_raw" /\ todo'["server"] = Raw
      /\ pc'["client"] = pc["client"] /\ todo'["client"] = todo["client"]
      /\ Peer("client") = "server" /\ Peer("server") = "client"
      /\ "client" \in Side /\ "server" \in Side /\ \A t \in Side : t = "client" \/ t = "server"
  BY DEF IInv, TypeOK, Side, Peer
<1>2. Raw \in Seq(Byte)
  BY OpeningAssumption
<1>3. TypeOK'
  BY <1>1, <1>2 DEF IInv, TypeOK, Writing
<1>4. Progress'
  BY <1>1 DEF IInv, Progress, Silent, Before, Reading
<1>5. Unheard' /\ Padding' /\ Truthful' /\ Spelled' /\ RelayIntact'
  BY <1>1 DEF IInv, Unheard, Padding, Truthful, Spelled, Alike, RelayIntact
<1>6. kind["server"] # "encrypted"
  BY DEF IInv, Unheard
<1>7. Watched("client")' => \E F \in Streams("client")' : Aligned("client", F)'
  <2>1. Past("server")' = Past("server") /\ Held("server")' = Held("server")
    BY <1>1 DEF Past, Held
  <2>2. Watched("client")' => Watched("client")
    BY <1>1 DEF Watched, Gone
  <2>3. Streams("client")' = Streams("client")
    BY <1>1 DEF Streams
  <2> QED
    BY <1>1, <2>1, <2>2, <2>3, StreamKept
<1>8. ASSUME Watched("server")'
      PROVE  \E F \in Streams("server")' : Aligned("server", F)'
  <2> DEFINE k == Past("client") + Len(Held("client"))
             F == Encoded(<<0>>) \o Raw
  <2>1. Watched("server")
    BY <1>1, <1>8 DEF Watched, Gone
  <2>2. Streams("server") = {F} /\ Streams("server")' = {F}
    <3>1. sent["server"] # <<>> /\ sent["server"][1] = <<0>>
      OBVIOUS
    <3>2. Streams("server") = {F}
      BY <1>6, <3>1 DEF Streams
    <3>3. Streams("server")' = Streams("server")
      BY <1>6 DEF Streams
    <3> QED
      BY <3>2, <3>3
  <2>3. Aligned("server", F)
    BY <1>1, <2>1, <2>2 DEF IInv, StreamAligned
  <2>4. Past("client")' = Past("client") /\ Held("client")' = Held("client")
    BY <1>1 DEF Past, Held
  <2>5. <<0>> \in Frame /\ Len(<<0>>) = 1
    BY DEF Frame
  <2>6. Part(Raw, F, 2 + Len(<<0>>)) /\ Len(F) = 2 + Len(<<0>>) + Len(Raw)
    BY <1>2, <2>5, EncodedFrame
  <2> HIDE DEF F
  <2>7. end["server"] = "open" => k + Len(wire["server"]) + Len(<<>>) = 2 + Len(<<0>>)
    BY <1>1, <2>3 DEF Aligned, Goal, Writing
  <2>8. end["server"] = "open" => k + Len(wire["server"]) = 2 + Len(<<0>>)
    <3>1. k \in Nat /\ Len(wire["server"]) \in Nat
      BY <1>1, PastHeld DEF IInv, TypeOK
    <3> QED
      BY <2>7, <3>1
  <2>9. Goal("server", F)' = Len(F)
    BY <1>1 DEF Goal
  <2>10. /\ Part(Held("client"), F, Past("client")) /\ Part(wire["server"], F, k)
         /\ pc["client"] = "recv_body" => want["client"] = Value(F)
    BY <1>1, <2>3 DEF Aligned
  <2>11. end["server"] = "open" =>
           Part(todo'["server"], F, k + Len(wire["server"]))
           /\ k + Len(wire["server"]) + Len(todo'["server"]) = Goal("server", F)'
    BY <1>1, <2>6, <2>8, <2>9, Zenon
  <2> HIDE DEF k
  <2>12. Past("client")' + Len(Held("client")') = k
    BY <2>4 DEF k
  <2>13. Aligned("server", F)'
    BY <1>1, <2>4, <2>10, <2>11, <2>12 DEF Aligned
  <2> QED
    BY <2>2, <2>13
<1> QED
  BY <1>1, <1>3, <1>4, <1>5, <1>7, <1>8, ConfigKept DEF IInv, StreamAligned

LEMMA WroteKeeps ==
  ASSUME IInv, NEW s \in Side, Wrote(s)
  PROVE  IInv'
<1> USE DEF config, input, history
<1>1. pc[s] \in Writing /\ todo[s] = <<>> /\ UNCHANGED <<config, wire, end, history>>
  BY DEF Wrote
<1>2. CASE pc[s] = "send_hello" /\ s = "client"
  <2>1. Expect(s, "recv_hello", HelloLen) /\ UNCHANGED todo
    BY <1>2 DEF Wrote
  <2> QED
    BY <1>1, <1>2, <2>1, ExpectKeeps
<1>3. CASE pc[s] = "send_raw"
  <2>1. s = "server"
    BY <1>3 DEF IInv, Progress, Side
  <2>2. At(s, "relay") /\ UNCHANGED <<todo, input>>
    BY <1>3 DEF Wrote
  <2> QED
    BY <1>1, <1>3, <2>1, <2>2, MoveKeeps
<1>4. CASE pc[s] = "send_frame" /\ s = "server"
  <2>1. /\ IF sent[s] = <<<<0>>>> THEN Emit(s, "send_raw", Raw) ELSE Emit(s, "over", <<>>)
        /\ UNCHANGED input
    BY <1>4 DEF Wrote
  <2>2. CASE sent[s] = <<<<0>>>>
    BY <1>1, <1>4, <2>1, <2>2, RawKeeps
  <2>3. CASE sent[s] # <<<<0>>>>
    <3>1. At(s, "over") /\ todo' = [todo EXCEPT ![s] = <<>>]
      BY <2>1, <2>3 DEF Emit
    <3>2. todo' = todo
      BY <1>1, <3>1 DEF IInv, TypeOK
    <3> QED
      BY <1>1, <2>1, <3>1, <3>2, MoveKeeps
  <2> QED
    BY <2>2, <2>3
<1>5. CASE \/ pc[s] = "send_hello" /\ s = "server"
           \/ pc[s] = "send_frame" /\ s = "client"
  <2>1. Expect(s, "recv_len", 2) /\ UNCHANGED todo
    BY <1>5 DEF Wrote
  <2> QED
    BY <1>1, <1>5, <2>1, ExpectKeeps
<1> QED
  BY <1>1, <1>2, <1>3, <1>4, <1>5 DEF Writing, Side

LEMMA ReadKeeps ==
  ASSUME IInv, NEW s \in Side, Read(s)
  PROVE  IInv'
<1> USE DEF config, history
<1> DEFINE t == Peer(s)
           n == Fill(s)
           in == SubSeq(wire[t], 1, n)
           rest == SubSeq(wire[t], n + 1, Len(wire[t]))
<1>1. t \in Side /\ t # s /\ Peer(t) = s /\ \A u \in Side : u = s \/ u = t
  BY Ends
<1>2. /\ wire[t] \in Seq(Byte) /\ buf[s] \in Seq(Byte) /\ want[s] \in Nat
      /\ Len(wire[t]) \in Nat /\ Len(buf[s]) \in Nat
  <2>1. want[s] \in 0..(Base * Base - 1)
    BY DEF IInv, TypeOK
  <2>2. Base * Base - 1 \in Int
    BY OpeningAssumption
  <2> QED
    BY <1>1, <2>1, <2>2 DEF IInv, TypeOK
<1>3. n \in 0..Len(wire[t]) /\ Len(buf[s]) + n <= want[s]
  BY <1>2 DEF Fill, Smaller, Read
<1>4. Part(wire[t], wire[t], 0)
  BY DEF Part
<1>5. /\ in \in Seq(Byte) /\ Len(in) = n
      /\ rest \in Seq(Byte) /\ Len(rest) = Len(wire[t]) - n
      /\ \A F \in Seq(Byte), k \in Nat :
           Part(wire[t], F, k) => Part(in, F, k) /\ Part(rest, F, k + n)
  BY <1>2, <1>3, <1>4, PartSplit
<1>6. /\ buf' = [buf EXCEPT ![s] = buf[s] \o in] /\ wire' = [wire EXCEPT ![t] = rest]
      /\ UNCHANGED <<config, pc, todo, want, end, history>>
      /\ pc[s] \in Reading /\ wire[t] # <<>>
  BY DEF Read
<1> HIDE DEF n, in, rest, t
<1>7. buf[s] \o in \in Seq(Byte) /\ Len(buf[s] \o in) = Len(buf[s]) + n
  BY <1>2, <1>5, ConcatProperties
<1>8. /\ buf'[s] = buf[s] \o in /\ wire'[t] = rest
      /\ buf'[t] = buf[t] /\ wire'[s] = wire[s] /\ got[s] = <<>>
  BY <1>1, <1>6 DEF IInv, TypeOK, Progress, Before
<1>9. TypeOK'
  <2>1. buf' \in [Side -> Seq(Byte)] /\ wire' \in [Side -> Seq(Byte)]
    BY <1>5, <1>6, <1>7 DEF IInv, TypeOK
  <2>2. \A u \in Side : Len(buf'[u]) <= want[u]
    <3>1. Len(buf'[s]) <= want[s]
      BY <1>3, <1>7, <1>8
    <3>2. Len(buf'[t]) <= want[t]
      BY <1>1, <1>8 DEF IInv, TypeOK
    <3> QED
      BY <1>1, <3>1, <3>2
  <2> QED
    BY <1>6, <2>1, <2>2 DEF IInv, TypeOK
<1>10. Progress'
  <2>1. pc["client"] \in {"connected", "send_hello", "send_frame"} =>
          buf'["client"] = buf["client"]
    BY <1>1, <1>6, <1>8 DEF Reading, Side
  <2> QED
    BY <1>6, <2>1 DEF IInv, Progress, Silent
<1>11. Unheard' /\ Padding' /\ Truthful' /\ Spelled' /\ RelayIntact'
  <2>1. Unheard'
    <3>1. kind["client"] = "encrypted" /\ got["server"] = <<>> =>
            wire["server"] = <<>> /\ s = "server" /\ t = "client"
      BY <1>1, <1>6 DEF IInv, Unheard, Side, Peer, t
    <3> QED
      BY <1>6, <1>8, <3>1 DEF IInv, Unheard
  <2>2. Padding'
    <3>1. \A u \in Side : padded[u] => u # s /\ Peer(u) = s
      BY <1>1, <1>6, Ends DEF IInv, Padding, t
    <3> QED
      BY <1>6, <1>8, <3>1 DEF IInv, Padding
  <2>3. Truthful' /\ Spelled' /\ RelayIntact'
    BY <1>6 DEF IInv, Truthful, Spelled, Alike, RelayIntact
  <2> QED
    BY <2>1, <2>2, <2>3
<1>12. ASSUME Watched(t)'
       PROVE  \E F \in Streams(t)' : Aligned(t, F)'
  <2> DEFINE j == Past(s)
             b == Len(buf[s])
  <2>1. Watched(t)
    BY <1>6, <1>12 DEF Watched, Gone
  <2>2. PICK F \in Streams(t) : Aligned(t, F)
    BY <1>1, <2>1 DEF IInv, StreamAligned
  <2>3. F \in Streams(t)' /\ F \in Seq(Byte)
    BY <1>1, <1>6, <2>2, StreamBytes DEF Streams, IInv
  <2>4. Held(s) = buf[s] /\ Held(s)' = buf'[s] /\ Past(s)' = Past(s)
    BY <1>6, <1>8 DEF Past, Held
  <2>5. j \in Nat /\ b \in Nat /\ j + b \in Nat /\ n \in Nat /\ Len(wire[t]) \in Nat
    BY <1>2, <1>3, PastHeld DEF IInv
  <2>6. /\ Part(buf[s], F, j) /\ Part(wire[t], F, j + b)
        /\ pc[s] = "recv_body" => want[s] = Value(F)
        /\ end[t] = "open" /\ pc[t] \in Writing =>
             /\ Part(todo[t], F, j + b + Len(wire[t]))
             /\ j + b + Len(wire[t]) + Len(todo[t]) = Goal(t, F)
    BY <1>1, <2>2, <2>4 DEF Aligned
  <2>7. Part(in, F, j + b) /\ Part(rest, F, j + b + n)
    BY <1>5, <2>3, <2>5, <2>6
  <2>8. Part(buf'[s], F, j)
    BY <1>2, <1>5, <1>8, <2>3, <2>5, <2>6, <2>7, PartCat
  <2> HIDE DEF j
  <2>9. /\ j + Len(buf'[s]) = j + b + n
        /\ j + b + n + Len(wire'[t]) = j + b + Len(wire[t])
    <3>1. Len(buf'[s]) = b + n /\ Len(wire'[t]) = Len(wire[t]) - n
      BY <1>5, <1>7, <1>8
    <3> HIDE DEF b
    <3>2. PICK c \in Nat, d \in Nat, e \in Nat, f \in Nat :
            c = j /\ d = b /\ e = n /\ f = Len(wire[t])
      BY <2>5
    <3>3. c + (d + e) = c + d + e /\ c + d + e + (f - e) = c + d + f
      OBVIOUS
    <3> QED
      BY <3>1, <3>2, <3>3
  <2>10. Goal(t, F)' = Goal(t, F)
    BY <1>6 DEF Goal
  <2>11. Aligned(t, F)'
    BY <1>1, <1>6, <1>8, <2>4, <2>6, <2>7, <2>8, <2>9, <2>10 DEF Aligned, j
  <2> QED
    BY <2>3, <2>11
<1>13. ASSUME Watched(s)'
       PROVE  \E F \in Streams(s)' : Aligned(s, F)'
  <2>1. Watched(s)
    BY <1>6, <1>13 DEF Watched, Gone
  <2>2. Past(t)' = Past(t) /\ Held(t)' = Held(t)
    BY <1>6, <1>8 DEF Past, Held
  <2>3. Streams(s)' = Streams(s)
    BY <1>6 DEF Streams
  <2> QED
    BY <1>6, <1>8, <1>13, <2>1, <2>2, <2>3, StreamKept DEF t
<1> QED
  BY <1>1, <1>6, <1>9, <1>10, <1>11, <1>12, <1>13, ConfigKept DEF IInv, StreamAligned

\* What a read to the end of the buffer returns: the buffer, if it is full.
LEMMA PaddedBuffer ==
  ASSUME TypeOK, NEW s \in Side
  PROVE  /\ Padded(s) \in Seq(Byte) /\ Len(Padded(s)) = want[s]
         /\ Len(buf[s]) \in Nat /\ want[s] \in Nat /\ Len(buf[s]) <= want[s]
         /\ Full(s) => Padded(s) = buf[s] /\ Len(buf[s]) = want[s]
<1>1. want[s] \in Nat /\ Base \in Nat /\ Base >= 2
  <2>1. Base \in Nat /\ Base >= 2
    BY OpeningAssumption
  <2>2. Base * Base - 1 \in Int /\ want[s] \in 0..(Base * Base - 1)
    BY <2>1 DEF TypeOK
  <2> QED
    BY <2>1, <2>2
<1>2. buf[s] \in Seq(Byte) /\ Len(buf[s]) \in Nat /\ Len(buf[s]) <= want[s]
  BY DEF TypeOK
<1>3. 0 \in Byte
  BY <1>1 DEF Byte
<1>4. \A i \in DOMAIN buf[s] : buf[s][i] \in Byte
  BY <1>2
<1>5. Padded(s) \in [1..want[s] -> Byte]
  BY <1>3, <1>4 DEF Padded
<1>6. Padded(s) \in Seq(Byte) /\ Len(Padded(s)) = want[s]
  BY <1>1, <1>5
<1>7. ASSUME Full(s)
      PROVE  Padded(s) = buf[s] /\ Len(buf[s]) = want[s]
  <2>1. Len(buf[s]) = want[s]
    BY <1>1, <1>2, <1>7 DEF Full
  <2>2. \A i \in 1..Len(Padded(s)) : Padded(s)[i] = buf[s][i]
    BY <1>2, <1>6, <2>1 DEF Padded
  <2> QED
    BY <1>2, <1>6, <2>1, <2>2, SeqEqual
<1> QED
  BY <1>1, <1>2, <1>6, <1>7

\* A server with a secret has read a hello.
LEMMA HelloKeeps ==
  ASSUME IInv, pc["server"] = "recv_hello", SendHello("server"),
         UNCHANGED <<config, input, wire, end, sent, got, padded, relayed>>
  PROVE  IInv'
<1> USE DEF config, input, Emit, At
<1>0. PICK h \in Hellos : /\ Emit("server", "send_hello", h)
                          /\ drawn' = [drawn EXCEPT !["server"] = h]
  BY DEF SendHello
<1>1. /\ pc'["server"] = "send_hello" /\ todo'["server"] = h
      /\ drawn'["server"] = h /\ drawn'["client"] = drawn["client"]
      /\ pc'["client"] = pc["client"] /\ todo'["client"] = todo["client"]
      /\ Peer("client") = "server" /\ Peer("server") = "client"
      /\ "client" \in Side /\ "server" \in Side /\ \A t \in Side : t = "client" \/ t = "server"
  BY <1>0 DEF IInv, TypeOK, Side, Peer
<1>2. h \in Seq(Byte)
  BY OpeningAssumption
<1>3. /\ kind["server"] = "encrypted" /\ got["server"] = <<>> /\ sent["server"] = <<>>
      /\ drawn["server"] = <<>>
  BY <1>1 DEF IInv, Progress, Silent, Before, Reading
<1>4. kind["client"] # "encrypted"
  BY <1>1, <1>3 DEF IInv, Matched
<1>5. TypeOK'
  BY <1>0, <1>1, <1>2 DEF IInv, TypeOK, Writing
<1>6. Progress'
  BY <1>1, <1>3 DEF IInv, Progress, Silent, Before
<1>7. Unheard' /\ Padding' /\ Truthful' /\ Spelled' /\ RelayIntact'
  <2>1. got["client"] = <<>> /\ relayed = <<>>
    <3>1. ~Alike("client")
      BY <1>1, <1>3, <1>4 DEF Alike
    <3>2. got["client"] = <<>>
      BY <1>1, <1>3, <3>1, NoEmptyHello DEF IInv, Spelled
    <3> QED
      BY <3>2 DEF IInv, Progress
  <2> QED
    BY <1>1, <1>3, <1>4, <2>1 DEF IInv, Unheard, Padding, Truthful, Spelled, RelayIntact
<1>8. ~Watched("client")'
  BY <1>1, <1>3 DEF Watched
<1>9. Watched("server")' => \E F \in Streams("server")' : Aligned("server", F)'
  <2>1. Streams("server") = {<<>>}
    BY <1>3 DEF Streams
  <2>2. Watched("server")' => Unmoved("client") /\ Watched("server")
    BY <1>1 DEF Unmoved, Watched, Gone
  <2>3. h \in Streams("server")'
    BY <1>1, <1>3 DEF Streams
  <2>4. Part(h, h, 0) /\ Len(h) = Goal("server", h)'
    BY <1>1 DEF Part, Goal
  <2> QED
    BY <1>1, <1>2, <2>1, <2>2, <2>3, <2>4, StreamBegins
<1> QED
  BY <1>1, <1>5, <1>6, <1>7, <1>8, <1>9, ConfigKept DEF IInv, StreamAligned

\* A client with a secret has taken what came for a hello: of a server without a
\* secret, that has been handed a frame by then.
LEMMA SecretKeeps ==
  ASSUME IInv, NEW f \in Headers, pc["client"] = "recv_hello", Full("client"),
         SendFrame("client", f),
         UNCHANGED <<config, input, wire, end, drawn, got, padded, relayed>>
  PROVE  IInv'
<1> USE DEF config, input, SendFrame, Emit, At
<1> DEFINE w == Sealed(f)
<1>1. /\ "client" \in Side /\ "server" \in Side /\ \A t \in Side : t = "client" \/ t = "server"
      /\ Peer("client") = "server" /\ Peer("server") = "client"
  BY DEF Side, Peer
<1>2. kind["client"] = "encrypted" /\ got["client"] = <<>> /\ want["client"] = HelloLen
  BY <1>1 DEF IInv, Progress, Before, Reading
<1>3. got["server"] # <<>>
  <2>1. Len(buf["client"]) >= 2
    BY <1>2, OpeningAssumption DEF Full
  <2>2. buf["client"] # <<>>
    BY <2>1
  <2> QED
    BY <1>2, <2>2 DEF IInv, Unheard
<1>4. w \in Seq(Byte) /\ <<f>> \in Seq(Frame) /\ Len(<<f>>) = 1
  BY SealedBytes DEF Frame
<1> HIDE DEF w
<1>5. /\ pc' = [pc EXCEPT !["client"] = "send_frame"] /\ todo' = [todo EXCEPT !["client"] = w]
      /\ sent' = [sent EXCEPT !["client"] = <<f>>]
  BY <1>2 DEF w
<1>6. /\ pc'["client"] = "send_frame" /\ sent'["client"] = <<f>>
      /\ pc'["server"] = pc["server"] /\ sent'["server"] = sent["server"]
      /\ todo'["server"] = todo["server"]
  BY <1>1, <1>5 DEF IInv, TypeOK
<1>7. TypeOK'
  <2>1. pc' \in [Side -> Reading \cup Writing
                      \cup {"connected", "handed", "dial", "relay", "over", "left"}]
    BY <1>5 DEF IInv, TypeOK, Writing
  <2>2. todo' \in [Side -> Seq(Byte)] /\ sent' \in [Side -> Seq(Frame)]
    <3>1. todo \in [Side -> Seq(Byte)] /\ sent \in [Side -> Seq(Frame)]
      BY DEF IInv, TypeOK
    <3> QED
      BY <1>4, <1>5, <3>1
  <2>3. \A t \in Side : todo'[t] # <<>> => pc'[t] \in Writing \cup {"over", "left"}
    BY <1>1, <1>6 DEF IInv, TypeOK, Writing
  <2> QED
    BY <2>1, <2>2, <2>3 DEF IInv, TypeOK
<1>8. Progress'
  <2>1. \A t \in Side : Silent(t)' => Silent(t)
    BY <1>1, <1>6 DEF Silent
  <2>2. Len(sent'["client"]) = 1
    BY <1>4, <1>6, Zenon
  <2>3. \A t \in Side :
          /\ pc'[t] \in Before => got[t] = <<>>
          /\ pc'[t] \in {"handed", "dial", "send_raw", "relay"} => got[t] # <<>>
          /\ Len(got[t]) <= 1
          /\ pc'[t] \in {"send_hello", "recv_hello"} => kind[t] = "encrypted"
          /\ pc'[t] = "recv_len" => want[t] = 2
          /\ pc'[t] = "recv_hello" => want[t] = HelloLen
          /\ Silent(t)' => drawn[t] = <<>>
    BY <1>1, <1>6, <2>1 DEF IInv, Progress, Before, Reading
  <2>4. \A t \in Side : Len(sent'[t]) <= 1 /\ (pc'[t] = "send_frame" => Len(sent'[t]) = 1)
    BY <1>1, <1>6, <2>2 DEF IInv, Progress
  <2> QED
    BY <1>1, <1>2, <1>6, <2>3, <2>4 DEF IInv, Progress, Before, Reading
<1>9. Unheard' /\ Padding' /\ RelayIntact'
  BY <1>1, <1>3, <1>6 DEF IInv, Unheard, Padding, RelayIntact
<1>10. Truthful' /\ Spelled'
  <2>1. ~Alike("server")
    BY <1>1, <1>2 DEF IInv, Matched, Alike
  <2> QED
    BY <1>1, <1>2, <1>6, <2>1 DEF IInv, Truthful, Spelled, Alike
<1>11. ~Watched("client")' /\ ~Watched("server")'
  BY <1>1, <1>2, <1>3 DEF Watched
<1> QED
  BY <1>1, <1>7, <1>8, <1>9, <1>10, <1>11, ConfigKept DEF IInv, StreamAligned

\* An end has read a length, and expects as many bytes.
LEMMA LengthKeeps ==
  ASSUME IInv, NEW s \in Side, pc[s] = "recv_len", Full(s) \/ CutShort(s),
         Expect(s, "recv_body", Value(Padded(s))),
         padded' = [padded EXCEPT ![s] = @ \/ CutShort(s)],
         UNCHANGED <<config, todo, wire, end, drawn, sent, got, relayed>>
  PROVE  IInv'
<1> USE DEF config, Expect, At
<1> DEFINE t == Peer(s)
           n == Value(Padded(s))
<1>1. t \in Side /\ t # s /\ Peer(t) = s /\ \A u \in Side : u = s \/ u = t
  BY Ends
<1>2. want[s] = 2 /\ got[s] = <<>>
  BY DEF IInv, Progress, Before, Reading
<1>3. n \in 0..(Base * Base - 1)
  BY <1>2, PaddedBuffer, ValueRange DEF IInv
<1> HIDE DEF t
<1>4. /\ pc'[s] = "recv_body" /\ want'[s] = n /\ buf'[s] = <<>>
      /\ padded'[s] = (padded[s] \/ CutShort(s))
      /\ \A u \in Side : u # s => /\ pc'[u] = pc[u] /\ want'[u] = want[u]
                                 /\ buf'[u] = buf[u] /\ padded'[u] = padded[u]
  BY DEF IInv, TypeOK
<1>5. TypeOK'
  <2>1. /\ pc' \in [Side -> Reading \cup Writing
                      \cup {"connected", "handed", "dial", "relay", "over", "left"}]
        /\ want' \in [Side -> 0..(Base * Base - 1)] /\ buf' \in [Side -> Seq(Byte)]
    BY <1>3 DEF IInv, TypeOK, Reading
  <2>2. padded' \in [Side -> BOOLEAN]
    BY <1>4 DEF IInv, TypeOK, CutShort, Full, StreamEnds
  <2>3. \A u \in Side : Len(buf'[u]) <= want'[u]
    BY <1>3, <1>4 DEF IInv, TypeOK
  <2>4. todo[s] = <<>>
    BY DEF IInv, TypeOK, Writing
  <2>5. \A u \in Side : todo[u] # <<>> => pc'[u] \in Writing \cup {"over", "left"}
    BY <1>4, <2>4 DEF IInv, TypeOK
  <2> QED
    BY <2>1, <2>2, <2>3, <2>5 DEF IInv, TypeOK
<1>6. Progress'
  <2>0. \A u \in Side : Silent(u)' => Silent(u)
    BY <1>4 DEF Silent
  <2>1. \A u \in Side :
          /\ pc'[u] \in Before => got[u] = <<>>
          /\ pc'[u] \in {"handed", "dial", "send_raw", "relay"} => got[u] # <<>>
          /\ Len(got[u]) <= 1
          /\ pc'[u] \in {"send_hello", "recv_hello"} => kind[u] = "encrypted"
          /\ pc'[u] = "recv_len" => want'[u] = 2
          /\ pc'[u] = "recv_hello" => want'[u] = HelloLen
          /\ pc'[u] = "send_frame" => Len(sent[u]) = 1
          /\ Silent(u)' => drawn[u] = <<>>
    BY <1>2, <1>4, <2>0 DEF IInv, Progress
  <2>2. \/ pc'["client"] = pc["client"] /\ buf'["client"] = buf["client"]
        \/ pc'["client"] = "recv_body" /\ pc["client"] = "recv_len"
    BY <1>4 DEF Side
  <2>3. \/ pc'["server"] = pc["server"]
        \/ pc'["server"] = "recv_body" /\ pc["server"] = "recv_len"
    BY <1>4 DEF Side
  <2> QED
    BY <2>1, <2>2, <2>3 DEF IInv, Progress, Before, Reading
<1>7. Unheard' /\ RelayIntact'
  BY <1>4 DEF IInv, Unheard, RelayIntact, Side
<1>8. Padding'
  <2>1. CutShort(s) => /\ kind[s] = "quic" /\ wire[t] = <<>> /\ end[t] # "open"
    BY DEF CutShort, StreamEnds, t
  <2>2. s = "client" => relayed = <<>>
    BY DEF IInv, Progress
  <2> QED
    BY <1>1, <1>4, <2>1, <2>2 DEF IInv, Padding, t
<1>9. Truthful' /\ Spelled'
  BY <1>2, <1>4 DEF IInv, Truthful, Spelled, Alike
<1>10. ASSUME Watched(t)'
       PROVE  \E F \in Streams(t)' : Aligned(t, F)'
  <2>1. ~padded[s] /\ ~CutShort(s) /\ kind[s] # "encrypted"
    BY <1>1, <1>4, <1>10 DEF Watched
  <2>2. Watched(t)
    <3>1. t = "client" => s = "server"
      BY <1>1 DEF Side
    <3> QED
      BY <1>1, <1>2, <2>1, <3>1 DEF Watched, Gone
  <2>3. PICK F \in Streams(t) : Aligned(t, F)
    BY <1>1, <2>2 DEF IInv, StreamAligned
  <2>4. F \in Streams(t)' /\ F \in Seq(Byte)
    BY <1>1, <1>4, <2>3, StreamBytes DEF Streams, IInv
  <2>5. buf[s] \in Seq(Byte) /\ Len(buf[s]) = 2 /\ Padded(s) = buf[s]
    BY <1>2, <2>1, PaddedBuffer DEF IInv, TypeOK
  <2>6. Past(s) = 0 /\ Held(s) = buf[s] /\ Past(s)' = 2 /\ Held(s)' = <<>>
    BY <1>2, <1>4 DEF Past, Held
  <2>7. /\ Part(buf[s], F, 0) /\ Part(wire[t], F, 0 + 2)
        /\ end[t] = "open" /\ pc[t] \in Writing =>
             /\ Part(todo[t], F, 0 + 2 + Len(wire[t]))
             /\ 0 + 2 + Len(wire[t]) + Len(todo[t]) = Goal(t, F)
    BY <1>1, <2>3, <2>5, <2>6 DEF Aligned
  <2>8. n = Value(F)
    BY <2>4, <2>5, <2>7, ValueOfPart
  <2>9. Part(<<>>, F, 2) /\ 0 + 2 = 2 + Len(<<>>)
    <3>1. 0 + Len(buf[s]) <= Len(F) /\ Len(F) \in Nat
      BY <2>4, <2>7 DEF Part
    <3> QED
      BY <2>5, <3>1 DEF Part
  <2>10. Goal(t, F)' = Goal(t, F)
    BY <1>1, <1>4 DEF Goal
  <2> HIDE DEF n
  <2>11. Aligned(t, F)'
    BY <1>1, <1>4, <2>6, <2>7, <2>8, <2>9, <2>10 DEF Aligned
  <2> QED
    BY <2>4, <2>11
<1>11. ASSUME Watched(s)'
       PROVE  \E F \in Streams(s)' : Aligned(s, F)'
  <2>1. Watched(s)
    BY <1>1, <1>4, <1>11 DEF Watched, Gone, t
  <2>2. Past(t)' = Past(t) /\ Held(t)' = Held(t)
    BY <1>1, <1>4 DEF Past, Held
  <2>3. Streams(s) \subseteq Streams(s)'
    BY <1>4 DEF Streams
  <2>4. pc'[s] \notin Writing
    BY <1>4 DEF Writing
  <2> QED
    BY <1>1, <1>4, <1>11, <2>1, <2>2, <2>3, <2>4, StreamKept DEF t
<1> QED
  BY <1>1, <1>5, <1>6, <1>7, <1>8, <1>9, <1>10, <1>11, ConfigKept DEF IInv, StreamAligned

\* What an end is handed is the frame its peer sent, or the one that its peer's
\* hello begins with.
LEMMA HandedIsSent ==
  ASSUME IInv, NEW s \in Side, pc[s] = "recv_body", Full(s), ~padded[s],
         kind[s] # "encrypted"
  PROVE  IF kind[Peer(s)] # "encrypted" THEN sent[Peer(s)] = <<buf[s]>>
         ELSE drawn[Peer(s)] \in Hellos /\ Spells(drawn[Peer(s)], buf[s])
<1> DEFINE t == Peer(s)
<1>1. t \in Side /\ Peer(t) = s
  BY Ends
<1> HIDE DEF t
<1>4. got[s] = <<>> /\ buf[s] \in Seq(Byte) /\ Len(buf[s]) = want[s] /\ Len(buf[s]) \in Nat
  BY PaddedBuffer DEF IInv, TypeOK, Progress, Before, Reading
<1>2. Watched(t)
  <2>1. t = "client" => s = "server"
    BY <1>1 DEF Side, Peer
  <2> QED
    BY <1>1, <1>4, <2>1 DEF Watched, Gone
<1>3. PICK F \in Streams(t) : Aligned(t, F)
  BY <1>1, <1>2 DEF IInv, StreamAligned
<1>5. Past(s) = 2 /\ Held(s) = buf[s]
  BY <1>4 DEF Past, Held
<1>6. Part(buf[s], F, 2) /\ Len(buf[s]) = Value(F) /\ 2 + Len(buf[s]) <= Len(F)
  BY <1>1, <1>3, <1>4, <1>5 DEF Aligned, Part
<1>7. F # <<>>
  <2>1. Len(F) # 0
    BY <1>1, <1>3, <1>4, <1>6, StreamBytes DEF IInv
  <2> QED
    BY <2>1
<1>8. CASE kind[t] = "encrypted"
  <2>1. F = drawn[t] /\ F \in Hellos /\ F \in Seq(Byte) /\ Len(F) >= 2
    BY <1>1, <1>3, <1>7, <1>8, OpeningAssumption DEF Streams, IInv, TypeOK
  <2>2. Spells(F, buf[s])
    BY <1>4, <1>6, <2>1, BeginsWithFrame
  <2> QED
    BY <1>8, <2>1, <2>2 DEF t
<1>9. CASE kind[t] # "encrypted"
  <2>1. sent[t] \in Seq(Frame) /\ Len(sent[t]) <= 1 /\ sent[t] # <<>>
    <3>1. sent[t] # <<>>
      BY <1>3, <1>7, <1>9 DEF Streams
    <3> QED
      BY <1>1, <3>1 DEF IInv, TypeOK, Progress
  <2>2. sent[t] = <<sent[t][1]>> /\ sent[t][1] \in Frame
    BY <2>1
  <2>3. PICK r \in Seq(Byte) : F = Encoded(sent[t][1]) \o r
    <3>1. Raw \in Seq(Byte) /\ <<>> \in Seq(Byte)
      BY OpeningAssumption
    <3> QED
      BY <1>3, <1>9, <2>1, <3>1 DEF Streams
  <2> DEFINE f == sent[t][1]
             e == LenBytes(Len(f))
  <2>4. f \in Frame
    BY <2>2
  <2> HIDE DEF f
  <2>5. Len(buf[s]) = Len(f) /\ f \in Seq(Byte)
    BY <1>6, <2>3, <2>4, EncodedFrame, FrameBytes DEF f
  <2>6. e \in Seq(Byte) /\ Len(e) = 2 /\ F = (e \o f) \o r
    BY <2>3, <2>4, EncodedFrame DEF Encoded, f
  <2> HIDE DEF e
  <2>7. Part(buf[s], (e \o f) \o r, Len(e))
    BY <1>6, <2>6
  <2>8. buf[s] = f
    BY <1>4, <2>5, <2>6, <2>7, PartWhole
  <2> QED
    BY <1>9, <2>2, <2>8 DEF f, t
<1> QED
  BY <1>8, <1>9

LEMMA FrameKeeps ==
  ASSUME IInv, NEW s \in Side, pc[s] = "recv_body", Full(s) \/ CutShort(s),
         kind[s] # "encrypted", At(s, "handed"),
         got' = [got EXCEPT ![s] = <<Padded(s)>>],
         padded' = [padded EXCEPT ![s] = @ \/ CutShort(s)],
         UNCHANGED <<config, todo, input, wire, end, drawn, sent, relayed>>
  PROVE  IInv'
<1> USE DEF config, input, At
<1> DEFINE t == Peer(s)
           f == Padded(s)
<1>1. t \in Side /\ t # s /\ Peer(t) = s /\ \A u \in Side : u = s \/ u = t
  BY Ends
<1>2. f \in Seq(Byte) /\ (Full(s) => f = buf[s])
  BY PaddedBuffer DEF IInv
<1>3. got[s] = <<>>
  BY DEF IInv, Progress, Before, Reading
<1> HIDE DEF t, f
<1>4. /\ pc'[s] = "handed" /\ got'[s] = <<f>> /\ padded'[s] = (padded[s] \/ CutShort(s))
      /\ <<f>> \in Seq(Seq(Byte)) /\ <<f>> # <<>> /\ Len(<<f>>) = 1
      /\ \A u \in Side : u # s => /\ pc'[u] = pc[u] /\ got'[u] = got[u]
                                 /\ padded'[u] = padded[u]
  BY <1>2 DEF IInv, TypeOK, f
<1>5. TypeOK'
  <2>1. /\ pc' \in [Side -> Reading \cup Writing
                      \cup {"connected", "handed", "dial", "relay", "over", "left"}]
        /\ got' \in [Side -> Seq(Seq(Byte))]
    BY <1>4 DEF IInv, TypeOK, f
  <2>2. padded' \in [Side -> BOOLEAN]
    BY <1>4 DEF IInv, TypeOK, CutShort, Full, StreamEnds
  <2>3. todo[s] = <<>>
    BY DEF IInv, TypeOK, Writing
  <2>4. \A u \in Side : todo[u] # <<>> => pc'[u] \in Writing \cup {"over", "left"}
    BY <1>4, <2>3 DEF IInv, TypeOK
  <2> QED
    BY <2>1, <2>2, <2>4 DEF IInv, TypeOK
<1>6. Progress'
  <2>0. \A u \in Side : Silent(u)' => Silent(u)
    BY <1>4 DEF Silent
  <2>1. \A u \in Side :
          /\ pc'[u] \in Before => got'[u] = <<>>
          /\ pc'[u] \in {"handed", "dial", "send_raw", "relay"} => got'[u] # <<>>
          /\ Len(got'[u]) <= 1
          /\ pc'[u] \in {"send_hello", "recv_hello"} => kind[u] = "encrypted"
          /\ pc'[u] = "recv_len" => want[u] = 2
          /\ pc'[u] = "recv_hello" => want[u] = HelloLen
          /\ pc'[u] = "send_frame" => Len(sent[u]) = 1
          /\ Silent(u)' => drawn[u] = <<>>
    BY SMTT(30), <1>4, <2>0 DEF IInv, Progress, Before, Reading
  <2>2. \/ pc'["client"] = pc["client"] /\ got'["client"] = got["client"]
        \/ pc'["client"] = "handed" /\ pc["client"] = "recv_body"
    BY <1>4 DEF Side
  <2>3. \/ pc'["server"] = pc["server"] /\ got'["server"] = got["server"]
        \/ pc'["server"] = "handed" /\ pc["server"] = "recv_body"
    BY <1>4 DEF Side
  <2> QED
    BY <2>1, <2>2, <2>3 DEF IInv, Progress, Before, Reading
<1>7. Full(s) /\ ~padded[s] =>
        IF kind[t] # "encrypted" THEN sent[t] = <<f>>
        ELSE drawn[t] \in Hellos /\ Spells(drawn[t], f)
  BY <1>2, HandedIsSent DEF t
<1>8. padded'[s] => kind[s] = "quic" /\ wire[t] = <<>> /\ end[t] # "open"
  BY <1>4 DEF IInv, Padding, CutShort, StreamEnds, t
<1>9. /\ padded'[s] => Alike(s)
      /\ Alike(s) => kind[t] # "encrypted"
      /\ ~Alike(s) => kind[t] = "encrypted"
  BY <1>1, <1>8 DEF IInv, Matched, Alike, t
<1>10. Unheard' /\ RelayIntact'
  <2>1. Unheard'
    BY <1>1, <1>4 DEF IInv, Unheard, Side
  <2>2. s = "client" => relayed = <<>>
    BY DEF IInv, Progress
  <2>3. CASE s = "client"
    BY <2>1, <2>2, <2>3 DEF RelayIntact
  <2>4. CASE s # "client"
    <3>1. got'["client"] = got["client"]
      BY <1>4, <2>4 DEF Side
    <3> QED
      BY <2>1, <3>1 DEF IInv, RelayIntact
  <2> QED
    BY <2>3, <2>4
<1>11. Padding'
  <2>1. s = "client" => relayed = <<>>
    BY DEF IInv, Progress
  <2> QED
    BY <1>1, <1>4, <1>8, <2>1 DEF IInv, Padding, t
<1>12. Truthful' /\ Spelled'
  <2>0. <<f>>[1] = f
    OBVIOUS
  <2>1. got'[s][1] = f /\ (~padded'[s] => Full(s) /\ ~padded[s])
    BY <1>4, <2>0, Zenon
  <2>2. Truthful'
    BY <1>1, <1>4, <1>7, <1>9, <2>1 DEF IInv, Truthful, Alike, t
  <2>3. Spelled'
    BY <1>1, <1>4, <1>7, <1>9, <2>1 DEF IInv, Spelled, Alike, t
  <2> QED
    BY <2>2, <2>3
<1>13. ASSUME Watched(t)'
       PROVE  \E F \in Streams(t)' : Aligned(t, F)'
  <2>1. ~padded[s] /\ Full(s) /\ t # "client"
    <3>1. t = "client" => s = "server"
      BY <1>1 DEF Side
    <3> QED
      BY <1>1, <1>4, <1>13, <3>1 DEF Watched
  <2>2. Watched(t)
    BY <1>1, <2>1 DEF Watched, Gone
  <2>3. PICK F \in Streams(t) : Aligned(t, F)
    BY <1>1, <2>2 DEF IInv, StreamAligned
  <2>4. F \in Streams(t)' /\ F \in Seq(Byte)
    BY <1>1, <1>4, <2>3, StreamBytes DEF Streams, IInv
  <2>5. Past(s) = 2 /\ Held(s) = f /\ f = buf[s]
    BY <1>2, <1>3, <2>1 DEF Past, Held
  <2>6. Past(s)' = 2 + Len(f) /\ Held(s)' = <<>>
    <3>1. s = "client" => Len(relayed) = 0
      BY DEF IInv, Progress
    <3>2. got'[s] # <<>> /\ got'[s][1] = f
      BY <1>4
    <3>3. Past(s)' = 2 + Len(f) + (IF s = "client" THEN Len(relayed) ELSE 0)
      BY <3>2 DEF Past
    <3>4. Past(s)' = 2 + Len(f)
      <4>1. CASE s = "client"
        BY <1>2, <3>1, <3>3, <4>1
      <4>2. CASE s # "client"
        BY <1>2, <3>3, <4>2
      <4> QED
        BY <4>1, <4>2
    <3> QED
      BY <3>2, <3>4 DEF Held
  <2>7. /\ Part(f, F, 2) /\ Part(wire[t], F, 2 + Len(f))
        /\ end[t] = "open" /\ pc[t] \in Writing =>
             /\ Part(todo[t], F, 2 + Len(f) + Len(wire[t]))
             /\ 2 + Len(f) + Len(wire[t]) + Len(todo[t]) = Goal(t, F)
    BY <1>1, <2>3, <2>5 DEF Aligned
  <2>8. Part(<<>>, F, 2 + Len(f)) /\ 2 + Len(f) + Len(<<>>) = 2 + Len(f)
    BY <1>2, <2>4, <2>7 DEF Part
  <2>9. Goal(t, F)' = Goal(t, F)
    BY <1>1, <1>4 DEF Goal
  <2>10. Aligned(t, F)'
    BY <1>1, <1>4, <2>6, <2>7, <2>8, <2>9 DEF Aligned
  <2> QED
    BY <2>4, <2>10
<1>14. ASSUME Watched(s)'
       PROVE  \E F \in Streams(s)' : Aligned(s, F)'
  <2>1. Watched(s)
    BY <1>1, <1>4, <1>14 DEF Watched, Gone, t
  <2>2. Past(t)' = Past(t) /\ Held(t)' = Held(t)
    BY <1>1, <1>4 DEF Past, Held
  <2>3. Streams(s) \subseteq Streams(s)'
    BY <1>4 DEF Streams
  <2>4. pc'[s] \notin Writing
    BY <1>4 DEF Writing
  <2> QED
    BY <1>1, <1>4, <1>14, <2>1, <2>2, <2>3, <2>4, StreamKept DEF t
<1> QED
  BY <1>1, <1>5, <1>6, <1>10, <1>11, <1>12, <1>13, <1>14, ConfigKept
  DEF IInv, StreamAligned

LEMMA FilledKeeps ==
  ASSUME IInv, NEW s \in Side, Filled(s)
  PROVE  IInv'
<1> USE DEF config, input, history
<1>1. /\ pc[s] \in Reading /\ (Full(s) \/ CutShort(s)) /\ Take(s, Padded(s))
      /\ padded' = [padded EXCEPT ![s] = @ \/ CutShort(s)]
      /\ UNCHANGED <<config, wire, end, relayed>>
  BY DEF Filled
<1>2. kind[s] = "encrypted" => padded' = padded
  <2>1. kind[s] = "encrypted" => padded' = [padded EXCEPT ![s] = padded[s]]
    BY <1>1 DEF IInv, TypeOK, CutShort
  <2> QED
    BY <2>1 DEF IInv, TypeOK
<1>3. CASE pc[s] = "recv_hello"
  <2>1. kind[s] = "encrypted" /\ Full(s)
    BY <1>1, <1>3 DEF IInv, Progress, CutShort
  <2>2. CASE s = "server"
    <3>1. SendHello("server") /\ UNCHANGED <<input, sent, got>>
      BY <1>1, <1>3, <2>2 DEF Take
    <3> QED
      BY <1>1, <1>2, <1>3, <2>1, <2>2, <3>1, HelloKeeps
  <2>3. CASE s = "client"
    <3>1. UNCHANGED <<input, drawn, got>> /\ \E f \in Headers : SendFrame("client", f)
      BY <1>1, <1>3, <2>3 DEF Take
    <3> QED
      BY <1>1, <1>2, <1>3, <2>1, <2>3, <3>1, SecretKeeps
  <2> QED
    BY <2>2, <2>3 DEF Side
<1>4. CASE pc[s] = "recv_len"
  <2>1. /\ IF kind[s] = "encrypted" /\ Value(Padded(s)) < TagLen
           THEN At(s, "over") /\ UNCHANGED input
           ELSE Expect(s, "recv_body", Value(Padded(s)))
        /\ UNCHANGED <<todo, drawn, sent, got>>
    BY <1>1, <1>4 DEF Take
  <2>2. CASE kind[s] = "encrypted" /\ Value(Padded(s)) < TagLen
    BY <1>1, <1>2, <2>1, <2>2, MoveKeeps
  <2>3. CASE ~(kind[s] = "encrypted" /\ Value(Padded(s)) < TagLen)
    BY <1>1, <1>4, <2>1, <2>3, LengthKeeps
  <2> QED
    BY <2>2, <2>3
<1>5. CASE pc[s] = "recv_body"
  <2>1. /\ IF kind[s] = "encrypted" THEN At(s, "over") /\ UNCHANGED got
           ELSE At(s, "handed") /\ got' = [got EXCEPT ![s] = <<Padded(s)>>]
        /\ UNCHANGED <<todo, input, drawn, sent>>
    BY <1>1, <1>5 DEF Take
  <2>2. CASE kind[s] = "encrypted"
    BY <1>1, <1>2, <2>1, <2>2, MoveKeeps
  <2>3. CASE kind[s] # "encrypted"
    BY <1>1, <1>5, <2>1, <2>3, FrameKeeps
  <2> QED
    BY <2>2, <2>3
<1> QED
  BY <1>1, <1>3, <1>4, <1>5 DEF Reading

LEMMA DialKeeps ==
  ASSUME IInv, Dial
  PROVE  IInv'
<1> USE DEF config, input, At, Emit, SendFrame
<1>1. PICK f \in {<<0>>, <<1>>} : SendFrame("server", f)
  BY DEF Dial
<1>2. /\ pc["server"] = "dial" /\ sent["server"] = <<>> /\ got["server"] # <<>>
      /\ UNCHANGED <<config, input, wire, end, drawn, got, padded, relayed>>
  BY DEF Dial, IInv, Progress, Before, Side
<1>3. /\ f \in Frame /\ f \in Seq(Byte) /\ Encoded(f) \in Seq(Byte)
      /\ Len(Encoded(f)) = 2 + Len(f) /\ Encoded(f) \o Raw \in Seq(Byte)
      /\ Encoded(f) \o <<>> = Encoded(f)
      /\ Part(Encoded(f), Encoded(f) \o Raw, 0) /\ Part(Encoded(f), Encoded(f), 0)
  <2>1. f \in Frame
    BY DEF Frame
  <2>2. Raw \in Seq(Byte)
    BY OpeningAssumption
  <2> QED
    BY <2>1, <2>2, FrameBytes, EncodedFrame, ConcatEmptySeq DEF Part
<1>4. <<f>> \in Seq(Frame) /\ Len(<<f>>) = 1 /\ <<f>>[1] = f /\ <<f>> # <<>>
  BY <1>3
<1>0. kind["server"] # "encrypted"
  BY <1>2 DEF IInv, Unheard, Side
<1>14. /\ pc' = [pc EXCEPT !["server"] = "send_frame"]
       /\ todo' = [todo EXCEPT !["server"] = Encoded(f)] /\ sent' = [sent EXCEPT !["server"] = <<f>>]
  BY <1>0, <1>1
<1>5. /\ pc'["server"] = "send_frame" /\ todo'["server"] = Encoded(f) /\ sent'["server"] = <<f>>
      /\ pc'["client"] = pc["client"] /\ todo'["client"] = todo["client"]
      /\ sent'["client"] = sent["client"]
      /\ Peer("client") = "server" /\ Peer("server") = "client"
      /\ "client" \in Side /\ "server" \in Side /\ \A t \in Side : t = "client" \/ t = "server"
  BY <1>14 DEF IInv, TypeOK, Side, Peer
<1>6. TypeOK'
  <2>1. /\ pc' \in [Side -> Reading \cup Writing
                      \cup {"connected", "handed", "dial", "relay", "over", "left"}]
        /\ todo' \in [Side -> Seq(Byte)] /\ sent' \in [Side -> Seq(Frame)]
    BY <1>3, <1>4, <1>14 DEF IInv, TypeOK, Writing
  <2>2. \A t \in Side : todo'[t] # <<>> => pc'[t] \in Writing \cup {"over", "left"}
    BY <1>5 DEF IInv, TypeOK, Writing
  <2> QED
    BY <1>2, <2>1, <2>2 DEF IInv, TypeOK
<1>8. Progress'
  <2>1. \A t \in Side : Len(sent'[t]) <= 1
    <3>1. Len(sent'["client"]) <= 1
      BY <1>5 DEF IInv, Progress
    <3>2. 1 <= 1
      OBVIOUS
    <3>3. Len(sent'["server"]) <= 1
      BY <1>4, <1>5, <3>2, Zenon
    <3> QED
      BY <1>5, <3>1, <3>3
  <2>2. \A t \in Side : Silent(t)' => Silent(t)
    BY <1>5 DEF Silent
  <2> QED
    BY <1>2, <1>4, <1>5, <2>1, <2>2 DEF IInv, Progress, Before, Reading
<1>9. Unheard' /\ Padding'
  BY <1>0, <1>2 DEF IInv, Unheard, Padding
<1>10. Truthful' /\ Spelled'
  <2>1. got["client"] = <<>> \/ padded["client"] \/ ~Alike("client")
    BY <1>2, <1>5 DEF IInv, Truthful
  <2>2. Alike("client")' = Alike("client") /\ Alike("server")' = Alike("server")
    BY <1>2 DEF Alike
  <2>3. got["server"] # <<>> /\ ~padded["server"] /\ Alike("server") =>
          got["server"] = sent["client"]
    BY <1>5 DEF IInv, Truthful
  <2>4. Truthful'
    BY <1>2, <1>5, <2>1, <2>2, <2>3 DEF Truthful
  <2>5. Spelled'
    BY <1>2 DEF IInv, Spelled, Alike
  <2> QED
    BY <2>4, <2>5
<1>11. RelayIntact'
  <2>1. relayed = <<>>
    <3>1. sent["server"] # << << 0 >> >>
      BY <1>2
    <3> QED
      BY <1>0, <3>1 DEF IInv, RelayIntact
  <2> QED
    BY <1>2, <2>1 DEF RelayIntact
<1>12. ~Watched("client")'
  BY <1>2 DEF Watched
<1>13. Watched("server")' => \E F \in Streams("server")' : Aligned("server", F)'
  <2>1. Streams("server") = {<<>>}
    BY <1>0, <1>2 DEF Streams
  <2>2. Watched("server")' => Unmoved("client") /\ Watched("server")
    BY <1>2, <1>5 DEF Unmoved, Watched, Gone
  <2>3. Goal("server", Encoded(f))' = 2 + Len(f) /\ Goal("server", Encoded(f) \o Raw)' = 2 + Len(f)
    BY <1>4, <1>5 DEF Goal
  <2>4. CASE f = <<0>>
    <3>1. Encoded(f) \o Raw \in Streams("server")'
      BY <1>0, <1>2, <1>4, <1>5, <2>4 DEF Streams
    <3> QED
      BY <1>2, <1>3, <1>5, <2>1, <2>2, <2>3, <3>1, StreamBegins
  <2>5. CASE f # <<0>>
    <3>1. <<f>> # <<<<0>>>>
      BY <1>4, <2>5
    <3>2. Encoded(f) \in Streams("server")'
      BY <1>0, <1>2, <1>3, <1>4, <1>5, <3>1 DEF Streams
    <3> QED
      BY <1>2, <1>3, <1>5, <2>1, <2>2, <2>3, <3>2, StreamBegins
  <2> QED
    BY <2>4, <2>5
<1> QED
  BY <1>2, <1>5, <1>6, <1>8, <1>9, <1>10, <1>11, <1>12, <1>13, ConfigKept
  DEF IInv, StreamAligned

\* What the server's relay passes on is no frame, and no one looks for one.
LEMMA ServerRelayKeeps ==
  ASSUME IInv, Relay("server")
  PROVE  IInv'
<1> USE DEF config, input
<1>1. /\ pc["server"] = "relay" /\ relayed' = relayed
      /\ wire' = [wire EXCEPT !["client"] = <<>>]
      /\ UNCHANGED <<config, pc, todo, input, end, drawn, sent, got, padded>>
  BY DEF Relay, Peer
<1>2. /\ Peer("client") = "server" /\ Peer("server") = "client"
      /\ "client" \in Side /\ "server" \in Side /\ \A t \in Side : t = "client" \/ t = "server"
  BY DEF Side, Peer
<1>3. got["server"] # <<>>
  BY <1>1, <1>2 DEF IInv, Progress
<1>4. wire'["client"] = <<>> /\ wire'["server"] = wire["server"]
  BY <1>1, <1>2 DEF IInv, TypeOK
<1>5. TypeOK'
  <2>1. wire' \in [Side -> Seq(Byte)]
    <3>1. <<>> \in Seq(Byte)
      OBVIOUS
    <3> QED
      BY <1>1, <3>1 DEF IInv, TypeOK
  <2> QED
    BY <1>1, <2>1 DEF IInv, TypeOK
<1>6. Progress' /\ Truthful' /\ Spelled' /\ RelayIntact'
  BY <1>1 DEF IInv, Progress, Silent, Truthful, Spelled, Alike, RelayIntact
<1>7. Unheard' /\ Padding'
  BY <1>1, <1>2, <1>3, <1>4 DEF IInv, Unheard, Padding
<1>8. ~Watched("client")'
  BY <1>1, <1>3 DEF Watched
<1>9. Watched("server")' => \E F \in Streams("server")' : Aligned("server", F)'
  <2>1. Past("client")' = Past("client") /\ Held("client")' = Held("client")
    BY <1>1 DEF Past, Held
  <2>2. Watched("server")' => Watched("server")
    BY <1>1 DEF Watched, Gone
  <2>3. Streams("server")' = Streams("server")
    BY <1>1 DEF Streams
  <2> QED
    BY <1>1, <1>2, <1>4, <2>1, <2>2, <2>3, StreamKept
<1> QED
  BY <1>1, <1>2, <1>5, <1>6, <1>7, <1>8, <1>9, ConfigKept DEF IInv, StreamAligned

\* The relay passes on what has arrived: what the target said next, or what comes
\* next in the hello that was taken for a status.
LEMMA RelayKeeps ==
  ASSUME IInv, Relay("client")
  PROVE  IInv'
<1> USE DEF config, input
<1> DEFINE w == wire["server"]
<1>1. /\ pc["client"] = "relay" /\ w # <<>> /\ relayed' = relayed \o w
      /\ wire' = [wire EXCEPT !["server"] = <<>>]
      /\ UNCHANGED <<config, pc, todo, input, end, drawn, sent, got, padded>>
  BY DEF Relay, Peer
<1> HIDE DEF w
<1>2. /\ Peer("client") = "server" /\ Peer("server") = "client"
      /\ "client" \in Side /\ "server" \in Side /\ \A t \in Side : t = "client" \/ t = "server"
  BY DEF Side, Peer
<1>3. w \in Seq(Byte) /\ relayed \in Seq(Byte) /\ Raw \in Seq(Byte)
  BY <1>2, OpeningAssumption DEF IInv, TypeOK, w
<1>4. relayed' \in Seq(Byte) /\ Len(relayed') = Len(relayed) + Len(w)
  BY <1>1, <1>3, ConcatProperties
<1>5. wire'["server"] = <<>> /\ wire'["client"] = wire["client"]
  BY <1>1, <1>2 DEF IInv, TypeOK
<1>6. /\ got["client"] # <<>> /\ ~padded["client"] /\ kind["client"] # "encrypted"
      /\ IsSuccess(got["client"][1])
  BY <1>1, <1>2 DEF IInv, Progress, Padding, Unheard, w
<1>7. Watched("server")
  BY <1>1, <1>2, <1>6 DEF Watched, Gone
<1> DEFINE g == got["client"][1]
           k == 2 + Len(g) + Len(relayed)
<1>8. g \in Seq(Byte) /\ Len(g) \in Nat /\ Encoded(g) \in Seq(Byte) /\ Len(Encoded(g)) = 2 + Len(g)
  <2>1. got["client"] \in Seq(Seq(Byte))
    BY <1>2 DEF IInv, TypeOK
  <2>2. g \in Seq(Byte)
    BY <1>6, <2>1
  <2> QED
    BY <2>2, EncodedBytes
<1>9. PICK F \in Streams("server") : Aligned("server", F)
  BY <1>2, <1>7 DEF IInv, StreamAligned
<1>10. F \in Streams("server")' /\ F \in Seq(Byte)
  BY <1>1, <1>2, <1>9, StreamBytes DEF Streams, IInv
<1>11. Past("client") = k /\ Held("client") = <<>>
  BY <1>6 DEF Past, Held
<1> HIDE DEF g
<1>12. k \in Nat /\ Len(w) \in Nat /\ k + 0 = k /\ Len(<<>>) = 0 /\ Len(F) \in Nat
  BY <1>3, <1>8, <1>10
<1>13. /\ Part(w, F, k)
       /\ end["server"] = "open" /\ pc["server"] \in Writing =>
            /\ Part(todo["server"], F, k + Len(w))
            /\ k + Len(w) + Len(todo["server"]) = Goal("server", F)
  BY <1>2, <1>9, <1>11, <1>12 DEF Aligned, w
<1>14. ASSUME kind["server"] # "encrypted"
       PROVE  RelayIntact'
  <2> DEFINE r == IF sent["server"] = << << 0 >> >> THEN Raw ELSE <<>>
  <2>1. sent["server"] = got["client"]
    <3>1. Alike("client")
      BY <1>2, <1>6, <1>14 DEF IInv, Matched, Alike
    <3> QED
      BY <1>2, <1>6, <3>1 DEF IInv, Truthful
  <2>2. r \in Seq(Byte) /\ F = Encoded(g) \o r
    <3>1. <<>> \in Seq(Byte)
      OBVIOUS
    <3>2. r \in Seq(Byte)
      BY <1>3, <3>1
    <3>3. sent["server"] # <<>> /\ sent["server"][1] = g
      BY <1>6, <2>1 DEF g
    <3>4. Streams("server") = {Encoded(g) \o r}
      BY <1>14, <3>3 DEF Streams
    <3> QED
      BY <1>9, <3>2, <3>4
  <2>3. sent["server"] # << << 0 >> >> => r = <<>>
    OBVIOUS
  <2>4. sent["server"] = << << 0 >> >> => r = Raw
    OBVIOUS
  <2> HIDE DEF r
  <2>5. Part(w, r, Len(relayed))
    <3>1. Part(w, Encoded(g) \o r, Len(Encoded(g)) + Len(relayed)) /\ Len(relayed) \in Nat
      BY <1>3, <1>8, <1>13, <2>2
    <3> QED
      BY <1>3, <1>8, <2>2, <3>1, PartBehind
  <2>6. r = Raw /\ sent["server"] = << << 0 >> >>
    <3>1. Len(w) # 0 /\ Len(relayed) \in Nat
      BY <1>1, <1>3
    <3>2. Len(relayed) + Len(w) <= Len(r)
      BY <2>5 DEF Part
    <3>3. r # <<>>
      BY <1>12, <3>1, <3>2
    <3> QED
      BY <2>3, <2>4, <3>3
  <2>7. Part(relayed, Raw, 0)
    <3>1. CASE relayed = <<>>
      BY <1>3, <3>1 DEF Part
    <3>2. CASE relayed # <<>>
      <4>1. IsPrefix(relayed, Raw)
        BY <1>14, <3>2 DEF IInv, RelayIntact
      <4> QED
        BY <1>3, <4>1, PrefixIsPart
    <3> QED
      BY <3>1, <3>2
  <2>8. Part(w, Raw, 0 + Len(relayed))
    BY <1>3, <2>5, <2>6
  <2>9. Part(relayed', Raw, 0)
    BY <1>1, <1>3, <2>7, <2>8, PartCat
  <2>10. IsPrefix(relayed', Raw)
    BY <1>3, <1>4, <2>9, PrefixIsPart
  <2> QED
    BY <1>1, <2>6, <2>10 DEF RelayIntact
<1>15. ASSUME kind["server"] = "encrypted"
       PROVE  RelayIntact'
  <2> DEFINE e == Encoded(g)
  <2>1. F = drawn["server"]
    BY <1>9, <1>15 DEF Streams
  <2>2. e \in Seq(Byte) /\ Len(e) = 2 + Len(g)
    BY <1>8
  <2>3. IsPrefix(e, F)
    BY <1>2, <1>6, <1>15, <2>1 DEF IInv, Spelled, Spells, Alike, g
  <2> HIDE DEF e
  <2>4. e \o relayed \in Seq(Byte) /\ Len(e \o relayed) = k
    BY <1>3, <2>2, ConcatProperties
  <2>5. Part(e \o relayed, F, 0)
    <3>1. CASE relayed = <<>>
      <4>1. e \o relayed = e
        BY <2>2, <3>1, ConcatEmptySeq
      <4> QED
        BY <1>10, <2>2, <2>3, <4>1, PrefixIsPart
    <3>2. CASE relayed # <<>>
      <4>1. sent["server"] = <<>>
        BY <1>15 DEF IInv, Unheard
      <4>2. sent["server"] # << << 0 >> >>
        BY <4>1
      <4>3. IsPrefix(e \o relayed, F)
        BY <2>1, <3>2, <4>2 DEF IInv, RelayIntact, e, g
      <4> QED
        BY <1>10, <2>4, <4>3, PrefixIsPart
    <3> QED
      BY <3>1, <3>2
  <2> HIDE DEF k
  <2>6. Part(w, F, 0 + Len(e \o relayed))
    BY <1>12, <1>13, <2>4
  <2>7. Part((e \o relayed) \o w, F, 0)
    BY <1>3, <1>10, <2>4, <2>5, <2>6, PartCat
  <2>8. (e \o relayed) \o w = e \o relayed'
    BY <1>1, <1>3, <2>2, ConcatAssociative
  <2>9. IsPrefix(e \o relayed', F)
    <3>1. e \o relayed' \in Seq(Byte)
      BY <1>4, <2>2, ConcatProperties
    <3> QED
      BY <1>10, <2>7, <2>8, <3>1, PrefixIsPart
  <2> QED
    BY <1>1, <1>6, <1>15, <2>1, <2>9 DEF RelayIntact, e, g
<1>16. RelayIntact'
  BY <1>14, <1>15
<1>18. TypeOK'
  <2>1. wire' \in [Side -> Seq(Byte)]
    <3>1. <<>> \in Seq(Byte)
      OBVIOUS
    <3> QED
      BY <1>1, <3>1 DEF IInv, TypeOK
  <2> QED
    BY <1>1, <1>4, <2>1 DEF IInv, TypeOK
<1>19. Progress'
  BY <1>1, <1>6 DEF IInv, Progress, Silent
<1>20. Unheard' /\ Padding' /\ Truthful' /\ Spelled'
  <2>1. Padding'
    BY <1>1, <1>2, <1>5, <1>6 DEF IInv, Padding
  <2> QED
    BY <1>1, <1>5, <2>1 DEF IInv, Unheard, Truthful, Spelled, Alike
<1>22. Watched("client")' => \E G \in Streams("client")' : Aligned("client", G)'
  <2>1. Past("server")' = Past("server") /\ Held("server")' = Held("server")
    BY <1>1 DEF Past, Held
  <2>2. Watched("client")' => Watched("client")
    BY <1>1 DEF Watched, Gone
  <2>3. Streams("client")' = Streams("client")
    BY <1>1 DEF Streams
  <2> QED
    BY <1>1, <1>2, <1>5, <2>1, <2>2, <2>3, StreamKept
<1>23. Aligned("server", F)'
  <2>1. Past("client")' = 2 + Len(g) + Len(relayed') /\ Held("client")' = <<>>
    BY <1>1, <1>6 DEF Past, Held, g
  <2>2. 2 + Len(g) + Len(relayed') = k + Len(w)
    BY <1>3, <1>4, <1>8
  <2>3. /\ Part(<<>>, F, k + Len(w)) /\ k + Len(w) + Len(<<>>) = k + Len(w)
    BY <1>12, <1>13 DEF Part
  <2>4. Goal("server", F)' = Goal("server", F)
    BY <1>1 DEF Goal
  <2> HIDE DEF k
  <2> QED
    BY <1>1, <1>2, <1>5, <1>13, <2>1, <2>2, <2>3, <2>4 DEF Aligned
<1> QED
  BY <1>1, <1>2, <1>10, <1>16, <1>18, <1>19, <1>20, <1>22, <1>23, ConfigKept
  DEF IInv, StreamAligned

\* A stream ends, and may lose what was on its way.
\* A stream ends, and may lose what was on its way.
LEMMA CutKeeps ==
  ASSUME IInv, UNCHANGED <<config, pc, todo, input, history>>,
         wire' \in [Side -> Seq(Byte)], end' \in [Side -> {"open", "finished", "lost"}],
         \A t \in Side : wire'[t] \in Prefixes(wire[t]),
         \A t \in Side : end'[t] = "open" => end[t] = "open" /\ wire'[t] = wire[t]
  PROVE  IInv'
<1> USE DEF config, input, history
<1>1. TypeOK'
  BY DEF IInv, TypeOK
<1>2. \A t \in Side : wire[t] = <<>> => wire'[t] = <<>>
  BY PartPrefix DEF IInv, TypeOK
<1>3. Progress' /\ Truthful' /\ Spelled' /\ RelayIntact'
  BY DEF IInv, Progress, Silent, Truthful, Spelled, Alike, RelayIntact
<1>4. Unheard' /\ Padding'
  BY <1>2, Ends DEF IInv, Unheard, Padding, Side
<1>5. ASSUME NEW t \in Side, Watched(t)'
      PROVE  \E F \in Streams(t)' : Aligned(t, F)'
  <2> DEFINE k == Past(Peer(t)) + Len(Held(Peer(t)))
  <2>1. Watched(t)
    BY <1>5 DEF Watched, Gone
  <2>2. PICK F \in Streams(t) : Aligned(t, F)
    BY <2>1 DEF IInv, StreamAligned
  <2>3. F \in Streams(t)' /\ F \in Seq(Byte)
    BY <2>2, StreamBytes DEF Streams, IInv
  <2>4. Past(Peer(t))' = Past(Peer(t)) /\ Held(Peer(t))' = Held(Peer(t))
    BY DEF Past, Held
  <2>5. k \in Nat /\ Part(wire[t], F, k)
    BY <2>2, Ends, PastHeld DEF IInv, Aligned
  <2>6. Part(wire'[t], F, k)
    BY <2>3, <2>5, PartPrefix DEF IInv, TypeOK
  <2>7. Goal(t, F)' = Goal(t, F)
    BY DEF Goal
  <2>8. Aligned(t, F)'
    BY <2>2, <2>4, <2>6, <2>7 DEF Aligned
  <2> QED
    BY <2>3, <2>8
<1> QED
  BY <1>1, <1>3, <1>4, <1>5, ConfigKept DEF IInv, StreamAligned

LEMMA WholeIsPrefix ==
  ASSUME NEW S, NEW q \in Seq(S)
  PROVE  q \in Prefixes(q)
<1>1. q = SubSeq(q, 1, Len(q)) /\ Len(q) \in 0..Len(q)
  BY SubSeqFull
<1> QED
  BY <1>1 DEF Prefixes

LEMMA DropKeeps ==
  ASSUME IInv, NEW s \in Side, Drop(s)
  PROVE  IInv'
<1>1. UNCHANGED <<config, pc, todo, input, history>> /\ end[s] = "open"
  BY DEF Drop
<1>2. PICK e \in {"finished", "lost"} : end' = [end EXCEPT ![s] = e]
  BY DEF Drop
<1>3. PICK rest \in Prefixes(wire[s]) : wire' = [wire EXCEPT ![s] = rest]
  <2>1. \A t \in Side : wire[t] \in Prefixes(wire[t])
    BY WholeIsPrefix DEF IInv, TypeOK
  <2>2. wire = [wire EXCEPT ![s] = wire[s]]
    BY DEF IInv, TypeOK
  <2>3. wire' = wire \/ \E rest \in Prefixes(wire[s]) : wire' = [wire EXCEPT ![s] = rest]
    BY DEF Drop
  <2> QED
    BY <2>1, <2>2, <2>3
<1>4. rest \in Seq(Byte) /\ \A t \in Side : wire[t] \in Prefixes(wire[t])
  BY PartPrefix, WholeIsPrefix DEF IInv, TypeOK
<1>5. wire' \in [Side -> Seq(Byte)] /\ end' \in [Side -> {"open", "finished", "lost"}]
  BY <1>2, <1>3, <1>4 DEF IInv, TypeOK
<1>6. \A t \in Side : wire'[t] \in Prefixes(wire[t])
  BY <1>3, <1>4 DEF IInv, TypeOK
<1>7. \A t \in Side : end'[t] = "open" => end[t] = "open" /\ wire'[t] = wire[t]
  BY <1>2, <1>3 DEF IInv, TypeOK
<1> QED
  BY <1>1, <1>5, <1>6, <1>7, CutKeeps

LEMMA LoseKeeps ==
  ASSUME IInv, Lose
  PROVE  IInv'
<1>1. UNCHANGED <<config, pc, todo, input, history>> /\ end' = [s \in Side |-> "lost"]
  BY DEF Lose
<1>2. PICK up \in Prefixes(wire["client"]) : \E down \in Prefixes(wire["server"]) :
        wire' = [client |-> up, server |-> down]
  BY DEF Lose
<1>3. PICK down \in Prefixes(wire["server"]) : wire' = [client |-> up, server |-> down]
  BY <1>2
<1>4. up \in Seq(Byte) /\ down \in Seq(Byte)
  BY PartPrefix DEF IInv, TypeOK, Side
<1>5. wire' \in [Side -> Seq(Byte)] /\ wire'["client"] = up /\ wire'["server"] = down
  BY <1>3, <1>4 DEF Side
<1>6. \A t \in Side : wire'[t] \in Prefixes(wire[t])
  BY <1>5 DEF Side
<1>7. /\ end' \in [Side -> {"open", "finished", "lost"}]
      /\ \A t \in Side : end'[t] = "open" => end[t] = "open" /\ wire'[t] = wire[t]
  BY <1>1
<1> QED
  BY <1>1, <1>5, <1>6, <1>7, CutKeeps

LEMMA NextKeeps ==
  ASSUME IInv, [Next]_vars
  PROVE  IInv'
<1>1. CASE UNCHANGED vars
  <2> USE <1>1 DEF vars
  <2>1. TypeOK' /\ Guarded' /\ Matched' /\ Progress' /\ Unheard'
    BY DEF IInv, TypeOK, Guarded, Matched, Progress, Silent, Unheard
  <2>2. Padding' /\ Truthful' /\ Spelled' /\ RelayIntact'
    BY DEF IInv, Padding, Truthful, Spelled, Alike, RelayIntact
  <2>3. ASSUME NEW t \in Side, Watched(t)'
        PROVE  \E F \in Streams(t)' : Aligned(t, F)'
    <3>1. Watched(t) /\ Streams(t)' = Streams(t)
      BY <2>3 DEF Watched, Gone, Streams
    <3>2. Past(Peer(t))' = Past(Peer(t)) /\ Held(Peer(t))' = Held(Peer(t))
      BY DEF Past, Held
    <3> QED
      BY <2>3, <3>1, <3>2, StreamKept
  <2> QED
    BY <2>1, <2>2, <2>3 DEF IInv, StreamAligned
<1>2. CASE Lose
  BY <1>2, LoseKeeps
<1>3. ASSUME NEW s \in Side, Leave(s)
      PROVE  IInv'
  BY <1>3, MoveKeeps DEF Leave
<1>4. ASSUME NEW s \in Side, Task(s)
      PROVE  IInv'
  <2>1. ASSUME NEW n \in 1..Len(todo[s]), Write(s, n)
        PROVE  IInv'
    BY <2>1, WriteKeeps
  <2>2. CASE Wrote(s)
    BY <2>2, WroteKeeps
  <2>3. CASE WriteFails(s)
    BY <2>3, MoveKeeps DEF WriteFails
  <2>4. CASE Read(s)
    BY <2>4, ReadKeeps
  <2>5. CASE Filled(s)
    BY <2>5, FilledKeeps
  <2>6. CASE AtEnd(s)
    BY <2>6, MoveKeeps DEF AtEnd
  <2>7. CASE Judge(s)
    <3>1. /\ pc[s] = "handed"
          /\ UNCHANGED <<config, todo, input, wire, end, history>>
          /\ \/ s = "server" /\ At(s, "dial")
             \/ s = "client" /\ IsSuccess(got[s][1]) /\ At(s, "relay")
             \/ At(s, "over")
      BY <2>7 DEF Judge
    <3>2. todo[s] = <<>>
      BY <3>1 DEF IInv, TypeOK, Writing
    <3>3. CASE s = "server" /\ At(s, "dial")
      BY <3>1, <3>3, MoveKeeps
    <3>4. CASE s = "client" /\ IsSuccess(got[s][1]) /\ At(s, "relay")
      BY <3>1, <3>2, <3>4, MoveKeeps
    <3>5. CASE At(s, "over")
      BY <3>1, <3>5, MoveKeeps
    <3> QED
      BY <3>1, <3>3, <3>4, <3>5
  <2>8. CASE Drop(s)
    BY <2>8, DropKeeps
  <2>9. CASE Start
    BY <2>9, StartKeeps
  <2>10. CASE Relay(s)
    BY <2>10, RelayKeeps, ServerRelayKeeps DEF Side
  <2>11. CASE Dial
    BY <2>11, DialKeeps
  <2> QED
    BY <1>4, <2>1, <2>2, <2>3, <2>4, <2>5, <2>6, <2>7, <2>8, <2>9, <2>10, <2>11 DEF Task
<1> QED
  BY <1>1, <1>2, <1>3, <1>4 DEF Next

LEMMA Invariance == Spec => []IInv
<1>1. Init => IInv
  BY Starts
<1>2. IInv /\ [Next]_vars => IInv'
  BY NextKeeps
<1> QED
  BY <1>1, <1>2, PTL DEF Spec

-----------------------------------------------------------------------------
\* Whatever the options of the two ends, every variable has its type: no buffer
\* holds more than its reader asked for, and no length is wider than two bytes.
THEOREM TypeCorrect == Spec => []TypeOK
<1>1. IInv => TypeOK
  BY DEF IInv
<1> QED
  BY <1>1, Invariance, PTL

\* main.rs, nativeStart and the handshakes: over TCP the server dials only if
\* neither end was given a secret, or else if a server without one takes a frame
\* out of the client's hello, which is what that hello begins with; for every
\* length of the hello, whatever bytes it has, and wherever the stream breaks.
THEOREM SecretsMatch == Spec => []NoDialAcrossSecrets
<1>1. IInv => NoDialAcrossSecrets
  <2> SUFFICES ASSUME IInv, pc["server"] = "dial" \/ sent["server"] # <<>>,
                      kind["server"] # "quic"
               PROVE  \/ \A s \in Side : ~guarded[s]
                      \/ /\ kind["client"] = "encrypted" /\ kind["server"] = "plain"
                         /\ Spells(drawn["client"], got["server"][1])
    BY DEF NoDialAcrossSecrets
  <2>1. got["server"] # <<>> /\ kind["server"] # "encrypted"
    BY DEF IInv, Progress, Unheard, Side
  <2>2. CASE kind["client"] = "encrypted"
    <3>1. kind["server"] = "plain" /\ ~Alike("server") /\ Peer("server") = "client"
      BY <2>1, <2>2 DEF IInv, Matched, Alike, Side, Peer
    <3> QED
      BY <2>1, <2>2, <3>1 DEF IInv, Spelled, Side
  <2>3. CASE kind["client"] # "encrypted"
    <3>1. \A s \in Side : kind[s] # "encrypted" /\ kind[s] # "quic"
      BY <2>1, <2>3 DEF IInv, Matched, Side, Peer
    <3> QED
      BY <3>1 DEF IInv, Guarded
  <2> QED
    BY <2>2, <2>3
<1> QED
  BY <1>1, Invariance, PTL

\* recv_frame takes the status and not a byte more: what the client relays to the
\* app is what the target sent, from its first byte, in whatever pieces it and the
\* status come; and nothing without a status of success, of the server or at the
\* beginning of its hello, the rest of which is then what is relayed.
THEOREM RelaysFromTheFirstByte == Spec => []RelayIntact
<1>1. IInv => RelayIntact
  BY DEF IInv
<1> QED
  BY <1>1, Invariance, PTL

-----------------------------------------------------------------------------
\* send_frame and recv_frame implement the pipe of trait Tunnel.

delivered == [s \in Side |-> IF Alike(s) /\ ~padded[s] THEN got[s] ELSE <<>>]
live == {s \in Side : ~Gone(s)}

\* A step that sends nothing and hands nothing over is none of the pipe's, or the
\* end that takes it drops its pipe.
LEMMA MoveIsPipe ==
  ASSUME IInv, NEW s \in Side, NEW q, At(s, q), ~Gone(s),
         UNCHANGED <<sent, delivered>>
  PROVE  Pipe!Next \/ UNCHANGED Pipe!pipeVars
<1> USE DEF Pipe!Side, Pipe!Peer, delivered
<1>1. pc'[s] = q /\ \A t \in Side : t # s => pc'[t] = pc[t]
  BY DEF At, IInv, TypeOK
<1>2. CASE q \in {"over", "left"}
  <2>1. live' = live \ {s} /\ s \in live
    BY <1>1, <1>2 DEF live, Gone
  <2>2. Pipe!Drop(s)
    BY <2>1 DEF Pipe!Drop, live
  <2> QED
    BY <2>2 DEF Pipe!Next, Side
<1>3. CASE q \notin {"over", "left"}
  <2>1. live' = live
    BY <1>1, <1>3 DEF live, Gone
  <2> QED
    BY <2>1 DEF Pipe!pipeVars, live
<1> QED
  BY <1>2, <1>3

LEMMA SendIsPipe ==
  ASSUME IInv, NEW s \in Side, NEW f \in Frame, SendFrame(s, f), sent[s] = <<>>, ~Gone(s),
         UNCHANGED <<got, padded, kind>>
  PROVE  Pipe!Next
<1> USE DEF Pipe!Side, Pipe!Peer
<1>1. pc'[s] = "send_frame" /\ \A t \in Side : t # s => pc'[t] = pc[t]
  BY DEF SendFrame, Emit, At, IInv, TypeOK
<1>2. live' = live /\ s \in live
  BY <1>1 DEF live, Gone
<1>3. Append(sent[s], f) = <<f>>
  OBVIOUS
<1>4. sent' = [sent EXCEPT ![s] = Append(@, f)]
  BY <1>3 DEF SendFrame
<1>5. delivered' = delivered
  BY DEF delivered, Alike
<1>6. Pipe!Send(s, f)
  BY <1>2, <1>4, <1>5 DEF Pipe!Send, live, delivered
<1> QED
  BY <1>6 DEF Pipe!Next, Side

LEMMA FilledIsPipe ==
  ASSUME IInv, IInv', NEW s \in Side, Filled(s)
  PROVE  Pipe!Next \/ UNCHANGED Pipe!pipeVars
<1> USE DEF Pipe!Side, Pipe!Peer
<1>1. /\ pc[s] \in Reading /\ Take(s, Padded(s))
      /\ padded' = [padded EXCEPT ![s] = @ \/ CutShort(s)]
      /\ kind' = kind /\ ~Gone(s)
  BY DEF Filled, Reading, Gone, config
<1>2. got[s] = <<>> /\ \A t \in Side : Alike(t)' <=> Alike(t)
  BY <1>1 DEF IInv, Progress, Before, Alike
<1>3. ASSUME got' = got
      PROVE  delivered' = delivered
  <2>1. \A t \in Side : t # s => padded'[t] = padded[t]
    BY <1>1 DEF IInv, TypeOK
  <2> QED
    BY <1>2, <1>3, <2>1 DEF delivered
<1>4. CASE pc[s] = "recv_hello" /\ s = "client"
  <2>1. got' = got
    BY <1>1, <1>4 DEF Take
  <2>2. PICK f \in Headers : SendFrame(s, f)
    BY <1>1, <1>4 DEF Take
  <2>3. sent[s] = <<>>
    BY <1>4 DEF IInv, Progress
  <2>4. padded' = padded
    <3>1. kind[s] = "encrypted"
      BY <1>4 DEF IInv, Progress
    <3>2. ~CutShort(s)
      BY <3>1 DEF CutShort
    <3> QED
      BY <1>1, <3>2 DEF IInv, TypeOK
  <2> QED
    BY <1>1, <2>1, <2>2, <2>3, <2>4, SendIsPipe DEF Frame
<1>5. CASE ~(pc[s] = "recv_hello" /\ s = "client") /\ got' = got
  <2>1. sent' = sent
    BY <1>1, <1>5 DEF Take, SendHello
  <2>2. \E q : At(s, q)
    BY <1>1, <1>5 DEF Take, SendHello, Emit, Expect
  <2> QED
    BY <1>1, <1>3, <1>5, <2>1, <2>2, MoveIsPipe
<1>6. CASE got' # got
  <2>1. At(s, "handed") /\ got' = [got EXCEPT ![s] = <<Padded(s)>>] /\ sent' = sent
    BY <1>1, <1>6 DEF Take
  <2>2. /\ got'[s] = <<Padded(s)>> /\ pc'[s] = "handed"
        /\ \A t \in Side : t # s => /\ got'[t] = got[t] /\ padded'[t] = padded[t]
                                   /\ pc'[t] = pc[t]
    BY <1>1, <2>1 DEF At, IInv, TypeOK
  <2>3. CASE padded'[s] \/ ~Alike(s)
    <3>1. delivered' = delivered
      BY <1>2, <2>2, <2>3 DEF delivered
    <3> QED
      BY <1>1, <2>1, <3>1, MoveIsPipe
  <2>4. CASE ~padded'[s] /\ Alike(s)
    <3>1. live' = live /\ s \in live
      BY <1>1, <2>2 DEF live, Gone
    <3>2. <<Padded(s)>> # <<>>
      OBVIOUS
    <3>3. sent[Peer(s)] = <<Padded(s)>>
      BY <1>2, <2>1, <2>2, <2>4, <3>2 DEF IInv, Truthful
    <3>4. delivered[s] = <<>> /\ delivered' = [delivered EXCEPT ![s] = <<Padded(s)>>]
      BY <1>2, <2>2, <2>4 DEF delivered
    <3>5. /\ Len(delivered[s]) = 0 /\ Len(sent[Peer(s)]) = 1 /\ 0 < 1 /\ 0 + 1 = 1
          /\ Append(<<>>, sent[Peer(s)][1]) = <<Padded(s)>>
      BY <3>3, <3>4
    <3>6. /\ Len(delivered[s]) < Len(sent[Peer(s)])
          /\ delivered' =
               [delivered EXCEPT ![s] = Append(@, sent[Peer(s)][Len(delivered[s]) + 1])]
      BY <3>4, <3>5
    <3>7. Pipe!Recv(s)
      BY <2>1, <3>1, <3>6 DEF Pipe!Recv, delivered, live, Peer
    <3> QED
      BY <3>7 DEF Pipe!Next, Side
  <2> QED
    BY <2>3, <2>4
<1> QED
  BY <1>4, <1>5, <1>6

\* Trait Tunnel, over TCP without a secret and over QUIC: in whatever pieces the
\* bytes come and wherever the stream breaks, an end is handed the frame its peer
\* sent or none, until it drops its pipe.  (Left out are the frames that QUIC makes
\* of an ended stream, and those that an end without a secret takes out of the
\* hello of one with a secret.)
THEOREM ImplementsPipe == Spec => PipeSpec
<1> USE DEF Pipe!Side, Pipe!Peer
<1>1. Init => Pipe!Init
  <2> SUFFICES ASSUME Init PROVE Pipe!Init
    OBVIOUS
  <2>1. /\ sent = [s \in Side |-> <<>>] /\ \A s \in Side : got[s] = <<>>
        /\ \A s \in Side : ~Gone(s)
    BY DEF Init, Gone, Side
  <2> QED
    BY <2>1 DEF Pipe!Init, Side
<1>2. IInv /\ IInv' /\ [Next]_vars => [Pipe!Next]_Pipe!pipeVars
  <2> SUFFICES ASSUME IInv, IInv', Next
               PROVE  Pipe!Next \/ UNCHANGED Pipe!pipeVars
    BY DEF vars, config, Pipe!pipeVars, Gone, Alike
  <2>1. ASSUME UNCHANGED <<kind, pc, sent, got, padded>>
        PROVE  UNCHANGED Pipe!pipeVars
    BY <2>1 DEF Pipe!pipeVars, Gone, Alike
  <2>2. ASSUME UNCHANGED <<kind, got, padded>>
        PROVE  delivered' = delivered
    BY <2>2 DEF delivered, Alike
  <2>3. CASE Lose
    BY <2>1, <2>3 DEF Lose, config, history
  <2>4. ASSUME NEW s \in Side, Leave(s)
        PROVE  Pipe!Next \/ UNCHANGED Pipe!pipeVars
    BY <2>2, <2>4, MoveIsPipe DEF Leave, config, history
  <2>5. ASSUME NEW s \in Side, Task(s)
        PROVE  Pipe!Next \/ UNCHANGED Pipe!pipeVars
    <3>1. CASE \E n \in 1..Len(todo[s]) : Write(s, n)
      BY <2>1, <3>1 DEF Write, config, history
    <3>2. CASE Wrote(s)
      <4>1. UNCHANGED <<kind, history>> /\ ~Gone(s)
        BY <3>2 DEF Wrote, config, Gone, Writing
      <4>2. \E q \in {"recv_hello", "relay", "send_raw", "over", "recv_len"} : At(s, q)
        BY <3>2 DEF Wrote, Expect, Emit
      <4> QED
        BY <2>2, <4>1, <4>2, MoveIsPipe DEF history
    <3>3. CASE WriteFails(s)
      BY <2>2, <3>3, MoveIsPipe DEF WriteFails, config, history, Gone, Writing
    <3>4. CASE Read(s)
      BY <2>1, <3>4 DEF Read, config, history
    <3>5. CASE Filled(s)
      BY <3>5, FilledIsPipe
    <3>6. CASE AtEnd(s)
      BY <2>2, <3>6, MoveIsPipe DEF AtEnd, config, history, Gone, Reading
    <3>7. CASE Judge(s)
      <4>1. UNCHANGED <<kind, history>> /\ ~Gone(s)
        BY <3>7 DEF Judge, config, Gone
      <4>2. \E q \in {"dial", "relay", "over"} : At(s, q)
        BY <3>7 DEF Judge
      <4> QED
        BY <2>2, <4>1, <4>2, MoveIsPipe DEF history
    <3>8. CASE Drop(s)
      BY <2>1, <3>8 DEF Drop, config, history
    <3>9. CASE Start
      <4>1. /\ pc["client"] = "connected" /\ sent["client"] = <<>>
            /\ "client" \in Side /\ ~Gone("client") /\ UNCHANGED <<kind, got, padded>>
        BY <3>9 DEF Start, config, IInv, Progress, Gone, Side
      <4>2. CASE kind["client"] = "encrypted"
        <5>1. At("client", "send_hello") /\ sent' = sent
          BY <3>9, <4>2 DEF Start, SendHello, Emit
        <5> QED
          BY <2>2, <4>1, <5>1, MoveIsPipe
      <4>3. CASE kind["client"] # "encrypted"
        <5>1. PICK h \in Headers : SendFrame("client", h)
          BY <3>9, <4>3 DEF Start
        <5> QED
          BY <4>1, <5>1, SendIsPipe DEF Frame
      <4> QED
        BY <4>2, <4>3
    <3>10. CASE Relay(s)
      BY <2>1, <3>10 DEF Relay, config
    <3>11. CASE Dial
      <4>1. /\ pc["server"] = "dial" /\ sent["server"] = <<>>
            /\ "server" \in Side /\ ~Gone("server") /\ UNCHANGED <<kind, got, padded>>
        BY <3>11 DEF Dial, config, IInv, Progress, Gone, Side
      <4>2. PICK f \in {<<0>>, <<1>>} : SendFrame("server", f)
        BY <3>11 DEF Dial
      <4> QED
        BY <4>1, <4>2, SendIsPipe DEF Frame
    <3> QED
      BY <2>5, <3>1, <3>2, <3>3, <3>4, <3>5, <3>6, <3>7, <3>8, <3>9, <3>10, <3>11 DEF Task
  <2> QED
    BY <2>3, <2>4, <2>5 DEF Next
<1> QED
  BY <1>1, <1>2, Invariance, PTL DEF Spec, PipeSpec, Pipe!Spec
=============================================================================

----------------------- MODULE EncryptedTunnelProofs -----------------------
(***************************************************************************)
(* Proofs about EncryptedTunnel, for every set of secrets, every width of  *)
(* the length prefix, every tag length and every buffer capacity.          *)
(***************************************************************************)
EXTENDS EncryptedTunnel, SequenceTheorems, TLAPS

-----------------------------------------------------------------------------
\* The inductive invariant: what was exchanged in the handshake, what has been
\* sealed, what has been opened, and (StreamAligned) what lies in between.

\* A side's copy of a hello is the one its drawer drew, and nothing is sealed,
\* sent or read under keys derived from a half-filled buffer.
Handshaken(s) == hello[s] = [o \in Side |-> o]

HelloOk(s) ==
  /\ \A o \in Side : hello[s][o] \in {"zero", o}
  /\ pc[s] \in {"frames", "relay"} => Handshaken(s)
  /\ ~Handshaken(s) =>
       /\ sealed[s] = <<>> /\ sent[s] = <<>> /\ out[s] = Idle
       /\ ctr[s][Peer(s)] = 0 /\ inp[s] = AwaitLen
  /\ pc[s] = "send_hello" =>
       hello[s] = [o \in Side |-> IF o = s \/ s = "client" THEN "zero" ELSE o]
  /\ pc[s] = "recv_hello" =>
       hello[s] = [o \in Side |-> IF o = s /\ s = "client" THEN o ELSE "zero"]

\* The counter of a side's own key is the number of frames it has written, and
\* the n-th seal was under nonce n - 1.
SealOk(s) ==
  /\ ctr[s][s] = Len(sent[s])
  /\ \/ out[s].step = "idle" /\ Len(sealed[s]) = Len(sent[s])
     \/ out[s].step # "idle" /\ Len(sealed[s]) = Len(sent[s]) + 1
  /\ \A i \in 1..Len(sealed[s]) :
       sealed[s][i] = [key |-> SessionKey(s, s), nonce |-> i - 1]

\* The counter of the peer's key is the number of frames opened, the frames
\* opened are the first ones the peer sent, and the length last read is that
\* of the peer's next frame.
Opened(s) == ctr[s][Peer(s)]

OpenOk(s) ==
  /\ Opened(s) <= Len(sent[Peer(s)])
  /\ \/ inp[s].step # "deliver" /\ Len(delivered[s]) = Opened(s)
     \/ /\ inp[s].step = "deliver" /\ Len(delivered[s]) + 1 = Opened(s)
        /\ inp[s].size = sent[Peer(s)][Opened(s)]
  /\ \A i \in 1..Len(delivered[s]) : delivered[s][i] = sent[Peer(s)][i]
  /\ inp[s].step = "body" =>
       \/ /\ Opened(s) < Len(sent[Peer(s)])
          /\ inp[s].size = LenField(sent[Peer(s)][Opened(s) + 1])
       \/ /\ Opened(s) = Len(sent[Peer(s)]) /\ out[Peer(s)].step = "body"
          /\ inp[s].size = LenField(out[Peer(s)].size)

\* Ends with different secrets never open anything.
SecretInv ==
  secret["client"] # secret["server"] => \A s \in Side : Opened(s) = 0

IInv ==
  /\ TypeOK
  /\ \A s \in Side : HelloOk(s) /\ SealOk(s) /\ OpenOk(s)
  /\ SecretInv /\ StreamAligned /\ InStep

-----------------------------------------------------------------------------
\* There are two sides, and each is the other's peer.
LEMMA PeerFacts ==
  /\ Side = {"client", "server"}
  /\ \A s \in Side :
       /\ Peer(s) \in Side /\ Peer(s) # s /\ Peer(Peer(s)) = s
       /\ \A t \in Side : t = s \/ t = Peer(s)
BY DEF Side, Peer

\* A frame that passes the size check has a length that fits the prefix and is
\* never below the tag.
LEMMA LenFieldFacts ==
  ASSUME NEW n \in 0..MAX_PLAINTEXT
  PROVE  LenField(n) = n + TagLen /\ LenField(n) \in TagLen..LenMod - 1
<1>1. LenMod \in Nat /\ TagLen \in Nat /\ n \in Nat /\ n + TagLen < LenMod
  BY SizeAssumption DEF MAX_PLAINTEXT
<1>2. \A a, b \in Nat : a < b => a % b = a
  OBVIOUS
<1>3. LenField(n) = n + TagLen
  BY <1>1, <1>2 DEF LenField
<1> QED
  BY <1>1, <1>3

LEMMA InitIInv == Init => IInv
<1> SUFFICES ASSUME Init PROVE IInv
  OBVIOUS
<1> USE PeerFacts, SizeAssumption DEF Init
<1>1. TypeOK
  BY DEF TypeOK, Drawn, Idle, AwaitLen, MAX_PLAINTEXT, Reason
<1>2. \A s \in Side : HelloOk(s)
  BY DEF HelloOk, Handshaken
<1>3. \A s \in Side : SealOk(s)
  BY DEF SealOk, Idle
<1>4. \A s \in Side : OpenOk(s)
  BY DEF OpenOk, Opened, AwaitLen
<1>5. SecretInv
  BY DEF SecretInv, Opened
<1>6. StreamAligned
  BY DEF StreamAligned, Aligned, Read, Written
<1>7. InStep
  BY DEF InStep
<1> QED
  BY <1>1, <1>2, <1>3, <1>4, <1>5, <1>6, <1>7 DEF IInv

-----------------------------------------------------------------------------
\* What a read finds at the head of its stream.

\* A payload that is written, or waits to be, fits a frame.
LEMMA SizeOfType ==
  ASSUME TypeOK, NEW s \in Side, NEW j \in 1..Len(sent[s]) + 1
  PROVE  SizeOf(s, j) \in 0..MAX_PLAINTEXT
<1>1. CASE j <= Len(sent[s])
  <2>1. sent[s] \in Seq(0..MAX_PLAINTEXT)
    BY DEF TypeOK
  <2>2. j \in 1..Len(sent[s])
    BY <1>1, <2>1
  <2> QED
    BY <1>1, <2>1, <2>2, ElementOfSeq DEF SizeOf
<1>2. CASE ~(j <= Len(sent[s]))
  BY <1>2 DEF SizeOf, TypeOK
<1> QED
  BY <1>1, <1>2

\* The counts the invariant is built from are numbers.
LEMMA CountTypes ==
  ASSUME TypeOK, NEW s \in Side
  PROVE  /\ Written(s) \in Nat /\ Read(s) \in Nat
         /\ Len(sent[s]) \in Nat /\ Len(wire[s]) \in Nat
         /\ Len(delivered[s]) \in Nat /\ Len(sealed[s]) \in Nat
         /\ ctr[s][s] \in Nat /\ ctr[s][Peer(s)] \in Nat
<1>1. /\ sent[s] \in Seq(0..MAX_PLAINTEXT) /\ wire[s] \in Seq(Unit)
      /\ delivered[s] \in Seq(0..MAX_PLAINTEXT)
      /\ sealed[s] \in Seq([key : Key, nonce : Nat])
  BY DEF TypeOK
<1>2. /\ Len(sent[s]) \in Nat /\ Len(wire[s]) \in Nat
      /\ Len(delivered[s]) \in Nat /\ Len(sealed[s]) \in Nat
  BY <1>1, LenProperties
<1>3. ctr[s][s] \in Nat /\ ctr[s][Peer(s)] \in Nat
  BY PeerFacts DEF TypeOK
<1>4. \A n \in Nat : 1 + 2 * n + 1 \in Nat /\ 1 + 2 * n + 0 \in Nat
  OBVIOUS
<1>5. Written(s) \in Nat
  BY <1>2, <1>4 DEF Written
<1>6. Read(s) \in Nat
  BY <1>3, <1>4 DEF Read
<1> QED
  BY <1>2, <1>3, <1>5, <1>6

LEMMA HeadUnit ==
  ASSUME IInv, NEW s \in Side, pc[Peer(s)] # "closed", wire[s] # <<>>
  PROVE  /\ IsUnit(s, Read(Peer(s)) + 1, Head(wire[s]))
         /\ Read(Peer(s)) + 1 <= Written(s)
<1>1. wire[s] \in Seq(Unit) /\ Aligned(s)
  BY DEF IInv, TypeOK, StreamAligned
<1>2. Head(wire[s]) = wire[s][1] /\ Len(wire[s]) \in Nat \ {0}
  BY <1>1, EmptySeq
<1>3. Read(Peer(s)) \in Nat /\ Written(s) \in Nat
  BY PeerFacts, CountTypes DEF IInv
<1> QED
  BY <1>1, <1>2, <1>3 DEF Aligned

\* In the handshake it is the peer's hello.
LEMMA HeadHello ==
  ASSUME IInv, NEW s \in Side, pc[s] = "recv_hello", wire[Peer(s)] # <<>>
  PROVE  Head(wire[Peer(s)]) = [kind |-> "hello", from |-> Peer(s)]
<1>1. hello[s][Peer(s)] = "zero"
  BY PeerFacts DEF IInv, HelloOk
<1>2. Read(s) = 0
  BY <1>1 DEF Read
<1> QED
  BY <1>2, PeerFacts, HeadUnit DEF IsUnit

\* After it, the length of the first frame not yet opened.
LEMMA HeadLen ==
  ASSUME IInv, NEW s \in Side, pc[s] \in {"frames", "relay"},
         inp[s].step = "len", wire[Peer(s)] # <<>>
  PROVE  LET j == ctr[s][Peer(s)] + 1
         IN  /\ j \in 1..Len(sent[Peer(s)]) + 1
             /\ j = Len(sent[Peer(s)]) + 1 => out[Peer(s)].step = "body"
             /\ Head(wire[Peer(s)]) =
                  [kind |-> "len", n |-> LenField(SizeOf(Peer(s), j))]
<1> DEFINE p == Peer(s)
           j == ctr[s][p] + 1
<1>1. ctr[s][p] \in Nat /\ Len(sent[p]) \in Nat /\ ctr[s][p] <= Len(sent[p])
  BY PeerFacts, CountTypes DEF IInv, OpenOk, Opened
<1>2. Read(s) + 1 = 2 * j
  <2>1. hello[s][p] # "zero"
    BY PeerFacts DEF IInv, HelloOk, Handshaken, Side
  <2> QED
    BY <1>1, <2>1 DEF Read
<1>3. IsUnit(p, 2 * j, Head(wire[p])) /\ 2 * j <= Written(p)
  BY <1>2, PeerFacts, HeadUnit
<1>4. j \in 1..Len(sent[p]) + 1
  BY <1>1
<1>5. ASSUME j = Len(sent[p]) + 1 PROVE out[p].step = "body"
  <2> SUFFICES ASSUME out[p].step # "body" PROVE FALSE
    OBVIOUS
  <2>1. Written(p) \in {0, 1 + 2 * Len(sent[p]) + 0}
    BY DEF Written
  <2> HIDE DEF p
  <2> QED
    BY <1>1, <1>3, <1>5, <2>1
<1> QED
  BY <1>3, <1>4, <1>5 DEF IsUnit

\* After a length, the ciphertext it announced, of a frame sent in full.
LEMMA HeadBody ==
  ASSUME IInv, NEW s \in Side, pc[s] \in {"frames", "relay"},
         inp[s].step = "body", wire[Peer(s)] # <<>>
  PROVE  LET p == Peer(s)
             j == ctr[s][p] + 1
         IN  /\ j \in 1..Len(sent[p])
             /\ Head(wire[p]) = [kind |-> "body", key |-> SessionKey(p, p),
                                 nonce |-> j - 1, size |-> sent[p][j]]
             /\ inp[s].size = LenField(sent[p][j])
<1> DEFINE p == Peer(s)
           j == ctr[s][p] + 1
<1>1. ctr[s][p] \in Nat /\ Len(sent[p]) \in Nat /\ ctr[s][p] <= Len(sent[p])
  BY PeerFacts, CountTypes DEF IInv, OpenOk, Opened
<1>2. Read(s) + 1 = 2 * j + 1
  <2>1. hello[s][p] # "zero"
    BY PeerFacts DEF IInv, HelloOk, Handshaken, Side
  <2> QED
    BY <1>1, <2>1 DEF Read
<1>3. IsUnit(p, 2 * j + 1, Head(wire[p])) /\ 2 * j + 1 <= Written(p)
  BY <1>2, PeerFacts, HeadUnit
<1>4. j \in 1..Len(sent[p])
  <2>1. Written(p) \in {0, 1 + 2 * Len(sent[p]) + 0, 1 + 2 * Len(sent[p]) + 1}
    BY DEF Written
  <2> HIDE DEF p
  <2> QED
    BY <1>1, <1>3, <2>1
<1>5. SizeOf(p, j) = sent[p][j]
  BY <1>4 DEF SizeOf
<1>6. inp[s].size = LenField(sent[p][j])
  <2>1. OpenOk(s) /\ ctr[s][p] # Len(sent[p])
    BY <1>1, <1>4 DEF IInv
  <2> QED
    BY <2>1 DEF OpenOk, Opened
<1>7. Head(wire[p]) = [kind |-> "body", key |-> SessionKey(p, p),
                       nonce |-> j - 1, size |-> SizeOf(p, j)]
  <2>1. j \in 1..Len(sent[p]) + 1
    BY <1>1, <1>4
  <2> HIDE DEF p, j
  <2> QED
    BY <1>3, <2>1 DEF IsUnit
<1> QED
  BY <1>4, <1>5, <1>6, <1>7

-----------------------------------------------------------------------------
\* How one step leaves a stream aligned.

\* What has been written of a stream is not rewritten by a step that keeps
\* the frames sent, the length of a half-written one, and the key -- unless no
\* more than the hello has been written.
LEMMA UnitsKept ==
  ASSUME TypeOK, NEW s \in Side, sent'[s] = sent[s],
         out[s].step = "body" => out'[s].size = out[s].size,
         Written(s) <= 1 \/ SessionKey(s, s)' = SessionKey(s, s)
  PROVE  \A k \in 1..Written(s) : \A u : IsUnit(s, k, u) => IsUnit(s, k, u)'
<1> SUFFICES ASSUME NEW k \in 1..Written(s), NEW u, IsUnit(s, k, u),
                    NEW j \in 1..Len(sent[s]) + 1
             PROVE  /\ k = 1 => u = [kind |-> "hello", from |-> s]
                    /\ k = 2 * j =>
                         u = [kind |-> "len", n |-> LenField(SizeOf(s, j)')]
                    /\ k = 2 * j + 1 =>
                         u = [kind |-> "body", key |-> SessionKey(s, s)',
                              nonce |-> j - 1, size |-> SizeOf(s, j)']
  BY DEF IsUnit, LenField
<1>1. Written(s) \in Nat /\ Len(sent[s]) \in Nat
  BY CountTypes
<1>2. /\ k = 1 => u = [kind |-> "hello", from |-> s]
      /\ k = 2 * j => u = [kind |-> "len", n |-> LenField(SizeOf(s, j))]
      /\ k = 2 * j + 1 => u = [kind |-> "body", key |-> SessionKey(s, s),
                              nonce |-> j - 1, size |-> SizeOf(s, j)]
  BY DEF IsUnit
<1>3. k \in {2 * j, 2 * j + 1} => SizeOf(s, j)' = SizeOf(s, j)
  <2>1. CASE j <= Len(sent[s])
    BY <2>1 DEF SizeOf
  <2>2. CASE j = Len(sent[s]) + 1
    <3>1. Written(s) \in {0, 1 + 2 * Len(sent[s]) + 0, 1 + 2 * Len(sent[s]) + 1}
      BY DEF Written
    <3>2. k \in {2 * j, 2 * j + 1} => Written(s) = 1 + 2 * Len(sent[s]) + 1
      BY <1>1, <2>2, <3>1, k <= Written(s)
    <3>3. 1 + 2 * Len(sent[s]) + 1 \notin {0, 1 + 2 * Len(sent[s]) + 0}
      BY <1>1
    <3>4. k \in {2 * j, 2 * j + 1} => out[s].step = "body"
      BY <3>2, <3>3 DEF Written
    <3> QED
      BY <1>1, <2>2, <3>4 DEF SizeOf
  <2> QED
    BY <1>1, <2>1, <2>2
<1>4. k \in {2 * j, 2 * j + 1} => SessionKey(s, s)' = SessionKey(s, s)
  BY <1>1
<1> QED
  BY <1>2, <1>3, <1>4

\* A step that moves neither end of a stream.
LEMMA AlignedKeep ==
  ASSUME TypeOK, NEW s \in Side, Aligned(s), wire'[s] = wire[s],
         Written(s)' = Written(s), Read(Peer(s))' = Read(Peer(s)),
         link' = "up" => link = "up",
         \A k \in 1..Written(s) : \A u : IsUnit(s, k, u) => IsUnit(s, k, u)'
  PROVE  Aligned(s)'
<1>1. /\ Read(Peer(s)) \in Nat /\ Written(s) \in Nat
      /\ Len(wire[s]) \in Nat
  BY PeerFacts, CountTypes
<1>2. \A i \in 1..Len(wire'[s]) : IsUnit(s, Read(Peer(s)) + i, wire[s][i])'
  <2> SUFFICES ASSUME NEW i \in 1..Len(wire[s])
               PROVE  IsUnit(s, Read(Peer(s)) + i, wire[s][i])'
    OBVIOUS
  <2>1. PICK k, u : k = Read(Peer(s)) + i /\ u = wire[s][i]
    OBVIOUS
  <2>2. IsUnit(s, k, u) /\ k \in 1..Written(s)
    BY <1>1, <2>1 DEF Aligned
  <2> QED
    BY <2>1, <2>2
<1> QED
  BY <1>2 DEF Aligned

\* A step that reads the head of a stream.
LEMMA AlignedPop ==
  ASSUME TypeOK, NEW s \in Side, Aligned(s),
         wire[s] # <<>>, wire'[s] = Tail(wire[s]),
         Written(s)' = Written(s), Read(Peer(s))' = Read(Peer(s)) + 1,
         link' = "up" => link = "up",
         \A k \in 1..Written(s) : \A u : IsUnit(s, k, u) => IsUnit(s, k, u)'
  PROVE  Aligned(s)'
<1>1. /\ Read(Peer(s)) \in Nat /\ Written(s) \in Nat
      /\ Len(wire[s]) \in Nat
  BY PeerFacts, CountTypes
<1>2. /\ Len(wire'[s]) = Len(wire[s]) - 1
      /\ \A i \in 1..Len(wire'[s]) : wire'[s][i] = wire[s][i + 1]
  <2>1. wire[s] \in Seq(Unit)
    BY DEF TypeOK
  <2> QED
    BY <2>1, HeadTailProperties
<1>3. \A i \in 1..Len(wire'[s]) : IsUnit(s, Read(Peer(s)) + i, wire[s][i])'
  <2> SUFFICES ASSUME NEW i \in 1..Len(wire'[s])
               PROVE  IsUnit(s, Read(Peer(s)) + i, wire[s][i])'
    OBVIOUS
  <2>1. PICK k, u : k = Read(Peer(s)) + (i + 1) /\ u = wire[s][i + 1]
    OBVIOUS
  <2>2. i + 1 \in 1..Len(wire[s]) /\ Read(Peer(s)) + 1 + i = k
    BY <1>1, <1>2, <2>1
  <2>3. IsUnit(s, k, u) /\ k \in 1..Written(s)
    BY <1>1, <2>1, <2>2 DEF Aligned
  <2> QED
    BY <1>2, <2>1, <2>2, <2>3
<1>4. Read(Peer(s)) + 1 + (Len(wire[s]) - 1) = Read(Peer(s)) + Len(wire[s])
  BY <1>1
<1> QED
  BY <1>2, <1>3, <1>4 DEF Aligned

\* A step that writes the next unit of a stream.
LEMMA AlignedPush ==
  ASSUME TypeOK, NEW s \in Side, Aligned(s), NEW v \in Unit, NEW n,
         link = "up", wire'[s] = Append(wire[s], v), n = Written(s) + 1,
         Written(s)' = n, Read(Peer(s))' = Read(Peer(s)),
         \A k \in 1..Written(s) : \A u : IsUnit(s, k, u) => IsUnit(s, k, u)',
         IsUnit(s, n, v)'
  PROVE  Aligned(s)'
<1>1. /\ Read(Peer(s)) \in Nat /\ Written(s) \in Nat
      /\ Len(wire[s]) \in Nat
  BY PeerFacts, CountTypes
<1>2. /\ Len(wire'[s]) = Len(wire[s]) + 1
      /\ \A i \in 1..Len(wire[s]) : wire'[s][i] = wire[s][i]
      /\ wire'[s][Len(wire[s]) + 1] = v
  <2>1. wire[s] \in Seq(Unit)
    BY DEF TypeOK
  <2> QED
    BY <2>1, AppendProperties
<1>3. Read(Peer(s)) + Len(wire[s]) = Written(s)
  BY DEF Aligned
<1>4. \A i \in 1..Len(wire'[s]) : IsUnit(s, Read(Peer(s)) + i, wire[s][i])'
  <2> SUFFICES ASSUME NEW i \in 1..Len(wire'[s])
               PROVE  IsUnit(s, Read(Peer(s)) + i, wire[s][i])'
    OBVIOUS
  <2>1. CASE i \in 1..Len(wire[s])
    <3>1. PICK k, u : k = Read(Peer(s)) + i /\ u = wire[s][i]
      OBVIOUS
    <3>2. IsUnit(s, k, u) /\ k \in 1..Written(s)
      BY <1>1, <2>1, <3>1 DEF Aligned
    <3> QED
      BY <1>2, <2>1, <3>1, <3>2
  <2>2. CASE i = Len(wire[s]) + 1
    <3>1. Read(Peer(s)) + i = n
      BY <1>1, <1>3, <2>2
    <3> QED
      BY <1>2, <2>2, <3>1
  <2> QED
    BY <1>1, <1>2, <2>1, <2>2
<1>5. Read(Peer(s)) + (Len(wire[s]) + 1) = n
  BY <1>1, <1>3
<1> QED
  BY <1>1, <1>2, <1>4, <1>5 DEF Aligned

-----------------------------------------------------------------------------
\* Every step preserves the invariant.

\* A side's part of the invariant stands as long as the step leaves alone the
\* state it speaks of.
LEMMA HelloKeep ==
  ASSUME NEW s \in Side, HelloOk(s), pc'[s] \in {pc[s], "closed"},
         hello'[s] = hello[s], sealed'[s] = sealed[s], sent'[s] = sent[s],
         out'[s] = out[s], ctr'[s] = ctr[s], inp'[s] = inp[s]
  PROVE  HelloOk(s)'
BY DEF HelloOk, Handshaken

LEMMA HelloDone ==
  ASSUME NEW s \in Side, Handshaken(s), hello'[s] = hello[s],
         pc'[s] \in {"frames", "relay", "closed"}
  PROVE  HelloOk(s)'
BY DEF HelloOk, Handshaken

LEMMA SealKeep ==
  ASSUME NEW s \in Side, SealOk(s), SessionKey(s, s)' = SessionKey(s, s),
         sealed'[s] = sealed[s], sent'[s] = sent[s],
         out'[s].step = out[s].step \/ (out[s].step = "len" /\ out'[s].step = "body"),
         ctr'[s][s] = ctr[s][s]
  PROVE  SealOk(s)'
BY DEF SealOk

LEMMA OpenKeep ==
  ASSUME NEW s \in Side, OpenOk(s),
         ctr'[s][Peer(s)] = ctr[s][Peer(s)], inp'[s] = inp[s],
         delivered'[s] = delivered[s], sent'[Peer(s)] = sent[Peer(s)],
         out[Peer(s)].step = "body" => out'[Peer(s)] = out[Peer(s)]
  PROVE  OpenOk(s)'
BY DEF OpenOk, Opened

\* The stream of a side the step leaves alone, read or not read.
LEMMA AlignedStill ==
  ASSUME TypeOK, NEW s \in Side, Aligned(s), wire'[s] = wire[s],
         link' = link, hello'[s][s] = hello[s][s], sent'[s] = sent[s],
         out'[s].step = out[s].step \/ "body" \notin {out[s].step, out'[s].step},
         out[s].step = "body" => out'[s].size = out[s].size,
         Written(s) <= 1 \/ SessionKey(s, s)' = SessionKey(s, s),
         Read(Peer(s))' = Read(Peer(s))
  PROVE  Aligned(s)'
<1>1. Written(s)' = Written(s)
  BY DEF Written
<1>2. \A k \in 1..Written(s) : \A u : IsUnit(s, k, u) => IsUnit(s, k, u)'
  BY UnitsKept
<1> QED
  BY <1>1, <1>2, AlignedKeep

\* A side that closes: nothing it did is undone, and its stream stands still.
LEMMA CloseStep ==
  ASSUME IInv, NEW s \in Side, NEW reason \in Reason, Close(s, reason),
         reason \in {"decrypt", "too_short"} => secret["client"] # secret["server"],
         UNCHANGED <<secret, hello, ctr, out, inp, link, sealed, sent, delivered>>,
         wire' \in [Side -> Seq(Unit)], wire'[s] = wire[s]
  PROVE  IInv'
<1>1. TypeOK'
  BY DEF IInv, TypeOK, Close, Reason
<1>2. \A t \in Side : pc'[t] \in {pc[t], "closed"} /\ (pc'[t] # "closed" => t # s)
  BY DEF IInv, TypeOK, Close
<1>3. \A t \in Side : HelloOk(t)'
  BY <1>2, HelloKeep DEF IInv
<1>4. \A t \in Side : SealOk(t)'
  BY SealKeep DEF IInv, SessionKey
<1>5. \A t \in Side : OpenOk(t)'
  BY OpenKeep DEF IInv
<1>6. SecretInv'
  BY DEF IInv, SecretInv, Opened
<1>7. StreamAligned'
  <2> SUFFICES ASSUME NEW t \in Side, pc'[Peer(t)] # "closed"
               PROVE  Aligned(t)'
    BY DEF StreamAligned
  <2>1. t = s /\ Aligned(t)
    BY <1>2, PeerFacts DEF IInv, StreamAligned
  <2>2. SessionKey(t, t)' = SessionKey(t, t) /\ Read(Peer(t))' = Read(Peer(t))
    BY DEF SessionKey, Read
  <2> QED
    BY <2>1, <2>2, AlignedStill DEF IInv
<1>8. InStep'
  BY DEF IInv, TypeOK, InStep, Close
<1> QED
  BY <1>1, <1>3, <1>4, <1>5, <1>6, <1>7, <1>8 DEF IInv

LEMMA SendHelloStep ==
  ASSUME IInv, NEW s \in Side, SendHello(s)
  PROVE  IInv'
<1>1. PICK v : v = [kind |-> "hello", from |-> s]
  OBVIOUS
<1>2. v \in Unit /\ wire' = [wire EXCEPT ![s] = Append(@, v)]
  BY <1>1 DEF SendHello, Unit, Drawn
<1>3. HelloOk(s) /\ hello[s][s] = "zero" /\ Written(s) = 0 /\ ~Handshaken(s)
  BY PeerFacts DEF IInv, HelloOk, SendHello, Written, Handshaken, Side
<1>4. TypeOK'
  <2>1. TypeOK
    BY DEF IInv
  <2>2. hello' \in [Side -> [Side -> Drawn]]
    BY <2>1 DEF TypeOK, SendHello, Drawn
  <2>3. wire' \in [Side -> Seq(Unit)]
    BY <1>2, <2>1, AppendProperties DEF TypeOK
  <2>4. pc' \in [Side -> {"send_hello", "recv_hello", "frames", "relay", "closed"}]
    BY <2>1 DEF TypeOK, SendHello
  <2> QED
    BY <2>1, <2>2, <2>3, <2>4 DEF TypeOK, SendHello
<1>5. \A t \in Side : t # s => /\ hello'[t] = hello[t] /\ pc'[t] = pc[t]
                            /\ wire'[t] = wire[t]
  BY DEF IInv, TypeOK, SendHello
<1>6. \A t \in Side : HelloOk(t)'
  <2>1. /\ hello'[s] = [hello[s] EXCEPT ![s] = s]
        /\ pc'[s] = IF s = "client" THEN "recv_hello" ELSE "frames"
        /\ hello[s] = [o \in Side |-> IF o = s \/ s = "client" THEN "zero" ELSE o]
    BY <1>3 DEF IInv, TypeOK, HelloOk, SendHello
  <2>2. hello'[s] = [o \in Side |-> IF o = s \/ s # "client" THEN o ELSE "zero"]
    BY <2>1 DEF Side
  <2>3. /\ sealed'[s] = <<>> /\ sent'[s] = <<>> /\ out'[s] = Idle
        /\ ctr'[s][Peer(s)] = 0 /\ inp'[s] = AwaitLen
    BY <1>3 DEF HelloOk, SendHello
  <2>4. HelloOk(s)'
    BY <2>1, <2>2, <2>3, PeerFacts DEF HelloOk, Handshaken
  <2>5. \A t \in Side : t # s => HelloOk(t)'
    BY <1>5, HelloKeep DEF IInv, SendHello
  <2> QED
    BY <2>4, <2>5
<1>7. \A t \in Side : SealOk(t)'
  <2>1. SealOk(s)'
    <3>1. sealed'[s] = <<>> /\ sent'[s] = <<>> /\ out'[s].step = "idle"
      BY <1>3 DEF HelloOk, SendHello, Idle
    <3>2. ctr'[s][s] = 0
      BY <1>3 DEF IInv, SealOk, HelloOk, SendHello
    <3> QED
      BY <3>1, <3>2 DEF SealOk
  <2>2. \A t \in Side : t # s => SealOk(t)'
    BY <1>5, SealKeep DEF IInv, SendHello, SessionKey
  <2> QED
    BY <2>1, <2>2
<1>8. \A t \in Side : OpenOk(t)'
  BY OpenKeep DEF IInv, SendHello
<1>9. SecretInv'
  BY DEF IInv, SecretInv, Opened, SendHello
<1>10. StreamAligned'
  <2> SUFFICES ASSUME NEW t \in Side, pc'[Peer(t)] # "closed"
               PROVE  Aligned(t)'
    BY DEF StreamAligned
  <2>1. Aligned(t)
    BY PeerFacts DEF IInv, TypeOK, StreamAligned, SendHello
  <2>2. Read(Peer(t))' = Read(Peer(t))
    BY PeerFacts DEF IInv, TypeOK, Read, SendHello
  <2>3. CASE t = s
    <3>1. \A k \in 1..Written(s) : \A u : IsUnit(s, k, u) => IsUnit(s, k, u)'
      BY <1>3
    <3>2. hello'[s][s] = s /\ Len(sent'[s]) = 0 /\ out'[s] = Idle
      BY <1>3 DEF IInv, TypeOK, HelloOk, SendHello
    <3>3. Written(s)' = 1
      BY <3>2 DEF Written, Idle, Side
    <3>4. IsUnit(s, 1, v)'
      BY <1>1, <3>2 DEF IsUnit
    <3>5. link = "up" /\ wire'[s] = Append(wire[s], v)
      BY <1>2 DEF SendHello, Writable, IInv, TypeOK
    <3> QED
      BY <1>2, <1>3, <2>1, <2>2, <2>3, <3>1, <3>3, <3>4, <3>5, AlignedPush
         DEF IInv
  <2>4. CASE t # s
    BY <1>5, <2>1, <2>2, <2>4, AlignedStill DEF IInv, SendHello, SessionKey
  <2> QED
    BY <2>3, <2>4
<1>11. InStep'
  BY DEF IInv, InStep, SendHello
<1> QED
  BY <1>4, <1>6, <1>7, <1>8, <1>9, <1>10, <1>11 DEF IInv

LEMMA RecvHelloStep ==
  ASSUME IInv, NEW s \in Side, RecvHello(s)
  PROVE  IInv'
<1> DEFINE p == Peer(s)
<1>1. /\ hello' = [hello EXCEPT ![s][p] = p]
      /\ wire' = [wire EXCEPT ![p] = Tail(@)] /\ wire[p] # <<>>
      /\ pc[s] = "recv_hello"
  <2>1. pc[s] = "recv_hello" /\ wire[p] # <<>>
    BY DEF RecvHello
  <2>2. Head(wire[p]) = [kind |-> "hello", from |-> p]
    BY <2>1, HeadHello
  <2>3. Head(wire[p]).from = p
    BY <2>2
  <2> QED
    BY <2>1, <2>3 DEF RecvHello
<1>2. /\ p \in Side /\ p # s /\ Peer(p) = s /\ \A t \in Side : t = s \/ t = p
      /\ \A t \in Side : Peer(t) \in Side
  BY PeerFacts
<1>3. HelloOk(s) /\ SealOk(s) /\ OpenOk(s) /\ TypeOK
  BY DEF IInv
<1>4. /\ hello[s] = [o \in Side |-> IF o = s /\ s = "client" THEN o ELSE "zero"]
      /\ ~Handshaken(s) /\ hello[s][p] = "zero"
      /\ sealed[s] = <<>> /\ sent[s] = <<>> /\ out[s] = Idle
      /\ ctr[s][p] = 0 /\ inp[s] = AwaitLen
  BY <1>1, <1>2, <1>3 DEF HelloOk, Handshaken, Side
<1>5. hello'[s] = [o \in Side |-> IF s = "client" \/ o = p THEN o ELSE "zero"]
  BY <1>1, <1>2, <1>3, <1>4 DEF TypeOK
<1>6. /\ hello'[p] = hello[p] /\ pc'[p] = pc[p] /\ wire'[s] = wire[s]
      /\ pc'[s] = IF s = "client" THEN "frames" ELSE "send_hello"
      /\ wire'[p] = Tail(wire[p])
  BY <1>1, <1>2, <1>3 DEF TypeOK, RecvHello
<1>7. TypeOK'
  <2>1. hello' \in [Side -> [Side -> Drawn]]
    BY <1>1, <1>2, <1>3 DEF TypeOK, Drawn
  <2>2. wire' \in [Side -> Seq(Unit)]
    BY <1>1, <1>3, HeadTailProperties DEF TypeOK
  <2>3. pc' \in [Side -> {"send_hello", "recv_hello", "frames", "relay", "closed"}]
    BY <1>3 DEF TypeOK, RecvHello
  <2> QED
    BY <1>3, <2>1, <2>2, <2>3 DEF TypeOK, RecvHello
<1>8. \A t \in Side : HelloOk(t)'
  <2>1. HelloOk(s)'
    <3>1. /\ sealed'[s] = <<>> /\ sent'[s] = <<>> /\ out'[s] = Idle
          /\ ctr'[s][p] = 0 /\ inp'[s] = AwaitLen
      BY <1>4 DEF RecvHello
    <3>2. \A o \in Side : hello'[s][o] \in {"zero", o}
      BY <1>5
    <3>3. pc'[s] = "frames" => Handshaken(s)'
      BY <1>5, <1>6 DEF Handshaken
    <3>4. pc'[s] = "send_hello" =>
            hello'[s] = [o \in Side |-> IF o = s \/ s = "client" THEN "zero" ELSE o]
      BY <1>2, <1>5, <1>6
    <3> QED
      BY <1>6, <3>1, <3>2, <3>3, <3>4 DEF HelloOk
  <2>2. HelloOk(p)'
    BY <1>2, <1>6, HelloKeep DEF IInv, RecvHello
  <2> QED
    BY <1>2, <2>1, <2>2
<1>9. \A t \in Side : SealOk(t)'
  <2>1. SealOk(s)'
    BY <1>3, <1>4 DEF SealOk, RecvHello
  <2>2. SealOk(p)'
    BY <1>2, <1>6, SealKeep DEF IInv, RecvHello, SessionKey
  <2> QED
    BY <1>2, <2>1, <2>2
<1>10. \A t \in Side : OpenOk(t)'
  BY OpenKeep DEF IInv, RecvHello
<1>11. SecretInv'
  BY DEF IInv, SecretInv, Opened, RecvHello
<1>12. StreamAligned'
  <2> SUFFICES ASSUME NEW t \in Side, pc'[Peer(t)] # "closed"
               PROVE  Aligned(t)'
    BY DEF StreamAligned
  <2>1. Aligned(t)
    BY <1>1, <1>2, <1>6 DEF IInv, StreamAligned
  <2>2. CASE t = s
    <3>1. Written(s) <= 1
      BY <1>4 DEF Written, Idle
    <3>2. hello'[s][s] = hello[s][s]
      BY <1>1, <1>2, <1>3 DEF TypeOK
    <3>3. Read(p)' = Read(p)
      BY <1>6 DEF Read, RecvHello
    <3> QED
      BY <1>6, <2>1, <2>2, <3>1, <3>2, <3>3, AlignedStill DEF IInv, RecvHello
  <2>3. CASE t = p
    <3>1. Read(s) = 0 /\ Read(s)' = 1
      BY <1>1, <1>2, <1>4, <1>5 DEF Read, RecvHello, AwaitLen, Side
    <3>2. Written(p)' = Written(p) /\ SessionKey(p, p)' = SessionKey(p, p)
      BY <1>6 DEF Written, SessionKey, RecvHello
    <3>3. \A k \in 1..Written(p) : \A u : IsUnit(p, k, u) => IsUnit(p, k, u)'
      BY <1>2, <1>3, <3>2, UnitsKept DEF RecvHello
    <3>4. Read(Peer(p))' = Read(Peer(p)) + 1
      BY <1>2, <3>1
    <3> QED
      BY <1>1, <1>2, <1>3, <1>6, <2>1, <2>3, <3>2, <3>3, <3>4, AlignedPop
         DEF RecvHello
  <2> QED
    BY <1>2, <2>2, <2>3
<1>13. InStep'
  BY DEF IInv, InStep, RecvHello
<1> QED
  BY <1>7, <1>8, <1>9, <1>10, <1>11, <1>12, <1>13 DEF IInv

LEMMA StartRelayStep ==
  ASSUME IInv, NEW s \in Side, StartRelay(s)
  PROVE  IInv'
<1>1. TypeOK /\ pc[s] = "frames" /\ Handshaken(s)
  BY DEF IInv, HelloOk, StartRelay
<1>2. /\ pc'[s] = "relay" /\ \A t \in Side : t # s => pc'[t] = pc[t]
      /\ \A t \in Side : pc'[t] # "closed" => pc[t] # "closed"
  BY <1>1 DEF TypeOK, StartRelay
<1>3. TypeOK'
  BY <1>1 DEF TypeOK, StartRelay
<1>4. \A t \in Side : HelloOk(t)'
  BY <1>1, <1>2, HelloKeep, HelloDone DEF IInv, StartRelay
<1>5. \A t \in Side : SealOk(t)' /\ OpenOk(t)'
  BY SealKeep, OpenKeep DEF IInv, StartRelay, SessionKey
<1>6. StreamAligned'
  <2> SUFFICES ASSUME NEW t \in Side, pc'[Peer(t)] # "closed"
               PROVE  Aligned(t)'
    BY DEF StreamAligned
  <2>1. Aligned(t) /\ Read(Peer(t))' = Read(Peer(t))
    BY <1>2, PeerFacts DEF IInv, StreamAligned, Read, StartRelay
  <2> QED
    BY <2>1, AlignedStill DEF IInv, StartRelay, SessionKey
<1>7. SecretInv' /\ InStep'
  BY DEF IInv, SecretInv, Opened, InStep, StartRelay
<1> QED
  BY <1>3, <1>4, <1>5, <1>6, <1>7 DEF IInv

LEMMA SealStep ==
  ASSUME IInv, NEW s \in Side, NEW n \in Sizes, Seal(s, n)
  PROVE  IInv'
<1>1. TypeOK /\ pc[s] \in {"frames", "relay"} /\ Handshaken(s) /\ out[s] = Idle
  BY DEF IInv, HelloOk, Seal, MaySend
<1>2. n \in 0..MAX_PLAINTEXT
  BY SizeAssumption DEF Seal, FitsFrame, MAX_PLAINTEXT
<1>3. /\ out' = [out EXCEPT ![s] = [step |-> "len", size |-> n]]
      /\ sealed' = [sealed EXCEPT
           ![s] = Append(@, [key |-> SessionKey(s, s), nonce |-> ctr[s][s]])]
  BY DEF Seal
<1>4. /\ out'[s] = [step |-> "len", size |-> n]
      /\ sealed'[s] =
           Append(sealed[s], [key |-> SessionKey(s, s), nonce |-> ctr[s][s]])
      /\ \A t \in Side : t # s => out'[t] = out[t] /\ sealed'[t] = sealed[t]
  BY <1>1, <1>3 DEF TypeOK
<1>5. PICK v : v = [key |-> SessionKey(s, s), nonce |-> ctr[s][s]]
  OBVIOUS
<1>6. v \in [key : Key, nonce : Nat]
  <2>1. SessionKey(s, s) \in Key
    BY <1>1 DEF TypeOK, SessionKey, DeriveKey, Key, Side
  <2> QED
    BY <1>1, <1>5, <2>1 DEF TypeOK
<1>7. TypeOK'
  <2>1. out' \in [Side -> [step : {"idle", "len", "body"}, size : 0..MAX_PLAINTEXT]]
    BY <1>1, <1>2, <1>3 DEF TypeOK
  <2>2. sealed' \in [Side -> Seq([key : Key, nonce : Nat])]
    BY <1>1, <1>3, <1>5, <1>6, AppendProperties DEF TypeOK
  <2> QED
    BY <1>1, <2>1, <2>2 DEF TypeOK, Seal
<1>8. \A t \in Side : HelloOk(t)'
  BY <1>1, <1>4, HelloKeep, HelloDone DEF IInv, Seal
<1>9. \A t \in Side : SealOk(t)'
  <2>1. SealOk(s)'
    <3>1. /\ Len(sealed[s]) = Len(sent[s]) /\ ctr[s][s] = Len(sent[s])
          /\ Len(sealed[s]) \in Nat
          /\ \A i \in 1..Len(sealed[s]) :
               sealed[s][i] = [key |-> SessionKey(s, s), nonce |-> i - 1]
      BY <1>1, CountTypes DEF IInv, SealOk, Idle
    <3>2. /\ Len(sealed'[s]) = Len(sealed[s]) + 1
          /\ \A i \in 1..Len(sealed[s]) : sealed'[s][i] = sealed[s][i]
          /\ sealed'[s][Len(sealed[s]) + 1] = v
      BY <1>1, <1>4, <1>5, <1>6, AppendProperties DEF TypeOK
    <3>3. v = [key |-> SessionKey(s, s), nonce |-> (Len(sealed[s]) + 1) - 1]
      BY <1>5, <3>1
    <3>4. SessionKey(s, s)' = SessionKey(s, s)
      BY DEF SessionKey, Seal
    <3>5. \A i \in 1..Len(sealed'[s]) :
            sealed'[s][i] = [key |-> SessionKey(s, s), nonce |-> i - 1]
      BY <3>1, <3>2, <3>3
    <3>6. out'[s].step = "len" /\ sent'[s] = sent[s] /\ ctr'[s][s] = ctr[s][s]
      BY <1>4 DEF Seal
    <3> QED
      BY <3>1, <3>2, <3>4, <3>5, <3>6 DEF SealOk
  <2>2. \A t \in Side : t # s => SealOk(t)'
    BY <1>4, SealKeep DEF IInv, Seal, SessionKey
  <2> QED
    BY <2>1, <2>2
<1>10. \A t \in Side : OpenOk(t)'
  BY <1>1, <1>4, PeerFacts, OpenKeep DEF IInv, Seal, Idle
<1>11. StreamAligned'
  <2> SUFFICES ASSUME NEW t \in Side, pc'[Peer(t)] # "closed"
               PROVE  Aligned(t)'
    BY DEF StreamAligned
  <2>1. Aligned(t) /\ Read(Peer(t))' = Read(Peer(t))
    BY DEF IInv, StreamAligned, Read, Seal
  <2>2. /\ out'[t].step = out[t].step \/ "body" \notin {out[t].step, out'[t].step}
        /\ out[t].step = "body" => out'[t].size = out[t].size
    BY <1>1, <1>4 DEF Idle
  <2> QED
    BY <2>1, <2>2, AlignedStill DEF IInv, Seal, SessionKey
<1>12. SecretInv' /\ InStep'
  BY DEF IInv, SecretInv, Opened, InStep, Seal
<1> QED
  BY <1>7, <1>8, <1>9, <1>10, <1>11, <1>12 DEF IInv

LEMMA WriteLenStep ==
  ASSUME IInv, NEW s \in Side, WriteLen(s)
  PROVE  IInv'
<1>1. /\ TypeOK /\ pc[s] \in {"frames", "relay"} /\ Handshaken(s)
      /\ out[s].step = "len" /\ link = "up"
  BY DEF IInv, HelloOk, WriteLen, Writable
<1>2. PICK v, n : /\ v = [kind |-> "len", n |-> LenField(out[s].size)]
                  /\ n = Written(s) + 1
  OBVIOUS
<1>3. /\ out' = [out EXCEPT ![s].step = "body"]
      /\ wire' = [wire EXCEPT ![s] = Append(@, v)]
  BY <1>2 DEF WriteLen
<1>4. /\ out'[s].step = "body" /\ out'[s].size = out[s].size
      /\ wire'[s] = Append(wire[s], v)
      /\ \A t \in Side : t # s => out'[t] = out[t] /\ wire'[t] = wire[t]
  BY <1>1, <1>3 DEF TypeOK
<1>5. v \in Unit
  <2>1. out[s].size \in 0..MAX_PLAINTEXT
    BY <1>1 DEF TypeOK
  <2>2. LenField(out[s].size) \in 0..LenMod - 1
    BY <2>1, LenFieldFacts, SizeAssumption
  <2> QED
    BY <1>2, <2>2 DEF Unit
<1>6. TypeOK'
  <2>1. out' \in [Side -> [step : {"idle", "len", "body"}, size : 0..MAX_PLAINTEXT]]
    BY <1>1, <1>3 DEF TypeOK
  <2>2. wire' \in [Side -> Seq(Unit)]
    BY <1>1, <1>3, <1>5, AppendProperties DEF TypeOK
  <2> QED
    BY <1>1, <2>1, <2>2 DEF TypeOK, WriteLen
<1>7. \A t \in Side : HelloOk(t)'
  BY <1>1, <1>4, HelloKeep, HelloDone DEF IInv, WriteLen
<1>8. \A t \in Side : SealOk(t)'
  BY <1>1, <1>4, SealKeep DEF IInv, WriteLen, SessionKey
<1>9. \A t \in Side : OpenOk(t)'
  BY <1>1, <1>4, PeerFacts, OpenKeep DEF IInv, WriteLen
<1>10. StreamAligned'
  <2> SUFFICES ASSUME NEW t \in Side, pc'[Peer(t)] # "closed"
               PROVE  Aligned(t)'
    BY DEF StreamAligned
  <2>1. Aligned(t) /\ Read(Peer(t))' = Read(Peer(t))
    BY DEF IInv, StreamAligned, Read, WriteLen
  <2>2. CASE t = s
    <3>1. /\ Len(sent[s]) \in Nat /\ hello[s][s] # "zero"
          /\ Written(s) = 1 + 2 * Len(sent[s])
      <4>1. hello[s][s] # "zero" /\ Len(sent[s]) \in Nat
        BY <1>1, CountTypes DEF Handshaken, Side
      <4> QED
        BY <1>1, <4>1 DEF Written
    <3>2. n = 1 + 2 * Len(sent[s]) + 1 /\ Written(s)' = n
      BY <1>2, <1>4, <3>1 DEF Written, WriteLen
    <3>3. \A k \in 1..Written(s) : \A u : IsUnit(s, k, u) => IsUnit(s, k, u)'
      BY <1>1, UnitsKept DEF WriteLen, SessionKey
    <3>4. IsUnit(s, n, v)'
      <4> SUFFICES ASSUME NEW j \in 1..Len(sent[s]) + 1
                   PROVE  /\ n # 1 /\ n # 2 * j + 1
                          /\ n = 2 * j => v = [kind |-> "len", n |-> LenField(SizeOf(s, j)')]
        BY DEF IsUnit, LenField, WriteLen
      <4>1. n # 1 /\ n # 2 * j + 1 /\ (n = 2 * j => j = Len(sent[s]) + 1)
        BY <3>1, <3>2
      <4>2. j = Len(sent[s]) + 1 => SizeOf(s, j)' = out[s].size
        BY <1>4, <3>1 DEF SizeOf, WriteLen
      <4> QED
        BY <1>2, <4>1, <4>2
    <3> QED
      BY <1>1, <1>2, <1>4, <1>5, <2>1, <2>2, <3>2, <3>3, <3>4, AlignedPush
  <2>3. CASE t # s
    BY <1>4, <2>1, <2>3, AlignedStill DEF IInv, WriteLen, SessionKey
  <2> QED
    BY <2>2, <2>3
<1>11. SecretInv' /\ InStep'
  BY DEF IInv, SecretInv, Opened, InStep, WriteLen
<1> QED
  BY <1>6, <1>7, <1>8, <1>9, <1>10, <1>11 DEF IInv

LEMMA WriteBodyStep ==
  ASSUME IInv, NEW s \in Side, WriteBody(s)
  PROVE  IInv'
<1>1. /\ TypeOK /\ pc[s] \in {"frames", "relay"} /\ Handshaken(s)
      /\ out[s].step = "body" /\ link = "up" /\ SealOk(s)
  BY DEF IInv, HelloOk, WriteBody, Writable
<1>2. PICK v, n, z : /\ z = out[s].size /\ n = Written(s) + 1
                     /\ v = [kind |-> "body", key |-> SessionKey(s, s),
                             nonce |-> ctr[s][s], size |-> z]
  OBVIOUS
<1>3. /\ out' = [out EXCEPT ![s] = Idle] /\ sent' = [sent EXCEPT ![s] = Append(@, z)]
      /\ wire' = [wire EXCEPT ![s] = Append(@, v)]
      /\ ctr' = [ctr EXCEPT ![s][s] = @ + 1]
  BY <1>2 DEF WriteBody
<1>4. /\ out'[s] = Idle /\ wire'[s] = Append(wire[s], v)
      /\ sent'[s] = Append(sent[s], z) /\ ctr'[s][s] = ctr[s][s] + 1
      /\ ctr'[s][Peer(s)] = ctr[s][Peer(s)]
      /\ \A t \in Side : t # s => /\ out'[t] = out[t] /\ wire'[t] = wire[t]
                                 /\ sent'[t] = sent[t] /\ ctr'[t] = ctr[t]
  BY <1>1, <1>3, PeerFacts DEF TypeOK
<1>5. z \in 0..MAX_PLAINTEXT /\ v \in Unit
  <2>1. z \in 0..MAX_PLAINTEXT /\ ctr[s][s] \in Nat
    BY <1>1, <1>2 DEF TypeOK
  <2>2. SessionKey(s, s) \in Key
    BY <1>1 DEF TypeOK, SessionKey, DeriveKey, Key, Side
  <2> QED
    BY <1>2, <2>1, <2>2 DEF Unit
<1>6. /\ Len(sent'[s]) = Len(sent[s]) + 1 /\ Len(sent[s]) \in Nat
      /\ ctr[s][s] = Len(sent[s])
      /\ \A i \in 1..Len(sent[s]) : sent'[s][i] = sent[s][i]
      /\ sent'[s][Len(sent[s]) + 1] = z
  <2>1. sent[s] \in Seq(0..MAX_PLAINTEXT)
    BY <1>1 DEF TypeOK
  <2> QED
    BY <1>1, <1>4, <1>5, <2>1, AppendProperties, LenProperties DEF SealOk
<1>7. TypeOK'
  <2>1. out' \in [Side -> [step : {"idle", "len", "body"}, size : 0..MAX_PLAINTEXT]]
    BY <1>1, <1>3, SizeAssumption DEF TypeOK, Idle, MAX_PLAINTEXT
  <2>2. wire' \in [Side -> Seq(Unit)] /\ sent' \in [Side -> Seq(0..MAX_PLAINTEXT)]
    BY <1>1, <1>3, <1>5, AppendProperties DEF TypeOK
  <2>3. ctr' \in [Side -> [Side -> Nat]]
    BY <1>1, <1>3 DEF TypeOK
  <2> QED
    BY <1>1, <2>1, <2>2, <2>3 DEF TypeOK, WriteBody
<1>8. \A t \in Side : HelloOk(t)'
  BY <1>1, <1>4, HelloKeep, HelloDone DEF IInv, WriteBody
<1>9. \A t \in Side : SealOk(t)'
  <2>1. SealOk(s)'
    BY <1>1, <1>4, <1>6 DEF SealOk, WriteBody, SessionKey, Idle
  <2>2. \A t \in Side : t # s => SealOk(t)'
    BY <1>4, SealKeep DEF IInv, WriteBody, SessionKey
  <2> QED
    BY <2>1, <2>2
<1>10. \A t \in Side : OpenOk(t)'
  <2>1. OpenOk(s)'
    BY <1>4, PeerFacts, OpenKeep DEF IInv, WriteBody
  <2>2. ASSUME NEW t \in Side, t # s PROVE OpenOk(t)'
    <3>1. /\ Peer(t) = s /\ ctr'[t] = ctr[t] /\ inp'[t] = inp[t]
          /\ delivered'[t] = delivered[t] /\ OpenOk(t)
          /\ Opened(t) \in Nat /\ Opened(t)' = Opened(t) /\ Len(delivered[t]) \in Nat
      BY <1>1, <1>4, <2>2, PeerFacts, CountTypes DEF IInv, WriteBody, Opened
    <3>2. Opened(t)' <= Len(sent'[s])
      BY <1>6, <3>1 DEF OpenOk
    <3>3. \/ inp'[t].step # "deliver" /\ Len(delivered'[t]) = Opened(t)'
          \/ /\ inp'[t].step = "deliver" /\ Len(delivered'[t]) + 1 = Opened(t)'
             /\ inp'[t].size = sent'[s][Opened(t)']
      BY <1>6, <3>1 DEF OpenOk
    <3>4. \A i \in 1..Len(delivered'[t]) : delivered'[t][i] = sent'[s][i]
      BY <1>6, <3>1 DEF OpenOk
    <3>5. inp'[t].step = "body" =>
            /\ Opened(t)' < Len(sent'[s])
            /\ inp'[t].size = LenField(sent'[s][Opened(t)' + 1])
      <4> SUFFICES ASSUME inp[t].step = "body"
                   PROVE  /\ Opened(t) < Len(sent'[s])
                          /\ inp[t].size = LenField(sent'[s][Opened(t) + 1])
        BY <3>1
      <4>1. CASE Opened(t) < Len(sent[s])
        BY <1>6, <3>1, <4>1 DEF OpenOk
      <4>2. CASE Opened(t) = Len(sent[s])
        BY <1>2, <1>6, <3>1, <4>2 DEF OpenOk
      <4> QED
        BY <3>1, <4>1, <4>2 DEF OpenOk
    <3> QED
      BY <3>1, <3>2, <3>3, <3>4, <3>5 DEF OpenOk, LenField
  <2> QED
    BY <2>1, <2>2
<1>11. StreamAligned'
  <2> SUFFICES ASSUME NEW t \in Side, pc'[Peer(t)] # "closed"
               PROVE  Aligned(t)'
    BY DEF StreamAligned
  <2>1. Aligned(t) /\ Read(Peer(t))' = Read(Peer(t))
    BY <1>4, PeerFacts DEF IInv, StreamAligned, Read, WriteBody
  <2>2. CASE t = s
    <3>1. /\ hello[s][s] # "zero" /\ Written(s) = 1 + 2 * Len(sent[s]) + 1
      <4>1. hello[s][s] # "zero"
        BY <1>1 DEF Handshaken, Side
      <4> QED
        BY <1>1, <4>1 DEF Written
    <3>2. n = 1 + 2 * (Len(sent[s]) + 1) /\ Written(s)' = n
      <4>1. hello'[s][s] # "zero" /\ out'[s].step # "body"
        BY <1>4, <3>1 DEF WriteBody, Idle
      <4>2. Written(s)' = 1 + 2 * Len(sent'[s]) + 0
        BY <4>1 DEF Written
      <4> QED
        BY <1>2, <1>6, <3>1, <4>2
    <3>3. \A j \in 1..Len(sent[s]) + 1 : SizeOf(s, j)' = SizeOf(s, j)
      BY <1>2, <1>4, <1>6 DEF SizeOf
    <3>4. SessionKey(s, s)' = SessionKey(s, s)
      BY DEF SessionKey, WriteBody
    <3>5. \A k \in 1..Written(s) : \A u : IsUnit(s, k, u) => IsUnit(s, k, u)'
      <4> SUFFICES ASSUME NEW k \in 1..Written(s), NEW u, IsUnit(s, k, u),
                          NEW j \in 1..Len(sent'[s]) + 1
                   PROVE  /\ k = 2 * j =>
                               u = [kind |-> "len", n |-> LenField(SizeOf(s, j)')]
                          /\ k = 2 * j + 1 =>
                               u = [kind |-> "body", key |-> SessionKey(s, s)',
                                    nonce |-> j - 1, size |-> SizeOf(s, j)']
        BY DEF IsUnit, LenField
      <4>1. k \in {2 * j, 2 * j + 1} => j \in 1..Len(sent[s]) + 1
        BY <1>6, <3>1
      <4> QED
        BY <3>3, <3>4, <4>1 DEF IsUnit
    <3>6. IsUnit(s, n, v)'
      <4> SUFFICES ASSUME NEW j \in 1..Len(sent'[s]) + 1
                   PROVE  /\ n # 1 /\ n # 2 * j
                          /\ n = 2 * j + 1 =>
                               v = [kind |-> "body", key |-> SessionKey(s, s)',
                                    nonce |-> j - 1, size |-> SizeOf(s, j)']
        BY DEF IsUnit
      <4>1. n # 1 /\ n # 2 * j /\ (n = 2 * j + 1 => j = Len(sent[s]) + 1)
        BY <1>6, <3>2
      <4>2. ASSUME j = Len(sent[s]) + 1
            PROVE  SizeOf(s, j)' = z /\ ctr[s][s] = j - 1
        BY <1>6, <4>2 DEF SizeOf
      <4> QED
        BY <1>2, <3>4, <4>1, <4>2
    <3> QED
      BY <1>1, <1>2, <1>4, <1>5, <2>1, <2>2, <3>2, <3>5, <3>6, AlignedPush
  <2>3. CASE t # s
    BY <1>4, <2>1, <2>3, AlignedStill DEF IInv, WriteBody, SessionKey
  <2> QED
    BY <2>2, <2>3
<1>12. SecretInv'
  BY <1>4, PeerFacts DEF IInv, SecretInv, Opened, WriteBody
<1>13. InStep'
  BY DEF IInv, InStep, WriteBody
<1> QED
  BY <1>7, <1>8, <1>9, <1>10, <1>11, <1>12, <1>13 DEF IInv

\* A length below the tag is never read, so a read of a length always goes on
\* to the ciphertext.
LEMMA ReadLenStep ==
  ASSUME IInv, NEW s \in Side, ReadLen(s)
  PROVE  IInv'
<1> DEFINE p == Peer(s)
           j == Opened(s) + 1
<1>1. /\ TypeOK /\ pc[s] \in {"frames", "relay"} /\ Handshaken(s)
      /\ inp[s].step = "len" /\ wire[p] # <<>> /\ OpenOk(s)
  BY DEF IInv, HelloOk, ReadLen, MayRecv
<1>2. /\ p \in Side /\ p # s /\ Peer(p) = s /\ \A t \in Side : t = s \/ t = p
      /\ \A t \in Side : Peer(t) \in Side
  BY PeerFacts
<1>3. /\ j \in 1..Len(sent[p]) + 1
      /\ j = Len(sent[p]) + 1 => out[p].step = "body"
      /\ Head(wire[p]) = [kind |-> "len", n |-> LenField(SizeOf(p, j))]
  BY <1>1, HeadLen DEF Opened
<1>4. PICK n : n = LenField(SizeOf(p, j))
  OBVIOUS
<1>5. n \in TagLen..LenMod - 1 /\ n \in 0..LenMod - 1 /\ ~(n < TagLen)
  <2>1. SizeOf(p, j) \in 0..MAX_PLAINTEXT
    BY <1>1, <1>2, <1>3, SizeOfType
  <2>2. n \in TagLen..LenMod - 1
    BY <1>4, <2>1, LenFieldFacts
  <2> QED
    BY <2>2, SizeAssumption
<1>6. /\ inp' = [inp EXCEPT ![s] = [step |-> "body", size |-> n]]
      /\ wire' = [wire EXCEPT ![p] = Tail(@)]
      /\ UNCHANGED <<pc, why>>
  <2>1. Head(wire[p]).n = n
    BY <1>3, <1>4
  <2> QED
    BY <1>5, <2>1 DEF ReadLen
<1>7. /\ inp'[s] = [step |-> "body", size |-> n] /\ inp'[p] = inp[p]
      /\ wire'[p] = Tail(wire[p]) /\ wire'[s] = wire[s]
  BY <1>1, <1>2, <1>6 DEF TypeOK
<1>8. TypeOK'
  <2>1. inp' \in [Side -> [step : {"len", "body", "deliver"}, size : 0..LenMod - 1]]
    BY <1>1, <1>5, <1>6 DEF TypeOK
  <2>2. wire' \in [Side -> Seq(Unit)]
    BY <1>1, <1>6, HeadTailProperties DEF TypeOK
  <2> QED
    BY <1>1, <1>6, <2>1, <2>2 DEF TypeOK, ReadLen
<1>9. \A t \in Side : HelloOk(t)'
  BY <1>1, <1>2, <1>6, <1>7, HelloKeep, HelloDone DEF IInv, ReadLen
<1>10. \A t \in Side : SealOk(t)'
  BY SealKeep DEF IInv, ReadLen, SessionKey
<1>11. \A t \in Side : OpenOk(t)'
  <2>1. OpenOk(s)'
    <3>1. /\ Opened(s) \in Nat /\ Opened(s)' = Opened(s)
          /\ Len(sent[p]) \in Nat /\ Len(delivered[s]) \in Nat
      BY <1>1, <1>2, CountTypes DEF Opened, ReadLen
    <3>2. \/ /\ Opened(s) < Len(sent[p]) /\ n = LenField(sent[p][Opened(s) + 1])
          \/ /\ Opened(s) = Len(sent[p]) /\ out[p].step = "body"
             /\ n = LenField(out[p].size)
      <4>1. CASE j <= Len(sent[p])
        BY <1>4, <3>1, <4>1 DEF SizeOf
      <4>2. CASE j = Len(sent[p]) + 1
        BY <1>3, <1>4, <3>1, <4>2 DEF SizeOf
      <4> QED
        BY <1>3, <3>1, <4>1, <4>2
    <3> QED
      BY <1>1, <1>7, <3>1, <3>2 DEF OpenOk, ReadLen
  <2>2. OpenOk(p)'
    BY <1>2, <1>7, OpenKeep DEF IInv, ReadLen
  <2> QED
    BY <1>2, <2>1, <2>2
<1>12. StreamAligned'
  <2> SUFFICES ASSUME NEW t \in Side, pc'[Peer(t)] # "closed"
               PROVE  Aligned(t)'
    BY DEF StreamAligned
  <2>1. Aligned(t)
    BY <1>6 DEF IInv, StreamAligned
  <2>2. SessionKey(t, t)' = SessionKey(t, t) /\ Written(t)' = Written(t)
    BY DEF SessionKey, Written, ReadLen
  <2>3. CASE t = s
    <3>1. Read(Peer(t))' = Read(Peer(t))
      BY <1>7, <2>3 DEF Read, ReadLen
    <3> QED
      BY <1>1, <1>7, <2>1, <2>2, <2>3, <3>1, AlignedStill DEF ReadLen
  <2>4. CASE t = p
    <3>1. Read(s)' = Read(s) + 1
      <4>1. hello[s][p] # "zero" /\ ctr[s][p] \in Nat
        BY <1>1, <1>2, CountTypes DEF Handshaken, Side
      <4>2. Read(s) = 1 + 2 * ctr[s][p] + 0
        BY <1>1, <4>1 DEF Read
      <4>3. Read(s)' = 1 + 2 * ctr[s][p] + 1
        BY <1>7, <4>1 DEF Read, ReadLen
      <4> QED
        BY <4>1, <4>2, <4>3
    <3>2. Read(Peer(t))' = Read(Peer(t)) + 1
      BY <1>2, <2>4, <3>1
    <3>3. \A k \in 1..Written(t) : \A u : IsUnit(t, k, u) => IsUnit(t, k, u)'
      BY <1>1, <2>2, UnitsKept DEF ReadLen
    <3> QED
      BY <1>1, <1>7, <2>1, <2>2, <2>4, <3>2, <3>3, AlignedPop DEF ReadLen
  <2> QED
    BY <1>2, <2>3, <2>4
<1>13. SecretInv' /\ InStep'
  BY <1>6 DEF IInv, SecretInv, Opened, InStep, ReadLen
<1> QED
  BY <1>8, <1>9, <1>10, <1>11, <1>12, <1>13 DEF IInv

\* Under equal secrets a ciphertext opens, under different ones it does not.
LEMMA OpensIffSameSecret ==
  ASSUME IInv, NEW s \in Side, pc[s] \in {"frames", "relay"},
         inp[s].step = "body", wire[Peer(s)] # <<>>
  PROVE  Opens(s, Head(wire[Peer(s)])) <=> secret["client"] = secret["server"]
<1> DEFINE p == Peer(s)
           u == Head(wire[p])
           j == ctr[s][p] + 1
<1>1. /\ j \in 1..Len(sent[p]) /\ ctr[s][p] \in Nat
      /\ u = [kind |-> "body", key |-> SessionKey(p, p),
              nonce |-> j - 1, size |-> sent[p][j]]
      /\ inp[s].size = LenField(sent[p][j])
  BY HeadBody, PeerFacts, CountTypes DEF IInv
<1>2. sent[p][j] \in 0..MAX_PLAINTEXT
  BY <1>1, PeerFacts, ElementOfSeq DEF IInv, TypeOK
<1>3. /\ u.size + TagLen = inp[s].size /\ u.nonce = ctr[s][p]
      /\ u.key = SessionKey(p, p)
  BY <1>1, <1>2, LenFieldFacts
<1>4. Handshaken(s) /\ Handshaken(p)
  <2>1. sent[p] # <<>>
    BY <1>1
  <2> QED
    BY <2>1, PeerFacts DEF IInv, HelloOk
<1>5. SessionKey(s, p) = SessionKey(p, p) <=> secret[s] = secret[p]
  BY <1>4, PeerFacts DEF SessionKey, DeriveKey, Handshaken
<1>6. secret[s] = secret[p] <=> secret["client"] = secret["server"]
  BY DEF Side, Peer
<1> QED
  BY <1>3, <1>5, <1>6 DEF Opens

LEMMA ReadBodyStep ==
  ASSUME IInv, NEW s \in Side, ReadBody(s)
  PROVE  IInv'
<1> DEFINE p == Peer(s)
           j == ctr[s][p] + 1
<1>1. /\ TypeOK /\ pc[s] \in {"frames", "relay"} /\ Handshaken(s)
      /\ inp[s].step = "body" /\ wire[p] # <<>> /\ OpenOk(s)
      /\ wire' = [wire EXCEPT ![p] = Tail(@)]
  BY DEF IInv, HelloOk, ReadBody, MayRecv
<1>2. /\ p \in Side /\ p # s /\ Peer(p) = s /\ \A t \in Side : t = s \/ t = p
      /\ \A t \in Side : Peer(t) \in Side
  BY PeerFacts
<1>3. /\ wire' \in [Side -> Seq(Unit)] /\ wire'[s] = wire[s]
      /\ wire'[p] = Tail(wire[p])
  BY <1>1, <1>2, HeadTailProperties DEF TypeOK
<1>4. CASE secret["client"] # secret["server"]
  <2>1. ~Opens(s, Head(wire[p]))
    BY <1>1, <1>4, OpensIffSameSecret
  <2>2. Close(s, "decrypt") /\ UNCHANGED <<ctr, inp>>
    BY <2>1 DEF ReadBody
  <2> QED
    BY <1>3, <1>4, <2>2, CloseStep DEF ReadBody, Reason
<1>5. CASE secret["client"] = secret["server"]
  <2>1. Opens(s, Head(wire[p]))
    BY <1>1, <1>5, OpensIffSameSecret
  <2>2. PICK z : z = sent[p][j]
    OBVIOUS
  <2>3. /\ j \in 1..Len(sent[p]) /\ Head(wire[p]).size = z
        /\ ctr[s][p] \in Nat /\ Len(sent[p]) \in Nat /\ Len(delivered[s]) \in Nat
    <3>1. /\ j \in 1..Len(sent[p])
          /\ Head(wire[p]) = [kind |-> "body", key |-> SessionKey(p, p),
                              nonce |-> j - 1, size |-> sent[p][j]]
      BY <1>1, HeadBody
    <3>2. Head(wire[p]).size = z
      BY <2>2, <3>1
    <3>3. ctr[s][p] \in Nat /\ Len(sent[p]) \in Nat /\ Len(delivered[s]) \in Nat
      BY <1>1, <1>2, CountTypes
    <3> QED
      BY <3>1, <3>2, <3>3
  <2>4. z \in 0..MAX_PLAINTEXT /\ z \in 0..LenMod - 1
    <3>1. z \in 0..MAX_PLAINTEXT
      <4>1. sent[p] \in Seq(0..MAX_PLAINTEXT)
        BY <1>1, <1>2 DEF TypeOK
      <4>2. \A i \in 1..Len(sent[p]) : sent[p][i] \in 0..MAX_PLAINTEXT
        BY <4>1, ElementOfSeq
      <4> QED
        BY <2>2, <2>3, <4>2
    <3> QED
      BY <3>1, SizeAssumption DEF MAX_PLAINTEXT
  <2>5. /\ ctr' = [ctr EXCEPT ![s][p] = @ + 1]
        /\ inp' = [inp EXCEPT ![s] = [step |-> "deliver", size |-> z]]
        /\ UNCHANGED <<pc, why>>
    BY <2>1, <2>3 DEF ReadBody
  <2>6. /\ inp'[s] = [step |-> "deliver", size |-> z] /\ inp'[p] = inp[p]
        /\ ctr'[s][p] = ctr[s][p] + 1 /\ ctr'[s][s] = ctr[s][s] /\ ctr'[p] = ctr[p]
    BY <1>1, <1>2, <2>5 DEF TypeOK
  <2>7. TypeOK'
    <3>1. inp' \in [Side -> [step : {"len", "body", "deliver"}, size : 0..LenMod - 1]]
      BY <1>1, <2>4, <2>5 DEF TypeOK
    <3>2. ctr' \in [Side -> [Side -> Nat]]
      <4>1. ctr \in [Side -> [Side -> Nat]]
        BY <1>1 DEF TypeOK
      <4>2. ctr[s][p] + 1 \in Nat
        BY <2>3
      <4> QED
        BY <1>2, <2>5, <4>1, <4>2
    <3> QED
      BY <1>1, <1>3, <2>5, <3>1, <3>2 DEF TypeOK, ReadBody
  <2>8. \A t \in Side : HelloOk(t)'
    BY <1>1, <1>2, <2>5, <2>6, HelloKeep, HelloDone DEF IInv, ReadBody
  <2>9. \A t \in Side : SealOk(t)'
    BY <1>2, <2>6, SealKeep DEF IInv, ReadBody, SessionKey
  <2>10. \A t \in Side : OpenOk(t)'
    <3>1. OpenOk(s)'
      BY <1>1, <2>2, <2>3, <2>6 DEF OpenOk, Opened, ReadBody
    <3>2. OpenOk(p)'
      BY <1>2, <2>6, OpenKeep DEF IInv, ReadBody
    <3> QED
      BY <1>2, <3>1, <3>2
  <2>11. StreamAligned'
    <3> SUFFICES ASSUME NEW t \in Side, pc'[Peer(t)] # "closed"
                 PROVE  Aligned(t)'
      BY DEF StreamAligned
    <3>1. Aligned(t)
      BY <2>5 DEF IInv, StreamAligned
    <3>2. SessionKey(t, t)' = SessionKey(t, t) /\ Written(t)' = Written(t)
      BY DEF SessionKey, Written, ReadBody
    <3>3. CASE t = s
      <4>1. Read(Peer(t))' = Read(Peer(t))
        BY <2>6, <3>3 DEF Read, ReadBody
      <4> QED
        BY <1>1, <1>3, <3>1, <3>2, <3>3, <4>1, AlignedStill DEF ReadBody
    <3>4. CASE t = p
      <4>1. Read(s)' = Read(s) + 1
        <5>1. hello[s][p] # "zero"
          BY <1>1, <1>2 DEF Handshaken, Side
        <5>2. Read(s) = 1 + 2 * ctr[s][p] + 1
          BY <1>1, <5>1 DEF Read
        <5>3. Read(s)' = 1 + 2 * (ctr[s][p] + 1) + 0
          BY <2>6, <5>1 DEF Read, ReadBody
        <5> QED
          BY <2>3, <5>2, <5>3
      <4>2. Read(Peer(t))' = Read(Peer(t)) + 1
        BY <1>2, <3>4, <4>1
      <4>3. \A k \in 1..Written(t) : \A u : IsUnit(t, k, u) => IsUnit(t, k, u)'
        BY <1>1, <3>2, UnitsKept DEF ReadBody
      <4> QED
        BY <1>1, <1>3, <3>1, <3>2, <3>4, <4>2, <4>3, AlignedPop DEF ReadBody
    <3> QED
      BY <1>2, <3>3, <3>4
  <2>12. SecretInv' /\ InStep'
    BY <1>5, <2>5 DEF IInv, SecretInv, InStep, ReadBody
  <2> QED
    BY <2>7, <2>8, <2>9, <2>10, <2>11, <2>12 DEF IInv
<1> QED
  BY <1>4, <1>5

LEMMA DeliverStep ==
  ASSUME IInv, NEW s \in Side, Deliver(s)
  PROVE  IInv'
<1> DEFINE p == Peer(s)
<1>1. /\ TypeOK /\ pc[s] \in {"frames", "relay"} /\ Handshaken(s)
      /\ inp[s].step = "deliver" /\ OpenOk(s)
  BY DEF IInv, HelloOk, Deliver
<1>2. /\ p \in Side /\ p # s /\ Peer(p) = s /\ \A t \in Side : t = s \/ t = p
  BY PeerFacts
<1>3. PICK z : z = inp[s].size
  OBVIOUS
<1>4. /\ Opened(s) \in 1..Len(sent[p]) /\ z = sent[p][Opened(s)]
      /\ Len(delivered[s]) + 1 = Opened(s) /\ Len(delivered[s]) \in Nat
  <2>1. /\ Opened(s) \in Nat /\ Len(sent[p]) \in Nat /\ Len(delivered[s]) \in Nat
    BY <1>1, <1>2, CountTypes DEF Opened
  <2> QED
    BY <1>1, <1>3, <2>1 DEF OpenOk
<1>5. z \in 0..MAX_PLAINTEXT
  <2>1. sent[p] \in Seq(0..MAX_PLAINTEXT)
    BY <1>1, <1>2 DEF TypeOK
  <2> QED
    BY <1>4, <2>1, ElementOfSeq
<1>6. /\ delivered' = [delivered EXCEPT ![s] = Append(@, z)]
      /\ inp' = [inp EXCEPT ![s] = AwaitLen]
  BY <1>3 DEF Deliver
<1>7. /\ delivered'[s] = Append(delivered[s], z) /\ delivered'[p] = delivered[p]
      /\ inp'[s] = AwaitLen /\ inp'[p] = inp[p]
  BY <1>1, <1>2, <1>6 DEF TypeOK
<1>8. TypeOK'
  <2>1. delivered' \in [Side -> Seq(0..MAX_PLAINTEXT)]
    BY <1>1, <1>5, <1>6, AppendProperties DEF TypeOK
  <2>2. inp' \in [Side -> [step : {"len", "body", "deliver"}, size : 0..LenMod - 1]]
    <3>1. AwaitLen \in [step : {"len", "body", "deliver"}, size : 0..LenMod - 1]
      BY SizeAssumption DEF AwaitLen
    <3> QED
      BY <1>1, <1>6, <3>1 DEF TypeOK
  <2> QED
    BY <1>1, <2>1, <2>2 DEF TypeOK, Deliver
<1>9. \A t \in Side : HelloOk(t)'
  BY <1>1, <1>2, <1>7, HelloKeep, HelloDone DEF IInv, Deliver
<1>10. \A t \in Side : SealOk(t)'
  BY SealKeep DEF IInv, Deliver, SessionKey
<1>11. \A t \in Side : OpenOk(t)'
  <2>1. OpenOk(s)'
    <3>1. /\ Len(delivered'[s]) = Len(delivered[s]) + 1
          /\ \A i \in 1..Len(delivered[s]) : delivered'[s][i] = delivered[s][i]
          /\ delivered'[s][Len(delivered[s]) + 1] = z
      BY <1>1, <1>5, <1>7, AppendProperties DEF TypeOK
    <3>2. \A i \in 1..Len(delivered'[s]) : delivered'[s][i] = sent[p][i]
      BY <1>1, <1>4, <3>1 DEF OpenOk
    <3> QED
      BY <1>1, <1>4, <1>7, <3>1, <3>2 DEF OpenOk, Opened, Deliver, AwaitLen
  <2>2. OpenOk(p)'
    BY <1>2, <1>7, OpenKeep DEF IInv, Deliver
  <2> QED
    BY <1>2, <2>1, <2>2
<1>12. StreamAligned'
  <2> SUFFICES ASSUME NEW t \in Side, pc'[Peer(t)] # "closed"
               PROVE  Aligned(t)'
    BY DEF StreamAligned
  <2>1. Aligned(t)
    BY DEF IInv, StreamAligned, Deliver
  <2>2. Read(Peer(t))' = Read(Peer(t))
    BY <1>1, <1>2, <1>7, PeerFacts DEF Read, Deliver, AwaitLen
  <2> QED
    BY <1>1, <2>1, <2>2, AlignedStill DEF Deliver, SessionKey
<1>13. SecretInv' /\ InStep'
  BY DEF IInv, SecretInv, Opened, InStep, Deliver
<1> QED
  BY <1>8, <1>9, <1>10, <1>11, <1>12, <1>13 DEF IInv

LEMMA ResetStep ==
  ASSUME IInv, Reset
  PROVE  IInv'
<1>1. TypeOK /\ link' = "reset"
  BY DEF IInv, Reset
<1>2. PICK keep \in [Side -> 0..Cap] :
        /\ \A s \in Side : keep[s] <= Len(wire[s])
        /\ wire' = [s \in Side |-> SubSeq(wire[s], 1, keep[s])]
  BY DEF Reset
<1>3. ASSUME NEW s \in Side
      PROVE  /\ wire'[s] \in Seq(Unit) /\ Len(wire'[s]) <= Len(wire[s])
             /\ \A i \in 1..Len(wire'[s]) : wire'[s][i] = wire[s][i]
  <2>1. wire[s] \in Seq(Unit) /\ Len(wire[s]) \in Nat
    BY <1>1, LenProperties DEF TypeOK
  <2>2. PICK m : m = keep[s]
    OBVIOUS
  <2>3. m \in 0..Len(wire[s]) /\ m \in Int
    BY <1>2, <2>1, <2>2
  <2>4. \A i \in 1..m : wire[s][i] \in Unit
    BY <2>1, <2>3, ElementOfSeq
  <2>5. /\ SubSeq(wire[s], 1, m) \in Seq(Unit)
        /\ Len(SubSeq(wire[s], 1, m)) = IF 1 <= m THEN m - 1 + 1 ELSE 0
        /\ \A i \in 1..m - 1 + 1 : SubSeq(wire[s], 1, m)[i] = wire[s][1 + i - 1]
    BY <2>3, <2>4, SubSeqProperties
  <2>6. wire'[s] = SubSeq(wire[s], 1, m)
    BY <1>2, <2>2
  <2>7. Len(wire'[s]) = m
    BY <2>3, <2>5, <2>6
  <2> QED
    BY <2>1, <2>3, <2>5, <2>6, <2>7
<1>4. TypeOK'
  <2>1. wire' \in [Side -> Seq(Unit)]
    BY <1>2, <1>3
  <2> QED
    BY <1>1, <2>1 DEF TypeOK, Reset
<1>5. \A t \in Side : HelloOk(t)' /\ SealOk(t)' /\ OpenOk(t)'
  BY HelloKeep, SealKeep, OpenKeep DEF IInv, Reset, SessionKey
<1>6. StreamAligned'
  <2> SUFFICES ASSUME NEW t \in Side, pc'[Peer(t)] # "closed"
               PROVE  Aligned(t)'
    BY DEF StreamAligned
  <2>1. Aligned(t) /\ Written(t)' = Written(t) /\ Read(Peer(t))' = Read(Peer(t))
    BY DEF IInv, StreamAligned, Written, Read, Reset
  <2>2. \A k \in 1..Written(t) : \A u : IsUnit(t, k, u) => IsUnit(t, k, u)'
    BY <1>1, UnitsKept DEF Reset, SessionKey
  <2>3. /\ Read(Peer(t)) \in Nat /\ Written(t) \in Nat /\ Len(wire[t]) \in Nat
        /\ Len(wire'[t]) \in Nat
    BY <1>1, <1>3, PeerFacts, CountTypes, LenProperties
  <2>4. \A i \in 1..Len(wire'[t]) : IsUnit(t, Read(Peer(t)) + i, wire[t][i])'
    <3> SUFFICES ASSUME NEW i \in 1..Len(wire'[t])
                 PROVE  IsUnit(t, Read(Peer(t)) + i, wire[t][i])'
      OBVIOUS
    <3>1. PICK k, u : k = Read(Peer(t)) + i /\ u = wire[t][i]
      OBVIOUS
    <3>2. i \in 1..Len(wire[t]) /\ wire'[t][i] = u
      BY <1>3, <2>3, <3>1
    <3>3. IsUnit(t, k, u) /\ k \in 1..Written(t)
      BY <2>1, <2>3, <3>1, <3>2 DEF Aligned
    <3> QED
      BY <2>1, <2>2, <3>1, <3>2, <3>3
  <2>5. Read(Peer(t)) + Len(wire'[t]) <= Written(t)
    BY <1>3, <2>1, <2>3 DEF Aligned
  <2> QED
    BY <1>1, <2>1, <2>4, <2>5 DEF Aligned
<1>7. SecretInv' /\ InStep'
  BY DEF IInv, SecretInv, Opened, InStep, Reset
<1> QED
  BY <1>4, <1>5, <1>6, <1>7 DEF IInv

\* The remaining steps only close a side.
LEMMA ClosingStep ==
  ASSUME IInv, NEW s \in Side,
         \/ \E n \in Sizes : TooLarge(s, n)
         \/ WriteFails(s) \/ ReadEnd(s) \/ Drop(s)
  PROVE  IInv'
<1>1. wire' \in [Side -> Seq(Unit)] /\ wire'[s] = wire[s]
  BY DEF IInv, TypeOK, TooLarge, WriteFails, ReadEnd, Drop
<1>2. CASE \E n \in Sizes : TooLarge(s, n)
  BY <1>1, <1>2, CloseStep DEF TooLarge, Reason
<1>3. CASE WriteFails(s) \/ Drop(s)
  BY <1>1, <1>3, CloseStep DEF WriteFails, Drop, Reason
<1>4. CASE ReadEnd(s)
  BY <1>1, <1>4, CloseStep DEF ReadEnd, Reason
<1> QED
  BY <1>2, <1>3, <1>4

LEMMA NextIInv == IInv /\ [Next]_vars => IInv'
<1> SUFFICES ASSUME IInv, [Next]_vars PROVE IInv'
  OBVIOUS
<1>1. CASE Reset
  BY <1>1, ResetStep
<1>2. ASSUME NEW s \in Side, Step(s) PROVE IInv'
  <2>1. CASE SendHello(s) \/ RecvHello(s) \/ StartRelay(s)
    BY <2>1, SendHelloStep, RecvHelloStep, StartRelayStep
  <2>2. CASE WriteLen(s) \/ WriteBody(s) \/ \E n \in Sizes : Seal(s, n)
    BY <2>2, SealStep, WriteLenStep, WriteBodyStep
  <2>3. CASE ReadLen(s) \/ ReadBody(s) \/ Deliver(s)
    BY <2>3, ReadLenStep, ReadBodyStep, DeliverStep
  <2>4. CASE \/ \E n \in Sizes : TooLarge(s, n)
             \/ WriteFails(s) \/ ReadEnd(s) \/ Drop(s)
    BY <2>4, ClosingStep
  <2> QED
    BY <1>2, <2>1, <2>2, <2>3, <2>4 DEF Step
<1>3. CASE UNCHANGED vars
  <2>1. TypeOK'
    BY <1>3 DEF IInv, TypeOK, vars
  <2>2. \A t \in Side : HelloOk(t)' /\ SealOk(t)' /\ OpenOk(t)'
    BY <1>3, HelloKeep, SealKeep, OpenKeep DEF IInv, vars, SessionKey
  <2>3. SecretInv' /\ InStep'
    BY <1>3 DEF IInv, SecretInv, InStep, Opened, vars
  <2>4. StreamAligned'
    BY <1>3, AlignedStill DEF IInv, StreamAligned, Read, SessionKey, vars
  <2> QED
    BY <2>1, <2>2, <2>3, <2>4 DEF IInv
<1> QED
  BY <1>1, <1>2, <1>3 DEF Next

-----------------------------------------------------------------------------
\* The theorems.

\* The invariant holds of every reachable state.
THEOREM Invariance == Spec => []IInv
<1>1. Init => IInv
  BY InitIInv
<1>2. IInv /\ [Next]_vars => IInv'
  BY NextIInv
<1> QED
  BY <1>1, <1>2, PTL DEF Spec

\* The type invariant, for every width of the length prefix: in particular a
\* frame that passes write_encrypted_frame's check never overflows the prefix.
THEOREM TypeCorrect == Spec => []TypeOK
<1>1. IInv => TypeOK
  BY DEF IInv
<1> QED
  BY <1>1, Invariance, PTL

\* write_encrypted_frame never uses a key with the same nonce twice.
THEOREM NonceSafety == Spec => []NonceNeverReused
<1>1. IInv => NonceNeverReused
  <2> SUFFICES ASSUME IInv, NEW s \in Side, NEW t \in Side,
                      NEW i \in 1..Len(sealed[s]), NEW j \in 1..Len(sealed[t]),
                      sealed[s][i] = sealed[t][j]
               PROVE  s = t /\ i = j
    BY DEF NonceNeverReused
  <2>1. /\ sealed[s][i] = [key |-> SessionKey(s, s), nonce |-> i - 1]
        /\ sealed[t][j] = [key |-> SessionKey(t, t), nonce |-> j - 1]
    BY DEF IInv, SealOk
  <2>2. SessionKey(s, s) = SessionKey(t, t) /\ i - 1 = j - 1
    <3>1. [key |-> SessionKey(s, s), nonce |-> i - 1]
            = [key |-> SessionKey(t, t), nonce |-> j - 1]
      BY <2>1
    <3>2. \A k, l, m, n : [key |-> k, nonce |-> m] = [key |-> l, nonce |-> n]
                           => k = l /\ m = n
      OBVIOUS
    <3> QED
      BY ONLY <3>1, <3>2
  <2>3. s = t
    BY <2>2 DEF SessionKey, DeriveKey
  <2>4. Len(sealed[s]) \in Nat /\ Len(sealed[t]) \in Nat
    BY CountTypes DEF IInv
  <2>5. i \in Nat /\ j \in Nat
    BY <2>4
  <2> QED
    BY <2>2, <2>3, <2>5
<1> QED
  BY <1>1, Invariance, PTL

\* The readers and writers of crypto.rs agree on frame boundaries and counters.
THEOREM FramingSafety == Spec => []StreamAligned
<1>1. IInv => StreamAligned
  BY DEF IInv
<1> QED
  BY <1>1, Invariance, PTL

\* Under one secret no read ever fails to decrypt.
THEOREM StaysInStep == Spec => []InStep
<1>1. IInv => InStep
  BY DEF IInv
<1> QED
  BY <1>1, Invariance, PTL

\* Ends configured with different secrets never hand over a frame.
THEOREM WrongSecretSafety == Spec => []WrongSecretDeliversNothing
<1>1. IInv => WrongSecretDeliversNothing
  <2> SUFFICES ASSUME IInv, secret["client"] # secret["server"], NEW s \in Side
               PROVE  delivered[s] = <<>>
    BY DEF WrongSecretDeliversNothing
  <2>1. delivered[s] \in Seq(0..MAX_PLAINTEXT) /\ Len(delivered[s]) \in Nat
    BY CountTypes DEF IInv, TypeOK
  <2>2. Opened(s) = 0 /\ OpenOk(s)
    BY DEF IInv, SecretInv
  <2>3. Len(delivered[s]) = 0
    BY <2>1, <2>2 DEF OpenOk
  <2> QED
    BY <2>1, <2>3, EmptySeq
<1> QED
  BY <1>1, Invariance, PTL

\* Every step of the tunnel is a step of trait Tunnel's pipe, or leaves what
\* the pipe speaks of alone.
THEOREM ImplementsPipe == Spec => PipeSpec
<1> DEFINE live == {s \in Side : pc[s] # "closed"}
<1> USE DEF Pipe!Side, Pipe!Peer
<1>1. Init => Pipe!Init
  BY DEF Init, Pipe!Init, Side
<1>2. IInv /\ [Next]_vars => [Pipe!Next]_Pipe!pipeVars
  <2> SUFFICES ASSUME IInv, Next
               PROVE  Pipe!Next \/ UNCHANGED Pipe!pipeVars
    BY DEF vars, Pipe!pipeVars
  <2>1. TypeOK
    BY DEF IInv
  <2>2. ASSUME NEW s \in Side, NEW r \in Reason, Close(s, r), s \in live,
               UNCHANGED <<sent, delivered>>
        PROVE  Pipe!Next
    <3>1. live' = live \ {s}
      BY <2>1, <2>2 DEF TypeOK, Close
    <3> QED
      BY <2>2, <3>1 DEF Pipe!Next, Pipe!Drop, Side
  <2>3. ASSUME UNCHANGED <<sent, delivered>>, live' = live
        PROVE  UNCHANGED Pipe!pipeVars
    BY <2>3 DEF Pipe!pipeVars
  <2>4. CASE Reset
    BY <2>3, <2>4 DEF Reset
  <2>5. ASSUME NEW s \in Side, Step(s) PROVE Pipe!Next \/ UNCHANGED Pipe!pipeVars
    <3>1. CASE SendHello(s) \/ RecvHello(s) \/ StartRelay(s)
      <4>1. live' = live /\ UNCHANGED <<sent, delivered>>
        BY <2>1, <3>1 DEF TypeOK, SendHello, RecvHello, StartRelay
      <4> QED
        BY <2>3, <4>1
    <3>2. CASE WriteLen(s) \/ (\E n \in Sizes : Seal(s, n))
      BY <2>3, <3>2 DEF WriteLen, Seal
    <3>3. CASE (\E n \in Sizes : TooLarge(s, n)) \/ WriteFails(s) \/ ReadEnd(s) \/ Drop(s)
      <4>1. \E r \in Reason : Close(s, r)
        BY <3>3 DEF TooLarge, WriteFails, ReadEnd, Drop, Reason
      <4>2. s \in live /\ UNCHANGED <<sent, delivered>>
        BY <3>3 DEF TooLarge, MaySend, WriteFails, ReadEnd, Reading, MayRecv, Drop
      <4> QED
        BY <2>2, <4>1, <4>2
    <3>4. CASE ReadLen(s) \/ ReadBody(s)
      <4>1. s \in live /\ UNCHANGED <<sent, delivered>>
        BY <3>4 DEF ReadLen, ReadBody, MayRecv
      <4>2. UNCHANGED pc \/ \E r \in Reason : Close(s, r)
        BY <3>4 DEF ReadLen, ReadBody, Reason
      <4> QED
        BY <2>2, <2>3, <4>1, <4>2
    <3>5. CASE WriteBody(s)
      <4>1. out[s].size \in 0..MAX_PLAINTEXT
        BY <2>1 DEF TypeOK
      <4>2. s \in live /\ live' = live
        BY <3>5 DEF WriteBody
      <4>3. Pipe!Send(s, out[s].size)
        BY <3>5, <4>2 DEF Pipe!Send, WriteBody
      <4> QED
        BY <4>1, <4>3 DEF Pipe!Next, Side
    <3>6. CASE Deliver(s)
      <4>1. s \in live /\ live' = live /\ UNCHANGED sent
        BY <3>6 DEF Deliver
      <4>2. /\ OpenOk(s) /\ inp[s].step = "deliver" /\ Opened(s) \in Nat
            /\ Len(delivered[s]) \in Nat /\ Len(sent[Peer(s)]) \in Nat
        BY <2>1, <3>6, PeerFacts, CountTypes DEF IInv, Deliver, Opened
      <4>3. /\ Len(delivered[s]) < Len(sent[Peer(s)])
            /\ inp[s].size = sent[Peer(s)][Len(delivered[s]) + 1]
        BY <4>2 DEF OpenOk
      <4>4. Pipe!Recv(s)
        BY <3>6, <4>1, <4>3 DEF Pipe!Recv, Deliver, Peer
      <4> QED
        BY <4>4 DEF Pipe!Next, Side
    <3> QED
      BY <2>5, <3>1, <3>2, <3>3, <3>4, <3>5, <3>6 DEF Step
  <2> QED
    BY <2>4, <2>5 DEF Next
<1> QED
  BY <1>1, <1>2, Invariance, PTL DEF Spec, PipeSpec, Pipe!Spec

\* What is handed over is a prefix of what was sent, in both directions.
THEOREM DeliverySafety == Spec => []DeliveredInOrder
<1>1. IInv => DeliveredInOrder
  <2> SUFFICES ASSUME IInv, NEW s \in Side
               PROVE  /\ Len(delivered[s]) <= Len(sent[Peer(s)])
                      /\ \A i \in 1..Len(delivered[s]) :
                           delivered[s][i] = sent[Peer(s)][i]
    BY DEF DeliveredInOrder, Pipe!DeliveredInOrder, Pipe!Side, Pipe!Peer, Side, Peer
  <2>1. OpenOk(s) /\ Opened(s) \in Nat /\ Len(delivered[s]) \in Nat
        /\ Len(sent[Peer(s)]) \in Nat
    BY PeerFacts, CountTypes DEF IInv, Opened
  <2> QED
    BY <2>1 DEF OpenOk
<1> QED
  BY <1>1, Invariance, PTL
=============================================================================

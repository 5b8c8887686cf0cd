-------------------------- MODULE EncryptedTunnel --------------------------
(***************************************************************************)
(* One encrypted TCP tunnel, both ends: EncryptedTunnel of                 *)
(* feature/tunnel/tcp-encrypted/src/lib.rs over crypto.rs.                 *)
(*                                                                         *)
(* A side first runs secure_handshake, then the exchange of one header and *)
(* one status frame (send_frame / recv_frame, one at a time because they   *)
(* take &mut self), then relay_bidirectional, where the two pumps run      *)
(* concurrently until select! drops them both.                             *)
(*                                                                         *)
(* Abstractions.  A payload is its length: nothing in the code looks at    *)
(* more of it.  A random 32-byte hello is the name of the side that drew   *)
(* it, HKDF a free constructor, and a ciphertext the record of what it was *)
(* sealed with, so that decryption succeeds exactly under the same key and *)
(* nonce.  TCP is a FIFO of units; a unit is what one read_exact takes.  A *)
(* unit that is written in part is never read: read_exact answers          *)
(* UnexpectedEof after zero bytes as after some, so it is left out.        *)
(***************************************************************************)
EXTENDS Naturals, Sequences, Sides

CONSTANTS
  Psk,                 \* the secrets a side may be configured with
  LenMod,              \* 2^16: the length prefix is a u16
  TagLen,              \* TAG_LEN
  RelayBuf,            \* RELAY_BUF: a relay pump reads at most this much
  Sizes,               \* payload lengths handed to send_frame or read by a pump
  Cap,                 \* units one direction of the TCP connection buffers
  MaxFrames            \* bound: frames one side sends

MAX_PLAINTEXT == LenMod - 1 - TagLen

ASSUME SizeAssumption ==
  /\ LenMod \in Nat /\ TagLen \in Nat /\ TagLen < LenMod
  /\ RelayBuf \in 1..MAX_PLAINTEXT
  /\ Sizes \subseteq Nat

VARIABLES
  secret,              \* secret[s]: the PSK side s was configured with
  pc,                  \* pc[s]: where side s is
  hello,               \* hello[s]: the client_nonce and server_nonce s holds
  ctr,                 \* ctr[s]: c_nonce and s_nonce, by the side whose key they count
  out,                 \* out[s]: the frame s is writing
  inp,                 \* inp[s]: the frame s is reading
  wire,                \* wire[s]: units s has written and its peer has not read
  link,                \* "up", or "reset" once the TCP connection has failed
  why,                 \* why[s]: what made s drop its end
  sealed,              \* history: sealed[s], every use s made of a key and a nonce
  sent,                \* history: sent[s], the frames s wrote in full
  delivered            \* history: delivered[s], the frames s handed to its caller

vars == <<secret, pc, hello, ctr, out, inp, wire, link, why, sealed, sent, delivered>>

Drawn == Side \cup {"zero"}          \* a hello buffer before and after it is filled
Key == [owner : Side, psk : Psk, cn : Drawn, sn : Drawn]
Unit == [kind : {"hello"}, from : Drawn]
          \cup [kind : {"len"}, n : 0..LenMod - 1]
          \cup [kind : {"body"}, key : Key, nonce : Nat, size : 0..MAX_PLAINTEXT]
Reason == {"none", "eof", "io", "too_large", "too_short", "decrypt", "drop"}

TypeOK ==
  /\ secret \in [Side -> Psk]
  /\ pc \in [Side -> {"send_hello", "recv_hello", "frames", "relay", "closed"}]
  /\ hello \in [Side -> [Side -> Drawn]]
  /\ ctr \in [Side -> [Side -> Nat]]
  /\ out \in [Side -> [step : {"idle", "len", "body"}, size : 0..MAX_PLAINTEXT]]
  /\ inp \in [Side -> [step : {"len", "body", "deliver"}, size : 0..LenMod - 1]]
  /\ wire \in [Side -> Seq(Unit)]
  /\ link \in {"up", "reset"}
  /\ why \in [Side -> Reason]
  /\ sealed \in [Side -> Seq([key : Key, nonce : Nat])]
  /\ sent \in [Side -> Seq(0..MAX_PLAINTEXT)]
  /\ delivered \in [Side -> Seq(0..MAX_PLAINTEXT)]

-----------------------------------------------------------------------------
\* Keys, counters and frame lengths.

DeriveKey_NoSecret(psk, cn, sn, o) ==
  [owner |-> o, psk |-> CHOOSE p \in Psk : TRUE, cn |-> cn, sn |-> sn]

DeriveKey(psk, cn, sn, o) == [owner |-> o, psk |-> psk, cn |-> cn, sn |-> sn]

SessionKey_OwnFirst(s, o) == DeriveKey(secret[s], hello[s][s], hello[s][Peer(s)], o)

SessionKey(s, o) == DeriveKey(secret[s], hello[s]["client"], hello[s]["server"], o)

FitsFrame_NoTag(n) == n <= MAX_PLAINTEXT + TagLen

FitsFrame(n) == n <= MAX_PLAINTEXT

LenField(n) == (n + TagLen) % LenMod

Idle == [step |-> "idle", size |-> 0]
AwaitLen == [step |-> "len", size |-> 0]

\* The owner of a tunnel sends one frame, takes one frame (the server the
\* other way round), and then relays.
MaySend(s) ==
  /\ out[s] = Idle
  /\ \/ pc[s] = "relay"
     \/ /\ pc[s] = "frames"
        /\ sent[s] = <<>>
        /\ s = "server" => delivered[s] # <<>>

\* A relay that sends and receives in turn instead of concurrently.
MayRecv_InTurn(s) ==
  \/ pc[s] = "relay" /\ out[s] = Idle
  \/ /\ pc[s] = "frames"
     /\ delivered[s] = <<>>
     /\ s = "client" => sent[s] # <<>>

MayRecv(s) ==
  \/ pc[s] = "relay"
  \/ /\ pc[s] = "frames"
     /\ delivered[s] = <<>>
     /\ s = "client" => sent[s] # <<>>

Writable(s) == link = "up" /\ Len(wire[s]) < Cap

Close(s, reason) ==
  /\ pc' = [pc EXCEPT ![s] = "closed"]
  /\ why' = [why EXCEPT ![s] = reason]

-----------------------------------------------------------------------------
Init ==
  /\ secret \in [Side -> Psk]
  /\ pc = [s \in Side |-> IF s = "client" THEN "send_hello" ELSE "recv_hello"]
  /\ hello = [s \in Side |-> [o \in Side |-> "zero"]]
  /\ ctr = [s \in Side |-> [o \in Side |-> 0]]
  /\ out = [s \in Side |-> Idle]
  /\ inp = [s \in Side |-> AwaitLen]
  /\ wire = [s \in Side |-> <<>>]
  /\ link = "up"
  /\ why = [s \in Side |-> "none"]
  /\ sealed = [s \in Side |-> <<>>]
  /\ sent = [s \in Side |-> <<>>]
  /\ delivered = [s \in Side |-> <<>>]

\* secure_handshake: fill_bytes and write_all of the own hello.
SendHello(s) ==
  /\ pc[s] = "send_hello"
  /\ Writable(s)
  /\ hello' = [hello EXCEPT ![s][s] = s]
  /\ wire' = [wire EXCEPT ![s] = Append(@, [kind |-> "hello", from |-> s])]
  /\ pc' = [pc EXCEPT ![s] = IF s = "client" THEN "recv_hello" ELSE "frames"]
  /\ UNCHANGED <<secret, ctr, out, inp, link, why, sealed, sent, delivered>>

\* secure_handshake: read_exact of the peer's hello.
RecvHello(s) ==
  /\ pc[s] = "recv_hello"
  /\ wire[Peer(s)] # <<>>
  /\ hello' = [hello EXCEPT ![s][Peer(s)] = Head(wire[Peer(s)]).from]
  /\ wire' = [wire EXCEPT ![Peer(s)] = Tail(@)]
  /\ pc' = [pc EXCEPT ![s] = IF s = "client" THEN "frames" ELSE "send_hello"]
  /\ UNCHANGED <<secret, ctr, out, inp, link, why, sealed, sent, delivered>>

\* write_encrypted_frame up to the first await: the size check, then the
\* ciphertext under the key and the counter of this side.
Seal(s, n) ==
  /\ MaySend(s)
  /\ pc[s] = "relay" => n \in 1..RelayBuf
  /\ Len(sent[s]) < MaxFrames
  /\ FitsFrame(n)
  /\ out' = [out EXCEPT ![s] = [step |-> "len", size |-> n]]
  /\ sealed' = [sealed EXCEPT
       ![s] = Append(@, [key |-> SessionKey(s, s), nonce |-> ctr[s][s]])]
  /\ UNCHANGED <<secret, pc, hello, ctr, inp, wire, link, why, sent, delivered>>

TooLarge(s, n) ==
  /\ MaySend(s)
  /\ pc[s] = "relay" => n \in 1..RelayBuf
  /\ ~FitsFrame(n)
  /\ Close(s, "too_large")
  /\ UNCHANGED <<secret, hello, ctr, out, inp, wire, link, sealed, sent, delivered>>

WriteLen(s) ==
  /\ pc[s] \in {"frames", "relay"}
  /\ out[s].step = "len"
  /\ Writable(s)
  /\ wire' = [wire EXCEPT ![s] =
       Append(@, [kind |-> "len", n |-> LenField(out[s].size)])]
  /\ out' = [out EXCEPT ![s].step = "body"]
  /\ UNCHANGED <<secret, pc, hello, ctr, inp, link, why, sealed, sent, delivered>>

\* The ciphertext, and after it the counter: no await lies between the two.
WriteBody(s) ==
  /\ pc[s] \in {"frames", "relay"}
  /\ out[s].step = "body"
  /\ Writable(s)
  /\ wire' = [wire EXCEPT ![s] =
       Append(@, [kind |-> "body", key |-> SessionKey(s, s),
                  nonce |-> ctr[s][s], size |-> out[s].size])]
  /\ ctr' = [ctr EXCEPT ![s][s] = @ + 1]
  /\ sent' = [sent EXCEPT ![s] = Append(@, out[s].size)]
  /\ out' = [out EXCEPT ![s] = Idle]
  /\ UNCHANGED <<secret, pc, hello, inp, link, why, sealed, delivered>>

\* relay_bidirectional starts from the counters the two frames left behind.
StartRelay_FreshCounters(s) ==
  /\ pc[s] = "frames"
  /\ Len(sent[s]) = 1 /\ Len(delivered[s]) = 1
  /\ pc' = [pc EXCEPT ![s] = "relay"]
  /\ ctr' = [ctr EXCEPT ![s] = [o \in Side |-> 0]]
  /\ UNCHANGED <<secret, hello, out, inp, wire, link, why, sealed, sent, delivered>>

StartRelay(s) ==
  /\ pc[s] = "frames"
  /\ Len(sent[s]) = 1 /\ Len(delivered[s]) = 1
  /\ pc' = [pc EXCEPT ![s] = "relay"]
  /\ UNCHANGED <<secret, hello, ctr, out, inp, wire, link, why, sealed, sent, delivered>>

\* read_encrypted_frame: the length prefix and the check against TAG_LEN.
ReadLen(s) ==
  /\ MayRecv(s)
  /\ inp[s].step = "len"
  /\ wire[Peer(s)] # <<>>
  /\ LET n == Head(wire[Peer(s)]).n IN
       IF n < TagLen
         THEN Close(s, "too_short") /\ UNCHANGED inp
         ELSE inp' = [inp EXCEPT ![s] = [step |-> "body", size |-> n]]
              /\ UNCHANGED <<pc, why>>
  /\ wire' = [wire EXCEPT ![Peer(s)] = Tail(@)]
  /\ UNCHANGED <<secret, hello, ctr, out, link, sealed, sent, delivered>>

Opens(s, u) ==
  /\ u.size + TagLen = inp[s].size
  /\ u.key = SessionKey(s, Peer(s))
  /\ u.nonce = ctr[s][Peer(s)]

\* read_encrypted_frame: the ciphertext, decryption, and then the counter.
ReadBody(s) ==
  /\ MayRecv(s)
  /\ inp[s].step = "body"
  /\ wire[Peer(s)] # <<>>
  /\ LET u == Head(wire[Peer(s)]) IN
       \/ /\ Opens(s, u)
          /\ ctr' = [ctr EXCEPT ![s][Peer(s)] = @ + 1]
          /\ inp' = [inp EXCEPT ![s] = [step |-> "deliver", size |-> u.size]]
          /\ UNCHANGED <<pc, why>>
       \/ /\ ~Opens(s, u)
          /\ Close(s, "decrypt")
          /\ UNCHANGED <<ctr, inp>>
  /\ wire' = [wire EXCEPT ![Peer(s)] = Tail(@)]
  /\ UNCHANGED <<secret, hello, out, link, sealed, sent, delivered>>

\* recv_frame returns the plaintext, or the pump writes it to the external
\* stream and goes round.
Deliver_Again(s) ==
  /\ pc[s] \in {"frames", "relay"}
  /\ inp[s].step = "deliver"
  /\ Len(delivered[s]) < MaxFrames
  /\ delivered' = [delivered EXCEPT ![s] = Append(@, inp[s].size)]
  /\ UNCHANGED <<secret, pc, hello, ctr, inp, out, wire, link, why, sealed, sent>>

Deliver(s) ==
  /\ pc[s] \in {"frames", "relay"}
  /\ inp[s].step = "deliver"
  /\ delivered' = [delivered EXCEPT ![s] = Append(@, inp[s].size)]
  /\ inp' = [inp EXCEPT ![s] = AwaitLen]
  /\ UNCHANGED <<secret, pc, hello, ctr, out, wire, link, why, sealed, sent>>

\* A read finds the end of the stream or the failed connection: None for a
\* length prefix at the end of a stream that was closed, an error otherwise.
Reading(s) == pc[s] = "recv_hello" \/ (MayRecv(s) /\ inp[s].step \in {"len", "body"})

ReadEnd_ErrorsOnly(s) ==
  /\ Reading(s)
  /\ wire[Peer(s)] = <<>>
  /\ link = "reset" \/ (pc[Peer(s)] = "closed" /\ (pc[s] = "recv_hello" \/ inp[s].step = "body"))
  /\ Close(s, "io")
  /\ UNCHANGED <<secret, hello, ctr, out, inp, wire, link, sealed, sent, delivered>>

ReadEnd(s) ==
  /\ Reading(s)
  /\ wire[Peer(s)] = <<>>
  /\ link = "reset" \/ pc[Peer(s)] = "closed"
  /\ Close(s, IF link = "up" /\ pc[s] # "recv_hello" /\ inp[s].step = "len"
              THEN "eof" ELSE "io")
  /\ UNCHANGED <<secret, hello, ctr, out, inp, wire, link, sealed, sent, delivered>>

WriteFails(s) ==
  /\ pc[s] = "send_hello" \/ (pc[s] \in {"frames", "relay"} /\ out[s] # Idle)
  /\ link = "reset" \/ pc[Peer(s)] = "closed"
  /\ Close(s, "io")
  /\ UNCHANGED <<secret, hello, ctr, out, inp, wire, link, sealed, sent, delivered>>

\* The owner drops the tunnel wherever it is: the external stream ended, or
\* select! cancelled a pump in the middle of a frame, or the task is gone.
Drop(s) ==
  /\ pc[s] # "closed"
  /\ Close(s, "drop")
  /\ UNCHANGED <<secret, hello, ctr, out, inp, wire, link, sealed, sent, delivered>>

\* The TCP connection fails; in each direction any suffix of what was on its
\* way is lost.
Reset ==
  /\ link = "up"
  /\ link' = "reset"
  /\ \E keep \in [Side -> 0..Cap] :
       /\ \A s \in Side : keep[s] <= Len(wire[s])
       /\ wire' = [s \in Side |-> SubSeq(wire[s], 1, keep[s])]
  /\ UNCHANGED <<secret, pc, hello, ctr, out, inp, why, sealed, sent, delivered>>

Step(s) ==
  \/ SendHello(s) \/ RecvHello(s) \/ StartRelay(s)
  \/ \E n \in Sizes : Seal(s, n) \/ TooLarge(s, n)
  \/ WriteLen(s) \/ WriteBody(s) \/ WriteFails(s)
  \/ ReadLen(s) \/ ReadBody(s) \/ ReadEnd(s) \/ Deliver(s)
  \/ Drop(s)

Next == Reset \/ \E s \in Side : Step(s)

Spec == Init /\ [][Next]_vars

\* The header or the status, which its owner sends without waiting for anyone.
SealFirst(s) == pc[s] = "frames" /\ \E n \in Sizes : Seal(s, n) \/ TooLarge(s, n)

\* tokio polls a task whose I/O is ready, TCP moves what was written, the
\* server's dial of its target ends one way or the other, and the external
\* streams take what they are given.  Nobody is obliged to send anything into
\* the relay, to drop a tunnel or to break the connection.
Fairness ==
  \A s \in Side :
    /\ WF_vars(SealFirst(s))
    /\ WF_vars(SendHello(s)) /\ WF_vars(RecvHello(s)) /\ WF_vars(StartRelay(s))
    /\ WF_vars(WriteLen(s)) /\ WF_vars(WriteBody(s)) /\ WF_vars(WriteFails(s))
    /\ WF_vars(ReadLen(s)) /\ WF_vars(ReadBody(s)) /\ WF_vars(ReadEnd(s))
    /\ WF_vars(Deliver(s))

FairSpec == Spec /\ Fairness

-----------------------------------------------------------------------------
\* write_encrypted_frame: no key meets the same nonce twice, whatever side
\* seals, in the header and status frames or in the relay, even when a write
\* fails or select! cancels one between the encryption and the increment.
NonceNeverReused ==
  \A s, t \in Side : \A i \in 1..Len(sealed[s]), j \in 1..Len(sealed[t]) :
    sealed[s][i] = sealed[t][j] => s = t /\ i = j

\* The two ends agree on keys, counters and frame boundaries for as long as
\* both live: under one secret no read ever fails to decrypt or finds a
\* length below the tag.
InStep ==
  \A s \in Side :
    why[s] \in {"decrypt", "too_short"} => secret["client"] # secret["server"]

\* The stream s writes is its hello, then a length and a ciphertext per frame;
\* Written(s) units of it have been written and Read(p) read by the peer p.
SizeOf(s, j) == IF j <= Len(sent[s]) THEN sent[s][j] ELSE out[s].size

Written(s) ==
  IF hello[s][s] = "zero" THEN 0
  ELSE 1 + 2 * Len(sent[s]) + (IF out[s].step = "body" THEN 1 ELSE 0)

Read(p) ==
  IF hello[p][Peer(p)] = "zero" THEN 0
  ELSE 1 + 2 * ctr[p][Peer(p)] + (IF inp[p].step = "body" THEN 1 ELSE 0)

IsUnit(s, k, u) ==
  /\ k = 1 => u = [kind |-> "hello", from |-> s]
  /\ \A j \in 1..Len(sent[s]) + 1 :
       /\ k = 2 * j => u = [kind |-> "len", n |-> LenField(SizeOf(s, j))]
       /\ k = 2 * j + 1 => u = [kind |-> "body", key |-> SessionKey(s, s),
                               nonce |-> j - 1, size |-> SizeOf(s, j)]

\* read_exact in write_encrypted_frame's order: as long as a side reads, what
\* lies between it and its peer is exactly the part of the peer's stream it
\* has not read, so that a length is never taken for a ciphertext, and the
\* n-th ciphertext is the n-th frame under nonce n - 1.
Aligned(s) ==
  /\ Read(Peer(s)) + Len(wire[s]) <= Written(s)
  /\ link = "up" => Read(Peer(s)) + Len(wire[s]) = Written(s)
  /\ \A i \in 1..Len(wire[s]) : IsUnit(s, Read(Peer(s)) + i, wire[s][i])

StreamAligned == \A s \in Side : pc[Peer(s)] # "closed" => Aligned(s)

\* derive_session_keys: ends configured with different secrets never hand
\* over a frame.
WrongSecretDeliversNothing ==
  secret["client"] # secret["server"] => \A s \in Side : delivered[s] = <<>>

\* The tunnel implements the pipe that trait Tunnel promises.
Pipe == INSTANCE FramePipe WITH
  Data <- 0..MAX_PLAINTEXT,
  live <- {s \in Side : pc[s] # "closed"}

PipeSpec == Pipe!Spec

DeliveredInOrder == Pipe!DeliveredInOrder

\* relay_bidirectional: a frame written in full reaches the other end's caller
\* unless that end is dropped, even with both directions' buffers full.
EventuallyDelivered ==
  \A s \in Side : \A i \in 1..MaxFrames :
    Len(sent[s]) >= i ~> (Len(delivered[Peer(s)]) >= i \/ pc[Peer(s)] = "closed")

\* An end that goes away takes the other end with it: no half-dead tunnel
\* stays behind when one side is dropped or the connection fails.
TeardownPropagates ==
  \A s \in Side : pc[s] = "closed" ~> pc[Peer(s)] = "closed"
=============================================================================

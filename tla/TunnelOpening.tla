--------------------------- MODULE TunnelOpening ---------------------------
(***************************************************************************)
(* The opening of one tunnel, byte for byte, for every way the two ends    *)
(* may have been configured: from the connection to the relay.  A plain or *)
(* QUIC end sends frames, a length of two bytes and a body; an encrypted   *)
(* end first exchanges hellos of HelloLen random bytes.  Nothing on the    *)
(* wire says which of the two it is, so that an end without a secret and   *)
(* one with a secret take each other's bytes for their own protocol: a     *)
(* frame for a hello, and a hello for the beginning of a frame, which the  *)
(* rest of it fills if its first two bytes spell a small number.           *)
(*                                                                         *)
(* A stream is written in pieces, a read takes what has arrived of what it *)
(* wants, and either end may go, or the connection fail, at any byte.  Two *)
(* encrypted ends are the subject of EncryptedTunnel; a QUIC and a TCP end *)
(* never meet.                                                             *)
(***************************************************************************)
EXTENDS Naturals, Sequences, SequencesExt, Sides, Configuration

CONSTANTS
  Base,                \* 2^8 in the program
  HelloLen, TagLen,    \* 32 and 16 in the program
  Hellos,              \* hellos an end may draw
  Headers,             \* headers a client may send
  Raw                  \* the target's first bytes, sent behind the status

Byte == 0..(Base - 1)
Value_LittleEndian(two) == two[2] * Base + two[1]
Value(two) == two[1] * Base + two[2]
LenBytes(n) == <<(n \div Base) % Base, n % Base>>

\* A header fits a frame of either tunnel.  A hello may be any bytes.
ASSUME OpeningAssumption ==
  /\ Base \in Nat /\ Base >= 2 /\ TagLen \in Nat
  /\ HelloLen \in Nat /\ HelloLen >= 2 /\ HelloLen < Base * Base
  /\ \A f \in Headers : f \in Seq(Byte) /\ f # <<>> /\ Len(f) + TagLen < Base * Base
  /\ \A h \in Hellos : h \in Seq(Byte) /\ Len(h) = HelloLen
  /\ Raw \in Seq(Byte)

VARIABLES
  guarded,             \* guarded[s]: s was started with a secret
  kind,                \* kind[s]: the tunnel s runs
  pc,                  \* pc[s]: where s is
  todo,                \* todo[s]: bytes s is writing
  want,                \* want[s]: the length of the buffer s is filling
  buf,                 \* buf[s]: what is in it
  wire,                \* wire[s]: bytes from s that have not been read
  end,                 \* end[s]: the stream from s is "open", "finished" or "lost"
  drawn,               \* drawn[s]: the hello s drew, <<>> before
  sent, got,           \* frames given to send_frame, and returned by recv_frame
  padded,              \* padded[s]: what s got is a frame that the end cut short
  relayed              \* bytes the client's relay has passed on

vars == <<guarded, kind, pc, todo, want, buf, wire, end, drawn, sent, got, padded,
          relayed>>
config == <<guarded, kind>>
input == <<want, buf>>
history == <<drawn, sent, got, padded, relayed>>

Frame == Headers \cup {<<0>>, <<1>>}
Reading == {"recv_hello", "recv_len", "recv_body"}
Writing == {"send_hello", "send_frame", "send_raw"}

TypeOK ==
  /\ guarded \in [Side -> BOOLEAN]
  /\ kind \in [Side -> {"plain", "encrypted", "quic"}]
  /\ pc \in [Side -> Reading \cup Writing
                      \cup {"connected", "handed", "dial", "relay", "over", "left"}]
  /\ todo \in [Side -> Seq(Byte)] /\ wire \in [Side -> Seq(Byte)]
  /\ relayed \in Seq(Byte) /\ buf \in [Side -> Seq(Byte)]
  /\ want \in [Side -> 0..(Base * Base - 1)]
  /\ end \in [Side -> {"open", "finished", "lost"}]
  /\ drawn \in [Side -> Hellos \cup {<<>>}]
  /\ sent \in [Side -> Seq(Frame)] /\ got \in [Side -> Seq(Seq(Byte))]
  /\ padded \in [Side -> BOOLEAN]
  /\ \A s \in Side : Len(buf[s]) <= want[s]
  /\ \A s \in Side : todo[s] # <<>> => pc[s] \in Writing \cup {"over", "left"}

-----------------------------------------------------------------------------
Gone(s) == pc[s] \in {"over", "left"}

At(s, p) == pc' = [pc EXCEPT ![s] = p]

Expect(s, p, n) ==
  At(s, p) /\ want' = [want EXCEPT ![s] = n] /\ buf' = [buf EXCEPT ![s] = <<>>]

Emit(s, p, bytes) == At(s, p) /\ todo' = [todo EXCEPT ![s] = bytes]

Encoded(f) == LenBytes(Len(f)) \o f

\* Without the key a ciphertext is any bytes, of which only the number matters.
Sealed(f) == LenBytes(Len(f) + TagLen) \o [i \in 1..(Len(f) + TagLen) |-> 0]

SendFrame(s, f) ==
  /\ Emit(s, "send_frame", IF kind[s] = "encrypted" THEN Sealed(f) ELSE Encoded(f))
  /\ sent' = [sent EXCEPT ![s] = <<f>>]

SendHello(s) ==
  \E h \in Hellos : Emit(s, "send_hello", h) /\ drawn' = [drawn EXCEPT ![s] = h]

Init ==
  /\ \E c \in ClientOptions, s \in ServerOptions :
       /\ guarded = [client |-> GivesSecret(c), server |-> GivesSecret(s)]
       /\ kind = [client |-> LaunchClient(c).kind, server |-> LaunchServer(s).kind]
  /\ \/ {kind["client"], kind["server"]} \in {{"plain"}, {"plain", "encrypted"}}
     \/ {kind["client"], kind["server"]} = {"quic"}
  /\ pc = [client |-> "connected",
           server |-> IF kind["server"] = "encrypted" THEN "recv_hello" ELSE "recv_len"]
  /\ want = [s \in Side |-> IF pc[s] = "recv_hello" THEN HelloLen ELSE 2]
  /\ buf = [s \in Side |-> <<>>] /\ todo = [s \in Side |-> <<>>] /\ wire = [s \in Side |-> <<>>]
  /\ end = [s \in Side |-> "open"] /\ padded = [s \in Side |-> FALSE]
  /\ drawn = [s \in Side |-> <<>>] /\ sent = [s \in Side |-> <<>>]
  /\ got = [s \in Side |-> <<>>] /\ relayed = <<>>

-----------------------------------------------------------------------------
\* secure_handshake, or run_tunnel_client's header.
Start ==
  /\ pc["client"] = "connected"
  /\ \/ kind["client"] = "encrypted" /\ SendHello("client") /\ UNCHANGED sent
     \/ /\ kind["client"] # "encrypted"
        /\ \E h \in Headers : SendFrame("client", h)
        /\ UNCHANGED drawn
  /\ UNCHANGED <<config, input, wire, end, got, padded, relayed>>

\* write_all, as much as there is room for.
Write(s, n) ==
  /\ pc[s] \in Writing /\ end[s] = "open"
  /\ wire' = [wire EXCEPT ![s] = @ \o SubSeq(todo[s], 1, n)]
  /\ todo' = [todo EXCEPT ![s] = SubSeq(@, n + 1, Len(@))]
  /\ UNCHANGED <<config, pc, input, end, history>>

\* What follows a write: the peer's hello or frame, or the relay.  A server
\* that has reported a failure returns.
Wrote(s) ==
  /\ pc[s] \in Writing /\ todo[s] = <<>>
  /\ CASE pc[s] = "send_hello" /\ s = "client" ->
            Expect(s, "recv_hello", HelloLen) /\ UNCHANGED todo
       [] pc[s] = "send_raw" -> At(s, "relay") /\ UNCHANGED <<todo, input>>
       [] pc[s] = "send_frame" /\ s = "server" ->
            /\ IF sent[s] = <<<<0>>>> THEN Emit(s, "send_raw", Raw) ELSE Emit(s, "over", <<>>)
            /\ UNCHANGED input
       [] OTHER -> Expect(s, "recv_len", 2) /\ UNCHANGED todo
  /\ UNCHANGED <<config, wire, end, history>>

-----------------------------------------------------------------------------
\* One read: what has arrived, up to the rest of the buffer.
Smaller(m, n) == IF m < n THEN m ELSE n
Fill_All(s) == Len(wire[Peer(s)])
Fill(s) == Smaller(Len(wire[Peer(s)]), want[s] - Len(buf[s]))

Read(s) ==
  /\ pc[s] \in Reading /\ Len(buf[s]) < want[s] /\ wire[Peer(s)] # <<>>
  /\ buf' = [buf EXCEPT ![s] = @ \o SubSeq(wire[Peer(s)], 1, Fill(s))]
  /\ wire' = [wire EXCEPT ![Peer(s)] = SubSeq(@, Fill(s) + 1, Len(@))]
  /\ UNCHANGED <<config, pc, todo, want, end, history>>

\* The buffer is taken for what was expected: 32 bytes, whatever they are, for a
\* hello, two for a length, and the rest for a body, which at an encrypted end
\* does not decrypt.
Take(s, bytes) ==
  \/ /\ pc[s] = "recv_hello" /\ s = "server"
     /\ SendHello(s)
     /\ UNCHANGED <<input, sent, got>>
  \/ /\ pc[s] = "recv_hello" /\ s = "client"
     /\ \E f \in Headers : SendFrame(s, f)
     /\ UNCHANGED <<input, drawn, got>>
  \/ /\ pc[s] = "recv_len"
     /\ IF kind[s] = "encrypted" /\ Value(bytes) < TagLen
        THEN At(s, "over") /\ UNCHANGED input
        ELSE Expect(s, "recv_body", Value(bytes))
     /\ UNCHANGED <<todo, drawn, sent, got>>
  \/ /\ pc[s] = "recv_body"
     /\ IF kind[s] = "encrypted"
        THEN At(s, "over") /\ UNCHANGED got
        ELSE At(s, "handed") /\ got' = [got EXCEPT ![s] = <<bytes>>]
     /\ UNCHANGED <<todo, input, drawn, sent>>

\* The end of the stream inside a buffer: None, or an error, after which the
\* task returns.  The QUIC tunnel takes the buffer, zeros where nothing came.
\* (Not: the end as soon as the peer has gone; nor: only a clean one.)
StreamEnds_AtOnce(s) == end[Peer(s)] # "open"
StreamEnds_Clean(s) == wire[Peer(s)] = <<>> /\ end[Peer(s)] = "finished"
StreamEnds(s) == wire[Peer(s)] = <<>> /\ end[Peer(s)] # "open"

Full(s) == Len(buf[s]) >= want[s]
CutShort(s) ==
  ~Full(s) /\ StreamEnds(s) /\ kind[s] = "quic" /\ end[Peer(s)] = "finished"

AtEnd(s) ==
  /\ StreamEnds(s)
  /\ \/ pc[s] = "relay"
     \/ pc[s] \in Reading /\ ~Full(s) /\ ~CutShort(s)
  /\ At(s, "over")
  /\ UNCHANGED <<config, todo, input, wire, end, history>>

Padded(s) == [i \in 1..want[s] |-> IF i \in DOMAIN buf[s] THEN buf[s][i] ELSE 0]

Filled(s) ==
  /\ pc[s] \in Reading /\ (Full(s) \/ CutShort(s))
  /\ Take(s, Padded(s))
  /\ padded' = [padded EXCEPT ![s] = @ \/ CutShort(s)]
  /\ UNCHANGED <<config, wire, end, relayed>>

-----------------------------------------------------------------------------
\* run_tunnel_server parses the header, run_tunnel_client looks at the status.
IsHeader(f) == f # <<>> /\ f[1] = 1
IsSuccess(f) == f # <<>> /\ f[1] = 0

Judge(s) ==
  /\ pc[s] = "handed"
  /\ At(s, CASE s = "server" /\ IsHeader(got[s][1]) -> "dial"
             [] s = "client" /\ IsSuccess(got[s][1]) -> "relay"
             [] OTHER -> "over")
  /\ UNCHANGED <<config, todo, input, wire, end, history>>

Dial ==
  /\ pc["server"] = "dial"
  /\ \E status \in {<<0>>, <<1>>} : SendFrame("server", status)
  /\ UNCHANGED <<config, input, wire, end, drawn, got, padded, relayed>>

\* What comes is passed on, to the app or to the target.  (What those send after
\* the opening is the subject of TunnelSession.)
Relay(s) ==
  /\ pc[s] = "relay" /\ wire[Peer(s)] # <<>>
  /\ relayed' = IF s = "client" THEN relayed \o wire["server"] ELSE relayed
  /\ wire' = [wire EXCEPT ![Peer(s)] = <<>>]
  /\ UNCHANGED <<config, pc, todo, input, end, drawn, sent, got, padded>>

-----------------------------------------------------------------------------
\* The tunnel is dropped: see CloseEnd in TunnelSession.
Drop(s) ==
  /\ Gone(s) /\ end[s] = "open"
  /\ \/ /\ kind[s] = "quic" \/ wire[Peer(s)] = <<>>
        /\ end' = [end EXCEPT ![s] = "finished"]
        /\ UNCHANGED wire
     \/ /\ kind[s] = "quic" \/ wire[Peer(s)] # <<>>
        /\ end' = [end EXCEPT ![s] = "lost"]
        /\ \E rest \in Prefixes(wire[s]) : wire' = [wire EXCEPT ![s] = rest]
  /\ UNCHANGED <<config, pc, todo, input, history>>

WriteFails(s) ==
  /\ pc[s] \in Writing /\ todo[s] # <<>>
  /\ end[s] = "lost" \/ end[Peer(s)] # "open"
  /\ At(s, "over")
  /\ UNCHANGED <<config, todo, input, wire, end, history>>

\* The session ends for another reason, or its process does.
Leave(s) ==
  /\ ~Gone(s)
  /\ At(s, "left")
  /\ UNCHANGED <<config, todo, input, wire, end, history>>

\* The connection fails, and some of what was on its way is lost.
Lose ==
  /\ \A s \in Side : end[s] = "open"
  /\ end' = [s \in Side |-> "lost"]
  /\ \E up \in Prefixes(wire["client"]), down \in Prefixes(wire["server"]) :
       wire' = [client |-> up, server |-> down]
  /\ UNCHANGED <<config, pc, todo, input, history>>

Task(s) ==
  \/ \E n \in 1..Len(todo[s]) : Write(s, n)
  \/ Wrote(s) \/ WriteFails(s)
  \/ Read(s) \/ Filled(s) \/ AtEnd(s)
  \/ Judge(s) \/ Relay(s) \/ Drop(s)
  \/ s = "client" /\ Start
  \/ s = "server" /\ Dial

Next == Lose \/ \E s \in Side : Task(s) \/ Leave(s)

Spec == Init /\ [][Next]_vars

\* tokio polls a task that can go on.  Nothing makes an end leave, and nothing
\* bounds how long it waits.
FairSpec == Spec /\ \A s \in Side : WF_vars(Task(s))

-----------------------------------------------------------------------------
\* send_frame and recv_frame of the plain and of the QUIC tunnel implement the
\* pipe of trait Tunnel: in whatever pieces the bytes come and wherever the stream
\* breaks, an end is handed the frame its peer sent or none.  (Left out here are
\* what an end without a secret takes out of the hello of one with a secret, see
\* NoDialAcrossSecrets, and the frames QUIC makes of an ended stream, see
\* NoFrameFromTheEnd.)
Alike(s) == kind[s] = kind[Peer(s)]

Pipe == INSTANCE FramePipe WITH
  Data <- Frame,
  delivered <- [s \in Side |-> IF Alike(s) /\ ~padded[s] THEN got[s] ELSE <<>>],
  live <- {s \in Side : ~Gone(s)}

PipeSpec == Pipe!Spec

\* main.rs, nativeStart, and the two handshakes: over TCP the server dials only
\* if neither end runs under a secret: not when only one was given one, and not
\* when the command line was given one that is no key.  With one exception: a
\* server without a secret takes the hello of a client with one for a frame if
\* that is what the hello happens to begin with, and dials if it is a header.
Spells(hello, f) == IsPrefix(Encoded(f), hello)

NoDialAcrossSecrets ==
  pc["server"] = "dial" \/ sent["server"] # <<>> =>
    \/ kind["server"] = "quic" \/ \A s \in Side : ~guarded[s]
    \/ /\ kind["client"] = "encrypted" /\ kind["server"] = "plain"
       /\ Spells(drawn["client"], got["server"][1])

\* recv_frame takes the status and not a byte more: what the client relays to
\* the app is what the target sent, from its first byte, also when it comes
\* right behind the status; and nothing without a status of success.  The status
\* is the server's, or else the hello of a server with a secret begins with it,
\* and what is relayed is the rest of that hello, again from its first byte.
RelayIntact ==
  relayed # <<>> =>
    \/ sent["server"] = <<<<0>>>> /\ IsPrefix(relayed, Raw)
    \/ /\ kind["server"] = "encrypted" /\ IsSuccess(got["client"][1])
       /\ IsPrefix(Encoded(got["client"][1]) \o relayed, drawn["server"])

\* A frame that was written in full before the stream ended is handed over,
\* unless the connection fails or its reader leaves, also when its writer is
\* gone by then: what has arrived is read before the end is seen.
Whole(s) == sent[s] # <<>> /\ todo[s] = <<>> /\ Alike(s)

WholeFrameArrives ==
  \A s \in Side :
    Whole(s) ~> got[Peer(s)] # <<>> \/ pc[Peer(s)] = "left" \/ end[s] = "lost"

\* However the ends are configured: when one is gone the other one ends too,
\* also where the two wait for each other because one of them has no secret.
EndsTogether == \A s \in Side : Gone(s) ~> Gone(Peer(s))

\* Between two ends of one kind recv_frame hands over a frame only if it was sent:
\* at the end of the stream there is None, or an error, and no frame.
NoFrameFromTheEnd ==
  \A s \in Side : Alike(s) => IsPrefix(got[s], sent[Peer(s)])
=============================================================================

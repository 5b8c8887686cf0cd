# Formal model of vs-vpn

vs-vpn carries TCP connections of local applications through a tunnel. A client
process listens as a SOCKS5 proxy; for every SOCKS connection it opens one tunnel
connection to a server process, names the target in a header frame, waits for a
status frame and then relays bytes. The server dials the target and relays the other
half. The tunnel is plain TCP, encrypted TCP (pre-shared secret) or QUIC. An Android
app embeds the client through JNI.

The TLA+ modules here model that system, TLC checks them on small instances, and
TLAPS proves every safety property that the passing runs check, the three refinements
included, for all values of the parameters. Liveness is TLC's alone.

    tlc -config MCEncryptedTunnel.cfg MCEncryptedTunnel
    tlapm EncryptedTunnelProofs.tla

The other modules with proofs are `TunnelOpeningProofs`, `TunnelSessionProofs`,
`ServerAcceptProofs`, `PeerLookupProofs`, `AddressCodecProofs` and `ProxyLifecycleProofs`.

## The system

| component | source | state | operations | talks to |
|---|---|---|---|---|
| Tunnel abstraction | `feature/tunnel/api` | none (traits) | `send_frame`, `recv_frame`, `relay_bidirectional`, `connect`, `accept` | implemented by the three tunnels, used by client and server |
| Encrypted tunnel | `feature/tunnel/tcp-encrypted` | two session keys, two nonce counters, the stream | handshake, frames, two relay pumps | its peer over TCP, the external stream |
| Plain tunnel | `feature/tunnel/tcp-plain` | the stream | frames, raw relay | same |
| QUIC tunnel | `feature/tunnel/quic` | the connection and one bidirectional stream | frames, raw relay, accept with two waits | same over quinn |
| SOCKS client | `lib/src/client.rs` | one task per SOCKS connection, a semaphore for lookups, a shutdown token | greeting, request, connect, header, status, reply, relay | app, connector, peer lookup |
| Server | `lib/src/server.rs` | the accept loop, one task per tunnel | accept, parse header, dial, status, relay | acceptor, target |
| Address codec | `lib/src/protocol.rs` | none | `read_address`, `encode_address`, `parse_header` | client and server |
| Peer lookup | `core/socket-peer` | none | `identify_peer` (lsof) | joined with each client session |
| JNI proxy | `android/rust-jni` | `STATE`, `LOG_BUF`, one thread with a runtime | start, stop, poll logs | client library, Kotlin |
| Android app | `android/app` | `ProxyManager.isRunning`, status flow, polling job, the service's notification | start, stop, poll | JNI proxy |
| Command line, certificates | `bin/vs-vpn`, `quic/src/cert.rs` | none | what an end runs, from its options and files | client, server |

What makes it correct, and what is hard about it:

- **Encrypted tunnel.** A nonce never repeats under a key although the counters pass
  from `send_frame`/`recv_frame` into two concurrent pumps, `select!` cancels a pump at
  any await, and writes fail between encryption and increment. Both ends agree on keys,
  counters and frame boundaries; different secrets deliver nothing; delivery is in
  order, once, unchanged; full buffers in both directions do not deadlock; an end that
  goes takes the other with it.
- **Session.** The app sees one SOCKS conversation that tells the truth about the dial,
  then the target's bytes; the target sees the app's bytes. Pipelining, half-closes,
  resets and lost connections at any point lead to a complete teardown. How a socket is
  closed decides whether the last message arrives: a TCP socket closed over unread
  input resets, and a dropped quinn connection discards what is in flight.
- **Accept loop.** One client's handshake or failure must not stop the others.
- **Codec.** Length fields of one and two bytes; what follows an address must stay in the
  stream.
- **The opening of a tunnel.** Nothing on the wire says whether an end has a secret, so that
  ends that were configured differently take each other's bytes for their own protocol;
  frames arrive in any pieces, with the relay's first bytes right behind the last of them;
  ends of streams.
- **Client accept loop.** A task joins a session with a lookup that waits for one of four
  permits and then for lsof; sockets must come back, and a shutdown must end everything.
- **Proxy in the app.** A main thread that blocks in start and stop, a proxy thread that may
  end on its own, and a polling coroutine whose cancellation nobody waits for. Four flags, a
  screen and a notification say whether the proxy runs.

`PROJECT.json` lists each hazard at its line with the properties that cover it.

## The modules

**Sides, FramePipe.** The abstract specification: trait `Tunnel` as two pipes of frames.
`Send` appends, `Recv` hands over the next frame, `Drop` ends a side. It says nothing of
keys, bytes or TCP, and does not oblige a receiver to get everything: frames in a pipe
may be lost with an end.

**EncryptedTunnel.** Both ends of one encrypted connection. `pc` is where an end is
(`send_hello`, `recv_hello`, then `frames` for the header and the status, `relay`,
`closed`). `out` and `inp` split `write_encrypted_frame` and `read_encrypted_frame` at
their awaits: `Seal` encrypts, `WriteLen` and `WriteBody` write, and the counter moves
with the body because no await separates the two; `ReadLen`, `ReadBody`, `Deliver` mirror
it. `Drop` may happen at every point: it stands for the external stream's end, for the
cancellation by `select!` and for a task that is dropped. `Reset` is the TCP connection
failing, with any suffix lost in each direction. A payload is its length, a hello is
the name of the side that drew it, key derivation is a free constructor, and a
ciphertext records key, nonce and size; decryption succeeds exactly when they agree.
`sealed`, `sent` and `delivered` are history variables. That two random hellos or two
derived keys never collide is therefore assumed. The u64 counter's overflow is
out of reach of any run of the program and left out.

**TunnelSession.** One SOCKS connection end to end: app, client task, server task,
target, and three connections `socks`, `tunnel`, `dest` with directions `up` and
`down`. The protocol of a task is the pair of tables `Awaits` and `Sends`: where it
reads, where it writes, what it does next; `Hear`, `Say` and `Fail` (every `?`) run
them. The relay is two pumps per task (`PumpRead`, `PumpWrite`) and `RelayEnds`, the
`select!`. `Drop` closes what the task owns, tunnel first. `CloseEnd` says what a close
does: TCP delivers what was written, unless the closing end has unread input (`Lossy`),
which resets the connection; over QUIC every close of the tunnel is `Lossy`. A request
with an unsupported command leaves its unread `rest` behind. The parties may pipeline,
close, half-close, and the network may break any connection at any time (`Cut`). The
tunnel is used as the FIFO of whole frames that `FramePipe` promises. (A QUIC stream that has
ended reads as an empty frame, which takes the same exit as an error: it is neither a status
nor a header. One that ends inside a frame is the subject of `TunnelOpening`.)

**SocksProxy.** The abstract specification of `TunnelSession`: the app asks, the proxy dials
at most once and answers with the verdict, and then two streams are carried, each reader
getting a prefix. It has no tunnel, no frames and no connections. The refinement maps the
histories `appSent`, `appGot`, `targetSent`, `targetGot` and `dialed`; every step inside the
tunnel is a stutter.

**ServerAccept.** The accept loop with several clients: `Accept` takes the oldest
connection; with the plain acceptor its session starts, otherwise the loop is `opening`
until the client has spoken (`Opened`) or has failed (`OpenFails`), which stops the loop
and, as `main` returns, cuts every session. `AcceptFails` is an error of `accept(2)`, which leaves
the loop by the same `?`: there is no free descriptor, or the connection at the head of the queue
broke while it was there. QUIC's connections share one socket and know neither error. A client
may arrive, speak, stall for ever, or leave.

**PeerLookup.** The client's accept loop. `Accept` spawns a task whose `session` and
`lookup` are joined; `AskPermit` takes a permit of the semaphore or a place in its queue,
`LookupEnds` reports a process and hands the permit on, and only `TaskEnds`, after both,
closes the socket. `AcceptFails` is the `?` of this loop. What is reported is `parse_lsof_f` of any output lsof may give: the lines
of the app, of another process, or of both in either order, cut short anywhere.
`Cancel` and `LeaveLoop` are the shutdown token, `DropRuntime` what the drop of the runtime
does to every task. The semaphore is tokio's, modelled as the queue it documents.

**AddressCodec.** The three functions of `protocol.rs` as operators with the code's names,
over bytes below `ByteMod`, and the steps that use them: `ReadTarget`, `SendHeader`,
`ParseHeader`. A string is the address that its text spells, or a name's bytes. `Lossy` is
`from_utf8_lossy` over a UTF-8 with one ASCII class, the three-byte replacement character
and an invalid byte. `ForeignHeader` is a frame from another program, cut at every length.

**Configuration.** What an end runs, from its options: `parse_secret` of the command line, for
which a text that is no key is an error, `parse_secret_opt` of the app, for which it is no
secret, `build_quic_client_tls`, the server's certificate, and the choice between the plain,
the encrypted and the QUIC tunnel. No state; `TunnelOpening` starts from it.

**TunnelOpening.** One tunnel from the connection to the relay, byte for byte, between two
ends started with any options. `send_frame` is `SendFrame` and any number of `Write`s,
`recv_frame` two buffers to fill: `Read` takes what has arrived, up to the rest of the buffer,
`Filled` takes the buffer for what was expected of it, `AtEnd` is the end of the stream
inside a buffer. `CutShort` is QUIC's `read_exact_quic`, whose `None` its caller drops, so that
the buffer is taken with the zeros it was made of; `padded` marks such a frame. An encrypted
end meets a plain one here: it draws a hello (`SendHello`, kept in `drawn`), takes 32 bytes of
frames for its peer's, and what follows for a length and a ciphertext that cannot decrypt; an
encrypted client that has got its 32 bytes sends its header (`Sealed`). The plain end reads the
hello, which may be any bytes, as frames. `Judge`, `Dial` and `Relay` are the two tasks of
`TunnelSession` as far as these bytes go. `Leave` lets an end go at any point, `Lose` the
connection.

**ProxyLifecycle.** The proxy inside the Android app. `main` is what the app's main thread
does: it handles one intent or `onDestroy` after the other, and blocks in `nativeStart`
(`starting`) and `nativeStop` (`joining`). `button` is what the button was last drawn
with, which lags behind the status. `thread` is the proxy thread, `stored` and
`cancelled` are `STATE` and its token, `lookup` a name lookup on the runtime's blocking
pool, for which the drop of a runtime waits. `poller[n]` is the coroutine launched by
session n between its suspension (`delay`), its call (`polling`) and its update
(`holding`). `screen` is `ProxyManager.status`, `notice` the service's notification. A log line is the session that wrote it. Only the main thread enters the
critical sections on `STATE`, so its lock needs no variable.

## The runs

| run | bounds | shows |
|---|---|---|
| `encrypted` | two secrets, `LenMod` 8, tag 2, payloads 5 and 6, buffers of 2 units, 3 frames a side | nonces, alignment, agreement, wrong secret, implements `FramePipe`; delivery with both buffers full, teardown |
| `session_safety` | TCP and QUIC, buffers of 1 unit, 2 chunks each way | implements `SocksProxy`: one conversation, truthful replies, both streams |
| `session_liveness` | TCP and QUIC, 1 chunk each way | teardown, every request answered or its connection ended, if connect and the dial return; over TCP refusal reported, response complete |
| `accept` | the three acceptors, 3 clients, descriptors for 2 or 3 | isolation with the plain acceptor, descriptors and unbroken queue provided; service unless the loop waits for a stalled client or has stopped |
| `lookup` | 4 clients, 1 permit, 3 descriptors | permits used, lookups within their connection, one process reported, sockets come back, shutdown ends all |
| `address_codec` | bytes below 8, addresses of 2 and 4 bytes, names of up to 7 | targets arrive, long names are cut where their length wraps, no index past the end |
| `opening` | every option, bytes below 4, hellos of 4, a tag of 1, headers of 1, 5 and 6 bytes | implements `FramePipe`; no dial across secrets except for what a hello spells, the relay starts at the right byte, frames arrive, ends go together |
| `proxy` | 5 taps, 2 log lines | no proxy lost, one poller, views agree, own log lines, the main thread never blocked for ever |
| `quic_refusal_lost`, `accept_encrypted_stops`, `frames_quic_end`, `proxy_stop_hangs` | as above, or smaller | counterexamples, see below |

Why the bounds suffice. The length arithmetic only meets the boundary `MAX_PLAINTEXT`
(5 with `LenMod` 8 and a tag of 2): payloads at and above it are tried, and the proofs
cover all sizes. Three
frames are header or status plus two relayed ones, so that counters carry over into the
relay and move on there. Buffers of one or two units make every blocking write
happen; a frame is two units. Two chunks tell reordering and repetition from order.
Three clients are one that is served, one that stalls or leaves, and one that waits;
with one permit the third lookup waits behind a waiter, and a fourth client finds no
descriptor. In `opening` a header is shorter than a hello, or longer by a length below the
tag, or by a length and a ciphertext: the three ways in which an encrypted server can
misread it; two hellos spell a length that the rest of them cannot fill, and three begin with a
whole frame: a header, a status of success, and an empty one. A name of three invalid bytes is
longer than a byte below 8 can count, and the longest name of ASCII is not. Three taps
are a start, a stop and another start; two more let either be repeated.
Deadlock checking is off throughout: sessions end, and a server may wait for
clients for ever.

Fairness. Weak fairness is given to the steps of the tasks, to each task as a whole in
`TunnelSession` and `TunnelOpening` (tokio polls a task whose I/O is ready and the kernel
moves what was written), and, in `TunnelSession`, to the parties
reading what reaches them: nothing in the code bounds how long a party may refuse to
read. `Connect` and `Dial` get none there: both wait for a name server, and `Connect` for the
hello of an encrypted server, without a timeout. `Teardown` and `AppAnswered` assume that they
return (`CallsReturn`); where a server is busy with a client that stalls in its handshake, or has
no secret while the client has one, connect does not, and the app waits. (That a task which has
ended its session also closes its socket rests on the lookup joined to it: `PeerLookup`.) No fairness is given to writing, closing, breaking a connection, leaving, or
ending a session. In `PeerLookup` and `ProxyLifecycle` two specifications differ in one
assumption only: whether a lookup, of lsof or of a host name, ends. Nothing in the code
bounds either, so that the runs that need the end say so (`LookupsEndSpec`, `FairSpec`),
and `proxy_stop_hangs`, without it (`StuckLookupSpec`), shows what depends on it.

What the violation runs show:

- **A refusal can be lost over QUIC.** After a failed dial the server writes status 5
  and drops the tunnel; the connection is closed with it and undelivered data is
  discarded. The app's socket is then closed without a reply. The QUIC tests keep the
  server's tunnel alive until the client is done and do not meet this.
- **One client can end an encrypted server.** The handshake's error leaves `accept`, the
  loop and `main`. A QUIC server behaves likewise.
- **The end of a QUIC stream is taken for a frame**, where the trait promises `None`. A
  status cut off after its length reads as success.
- **Stopping the app's proxy has no timeout**, although a comment announces five seconds.

The models contain more behaviour of this kind that no property rules out. It was seen
while they were written and is kept among the hazards:

- a name of more than 85 bytes that are not UTF-8 is tripled in length by `from_utf8_lossy`,
  its length wraps in `as u8`, and the server dials the front of the name and takes two letters
  of it for the port: `DialsWhatWasAsked` is stated for lengths that fit, `WrappedNameIsCut` says
  what happens to the others;
- an error of `accept(2)` that concerns one connection alone, aborted while it was queued, ends
  a server of any TCP transport, the plain one included, and the client's proxy likewise:
  `PlainIsolation` excludes it by name;
- a hello is random, and 31 of 65 536 spell a length that the rest of the hello fills. If a header
  with its port stands there, a server without a secret dials for a client with one; if a
  zero does, a client without a secret takes it for the status of success, reports it to the app
  and relays the rest of the hello. `NoDialAcrossSecrets` and `RelayIntact` say that it takes
  such a hello;
- the reply to an unsupported command is followed by a close over unread input, which makes
  TCP reset the connection;
- a session's socket waits for its lookup and for those before it in the queue, although
  a comment says that lookups run in the background: `SocketReleased` needs
  `LookupsEndSpec`;
- lines of an earlier session may appear on the screen of the next, since nobody waits for
  the cancelled polling job;
- after an accept error the app goes on saying that the proxy runs;
- a client without a secret and a server with one wait for each other until one of them is
  stopped, with the app's connection open between them: `EndsTogether` starts from an end
  that is gone. A short header does not fill a hello, and nothing times out;
- in the app a secret that is no key counts as none, and the tunnel is plain;
- `--secret` is accepted and ignored with `--transport quic`, and with only one of
  `--quic-cert` and `--quic-key` the server makes a certificate of its own;
- lsof is asked for a socket with the app's address at either end, which the proxy's own
  socket has too: the process in the log may be the proxy;
- four quick taps on a button that is redrawn late let the `onDestroy` of one service stop
  the proxy that a later START has begun.

## The proofs

`EncryptedTunnelProofs` proves, for every set of secrets, every `LenMod`, `TagLen`,
`RelayBuf` and set of sizes that satisfy `SizeAssumption`, and without a bound on buffers
or frames:

| theorem | statement |
|---|---|
| `TypeCorrect` | `Spec => []TypeOK` |
| `NonceSafety` | `Spec => []NonceNeverReused` |
| `FramingSafety` | `Spec => []StreamAligned` |
| `StaysInStep` | `Spec => []InStep` |
| `WrongSecretSafety` | `Spec => []WrongSecretDeliversNothing` |
| `ImplementsPipe` | `Spec => PipeSpec` |
| `DeliverySafety` | `Spec => []DeliveredInOrder` |

All rest on one inductive invariant, `IInv`. Nonce safety alone is not inductive: it
needs that the k-th use a side made of its key has nonce k - 1 and that a use without a
completed write is the last (`SealOk`), and that the two sides' keys differ in
their owner. Delivery needs what is on the connection: `StreamAligned` says that it is
the unread part of the peer's stream, hello first and then a length and a ciphertext per
frame, and with `OpenOk` (what a side has read and delivered is a prefix of what its peer
sent) and `HelloOk` (who holds which hello when) a read opens what it is meant to.
`SecretInv` says that under different secrets nothing was ever opened. `StreamAligned` is
claimed only while the reader lives, since a reader that failed has stopped counting.
`ImplementsPipe` maps `WriteBody` to `Send`, `Deliver` to `Recv`, each way to close to
`Drop`, and every other step to a stutter.

`ProxyLifecycleProofs` proves, for any number of clicks and of lines a proxy may log
(`BoundsAssumption` says only that both bounds are naturals):

| theorem | statement |
|---|---|
| `TypeCorrect` | `Spec => []TypeOK` |
| `NoProxyLost` | `Spec => []NoOrphan` |
| `SinglePoller` | `Spec => []OnePoller` |
| `LinesStayInSession` | `Spec => []OwnLines` |
| `ViewsStayTrue` | `Spec => []ViewsAgree` |

The four properties speak of moments in which the main thread is free, and none of them is
inductive. The invariant adds what holds inside `nativeStart` and `nativeStop`. `Known`:
`STATE` and `isRunning` differ only while a stop joins its thread, and a thread that has
not ended is known to one of the two. `Launched`: a job that is not cancelled is the
current session's, there is none while a start or a stop is under way, and the job of a
session to come has never run. `Logged`: from the clearing of the buffer in `nativeStart` to
the return of `nativeStop` only the current session writes to it, so that the one job that is
not cancelled can be handed nothing else. `Shown`: what the screen says during a start.

`ServerAcceptProofs` proves, for any finite set of clients, any acceptors and any numbers of
descriptors (`AcceptAssumption`):

| theorem | statement |
|---|---|
| `TypeCorrect` | `Spec => []TypeOK` |
| `PlainSessionsIsolated` | `Spec => []PlainIsolation` |

`PlainIsolation` supposes descriptors for all clients, and that no connection broke before it was
accepted; both suppositions are about every state until then, because a session that is cut
stays cut, the loop has then stopped (`CutAtStop`), and a broken connection that was never
accepted stays so. With the plain acceptor no handshake can fail (`Handshaking`); so the loop
stops only in `AcceptFails`, either for a connection at the head of the queue that broke there and
is never accepted, which contradicts the second supposition, or for want of a descriptor. But
a connection that waits in the queue holds none (`Queued`), so that those that hold one are fewer
than the clients (lemma `DescriptorLeft`, by the cardinality of finite sets).

`PeerLookupProofs` proves, for any finite set of clients, any number of permits and any number
of descriptors:

| theorem | statement |
|---|---|
| `TypeCorrect` | `Spec => []TypeOK` |
| `SemaphoreSafety` | `Spec => []PermitsUsed` |
| `SocketOutlivesLookup` | `Spec => []LooksAtOpenSocket` |
| `LogsOneProcess` | `Spec => []ReportsOneProcess` |

`Queued` says that the semaphore's queue holds exactly the lookups that wait, each once, so that
the permit of a lookup that ends goes to one that still waits for it, and the count of those
that look stays the same; `Owned`, that a lookup which has not ended belongs to a task that has
its socket. `PermitsUsed` is inductive with these two, by the cardinality of finite sets. For
`ReportsOneProcess` the outputs of lsof are looked at (lemma `OneProcess`): wherever an output is
cut off, the first name in it is its second line, right behind the pid of the same process.

`TunnelOpeningProofs` proves, for any options of the two ends, any base of the bytes, any lengths of
hello and tag, and any hellos, headers and bytes of the target (`OpeningAssumption`):

| theorem | statement |
|---|---|
| `TypeCorrect` | `Spec => []TypeOK` |
| `SecretsMatch` | `Spec => []NoDialAcrossSecrets` |
| `RelaysFromTheFirstByte` | `Spec => []RelayIntact` |
| `ImplementsPipe` | `Spec => PipeSpec` |

The invariant follows the bytes: `Progress` says what an end has sent and got at each of its
steps, and `StreamAligned` that what it holds and what is on the connection to it is the part of
its peer's stream behind what it has taken: of a header, of the status and the target's first
bytes, or of a hello. `Guarded` and `Matched` say which tunnels can meet under the options.
`Unheard`: an encrypted end is never handed a frame, because what it takes for a ciphertext
does not decrypt, and an encrypted client hears nothing at all unless its server has taken a
frame out of its hello. `Spelled`: what a plain end is handed by an encrypted one is what the
drawn hello begins with; it follows from `StreamAligned`, whatever the hello is. `RelayIntact` is
inductive with these. `Padding` and `Truthful` are about QUIC's cut buffers: a stream that was cut
carries nothing more, and a frame that was not padded, between ends of one kind, is the one the
peer sent. That is what `PipeSpec` claims. `ImplementsPipe` maps `SendFrame` to `Send`,
the `Filled` that hands over a body to `Recv`, each way for an end to go to `Drop`, and every
other step, those that write and read bytes, to a stutter.

`TunnelSessionProofs` proves, for any sizes of the buffers and any numbers of chunks
(`BoundsAssumption`: they are naturals), over TCP and over QUIC:

| theorem | statement |
|---|---|
| `TypeCorrect` | `Spec => []TypeOK` |
| `ImplementsProxy` | `Spec => ServiceSpec` |

`Opened` and `Dialed` say how far one task can be when the other is at a given step, and what the
app has asked and the dial has given by then; `Script` is what the app and the target write.
`Flows` is about everything that is carried: for each direction there are three numbers, of the
units that have left each connection, such that what the parties have heard, what is on a
connection and what a pump holds are the right units for their places (`Right`), and
that what a task has written adds up to what it has taken and what it says of its own accord.
The numbers are existential because a reset discards what no variable keeps. Each part is about
one connection or one task, and claims nothing of what is broken or closed, so that no failure
disturbs the rest. A step inside the tunnel is a stutter of `SocksProxy`; a step of a party is
the abstract one because what it hears is the right unit. The proof found that two arms of the
`CASE` in `AppMay` overlapped, which TLC decides by their order and the logic does not; they
exclude each other now.

`AddressCodecProofs` proves, for any size of a byte above 7, any lengths of addresses, any
names of a length that fits a byte, and any texts that spell an address:

| theorem | statement |
|---|---|
| `TypeCorrect` | `Spec => []TypeOK` |
| `HeadersCannotPanic` | `Spec => []NeverPanics` |
| `PipelinedDataStays` | `Spec => []LeavesPipelined` |
| `TargetArrives` | `Spec => []DialsWhatWasAsked` |
| `LongNamesAreCut` | `Spec => []WrappedNameIsCut` |

The steps are few; the work is in the functions. `Lossy` recurses over the bytes of a name, and
what it computes needs an induction. The library's induction theorems take an operator, which
no prover here can instantiate, so `Induction` states it with a set of numbers, and gets it from
the well-foundedness of the subsets of a finite set. With it the recursion has a solution
(`FromDefined`), what becomes of the rest of a text does not depend on what came before
(`EveryRest`), and decoding is the identity on what it has decoded (`LossyText`). The server decodes what the client has decoded, so that this
is why the name survives. `RoundTrip` says that `parse_header` inverts `encode_address` on what
`read_address` can return and whose length fits a byte. Of a longer name the header still holds
every byte, and its length is the true one less a multiple of 256, so that there are always two
letters left for the port: `LongNamesAreCut`.

### What the proofs assume

`SizeAssumption`, `SizesAssumption`, `OpeningAssumption`: the sizes of the program satisfy them
(a tag of 16 and a limit of 65 519 bytes within two bytes of length; addresses of 4 and 16 below
256; a hello of 32 bytes, at least 2 and below 65 536; a header that with the tag fits two bytes
of length). They are about sizes alone: hellos, headers and the target's data may be any bytes.
`SecretsAssumption`: a text that is a key, 64 hexadecimal
digits, is none of the texts that are not. `LiteralAssumption`: what a text is parsed to, if it
is an address, is one. `AcceptAssumption` and the two `BoundsAssumption`s: counts are naturals
and sets of clients finite. TLC evaluates all of them in the runs.

Only model-checked: all liveness. It depends on fairness and on when a step is enabled, which
are out of the prover's reach.

## Not modelled

Generating and reading certificates, the TLS configuration, the verifier that accepts any
certificate, keygen, logging set-up, the Android screens, the permission dialog and the
settings store: input and output or library calls without a protocol of their own. Of the
command line and of the certificates only what an end comes to run is in `Configuration`.
How lsof works: only what it may print. The contents of payloads beyond their length or
their number, outside `TunnelOpening` and `AddressCodec`.

## Plan

1. *(done)* `EncryptedTunnel`, `FramePipe`, and the proofs; `TunnelSession`; `ServerAccept`;
   `PeerLookup`; `AddressCodec`; `ProxyLifecycle`.
2. *(done)* `SocksProxy` and its refinement; mixed configurations, the plain and QUIC frames as
   a refinement of `FramePipe`, and an ended stream composed with the tasks (`Configuration`,
   `TunnelOpening`); the output of lsof; the app's notification.
3. *(done)* The proofs of all safety properties of the runs, and of the three refinements.
4. To come: what `SocksProxy` promises, stated for itself and proved: that an app which is told
   of success has been connected to the target it asked for, and that it is told once. With
   `ImplementsProxy` this holds for `TunnelSession` too.

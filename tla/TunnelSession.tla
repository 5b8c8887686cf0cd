--------------------------- MODULE TunnelSession ---------------------------
(***************************************************************************)
(* One SOCKS connection from end to end: the application, the client task  *)
(* (handle_socks_client and run_tunnel_client of lib/src/client.rs), the   *)
(* server task (run_tunnel_server of lib/src/server.rs) and the target the *)
(* server dials.  Four parties, three connections in a row:                *)
(*                                                                         *)
(*     app --socks-- client --tunnel-- server --dest-- target              *)
(*                                                                         *)
(* A unit on a connection is a SOCKS message, a frame or a chunk of data.  *)
(* The tunnel is the pipe of FramePipe; what its transport adds is how it  *)
(* closes.  TCP: what was written arrives before the end of the stream,    *)
(* unless the closing end leaves input unread, which resets the connection *)
(* and may destroy what is still on its way.  QUIC: the tunnel owns the    *)
(* quinn::Connection, dropping it closes the connection at once, and what  *)
(* the peer has not received by then may be lost.                          *)
(***************************************************************************)
EXTENDS Naturals, Sequences

CONSTANTS
  Transports,          \* what a tunnel may run over: "tcp" (plain and encrypted), "quic"
  Cap,                 \* units one direction of a connection buffers
  MaxUp, MaxDown       \* bound: chunks the app, and the target, send

ASSUME TransportAssumption == Transports \subseteq {"tcp", "quic"}
ASSUME BoundsAssumption == Cap \in Nat /\ MaxUp \in Nat /\ MaxDown \in Nat

VARIABLES
  transport,           \* what this tunnel runs over
  pc,                  \* pc[x]: where the task of node x is
  hold,                \* hold[x][d]: the chunk x's pump in direction d has read
  q,                   \* q[c][d]: units on connection c, direction d
  shut,                \* ends <<c, who>> that will write no more
  gone,                \* ends that have been closed
  reset,               \* connections that carry nothing any more
  cut,                 \* connections the network broke
  dialed,              \* what became of the server's dial
  appSent, appGot,     \* history: units the app wrote and read
  targetSent, targetGot

vars == <<transport, pc, hold, q, shut, gone, reset, cut, dialed,
          appSent, appGot, targetSent, targetGot>>

Conn == {"socks", "tunnel", "dest"}
Dir == {"up", "down"}                     \* up: from the app to the target
Node == {"client", "server"}
Other(d) == IF d = "up" THEN "down" ELSE "up"

Ends == [socks |-> [up |-> "app", down |-> "client"],
         tunnel |-> [up |-> "client", down |-> "server"],
         dest |-> [up |-> "server", down |-> "target"]]
Writer(c, d) == <<c, Ends[c][d]>>
Reader(c, d) == <<c, Ends[c][Other(d)]>>

\* relay_bidirectional: the connection a pump reads; it writes the other one.
From(x, d) == IF x = "client" THEN (IF d = "up" THEN "socks" ELSE "tunnel")
                              ELSE (IF d = "up" THEN "tunnel" ELSE "dest")
To(x, d) == From(x, Other(d))

\* What each connection carries in each direction.
Chunk == {"data"} \X (1..(IF MaxUp > MaxDown THEN MaxUp ELSE MaxDown))
Carries ==
  [socks |-> [up |-> ({"greet", "greet_auth", "connect", "bind", "bad_atyp", "rest"} \X {0})
                       \cup Chunk,
              down |-> ({"method"} \X {0, 255}) \cup ({"reply"} \X {0, 5, 7}) \cup Chunk],
   tunnel |-> [up |-> {<<"header", 0>>} \cup Chunk,
               down |-> ({"status"} \X {0, 5}) \cup Chunk],
   dest |-> [up |-> Chunk, down |-> Chunk]]
Unit == UNION {Carries[c][d] : c \in Conn, d \in Dir}
None == <<"none", 0>>

ClientPc == {"greeting", "method", "no_method", "request", "not_supported", "connect",
             "header", "status", "granted", "refused", "relay", "ending", "closing", "done"}
ServerPc == {"none", "header", "dial", "ok", "refused", "relay", "ending", "closing", "done"}

TypeOK ==
  /\ transport \in Transports
  /\ pc \in [Node -> ClientPc \cup ServerPc]
  /\ pc["client"] \in ClientPc /\ pc["server"] \in ServerPc
  /\ hold \in [Node -> [Dir -> Chunk \cup {None}]]
  /\ q \in [Conn -> [Dir -> Seq(Unit)]]
  /\ \A c \in Conn, d \in Dir : q[c][d] \in Seq(Carries[c][d])
  /\ shut \subseteq {Writer(c, d) : c \in Conn, d \in Dir} /\ gone \subseteq shut
  /\ cut \subseteq reset /\ reset \subseteq Conn
  /\ dialed \in {"no", "connected", "failed"}
  /\ appSent \in Seq(Carries.socks.up) /\ appGot \in Seq(Carries.socks.down)
  /\ targetSent \in Seq(Chunk) /\ targetGot \in Seq(Chunk)

-----------------------------------------------------------------------------
\* Connections.

Exists(c) ==
  /\ c = "tunnel" => pc["server"] # "none"
  /\ c = "dest" => dialed = "connected"

First(c, d) == Head(q[c][d])

Take(c, d) == q[c][d] # <<>> /\ q' = [q EXCEPT ![c][d] = Tail(@)]

\* The end of the stream, or an error.  (Not: the end alone.)  Over QUIC recv_frame
\* makes an empty frame of an ended stream, and its reader leaves by the same exit:
\* neither a status nor a header can be empty.  A stream that ends inside a frame
\* is TunnelOpening's.
ReadEnds_Graceful(c, d) == q[c][d] = <<>> /\ Writer(c, d) \in shut
ReadEnds(c, d) == q[c][d] = <<>> /\ (Writer(c, d) \in shut \/ c \in reset)

WriteFails(c, d) == c \in reset \/ Reader(c, d) \in gone

\* What may be left of a connection that breaks under what d still carries.
Broken(c, d) ==
  {[e \in Dir |-> IF e = d THEN SubSeq(q[c][d], 1, k) ELSE <<>>] : k \in 0..Len(q[c][d])}

\* A write to an end that is gone may still succeed: it goes nowhere, or makes
\* that end's host reset the connection.
Put(c, d, u) ==
  /\ c \notin reset
  /\ \/ /\ Reader(c, d) \notin gone /\ Len(q[c][d]) < Cap
        /\ q' = [q EXCEPT ![c][d] = Append(@, u)]
        /\ UNCHANGED reset
     \/ /\ Reader(c, d) \in gone
        /\ \/ UNCHANGED <<q, reset>>
           \/ /\ \E rest \in Broken(c, Other(d)) : q' = [q EXCEPT ![c] = rest]
              /\ reset' = reset \cup {c}

\* The end that writes direction d of c is dropped.
Lossy(c, d) == q[c][Other(d)] # <<>> \/ (c = "tunnel" /\ transport = "quic")

CloseEnd(c, d) ==
  /\ shut' = shut \cup {Writer(c, d)}
  /\ gone' = gone \cup {Writer(c, d)}
  /\ IF Lossy(c, d)
       THEN /\ \E rest \in Broken(c, d) : q' = [q EXCEPT ![c] = rest]
            /\ reset' = reset \cup {c}
       ELSE UNCHANGED <<q, reset>>

-----------------------------------------------------------------------------
Init ==
  /\ transport \in Transports
  /\ pc = [x \in Node |-> IF x = "client" THEN "greeting" ELSE "none"]
  /\ hold = [x \in Node |-> [d \in Dir |-> None]]
  /\ q = [c \in Conn |-> [d \in Dir |-> <<>>]]
  /\ shut = {} /\ gone = {} /\ reset = {} /\ cut = {}
  /\ dialed = "no"
  /\ appSent = <<>> /\ appGot = <<>> /\ targetSent = <<>> /\ targetGot = <<>>

Go(x, p) == pc' = [pc EXCEPT ![x] = p]

\* What no step of a task changes.
parties == <<transport, appSent, appGot, targetSent, targetGot>>
ends == <<shut, gone, cut>>

\* What a task reads at a point of the protocol, and where it goes from there.
Awaits == [client |-> [greeting |-> <<"socks", "up">>, request |-> <<"socks", "up">>,
                       status |-> <<"tunnel", "down">>],
           server |-> [header |-> <<"tunnel", "up">>]]

AfterRead(x, u) ==
  CASE x = "server" -> "dial"
    [] u = <<"greet", 0>> -> "method"
    [] u = <<"greet_auth", 0>> -> "no_method"
    [] u = <<"connect", 0>> -> "connect"
    [] u = <<"bind", 0>> -> "not_supported"
    [] u = <<"bad_atyp", 0>> -> "ending"
    [] u[1] = "status" -> IF u[2] = 0 THEN "granted" ELSE "refused"

\* What a task writes at a point of the protocol, and where it goes from there.
Says(c, d, kind, n, p) == [at |-> <<c, d>>, unit |-> <<kind, n>>, next |-> p]

\* run_tunnel_client waits for the status behind its header.
AfterHeader_Optimistic == "granted"
AfterHeader == "status"

Sends ==
  [client |-> [method |-> Says("socks", "down", "method", 0, "request"),
               no_method |-> Says("socks", "down", "method", 255, "ending"),
               not_supported |-> Says("socks", "down", "reply", 7, "ending"),
               header |-> Says("tunnel", "up", "header", 0, AfterHeader),
               granted |-> Says("socks", "down", "reply", 0, "relay"),
               refused |-> Says("socks", "down", "reply", 5, "ending")],
   server |-> [ok |-> Says("tunnel", "down", "status", 0, "relay"),
               refused |-> Says("tunnel", "down", "status", 5, "ending")]]

\* A request the client refuses after its first four bytes: the rest of it,
\* the address and the port, stays unread.
Unfinished == {"bind", "bad_atyp"}

\* read_exact on the SOCKS side, recv_frame on the tunnel.
Hear(x) ==
  /\ pc[x] \in DOMAIN Awaits[x]
  /\ LET c == Awaits[x][pc[x]][1]
         d == Awaits[x][pc[x]][2]
     IN /\ q[c][d] # <<>>
        /\ q' = [q EXCEPT ![c][d] = IF First(c, d)[1] \in Unfinished
                                  THEN <<<<"rest", 0>>>> \o Tail(@) ELSE Tail(@)]
        /\ Go(x, AfterRead(x, First(c, d)))
  /\ UNCHANGED <<hold, ends, reset, dialed, parties>>

Say(x) ==
  /\ pc[x] \in DOMAIN Sends[x]
  /\ LET s == Sends[x][pc[x]] IN Put(s.at[1], s.at[2], s.unit) /\ Go(x, s.next)
  /\ UNCHANGED <<hold, ends, dialed, parties>>

\* `?`: the task returns, without a reply to whoever waits for one.
Fail(x) ==
  /\ \/ /\ pc[x] \in DOMAIN Awaits[x]
        /\ ReadEnds(Awaits[x][pc[x]][1], Awaits[x][pc[x]][2])
     \/ /\ pc[x] \in DOMAIN Sends[x]
        /\ WriteFails(Sends[x][pc[x]].at[1], Sends[x][pc[x]].at[2])
  /\ Go(x, "ending")
  /\ UNCHANGED <<hold, q, reset, ends, dialed, parties>>

\* connector.connect: the tunnel and the server task that accepted it, or an
\* error that the app is not told of.  It resolves the server's name and, in the
\* encrypted tunnel, reads the server's hello: nothing bounds how long it takes.
Connect ==
  /\ pc["client"] = "connect"
  /\ \/ pc' = [client |-> "header", server |-> "header"]
     \/ Go("client", "ending")
  /\ UNCHANGED <<hold, q, reset, ends, dialed, parties>>

\* TcpStream::connect to the target, whose name it resolves; a failure is
\* reported to the client.
AfterFailedDial_Silent == "ending"
AfterFailedDial == "refused"

Dial ==
  /\ pc["server"] = "dial"
  /\ \/ dialed' = "connected" /\ Go("server", "ok")
     \/ dialed' = "failed" /\ Go("server", AfterFailedDial)
  /\ UNCHANGED <<hold, q, reset, ends, parties>>

\* relay_bidirectional: two pumps, each reading a chunk and writing it.
PumpRead(x, d) ==
  /\ pc[x] = "relay" /\ hold[x][d] = None
  /\ Take(From(x, d), d) /\ hold' = [hold EXCEPT ![x][d] = First(From(x, d), d)]
  /\ UNCHANGED <<pc, reset, ends, dialed, parties>>

\* The buffer is read into again once all of it is written.
AfterWrite_Keeps(x, d) == hold[x][d]
AfterWrite(x, d) == None

PumpWrite(x, d) ==
  /\ pc[x] = "relay" /\ hold[x][d] # None
  /\ Put(To(x, d), d, hold[x][d])
  /\ hold' = [hold EXCEPT ![x][d] = AfterWrite(x, d)]
  /\ UNCHANGED <<pc, ends, dialed, parties>>

PumpDone(x, d) ==
  \/ hold[x][d] = None /\ ReadEnds(From(x, d), d)
  \/ hold[x][d] # None /\ WriteFails(To(x, d), d)

\* select!: the first pump to finish, or fail, ends both.  (Not: the last one;
\* nor: a pump that finds its input ended before it has passed on what it read.)
RelayOver_Both(x) == \A d \in Dir : PumpDone(x, d)
RelayOver_Hasty(x) == \E d \in Dir : ReadEnds(From(x, d), d) \/ PumpDone(x, d)
RelayOver(x) == \E d \in Dir : PumpDone(x, d)

RelayEnds(x) ==
  /\ pc[x] = "relay" /\ RelayOver(x)
  /\ Go(x, "ending")
  /\ hold' = [hold EXCEPT ![x] = [d \in Dir |-> None]]
  /\ UNCHANGED <<q, reset, ends, dialed, parties>>

\* The task returns and drops what it owns, the tunnel before the socket: the
\* relay owns the tunnel's stream, and socks_conn stays until the peer lookup
\* that is joined with the session has ended.
Owned == [client |-> [ending |-> <<"tunnel", "up">>, closing |-> <<"socks", "down">>],
          server |-> [ending |-> <<"tunnel", "down">>, closing |-> <<"dest", "up">>]]

Drop(x) ==
  /\ pc[x] \in {"ending", "closing"}
  /\ Go(x, IF pc[x] = "ending" THEN "closing" ELSE "done")
  /\ LET end == Owned[x][pc[x]] IN
       IF Exists(end[1]) THEN CloseEnd(end[1], end[2]) ELSE UNCHANGED <<q, shut, gone, reset>>
  /\ UNCHANGED <<hold, cut, dialed, parties>>

-----------------------------------------------------------------------------
\* The application and the target.

AppMay == CASE Len(appSent) = 0 -> {"greet", "greet_auth"} \X {0}
            [] Len(appSent) = 1 -> {"connect", "bind", "bad_atyp"} \X {0}
            [] Len(appSent) \in 2..(1 + MaxUp) -> {<<"data", Len(appSent) - 1>>}
            [] OTHER -> {}

AppWrites ==
  /\ Writer("socks", "up") \notin shut
  /\ \E u \in AppMay : Put("socks", "up", u) /\ appSent' = Append(appSent, u)
  /\ UNCHANGED <<pc, hold, ends, dialed, transport, appGot, targetSent, targetGot>>

AppReads ==
  /\ Writer("socks", "up") \notin gone
  /\ Take("socks", "down") /\ appGot' = Append(appGot, First("socks", "down"))
  /\ UNCHANGED <<pc, hold, reset, ends, dialed, transport, appSent, targetSent, targetGot>>

TargetWrites ==
  /\ dialed = "connected" /\ Writer("dest", "down") \notin shut
  /\ Len(targetSent) < MaxDown
  /\ LET u == <<"data", Len(targetSent) + 1>>
     IN  Put("dest", "down", u) /\ targetSent' = Append(targetSent, u)
  /\ UNCHANGED <<pc, hold, ends, dialed, transport, appSent, appGot, targetGot>>

TargetReads ==
  /\ dialed = "connected" /\ Writer("dest", "down") \notin gone
  /\ Take("dest", "up") /\ targetGot' = Append(targetGot, First("dest", "up"))
  /\ UNCHANGED <<pc, hold, reset, ends, dialed, transport, appSent, appGot, targetSent>>

\* Either may close its socket, or only its writing half.
PartyCloses(c, d) ==
  /\ Exists(c) /\ Writer(c, d) \notin gone
  /\ \/ CloseEnd(c, d)
     \/ shut' = shut \cup {Writer(c, d)} /\ UNCHANGED <<q, gone, reset>>
  /\ UNCHANGED <<pc, hold, cut, dialed, parties>>

\* The network breaks a connection; some of what was on its way is lost.
Cut(c) ==
  /\ Exists(c) /\ c \notin reset
  /\ reset' = reset \cup {c} /\ cut' = cut \cup {c}
  /\ \E up \in 0..Len(q[c]["up"]), down \in 0..Len(q[c]["down"]) :
       q' = [q EXCEPT ![c] = [up |-> SubSeq(@["up"], 1, up), down |-> SubSeq(@["down"], 1, down)]]
  /\ UNCHANGED <<pc, hold, shut, gone, dialed, parties>>

\* What a task does once its input is there or its output has room, and what it
\* waits for without any bound.
Runs(x) ==
  \/ Hear(x) \/ Say(x) \/ Fail(x) \/ RelayEnds(x) \/ Drop(x)
  \/ \E d \in Dir : PumpRead(x, d) \/ PumpWrite(x, d)

Task(x) ==
  \/ Runs(x)
  \/ x = "client" /\ Connect
  \/ x = "server" /\ Dial

Next ==
  \/ \E x \in Node : Task(x)
  \/ AppWrites \/ AppReads \/ TargetWrites \/ TargetReads
  \/ PartyCloses("socks", "up") \/ PartyCloses("dest", "down")
  \/ \E c \in Conn : Cut(c)

Spec == Init /\ [][Next]_vars

\* tokio polls a task that can go on, and the app and the target read what reaches
\* them.  Nobody is obliged to write, to close or to break anything, and neither
\* connect nor a dial has to return.
Fairness ==
  /\ \A x \in Node : WF_vars(Runs(x))
  /\ WF_vars(AppReads) /\ WF_vars(TargetReads)

FairSpec == Spec /\ Fairness

\* What some properties assume: that connect and the dial return.  They need not:
\* a server may be busy with another client's handshake (ServerAccept) or have no
\* secret (TunnelOpening), and a name server may not answer.
CallsReturn == []<>(pc["client"] # "connect") /\ []<>(pc["server"] # "dial")

-----------------------------------------------------------------------------
AppData == SubSeq(appSent, 3, Len(appSent))
Got(u) == \E i \in 1..Len(appGot) : appGot[i] = u
Granted == <<<<"method", 0>>, <<"reply", 0>>>>

\* handle_socks_client, run_tunnel_client and run_tunnel_server between them
\* implement the proxy of SocksProxy: whatever the four parties do, the app reads
\* one SOCKS conversation, in which every message answers what the app has
\* written before and tells the truth about the dial, no frame of the tunnel's
\* own protocol leaks into it, and behind the success reply comes the target's
\* stream; the target reads the app's.
Service == INSTANCE SocksProxy WITH
  Asks <- Carries.socks.up, Data <- Chunk,
  asked <- appSent, answered <- appGot, produced <- targetSent, received <- targetGot

ServiceSpec == Service!Spec

AppLeft == Writer("socks", "up") \in gone
Over == pc["client"] = "done" /\ pc["server"] \in {"none", "done"}

\* select! in relay_bidirectional, and `?` before it: when the app or the
\* target closes either half of its socket, or a connection breaks, both tasks
\* end, wherever they are, and nothing of the session stays behind -- if connect
\* and the dial return: a task that is in one of them notices nothing else.
Teardown ==
  CallsReturn => ((shut # {} \/ cut # {}) ~> Over)

\* `?` in handle_socks_client and run_tunnel_client: if connect and the dial return,
\* an app that has sent its request and stays has a reply, or the end of its
\* connection, even when nobody closes and nothing breaks but the tunnel.
AppAnswered ==
  CallsReturn =>
    (Len(appSent) >= 2
       ~> (Len(appGot) >= 2 \/ Writer("socks", "down") \in gone \/ AppLeft \/ "socks" \in cut))

\* run_tunnel_client maps the status of a failed dial to a SOCKS reply and
\* sends it to the app: an app that stays gets it.  (One that has sent data
\* behind its request leaves input unread; its reply may be lost.)
RefusalReported ==
  dialed = "failed" ~> (Got(<<"reply", 5>>) \/ AppLeft \/ cut # {} \/ AppData # <<>>)

\* The same over TCP, where closing the tunnel does not discard what is on
\* its way.
TcpRefusalReported ==
  (transport = "tcp" /\ dialed = "failed")
    ~> (Got(<<"reply", 5>>) \/ AppLeft \/ cut # {} \/ AppData # <<>>)

\* relay_bidirectional ends with the first pump that ends, but not before that
\* pump has passed on all it read: a target that closes after its response has
\* it delivered in full, over TCP, to an app that stays and has no more to say.
TcpResponseComplete ==
  (transport = "tcp" /\ Writer("dest", "down") \in shut)
    ~> (appGot = Granted \o targetSent \/ Writer("socks", "up") \in shut
          \/ cut # {} \/ Len(targetGot) < Len(AppData))
=============================================================================

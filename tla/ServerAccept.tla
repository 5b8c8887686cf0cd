---------------------------- MODULE ServerAccept ----------------------------
(***************************************************************************)
(* The server's accept loop: run_with of lib/src/server.rs over the accept *)
(* of each transport.  The plain acceptor hands over a connection as it is *)
(* accepted.  The encrypted one runs secure_handshake, and the QUIC one    *)
(* the TLS handshake and accept_bi, before it returns, so that the loop    *)
(* waits for one client's part of it; and what fails there leaves the loop *)
(* through `?`, with which main returns and the process ends.              *)
(***************************************************************************)
EXTENDS Naturals, Sequences, FiniteSets

CONSTANTS
  Client,              \* connections that may arrive
  Transports,          \* acceptors: "plain", "encrypted", "quic"
  SlotCounts           \* how many connections a process may have descriptors for

ASSUME AcceptAssumption ==
  /\ Transports \subseteq {"plain", "encrypted", "quic"}
  /\ SlotCounts \subseteq Nat
  /\ IsFiniteSet(Client)

VARIABLES
  transport,           \* the acceptor of this server
  slots,               \* connections this process has descriptors for
  loop,                \* "listening", "opening" a tunnel, or "stopped"
  backlog,             \* connections that have arrived, oldest first
  peer,                \* peer[c]: what the client's end has done
  session              \* session[c]: what the server has made of it

vars == <<transport, slots, loop, backlog, peer, session>>
config == <<transport, slots>>

\* "left" (the client closed, or the network broke the connection) without its
\* part of the handshake, or "left_spoke" after it; a "silent" peer will never
\* send it.
PeerState == {"out", "connected", "spoke", "silent", "left", "left_spoke"}
SessionState == {"none", "opening", "serving", "ended", "cut"}

TypeOK ==
  /\ transport \in Transports /\ slots \in SlotCounts
  /\ loop \in {"listening", "opening", "stopped"}
  /\ backlog \in Seq(Client)
  /\ peer \in [Client -> PeerState]
  /\ session \in [Client -> SessionState]
  /\ \A c \in Client : c \in {backlog[i] : i \in 1..Len(backlog)} => session[c] = "none"
  /\ Cardinality({c \in Client : session[c] = "opening"}) = IF loop = "opening" THEN 1 ELSE 0

Init ==
  /\ transport \in Transports /\ slots \in SlotCounts
  /\ loop = "listening"
  /\ backlog = <<>>
  /\ peer = [c \in Client |-> "out"]
  /\ session = [c \in Client |-> "none"]

-----------------------------------------------------------------------------
\* The clients.

Arrive(c) ==
  /\ peer[c] = "out" /\ loop # "stopped"
  /\ peer' = [peer EXCEPT ![c] = "connected"]
  /\ backlog' = Append(backlog, c)
  /\ UNCHANGED <<config, loop, session>>

Speak(c) ==
  /\ peer[c] = "connected"
  /\ peer' = [peer EXCEPT ![c] = "spoke"]
  /\ UNCHANGED <<config, loop, backlog, session>>

Stall(c) ==
  /\ peer[c] = "connected"
  /\ peer' = [peer EXCEPT ![c] = "silent"]
  /\ UNCHANGED <<config, loop, backlog, session>>

Leave(c) ==
  /\ peer[c] \in {"connected", "spoke", "silent"}
  /\ peer' = [peer EXCEPT ![c] = IF @ = "spoke" THEN "left_spoke" ELSE "left"]
  /\ UNCHANGED <<config, loop, backlog, session>>

-----------------------------------------------------------------------------
\* The loop.

Handshakes_Always == TRUE

\* The transports whose accept waits for the client.
Handshakes == transport # "plain"

Open == {c \in Client : session[c] \in {"opening", "serving"}}

\* run_with returns: main ends, and with the runtime every session.
Stop ==
  /\ loop' = "stopped"
  /\ backlog' = <<>>
  /\ session' = [c \in Client |-> IF c \in Open THEN "cut" ELSE session[c]]

\* The loop awaits one accept after the other, and no session.  (Not: one that
\* serves the session itself; nor: one that accepts while a handshake runs.)
MayAccept_Inline == loop = "listening" /\ \A c \in Client : session[c] # "serving"
MayAccept_Eager == loop # "stopped"
MayAccept == loop = "listening"

\* QUIC's connections share the endpoint's socket; accept(2) takes a descriptor
\* for each.
DescriptorFree == transport = "quic" \/ Cardinality(Open) < slots

Gone == {"left", "left_spoke"}

Accept ==
  /\ MayAccept /\ backlog # <<>>
  /\ DescriptorFree
  /\ session' = [session EXCEPT ![Head(backlog)] = IF Handshakes THEN "opening" ELSE "serving"]
  /\ loop' = IF Handshakes THEN "opening" ELSE loop
  /\ backlog' = Tail(backlog)
  /\ UNCHANGED <<config, peer>>

\* listener.accept() answers with an error: there is no descriptor free, or the
\* connection broke while it was queued (ECONNABORTED, or the network error that
\* is pending on it).  Accept may also take a broken connection as it is.
AcceptFails ==
  /\ loop = "listening" /\ backlog # <<>>
  /\ transport # "quic"
  /\ ~DescriptorFree \/ peer[Head(backlog)] \in Gone
  /\ Stop
  /\ UNCHANGED <<config, peer>>

\* The handshake ends; a client that left after its part may still be taken.
Opened(c) ==
  /\ session[c] = "opening"
  /\ peer[c] \in {"spoke", "left_spoke"}
  /\ session' = [session EXCEPT ![c] = "serving"]
  /\ loop' = "listening"
  /\ UNCHANGED <<config, backlog, peer>>

\* The client is gone, or QUIC's idle timeout has given it up; TCP has none.
OpenFails(c) ==
  /\ session[c] = "opening"
  /\ \/ peer[c] \in Gone
     \/ transport = "quic" /\ peer[c] = "silent"
  /\ Stop
  /\ UNCHANGED <<config, peer>>

\* run_tunnel_server returns; an error is logged and goes no further.
SessionEnds(c) ==
  /\ session[c] = "serving"
  /\ session' = [session EXCEPT ![c] = "ended"]
  /\ UNCHANGED <<config, loop, backlog, peer>>

Next ==
  \/ Accept \/ AcceptFails
  \/ \E c \in Client :
       \/ Arrive(c) \/ Speak(c) \/ Stall(c) \/ Leave(c)
       \/ Opened(c) \/ OpenFails(c) \/ SessionEnds(c)

Spec == Init /\ [][Next]_vars

\* tokio runs the loop when a connection or its handshake is ready.  No client
\* has to speak or leave, and no session has to end.
Fairness ==
  /\ WF_vars(Accept) /\ WF_vars(AcceptFails)
  /\ \A c \in Client : WF_vars(Opened(c)) /\ WF_vars(OpenFails(c))

FairSpec == Spec /\ Fairness

-----------------------------------------------------------------------------
\* run_with logs "Client connection failed" and goes on: no session is ended
\* by what another connection does, as long as there are descriptors and no
\* connection broke in the listener's queue, where its error is accept's own.
Isolation ==
  (/\ Cardinality(Client) <= slots
   /\ \A c \in Client : peer[c] \in Gone => session[c] # "none")
  => \A c \in Client : session[c] # "cut"

\* With the plain acceptor this is so: a connection that has been accepted may
\* break at any time.
PlainIsolation == transport = "plain" => Isolation

\* run_with spawns each session, so that a client which does its part and stays
\* is served however long the sessions before it last -- unless the loop is
\* waiting for a client that stalls in its handshake, or has stopped.
ServedUnlessStalled ==
  \A c \in Client :
    peer[c] = "spoke" ~>
      \/ session[c] \in {"serving", "ended"} \/ peer[c] # "spoke"
      \/ loop = "stopped"
      \/ \E d \in Client : session[d] = "opening" /\ peer[d] \in {"connected", "silent"}
=============================================================================

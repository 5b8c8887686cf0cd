------------------------- MODULE ServerAcceptProofs -------------------------
(***************************************************************************)
(* Proofs about ServerAccept, for any finite set of clients, any set of    *)
(* acceptors and any number of descriptors.                                *)
(***************************************************************************)
EXTENDS ServerAccept, FiniteSetTheorems, TLAPS

-----------------------------------------------------------------------------
\* The inductive invariant.

Opening == {c \in Client : session[c] = "opening"}

Shapes ==
  /\ transport \in Transports /\ slots \in SlotCounts
  /\ loop \in {"listening", "opening", "stopped"}
  /\ backlog \in Seq(Client)
  /\ peer \in [Client -> PeerState]
  /\ session \in [Client -> SessionState]

\* The listener's queue holds connections that have arrived and have not been
\* accepted, each once.
Queued ==
  /\ \A i \in 1..Len(backlog) :
       session[backlog[i]] = "none" /\ peer[backlog[i]] # "out"
  /\ \A i, j \in 1..Len(backlog) : backlog[i] = backlog[j] => i = j
  /\ \A c \in Client : peer[c] = "out" => session[c] = "none"

\* The loop waits for one handshake at a time, and with the plain acceptor for
\* none.
Handshaking ==
  /\ loop = "opening" => \E c \in Client : Opening = {c}
  /\ loop # "opening" => Opening = {}
  /\ transport = "plain" => loop # "opening"

\* Sessions are cut when run_with returns, and it accepts nothing after that.
CutAtStop == \A c \in Client : session[c] = "cut" => loop = "stopped"

IInv == Shapes /\ Queued /\ Handshaking /\ CutAtStop /\ PlainIsolation

-----------------------------------------------------------------------------
LEMMA InitIInv == Init => IInv
BY AcceptAssumption
   DEF Init, IInv, Shapes, Queued, Handshaking, CutAtStop, PlainIsolation, Isolation, Opening, PeerState, SessionState

\* A connection that waits for a descriptor has none: while there are as many
\* descriptors as clients, accept finds one free.
LEMMA DescriptorLeft ==
  ASSUME IInv, backlog # <<>>, Cardinality(Client) <= slots
  PROVE  Cardinality(Open) < slots
<1> DEFINE c == Head(backlog)
<1> USE DEF IInv, Shapes
<1>1. c \in Client /\ session[c] = "none"
  <2>1. c = backlog[1] /\ 1 \in 1..Len(backlog) /\ c \in Client
    OBVIOUS
  <2> QED
    BY <2>1 DEF Queued
<1>2. Open \subseteq Client \ {c}
  BY <1>1 DEF Open
<1>3. /\ IsFiniteSet(Client \ {c})
      /\ Cardinality(Client \ {c}) = Cardinality(Client) - 1
  BY <1>1, AcceptAssumption, FS_RemoveElement
<1>4. IsFiniteSet(Open) /\ Cardinality(Open) <= Cardinality(Client) - 1
  BY <1>2, <1>3, FS_Subset
<1>5. Cardinality(Open) \in Nat /\ Cardinality(Client) \in Nat /\ slots \in Nat
  BY <1>4, AcceptAssumption, FS_CardinalityType
<1> QED
  BY <1>4, <1>5

LEMMA NextIInv == IInv /\ [Next]_vars => IInv'
<1> SUFFICES ASSUME IInv, [Next]_vars PROVE IInv'
  OBVIOUS
<1> USE DEF IInv, Shapes, PeerState, SessionState, config
<1>1. CASE UNCHANGED vars
  BY <1>1 DEF vars, Queued, Handshaking, CutAtStop, PlainIsolation, Isolation, Opening
<1>2. ASSUME NEW c \in Client, Arrive(c) PROVE IInv'
  <2>1. /\ backlog' \in Seq(Client) /\ Len(backlog') = Len(backlog) + 1
        /\ \A i \in 1..Len(backlog) : backlog'[i] = backlog[i] /\ backlog'[i] # c
        /\ backlog'[Len(backlog) + 1] = c
    BY <1>2 DEF Arrive, Queued
  <2>2. Shapes'
    BY <1>2, <2>1 DEF Arrive
  <2>3. Queued'
    BY <1>2, <2>1 DEF Arrive, Queued
  <2>4. Handshaking' /\ CutAtStop' /\ PlainIsolation'
    BY <1>2 DEF Arrive, Handshaking, CutAtStop, PlainIsolation, Isolation, Opening, Gone
  <2> QED
    BY <2>2, <2>3, <2>4
<1>3. ASSUME NEW c \in Client, Speak(c) \/ Stall(c) \/ Leave(c) PROVE IInv'
  <2>1. /\ UNCHANGED <<transport, slots, loop, backlog, session>>
        /\ peer' \in [Client -> PeerState]
        /\ \A d \in Client : peer'[d] = "out" <=> peer[d] = "out"
        /\ \A d \in Client : peer[d] \in Gone => peer'[d] \in Gone
    BY <1>3 DEF Speak, Stall, Leave, Gone
  <2> QED
    BY <2>1 DEF Queued, Handshaking, CutAtStop, PlainIsolation, Isolation, Opening
<1>4. CASE Accept
  <2> DEFINE c == Head(backlog)
  <2>1. /\ c = backlog[1] /\ c \in Client /\ backlog' \in Seq(Client)
        /\ Len(backlog') = Len(backlog) - 1 /\ Len(backlog) \in Nat \ {0}
        /\ \A i \in 1..Len(backlog') : backlog'[i] = backlog[i + 1]
    BY <1>4 DEF Accept
  <2>2. session[c] = "none" /\ peer[c] # "out"
    BY <2>1 DEF Queued
  <2>3. Shapes'
    BY <1>4, <2>1 DEF Accept, MayAccept
  <2>4. Queued'
    <3>1. \A i \in 1..Len(backlog') : backlog'[i] # c /\ i + 1 \in 1..Len(backlog)
      BY <2>1 DEF Queued
    <3>2. \A d \in Client : d # c => session'[d] = session[d]
      BY <1>4 DEF Accept
    <3> QED
      BY <1>4, <2>1, <2>2, <3>1, <3>2 DEF Accept, Queued
  <2>5. Handshaking'
    <3>1. Opening = {}
      BY <1>4 DEF Accept, MayAccept, Handshaking
    <3>2. CASE Handshakes
      BY <1>4, <2>1, <3>1, <3>2 DEF Accept, Handshaking, Handshakes, Opening
    <3>3. CASE ~Handshakes
      BY <1>4, <2>1, <3>1, <3>3 DEF Accept, MayAccept, Handshaking, Opening
    <3> QED
      BY <3>2, <3>3
  <2>6. \A d \in Client : session'[d] # "cut"
    BY <1>4, <2>1 DEF Accept, MayAccept, CutAtStop
  <2> QED
    BY <2>3, <2>4, <2>5, <2>6 DEF CutAtStop, PlainIsolation, Isolation
<1>5. CASE AcceptFails
  <2>1. ASSUME ~DescriptorFree, Cardinality(Client) <= slots PROVE FALSE
    <3>1. IsFiniteSet(Open)
      BY AcceptAssumption, FS_Subset DEF Open
    <3>2. Cardinality(Open) \in Nat /\ slots \in Nat
      BY <3>1, AcceptAssumption, FS_CardinalityType
    <3> QED
      BY <1>5, <2>1, <3>2, DescriptorLeft DEF AcceptFails, DescriptorFree
  <2>2. /\ loop' = "stopped" /\ backlog' = <<>> /\ UNCHANGED <<transport, slots, peer>>
        /\ session' = [d \in Client |-> IF d \in Open THEN "cut" ELSE session[d]]
    BY <1>5 DEF AcceptFails, Stop
  <2>3. PlainIsolation'
    <3>1. CASE ~DescriptorFree
      BY <2>1, <2>2, <3>1 DEF PlainIsolation, Isolation
    <3>2. CASE peer[Head(backlog)] \in Gone
      <4> DEFINE c == Head(backlog)
      <4>1. c = backlog[1] /\ 1 \in 1..Len(backlog) /\ c \in Client
        BY <1>5 DEF AcceptFails
      <4>2. session[c] = "none" /\ session'[c] = "none"
        BY <2>2, <4>1 DEF Queued, Open
      <4> QED
        BY <2>2, <3>2, <4>1, <4>2 DEF PlainIsolation, Isolation
    <3> QED
      BY <1>5, <3>1, <3>2 DEF AcceptFails
  <2> QED
    BY <2>2, <2>3 DEF Queued, Handshaking, CutAtStop, Opening, Open
<1>6. ASSUME NEW c \in Client, Opened(c) PROVE IInv'
  <2>1. Opening = {c} /\ session[c] = "opening" /\ transport # "plain"
    BY <1>6 DEF Opened, Handshaking, Opening
  <2>2. Opening' = {}
    BY <1>6, <2>1 DEF Opened, Opening
  <2> QED
    BY <1>6, <2>1, <2>2 DEF Opened, Queued, Handshaking, CutAtStop, PlainIsolation
<1>7. ASSUME NEW c \in Client, OpenFails(c) PROVE IInv'
  <2>1. transport # "plain"
    BY <1>7 DEF OpenFails, Handshaking, Opening
  <2> QED
    BY <1>7, <2>1 DEF OpenFails, Stop, Queued, Handshaking, CutAtStop, PlainIsolation, Opening, Open
<1>8. ASSUME NEW c \in Client, SessionEnds(c) PROVE IInv'
  <2>1. Opening' = Opening
    BY <1>8 DEF SessionEnds, Opening
  <2> QED
    BY <1>8, <2>1 DEF SessionEnds, Queued, Handshaking, CutAtStop, PlainIsolation, Isolation
<1> QED
  BY <1>1, <1>2, <1>3, <1>4, <1>5, <1>6, <1>7, <1>8 DEF Next

LEMMA Invariance == Spec => []IInv
BY InitIInv, NextIInv, PTL DEF Spec

-----------------------------------------------------------------------------
\* run_with is in one handshake at most, and its queue holds no connection that
\* it has accepted.
THEOREM TypeCorrect == Spec => []TypeOK
<1>1. IInv => TypeOK
  <2> SUFFICES ASSUME IInv PROVE TypeOK
    OBVIOUS
  <2>1. Cardinality(Opening) = IF loop = "opening" THEN 1 ELSE 0
    BY FS_EmptySet, FS_Singleton DEF IInv, Handshaking
  <2> QED
    BY <2>1 DEF IInv, Shapes, Queued, TypeOK, Opening
<1> QED
  BY <1>1, Invariance, PTL

\* With the plain acceptor a connection that has been accepted ends no other's
\* session, whatever becomes of it: the loop stops for want of a descriptor, or
\* over a connection that broke before accept took it, and for nothing else.
THEOREM PlainSessionsIsolated == Spec => []PlainIsolation
<1>1. IInv => PlainIsolation
  BY DEF IInv
<1> QED
  BY <1>1, Invariance, PTL
=============================================================================

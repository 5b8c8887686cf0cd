-------------------------- MODULE PeerLookupProofs --------------------------
(***************************************************************************)
(* Proofs about PeerLookup, for any finite set of connections, any number  *)
(* of permits and any number of sockets.                                   *)
(***************************************************************************)
EXTENDS PeerLookup, FiniteSetTheorems, SequenceTheorems, TLAPS

-----------------------------------------------------------------------------
\* The inductive invariant.

Word == Holders \cup {"none"}

Shapes ==
  /\ loop \in {"accepting", "left", "over"} /\ cancelled \in BOOLEAN
  /\ backlog \in Seq(Clients) /\ waiters \in Seq(Clients)
  /\ socket \in [Clients -> {"none", "open", "closed"}]
  /\ session \in [Clients -> {"none", "running", "done"}]
  /\ lookup \in [Clients -> {"none", "new", "waiting", "looking", "done"}]
  /\ reported \in [Clients -> [pid : Word, name : Word]]

\* The listener's queue holds connections that were never accepted, each once.
Arrived ==
  /\ \A i \in 1..Len(backlog) : socket[backlog[i]] = "none"
  /\ \A i, j \in 1..Len(backlog) : backlog[i] = backlog[j] => i = j

\* The semaphore's queue holds the tasks that wait for it, each once.
Queued ==
  /\ \A i \in 1..Len(waiters) : lookup[waiters[i]] = "waiting"
  /\ \A c \in Clients :
       lookup[c] = "waiting" => \E i \in 1..Len(waiters) : waiters[i] = c
  /\ \A i, j \in 1..Len(waiters) : waiters[i] = waiters[j] => i = j

\* A task that has not finished its lookup still holds the socket.
Owned ==
  \A c \in Clients :
    /\ socket[c] = "none" => lookup[c] = "none"
    /\ lookup[c] \in {"new", "waiting", "looking"} => socket[c] = "open"

IInv == Shapes /\ Arrived /\ Queued /\ Owned /\ PermitsUsed /\ ReportsOneProcess

-----------------------------------------------------------------------------
\* The lines of one process: its pid, its name, a file.
LEMMA LineOf ==
  ASSUME NEW order \in Seq(Holders), NEW i \in 1..(3 * Len(order))
  PROVE  /\ Lines(order)[i][2] = order[((i - 1) \div 3) + 1]
         /\ (i - 1) \div 3 + 1 \in 1..Len(order)
         /\ Lines(order)[i][1] = "p" <=> (i - 1) % 3 = 0
         /\ Lines(order)[i][1] = "c" <=> (i - 1) % 3 = 1
<1>1. /\ (i - 1) % 3 \in 0..2 /\ (i - 1) \div 3 \in 0..(Len(order) - 1)
      /\ Len(order) \in Nat
  OBVIOUS
<1>2. Lines(order)[i] = <<(<<"p", "c", "n">>)[((i - 1) % 3) + 1], order[((i - 1) \div 3) + 1]>>
  BY DEF Lines
<1>3. CASE (i - 1) % 3 = 0
  BY <1>1, <1>2, <1>3
<1>4. CASE (i - 1) % 3 = 1
  BY <1>1, <1>2, <1>4
<1>5. CASE (i - 1) % 3 = 2
  BY <1>1, <1>2, <1>5
<1> QED
  BY <1>1, <1>3, <1>4, <1>5

\* The last pid before the first name is the line right before it, and that
\* line is of the same process.
LEMMA OneProcess ==
  ASSUME NEW process \in Reports
  PROVE  process \in [pid : Word, name : Word] /\ process.pid = process.name
<1>1. PICK lines \in Outputs : process = parse_lsof_f(lines)
  BY DEF Reports
<1>a. PICK S \in SUBSET Holders : \E order \in SetToSeqs(S) : lines \in Prefixes(Lines(order))
  BY <1>1 DEF Outputs
<1>b. PICK order \in SetToSeqs(S) : lines \in Prefixes(Lines(order))
  BY <1>a
<1>2. PICK l \in 0..Len(Lines(order)) : lines = SubSeq(Lines(order), 1, l)
  BY <1>b DEF Prefixes
<1>3. order \in Seq(Holders)
  <2>1. IsFiniteSet(Holders)
    <3>1. Holders = {"app"} \cup {"another"}
      BY DEF Holders
    <3> QED
      BY <3>1, FS_Singleton, FS_AddElement
  <2>2. Cardinality(S) \in Nat
    BY <2>1, FS_Subset, FS_CardinalityType
  <2> QED
    BY <1>2, <2>2 DEF SetToSeqs
<1> DEFINE n == 3 * Len(order)
           named == {i \in DOMAIN lines : lines[i][1] = "c" /\ PidLines(lines, i) # {}}
<1>4. /\ Len(Lines(order)) = n /\ n \in Nat /\ l \in 0..n
      /\ DOMAIN lines = 1..l /\ \A i \in 1..l : lines[i] = Lines(order)[i]
  <2>1. n \in Nat /\ DOMAIN Lines(order) = 1..n
    BY <1>3 DEF Lines
  <2>2. Len(Lines(order)) = n
    BY <2>1
  <2> QED
    BY <1>2, <2>1, <2>2
<1>5. CASE named = {}
  BY <1>1, <1>5 DEF parse_lsof_f, Unknown, Word
<1>6. CASE named # {}
  <2> DEFINE first == Min(named)
             pids == PidLines(lines, first)
             last == Max(pids)
  <2>1. 2 \in named /\ \A i \in named : i >= 2
    <3>1. PICK i \in named : TRUE
      BY <1>6
    <3>2. i \in 1..n /\ i <= l /\ (i - 1) % 3 = 1
      BY <3>1, <1>4, LineOf, <1>3
    <3>3. 2 \in 1..l /\ 1 \in 1..l /\ 2 \in 1..n /\ 1 \in 1..n /\ (2 - 1) % 3 = 1 /\ (1 - 1) % 3 = 0
      BY <3>2, <1>4
    <3>4. lines[2][1] = "c" /\ lines[1][1] = "p"
      BY <3>3, <1>4, LineOf, <1>3
    <3>5. ASSUME NEW j \in named PROVE j >= 2
      <4>1. j \in 1..n /\ j \in 1..l /\ lines[j][1] = "c"
        BY <1>4
      <4>2. Lines(order)[j][1] = "c"
        BY <4>1, <1>4
      <4>3. (j - 1) % 3 = 1
        BY <4>1, <4>2, LineOf, <1>3
      <4> QED
        BY <4>1, <4>3, <1>4
    <3>6. 1 \in PidLines(lines, 2)
      BY <3>4 DEF PidLines
    <3>7. 2 \in named
      BY <3>3, <3>4, <3>6, <1>4
    <3> QED
      BY <3>5, <3>7
  <2>2. first = 2
    <3>1. \A i \in named : i \in Nat
      BY <1>4
    <3> QED
      BY <2>1, <3>1 DEF Min
  <2>3. 2 \in 1..l /\ 2 \in 1..n /\ 1 \in 1..l /\ 1 \in 1..n
    BY <2>1, <1>4
  <2>4. pids = {1}
    <3>1. pids = {j \in 1..2 : lines[j][1] = "p"}
      BY <2>2 DEF PidLines
    <3>2. lines[1][1] = "p" /\ lines[2][1] # "p"
      BY <2>3, <1>4, LineOf, <1>3
    <3> QED
      BY <3>1, <3>2
  <2>5. last = 1
    <3>1. \A x \in {1} : x >= 1
      OBVIOUS
    <3> QED
      BY <2>4, <3>1 DEF Max
  <2>6. /\ lines[1][2] = order[1] /\ lines[2][2] = order[1]
        /\ 1 \in 1..Len(order)
    BY SMTT(30), <2>3, <1>4, LineOf, <1>3
  <2>7. process = [pid |-> order[1], name |-> order[1]]
    BY <1>1, <1>6, <2>2, <2>5, <2>6 DEF parse_lsof_f
  <2> QED
    BY <2>6, <2>7, <1>3 DEF Word
<1> QED
  BY <1>5, <1>6

-----------------------------------------------------------------------------
LEMMA InitIInv == Init => IInv
<1> SUFFICES ASSUME Init PROVE IInv
  OBVIOUS
<1>1. Looking = {}
  BY DEF Init, Looking
<1>2. PermitsUsed
  BY <1>1, FS_EmptySet, BoundsAssumption DEF Init, PermitsUsed
<1> QED
  <2>1. Shapes
    <3>1. Unknown \in [pid : Word, name : Word]
      BY DEF Unknown, Word
    <3>2. reported \in [Clients -> [pid : Word, name : Word]]
      BY <3>1 DEF Init
    <3>3. backlog \in Seq(Clients) /\ waiters \in Seq(Clients)
      BY DEF Init
    <3> QED
      BY <3>2, <3>3 DEF Init, Shapes
  <2>2. Arrived /\ Queued /\ Owned /\ ReportsOneProcess
    BY DEF Init, Arrived, Queued, Owned, ReportsOneProcess
  <2> QED
    BY <1>2, <2>1, <2>2 DEF IInv

\* Permits are counted by Looking: one task more, one task less.
LEMMA LookingCount ==
  /\ IsFiniteSet(Looking) /\ Cardinality(Looking) \in Nat
  /\ \A c \in Clients :
       /\ Cardinality(Looking \cup {c}) = Cardinality(Looking) + (IF c \in Looking THEN 0 ELSE 1)
       /\ Cardinality(Looking \ {c}) = Cardinality(Looking) - (IF c \in Looking THEN 1 ELSE 0)
<1>1. IsFiniteSet(Looking)
  BY BoundsAssumption, FS_Subset DEF Looking
<1> QED
  BY <1>1, FS_CardinalityType, FS_AddElement, FS_RemoveElement

LEMMA AcceptStep == ASSUME IInv, Accept PROVE IInv'
<1> DEFINE c == Head(backlog)
<1> USE DEF IInv, Shapes
<1>1. /\ c = backlog[1] /\ c \in Clients /\ backlog' \in Seq(Clients)
      /\ Len(backlog) \in Nat \ {0} /\ Len(backlog') = Len(backlog) - 1
      /\ \A i \in 1..Len(backlog') : backlog'[i] = backlog[i + 1]
  BY DEF Accept
<1>2. socket[c] = "none" /\ lookup[c] = "none" /\ reported[c] = Unknown
  BY <1>1 DEF Arrived, Owned, ReportsOneProcess
<1>3. /\ socket' = [socket EXCEPT ![c] = "open"]
      /\ session' = [session EXCEPT ![c] = "running"]
      /\ lookup' = [lookup EXCEPT ![c] = "new"]
      /\ UNCHANGED <<loop, cancelled, waiters, reported>>
  BY DEF Accept
<1> HIDE DEF c
<1>4. Shapes'
  BY <1>1, <1>3
<1>5. Arrived'
  <2>1. \A i \in 1..Len(backlog') : i + 1 \in 1..Len(backlog) /\ backlog'[i] # c
    BY <1>1 DEF Arrived
  <2> QED
    <3>2. ASSUME NEW i \in 1..Len(backlog'), NEW j \in 1..Len(backlog'), backlog'[i] = backlog'[j]
          PROVE  i = j
      <4>1. backlog[i + 1] = backlog[j + 1] /\ i + 1 \in 1..Len(backlog) /\ j + 1 \in 1..Len(backlog)
        BY <1>1, <2>1, <3>2
      <4>2. i + 1 = j + 1
        BY <4>1 DEF Arrived
      <4> QED
        BY <1>1, <4>2
    <3>3. ASSUME NEW i \in 1..Len(backlog') PROVE socket'[backlog'[i]] = "none"
      <4>1. backlog'[i] = backlog[i + 1] /\ i + 1 \in 1..Len(backlog) /\ backlog'[i] # c
        BY <1>1, <2>1
      <4>2. socket[backlog[i + 1]] = "none" /\ backlog[i + 1] \in Clients
        BY <4>1 DEF Arrived
      <4> QED
        BY <1>3, <4>1, <4>2
    <3> QED
      BY <3>2, <3>3 DEF Arrived
<1>6. Queued'
  BY <1>2, <1>3 DEF Queued
<1>7. Looking' = Looking
  BY <1>2, <1>3 DEF Looking
<1> QED
  BY <1>2, <1>3, <1>4, <1>5, <1>6, <1>7 DEF Owned, PermitsUsed, ReportsOneProcess

LEMMA DropRuntimeStep == ASSUME IInv, DropRuntime PROVE IInv'
<1> USE DEF IInv, Shapes
<1>1. /\ backlog' = <<>> /\ waiters' = <<>> /\ loop' = "over" /\ UNCHANGED <<cancelled, reported>>
      /\ \A c \in Clients :
           /\ socket'[c] = AfterDrop(socket[c])
           /\ session'[c] = AfterDrop(session[c])
           /\ lookup'[c] = AfterDrop(lookup[c])
  BY DEF DropRuntime, QueueAfterDrop
<1>2. Shapes'
  BY <1>1 DEF DropRuntime, AfterDrop
<1>3. \A c \in Clients : lookup'[c] \in {"none", "done"} /\ (lookup'[c] = "none" <=> lookup[c] = "none")
                          /\ (socket'[c] = "none" <=> socket[c] = "none")
  BY <1>1 DEF AfterDrop
<1>4. Looking' = {}
  BY <1>3 DEF Looking
<1>5. PermitsUsed'
  BY <1>1, <1>4, FS_EmptySet, BoundsAssumption DEF PermitsUsed
<1>6. ReportsOneProcess'
  BY <1>1, <1>3 DEF ReportsOneProcess
<1> QED
  BY <1>1, <1>2, <1>3, <1>5, <1>6 DEF Arrived, Queued, Owned

\* acquire: a permit while one is free, otherwise the last place in the queue.
LEMMA AskPermitStep == ASSUME IInv, NEW c \in Clients, AskPermit(c) PROVE IInv'
<1> USE DEF IInv, Shapes
<1>1. /\ lookup[c] = "new" /\ socket[c] = "open"
      /\ UNCHANGED <<loop, cancelled, backlog, socket, session, reported>>
  BY DEF AskPermit, Alive
<1>2. Arrived'
  BY <1>1 DEF Arrived
<1>3. CASE MayTake(c)
  <2>1. lookup' = [lookup EXCEPT ![c] = "looking"] /\ waiters' = waiters
    BY <1>3 DEF AskPermit
  <2>2. Looking' = Looking \cup {c} /\ c \notin Looking
    BY <1>1, <2>1 DEF Looking
  <2>3. PermitsUsed'
    BY <1>3, <2>1, <2>2, LookingCount, BoundsAssumption DEF PermitsUsed, MayTake
  <2> QED
    BY <1>1, <1>2, <2>1, <2>3 DEF Queued, Owned, ReportsOneProcess
<1>4. CASE ~MayTake(c)
  <2>1. lookup' = [lookup EXCEPT ![c] = "waiting"] /\ waiters' = Append(waiters, c)
    BY <1>4 DEF AskPermit
  <2>2. /\ waiters' \in Seq(Clients) /\ Len(waiters') = Len(waiters) + 1
        /\ \A i \in 1..Len(waiters) : waiters'[i] = waiters[i] /\ waiters'[i] # c
        /\ waiters'[Len(waiters) + 1] = c
    BY <1>1, <2>1 DEF Queued
  <2>3. Queued'
    BY <1>1, <2>1, <2>2 DEF Queued
  <2>4. Looking' = Looking
    BY <1>1, <2>1 DEF Looking
  <2>5. PermitsUsed'
    BY <1>4, <2>4, LookingCount, BoundsAssumption DEF PermitsUsed, MayTake
  <2> QED
    BY <1>1, <1>2, <2>1, <2>2, <2>3, <2>5 DEF Owned, ReportsOneProcess
<1> QED
  BY <1>3, <1>4

\* The permit of a lookup that has ended goes to the head of the queue.
LEMMA LookupEndsStep == ASSUME IInv, NEW c \in Clients, LookupEnds(c) PROVE IInv'
<1> USE DEF IInv, Shapes
<1>1. /\ lookup[c] = "looking" /\ socket[c] = "open" /\ c \in Looking
      /\ UNCHANGED <<loop, cancelled, backlog, socket, session>>
  BY DEF LookupEnds, Alive, Looking
<1>2. PICK process \in Reports : reported' = [reported EXCEPT ![c] = process]
  BY DEF LookupEnds
<1>3. /\ process \in [pid : Word, name : Word] /\ process.pid = process.name
  BY <1>2, OneProcess
<1>4. Arrived'
  BY <1>1 DEF Arrived
<1>5. CASE waiters = <<>>
  <2>1. waiters' = waiters /\ lookup' = [lookup EXCEPT ![c] = "done"]
    BY <1>5 DEF LookupEnds, Served
  <2>2. Looking' = Looking \ {c}
    BY <1>1, <2>1 DEF Looking
  <2>3. PermitsUsed'
    BY <1>1, <1>5, <2>1, <2>2, LookingCount, BoundsAssumption DEF PermitsUsed
  <2> QED
    BY <1>1, <1>2, <1>3, <1>4, <2>1, <2>3 DEF Queued, Owned, ReportsOneProcess
<1>6. CASE waiters # <<>>
  <2> DEFINE h == Head(waiters)
  <2>1. Served = {h} /\ waiters' = Tail(waiters)
    BY <1>6 DEF LookupEnds, Served
  <2>2. /\ h = waiters[1] /\ h \in Clients /\ waiters' \in Seq(Clients)
        /\ Len(waiters) \in Nat \ {0} /\ Len(waiters') = Len(waiters) - 1
        /\ \A i \in 1..Len(waiters') : waiters'[i] = waiters[i + 1]
    BY <1>6, <2>1
  <2>3. lookup[h] = "waiting" /\ h # c
    BY <1>1, <2>2 DEF Queued
  <2>4. lookup' = [lookup EXCEPT ![c] = "done", ![h] = "looking"]
    BY <2>1, <2>3 DEF LookupEnds
  <2> HIDE DEF h
  <2>5. Queued'
    <3>1. \A i \in 1..Len(waiters') : i + 1 \in 1..Len(waiters) /\ waiters'[i] # h /\ waiters'[i] # c
      <4>1. SUFFICES ASSUME NEW i \in 1..Len(waiters')
                     PROVE  i + 1 \in 1..Len(waiters) /\ waiters'[i] # h /\ waiters'[i] # c
        OBVIOUS
      <4>2. i + 1 \in 1..Len(waiters) /\ 1 \in 1..Len(waiters) /\ i + 1 # 1
        BY <2>2
      <4> QED
        BY <1>1, <2>2, <4>2 DEF Queued
    <3>2. ASSUME NEW d \in Clients, lookup'[d] = "waiting"
          PROVE  \E i \in 1..Len(waiters') : waiters'[i] = d
      <4>1. lookup[d] = "waiting" /\ d # h
        BY <2>2, <2>3, <2>4, <3>2
      <4>2. PICK i \in 1..Len(waiters) : waiters[i] = d
        BY <4>1 DEF Queued
      <4>3. i - 1 \in 1..Len(waiters') /\ waiters'[i - 1] = d
        BY <2>2, <4>1, <4>2
      <4> QED
        BY <4>3
    <3>3. \A i \in 1..Len(waiters') : lookup'[waiters'[i]] = "waiting"
      BY <2>2, <2>4, <3>1 DEF Queued
    <3>4. \A i, j \in 1..Len(waiters') : waiters'[i] = waiters'[j] => i = j
      BY SMTT(30), <2>2, <3>1 DEF Queued
    <3> QED
      BY <3>2, <3>3, <3>4 DEF Queued
  <2>6. PermitsUsed'
    <3>1. Looking' = (Looking \cup {h}) \ {c} /\ h \notin Looking
      BY <1>1, <2>2, <2>3, <2>4 DEF Looking
    <3> DEFINE both == Looking \cup {h}
    <3>2. /\ IsFiniteSet(both) /\ Cardinality(both) = Cardinality(Looking) + 1
          /\ Cardinality(Looking) \in Nat /\ c \in both
      BY <1>1, <3>1, LookingCount, FS_AddElement
    <3>3. Cardinality(both \ {c}) = Cardinality(both) - 1
      BY <3>2, FS_RemoveElement
    <3>4. Cardinality(Looking') = Cardinality(Looking)
      BY <3>1, <3>2, <3>3
    <3> QED
      BY <1>6, <3>4 DEF PermitsUsed
  <2> QED
    BY ZenonT(40), <1>1, <1>2, <1>3, <1>4, <2>2, <2>3, <2>4, <2>5, <2>6
    DEF Owned, ReportsOneProcess
<1> QED
  BY <1>5, <1>6

LEMMA NextIInv == IInv /\ [Next]_vars => IInv'
<1> SUFFICES ASSUME IInv, [Next]_vars PROVE IInv'
  OBVIOUS
<1>1. CASE UNCHANGED vars
  <2>1. Arrived' = Arrived /\ Queued' = Queued /\ Owned' = Owned /\ Shapes' = Shapes
    BY <1>1 DEF vars, Arrived, Queued, Owned, Shapes
  <2>2. PermitsUsed' = PermitsUsed /\ ReportsOneProcess' = ReportsOneProcess
    BY <1>1 DEF vars, PermitsUsed, ReportsOneProcess, Looking
  <2> QED
    BY <2>1, <2>2 DEF IInv
<1> USE DEF IInv, Shapes
<1>2. ASSUME NEW c \in Clients, Arrive(c) PROVE IInv'
  <2>1. /\ backlog' \in Seq(Clients) /\ Len(backlog') = Len(backlog) + 1
        /\ \A i \in 1..Len(backlog) : backlog'[i] = backlog[i] /\ backlog'[i] # c
        /\ backlog'[Len(backlog) + 1] = c
    BY <1>2 DEF Arrive, Contains
  <2>2. Arrived'
    BY <1>2, <2>1 DEF Arrive, Arrived
  <2> QED
    BY <1>2, <2>1, <2>2 DEF Arrive, Queued, Owned, PermitsUsed, ReportsOneProcess, Looking
<1>3. CASE Accept
  BY <1>3, AcceptStep
<1>4. CASE AcceptFails \/ Cancel \/ LeaveLoop
  <2>1. /\ loop' \in {"accepting", "left"} /\ cancelled' \in BOOLEAN
        /\ UNCHANGED <<backlog, socket, session, lookup, waiters, reported>>
    BY <1>4 DEF AcceptFails, Cancel, LeaveLoop
  <2> QED
    BY <2>1 DEF Arrived, Queued, Owned, PermitsUsed, ReportsOneProcess, Looking
<1>5. CASE DropRuntime
  BY <1>5, DropRuntimeStep
<1>6. ASSUME NEW c \in Clients, SessionEnds(c) PROVE IInv'
  BY <1>6 DEF SessionEnds, Arrived, Queued, Owned, PermitsUsed, ReportsOneProcess, Looking
<1>7. ASSUME NEW c \in Clients, AskPermit(c) PROVE IInv'
  BY <1>7, AskPermitStep
<1>8. ASSUME NEW c \in Clients, NoLookup(c) PROVE IInv'
  <2>1. lookup[c] = "new" /\ lookup' = [lookup EXCEPT ![c] = "done"]
    BY <1>8 DEF NoLookup
  <2>2. Looking' = Looking
    BY <2>1 DEF Looking
  <2> QED
    BY <1>8, <2>1, <2>2 DEF NoLookup, Arrived, Queued, Owned, PermitsUsed, ReportsOneProcess
<1>9. ASSUME NEW c \in Clients, LookupEnds(c) PROVE IInv'
  BY <1>9, LookupEndsStep
<1>10. ASSUME NEW c \in Clients, TaskEnds(c) PROVE IInv'
  <2>1. /\ lookup[c] = "done" /\ socket[c] = "open"
        /\ socket' = [socket EXCEPT ![c] = "closed"]
        /\ UNCHANGED <<loop, cancelled, backlog, session, lookup, waiters, reported>>
    BY <1>10 DEF TaskEnds, Joined, Alive
  <2> QED
    BY <2>1 DEF Arrived, Queued, Owned, PermitsUsed, ReportsOneProcess, Looking
<1> QED
  BY <1>1, <1>2, <1>3, <1>4, <1>5, <1>6, <1>7, <1>8, <1>9, <1>10 DEF Next, Step

LEMMA Invariance == Spec => []IInv
BY InitIInv, NextIInv, PTL DEF Spec

-----------------------------------------------------------------------------
\* The tasks that wait for a permit are those in the semaphore's queue.
THEOREM TypeCorrect == Spec => []TypeOK
<1>1. IInv => TypeOK
  <2> SUFFICES ASSUME IInv PROVE TypeOK
    OBVIOUS
  <2>1. ToSet(waiters) = {c \in Clients : lookup[c] = "waiting"}
    BY DEF IInv, Shapes, Queued, ToSet
  <2>2. IsInjective(waiters)
    BY DEF IInv, Shapes, Queued, IsInjective
  <2> QED
    BY <2>1, <2>2 DEF IInv, Shapes, TypeOK, Word
<1> QED
  BY <1>1, Invariance, PTL

\* No more lookups than permits, and no waiter while a permit is free.
THEOREM SemaphoreSafety == Spec => []PermitsUsed
<1>1. IInv => PermitsUsed
  BY DEF IInv
<1> QED
  BY <1>1, Invariance, PTL

\* No lookup works for a socket that its task has closed.
THEOREM SocketOutlivesLookup == Spec => []LooksAtOpenSocket
<1>1. IInv => LooksAtOpenSocket
  BY DEF IInv, Owned, LooksAtOpenSocket, Looking
<1> QED
  BY <1>1, Invariance, PTL

\* Whatever lsof prints, and wherever its output is cut short, what is logged
\* for a connection is one process.
THEOREM LogsOneProcess == Spec => []ReportsOneProcess
<1>1. IInv => ReportsOneProcess
  BY DEF IInv
<1> QED
  BY <1>1, Invariance, PTL
=============================================================================

----------------------------- MODULE PeerLookup -----------------------------
(***************************************************************************)
(* The accept loop of the SOCKS proxy, client::run_with.  Every accepted   *)
(* connection gets a task that joins two futures: the session              *)
(* (TunnelSession tells its inside) and the lookup of the process behind   *)
(* the connection, which first takes one of the permits of a semaphore.    *)
(* The task owns the socket.  A lookup is a run of lsof on macOS, for all  *)
(* sockets with the app's address at either end, and nothing bounds it; on *)
(* other systems it ends at once.                                          *)
(***************************************************************************)
EXTENDS Naturals, Sequences, FiniteSets, SequencesExt

CONSTANTS
  Clients,             \* connections to the proxy
  Permits,             \* 4 in the program
  Sockets              \* accepted sockets the process may have open

ASSUME BoundsAssumption ==
  IsFiniteSet(Clients) /\ Permits \in Nat \ {0} /\ Sockets \in Nat

VARIABLES
  loop,                \* "accepting", "left", or "over": the runtime is gone
  cancelled,           \* the shutdown token
  backlog,             \* connections not accepted yet, the oldest first
  socket,              \* socket[c] is "none", "open" or "closed"
  session,             \* session[c]: handle_socks_client
  lookup,              \* lookup[c]: lsof_fut
  reported,            \* reported[c]: the process that was logged for c
  waiters              \* the semaphore's queue

vars == <<loop, cancelled, backlog, socket, session, lookup, reported, waiters>>

Looking == {c \in Clients : lookup[c] = "looking"}
Open == {c \in Clients : socket[c] = "open"}

Unknown == [pid |-> "none", name |-> "none"]

Init ==
  /\ loop = "accepting" /\ cancelled = FALSE
  /\ backlog = <<>> /\ waiters = <<>>
  /\ socket = [c \in Clients |-> "none"]
  /\ session = [c \in Clients |-> "none"]
  /\ lookup = [c \in Clients |-> "none"] /\ reported = [c \in Clients |-> Unknown]

Arrive(c) ==
  /\ socket[c] = "none" /\ ~Contains(backlog, c) /\ loop = "accepting"
  /\ backlog' = Append(backlog, c)
  /\ UNCHANGED <<loop, cancelled, socket, session, lookup, waiters, reported>>

\* accept and spawn.  select! may take this branch after the cancellation.
Accept ==
  /\ loop = "accepting" /\ backlog # <<>> /\ Cardinality(Open) < Sockets
  /\ LET c == Head(backlog)
     IN /\ socket' = [socket EXCEPT ![c] = "open"]
        /\ session' = [session EXCEPT ![c] = "running"]
        /\ lookup' = [lookup EXCEPT ![c] = "new"]
  /\ backlog' = Tail(backlog)
  /\ UNCHANGED <<loop, cancelled, waiters, reported>>

\* `result?`: no descriptor is free, or the app's connection broke in the queue.
AcceptFails ==
  /\ loop = "accepting" /\ backlog # <<>>
  /\ loop' = "left"
  /\ UNCHANGED <<cancelled, backlog, socket, session, lookup, waiters, reported>>

Cancel ==
  /\ ~cancelled /\ loop = "accepting"
  /\ cancelled' = TRUE
  /\ UNCHANGED <<loop, backlog, socket, session, lookup, waiters, reported>>

LeaveLoop ==
  /\ cancelled /\ loop = "accepting"
  /\ loop' = "left"
  /\ UNCHANGED <<cancelled, backlog, socket, session, lookup, waiters, reported>>

\* run_with has returned: the runtime is dropped, and every task with it.
\* (Not: without closing the sockets; nor: without emptying the queue.)
AfterDrop_Kept(s) == s
AfterDrop(s) == IF s \in {"none", "closed"} THEN s ELSE IF s = "open" THEN "closed" ELSE "done"
QueueAfterDrop_Kept == waiters
QueueAfterDrop == <<>>

DropRuntime ==
  /\ loop = "left"
  /\ loop' = "over" /\ backlog' = <<>> /\ waiters' = QueueAfterDrop
  /\ socket' = [c \in Clients |-> AfterDrop(socket[c])]
  /\ session' = [c \in Clients |-> AfterDrop(session[c])]
  /\ lookup' = [c \in Clients |-> AfterDrop(lookup[c])]
  /\ UNCHANGED <<cancelled, reported>>

-----------------------------------------------------------------------------
Alive(c) == loop # "over" /\ socket[c] = "open"

SessionEnds(c) ==
  /\ Alive(c) /\ session[c] = "running"
  /\ session' = [session EXCEPT ![c] = "done"]
  /\ UNCHANGED <<loop, cancelled, backlog, socket, lookup, waiters, reported>>

\* sem.acquire(): a permit at once, or a place in the queue.  local_addr may
\* have failed; then there is nothing to look up.
MayTake_Barging(c) == Cardinality(Looking) <= Permits
MayTake(c) == Cardinality(Looking) < Permits /\ waiters = <<>>

AskPermit(c) ==
  /\ Alive(c) /\ lookup[c] = "new"
  /\ IF MayTake(c)
     THEN lookup' = [lookup EXCEPT ![c] = "looking"] /\ UNCHANGED waiters
     ELSE lookup' = [lookup EXCEPT ![c] = "waiting"] /\ waiters' = Append(waiters, c)
  /\ UNCHANGED <<loop, cancelled, backlog, socket, session, reported>>

NoLookup(c) ==
  /\ Alive(c) /\ lookup[c] = "new"
  /\ lookup' = [lookup EXCEPT ![c] = "done"]
  /\ UNCHANGED <<loop, cancelled, backlog, socket, session, waiters, reported>>

\* The output of lsof -F pcn: for every process with a socket that has the
\* app's address at one of its ends, a line with its pid, one with its name and
\* those of its files.  That is the app itself, but also another: the proxy, or
\* whoever was given the port when the app had gone.  lsof may fail, or be cut
\* short.
Holders == {"app", "another"}

Lines(order) ==
  [i \in 1..(3 * Len(order)) |->
    <<(<<"p", "c", "n">>)[((i - 1) % 3) + 1], order[((i - 1) \div 3) + 1]>>]

Outputs ==
  UNION {Prefixes(Lines(order)) : order \in UNION {SetToSeqs(S) : S \in SUBSET Holders}}

\* The first name behind a pid, and the last pid before it.  (Not: the pid of
\* the whole output.)
PidLines_All(lines, i) == {j \in DOMAIN lines : lines[j][1] = "p"}
PidLines(lines, i) == {j \in 1..i : lines[j][1] = "p"}

parse_lsof_f(lines) ==
  LET named == {i \in DOMAIN lines : lines[i][1] = "c" /\ PidLines(lines, i) # {}}
  IN IF named = {} THEN Unknown
     ELSE [pid |-> lines[Max(PidLines(lines, Min(named)))][2], name |-> lines[Min(named)][2]]

Reports == {parse_lsof_f(lines) : lines \in Outputs}

\* identify_peer returns; the permit it drops goes to the longest waiter.
Served_Nobody == {}
Served == IF waiters = <<>> THEN {} ELSE {Head(waiters)}

LookupEnds(c) ==
  /\ Alive(c) /\ lookup[c] = "looking"
  /\ \E process \in Reports : reported' = [reported EXCEPT ![c] = process]
  /\ lookup' = [x \in Clients |-> CASE x = c -> "done"
                                    [] x \in Served -> "looking"
                                    [] OTHER -> lookup[x]]
  /\ waiters' = IF Served = {} THEN waiters ELSE Tail(waiters)
  /\ UNCHANGED <<loop, cancelled, backlog, socket, session>>

\* join! is complete: the task ends and drops the socket.
Joined_SessionOnly(c) == session[c] = "done"
Joined(c) == session[c] = "done" /\ lookup[c] = "done"

TaskEnds(c) ==
  /\ Alive(c) /\ Joined(c)
  /\ socket' = [socket EXCEPT ![c] = "closed"]
  /\ UNCHANGED <<loop, cancelled, backlog, session, lookup, waiters, reported>>

Step(c) ==
  \/ Arrive(c) \/ SessionEnds(c) \/ AskPermit(c) \/ NoLookup(c)
  \/ LookupEnds(c) \/ TaskEnds(c)

Next ==
  \/ \E c \in Clients : Step(c)
  \/ Accept \/ AcceptFails \/ Cancel \/ LeaveLoop \/ DropRuntime

Spec == Init /\ [][Next]_vars

\* The runtime polls what is ready.  Sessions and lookups last as long as their
\* peers and lsof please; only LookupsEndSpec says that every lookup ends.
PolledSpec ==
  /\ Spec
  /\ WF_vars(Accept) /\ WF_vars(LeaveLoop) /\ WF_vars(DropRuntime)
  /\ \A c \in Clients : WF_vars(AskPermit(c)) /\ WF_vars(TaskEnds(c))

LookupsEndSpec == PolledSpec /\ \A c \in Clients : WF_vars(LookupEnds(c))

-----------------------------------------------------------------------------
TypeOK ==
  /\ loop \in {"accepting", "left", "over"} /\ cancelled \in BOOLEAN
  /\ backlog \in Seq(Clients) /\ waiters \in Seq(Clients)
  /\ socket \in [Clients -> {"none", "open", "closed"}]
  /\ session \in [Clients -> {"none", "running", "done"}]
  /\ lookup \in [Clients -> {"none", "new", "waiting", "looking", "done"}]
  /\ \A c \in Clients : {reported[c].pid, reported[c].name} \subseteq Holders \cup {"none"}
  /\ ToSet(waiters) = {c \in Clients : lookup[c] = "waiting"} /\ IsInjective(waiters)

\* The semaphore: no more lookups than permits at a time, and nobody waits
\* while a permit is free.
PermitsUsed ==
  /\ Cardinality(Looking) <= Permits
  /\ waiters # <<>> => Cardinality(Looking) = Permits

\* The task: a lookup never works for a socket that has been closed.
LooksAtOpenSocket == \A c \in Looking : socket[c] = "open"

\* parse_lsof_f, and run_with's log: what is logged for a connection is one
\* process, its name with its own pid, and only its own lookup logs it.  (It need
\* not be the app: see Holders.)
ReportsOneProcess ==
  \A c \in Clients :
    reported[c] # Unknown => reported[c].pid = reported[c].name /\ lookup[c] = "done"

\* Every session that has ended gives its socket back, however many lookups
\* wait before its own.
SocketReleased ==
  \A c \in Clients : session[c] = "done" ~> socket[c] = "closed"

\* After the shutdown token is cancelled no session of the proxy is left.
ShutdownClosesAll == cancelled ~> Open = {}
=============================================================================

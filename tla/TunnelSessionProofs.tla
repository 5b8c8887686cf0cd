------------------------ MODULE TunnelSessionProofs ------------------------
(***************************************************************************)
(* Proofs about TunnelSession.  A direction d of a session is a row of     *)
(* three connections.  The invariant counts, per connection, the units     *)
(* that have left it; the count is in no variable, so it is asserted to    *)
(* exist.  A unit's place on its connection then says what it must be (a   *)
(* message of the opening, true of the story so far, or the n-th chunk),   *)
(* and each node ties what it has written to what it has taken.  Every     *)
(* part is local to one connection or one node, and asks nothing of those  *)
(* that are broken, closed or left, so no failure disturbs the rest.       *)
(***************************************************************************)
EXTENDS TunnelSession, SequenceTheorems, TLAPS

-----------------------------------------------------------------------------
\* The connection a direction starts on and the one it ends on, with what the
\* parties at its ends have written and read.
Source(d) == IF d = "up" THEN "socks" ELSE "dest"
Final(d) == IF d = "up" THEN "dest" ELSE "socks"
Wrote(d) == IF d = "up" THEN appSent ELSE targetSent
Heard(d) == IF d = "up" THEN targetGot ELSE appGot

\* Units that each direction of a connection carries before the data.
Opening == [socks |-> 2, tunnel |-> 1, dest |-> 0]

\* What the messages of a session are about.
Story == [asked |-> appSent, dialed |-> dialed, produced |-> targetSent]

Asked(S, j, unit) == Len(S.asked) >= j /\ S.asked[j] = unit
Known(S, d) == IF d = "up" THEN Len(S.asked) ELSE Len(S.produced)

\* u is what story S makes the j-th unit of direction d on connection c.
Datum(S, c, d, j, u) ==
  /\ j > Opening[c] /\ j + Opening[Source(d)] <= Known(S, d) + Opening[c]
  /\ u = <<"data", j - Opening[c]>>

MethodTold(S, u) ==
  \/ Asked(S, 1, <<"greet", 0>>) /\ u = <<"method", 0>>
  \/ Asked(S, 1, <<"greet_auth", 0>>) /\ u = <<"method", 255>>

ReplyTold(S, u) ==
  /\ Asked(S, 1, <<"greet", 0>>)
  /\ \/ S.dialed = "connected" /\ u = <<"reply", 0>>
     \/ S.dialed = "failed" /\ u = <<"reply", 5>>
     \/ Asked(S, 2, <<"bind", 0>>) /\ u = <<"reply", 7>>

StatusTold(S, u) ==
  \/ S.dialed = "connected" /\ u = <<"status", 0>>
  \/ S.dialed = "failed" /\ u = <<"status", 5>>

Right(S, c, d, j, u) ==
  \/ Datum(S, c, d, j, u)
  \/ c = "socks" /\ d = "up" /\ j \in {1, 2} /\ Asked(S, j, u)
  \/ c = "socks" /\ d = "down" /\ j = 1 /\ MethodTold(S, u)
  \/ c = "socks" /\ d = "down" /\ j = 2 /\ ReplyTold(S, u)
  \/ c = "tunnel" /\ d = "up" /\ j = 1 /\ u = <<"header", 0>>
  \/ c = "tunnel" /\ d = "down" /\ j = 1 /\ StatusTold(S, u)

\* units is what follows the first k.
Row(S, c, d, k, units) == \A i \in 1..Len(units) : Right(S, c, d, k + i, units[i])

Dead == {"ending", "closing", "done"}
Speaks(p) == p \notin Dead
Going(p) == Speaks(p) /\ p # "not_supported"

\* Units of the opening of direction d that node x has taken at point p of its
\* task, and those it has written.  A request that is refused is not taken.
Took(p, x, d) ==
  IF x = "client"
    THEN IF d = "up"
           THEN IF p = "greeting" THEN 0
                ELSE IF p \in {"method", "no_method", "request", "not_supported"} THEN 1 ELSE 2
           ELSE IF p \in {"granted", "refused", "relay"} THEN 1 ELSE 0
    ELSE IF d = "up" /\ p \notin {"none", "header"} THEN 1 ELSE 0

Told(p, x, d) ==
  IF x = "client"
    THEN IF d = "up"
           THEN IF p \in {"status", "granted", "refused", "relay"} THEN 1 ELSE 0
           ELSE IF p \in {"greeting", "method", "no_method"} THEN 0
                ELSE IF p = "relay" THEN 2 ELSE 1
    ELSE IF d = "down" /\ p = "relay" THEN 1 ELSE 0

-----------------------------------------------------------------------------
Open(c, d) == c \notin reset /\ Reader(c, d) \notin gone
Listened(c, d) == \A x \in Node : From(x, d) = c => Going(pc[x])
Holds(x, d) == IF hold[x][d] = None THEN 0 ELSE 1

\* P[c] units have left connection c in direction d.
Heads(d, P) == P[Final(d)] = Len(Heard(d)) /\ Row(Story, Final(d), d, 0, Heard(d))

Tails(d, P) ==
  Open(Source(d), d) => P[Source(d)] + Len(q[Source(d)][d]) = Len(Wrote(d))

Carried(c, d, P) == Listened(c, d) => Row(Story, c, d, P[c], q[c][d])

Reading(x, d, P) ==
  LET c == From(x, d) IN
    Speaks(pc[x]) =>
      IF pc[x] = "relay"
        THEN /\ P[c] >= Opening[c]
             /\ hold[x][d] # None => Datum(Story, c, d, P[c], hold[x][d])
        ELSE P[c] = Took(pc[x], x, d)

Writing(x, d, P) ==
  LET c == To(x, d) IN
    Speaks(pc[x]) /\ Open(c, d) =>
      P[c] + Len(q[c][d]) + Took(pc[x], x, d) + Holds(x, d) = P[From(x, d)] + Told(pc[x], x, d)

Flow(d, P) ==
  /\ Heads(d, P) /\ Tails(d, P)
  /\ \A c \in Conn : Carried(c, d, P)
  /\ \A x \in Node : Reading(x, d, P) /\ Writing(x, d, P)

Places == [Conn -> Nat]
Flows == \A d \in Dir : \E P \in Places : Flow(d, P)

\* The points of the two tasks agree, and the story bears them out.
Opened ==
  /\ pc["client"] \in {"greeting", "method", "no_method", "request", "not_supported", "connect"} =>
        pc["server"] = "none"
  /\ pc["client"] \in {"method", "request", "not_supported", "connect", "header", "status",
                       "granted", "refused", "relay"} => Asked(Story, 1, <<"greet", 0>>)
  /\ pc["client"] = "no_method" => Asked(Story, 1, <<"greet_auth", 0>>)
  /\ pc["client"] = "not_supported" => Asked(Story, 2, <<"bind", 0>>)
  /\ pc["client"] = "connect" \/ pc["server"] # "none" => Asked(Story, 2, <<"connect", 0>>)
  /\ pc["client"] = "granted" => dialed = "connected"
  /\ pc["client"] = "refused" => dialed = "failed"

Dialed ==
  /\ pc["server"] \in {"none", "header", "dial"} => dialed = "no"
  /\ pc["server"] \in {"ok", "relay"} => dialed = "connected"
  /\ pc["server"] = "refused" => dialed = "failed"

Idle == \A x \in Node, d \in Dir : pc[x] # "relay" => hold[x][d] = None

\* What the parties write.
Script ==
  /\ Len(appSent) <= MaxUp + 2 /\ Len(targetSent) <= MaxDown
  /\ Len(appSent) >= 1 => appSent[1] \in {"greet", "greet_auth"} \X {0}
  /\ Len(appSent) >= 2 => appSent[2] \in {"connect", "bind", "bad_atyp"} \X {0}
  /\ \A i \in 3..Len(appSent) : appSent[i] = <<"data", i - 2>>
  /\ \A i \in 1..Len(targetSent) : targetSent[i] = <<"data", i>>
  /\ targetSent # <<>> => dialed = "connected"

IInv == TypeOK /\ Opened /\ Dialed /\ Idle /\ Script /\ Flows

-----------------------------------------------------------------------------
\* What a step does to the connections and nodes it is not about.

\* A story that goes on takes nothing back.
Grows(S, T) ==
  /\ Len(S.asked) <= Len(T.asked)
  /\ \A i \in 1..Len(S.asked) : T.asked[i] = S.asked[i]
  /\ S.dialed = "no" \/ T.dialed = S.dialed
  /\ Len(S.produced) <= Len(T.produced)

Begins(s, t) == Len(s) <= Len(t) /\ \A i \in 1..Len(s) : s[i] = t[i]

Worse == reset \subseteq reset' /\ gone \subseteq gone'

\* Units are lost at the end of a queue only, and only when the connection is.
Kept(c, d) ==
  /\ Listened(c, d)' => Begins(q'[c][d], q[c][d])
  /\ c \in reset' \/ Len(q'[c][d]) = Len(q[c][d])

\* A node that goes on has taken and written, in direction d, what it had.
Resting(x, d) ==
  /\ Going(pc'[x]) => Going(pc[x])
  /\ Speaks(pc'[x]) =>
       /\ Speaks(pc[x]) /\ (pc[x] = "relay" => pc'[x] = "relay")
       /\ Took(pc'[x], x, d) = Took(pc[x], x, d)
       /\ Told(pc'[x], x, d) = Told(pc[x], x, d)
       /\ hold'[x][d] = hold[x][d]

-----------------------------------------------------------------------------
\* Where the connections and the nodes are, direction by direction.
LEMMA Layout ==
  ASSUME NEW d \in Dir
  PROVE  /\ Source(d) \in Conn /\ Final(d) \in Conn /\ Other(d) \in Dir
         /\ Conn = {Source(d), "tunnel", Final(d)} /\ Source(d) # Final(d)
         /\ \A x \in Node : From(x, d) \in Conn /\ To(x, d) \in Conn /\ From(x, d) # To(x, d)
         /\ \A x \in Node : From(x, d) # Final(d) /\ To(x, d) # Source(d)
         /\ \A x, y \in Node : x # y => From(x, d) # From(y, d) /\ To(x, d) # To(y, d)
  BY DEF Dir, Source, Final, Conn, Node, From, To, Other

LEMMA Counts ==
  ASSUME NEW d \in Dir, NEW x \in Node, NEW p
  PROVE  /\ Took(p, x, d) \in Nat /\ Told(p, x, d) \in Nat
         /\ Took("relay", x, d) = Opening[From(x, d)]
         /\ Told("relay", x, d) = Opening[To(x, d)]
         /\ Opening[From(x, d)] \in Nat /\ Opening[To(x, d)] \in Nat
  BY DEF Dir, Node, Took, Told, Opening, From, To, Other

\* A unit that was right stays right.
LEMMA DatumGrows ==
  ASSUME NEW S, NEW T, NEW c \in Conn, NEW d \in Dir, NEW j \in Nat, NEW u,
         Len(S.asked) \in Nat, Len(T.asked) \in Nat,
         Len(S.produced) \in Nat, Len(T.produced) \in Nat,
         Grows(S, T), Datum(S, c, d, j, u)
  PROVE  Datum(T, c, d, j, u)
  <1>1. Known(S, d) \in Nat /\ Known(T, d) \in Nat /\ Known(S, d) <= Known(T, d)
    BY DEF Grows, Known
  <1>2. Opening[c] \in Nat /\ Opening[Source(d)] \in Nat
    BY DEF Opening, Conn, Source
  <1> QED BY <1>1, <1>2 DEF Datum

LEMMA AskedGrows ==
  ASSUME NEW S, NEW T, NEW j \in {1, 2}, NEW u,
         Len(S.asked) \in Nat, Len(T.asked) \in Nat,
         Grows(S, T), Asked(S, j, u)
  PROVE  Asked(T, j, u)
  BY DEF Grows, Asked

LEMMA RightGrows ==
  ASSUME NEW S, NEW T, NEW c \in Conn, NEW d \in Dir, NEW j \in Nat, NEW u,
         Len(S.asked) \in Nat, Len(T.asked) \in Nat,
         Len(S.produced) \in Nat, Len(T.produced) \in Nat,
         Grows(S, T), Right(S, c, d, j, u)
  PROVE  Right(T, c, d, j, u)
  <1>1. CASE Datum(S, c, d, j, u)
    BY <1>1, DatumGrows DEF Right
  <1>2. \A i \in {1, 2} : \A v : Asked(S, i, v) => Asked(T, i, v)
    BY AskedGrows
  <1>3. MethodTold(S, u) => MethodTold(T, u)
    BY <1>2 DEF MethodTold
  <1>4. ReplyTold(S, u) => ReplyTold(T, u)
    BY <1>2 DEF ReplyTold, Grows
  <1>5. StatusTold(S, u) => StatusTold(T, u)
    BY DEF StatusTold, Grows
  <1> QED BY <1>1, <1>2, <1>3, <1>4, <1>5 DEF Right

LEMMA RowGrows ==
  ASSUME NEW S, NEW T, NEW c \in Conn, NEW d \in Dir, NEW k \in Nat, NEW s, NEW t,
         Len(S.asked) \in Nat, Len(T.asked) \in Nat,
         Len(S.produced) \in Nat, Len(T.produced) \in Nat,
         Len(s) \in Nat, Len(t) \in Nat,
         Grows(S, T), Begins(s, t), Row(S, c, d, k, t)
  PROVE  Row(T, c, d, k, s)
  <1> SUFFICES ASSUME NEW i \in 1..Len(s) PROVE Right(T, c, d, k + i, s[i])
    BY DEF Row
  <1>1. i \in 1..Len(t) /\ s[i] = t[i] /\ k + i \in Nat
    BY DEF Begins
  <1>2. Right(S, c, d, k + i, t[i])
    BY <1>1 DEF Row
  <1> QED BY <1>1, <1>2, RightGrows

LEMMA RowTail ==
  ASSUME NEW S, NEW c, NEW d, NEW k \in Nat, NEW U, NEW s \in Seq(U), s # <<>>,
         Row(S, c, d, k, s)
  PROVE  Right(S, c, d, k + 1, Head(s)) /\ Row(S, c, d, k + 1, Tail(s))
  <1>1. Len(s) \in Nat \ {0} /\ Head(s) = s[1] /\ Len(Tail(s)) = Len(s) - 1
    BY EmptySeq, HeadTailProperties
  <1>2. Right(S, c, d, k + 1, Head(s))
    BY <1>1 DEF Row
  <1>3. ASSUME NEW i \in 1..Len(Tail(s)) PROVE Right(S, c, d, (k + 1) + i, Tail(s)[i])
    <2>1. Tail(s)[i] = s[i + 1]
      BY HeadTailProperties
    <2>2. i + 1 \in 1..Len(s) /\ k + (i + 1) = (k + 1) + i
      BY <1>1
    <2> QED BY <2>1, <2>2 DEF Row
  <1> QED BY <1>2, <1>3 DEF Row

LEMMA RowAppend ==
  ASSUME NEW S, NEW c, NEW d, NEW k \in Nat, NEW U, NEW s \in Seq(U), NEW u \in U,
         Row(S, c, d, k, s), Right(S, c, d, k + Len(s) + 1, u)
  PROVE  Row(S, c, d, k, Append(s, u))
  <1>1. Len(s) \in Nat /\ Len(Append(s, u)) = Len(s) + 1
    BY LenProperties, AppendProperties
  <1> SUFFICES ASSUME NEW i \in 1..(Len(s) + 1) PROVE Right(S, c, d, k + i, Append(s, u)[i])
    BY <1>1 DEF Row
  <1>2. CASE i \in 1..Len(s)
    <2>1. Append(s, u)[i] = s[i]
      BY <1>2, AppendProperties
    <2> QED BY <1>2, <2>1 DEF Row
  <1>3. CASE i = Len(s) + 1
    <2>1. Append(s, u)[i] = u /\ k + i = k + Len(s) + 1
      BY <1>1, <1>3, AppendProperties
    <2> QED BY <2>1
  <1> QED BY <1>1, <1>2, <1>3

-----------------------------------------------------------------------------
\* What of a direction's invariant outlasts a step that is not about it.

Sized ==
  /\ Len(Story.asked) \in Nat /\ Len(Story.produced) \in Nat
  /\ \A d \in Dir : Len(Wrote(d)) \in Nat /\ Len(Heard(d)) \in Nat
  /\ \A c \in Conn, d \in Dir : q[c][d] \in Seq(Unit) /\ Len(q[c][d]) \in Nat
  /\ \A x \in Node, d \in Dir : Holds(x, d) \in Nat

\* Lengths are numbers, before a step and after it.
LEMMA Sizes ==
  ASSUME TypeOK PROVE Sized
  BY LenProperties DEF Sized, TypeOK, Story, Wrote, Heard, Holds

LEMMA SizesAfter ==
  ASSUME TypeOK' PROVE Sized'
  BY LenProperties DEF Sized, TypeOK, Story, Wrote, Heard, Holds

LEMMA RowKept ==
  ASSUME TypeOK, TypeOK', NEW c \in Conn, NEW d \in Dir, NEW P \in Places,
         Grows(Story, Story'), Kept(c, d), Listened(c, d)' => Listened(c, d),
         Carried(c, d, P)
  PROVE  Carried(c, d, P)'
  <1> SUFFICES ASSUME Listened(c, d)' PROVE Row(Story', c, d, P[c], q'[c][d])
    BY DEF Carried
  <1>1. Row(Story, c, d, P[c], q[c][d]) /\ Begins(q'[c][d], q[c][d])
    BY DEF Carried, Kept
  <1>2. P[c] \in Nat
    BY DEF Places
  <1>3. /\ Len(Story.asked) \in Nat /\ Len(Story.produced) \in Nat
        /\ Len(Story'.asked) \in Nat /\ Len(Story'.produced) \in Nat
        /\ Len(q[c][d]) \in Nat /\ Len(q'[c][d]) \in Nat
    BY Sizes, SizesAfter DEF Sized
  <1> QED BY <1>1, <1>2, <1>3, RowGrows

LEMMA ReadingKept ==
  ASSUME TypeOK, TypeOK', Idle, NEW x \in Node, NEW d \in Dir, NEW P \in Places,
         Grows(Story, Story'), Resting(x, d), Reading(x, d, P)
  PROVE  Reading(x, d, P)'
  <1> DEFINE c == From(x, d)
  <1> SUFFICES ASSUME Speaks(pc'[x])
               PROVE IF pc'[x] = "relay"
                       THEN /\ P[c] >= Opening[c]
                            /\ hold'[x][d] # None => Datum(Story', c, d, P[c], hold'[x][d])
                       ELSE P[c] = Took(pc'[x], x, d)
    BY DEF Reading
  <1>1. /\ Speaks(pc[x]) /\ (pc[x] = "relay" => pc'[x] = "relay")
        /\ Took(pc'[x], x, d) = Took(pc[x], x, d) /\ hold'[x][d] = hold[x][d]
    BY DEF Resting
  <1>2. IF pc[x] = "relay"
          THEN /\ P[c] >= Opening[c]
               /\ hold[x][d] # None => Datum(Story, c, d, P[c], hold[x][d])
          ELSE P[c] = Took(pc[x], x, d)
    BY <1>1 DEF Reading
  <1>3. c \in Conn /\ P[c] \in Nat /\ Opening[c] \in Nat /\ Took("relay", x, d) = Opening[c]
    BY Layout, Counts DEF Places
  <1>4. /\ Len(Story.asked) \in Nat /\ Len(Story.produced) \in Nat
        /\ Len(Story'.asked) \in Nat /\ Len(Story'.produced) \in Nat
    BY Sizes, SizesAfter DEF Sized
  <1> HIDE DEF c
  <1>5. CASE pc[x] = "relay"
    <2>1. hold[x][d] # None => Datum(Story', c, d, P[c], hold[x][d])
      BY <1>2, <1>3, <1>4, <1>5, DatumGrows
    <2> QED BY <1>1, <1>2, <1>5, <2>1
  <1>6. CASE pc[x] # "relay" /\ pc'[x] # "relay"
    BY <1>1, <1>2, <1>6
  <1>7. CASE pc[x] # "relay" /\ pc'[x] = "relay"
    <2>1. hold'[x][d] = None
      BY <1>1, <1>7 DEF Idle
    <2>2. P[c] = Opening[c]
      BY <1>1, <1>2, <1>3, <1>7
    <2> QED BY <1>3, <1>7, <2>1, <2>2
  <1> QED BY <1>5, <1>6, <1>7

LEMMA WritingKept ==
  ASSUME NEW x \in Node, NEW d \in Dir, NEW P \in Places, Worse,
         Resting(x, d), Kept(To(x, d), d), Writing(x, d, P)
  PROVE  Writing(x, d, P)'
  <1> DEFINE c == To(x, d)
  <1> SUFFICES ASSUME Speaks(pc'[x]), Open(c, d)'
               PROVE P[c] + Len(q'[c][d]) + Took(pc'[x], x, d) + Holds(x, d)'
                       = P[From(x, d)] + Told(pc'[x], x, d)
    BY DEF Writing
  <1>1. c \notin reset' /\ Open(c, d)
    BY DEF Open, Worse
  <1>2. Len(q'[c][d]) = Len(q[c][d])
    BY <1>1 DEF Kept
  <1>3. /\ Speaks(pc[x]) /\ Holds(x, d)' = Holds(x, d)
        /\ Took(pc'[x], x, d) = Took(pc[x], x, d) /\ Told(pc'[x], x, d) = Told(pc[x], x, d)
    BY DEF Resting, Holds
  <1>4. P[c] + Len(q[c][d]) + Took(pc[x], x, d) + Holds(x, d)
          = P[From(x, d)] + Told(pc[x], x, d)
    BY <1>1, <1>3 DEF Writing
  <1> QED BY <1>2, <1>3, <1>4

LEMMA TailsKept ==
  ASSUME NEW d \in Dir, NEW P \in Places, Worse, Kept(Source(d), d),
         Wrote(d)' = Wrote(d), Tails(d, P)
  PROVE  Tails(d, P)'
  <1> DEFINE c == Source(d)
  <1> SUFFICES ASSUME Open(c, d)'
               PROVE P[c] + Len(q'[c][d]) = Len(Wrote(d)')
    BY DEF Tails
  <1>1. c \notin reset' /\ Open(c, d)
    BY DEF Open, Worse
  <1>2. Len(q'[c][d]) = Len(q[c][d])
    BY <1>1 DEF Kept
  <1> QED BY <1>1, <1>2 DEF Tails

LEMMA HeadsKept ==
  ASSUME TypeOK, TypeOK', NEW d \in Dir, NEW P \in Places,
         Grows(Story, Story'), Heard(d)' = Heard(d), Heads(d, P)
  PROVE  Heads(d, P)'
  <1>1. /\ Len(Story.asked) \in Nat /\ Len(Story.produced) \in Nat
        /\ Len(Story'.asked) \in Nat /\ Len(Story'.produced) \in Nat /\ Len(Heard(d)) \in Nat
    BY Sizes, SizesAfter DEF Sized
  <1>2. Final(d) \in Conn /\ Begins(Heard(d), Heard(d))
    BY <1>1, Layout DEF Begins
  <1>3. Row(Story', Final(d), d, 0, Heard(d))
    BY <1>1, <1>2, RowGrows DEF Heads
  <1> QED BY <1>3 DEF Heads

LEMMA ListenedKept ==
  ASSUME NEW c \in Conn, NEW d \in Dir, \A x \in Node : Resting(x, d), Listened(c, d)'
  PROVE  Listened(c, d)
  BY DEF Listened, Resting

\* A step that lets every node rest in direction d, and every connection keep
\* what it carries, leaves the counts of that direction as they are.
LEMMA FlowKept ==
  ASSUME TypeOK, TypeOK', Idle, NEW d \in Dir, NEW P \in Places,
         Worse, Grows(Story, Story'), Heard(d)' = Heard(d), Wrote(d)' = Wrote(d),
         \A c \in Conn : Kept(c, d), \A x \in Node : Resting(x, d),
         Flow(d, P)
  PROVE  Flow(d, P)'
  <1>1. Heads(d, P)'
    BY HeadsKept DEF Flow
  <1>2. Tails(d, P)'
    BY TailsKept, Layout DEF Flow
  <1>3. ASSUME NEW c \in Conn PROVE Carried(c, d, P)'
    BY ListenedKept, RowKept DEF Flow
  <1>4. ASSUME NEW x \in Node PROVE Reading(x, d, P)' /\ Writing(x, d, P)'
    BY ReadingKept, WritingKept, Layout DEF Flow
  <1> QED BY <1>1, <1>2, <1>3, <1>4 DEF Flow

-----------------------------------------------------------------------------
\* What Put, CloseEnd and Cut do to the connections.

LEMMA Beginnings ==
  ASSUME NEW U, NEW s \in Seq(U)
  PROVE  /\ Begins(s, s) /\ Begins(<<>>, s)
         /\ \A k \in 0..Len(s) : SubSeq(s, 1, k) \in Seq(U) /\ Begins(SubSeq(s, 1, k), s)
  <1>1. Len(s) \in Nat /\ \A i \in 1..Len(s) : s[i] \in U
    BY LenProperties, ElementOfSeq
  <1>2. ASSUME NEW k \in 0..Len(s)
        PROVE  SubSeq(s, 1, k) \in Seq(U) /\ Begins(SubSeq(s, 1, k), s)
    <2>1. k \in Nat /\ k <= Len(s) /\ \A i \in 1..k : s[i] \in U
      BY <1>1, <1>2
    <2>2. /\ SubSeq(s, 1, k) \in Seq(U)
          /\ Len(SubSeq(s, 1, k)) = IF 1 <= k THEN k - 1 + 1 ELSE 0
          /\ \A i \in 1..(k - 1 + 1) : SubSeq(s, 1, k)[i] = s[1 + i - 1]
      BY <2>1, SubSeqProperties
    <2>3. Len(SubSeq(s, 1, k)) = k /\ \A i \in 1..k : SubSeq(s, 1, k)[i] = s[i]
      BY <2>1, <2>2
    <2> QED BY <2>1, <2>2, <2>3 DEF Begins
  <1>3. Len(<<>>) = 0 /\ Begins(<<>>, s)
    BY <1>1, EmptySeq DEF Begins
  <1> QED BY <1>1, <1>2, <1>3 DEF Begins

LEMMA Remains ==
  ASSUME TypeOK, NEW c \in Conn, NEW d \in Dir, NEW rest \in Broken(c, d)
  PROVE  /\ rest \in [Dir -> Seq(Unit)]
         /\ \A e \in Dir : Begins(rest[e], q[c][e]) /\ rest[e] \in Seq(Carries[c][e])
  <1>1. PICK k \in 0..Len(q[c][d]) :
          rest = [e \in Dir |-> IF e = d THEN SubSeq(q[c][d], 1, k) ELSE <<>>]
    BY DEF Broken
  <1>2. ASSUME NEW e \in Dir
        PROVE  /\ rest[e] \in Seq(Unit) /\ rest[e] \in Seq(Carries[c][e])
               /\ Begins(rest[e], q[c][e])
    <2>1. q[c][e] \in Seq(Unit) /\ q[c][e] \in Seq(Carries[c][e])
      BY DEF TypeOK
    <2>2. CASE e = d
      <3>1. rest[e] = SubSeq(q[c][e], 1, k) /\ k \in 0..Len(q[c][e])
        BY <1>1, <2>2
      <3> QED BY <2>1, <3>1, Beginnings
    <2>3. CASE e # d
      <3>1. rest[e] = <<>>
        BY <1>1, <2>3
      <3> QED BY <2>1, <3>1, Beginnings, EmptySeq
    <2> QED BY <2>2, <2>3
  <1> QED BY <1>1, <1>2

\* q in the shape TypeOK gives it.
Queues ==
  /\ q \in [Conn -> [Dir -> Seq(Unit)]]
  /\ \A c \in Conn, d \in Dir : q[c][d] \in Seq(Carries[c][d])

LEMMA CarriedUnits ==
  ASSUME NEW c \in Conn, NEW d \in Dir
  PROVE  Carries[c][d] \subseteq Unit
  BY DEF Unit

LEMMA PutEffect ==
  ASSUME TypeOK, NEW c \in Conn, NEW d \in Dir, NEW u \in Carries[c][d],
         Put(c, d, u), gone' = gone
  PROVE  /\ Worse /\ Queues' /\ reset' \subseteq Conn /\ cut \subseteq reset'
         /\ \A b \in Conn, e \in Dir : b # c \/ e # d => Kept(b, e)
         /\ \/ /\ c \notin reset /\ Reader(c, d) \notin gone /\ reset' = reset
               /\ q'[c][d] = Append(q[c][d], u)
            \/ Reader(c, d) \in gone /\ Begins(q'[c][d], q[c][d])
  <1>1. /\ q \in [Conn -> [Dir -> Seq(Unit)]]
        /\ \A b \in Conn, e \in Dir : q[b][e] \in Seq(Carries[b][e])
        /\ reset \subseteq Conn /\ cut \subseteq reset
    BY DEF TypeOK
  <1>2. \A b \in Conn, e \in Dir : Begins(q[b][e], q[b][e])
    BY <1>1, Beginnings
  <1>3. CASE /\ c \notin reset /\ Reader(c, d) \notin gone /\ reset' = reset
             /\ q' = [q EXCEPT ![c][d] = Append(@, u)]
    <2>1. q'[c][d] = Append(q[c][d], u)
      BY <1>1, <1>3
    <2>2. \A b \in Conn, e \in Dir : b # c \/ e # d => q'[b][e] = q[b][e]
      BY <1>1, <1>3
    <2>3. /\ Append(q[c][d], u) \in Seq(Unit)
          /\ Append(q[c][d], u) \in Seq(Carries[c][d])
      <3>1. u \in Unit
        BY CarriedUnits
      <3>2. q[c][d] \in Seq(Unit) /\ q[c][d] \in Seq(Carries[c][d])
        BY <1>1
      <3> QED BY <3>1, <3>2, AppendProperties
    <2>4. q' \in [Conn -> [Dir -> Seq(Unit)]]
      <3> DEFINE row == [q[c] EXCEPT ![d] = Append(q[c][d], u)]
      <3>1. row \in [Dir -> Seq(Unit)]
        BY <1>1, <2>3
      <3>2. q' = [q EXCEPT ![c] = row]
        BY <1>3
      <3> HIDE DEF row
      <3> QED BY <1>1, <3>1, <3>2
    <2>5. Queues'
      BY <1>1, <2>1, <2>2, <2>3, <2>4 DEF Queues
    <2>6. \A b \in Conn, e \in Dir : b # c \/ e # d => Kept(b, e)
      BY <1>2, <2>2 DEF Kept
    <2> QED BY <1>1, <1>3, <2>1, <2>5, <2>6 DEF Worse
  <1>4. CASE Reader(c, d) \in gone /\ UNCHANGED <<q, reset>>
    <2>1. Queues'
      BY <1>1, <1>4 DEF Queues
    <2>2. \A b \in Conn, e \in Dir : Kept(b, e)
      BY <1>2, <1>4 DEF Kept
    <2> QED BY <1>1, <1>2, <1>4, <2>1, <2>2 DEF Worse
  <1>5. CASE /\ Reader(c, d) \in gone /\ reset' = reset \cup {c}
             /\ \E rest \in Broken(c, Other(d)) : q' = [q EXCEPT ![c] = rest]
    <2>1. PICK rest \in Broken(c, Other(d)) : q' = [q EXCEPT ![c] = rest]
      BY <1>5
    <2>2. /\ rest \in [Dir -> Seq(Unit)]
          /\ \A e \in Dir : Begins(rest[e], q[c][e]) /\ rest[e] \in Seq(Carries[c][e])
      BY Layout, Remains
    <2>3. q' \in [Conn -> [Dir -> Seq(Unit)]] /\ q'[c] = rest
      BY <1>1, <2>1, <2>2
    <2>4. \A b \in Conn : b # c => q'[b] = q[b]
      BY <1>1, <2>1
    <2>5. Queues'
      BY <1>1, <2>2, <2>3, <2>4 DEF Queues
    <2>6. \A b \in Conn, e \in Dir : Kept(b, e)
      BY <1>2, <1>5, <2>2, <2>3, <2>4 DEF Kept
    <2> QED BY <1>1, <1>5, <2>2, <2>3, <2>5, <2>6 DEF Worse
  <1> QED BY <1>3, <1>4, <1>5 DEF Put

LEMMA CloseEffect ==
  ASSUME TypeOK, NEW c \in Conn, NEW d \in Dir, CloseEnd(c, d)
  PROVE  /\ Worse /\ Queues' /\ reset' \subseteq Conn /\ cut \subseteq reset'
         /\ \A b \in Conn, e \in Dir : Kept(b, e)
  <1>1. /\ q \in [Conn -> [Dir -> Seq(Unit)]]
        /\ \A b \in Conn, e \in Dir : q[b][e] \in Seq(Carries[b][e])
        /\ reset \subseteq Conn /\ cut \subseteq reset
    BY DEF TypeOK
  <1>2. \A b \in Conn, e \in Dir : Begins(q[b][e], q[b][e])
    BY <1>1, Beginnings
  <1>3. CASE Lossy(c, d)
    <2>1. PICK rest \in Broken(c, d) : q' = [q EXCEPT ![c] = rest]
      BY <1>3 DEF CloseEnd
    <2>2. /\ rest \in [Dir -> Seq(Unit)]
          /\ \A e \in Dir : Begins(rest[e], q[c][e]) /\ rest[e] \in Seq(Carries[c][e])
      BY Remains
    <2>3. q' \in [Conn -> [Dir -> Seq(Unit)]] /\ q'[c] = rest
      BY <1>1, <2>1, <2>2
    <2>4. \A b \in Conn : b # c => q'[b] = q[b]
      BY <1>1, <2>1
    <2>5. Queues'
      BY <1>1, <2>2, <2>3, <2>4 DEF Queues
    <2>6. reset' = reset \cup {c} /\ gone \subseteq gone'
      BY <1>3 DEF CloseEnd
    <2>7. \A b \in Conn, e \in Dir : Kept(b, e)
      BY <1>2, <2>2, <2>3, <2>4, <2>6 DEF Kept
    <2> QED BY <1>1, <2>5, <2>6, <2>7 DEF Worse
  <1>4. CASE ~Lossy(c, d)
    <2>1. q' = q /\ reset' = reset /\ gone \subseteq gone'
      BY <1>4 DEF CloseEnd
    <2>2. \A b \in Conn, e \in Dir : Kept(b, e)
      BY <1>2, <2>1 DEF Kept
    <2> QED BY <1>1, <2>1, <2>2 DEF Worse, Queues
  <1> QED BY <1>3, <1>4

LEMMA CutEffect ==
  ASSUME TypeOK, NEW c \in Conn, Cut(c)
  PROVE  /\ Worse /\ Queues' /\ reset' \subseteq Conn /\ cut' \subseteq reset'
         /\ \A b \in Conn, e \in Dir : Kept(b, e)
  <1>1. /\ q \in [Conn -> [Dir -> Seq(Unit)]]
        /\ \A b \in Conn, e \in Dir : q[b][e] \in Seq(Carries[b][e])
        /\ reset \subseteq Conn /\ cut \subseteq reset
    BY DEF TypeOK
  <1>2. \A b \in Conn, e \in Dir : Begins(q[b][e], q[b][e])
    BY <1>1, Beginnings
  <1>3. PICK up \in 0..Len(q[c]["up"]) : \E down \in 0..Len(q[c]["down"]) :
          q' = [q EXCEPT ![c] = [up |-> SubSeq(@["up"], 1, up),
                                 down |-> SubSeq(@["down"], 1, down)]]
    BY DEF Cut
  <1>4. PICK down \in 0..Len(q[c]["down"]) :
          q' = [q EXCEPT ![c] = [up |-> SubSeq(@["up"], 1, up),
                                 down |-> SubSeq(@["down"], 1, down)]]
    BY <1>3
  <1>5. /\ SubSeq(q[c]["up"], 1, up) \in Seq(Unit)
        /\ SubSeq(q[c]["up"], 1, up) \in Seq(Carries[c]["up"])
        /\ Begins(SubSeq(q[c]["up"], 1, up), q[c]["up"])
    BY <1>1, Beginnings DEF Dir
  <1>6. /\ SubSeq(q[c]["down"], 1, down) \in Seq(Unit)
        /\ SubSeq(q[c]["down"], 1, down) \in Seq(Carries[c]["down"])
        /\ Begins(SubSeq(q[c]["down"], 1, down), q[c]["down"])
    BY <1>1, Beginnings DEF Dir
  <1>7. /\ q'[c]["up"] = SubSeq(q[c]["up"], 1, up)
        /\ q'[c]["down"] = SubSeq(q[c]["down"], 1, down)
        /\ \A b \in Conn : b # c => q'[b] = q[b]
    BY <1>1, <1>4
  <1>8. \A e \in Dir : /\ q'[c][e] \in Seq(Unit) /\ q'[c][e] \in Seq(Carries[c][e])
                       /\ Begins(q'[c][e], q[c][e])
    BY <1>5, <1>6, <1>7 DEF Dir
  <1>9. q' \in [Conn -> [Dir -> Seq(Unit)]]
    <2>1. \A a, b \in Seq(Unit) : [up |-> a, down |-> b] \in [Dir -> Seq(Unit)]
      BY DEF Dir
    <2>2. [up |-> SubSeq(q[c]["up"], 1, up), down |-> SubSeq(q[c]["down"], 1, down)]
             \in [Dir -> Seq(Unit)]
      BY <1>5, <1>6, <2>1
    <2> QED BY <1>1, <1>4, <2>2
  <1>10. Queues'
    BY <1>1, <1>7, <1>8, <1>9 DEF Queues
  <1>11. reset' = reset \cup {c} /\ cut' = cut \cup {c} /\ gone' = gone
    BY DEF Cut
  <1>12. \A b \in Conn, e \in Dir : Kept(b, e)
    BY <1>2, <1>7, <1>8, <1>11 DEF Kept
  <1> QED BY <1>1, <1>10, <1>11, <1>12 DEF Worse

LEMMA TakeEffect ==
  ASSUME TypeOK, NEW c \in Conn, NEW d \in Dir, Take(c, d), reset' = reset, gone' = gone
  PROVE  /\ Worse /\ Queues' /\ q[c][d] # <<>> /\ q'[c][d] = Tail(q[c][d])
         /\ First(c, d) = Head(q[c][d]) /\ First(c, d) \in Carries[c][d]
         /\ \A b \in Conn, e \in Dir : b # c \/ e # d => Kept(b, e)
  <1>1. /\ q \in [Conn -> [Dir -> Seq(Unit)]]
        /\ \A b \in Conn, e \in Dir : q[b][e] \in Seq(Carries[b][e])
    BY DEF TypeOK
  <1>2. \A b \in Conn, e \in Dir : Begins(q[b][e], q[b][e])
    BY <1>1, Beginnings
  <1>3. q[c][d] # <<>> /\ q' = [q EXCEPT ![c][d] = Tail(@)]
    BY DEF Take
  <1>4. /\ Tail(q[c][d]) \in Seq(Unit) /\ Tail(q[c][d]) \in Seq(Carries[c][d])
        /\ Head(q[c][d]) \in Carries[c][d]
    BY <1>1, <1>3, HeadTailProperties
  <1>5. /\ q'[c][d] = Tail(q[c][d])
        /\ \A b \in Conn, e \in Dir : b # c \/ e # d => q'[b][e] = q[b][e]
    BY <1>1, <1>3
  <1>6. Queues'
    <2>1. q' \in [Conn -> [Dir -> Seq(Unit)]]
      <3> DEFINE row == [q[c] EXCEPT ![d] = Tail(q[c][d])]
      <3>1. row \in [Dir -> Seq(Unit)]
        BY <1>1, <1>4
      <3>2. q' = [q EXCEPT ![c] = row]
        BY <1>3
      <3> HIDE DEF row
      <3> QED BY <1>1, <3>1, <3>2
    <2> QED BY <1>1, <1>4, <1>5, <2>1 DEF Queues
  <1>7. \A b \in Conn, e \in Dir : b # c \/ e # d => Kept(b, e)
    BY <1>2, <1>5 DEF Kept
  <1> QED BY <1>3, <1>4, <1>5, <1>6, <1>7 DEF Worse, First

-----------------------------------------------------------------------------
\* The steps that move a unit of direction d.

\* A node whose task and chunk stay as they are rests.
LEMMA Still ==
  ASSUME NEW x \in Node, NEW d \in Dir, pc'[x] = pc[x], hold'[x][d] = hold[x][d]
  PROVE  Resting(x, d)
  BY DEF Resting

\* A connection that takes in what comes next goes on carrying what is right.
LEMMA CarriedPut ==
  ASSUME TypeOK, TypeOK', NEW c \in Conn, NEW d \in Dir, NEW P \in Places, NEW u \in Unit,
         Grows(Story, Story'), Listened(c, d)' => Listened(c, d), Carried(c, d, P),
         \/ /\ q'[c][d] = Append(q[c][d], u)
            /\ Right(Story', c, d, P[c] + Len(q[c][d]) + 1, u)
         \/ Begins(q'[c][d], q[c][d])
  PROVE  Carried(c, d, P)'
  <1> SUFFICES ASSUME Listened(c, d)' PROVE Row(Story', c, d, P[c], q'[c][d])
    BY DEF Carried
  <1>1. Row(Story, c, d, P[c], q[c][d])
    BY DEF Carried
  <1>2. P[c] \in Nat /\ q[c][d] \in Seq(Unit)
    BY Sizes DEF Places, Sized
  <1>3. /\ Len(Story.asked) \in Nat /\ Len(Story.produced) \in Nat
        /\ Len(Story'.asked) \in Nat /\ Len(Story'.produced) \in Nat
        /\ Len(q[c][d]) \in Nat /\ Len(q'[c][d]) \in Nat
    BY Sizes, SizesAfter DEF Sized
  <1>4. CASE Begins(q'[c][d], q[c][d])
    BY <1>1, <1>2, <1>3, <1>4, RowGrows
  <1>5. CASE /\ q'[c][d] = Append(q[c][d], u)
             /\ Right(Story', c, d, P[c] + Len(q[c][d]) + 1, u)
    <2>1. Begins(q[c][d], q[c][d])
      BY <1>2, Beginnings
    <2>2. Row(Story', c, d, P[c], q[c][d])
      BY <1>1, <1>2, <1>3, <2>1, RowGrows
    <2> QED BY <1>2, <1>5, <2>2, RowAppend
  <1> QED BY <1>4, <1>5

\* The sum that Writing asks for.
Balanced(p, l, t, h, f, s) == p + l + t + h = f + s

LEMMA BalanceOfTake ==
  ASSUME NEW p \in Nat, NEW l \in Nat, NEW t \in Nat, NEW h \in Nat, NEW f \in Nat,
         NEW s \in Nat, NEW t2 \in Nat, NEW h2 \in Nat,
         Balanced(p, l, t, h, f, s), t2 + h2 = t + h + 1
  PROVE  Balanced(p, l, t2, h2, f + 1, s)
  BY DEF Balanced

LEMMA BalanceOfWrite ==
  ASSUME NEW p \in Nat, NEW l \in Nat, NEW t \in Nat, NEW h \in Nat, NEW f \in Nat,
         NEW s \in Nat, NEW t2 \in Nat, NEW h2 \in Nat, NEW s2 \in Nat,
         p + l + t + h = f + s, s2 + t + h = s + t2 + h2 + 1
  PROVE  p + (l + 1) + t2 + h2 = f + s2
  OBVIOUS

\* A node writes the unit that comes next in direction d.
LEMMA FlowWritten ==
  ASSUME TypeOK, TypeOK', Idle, NEW d \in Dir, NEW P \in Places, NEW w \in Node,
         NEW u \in Carries[To(w, d)][d], Put(To(w, d), d, u), gone' = gone,
         Grows(Story, Story'), Heard(d)' = Heard(d), Wrote(d)' = Wrote(d),
         \A x \in Node : x # w => Resting(x, d),
         Speaks(pc[w]), Going(pc'[w]) => Going(pc[w]),
         Speaks(pc'[w]) => Told(pc'[w], w, d) + Took(pc[w], w, d) + Holds(w, d)
                             = Told(pc[w], w, d) + Took(pc'[w], w, d) + Holds(w, d)' + 1,
         \A n \in Nat : n + Took(pc[w], w, d) + Holds(w, d) = P[From(w, d)] + Told(pc[w], w, d)
                          => Right(Story', To(w, d), d, n + 1, u),
         Reading(w, d, P)', Flow(d, P)
  PROVE  Flow(d, P)'
  <1> DEFINE c == To(w, d)
  <1>1. /\ c \in Conn /\ Source(d) \in Conn /\ c # Source(d) /\ u \in Unit
        /\ \A x \in Node : To(x, d) \in Conn /\ (x # w => To(x, d) # c)
    BY Layout, CarriedUnits
  <1>2. /\ Worse
        /\ \A b \in Conn, e \in Dir : b # c \/ e # d => Kept(b, e)
        /\ \/ /\ c \notin reset /\ Reader(c, d) \notin gone /\ reset' = reset
              /\ q'[c][d] = Append(q[c][d], u)
           \/ Reader(c, d) \in gone /\ Begins(q'[c][d], q[c][d])
    BY <1>1, PutEffect
  <1>3. Heads(d, P)'
    BY HeadsKept DEF Flow
  <1>4. Tails(d, P)'
    BY <1>1, <1>2, TailsKept DEF Flow
  <1>5. \A b \in Conn : Listened(b, d)' => Listened(b, d)
    BY DEF Listened, Resting
  <1>6. \A x \in Node : Reading(x, d, P)'
    BY ReadingKept DEF Flow
  <1>7. /\ P[c] \in Nat /\ P[From(w, d)] \in Nat /\ q[c][d] \in Seq(Unit)
        /\ Len(q[c][d]) \in Nat /\ Holds(w, d) \in Nat /\ Holds(w, d)' \in Nat
        /\ Took(pc[w], w, d) \in Nat /\ Told(pc[w], w, d) \in Nat
        /\ Took(pc'[w], w, d) \in Nat /\ Told(pc'[w], w, d) \in Nat
    BY <1>1, Layout, Counts, Sizes, SizesAfter DEF Places, Sized
  <1>8. Open(c, d) => P[c] + Len(q[c][d]) + Took(pc[w], w, d) + Holds(w, d)
                        = P[From(w, d)] + Told(pc[w], w, d)
    BY DEF Flow, Writing
  <1>9. Open(c, d) => Right(Story', c, d, P[c] + Len(q[c][d]) + 1, u)
    BY <1>7, <1>8
  <1> HIDE DEF c
  <1>10. ASSUME NEW b \in Conn PROVE Carried(b, d, P)'
    <2>1. CASE b # c
      BY <1>2, <1>5, <2>1, RowKept DEF Flow
    <2>2. CASE b = c
      <3>1. \/ /\ q'[c][d] = Append(q[c][d], u)
               /\ Right(Story', c, d, P[c] + Len(q[c][d]) + 1, u)
            \/ Begins(q'[c][d], q[c][d])
        BY <1>2, <1>9 DEF Open
      <3>2. Carried(c, d, P)
        BY <1>1 DEF Flow
      <3> QED BY <1>1, <1>5, <2>2, <3>1, <3>2, CarriedPut
    <2> QED BY <2>1, <2>2
  <1>11. Writing(w, d, P)'
    <2> SUFFICES ASSUME Speaks(pc'[w]), Open(c, d)'
                 PROVE P[c] + Len(q'[c][d]) + Took(pc'[w], w, d) + Holds(w, d)'
                         = P[From(w, d)] + Told(pc'[w], w, d)
      BY DEF Writing, c
    <2>1. Open(c, d) /\ Reader(c, d) \notin gone
      BY <1>2 DEF Open, Worse
    <2>2. Len(q'[c][d]) = Len(q[c][d]) + 1
      <3>1. q'[c][d] = Append(q[c][d], u)
        BY <1>2, <2>1
      <3>2. q[c][d] \in Seq(Unit) /\ u \in Unit
        BY <1>1, <1>7
      <3> QED BY <3>1, <3>2, AppendProperties
    <2>3. Told(pc'[w], w, d) + Took(pc[w], w, d) + Holds(w, d)
            = Told(pc[w], w, d) + Took(pc'[w], w, d) + Holds(w, d)' + 1
      OBVIOUS
    <2>4. P[c] + (Len(q[c][d]) + 1) + Took(pc'[w], w, d) + Holds(w, d)'
            = P[From(w, d)] + Told(pc'[w], w, d)
      <3>2. PICK p, l, t, h, f, s, t2, h2, s2 \in Nat :
              /\ p = P[c] /\ l = Len(q[c][d]) /\ f = P[From(w, d)]
              /\ t = Took(pc[w], w, d) /\ h = Holds(w, d) /\ s = Told(pc[w], w, d)
              /\ t2 = Took(pc'[w], w, d) /\ h2 = Holds(w, d)' /\ s2 = Told(pc'[w], w, d)
        BY <1>7
      <3>3. p + l + t + h = f + s /\ s2 + t + h = s + t2 + h2 + 1
        BY <1>8, <2>1, <2>3, <3>2
      <3>4. p + (l + 1) + t2 + h2 = f + s2
        BY <3>3, BalanceOfWrite
      <3> QED BY <3>2, <3>4
    <2> QED BY <2>2, <2>4
  <1>12. ASSUME NEW x \in Node, x # w PROVE Writing(x, d, P)'
    BY <1>1, <1>2, <1>12, WritingKept DEF Flow
  <1> QED BY <1>3, <1>4, <1>6, <1>10, <1>11, <1>12 DEF Flow

\* A node takes the unit that leads the connection it reads.
LEMMA FlowTaken ==
  ASSUME TypeOK, TypeOK', Idle, NEW d \in Dir, NEW P \in Places, NEW w \in Node, NEW Q,
         Worse, q[From(w, d)][d] # <<>>, q'[From(w, d)][d] = Tail(q[From(w, d)][d]),
         \A b \in Conn : b # From(w, d) => Kept(b, d),
         Grows(Story, Story'), Heard(d)' = Heard(d), Wrote(d)' = Wrote(d),
         \A x \in Node : x # w => Resting(x, d),
         Speaks(pc[w]), Going(pc'[w]) => Going(pc[w]),
         Speaks(pc'[w]) => /\ Told(pc'[w], w, d) = Told(pc[w], w, d)
                           /\ Took(pc'[w], w, d) + Holds(w, d)'
                                = Took(pc[w], w, d) + Holds(w, d) + 1,
         Q = [P EXCEPT ![From(w, d)] = @ + 1],
         Reading(w, d, Q)', Flow(d, P)
  PROVE  Q \in Places /\ Flow(d, Q)'
  <1> DEFINE c == From(w, d)
  <1>1. /\ c \in Conn /\ Source(d) \in Conn /\ c # Final(d) /\ Final(d) \in Conn
        /\ \A x \in Node : /\ To(x, d) \in Conn /\ From(x, d) \in Conn
                           /\ (x # w => From(x, d) # c)
        /\ To(w, d) # c
    BY Layout
  <1>2. Q \in Places /\ Q[c] = P[c] + 1 /\ P[c] \in Nat /\ \A b \in Conn : b # c => Q[b] = P[b]
    BY <1>1 DEF Places
  <1>3. q[c][d] \in Seq(Unit) /\ Len(q[c][d]) \in Nat /\ Len(q'[c][d]) = Len(q[c][d]) - 1
    BY <1>1, Sizes, HeadTailProperties DEF Sized
  <1>4. \A b \in Conn : Listened(b, d)' => Listened(b, d)
    BY DEF Listened, Resting
  <1> HIDE DEF c
  <1>5. Heads(d, Q)'
    <2>1. Heads(d, P)'
      BY HeadsKept DEF Flow
    <2> QED BY <1>1, <1>2, <2>1 DEF Heads
  <1>6. Tails(d, Q)'
    <2>1. CASE Source(d) # c
      <3>1. Tails(d, P)'
        BY <1>1, <2>1, TailsKept DEF Flow, c
      <3> QED BY <1>1, <1>2, <2>1, <3>1 DEF Tails
    <2>2. CASE Source(d) = c
      <3> SUFFICES ASSUME Open(c, d)' PROVE Q[c] + Len(q'[c][d]) = Len(Wrote(d))
        BY <2>2 DEF Tails
      <3>1. Open(c, d)
        BY DEF Open, Worse
      <3>2. P[c] + Len(q[c][d]) = Len(Wrote(d))
        BY <2>2, <3>1 DEF Flow, Tails
      <3> QED BY <1>2, <1>3, <3>2
    <2> QED BY <2>1, <2>2
  <1>7. ASSUME NEW b \in Conn PROVE Carried(b, d, Q)'
    <2>1. CASE b # c
      <3>1. Carried(b, d, P)'
        BY <1>4, <2>1, RowKept DEF Flow, c
      <3> QED BY <1>2, <2>1, <3>1 DEF Carried
    <2>2. CASE b = c
      <3> SUFFICES ASSUME Listened(c, d)' PROVE Row(Story', c, d, Q[c], q'[c][d])
        BY <2>2 DEF Carried
      <3>1. Row(Story, c, d, P[c], q[c][d])
        BY <1>1, <1>4 DEF Flow, Carried
      <3>2. q[c][d] # <<>> /\ q'[c][d] = Tail(q[c][d])
        BY DEF c
      <3>3. Row(Story, c, d, P[c] + 1, q'[c][d])
        BY <1>2, <1>3, <3>1, <3>2, RowTail
      <3>4. /\ Len(Story.asked) \in Nat /\ Len(Story.produced) \in Nat
            /\ Len(Story'.asked) \in Nat /\ Len(Story'.produced) \in Nat
            /\ q'[c][d] \in Seq(Unit) /\ Len(q'[c][d]) \in Nat
        BY <1>1, Sizes, SizesAfter DEF Sized
      <3>5. Begins(q'[c][d], q'[c][d]) /\ P[c] + 1 \in Nat
        BY <1>2, <3>4, Beginnings
      <3> QED BY <1>1, <1>2, <3>3, <3>4, <3>5, RowGrows
    <2> QED BY <2>1, <2>2
  <1>8. ASSUME NEW x \in Node, x # w PROVE Reading(x, d, Q)'
    <2>1. Reading(x, d, P)'
      BY <1>8, ReadingKept DEF Flow
    <2>2. Q[From(x, d)] = P[From(x, d)]
      BY <1>1, <1>2, <1>8
    <2> QED BY <2>1, <2>2 DEF Reading
  <1>9. Writing(w, d, Q)'
    <2> DEFINE b == To(w, d)
    <2>1. b \in Conn /\ b # c /\ Q[b] = P[b] /\ Q[From(w, d)] = P[c] + 1
      BY <1>1, <1>2 DEF c
    <2> SUFFICES ASSUME Speaks(pc'[w]), Open(b, d)'
                 PROVE P[b] + Len(q'[b][d]) + Took(pc'[w], w, d) + Holds(w, d)'
                         = P[c] + 1 + Told(pc'[w], w, d)
      BY <2>1 DEF Writing
    <2>2. Open(b, d) /\ b \notin reset'
      BY DEF Open, Worse
    <2>3. Len(q'[b][d]) = Len(q[b][d])
      BY <2>1, <2>2 DEF Kept, c
    <2>4. P[b] + Len(q[b][d]) + Took(pc[w], w, d) + Holds(w, d) = P[c] + Told(pc[w], w, d)
      BY <2>2 DEF Flow, Writing, c
    <2>5. /\ P[b] \in Nat /\ Len(q[b][d]) \in Nat /\ Holds(w, d) \in Nat /\ Holds(w, d)' \in Nat
          /\ Took(pc[w], w, d) \in Nat /\ Told(pc[w], w, d) \in Nat
          /\ Took(pc'[w], w, d) \in Nat
      BY <2>1, Counts, Sizes, SizesAfter DEF Places, Sized
    <2>6. /\ Told(pc'[w], w, d) = Told(pc[w], w, d)
          /\ Took(pc'[w], w, d) + Holds(w, d)' = Took(pc[w], w, d) + Holds(w, d) + 1
      OBVIOUS
    <2> HIDE DEF b
    <2>7. Balanced(P[b], Len(q[b][d]), Took(pc'[w], w, d), Holds(w, d)', P[c] + 1,
                   Told(pc[w], w, d))
      <3>1. Balanced(P[b], Len(q[b][d]), Took(pc[w], w, d), Holds(w, d), P[c],
                     Told(pc[w], w, d))
        BY <2>4 DEF Balanced
      <3>2. P[c] \in Nat
        BY <1>2
      <3> QED BY <2>5, <2>6, <3>1, <3>2, BalanceOfTake
    <2> QED BY <2>3, <2>6, <2>7 DEF Balanced
  <1>10. ASSUME NEW x \in Node, x # w PROVE Writing(x, d, Q)'
    <2>1. Q[From(x, d)] = P[From(x, d)] /\ To(x, d) \in Conn
      BY <1>1, <1>2, <1>10
    <2>2. CASE To(x, d) # c
      <3>1. Writing(x, d, P)'
        BY <1>1, <1>10, <2>2, WritingKept DEF Flow, c
      <3>2. Q[To(x, d)] = P[To(x, d)]
        BY <1>1, <1>2, <2>2
      <3> QED BY <2>1, <3>1, <3>2 DEF Writing
    <2>3. CASE To(x, d) = c
      <3> SUFFICES ASSUME Speaks(pc'[x]), Open(c, d)'
                   PROVE P[c] + 1 + Len(q'[c][d]) + Took(pc'[x], x, d) + Holds(x, d)'
                           = P[From(x, d)] + Told(pc'[x], x, d)
        BY <1>2, <2>1, <2>3 DEF Writing
      <3>1. Open(c, d) /\ Speaks(pc[x]) /\ Holds(x, d)' = Holds(x, d)
        BY <1>10 DEF Open, Worse, Resting, Holds
      <3>2. /\ Took(pc'[x], x, d) = Took(pc[x], x, d)
            /\ Told(pc'[x], x, d) = Told(pc[x], x, d)
        BY <1>10 DEF Resting
      <3>3. P[c] + Len(q[c][d]) + Took(pc[x], x, d) + Holds(x, d)
              = P[From(x, d)] + Told(pc[x], x, d)
        BY <2>3, <3>1 DEF Flow, Writing
      <3>4. \A n, l \in Nat : \A k : k = l - 1 => n + 1 + k = n + l
        OBVIOUS
      <3>5. P[c] + 1 + Len(q'[c][d]) = P[c] + Len(q[c][d])
        BY <1>2, <1>3, <3>4
      <3> QED BY <3>1, <3>2, <3>3, <3>5
    <2> QED BY <2>2, <2>3
  <1> QED BY <1>2, <1>5, <1>6, <1>7, <1>8, <1>9, <1>10 DEF Flow

\* A party reads the unit that leads the connection a direction ends on.
LEMMA FlowHeard ==
  ASSUME TypeOK, TypeOK', Idle, NEW d \in Dir, NEW P \in Places, NEW Q,
         Worse, q[Final(d)][d] # <<>>, q'[Final(d)][d] = Tail(q[Final(d)][d]),
         \A b \in Conn : b # Final(d) => Kept(b, d),
         Story' = Story, Wrote(d)' = Wrote(d),
         Heard(d)' = Append(Heard(d), Head(q[Final(d)][d])), Heard(d) \in Seq(Unit),
         \A x \in Node : Resting(x, d),
         Q = [P EXCEPT ![Final(d)] = @ + 1],
         Flow(d, P)
  PROVE  Q \in Places /\ Flow(d, Q)'
  <1> DEFINE c == Final(d)
  <1>1. /\ c \in Conn /\ Source(d) \in Conn /\ Source(d) # c
        /\ \A x \in Node : To(x, d) \in Conn /\ From(x, d) \in Conn /\ From(x, d) # c
    BY Layout
  <1>2. Q \in Places /\ Q[c] = P[c] + 1 /\ P[c] \in Nat /\ \A b \in Conn : b # c => Q[b] = P[b]
    BY <1>1 DEF Places
  <1>3. q[c][d] \in Seq(Unit) /\ Len(q[c][d]) \in Nat /\ Len(q'[c][d]) = Len(q[c][d]) - 1
    BY <1>1, Sizes, HeadTailProperties DEF Sized
  <1>4. \A b \in Conn : Listened(b, d)' => Listened(b, d)
    BY DEF Listened, Resting
  <1>5. /\ Right(Story, c, d, P[c] + 1, Head(q[c][d])) /\ Row(Story, c, d, P[c] + 1, q'[c][d])
        /\ Head(q[c][d]) \in Unit
    <2>1. Listened(c, d)
      BY <1>1 DEF Listened
    <2>2. Row(Story, c, d, P[c], q[c][d])
      BY <1>1, <2>1 DEF Flow, Carried
    <2> QED BY <1>2, <1>3, <2>2, RowTail, HeadTailProperties
  <1>6. Grows(Story, Story')
    BY Sizes DEF Sized, Grows
  <1> HIDE DEF c
  <1>7. Heads(d, Q)'
    <2>1. P[c] = Len(Heard(d)) /\ Row(Story, c, d, 0, Heard(d))
      BY DEF Flow, Heads, c
    <2>2. Heard(d)' = Append(Heard(d), Head(q[c][d]))
      BY DEF c
    <2>3. Q[c] = Len(Heard(d)')
      BY <1>2, <1>5, <2>1, <2>2, AppendProperties
    <2>4. \A n \in Nat : n + 1 = 0 + n + 1
      OBVIOUS
    <2>5. P[c] + 1 = 0 + Len(Heard(d)) + 1
      BY <1>2, <2>1, <2>4
    <2>6. Right(Story, c, d, 0 + Len(Heard(d)) + 1, Head(q[c][d]))
      BY <1>5, <2>5
    <2>7. Row(Story, c, d, 0, Heard(d)')
      BY <1>5, <2>1, <2>2, <2>6, RowAppend
    <2> QED BY <2>3, <2>7 DEF Heads, c
  <1>8. Tails(d, Q)'
    <2>1. Tails(d, P)'
      BY <1>1, TailsKept DEF Flow, c
    <2> QED BY <1>1, <1>2, <2>1 DEF Tails
  <1>9. ASSUME NEW b \in Conn PROVE Carried(b, d, Q)'
    <2>1. CASE b # c
      <3>1. Carried(b, d, P)'
        BY <1>4, <1>6, <2>1, RowKept DEF Flow, c
      <3> QED BY <1>2, <2>1, <3>1 DEF Carried
    <2>2. CASE b = c
      BY <1>2, <1>5, <2>2 DEF Carried
    <2> QED BY <2>1, <2>2
  <1>10. ASSUME NEW x \in Node PROVE Reading(x, d, Q)'
    <2>1. Reading(x, d, P)'
      BY <1>6, ReadingKept DEF Flow
    <2>2. Q[From(x, d)] = P[From(x, d)]
      BY <1>1, <1>2
    <2> QED BY <2>1, <2>2 DEF Reading
  <1>11. ASSUME NEW x \in Node PROVE Writing(x, d, Q)'
    <2>1. Q[From(x, d)] = P[From(x, d)] /\ To(x, d) \in Conn
      BY <1>1, <1>2
    <2>2. CASE To(x, d) # c
      <3>1. Writing(x, d, P)'
        BY <2>1, <2>2, WritingKept DEF Flow, c
      <3>2. Q[To(x, d)] = P[To(x, d)]
        BY <2>1, <1>2, <2>2
      <3> QED BY <2>1, <3>1, <3>2 DEF Writing
    <2>3. CASE To(x, d) = c
      <3> SUFFICES ASSUME Speaks(pc'[x]), Open(c, d)'
                   PROVE P[c] + 1 + Len(q'[c][d]) + Took(pc'[x], x, d) + Holds(x, d)'
                           = P[From(x, d)] + Told(pc'[x], x, d)
        BY <1>2, <2>1, <2>3 DEF Writing
      <3>1. Open(c, d) /\ Speaks(pc[x]) /\ Holds(x, d)' = Holds(x, d)
        BY DEF Open, Worse, Resting, Holds
      <3>2. /\ Took(pc'[x], x, d) = Took(pc[x], x, d)
            /\ Told(pc'[x], x, d) = Told(pc[x], x, d)
        BY DEF Resting
      <3>3. P[c] + Len(q[c][d]) + Took(pc[x], x, d) + Holds(x, d)
              = P[From(x, d)] + Told(pc[x], x, d)
        BY <2>3, <3>1 DEF Flow, Writing
      <3>4. \A n, l \in Nat : \A k : k = l - 1 => n + 1 + k = n + l
        OBVIOUS
      <3>5. P[c] + 1 + Len(q'[c][d]) = P[c] + Len(q[c][d])
        BY <1>2, <1>3, <3>4
      <3> QED BY <3>1, <3>2, <3>3, <3>5
    <2> QED BY <2>2, <2>3
  <1> QED BY <1>2, <1>7, <1>8, <1>9, <1>10, <1>11 DEF Flow

\* A party writes the unit that comes next on the connection it starts.
LEMMA FlowAsked ==
  ASSUME TypeOK, TypeOK', Idle, NEW d \in Dir, NEW P \in Places,
         NEW u \in Carries[Source(d)][d], Put(Source(d), d, u), gone' = gone,
         Grows(Story, Story'), Heard(d)' = Heard(d),
         Wrote(d)' = Append(Wrote(d), u), Wrote(d) \in Seq(Unit),
         Right(Story', Source(d), d, Len(Wrote(d)) + 1, u),
         \A x \in Node : Resting(x, d),
         Flow(d, P)
  PROVE  Flow(d, P)'
  <1> DEFINE c == Source(d)
  <1>1. c \in Conn /\ u \in Unit /\ \A x \in Node : To(x, d) \in Conn /\ To(x, d) # c
    BY Layout, CarriedUnits
  <1>2. /\ Worse
        /\ \A b \in Conn, e \in Dir : b # c \/ e # d => Kept(b, e)
        /\ \/ /\ c \notin reset /\ Reader(c, d) \notin gone /\ reset' = reset
              /\ q'[c][d] = Append(q[c][d], u)
           \/ Reader(c, d) \in gone /\ Begins(q'[c][d], q[c][d])
    BY <1>1, PutEffect
  <1>3. P[c] \in Nat /\ q[c][d] \in Seq(Unit) /\ Len(q[c][d]) \in Nat
    BY <1>1, Sizes DEF Places, Sized
  <1>4. Open(c, d) => P[c] + Len(q[c][d]) = Len(Wrote(d))
    BY DEF Flow, Tails
  <1>5. Right(Story', c, d, Len(Wrote(d)) + 1, u) /\ Wrote(d)' = Append(Wrote(d), u)
    OBVIOUS
  <1>6. \A b \in Conn : Listened(b, d)' => Listened(b, d)
    BY DEF Listened, Resting
  <1> HIDE DEF c
  <1>7. ASSUME NEW b \in Conn PROVE Carried(b, d, P)'
    <2>1. CASE b # c
      BY <1>2, <1>6, <2>1, RowKept DEF Flow
    <2>2. CASE b = c
      <3>1. \/ /\ q'[c][d] = Append(q[c][d], u)
               /\ Right(Story', c, d, P[c] + Len(q[c][d]) + 1, u)
            \/ Begins(q'[c][d], q[c][d])
        BY <1>2, <1>4, <1>5 DEF Open
      <3>2. Carried(c, d, P)
        BY <1>1 DEF Flow
      <3> QED BY <1>1, <1>6, <2>2, <3>1, <3>2, CarriedPut
    <2> QED BY <2>1, <2>2
  <1>8. Tails(d, P)'
    <2> SUFFICES ASSUME Open(c, d)' PROVE P[c] + Len(q'[c][d]) = Len(Wrote(d)')
      BY DEF Tails, c
    <2>1. Open(c, d) /\ Reader(c, d) \notin gone
      BY <1>2 DEF Open, Worse
    <2>2. Len(q'[c][d]) = Len(q[c][d]) + 1
      <3>1. q'[c][d] = Append(q[c][d], u)
        BY <1>2, <2>1
      <3> QED BY <1>1, <1>3, <3>1, AppendProperties
    <2>3. Len(Wrote(d)') = Len(Wrote(d)) + 1
      BY <1>1, <1>5, AppendProperties
    <2> QED BY SMTT(30), <1>3, <1>4, <2>1, <2>2, <2>3
  <1>9. Heads(d, P)'
    BY HeadsKept DEF Flow
  <1>10. ASSUME NEW x \in Node PROVE Reading(x, d, P)' /\ Writing(x, d, P)'
    BY <1>1, <1>2, ReadingKept, WritingKept DEF Flow
  <1> QED BY <1>7, <1>8, <1>9, <1>10 DEF Flow

-----------------------------------------------------------------------------
\* The steps that move no unit on.

LEMMA SameStory ==
  ASSUME TypeOK, UNCHANGED <<appSent, dialed, targetSent>>
  PROVE  Story' = Story /\ Grows(Story, Story') /\ (Script => Script')
         /\ \A d \in Dir : Wrote(d)' = Wrote(d)
  <1>1. Story' = Story /\ \A d \in Dir : Wrote(d)' = Wrote(d)
    BY DEF Story, Wrote
  <1>2. Grows(Story, Story')
    BY <1>1, Sizes DEF Sized, Grows
  <1>3. Script => Script'
    BY DEF Script
  <1> QED BY <1>1, <1>2, <1>3

LEMMA SameHeard ==
  ASSUME UNCHANGED <<appGot, targetGot>>
  PROVE  \A d \in Dir : Heard(d)' = Heard(d)
  BY DEF Heard

LEMMA FlowsKept ==
  ASSUME TypeOK, TypeOK', Idle, Worse, Grows(Story, Story'), Flows,
         \A d \in Dir : Heard(d)' = Heard(d) /\ Wrote(d)' = Wrote(d),
         \A c \in Conn, d \in Dir : Kept(c, d),
         \A x \in Node, d \in Dir : Resting(x, d)
  PROVE  Flows'
  <1> SUFFICES ASSUME NEW d \in Dir PROVE \E P \in Places : Flow(d, P)'
    BY DEF Flows
  <1>1. PICK P \in Places : Flow(d, P)
    BY DEF Flows
  <1>2. Flow(d, P)'
    BY <1>1, FlowKept
  <1> QED BY <1>2

\* A step of the parties or of the network that only closes or breaks.
LEMMA Quietly ==
  ASSUME IInv, TypeOK', UNCHANGED <<pc, hold, dialed, parties>>, Worse,
         \A c \in Conn, d \in Dir : Kept(c, d)
  PROVE  IInv'
  <1>1. /\ UNCHANGED <<appSent, dialed, targetSent>> /\ UNCHANGED <<appGot, targetGot>>
        /\ UNCHANGED <<pc, hold>>
    BY DEF parties
  <1>2. TypeOK /\ Opened /\ Dialed /\ Idle /\ Script /\ Flows
    BY DEF IInv
  <1>3. Grows(Story, Story') /\ Script' /\ Story' = Story
    BY <1>1, <1>2, SameStory
  <1>4. \A d \in Dir : Heard(d)' = Heard(d) /\ Wrote(d)' = Wrote(d)
    BY <1>1, <1>2, SameStory, SameHeard
  <1>5. \A x \in Node, d \in Dir : Resting(x, d)
    BY <1>1, Still
  <1>6. Flows'
    BY <1>2, <1>3, <1>4, <1>5, FlowsKept
  <1>7. Opened'
    BY <1>1, <1>2, <1>3 DEF Opened
  <1>8. Dialed'
    BY <1>1, <1>2 DEF Dialed
  <1>9. Idle'
    BY <1>1, <1>2 DEF Idle
  <1> QED BY <1>3, <1>6, <1>7, <1>8, <1>9 DEF IInv

\* A step with which a task comes nearer its end.
LEMMA Ending ==
  ASSUME IInv, TypeOK', NEW x \in Node, NEW p \in Dead,
         pc[x] # "none", pc' = [pc EXCEPT ![x] = p],
         \A y \in Node, d \in Dir : y # x => hold'[y][d] = hold[y][d],
         \A d \in Dir : hold'[x][d] = None,
         UNCHANGED <<dialed, parties>>, Worse,
         \A c \in Conn, d \in Dir : Kept(c, d)
  PROVE  IInv'
  <1>1. UNCHANGED <<appSent, dialed, targetSent>> /\ UNCHANGED <<appGot, targetGot>>
    BY DEF parties
  <1>2. TypeOK /\ Opened /\ Dialed /\ Idle /\ Script /\ Flows
    BY DEF IInv
  <1>3. pc'[x] \in Dead /\ \A y \in Node : y # x => pc'[y] = pc[y]
    BY <1>2 DEF TypeOK
  <1>4. Grows(Story, Story') /\ Script' /\ Story' = Story
    BY <1>1, <1>2, SameStory
  <1>5. \A d \in Dir : Heard(d)' = Heard(d) /\ Wrote(d)' = Wrote(d)
    BY <1>1, <1>2, SameStory, SameHeard
  <1>6. ASSUME NEW y \in Node, NEW d \in Dir PROVE Resting(y, d)
    <2>1. CASE y = x
      BY <1>3, <2>1 DEF Resting, Speaks, Going
    <2>2. CASE y # x
      BY <1>3, <2>2, Still
    <2> QED BY <2>1, <2>2
  <1>7. Flows'
    BY <1>2, <1>4, <1>5, <1>6, FlowsKept
  <1>8. ASSUME x = "client" PROVE Opened' /\ Dialed'
    <2>1. pc'["client"] \in Dead /\ pc'["server"] = pc["server"]
      BY <1>3, <1>8 DEF Node
    <2>2. Opened'
      BY <1>1, <1>2, <1>4, <2>1 DEF Opened, Dead
    <2>3. Dialed'
      BY <1>1, <1>2, <2>1 DEF Dialed
    <2> QED BY <2>2, <2>3
  <1>9. ASSUME x = "server" PROVE Opened' /\ Dialed'
    <2>1. pc'["server"] \in Dead /\ pc'["client"] = pc["client"] /\ pc["server"] # "none"
      BY <1>3, <1>9 DEF Node
    <2>2. Opened'
      BY <1>1, <1>2, <1>4, <2>1 DEF Opened, Dead
    <2>3. Dialed'
      BY <2>1 DEF Dialed, Dead
    <2> QED BY <2>2, <2>3
  <1>10. Opened' /\ Dialed'
    <2>1. x = "client" \/ x = "server"
      BY DEF Node
    <2> QED BY <1>8, <1>9, <2>1
  <1>11. Idle'
    BY <1>2, <1>3 DEF Idle
  <1> QED BY <1>4, <1>7, <1>10, <1>11 DEF IInv

-----------------------------------------------------------------------------
\* One lemma per action: the steps that move no unit.

\* pc in the shape TypeOK gives it.
Points ==
  /\ pc \in [Node -> ClientPc \cup ServerPc]
  /\ pc["client"] \in ClientPc /\ pc["server"] \in ServerPc

LEMMA PcTyped ==
  ASSUME TypeOK, NEW x \in Node, NEW p, pc' = [pc EXCEPT ![x] = p],
         p \in IF x = "client" THEN ClientPc ELSE ServerPc
  PROVE  Points' /\ pc'[x] = p /\ \A y \in Node : y # x => pc'[y] = pc[y]
  <1>1. /\ pc \in [Node -> ClientPc \cup ServerPc]
        /\ pc["client"] \in ClientPc /\ pc["server"] \in ServerPc
    BY DEF TypeOK
  <1>2. x = "client" \/ x = "server"
    BY DEF Node
  <1>3. p \in ClientPc \cup ServerPc
    OBVIOUS
  <1>4. pc'[x] = p /\ \A y \in Node : y # x => pc'[y] = pc[y]
    BY <1>1
  <1>5. pc' \in [Node -> ClientPc \cup ServerPc]
    BY <1>1, <1>3
  <1>6. pc'["client"] \in ClientPc
    BY <1>1, <1>2, <1>4 DEF Node
  <1>7. pc'["server"] \in ServerPc
    BY <1>1, <1>2, <1>4 DEF Node
  <1> QED BY <1>4, <1>5, <1>6, <1>7 DEF Points

LEMMA Untouched ==
  ASSUME TypeOK, UNCHANGED <<q, reset, ends>>
  PROVE  /\ Worse /\ Queues' /\ \A c \in Conn, d \in Dir : Kept(c, d)
         /\ reset' \subseteq Conn /\ cut' \subseteq reset'
  <1>1. q' = q /\ reset' = reset /\ gone' = gone /\ cut' = cut
    BY DEF ends
  <1>2. Queues /\ reset \subseteq Conn /\ cut \subseteq reset
    BY DEF TypeOK, Queues
  <1>3. Queues'
    BY <1>1, <1>2 DEF Queues
  <1>4. ASSUME NEW c \in Conn, NEW d \in Dir PROVE Kept(c, d)
    <2>1. Begins(q[c][d], q[c][d])
      BY Sizes, Beginnings DEF Sized
    <2> QED BY <1>1, <2>1 DEF Kept
  <1> QED BY <1>1, <1>2, <1>3, <1>4 DEF Worse

LEMMA FailKeeps ==
  ASSUME IInv, NEW x \in Node, Fail(x)
  PROVE  IInv'
  <1>1. TypeOK /\ Idle
    BY DEF IInv
  <1>2. /\ pc' = [pc EXCEPT ![x] = "ending"] /\ UNCHANGED <<hold, dialed, parties>>
        /\ UNCHANGED <<q, reset, ends>>
    BY DEF Fail, Go
  <1>3. pc[x] # "none" /\ pc[x] # "relay"
    BY DEF Fail, Awaits, Sends, Node
  <1>4. Points'
    BY <1>1, <1>2, PcTyped DEF ClientPc, ServerPc
  <1>5. Worse /\ Queues' /\ \A c \in Conn, d \in Dir : Kept(c, d)
    BY <1>1, <1>2, Untouched
  <1>6. TypeOK'
    BY <1>1, <1>2, <1>4 DEF TypeOK, Points, parties, ends
  <1>7. \A d \in Dir : hold'[x][d] = None
    BY <1>1, <1>2, <1>3 DEF Idle
  <1>8. "ending" \in Dead
    BY DEF Dead
  <1> QED BY <1>2, <1>3, <1>5, <1>6, <1>7, <1>8, Ending

LEMMA RelayEndsKeeps ==
  ASSUME IInv, NEW x \in Node, RelayEnds(x)
  PROVE  IInv'
  <1>1. TypeOK /\ Idle
    BY DEF IInv
  <1>2. /\ pc[x] = "relay" /\ pc' = [pc EXCEPT ![x] = "ending"]
        /\ hold' = [hold EXCEPT ![x] = [d \in Dir |-> None]]
        /\ UNCHANGED <<dialed, parties>> /\ UNCHANGED <<q, reset, ends>>
    BY DEF RelayEnds, Go
  <1>3. Points'
    BY <1>1, <1>2, PcTyped DEF ClientPc, ServerPc
  <1>4. Worse /\ Queues' /\ \A c \in Conn, d \in Dir : Kept(c, d)
    BY <1>1, <1>2, Untouched
  <1>5. hold \in [Node -> [Dir -> Chunk \cup {None}]]
    BY <1>1 DEF TypeOK
  <1>6. /\ hold' \in [Node -> [Dir -> Chunk \cup {None}]]
        /\ \A d \in Dir : hold'[x][d] = None
        /\ \A y \in Node, d \in Dir : y # x => hold'[y][d] = hold[y][d]
    BY <1>2, <1>5
  <1>7. TypeOK'
    BY <1>1, <1>2, <1>3, <1>6 DEF TypeOK, Points, parties, ends
  <1>8. "ending" \in Dead /\ pc[x] # "none"
    BY <1>2 DEF Dead
  <1> QED BY <1>2, <1>4, <1>6, <1>7, <1>8, Ending

LEMMA DropKeeps ==
  ASSUME IInv, NEW x \in Node, Drop(x)
  PROVE  IInv'
  <1> DEFINE p == IF pc[x] = "ending" THEN "closing" ELSE "done"
             end == Owned[x][pc[x]]
  <1>1. TypeOK /\ Idle
    BY DEF IInv
  <1>2. /\ pc[x] \in {"ending", "closing"} /\ pc' = [pc EXCEPT ![x] = p]
        /\ UNCHANGED <<hold, dialed, parties>> /\ cut' = cut
        /\ CloseEnd(end[1], end[2]) \/ UNCHANGED <<q, shut, gone, reset>>
    BY DEF Drop, Go
  <1>3. end[1] \in Conn /\ end[2] \in Dir
    BY <1>2 DEF Owned, Node, Conn, Dir
  <1>4. p \in Dead /\ p \in ClientPc /\ p \in ServerPc
    BY DEF Dead, ClientPc, ServerPc
  <1>5. Points'
    BY <1>1, <1>2, <1>4, PcTyped
  <1> HIDE DEF p, end
  <1>6. /\ Worse /\ Queues' /\ \A c \in Conn, d \in Dir : Kept(c, d)
        /\ reset' \subseteq Conn /\ cut' \subseteq reset'
        /\ shut' \subseteq {Writer(c, d) : c \in Conn, d \in Dir} /\ gone' \subseteq shut'
    <2>1. CASE CloseEnd(end[1], end[2])
      <3>1. /\ Worse /\ Queues' /\ \A c \in Conn, d \in Dir : Kept(c, d)
            /\ reset' \subseteq Conn /\ cut \subseteq reset'
        BY <1>1, <1>3, <2>1, CloseEffect
      <3>2. /\ shut' = shut \cup {Writer(end[1], end[2])}
            /\ gone' = gone \cup {Writer(end[1], end[2])}
        BY <2>1 DEF CloseEnd
      <3>3. shut \subseteq {Writer(c, d) : c \in Conn, d \in Dir} /\ gone \subseteq shut
        BY <1>1 DEF TypeOK
      <3> QED BY <1>2, <1>3, <3>1, <3>2, <3>3
    <2>2. CASE UNCHANGED <<q, shut, gone, reset>>
      <3>1. UNCHANGED <<q, reset, ends>>
        BY <1>2, <2>2 DEF ends
      <3>2. shut \subseteq {Writer(c, d) : c \in Conn, d \in Dir} /\ gone \subseteq shut
        BY <1>1 DEF TypeOK
      <3> QED BY <1>1, <2>2, <3>1, <3>2, Untouched
    <2> QED BY <1>2, <2>1, <2>2
  <1>7. TypeOK'
    BY <1>1, <1>2, <1>5, <1>6 DEF TypeOK, Points, Queues, parties
  <1>8. pc[x] # "none" /\ \A d \in Dir : hold'[x][d] = None
    BY <1>1, <1>2 DEF Idle
  <1>9. PICK r \in Dead : pc' = [pc EXCEPT ![x] = r]
    BY <1>2, <1>4
  <1>10. \A y \in Node, d \in Dir : y # x => hold'[y][d] = hold[y][d]
    BY <1>2
  <1>11. UNCHANGED <<dialed, parties>> /\ Worse /\ \A c \in Conn, d \in Dir : Kept(c, d)
    BY <1>2, <1>6
  <1> QED BY <1>7, <1>8, <1>9, <1>10, <1>11, Ending

LEMMA PartyClosesKeeps ==
  ASSUME IInv, NEW c \in Conn, NEW d \in Dir, PartyCloses(c, d)
  PROVE  IInv'
  <1>1. TypeOK
    BY DEF IInv
  <1>2. /\ UNCHANGED <<pc, hold, dialed, parties>> /\ cut' = cut
        /\ CloseEnd(c, d) \/ (shut' = shut \cup {Writer(c, d)} /\ UNCHANGED <<q, gone, reset>>)
    BY DEF PartyCloses
  <1>3. shut \subseteq {Writer(b, e) : b \in Conn, e \in Dir} /\ gone \subseteq shut
    BY <1>1 DEF TypeOK
  <1>4. /\ Worse /\ Queues' /\ \A b \in Conn, e \in Dir : Kept(b, e)
        /\ reset' \subseteq Conn /\ cut' \subseteq reset'
        /\ shut' \subseteq {Writer(b, e) : b \in Conn, e \in Dir} /\ gone' \subseteq shut'
    <2>1. CASE CloseEnd(c, d)
      <3>1. shut' = shut \cup {Writer(c, d)} /\ gone' = gone \cup {Writer(c, d)}
        BY <2>1 DEF CloseEnd
      <3> QED BY <1>1, <1>2, <1>3, <2>1, <3>1, CloseEffect
    <2>2. CASE shut' = shut \cup {Writer(c, d)} /\ UNCHANGED <<q, gone, reset>>
      <3>1. Queues /\ reset \subseteq Conn /\ cut \subseteq reset
        BY <1>1 DEF TypeOK, Queues
      <3>2. Queues'
        BY <2>2, <3>1 DEF Queues
      <3>3. ASSUME NEW b \in Conn, NEW e \in Dir PROVE Kept(b, e)
        <4>1. Begins(q[b][e], q[b][e])
          BY <1>1, Sizes, Beginnings DEF Sized
        <4> QED BY <2>2, <4>1 DEF Kept
      <3> QED BY <1>2, <1>3, <2>2, <3>1, <3>2, <3>3 DEF Worse
    <2> QED BY <1>2, <2>1, <2>2
  <1>5. TypeOK'
    BY SMTT(30), <1>1, <1>2, <1>4 DEF TypeOK, Queues, parties
  <1> QED BY <1>2, <1>4, <1>5, Quietly

LEMMA CutKeeps ==
  ASSUME IInv, NEW c \in Conn, Cut(c)
  PROVE  IInv'
  <1>1. TypeOK
    BY DEF IInv
  <1>2. UNCHANGED <<pc, hold, dialed, parties>> /\ UNCHANGED <<shut, gone>>
    BY DEF Cut
  <1>3. /\ Worse /\ Queues' /\ reset' \subseteq Conn /\ cut' \subseteq reset'
        /\ \A b \in Conn, e \in Dir : Kept(b, e)
    BY <1>1, CutEffect
  <1>4. TypeOK'
    BY <1>1, <1>2, <1>3 DEF TypeOK, Queues, parties
  <1> QED BY <1>2, <1>3, <1>4, Quietly

LEMMA ConnectKeeps ==
  ASSUME IInv, Connect
  PROVE  IInv'
  <1>1. TypeOK /\ Opened /\ Dialed /\ Idle /\ Script /\ Flows
    BY DEF IInv
  <1>2. /\ pc["client"] = "connect" /\ UNCHANGED <<hold, dialed, parties>>
        /\ UNCHANGED <<q, reset, ends>>
    BY DEF Connect
  <1>3. Worse /\ Queues' /\ \A c \in Conn, d \in Dir : Kept(c, d)
    BY <1>1, <1>2, Untouched
  <1>4. CASE pc' = [pc EXCEPT !["client"] = "ending"]
    <2>1. "client" \in Node /\ "ending" \in Dead /\ pc["client"] # "none"
      BY <1>2 DEF Node, Dead
    <2>2. Points'
      BY <1>1, <1>4, <2>1, PcTyped DEF ClientPc
    <2>3. TypeOK'
      BY <1>1, <1>2, <2>2 DEF TypeOK, Points, parties, ends
    <2>4. \A d \in Dir : hold'["client"][d] = None
      BY <1>1, <1>2, <2>1 DEF Idle
    <2> QED BY <1>2, <1>3, <1>4, <2>1, <2>3, <2>4, Ending
  <1>5. CASE pc' = [client |-> "header", server |-> "header"]
    <2>1. pc'["client"] = "header" /\ pc'["server"] = "header"
      BY <1>5
    <2>2. pc["server"] = "none"
      BY <1>1, <1>2 DEF Opened
    <2>3. Points'
      BY <1>5 DEF Points, Node, ClientPc, ServerPc
    <2>4. TypeOK'
      BY <1>1, <1>2, <2>3 DEF TypeOK, Points, parties, ends
    <2>5. UNCHANGED <<appSent, dialed, targetSent>> /\ UNCHANGED <<appGot, targetGot>>
      BY <1>2 DEF parties
    <2>6. Grows(Story, Story') /\ Script' /\ Story' = Story
      BY <1>1, <2>5, SameStory
    <2>7. \A d \in Dir : Heard(d)' = Heard(d) /\ Wrote(d)' = Wrote(d)
      BY <1>1, <2>5, SameStory, SameHeard
    <2>8. ASSUME NEW x \in Node, NEW d \in Dir PROVE Resting(x, d)
      BY <1>2, <2>1, <2>2 DEF Resting, Speaks, Going, Dead, Took, Told, Node
    <2>9. Flows'
      BY <1>1, <1>3, <2>4, <2>6, <2>7, <2>8, FlowsKept
    <2>10. Opened'
      BY <1>1, <1>2, <2>1, <2>6 DEF Opened
    <2>11. Dialed'
      BY <1>1, <2>1, <2>2, <2>5 DEF Dialed
    <2>12. Idle'
      BY <1>1, <1>2, <2>1, <2>2 DEF Idle, Node
    <2> QED BY <2>4, <2>6, <2>9, <2>10, <2>11, <2>12 DEF IInv
  <1> QED BY <1>4, <1>5 DEF Connect, Go

LEMMA DialKeeps ==
  ASSUME IInv, Dial
  PROVE  IInv'
  <1>1. TypeOK /\ Opened /\ Dialed /\ Idle /\ Script /\ Flows
    BY DEF IInv
  <1>2. /\ pc["server"] = "dial" /\ UNCHANGED <<hold, parties>> /\ UNCHANGED <<q, reset, ends>>
    BY DEF Dial
  <1>3. Worse /\ Queues' /\ \A c \in Conn, d \in Dir : Kept(c, d)
    BY <1>1, <1>2, Untouched
  <1>4. dialed = "no" /\ targetSent = <<>>
    BY <1>1, <1>2 DEF Dialed, Script
  <1>5. \/ pc' = [pc EXCEPT !["server"] = "ok"] /\ dialed' = "connected"
        \/ pc' = [pc EXCEPT !["server"] = "refused"] /\ dialed' = "failed"
    BY DEF Dial, Go, AfterFailedDial
  <1>6. "server" \in Node /\ {"ok", "refused"} \subseteq ServerPc
    BY DEF Node, ServerPc
  <1>7. Points' /\ pc'["client"] = pc["client"]
    BY <1>1, <1>5, <1>6, PcTyped DEF Node
  <1>8. \/ pc'["server"] = "ok" /\ dialed' = "connected"
        \/ pc'["server"] = "refused" /\ dialed' = "failed"
    BY <1>1, <1>5, <1>6, PcTyped
  <1>9. TypeOK'
    BY <1>1, <1>2, <1>7, <1>8 DEF TypeOK, Points, parties, ends
  <1>10. appSent' = appSent /\ targetSent' = targetSent /\ appGot' = appGot /\ targetGot' = targetGot
    BY <1>2 DEF parties
  <1>11. Grows(Story, Story')
    BY <1>1, <1>4, <1>10, Sizes DEF Sized, Grows, Story
  <1>12. \A d \in Dir : Heard(d)' = Heard(d) /\ Wrote(d)' = Wrote(d)
    BY <1>10 DEF Heard, Wrote
  <1>13. ASSUME NEW x \in Node, NEW d \in Dir PROVE Resting(x, d)
    BY <1>2, <1>7, <1>8 DEF Resting, Speaks, Going, Dead, Took, Told, Node
  <1>14. Flows'
    BY <1>1, <1>3, <1>9, <1>11, <1>12, <1>13, FlowsKept
  <1>15. \A j \in {1, 2} : \A u : Asked(Story, j, u)' = Asked(Story, j, u)
    BY <1>10 DEF Asked, Story
  <1>16. Opened'
    BY <1>1, <1>2, <1>4, <1>7, <1>8, <1>15 DEF Opened
  <1>17. Dialed'
    BY <1>8 DEF Dialed
  <1>18. Idle'
    BY <1>1, <1>2, <1>7, <1>8 DEF Idle, Node
  <1>19. Script'
    BY <1>1, <1>4, <1>10 DEF Script
  <1> QED BY <1>9, <1>14, <1>16, <1>17, <1>18, <1>19 DEF IInv

-----------------------------------------------------------------------------
\* The messages of the opening.

\* A task writes a message of the opening in direction d.
LEMMA Saying ==
  ASSUME IInv, NEW x \in Node, NEW d \in Dir, NEW u \in Carries[To(x, d)][d], NEW p,
         p \in IF x = "client" THEN ClientPc ELSE ServerPc,
         Put(To(x, d), d, u), pc' = [pc EXCEPT ![x] = p],
         UNCHANGED <<hold, ends, dialed, parties>>,
         pc[x] # "relay", Speaks(pc[x]), Going(p) => Going(pc[x]),
         Speaks(p) => /\ \A e \in Dir : Took(p, x, e) = Took(pc[x], x, e)
                      /\ Told(p, x, d) = Told(pc[x], x, d) + 1
                      /\ \A e \in Dir : e # d => Told(p, x, e) = Told(pc[x], x, e),
         Right(Story, To(x, d), d, Told(pc[x], x, d) + 1, u)
  PROVE  TypeOK' /\ Idle' /\ Script' /\ Flows' /\ Story' = Story
  <1>1. TypeOK /\ Opened /\ Dialed /\ Idle /\ Script /\ Flows
    BY DEF IInv
  <1>2. /\ Points' /\ pc'[x] = p /\ \A y \in Node : y # x => pc'[y] = pc[y]
    BY <1>1, PcTyped
  <1>3. To(x, d) \in Conn /\ gone' = gone /\ shut' = shut /\ cut' = cut /\ hold' = hold
    BY Layout DEF ends
  <1>4. /\ Worse /\ Queues' /\ reset' \subseteq Conn /\ cut \subseteq reset'
        /\ \A b \in Conn, e \in Dir : b # To(x, d) \/ e # d => Kept(b, e)
    BY <1>1, <1>3, PutEffect
  <1>5. TypeOK'
    BY <1>1, <1>2, <1>3, <1>4 DEF TypeOK, Points, Queues, parties
  <1>6. UNCHANGED <<appSent, dialed, targetSent>> /\ UNCHANGED <<appGot, targetGot>>
    BY DEF parties
  <1>7. Grows(Story, Story') /\ Script' /\ Story' = Story
    BY <1>1, <1>6, SameStory
  <1>8. \A e \in Dir : Heard(e)' = Heard(e) /\ Wrote(e)' = Wrote(e)
    BY <1>1, <1>6, SameStory, SameHeard
  <1>9. \A e \in Dir : hold[x][e] = None /\ Holds(x, e) = 0 /\ Holds(x, e)' = 0
    BY <1>1, <1>3 DEF Idle, Holds
  <1>10. Idle'
    <2> SUFFICES ASSUME NEW y \in Node, NEW e \in Dir, pc'[y] # "relay"
                 PROVE hold'[y][e] = None
      BY DEF Idle
    <2>1. CASE y = x
      BY <1>3, <1>9, <2>1
    <2>2. CASE y # x
      BY <1>1, <1>2, <1>3, <2>2 DEF Idle
    <2> QED BY <2>1, <2>2
  <1>11. \A y \in Node, e \in Dir : y # x => Resting(y, e)
    BY <1>2, <1>3, Still
  <1>12. ASSUME NEW e \in Dir, e # d PROVE \E P \in Places : Flow(e, P)'
    <2>1. PICK P \in Places : Flow(e, P)
      BY <1>1 DEF Flows
    <2>2. Resting(x, e)
      BY <1>2, <1>3, <1>12 DEF Resting
    <2>3. \A y \in Node : Resting(y, e)
      BY <1>11, <2>2
    <2>4. \A b \in Conn : Kept(b, e)
      BY <1>4, <1>12
    <2>5. Flow(e, P)'
      BY <1>1, <1>4, <1>5, <1>7, <1>8, <2>1, <2>3, <2>4, FlowKept
    <2> QED BY <2>5
  <1>13. \E P \in Places : Flow(d, P)'
    <2>1. PICK P \in Places : Flow(d, P)
      BY <1>1 DEF Flows
    <2>2. P[From(x, d)] = Took(pc[x], x, d) /\ P[From(x, d)] \in Nat
      BY <2>1, Layout DEF Flow, Reading, Places
    <2>3. /\ Took(pc[x], x, d) \in Nat /\ Told(pc[x], x, d) \in Nat
          /\ Took("relay", x, d) = Opening[From(x, d)] /\ Opening[From(x, d)] \in Nat
      BY Counts
    <2>4. Reading(x, d, P)'
      <3> SUFFICES ASSUME Speaks(p)
                   PROVE IF p = "relay"
                           THEN /\ P[From(x, d)] >= Opening[From(x, d)]
                                /\ hold'[x][d] # None
                                     => Datum(Story', From(x, d), d, P[From(x, d)], hold'[x][d])
                           ELSE P[From(x, d)] = Took(p, x, d)
        BY <1>2 DEF Reading
      <3>1. P[From(x, d)] = Took(p, x, d) /\ hold'[x][d] = None
        BY <1>3, <1>9, <2>2
      <3>2. CASE p = "relay"
        BY <2>2, <2>3, <3>1, <3>2
      <3> QED BY <3>1, <3>2
    <2>5. ASSUME NEW n \in Nat,
                 n + Took(pc[x], x, d) + Holds(x, d) = P[From(x, d)] + Told(pc[x], x, d)
          PROVE  Right(Story', To(x, d), d, n + 1, u)
      <3>1. \A a, b \in Nat : n + a + 0 = a + b => n = b
        OBVIOUS
      <3>2. n = Told(pc[x], x, d)
        BY <1>9, <2>2, <2>3, <2>5, <3>1
      <3> QED BY <1>7, <3>2
    <2>6. Speaks(p) => Told(p, x, d) + Took(pc[x], x, d) + Holds(x, d)
                         = Told(pc[x], x, d) + Took(p, x, d) + Holds(x, d)' + 1
      <3>1. \A a, b \in Nat : (b + 1) + a + 0 = b + a + 0 + 1
        OBVIOUS
      <3> QED BY <1>9, <2>3, <3>1
    <2>7. Flow(d, P)'
      BY <1>1, <1>2, <1>3, <1>5, <1>7, <1>8, <1>11, <2>1, <2>4, <2>5, <2>6, FlowWritten
    <2> QED BY <2>7
  <1>14. Flows'
    BY <1>12, <1>13 DEF Flows
  <1> QED BY <1>5, <1>7, <1>10, <1>14

\* A task takes a message of the opening in direction d.
LEMMA Hearing ==
  ASSUME IInv, NEW x \in Node, NEW d \in Dir, NEW p,
         p \in IF x = "client" THEN ClientPc ELSE ServerPc,
         Take(From(x, d), d), pc' = [pc EXCEPT ![x] = p],
         UNCHANGED <<hold, ends, reset, dialed, parties>>,
         pc[x] # "relay", p # "relay", Speaks(pc[x]), Going(p) => Going(pc[x]),
         Speaks(p) => /\ \A e \in Dir : Told(p, x, e) = Told(pc[x], x, e)
                      /\ Took(p, x, d) = Took(pc[x], x, d) + 1
                      /\ \A e \in Dir : e # d => Took(p, x, e) = Took(pc[x], x, e)
  PROVE  TypeOK' /\ Idle' /\ Script' /\ Flows' /\ Story' = Story
  <1>1. TypeOK /\ Opened /\ Dialed /\ Idle /\ Script /\ Flows
    BY DEF IInv
  <1>2. /\ Points' /\ pc'[x] = p /\ \A y \in Node : y # x => pc'[y] = pc[y]
    BY <1>1, PcTyped
  <1>3. /\ From(x, d) \in Conn /\ gone' = gone /\ shut' = shut /\ cut' = cut
        /\ hold' = hold /\ reset' = reset
    BY Layout DEF ends
  <1>4. /\ Worse /\ Queues' /\ q[From(x, d)][d] # <<>>
        /\ q'[From(x, d)][d] = Tail(q[From(x, d)][d])
        /\ \A b \in Conn, e \in Dir : b # From(x, d) \/ e # d => Kept(b, e)
    BY <1>1, <1>3, TakeEffect
  <1>5. TypeOK'
    BY <1>1, <1>2, <1>3, <1>4 DEF TypeOK, Points, Queues, parties
  <1>6. UNCHANGED <<appSent, dialed, targetSent>> /\ UNCHANGED <<appGot, targetGot>>
    BY DEF parties
  <1>7. Grows(Story, Story') /\ Script' /\ Story' = Story
    BY <1>1, <1>6, SameStory
  <1>8. \A e \in Dir : Heard(e)' = Heard(e) /\ Wrote(e)' = Wrote(e)
    BY <1>1, <1>6, SameStory, SameHeard
  <1>9. \A e \in Dir : hold[x][e] = None /\ Holds(x, e) = 0 /\ Holds(x, e)' = 0
    BY <1>1, <1>3 DEF Idle, Holds
  <1>10. Idle'
    <2> SUFFICES ASSUME NEW y \in Node, NEW e \in Dir, pc'[y] # "relay"
                 PROVE hold'[y][e] = None
      BY DEF Idle
    <2>1. CASE y = x
      BY <1>3, <1>9, <2>1
    <2>2. CASE y # x
      BY <1>1, <1>2, <1>3, <2>2 DEF Idle
    <2> QED BY <2>1, <2>2
  <1>11. \A y \in Node, e \in Dir : y # x => Resting(y, e)
    BY <1>2, <1>3, Still
  <1>12. ASSUME NEW e \in Dir, e # d PROVE \E P \in Places : Flow(e, P)'
    <2>1. PICK P \in Places : Flow(e, P)
      BY <1>1 DEF Flows
    <2>2. Resting(x, e)
      BY <1>2, <1>3, <1>12 DEF Resting
    <2>3. \A y \in Node : Resting(y, e)
      BY <1>11, <2>2
    <2>4. \A b \in Conn : Kept(b, e)
      BY <1>4, <1>12
    <2>5. Flow(e, P)'
      BY <1>1, <1>4, <1>5, <1>7, <1>8, <2>1, <2>3, <2>4, FlowKept
    <2> QED BY <2>5
  <1>13. \E P \in Places : Flow(d, P)'
    <2>1. PICK P \in Places : Flow(d, P)
      BY <1>1 DEF Flows
    <2>2. P[From(x, d)] = Took(pc[x], x, d) /\ P[From(x, d)] \in Nat
      BY <2>1, Layout DEF Flow, Reading, Places
    <2>3. PICK Q : Q = [P EXCEPT ![From(x, d)] = @ + 1]
      OBVIOUS
    <2>4. Q[From(x, d)] = Took(pc[x], x, d) + 1
      BY <1>3, <2>2, <2>3 DEF Places
    <2>5. Reading(x, d, Q)'
      BY <1>2, <2>4 DEF Reading
    <2>6. Speaks(p) => Took(p, x, d) + Holds(x, d)' = Took(pc[x], x, d) + Holds(x, d) + 1
      <3>1. \A a \in Nat : (a + 1) + 0 = a + 0 + 1
        OBVIOUS
      <3> QED BY <1>9, <3>1, Counts
    <2>7. \A b \in Conn : b # From(x, d) => Kept(b, d)
      BY <1>4
    <2>8. Q \in Places /\ Flow(d, Q)'
      BY <1>1, <1>2, <1>3, <1>4, <1>5, <1>7, <1>8, <1>11, <2>1, <2>3, <2>5, <2>6, <2>7, FlowTaken
    <2> QED BY <2>8
  <1>14. Flows'
    BY <1>12, <1>13 DEF Flows
  <1> QED BY <1>5, <1>7, <1>10, <1>14

\* x says u in direction d and goes on at p.
Tells(x, at, d, u, p) ==
  pc[x] = at /\ Put(To(x, d), d, u) /\ pc' = [pc EXCEPT ![x] = p]

\* The unit at the head of what a task waits for is the one that is due.
LEMMA Leading ==
  ASSUME TypeOK, Flows, NEW x \in Node, NEW d \in Dir,
         pc[x] # "relay", Going(pc[x]), q[From(x, d)][d] # <<>>
  PROVE  Right(Story, From(x, d), d, Took(pc[x], x, d) + 1, First(From(x, d), d))
  <1>1. PICK P \in Places : Flow(d, P)
    BY DEF Flows
  <1>2. From(x, d) \in Conn /\ \A y \in Node : From(y, d) = From(x, d) => y = x
    BY Layout
  <1>3. P[From(x, d)] = Took(pc[x], x, d)
    BY <1>1 DEF Flow, Reading, Going
  <1>4. Row(Story, From(x, d), d, P[From(x, d)], q[From(x, d)][d])
    BY <1>1, <1>2 DEF Flow, Carried, Listened
  <1>5. P[From(x, d)] \in Nat /\ q[From(x, d)][d] \in Seq(Unit)
    BY <1>2, Sizes DEF Places, Sized
  <1> QED BY <1>3, <1>4, <1>5, RowTail DEF First

LEMMA SayCases ==
  ASSUME NEW x \in Node, Say(x)
  PROVE  \/ x = "client" /\ Tells(x, "method", "down", <<"method", 0>>, "request")
         \/ x = "client" /\ Tells(x, "no_method", "down", <<"method", 255>>, "ending")
         \/ x = "client" /\ Tells(x, "not_supported", "down", <<"reply", 7>>, "ending")
         \/ x = "client" /\ Tells(x, "header", "up", <<"header", 0>>, "status")
         \/ x = "client" /\ Tells(x, "granted", "down", <<"reply", 0>>, "relay")
         \/ x = "client" /\ Tells(x, "refused", "down", <<"reply", 5>>, "ending")
         \/ x = "server" /\ Tells(x, "ok", "down", <<"status", 0>>, "relay")
         \/ x = "server" /\ Tells(x, "refused", "down", <<"status", 5>>, "ending")
  <1>1. /\ pc[x] \in DOMAIN Sends[x]
        /\ Put(Sends[x][pc[x]].at[1], Sends[x][pc[x]].at[2], Sends[x][pc[x]].unit)
        /\ pc' = [pc EXCEPT ![x] = Sends[x][pc[x]].next]
    BY DEF Say, Go
  <1>2. CASE x = "client"
    <2>1. pc[x] \in {"method", "no_method", "not_supported", "header", "granted", "refused"}
      BY <1>1, <1>2 DEF Sends
    <2>2. To(x, "up") = "tunnel" /\ To(x, "down") = "socks"
      BY <1>2 DEF To, From, Other
    <2>3. CASE pc[x] = "method"
      <3>1. /\ Sends["client"]["method"].at[1] = "socks"
            /\ Sends["client"]["method"].at[2] = "down"
            /\ Sends["client"]["method"].unit = <<"method", 0>>
            /\ Sends["client"]["method"].next = "request"
        BY DEF Sends, Says
      <3> QED BY <1>1, <1>2, <2>2, <2>3, <3>1 DEF Tells
    <2>4. CASE pc[x] = "no_method"
      <3>1. /\ Sends["client"]["no_method"].at[1] = "socks"
            /\ Sends["client"]["no_method"].at[2] = "down"
            /\ Sends["client"]["no_method"].unit = <<"method", 255>>
            /\ Sends["client"]["no_method"].next = "ending"
        BY DEF Sends, Says
      <3> QED BY <1>1, <1>2, <2>2, <2>4, <3>1 DEF Tells
    <2>5. CASE pc[x] = "not_supported"
      <3>1. /\ Sends["client"]["not_supported"].at[1] = "socks"
            /\ Sends["client"]["not_supported"].at[2] = "down"
            /\ Sends["client"]["not_supported"].unit = <<"reply", 7>>
            /\ Sends["client"]["not_supported"].next = "ending"
        BY DEF Sends, Says
      <3> QED BY <1>1, <1>2, <2>2, <2>5, <3>1 DEF Tells
    <2>6. CASE pc[x] = "header"
      <3>1. /\ Sends["client"]["header"].at[1] = "tunnel"
            /\ Sends["client"]["header"].at[2] = "up"
            /\ Sends["client"]["header"].unit = <<"header", 0>>
            /\ Sends["client"]["header"].next = "status"
        BY DEF Sends, Says, AfterHeader
      <3> QED BY <1>1, <1>2, <2>2, <2>6, <3>1 DEF Tells
    <2>7. CASE pc[x] = "granted"
      <3>1. /\ Sends["client"]["granted"].at[1] = "socks"
            /\ Sends["client"]["granted"].at[2] = "down"
            /\ Sends["client"]["granted"].unit = <<"reply", 0>>
            /\ Sends["client"]["granted"].next = "relay"
        BY DEF Sends, Says
      <3> QED BY <1>1, <1>2, <2>2, <2>7, <3>1 DEF Tells
    <2>8. CASE pc[x] = "refused"
      <3>1. /\ Sends["client"]["refused"].at[1] = "socks"
            /\ Sends["client"]["refused"].at[2] = "down"
            /\ Sends["client"]["refused"].unit = <<"reply", 5>>
            /\ Sends["client"]["refused"].next = "ending"
        BY DEF Sends, Says
      <3> QED BY <1>1, <1>2, <2>2, <2>8, <3>1 DEF Tells
    <2> QED BY <2>1, <2>3, <2>4, <2>5, <2>6, <2>7, <2>8
  <1>3. CASE x = "server"
    <2>1. pc[x] \in {"ok", "refused"}
      BY <1>1, <1>3 DEF Sends
    <2>2. To(x, "down") = "tunnel"
      BY <1>3 DEF To, From, Other
    <2>3. CASE pc[x] = "ok"
      <3>1. /\ Sends["server"]["ok"].at[1] = "tunnel"
            /\ Sends["server"]["ok"].at[2] = "down"
            /\ Sends["server"]["ok"].unit = <<"status", 0>>
            /\ Sends["server"]["ok"].next = "relay"
        BY DEF Sends, Says
      <3> QED BY <1>1, <1>3, <2>2, <2>3, <3>1 DEF Tells
    <2>4. CASE pc[x] = "refused"
      <3>1. /\ Sends["server"]["refused"].at[1] = "tunnel"
            /\ Sends["server"]["refused"].at[2] = "down"
            /\ Sends["server"]["refused"].unit = <<"status", 5>>
            /\ Sends["server"]["refused"].next = "ending"
        BY DEF Sends, Says
      <3> QED BY <1>1, <1>3, <2>2, <2>4, <3>1 DEF Tells
    <2> QED BY <2>1, <2>3, <2>4
  <1> QED BY <1>2, <1>3 DEF Node

LEMMA SayKeeps ==
  ASSUME IInv, NEW x \in Node, Say(x)
  PROVE  IInv'
  <1>1. TypeOK /\ Opened /\ Dialed /\ Idle /\ Script /\ Flows
    BY DEF IInv
  <1>2. UNCHANGED <<hold, ends, dialed, parties>> /\ dialed' = dialed
    BY DEF Say
  <1>3. CASE x = "client" /\ Tells(x, "method", "down", <<"method", 0>>, "request")
    <2>1. /\ pc[x] = "method" /\ To(x, "down") = "socks"
          /\ Put(To(x, "down"), "down", <<"method", 0>>)
          /\ pc' = [pc EXCEPT ![x] = "request"] /\ "down" \in Dir
      BY <1>3 DEF Tells, To, From, Other, Dir
    <2>2. /\ "request" \in IF x = "client" THEN ClientPc ELSE ServerPc
          /\ <<"method", 0>> \in Carries[To(x, "down")]["down"]
      BY <1>3, <2>1 DEF Carries, ClientPc
    <2>3. Right(Story, To(x, "down"), "down", Told(pc[x], x, "down") + 1, <<"method", 0>>)
      <3>1. Told(pc[x], x, "down") + 1 = 1
        BY <1>3, <2>1 DEF Told
      <3>2. Right(Story, "socks", "down", 1, <<"method", 0>>)
        BY <1>1, <1>3, <2>1 DEF Right, MethodTold, Opened, Story
      <3> QED BY <2>1, <3>1, <3>2
    <2>4. TypeOK' /\ Idle' /\ Script' /\ Flows' /\ Story' = Story
      <3>1. /\ pc[x] # "relay" /\ Speaks(pc[x]) /\ Going(pc[x])
            /\ \A e \in Dir : Took("request", x, e) = Took(pc[x], x, e)
            /\ Told("request", x, "down") = Told(pc[x], x, "down") + 1
            /\ \A e \in Dir : e # "down" => Told("request", x, e) = Told(pc[x], x, e)
        BY <1>3, <2>1 DEF Speaks, Going, Dead, Dir, Took, Told
      <3> QED BY <1>2, <2>1, <2>2, <2>3, <3>1, Saying
    <2>5. pc'["client"] = "request" /\ pc'["server"] = pc["server"]
      BY <1>1, <1>3, <2>1 DEF TypeOK, Node
    <2>6. Opened'
      BY <1>1, <1>2, <1>3, <2>1, <2>4, <2>5 DEF Opened
    <2>7. Dialed'
      BY <1>1, <1>2, <1>3, <2>1, <2>5 DEF Dialed
    <2> QED BY <2>4, <2>6, <2>7 DEF IInv
  <1>4. CASE x = "client" /\ Tells(x, "no_method", "down", <<"method", 255>>, "ending")
    <2>1. /\ pc[x] = "no_method" /\ To(x, "down") = "socks"
          /\ Put(To(x, "down"), "down", <<"method", 255>>)
          /\ pc' = [pc EXCEPT ![x] = "ending"] /\ "down" \in Dir
      BY <1>4 DEF Tells, To, From, Other, Dir
    <2>2. /\ "ending" \in IF x = "client" THEN ClientPc ELSE ServerPc
          /\ <<"method", 255>> \in Carries[To(x, "down")]["down"]
      BY <1>4, <2>1 DEF Carries, ClientPc
    <2>3. Right(Story, To(x, "down"), "down", Told(pc[x], x, "down") + 1, <<"method", 255>>)
      <3>1. Told(pc[x], x, "down") + 1 = 1
        BY <1>4, <2>1 DEF Told
      <3>2. Right(Story, "socks", "down", 1, <<"method", 255>>)
        BY <1>1, <1>4, <2>1 DEF Right, MethodTold, Opened, Story
      <3> QED BY <2>1, <3>1, <3>2
    <2>4. TypeOK' /\ Idle' /\ Script' /\ Flows' /\ Story' = Story
      <3>1. /\ pc[x] # "relay" /\ Speaks(pc[x]) /\ ~Speaks("ending") /\ ~Going("ending")
        BY <2>1 DEF Speaks, Going, Dead
      <3> QED BY <1>2, <2>1, <2>2, <2>3, <3>1, Saying
    <2>5. pc'["client"] = "ending" /\ pc'["server"] = pc["server"]
      BY <1>1, <1>4, <2>1 DEF TypeOK, Node
    <2>6. Opened'
      BY <1>1, <1>2, <1>4, <2>1, <2>4, <2>5 DEF Opened
    <2>7. Dialed'
      BY <1>1, <1>2, <1>4, <2>1, <2>5 DEF Dialed
    <2> QED BY <2>4, <2>6, <2>7 DEF IInv
  <1>5. CASE x = "client" /\ Tells(x, "not_supported", "down", <<"reply", 7>>, "ending")
    <2>1. /\ pc[x] = "not_supported" /\ To(x, "down") = "socks"
          /\ Put(To(x, "down"), "down", <<"reply", 7>>)
          /\ pc' = [pc EXCEPT ![x] = "ending"] /\ "down" \in Dir
      BY <1>5 DEF Tells, To, From, Other, Dir
    <2>2. /\ "ending" \in IF x = "client" THEN ClientPc ELSE ServerPc
          /\ <<"reply", 7>> \in Carries[To(x, "down")]["down"]
      BY <1>5, <2>1 DEF Carries, ClientPc
    <2>3. Right(Story, To(x, "down"), "down", Told(pc[x], x, "down") + 1, <<"reply", 7>>)
      <3>1. Told(pc[x], x, "down") + 1 = 2
        BY <1>5, <2>1 DEF Told
      <3>2. Right(Story, "socks", "down", 2, <<"reply", 7>>)
        BY <1>1, <1>5, <2>1 DEF Right, ReplyTold, Opened, Story
      <3> QED BY <2>1, <3>1, <3>2
    <2>4. TypeOK' /\ Idle' /\ Script' /\ Flows' /\ Story' = Story
      <3>1. /\ pc[x] # "relay" /\ Speaks(pc[x]) /\ ~Speaks("ending") /\ ~Going("ending")
        BY <2>1 DEF Speaks, Going, Dead
      <3> QED BY <1>2, <2>1, <2>2, <2>3, <3>1, Saying
    <2>5. pc'["client"] = "ending" /\ pc'["server"] = pc["server"]
      BY <1>1, <1>5, <2>1 DEF TypeOK, Node
    <2>6. Opened'
      BY <1>1, <1>2, <1>5, <2>1, <2>4, <2>5 DEF Opened
    <2>7. Dialed'
      BY <1>1, <1>2, <1>5, <2>1, <2>5 DEF Dialed
    <2> QED BY <2>4, <2>6, <2>7 DEF IInv
  <1>6. CASE x = "client" /\ Tells(x, "header", "up", <<"header", 0>>, "status")
    <2>1. /\ pc[x] = "header" /\ To(x, "up") = "tunnel"
          /\ Put(To(x, "up"), "up", <<"header", 0>>)
          /\ pc' = [pc EXCEPT ![x] = "status"] /\ "up" \in Dir
      BY <1>6 DEF Tells, To, From, Other, Dir
    <2>2. /\ "status" \in IF x = "client" THEN ClientPc ELSE ServerPc
          /\ <<"header", 0>> \in Carries[To(x, "up")]["up"]
      BY <1>6, <2>1 DEF Carries, ClientPc
    <2>3. Right(Story, To(x, "up"), "up", Told(pc[x], x, "up") + 1, <<"header", 0>>)
      <3>1. Told(pc[x], x, "up") + 1 = 1
        BY <1>6, <2>1 DEF Told
      <3>2. Right(Story, "tunnel", "up", 1, <<"header", 0>>)
        BY <1>1, <1>6, <2>1 DEF Right, Opened, Story
      <3> QED BY <2>1, <3>1, <3>2
    <2>4. TypeOK' /\ Idle' /\ Script' /\ Flows' /\ Story' = Story
      <3>1. /\ pc[x] # "relay" /\ Speaks(pc[x]) /\ Going(pc[x])
            /\ \A e \in Dir : Took("status", x, e) = Took(pc[x], x, e)
            /\ Told("status", x, "up") = Told(pc[x], x, "up") + 1
            /\ \A e \in Dir : e # "up" => Told("status", x, e) = Told(pc[x], x, e)
        BY <1>6, <2>1 DEF Speaks, Going, Dead, Dir, Took, Told
      <3> QED BY <1>2, <2>1, <2>2, <2>3, <3>1, Saying
    <2>5. pc'["client"] = "status" /\ pc'["server"] = pc["server"]
      BY <1>1, <1>6, <2>1 DEF TypeOK, Node
    <2>6. Opened'
      BY <1>1, <1>2, <1>6, <2>1, <2>4, <2>5 DEF Opened
    <2>7. Dialed'
      BY <1>1, <1>2, <1>6, <2>1, <2>5 DEF Dialed
    <2> QED BY <2>4, <2>6, <2>7 DEF IInv
  <1>7. CASE x = "client" /\ Tells(x, "granted", "down", <<"reply", 0>>, "relay")
    <2>1. /\ pc[x] = "granted" /\ To(x, "down") = "socks"
          /\ Put(To(x, "down"), "down", <<"reply", 0>>)
          /\ pc' = [pc EXCEPT ![x] = "relay"] /\ "down" \in Dir
      BY <1>7 DEF Tells, To, From, Other, Dir
    <2>2. /\ "relay" \in IF x = "client" THEN ClientPc ELSE ServerPc
          /\ <<"reply", 0>> \in Carries[To(x, "down")]["down"]
      BY <1>7, <2>1 DEF Carries, ClientPc
    <2>3. Right(Story, To(x, "down"), "down", Told(pc[x], x, "down") + 1, <<"reply", 0>>)
      <3>1. Told(pc[x], x, "down") + 1 = 2
        BY <1>7, <2>1 DEF Told
      <3>2. Right(Story, "socks", "down", 2, <<"reply", 0>>)
        BY <1>1, <1>7, <2>1 DEF Right, ReplyTold, Opened, Story
      <3> QED BY <2>1, <3>1, <3>2
    <2>4. TypeOK' /\ Idle' /\ Script' /\ Flows' /\ Story' = Story
      <3>1. /\ pc[x] # "relay" /\ Speaks(pc[x]) /\ Going(pc[x])
            /\ \A e \in Dir : Took("relay", x, e) = Took(pc[x], x, e)
            /\ Told("relay", x, "down") = Told(pc[x], x, "down") + 1
            /\ \A e \in Dir : e # "down" => Told("relay", x, e) = Told(pc[x], x, e)
        BY <1>7, <2>1 DEF Speaks, Going, Dead, Dir, Took, Told
      <3> QED BY <1>2, <2>1, <2>2, <2>3, <3>1, Saying
    <2>5. pc'["client"] = "relay" /\ pc'["server"] = pc["server"]
      BY <1>1, <1>7, <2>1 DEF TypeOK, Node
    <2>6. Opened'
      BY <1>1, <1>2, <1>7, <2>1, <2>4, <2>5 DEF Opened
    <2>7. Dialed'
      BY <1>1, <1>2, <1>7, <2>1, <2>5 DEF Dialed
    <2> QED BY <2>4, <2>6, <2>7 DEF IInv
  <1>8. CASE x = "client" /\ Tells(x, "refused", "down", <<"reply", 5>>, "ending")
    <2>1. /\ pc[x] = "refused" /\ To(x, "down") = "socks"
          /\ Put(To(x, "down"), "down", <<"reply", 5>>)
          /\ pc' = [pc EXCEPT ![x] = "ending"] /\ "down" \in Dir
      BY <1>8 DEF Tells, To, From, Other, Dir
    <2>2. /\ "ending" \in IF x = "client" THEN ClientPc ELSE ServerPc
          /\ <<"reply", 5>> \in Carries[To(x, "down")]["down"]
      BY <1>8, <2>1 DEF Carries, ClientPc
    <2>3. Right(Story, To(x, "down"), "down", Told(pc[x], x, "down") + 1, <<"reply", 5>>)
      <3>1. Told(pc[x], x, "down") + 1 = 2
        BY <1>8, <2>1 DEF Told
      <3>2. Right(Story, "socks", "down", 2, <<"reply", 5>>)
        BY <1>1, <1>8, <2>1 DEF Right, ReplyTold, Opened, Story
      <3> QED BY <2>1, <3>1, <3>2
    <2>4. TypeOK' /\ Idle' /\ Script' /\ Flows' /\ Story' = Story
      <3>1. /\ pc[x] # "relay" /\ Speaks(pc[x]) /\ ~Speaks("ending") /\ ~Going("ending")
        BY <2>1 DEF Speaks, Going, Dead
      <3> QED BY <1>2, <2>1, <2>2, <2>3, <3>1, Saying
    <2>5. pc'["client"] = "ending" /\ pc'["server"] = pc["server"]
      BY <1>1, <1>8, <2>1 DEF TypeOK, Node
    <2>6. Opened'
      BY <1>1, <1>2, <1>8, <2>1, <2>4, <2>5 DEF Opened
    <2>7. Dialed'
      BY <1>1, <1>2, <1>8, <2>1, <2>5 DEF Dialed
    <2> QED BY <2>4, <2>6, <2>7 DEF IInv
  <1>9. CASE x = "server" /\ Tells(x, "ok", "down", <<"status", 0>>, "relay")
    <2>1. /\ pc[x] = "ok" /\ To(x, "down") = "tunnel"
          /\ Put(To(x, "down"), "down", <<"status", 0>>)
          /\ pc' = [pc EXCEPT ![x] = "relay"] /\ "down" \in Dir
      BY <1>9 DEF Tells, To, From, Other, Dir
    <2>2. /\ "relay" \in IF x = "client" THEN ClientPc ELSE ServerPc
          /\ <<"status", 0>> \in Carries[To(x, "down")]["down"]
      BY <1>9, <2>1 DEF Carries, ServerPc
    <2>3. Right(Story, To(x, "down"), "down", Told(pc[x], x, "down") + 1, <<"status", 0>>)
      <3>1. Told(pc[x], x, "down") + 1 = 1
        BY <1>9, <2>1 DEF Told
      <3>2. Right(Story, "tunnel", "down", 1, <<"status", 0>>)
        BY <1>1, <1>9, <2>1 DEF Right, StatusTold, Dialed, Story
      <3> QED BY <2>1, <3>1, <3>2
    <2>4. TypeOK' /\ Idle' /\ Script' /\ Flows' /\ Story' = Story
      <3>1. /\ pc[x] # "relay" /\ Speaks(pc[x]) /\ Going(pc[x])
            /\ \A e \in Dir : Took("relay", x, e) = Took(pc[x], x, e)
            /\ Told("relay", x, "down") = Told(pc[x], x, "down") + 1
            /\ \A e \in Dir : e # "down" => Told("relay", x, e) = Told(pc[x], x, e)
        BY <1>9, <2>1 DEF Speaks, Going, Dead, Dir, Took, Told
      <3> QED BY <1>2, <2>1, <2>2, <2>3, <3>1, Saying
    <2>5. pc'["server"] = "relay" /\ pc'["client"] = pc["client"]
      BY <1>1, <1>9, <2>1 DEF TypeOK, Node
    <2>6. Opened'
      BY <1>1, <1>2, <1>9, <2>1, <2>4, <2>5 DEF Opened
    <2>7. Dialed'
      BY <1>1, <1>2, <1>9, <2>1, <2>5 DEF Dialed
    <2> QED BY <2>4, <2>6, <2>7 DEF IInv
  <1>10. CASE x = "server" /\ Tells(x, "refused", "down", <<"status", 5>>, "ending")
    <2>1. /\ pc[x] = "refused" /\ To(x, "down") = "tunnel"
          /\ Put(To(x, "down"), "down", <<"status", 5>>)
          /\ pc' = [pc EXCEPT ![x] = "ending"] /\ "down" \in Dir
      BY <1>10 DEF Tells, To, From, Other, Dir
    <2>2. /\ "ending" \in IF x = "client" THEN ClientPc ELSE ServerPc
          /\ <<"status", 5>> \in Carries[To(x, "down")]["down"]
      BY <1>10, <2>1 DEF Carries, ServerPc
    <2>3. Right(Story, To(x, "down"), "down", Told(pc[x], x, "down") + 1, <<"status", 5>>)
      <3>1. Told(pc[x], x, "down") + 1 = 1
        BY <1>10, <2>1 DEF Told
      <3>2. Right(Story, "tunnel", "down", 1, <<"status", 5>>)
        BY <1>1, <1>10, <2>1 DEF Right, StatusTold, Dialed, Story
      <3> QED BY <2>1, <3>1, <3>2
    <2>4. TypeOK' /\ Idle' /\ Script' /\ Flows' /\ Story' = Story
      <3>1. /\ pc[x] # "relay" /\ Speaks(pc[x]) /\ ~Speaks("ending") /\ ~Going("ending")
        BY <2>1 DEF Speaks, Going, Dead
      <3> QED BY <1>2, <2>1, <2>2, <2>3, <3>1, Saying
    <2>5. pc'["server"] = "ending" /\ pc'["client"] = pc["client"]
      BY <1>1, <1>10, <2>1 DEF TypeOK, Node
    <2>6. Opened'
      BY <1>1, <1>2, <1>10, <2>1, <2>4, <2>5 DEF Opened
    <2>7. Dialed'
      BY <1>1, <1>2, <1>10, <2>1, <2>5 DEF Dialed
    <2> QED BY <2>4, <2>6, <2>7 DEF IInv
  <1> QED BY <1>3, <1>4, <1>5, <1>6, <1>7, <1>8, <1>9, <1>10, SayCases

\* x takes what leads direction d and goes on where that sends it.
Hears(x, at, d) ==
  /\ pc[x] = at /\ q[From(x, d)][d] # <<>>
  /\ q' = [q EXCEPT ![From(x, d)][d] = IF First(From(x, d), d)[1] \in Unfinished
                                       THEN <<<<"rest", 0>>>> \o Tail(@) ELSE Tail(@)]
  /\ pc' = [pc EXCEPT ![x] = AfterRead(x, First(From(x, d), d))]

LEMMA HearCases ==
  ASSUME NEW x \in Node, Hear(x)
  PROVE  \/ x = "client" /\ Hears(x, "greeting", "up")
         \/ x = "client" /\ Hears(x, "request", "up")
         \/ x = "client" /\ Hears(x, "status", "down")
         \/ x = "server" /\ Hears(x, "header", "up")
  <1> DEFINE c == Awaits[x][pc[x]][1]
             d == Awaits[x][pc[x]][2]
  <1>1. /\ pc[x] \in DOMAIN Awaits[x] /\ q[c][d] # <<>>
        /\ q' = [q EXCEPT ![c][d] = IF First(c, d)[1] \in Unfinished
                                    THEN <<<<"rest", 0>>>> \o Tail(@) ELSE Tail(@)]
        /\ pc' = [pc EXCEPT ![x] = AfterRead(x, First(c, d))]
    BY DEF Hear, Go
  <1>2. \/ x = "client" /\ pc[x] \in {"greeting", "request", "status"}
        \/ x = "server" /\ pc[x] = "header"
    <2>1. /\ DOMAIN Awaits["client"] = {"greeting", "request", "status"}
          /\ DOMAIN Awaits["server"] = {"header"}
      BY DEF Awaits
    <2>2. x = "client" \/ x = "server"
      BY DEF Node
    <2> QED BY <1>1, <2>1, <2>2
  <1>3. CASE x = "client" /\ pc[x] \in {"greeting", "request"}
    <2>1. c = "socks" /\ d = "up" /\ From(x, "up") = "socks"
      BY <1>3 DEF Awaits, From
    <2> HIDE DEF c, d
    <2> QED BY <1>1, <1>3, <2>1 DEF Hears
  <1>4. CASE x = "client" /\ pc[x] = "status"
    <2>1. c = "tunnel" /\ d = "down" /\ From(x, "down") = "tunnel"
      BY <1>4 DEF Awaits, From
    <2> HIDE DEF c, d
    <2> QED BY <1>1, <1>4, <2>1 DEF Hears
  <1>5. CASE x = "server" /\ pc[x] = "header"
    <2>1. c = "tunnel" /\ d = "up" /\ From(x, "up") = "tunnel"
      BY <1>5 DEF Awaits, From
    <2> HIDE DEF c, d
    <2> QED BY <1>1, <1>5, <2>1 DEF Hears
  <1> QED BY <1>2, <1>3, <1>4, <1>5

\* A refused request leaves the rest of its message in its place.
LEMMA RefuseEffect ==
  ASSUME TypeOK, UNCHANGED <<reset, gone>>, q["socks"]["up"] # <<>>, ~Going(pc'["client"]),
         q' = [q EXCEPT !["socks"]["up"] = <<<<"rest", 0>>>> \o Tail(@)]
  PROVE  /\ Worse /\ Queues' /\ \A c \in Conn, d \in Dir : Kept(c, d)
  <1> DEFINE s == q["socks"]["up"]
             U == Carries["socks"]["up"]
             r == <<<<"rest", 0>>>>
  <1>1. /\ q \in [Conn -> [Dir -> Seq(Unit)]]
        /\ \A b \in Conn, e \in Dir : q[b][e] \in Seq(Carries[b][e])
    BY DEF TypeOK
  <1>2. "socks" \in Conn /\ "up" \in Dir /\ <<"rest", 0>> \in U
    BY DEF Conn, Dir, Carries
  <1>3. U \subseteq Unit /\ s \in Seq(U)
    BY <1>1, <1>2, CarriedUnits
  <1>4. /\ r \in Seq(U) /\ Len(r) = 1 /\ Tail(s) \in Seq(U) /\ Len(Tail(s)) = Len(s) - 1
        /\ Len(s) \in Nat
    <2>1. r \in Seq(U) /\ Len(r) = 1
      BY <1>2
    <2>2. s # <<>>
      OBVIOUS
    <2> HIDE DEF s, U, r
    <2> QED BY <1>3, <2>1, <2>2, HeadTailProperties, LenProperties
  <1>5. r \o Tail(s) \in Seq(U) /\ Len(r \o Tail(s)) = Len(r) + Len(Tail(s))
    BY <1>4, ConcatProperties
  <1>6. Len(r \o Tail(s)) = Len(s)
    <2>1. \A a, b, l \in Int : a = 1 /\ b = l - 1 => a + b = l
      OBVIOUS
    <2>2. Len(r) \in Int /\ Len(Tail(s)) \in Int /\ Len(s) \in Int
      BY <1>4
    <2> QED BY <1>4, <1>5, <2>1, <2>2
  <1>7. r \o Tail(s) \in Seq(Unit)
    <2>1. \A t \in Seq(U) : t \in Seq(Unit)
      BY <1>3
    <2> QED BY <1>5, <2>1
  <1>8. /\ q'["socks"]["up"] = r \o Tail(s)
        /\ \A b \in Conn, e \in Dir : b # "socks" \/ e # "up" => q'[b][e] = q[b][e]
    BY <1>1, <1>2
  <1>9. q' \in [Conn -> [Dir -> Seq(Unit)]]
    <2> DEFINE row == [q["socks"] EXCEPT !["up"] = r \o Tail(s)]
    <2>1. row \in [Dir -> Seq(Unit)]
      BY <1>1, <1>2, <1>7
    <2>2. q' = [q EXCEPT !["socks"] = row]
      OBVIOUS
    <2> HIDE DEF row
    <2> QED BY <1>1, <2>1, <2>2
  <1> HIDE DEF s, U, r
  <1>10. Queues'
    BY <1>1, <1>5, <1>8, <1>9 DEF Queues, U
  <1>11. ASSUME NEW b \in Conn, NEW e \in Dir PROVE Kept(b, e)
    <2>1. CASE b = "socks" /\ e = "up"
      <3>1. ~Listened("socks", "up")'
        BY DEF Listened, Node, From
      <3> QED BY <1>6, <1>8, <2>1, <3>1 DEF Kept, s
    <2>2. CASE b # "socks" \/ e # "up"
      <3>1. Begins(q[b][e], q[b][e])
        BY <1>1, Beginnings
      <3> QED BY <1>8, <2>2, <3>1 DEF Kept
    <2> QED BY <2>1, <2>2
  <1> QED BY <1>10, <1>11 DEF Worse

LEMMA HearKeeps ==
  ASSUME IInv, NEW x \in Node, Hear(x)
  PROVE  IInv'
  <1>1. TypeOK /\ Opened /\ Dialed /\ Idle /\ Script /\ Flows
    BY DEF IInv
  <1>2. /\ UNCHANGED <<hold, ends, reset, dialed, parties>> /\ dialed' = dialed
        /\ UNCHANGED <<reset, gone>> /\ UNCHANGED <<hold, dialed, parties>>
        /\ UNCHANGED <<shut, cut>>
    BY DEF Hear, ends
  <1>3. UNCHANGED <<appSent, dialed, targetSent>> /\ UNCHANGED <<appGot, targetGot>>
    BY <1>2 DEF parties
  <1>4. ASSUME x = "client", Hears(x, "greeting", "up") PROVE IInv'
    <2> DEFINE u == First("socks", "up")
    <2>1. /\ pc[x] = "greeting" /\ From(x, "up") = "socks" /\ "up" \in Dir
          /\ Going(pc[x]) /\ pc[x] # "relay" /\ q["socks"]["up"] # <<>>
      BY <1>4 DEF Hears, From, Dir, Going, Speaks, Dead
    <2>2. Right(Story, "socks", "up", Took(pc[x], x, "up") + 1, u)
      BY <1>1, <2>1, Leading
    <2>3. Took(pc[x], x, "up") + 1 = 1
      BY <1>4, <2>1 DEF Took
    <2>4. Right(Story, "socks", "up", 1, u)
      BY <2>2, <2>3
    <2>5. Asked(Story, 1, u)
      BY <2>4 DEF Right, Datum, Opening
    <2>6. u = <<"greet", 0>> \/ u = <<"greet_auth", 0>>
      BY <1>1, <2>5 DEF Asked, Story, Script
    <2>7. PICK p : /\ p = AfterRead(x, u)
                   /\ \/ u = <<"greet", 0>> /\ p = "method"
                      \/ u = <<"greet_auth", 0>> /\ p = "no_method"
      BY <1>4, <2>6 DEF AfterRead
    <2>8. u[1] \notin Unfinished
      BY <2>6 DEF Unfinished
    <2>9. Take("socks", "up") /\ pc' = [pc EXCEPT ![x] = p]
      BY <1>4, <2>1, <2>7, <2>8 DEF Hears, Take
    <2>10. p \in IF x = "client" THEN ClientPc ELSE ServerPc
      BY <1>4, <2>7 DEF ClientPc
    <2>11. /\ p # "relay" /\ Speaks(pc[x])
           /\ \A e \in Dir : Told(p, x, e) = Told(pc[x], x, e)
           /\ Took(p, x, "up") = Took(pc[x], x, "up") + 1
           /\ \A e \in Dir : e # "up" => Took(p, x, e) = Took(pc[x], x, e)
      BY <1>4, <2>1, <2>7 DEF Going, Dir, Took, Told
    <2> HIDE DEF u
    <2>12. TypeOK' /\ Idle' /\ Script' /\ Flows' /\ Story' = Story
      BY <1>2, <2>1, <2>9, <2>10, <2>11, Hearing
    <2>13. pc'["client"] = p /\ pc'["server"] = pc["server"]
      BY <1>1, <1>4, <2>9 DEF TypeOK, Node
    <2>14. Opened'
      BY <1>1, <1>2, <2>1, <2>5, <2>7, <1>4, <2>12, <2>13 DEF Opened
    <2>15. Dialed'
      BY <1>1, <1>2, <2>13 DEF Dialed
    <2> QED BY <2>12, <2>14, <2>15 DEF IInv
  <1>5. ASSUME x = "client", Hears(x, "request", "up") PROVE IInv'
    <2> DEFINE u == First("socks", "up")
    <2>1. /\ pc[x] = "request" /\ From(x, "up") = "socks" /\ "up" \in Dir
          /\ Going(pc[x]) /\ pc[x] # "relay" /\ q["socks"]["up"] # <<>>
      BY <1>5 DEF Hears, From, Dir, Going, Speaks, Dead
    <2>2. Right(Story, "socks", "up", Took(pc[x], x, "up") + 1, u)
      BY <1>1, <2>1, Leading
    <2>3. Took(pc[x], x, "up") + 1 = 2
      BY <1>5, <2>1 DEF Took
    <2>4. Right(Story, "socks", "up", 2, u)
      BY <2>2, <2>3
    <2>5. Asked(Story, 2, u)
      BY <2>4 DEF Right, Datum, Opening
    <2>6. u = <<"connect", 0>> \/ u = <<"bind", 0>> \/ u = <<"bad_atyp", 0>>
      BY <1>1, <2>5 DEF Asked, Story, Script
    <2>7. pc["server"] = "none" /\ Asked(Story, 1, <<"greet", 0>>)
      BY <1>1, <1>5, <2>1 DEF Opened
    <2>8. ASSUME u = <<"connect", 0>> PROVE IInv'
      <3>1. Take("socks", "up") /\ pc' = [pc EXCEPT ![x] = "connect"]
        <4>1. u[1] \notin Unfinished /\ AfterRead(x, u) = "connect"
          BY <1>5, <2>8 DEF Unfinished, AfterRead
        <4> QED BY <1>5, <2>1, <4>1 DEF Hears, Take
      <3>2. "connect" \in IF x = "client" THEN ClientPc ELSE ServerPc
        BY <1>5 DEF ClientPc
      <3>3. /\ Speaks(pc[x])
            /\ \A e \in Dir : Told("connect", x, e) = Told(pc[x], x, e)
            /\ Took("connect", x, "up") = Took(pc[x], x, "up") + 1
            /\ \A e \in Dir : e # "up" => Took("connect", x, e) = Took(pc[x], x, e)
        BY <1>5, <2>1 DEF Going, Dir, Took, Told
      <3>4. TypeOK' /\ Idle' /\ Script' /\ Flows' /\ Story' = Story
        BY <1>2, <2>1, <3>1, <3>2, <3>3, Hearing
      <3>5. pc'["client"] = "connect" /\ pc'["server"] = pc["server"]
        BY <1>1, <1>5, <3>1 DEF TypeOK, Node
      <3>6. Opened'
        BY <2>5, <2>7, <2>8, <3>4, <3>5 DEF Opened
      <3>7. Dialed'
        BY <1>1, <1>2, <3>5 DEF Dialed
      <3> QED BY <3>4, <3>6, <3>7 DEF IInv
    <2>9. ASSUME u = <<"bind", 0>> \/ u = <<"bad_atyp", 0>> PROVE IInv'
      <3>1. PICK p \in {"not_supported", "ending"} :
              /\ pc' = [pc EXCEPT ![x] = p]
              /\ p = "not_supported" => u = <<"bind", 0>>
        <4>1. \/ u = <<"bind", 0>> /\ AfterRead(x, u) = "not_supported"
              \/ u = <<"bad_atyp", 0>> /\ AfterRead(x, u) = "ending"
          BY <1>5, <2>9 DEF AfterRead
        <4>2. pc' = [pc EXCEPT ![x] = AfterRead(x, u)]
          BY <1>5, <2>1 DEF Hears
        <4> QED BY <4>1, <4>2
      <3>2. q' = [q EXCEPT !["socks"]["up"] = <<<<"rest", 0>>>> \o Tail(@)]
        <4>1. u[1] \in Unfinished
          BY <2>9 DEF Unfinished
        <4> QED BY <1>5, <2>1, <4>1 DEF Hears
      <3>3. p \in IF x = "client" THEN ClientPc ELSE ServerPc
        BY <1>5, <3>1 DEF ClientPc
      <3>4. Points' /\ pc'["client"] = p /\ pc'["server"] = pc["server"]
        BY <1>1, <1>5, <3>1, <3>3, PcTyped DEF Node
      <3>5. ~Going(pc'["client"])
        BY <3>1, <3>4 DEF Going, Speaks, Dead
      <3>6. Worse /\ Queues' /\ \A c \in Conn, d \in Dir : Kept(c, d)
        BY <1>1, <1>2, <2>1, <3>2, <3>5, RefuseEffect
      <3>7. TypeOK'
        BY <1>1, <1>2, <3>4, <3>6 DEF TypeOK, Points, Queues, parties
      <3>8. \A d \in Dir : hold'[x][d] = None
        BY <1>1, <1>2, <2>1 DEF Idle
      <3>9. CASE p = "ending"
        <4>1. p \in Dead /\ pc[x] # "none"
          BY <2>1, <3>9 DEF Dead
        <4>2. \A y \in Node, d \in Dir : y # x => hold'[y][d] = hold[y][d]
          BY <1>2
        <4> QED BY <1>2, <3>1, <3>6, <3>7, <3>8, <4>1, <4>2, Ending
      <3>10. CASE p = "not_supported"
        <4>1. ASSUME NEW y \in Node, NEW d \in Dir PROVE Resting(y, d)
          BY <1>2, <1>5, <2>1, <3>4, <3>10
            DEF Resting, Speaks, Going, Dead, Took, Told, Node
        <4>2. Grows(Story, Story') /\ Script' /\ Story' = Story
          BY <1>1, <1>3, SameStory
        <4>3. \A d \in Dir : Heard(d)' = Heard(d) /\ Wrote(d)' = Wrote(d)
          BY <1>1, <1>3, SameStory, SameHeard
        <4>4. Flows'
          BY <1>1, <3>6, <3>7, <4>1, <4>2, <4>3, FlowsKept
        <4>5. Idle'
          BY <1>1, <1>2, <1>5, <2>1, <3>4, <3>10 DEF Idle, Node
        <4>6. Opened'
          BY <2>5, <2>7, <3>1, <3>4, <3>10, <4>2 DEF Opened
        <4>7. Dialed'
          BY <1>1, <1>2, <3>4 DEF Dialed
        <4> QED BY <3>7, <4>2, <4>4, <4>5, <4>6, <4>7 DEF IInv
      <3> QED BY <3>1, <3>9, <3>10
    <2> QED BY <2>6, <2>8, <2>9
  <1>6. ASSUME x = "client", Hears(x, "status", "down") PROVE IInv'
    <2> DEFINE u == First("tunnel", "down")
    <2>1. /\ pc[x] = "status" /\ From(x, "down") = "tunnel" /\ "down" \in Dir
          /\ Going(pc[x]) /\ pc[x] # "relay" /\ q["tunnel"]["down"] # <<>>
      BY <1>6 DEF Hears, From, Dir, Going, Speaks, Dead
    <2>2. Right(Story, "tunnel", "down", Took(pc[x], x, "down") + 1, u)
      BY <1>1, <2>1, Leading
    <2>3. Took(pc[x], x, "down") + 1 = 1
      BY <1>6, <2>1 DEF Took
    <2>4. Right(Story, "tunnel", "down", 1, u)
      BY <2>2, <2>3
    <2>5. StatusTold(Story, u)
      BY <2>4 DEF Right, Datum, Opening
    <2>6. PICK p : /\ p = AfterRead(x, u)
                   /\ \/ dialed = "connected" /\ u = <<"status", 0>> /\ p = "granted"
                      \/ dialed = "failed" /\ u = <<"status", 5>> /\ p = "refused"
      BY <1>6, <2>5 DEF AfterRead, StatusTold, Story
    <2>7. u[1] \notin Unfinished
      BY <2>6 DEF Unfinished
    <2>8. Take("tunnel", "down") /\ pc' = [pc EXCEPT ![x] = p]
      BY <1>6, <2>1, <2>6, <2>7 DEF Hears, Take
    <2>9. p \in IF x = "client" THEN ClientPc ELSE ServerPc
      BY <1>6, <2>6 DEF ClientPc
    <2>10. /\ p # "relay" /\ Speaks(pc[x])
           /\ \A e \in Dir : Told(p, x, e) = Told(pc[x], x, e)
           /\ Took(p, x, "down") = Took(pc[x], x, "down") + 1
           /\ \A e \in Dir : e # "down" => Took(p, x, e) = Took(pc[x], x, e)
      BY <1>6, <2>1, <2>6 DEF Going, Dir, Took, Told
    <2> HIDE DEF u
    <2>11. TypeOK' /\ Idle' /\ Script' /\ Flows' /\ Story' = Story
      BY <1>2, <2>1, <2>8, <2>9, <2>10, Hearing
    <2>12. pc'["client"] = p /\ pc'["server"] = pc["server"]
      BY <1>1, <1>6, <2>8 DEF TypeOK, Node
    <2>13. Opened'
      BY <1>1, <1>2, <1>6, <2>1, <2>6, <2>11, <2>12 DEF Opened
    <2>14. Dialed'
      BY <1>1, <1>2, <2>12 DEF Dialed
    <2> QED BY <2>11, <2>13, <2>14 DEF IInv
  <1>7. ASSUME x = "server", Hears(x, "header", "up") PROVE IInv'
    <2> DEFINE u == First("tunnel", "up")
    <2>1. /\ pc[x] = "header" /\ From(x, "up") = "tunnel" /\ "up" \in Dir
          /\ Going(pc[x]) /\ pc[x] # "relay" /\ q["tunnel"]["up"] # <<>>
      BY <1>7 DEF Hears, From, Dir, Going, Speaks, Dead
    <2>2. Right(Story, "tunnel", "up", Took(pc[x], x, "up") + 1, u)
      BY <1>1, <2>1, Leading
    <2>3. Took(pc[x], x, "up") + 1 = 1
      BY <1>7, <2>1 DEF Took
    <2>4. Right(Story, "tunnel", "up", 1, u)
      BY <2>2, <2>3
    <2>5. u = <<"header", 0>>
      BY <2>4 DEF Right, Datum, Opening
    <2>6. u[1] \notin Unfinished /\ AfterRead(x, u) = "dial"
      BY <1>7, <2>5 DEF Unfinished, AfterRead
    <2>7. Take("tunnel", "up") /\ pc' = [pc EXCEPT ![x] = "dial"]
      BY <1>7, <2>1, <2>6 DEF Hears, Take
    <2>8. "dial" \in IF x = "client" THEN ClientPc ELSE ServerPc
      BY <1>7 DEF ServerPc
    <2>9. /\ Speaks(pc[x])
          /\ \A e \in Dir : Told("dial", x, e) = Told(pc[x], x, e)
          /\ Took("dial", x, "up") = Took(pc[x], x, "up") + 1
          /\ \A e \in Dir : e # "up" => Took("dial", x, e) = Took(pc[x], x, e)
      BY <1>7, <2>1 DEF Going, Dir, Took, Told
    <2> HIDE DEF u
    <2>10. TypeOK' /\ Idle' /\ Script' /\ Flows' /\ Story' = Story
      BY <1>2, <2>1, <2>7, <2>8, <2>9, Hearing
    <2>11. pc'["client"] = pc["client"] /\ pc'["server"] = "dial"
      BY <1>1, <1>7, <2>7 DEF TypeOK, Node
    <2>12. Opened'
      BY <1>1, <1>2, <1>7, <2>1, <2>10, <2>11 DEF Opened
    <2>13. Dialed'
      BY <1>1, <1>2, <1>7, <2>1, <2>11 DEF Dialed
    <2> QED BY <2>10, <2>12, <2>13 DEF IInv
  <1> QED BY <1>4, <1>5, <1>6, <1>7, HearCases

-----------------------------------------------------------------------------
\* The pumps.

\* Behind the opening comes nothing but data, and every datum is a chunk.
LEMMA BehindOpening ==
  ASSUME NEW S, NEW c \in Conn, NEW d \in Dir, NEW j \in Nat, NEW u,
         j > Opening[c], Right(S, c, d, j, u)
  PROVE  Datum(S, c, d, j, u)
  BY DEF Right, Opening, Conn

LEMMA DatumIsChunk ==
  ASSUME TypeOK, Script, NEW c \in Conn, NEW d \in Dir, NEW j \in Nat, NEW u,
         Datum(Story, c, d, j, u)
  PROVE  u \in Chunk /\ u # None
  <1>1. Opening[c] \in Nat /\ j > Opening[c] /\ u = <<"data", j - Opening[c]>>
    BY DEF Datum, Opening, Conn
  <1>2. PICK o \in Nat : o = Opening[c]
    BY <1>1
  <1>3. PICK n \in Nat : n = j - o /\ n > 0 /\ n + o = j
    <2>1. j - o \in Nat /\ j - o > 0 /\ (j - o) + o = j
      BY <1>1, <1>2
    <2> QED BY <2>1
  <1>4. j + Opening[Source(d)] <= Known(Story, d) + o
    BY <1>2 DEF Datum
  <1>5. n <= MaxUp \/ n <= MaxDown
    <2>1. CASE d = "up"
      <3>1. PICK l \in Nat : l = Len(appSent) /\ l <= MaxUp + 2
        BY LenProperties DEF TypeOK, Script
      <3>2. j + 2 <= l + o
        BY <1>4, <2>1, <3>1 DEF Source, Opening, Known, Story
      <3> QED BY <1>3, <3>1, <3>2, BoundsAssumption
    <2>2. CASE d = "down"
      <3>1. PICK l \in Nat : l = Len(targetSent) /\ l <= MaxDown
        BY LenProperties DEF TypeOK, Script
      <3>2. j + 0 <= l + o
        BY <1>4, <2>2, <3>1 DEF Source, Opening, Known, Story
      <3> QED BY <1>3, <3>1, <3>2, BoundsAssumption
    <2> QED BY <2>1, <2>2 DEF Dir
  <1>6. n \in 1..(IF MaxUp > MaxDown THEN MaxUp ELSE MaxDown)
    BY <1>3, <1>5, BoundsAssumption
  <1>7. u = <<"data", n>>
    BY <1>1, <1>2, <1>3
  <1> QED BY <1>6, <1>7 DEF Chunk, None

LEMMA ChunkCarried ==
  ASSUME NEW c \in Conn, NEW d \in Dir
  PROVE  Chunk \subseteq Carries[c][d]
  BY DEF Carries, Conn, Dir

LEMMA PumpReadKeeps ==
  ASSUME IInv, NEW x \in Node, NEW d \in Dir, PumpRead(x, d)
  PROVE  IInv'
  <1> DEFINE c == From(x, d)
             u == First(From(x, d), d)
  <1>1. TypeOK /\ Opened /\ Dialed /\ Idle /\ Script /\ Flows
    BY DEF IInv
  <1>2. /\ pc[x] = "relay" /\ hold[x][d] = None /\ Take(c, d)
        /\ hold' = [hold EXCEPT ![x][d] = u]
        /\ UNCHANGED <<pc, dialed, parties>> /\ UNCHANGED <<shut, cut>>
        /\ reset' = reset /\ gone' = gone
    BY DEF PumpRead, ends
  <1>3. c \in Conn
    BY Layout
  <1>4. PICK P \in Places : Flow(d, P)
    BY <1>1 DEF Flows
  <1>5. P[c] \in Nat /\ P[c] >= Opening[c] /\ Opening[c] \in Nat
    BY <1>2, <1>3, <1>4, Counts DEF Flow, Reading, Places, Speaks, Dead
  <1>6. Right(Story, c, d, P[c] + 1, u)
    <2>1. Listened(c, d)
      BY <1>2, Layout DEF Listened, Going, Speaks, Dead
    <2>2. Row(Story, c, d, P[c], q[c][d])
      BY <1>3, <1>4, <2>1 DEF Flow, Carried
    <2>3. q[c][d] \in Seq(Unit) /\ q[c][d] # <<>>
      BY <1>1, <1>2, <1>3, Sizes DEF Sized, Take
    <2> QED BY <1>5, <2>2, <2>3, RowTail DEF First
  <1>7. Datum(Story, c, d, P[c] + 1, u)
    <2>1. \A a, o \in Nat : a >= o => a + 1 > o /\ a + 1 \in Nat
      OBVIOUS
    <2> QED BY <1>3, <1>5, <1>6, <2>1, BehindOpening
  <1>8. u \in Chunk /\ u # None
    BY <1>1, <1>3, <1>5, <1>7, DatumIsChunk
  <1>9. /\ Worse /\ Queues' /\ q[c][d] # <<>> /\ q'[c][d] = Tail(q[c][d])
        /\ \A b \in Conn, e \in Dir : b # c \/ e # d => Kept(b, e)
    BY <1>1, <1>2, <1>3, TakeEffect
  <1> HIDE DEF c, u
  <1>10. hold \in [Node -> [Dir -> Chunk \cup {None}]]
    BY <1>1 DEF TypeOK
  <1>11. /\ hold'[x][d] = u
         /\ \A y \in Node, e \in Dir : y # x \/ e # d => hold'[y][e] = hold[y][e]
    BY <1>2, <1>10
  <1>12. hold' \in [Node -> [Dir -> Chunk \cup {None}]]
    <2> DEFINE row == [hold[x] EXCEPT ![d] = u]
    <2>1. row \in [Dir -> Chunk \cup {None}]
      BY <1>8, <1>10
    <2>2. hold' = [hold EXCEPT ![x] = row]
      BY <1>2
    <2> HIDE DEF row
    <2> QED BY <1>10, <2>1, <2>2
  <1>13. TypeOK'
    BY <1>1, <1>2, <1>9, <1>12 DEF TypeOK, Queues, parties
  <1>14. UNCHANGED <<appSent, dialed, targetSent>> /\ UNCHANGED <<appGot, targetGot>>
    BY <1>2 DEF parties
  <1>15. Grows(Story, Story') /\ Script' /\ Story' = Story
    BY <1>1, <1>14, SameStory
  <1>16. \A e \in Dir : Heard(e)' = Heard(e) /\ Wrote(e)' = Wrote(e)
    BY <1>1, <1>14, SameStory, SameHeard
  <1>17. pc' = pc
    BY <1>2
  <1>18. \A y \in Node, e \in Dir : y # x \/ e # d => Resting(y, e)
    BY <1>11, <1>17, Still
  <1>19. ASSUME NEW e \in Dir, e # d PROVE \E R \in Places : Flow(e, R)'
    <2>1. PICK R \in Places : Flow(e, R)
      BY <1>1 DEF Flows
    <2>2. \A b \in Conn : Kept(b, e)
      BY <1>9, <1>19
    <2>3. \A y \in Node : Resting(y, e)
      BY <1>18, <1>19
    <2>4. Flow(e, R)'
      BY <1>1, <1>9, <1>13, <1>15, <1>16, <2>1, <2>2, <2>3, FlowKept
    <2> QED BY <2>4
  <1>20. \E R \in Places : Flow(d, R)'
    <2>1. PICK Q : Q = [P EXCEPT ![From(x, d)] = @ + 1]
      OBVIOUS
    <2>2. Q[c] = P[c] + 1
      BY <1>3, <2>1 DEF Places, c
    <2>3. Q[c] >= Opening[c]
      <3>1. \A a, o \in Nat : a >= o => a + 1 >= o
        OBVIOUS
      <3> QED BY <1>5, <2>2, <3>1
    <2>4. Reading(x, d, Q)'
      BY <1>2, <1>7, <1>11, <1>15, <1>17, <2>2, <2>3 DEF Reading, c
    <2>5. Took(pc'[x], x, d) + Holds(x, d)' = Took(pc[x], x, d) + Holds(x, d) + 1
      <3>1. Holds(x, d) = 0 /\ Holds(x, d)' = 1
        BY <1>2, <1>8, <1>11 DEF Holds
      <3>2. \A a \in Nat : a + 1 = a + 0 + 1
        OBVIOUS
      <3> QED BY <1>17, <3>1, <3>2, Counts
    <2>6. /\ Told(pc'[x], x, d) = Told(pc[x], x, d) /\ Speaks(pc[x])
          /\ Going(pc'[x]) => Going(pc[x])
      BY <1>2, <1>17 DEF Speaks, Dead
    <2>7. /\ q[From(x, d)][d] # <<>> /\ q'[From(x, d)][d] = Tail(q[From(x, d)][d])
          /\ \A b \in Conn : b # From(x, d) => Kept(b, d)
      BY <1>9 DEF c
    <2>8. \A y \in Node : y # x => Resting(y, d)
      BY <1>18
    <2>9. Q \in Places /\ Flow(d, Q)'
      BY <1>1, <1>4, <1>9, <1>13, <1>15, <1>16, <2>1, <2>4, <2>5, <2>6, <2>7, <2>8, FlowTaken
    <2> QED BY <2>9
  <1>21. Flows'
    BY <1>19, <1>20 DEF Flows
  <1>22. Opened'
    BY <1>1, <1>2, <1>15, <1>17 DEF Opened
  <1>23. Dialed'
    BY <1>1, <1>2, <1>17 DEF Dialed
  <1>24. Idle'
    BY <1>1, <1>2, <1>11, <1>17 DEF Idle
  <1> QED BY <1>13, <1>15, <1>21, <1>22, <1>23, <1>24 DEF IInv

LEMMA PumpWriteKeeps ==
  ASSUME IInv, NEW x \in Node, NEW d \in Dir, PumpWrite(x, d)
  PROVE  IInv'
  <1> DEFINE c == To(x, d)
             b == From(x, d)
             u == hold[x][d]
  <1>1. TypeOK /\ Opened /\ Dialed /\ Idle /\ Script /\ Flows
    BY DEF IInv
  <1>2. /\ pc[x] = "relay" /\ u # None /\ Put(c, d, u)
        /\ hold' = [hold EXCEPT ![x][d] = None]
        /\ UNCHANGED <<pc, dialed, parties>> /\ UNCHANGED <<shut, cut>>
        /\ gone' = gone
    BY DEF PumpWrite, ends, AfterWrite
  <1>3. c \in Conn /\ b \in Conn /\ Opening[c] \in Nat /\ Opening[b] \in Nat
    BY Layout, Counts
  <1>4. PICK P \in Places : Flow(d, P)
    BY <1>1 DEF Flows
  <1>5. P[b] \in Nat /\ P[b] >= Opening[b] /\ Datum(Story, b, d, P[b], u)
    BY <1>2, <1>3, <1>4 DEF Flow, Reading, Places, Speaks, Dead
  <1>6. u \in Chunk /\ u \in Carries[c][d]
    BY <1>1, <1>3, <1>5, DatumIsChunk, ChunkCarried
  <1>7. /\ Worse /\ Queues' /\ reset' \subseteq Conn /\ cut \subseteq reset'
        /\ \A a \in Conn, e \in Dir : a # c \/ e # d => Kept(a, e)
    BY <1>1, <1>2, <1>3, <1>6, PutEffect
  <1>8. ASSUME NEW n \in Nat, n + Opening[b] + 1 = P[b] + Opening[c]
        PROVE  Right(Story, c, d, n + 1, u)
    <2>1. /\ P[b] > Opening[b] /\ u = <<"data", P[b] - Opening[b]>>
          /\ P[b] + Opening[Source(d)] <= Known(Story, d) + Opening[b]
      BY <1>5 DEF Datum
    <2>2. Known(Story, d) \in Nat /\ Opening[Source(d)] \in Nat
      BY <1>1, Sizes DEF Sized, Known, Opening, Source
    <2>3. \A k, o, p, s, l \in Nat :
            /\ n + o + 1 = k + p /\ k > o /\ k + s <= l + o
            => n + 1 > p /\ (n + 1) + s <= l + p /\ k - o = (n + 1) - p
      OBVIOUS
    <2>4. /\ n + 1 > Opening[c] /\ (n + 1) + Opening[Source(d)] <= Known(Story, d) + Opening[c]
          /\ P[b] - Opening[b] = (n + 1) - Opening[c]
      BY <1>3, <1>5, <1>8, <2>1, <2>2, <2>3
    <2>5. Datum(Story, c, d, n + 1, u)
      BY <2>1, <2>4 DEF Datum
    <2> QED BY <2>5 DEF Right
  <1> HIDE DEF c, b, u
  <1>9. hold \in [Node -> [Dir -> Chunk \cup {None}]]
    BY <1>1 DEF TypeOK
  <1>10. /\ hold'[x][d] = None
         /\ \A y \in Node, e \in Dir : y # x \/ e # d => hold'[y][e] = hold[y][e]
    BY <1>2, <1>9
  <1>11. hold' \in [Node -> [Dir -> Chunk \cup {None}]]
    <2> DEFINE row == [hold[x] EXCEPT ![d] = None]
    <2>1. row \in [Dir -> Chunk \cup {None}]
      BY <1>9
    <2>2. hold' = [hold EXCEPT ![x] = row]
      BY <1>2
    <2> HIDE DEF row
    <2> QED BY <1>9, <2>1, <2>2
  <1>12. TypeOK'
    BY <1>1, <1>2, <1>7, <1>11 DEF TypeOK, Queues, parties
  <1>13. UNCHANGED <<appSent, dialed, targetSent>> /\ UNCHANGED <<appGot, targetGot>>
    BY <1>2 DEF parties
  <1>14. Grows(Story, Story') /\ Script' /\ Story' = Story
    BY <1>1, <1>13, SameStory
  <1>15. \A e \in Dir : Heard(e)' = Heard(e) /\ Wrote(e)' = Wrote(e)
    BY <1>1, <1>13, SameStory, SameHeard
  <1>16. pc' = pc
    BY <1>2
  <1>17. \A y \in Node, e \in Dir : y # x \/ e # d => Resting(y, e)
    BY <1>10, <1>16, Still
  <1>18. ASSUME NEW e \in Dir, e # d PROVE \E R \in Places : Flow(e, R)'
    <2>1. PICK R \in Places : Flow(e, R)
      BY <1>1 DEF Flows
    <2>2. \A a \in Conn : Kept(a, e)
      BY <1>7, <1>18
    <2>3. \A y \in Node : Resting(y, e)
      BY <1>17, <1>18
    <2>4. Flow(e, R)'
      BY <1>1, <1>7, <1>12, <1>14, <1>15, <2>1, <2>2, <2>3, FlowKept
    <2> QED BY <2>4
  <1>19. Flow(d, P)'
    <2>1. Reading(x, d, P)'
      BY <1>2, <1>5, <1>10, <1>16 DEF Reading, b
    <2>2. /\ Speaks(pc[x]) /\ (Going(pc'[x]) => Going(pc[x]))
          /\ Took(pc[x], x, d) = Opening[b] /\ Told(pc[x], x, d) = Opening[c]
          /\ Holds(x, d) = 1 /\ Holds(x, d)' = 0
      BY <1>2, <1>10, <1>16, Counts DEF Speaks, Dead, Holds, b, c, u
    <2>3. Told(pc'[x], x, d) + Took(pc[x], x, d) + Holds(x, d)
            = Told(pc[x], x, d) + Took(pc'[x], x, d) + Holds(x, d)' + 1
      <3>1. \A a, k \in Nat : a + k + 1 = a + k + 0 + 1
        OBVIOUS
      <3> QED BY <1>3, <1>16, <2>2, <3>1
    <2>4. ASSUME NEW n \in Nat,
                 n + Took(pc[x], x, d) + Holds(x, d) = P[From(x, d)] + Told(pc[x], x, d)
          PROVE  Right(Story', To(x, d), d, n + 1, u)
      <3>1. n + Opening[b] + 1 = P[b] + Opening[c]
        BY <2>2, <2>4 DEF b
      <3> QED BY <1>8, <1>14, <3>1 DEF c
    <2>5. Put(To(x, d), d, u) /\ u \in Carries[To(x, d)][d]
      BY <1>2, <1>6 DEF c
    <2>6. \A y \in Node : y # x => Resting(y, d)
      BY <1>17
    <2> QED BY <1>1, <1>2, <1>4, <1>12, <1>14, <1>15, <2>1, <2>2, <2>3, <2>4, <2>5, <2>6,
               FlowWritten
  <1>20. Flows'
    BY <1>18, <1>19 DEF Flows
  <1>21. Opened'
    BY <1>1, <1>2, <1>14, <1>16 DEF Opened
  <1>22. Dialed'
    BY <1>1, <1>2, <1>16 DEF Dialed
  <1>23. Idle'
    BY <1>1, <1>10, <1>16 DEF Idle
  <1> QED BY <1>12, <1>14, <1>20, <1>21, <1>22, <1>23 DEF IInv

-----------------------------------------------------------------------------
\* The parties.

\* The app's next unit is one of the conversation, in its turn.
LEMMA AppTurn ==
  ASSUME TypeOK, Script, NEW u \in AppMay
  PROVE  /\ u \in Carries["socks"]["up"]
         /\ Len(appSent) + 1 <= MaxUp + 2
         /\ Len(appSent) = 0 => u \in {"greet", "greet_auth"} \X {0}
         /\ Len(appSent) = 1 => u \in {"connect", "bind", "bad_atyp"} \X {0}
         /\ Len(appSent) >= 2 => u = <<"data", Len(appSent) - 1>>
  <1>1. PICK n \in Nat : n = Len(appSent)
    BY LenProperties DEF TypeOK
  <1>2. Carries["socks"]["up"] =
          ({"greet", "greet_auth", "connect", "bind", "bad_atyp", "rest"} \X {0}) \cup Chunk
    BY DEF Carries
  <1>3. CASE n = 0
    <2>1. u \in {"greet", "greet_auth"} \X {0}
      BY <1>1, <1>3 DEF AppMay
    <2> QED BY <1>1, <1>2, <1>3, <2>1, BoundsAssumption
  <1>4. CASE n = 1
    <2>1. u \in {"connect", "bind", "bad_atyp"} \X {0}
      BY <1>1, <1>4 DEF AppMay
    <2> QED BY <1>1, <1>2, <1>4, <2>1, BoundsAssumption
  <1>5. CASE n >= 2
    <2>1. ~(n = 0) /\ ~(n = 1)
      BY <1>5
    <2>2. n \in 2..(1 + MaxUp) /\ u = <<"data", n - 1>>
      BY <1>1, <2>1 DEF AppMay
    <2>3. n - 1 \in 1..(IF MaxUp > MaxDown THEN MaxUp ELSE MaxDown) /\ n + 1 <= MaxUp + 2
      BY <1>5, <2>2, BoundsAssumption
    <2>4. u \in Chunk
      BY <2>2, <2>3 DEF Chunk
    <2> QED BY <1>1, <1>2, <2>1, <2>2, <2>3, <2>4
  <1> QED BY <1>3, <1>4, <1>5

LEMMA AppWritesKeeps ==
  ASSUME IInv, AppWrites
  PROVE  IInv'
  <1>1. TypeOK /\ Opened /\ Dialed /\ Idle /\ Script /\ Flows
    BY DEF IInv
  <1>2. PICK u \in AppMay : Put("socks", "up", u) /\ appSent' = Append(appSent, u)
    BY DEF AppWrites
  <1>3. /\ UNCHANGED <<pc, hold, dialed, transport, appGot, targetSent, targetGot>>
        /\ UNCHANGED <<shut, gone, cut>>
    BY DEF AppWrites, ends
  <1>4. "socks" \in Conn /\ "up" \in Dir /\ "down" \in Dir /\ u \in Carries["socks"]["up"]
    BY <1>1, AppTurn DEF Conn, Dir
  <1>5. u \in Unit /\ appSent \in Seq(Carries["socks"]["up"]) /\ appSent \in Seq(Unit)
    <2>1. appSent \in Seq(Carries["socks"]["up"]) /\ Carries["socks"]["up"] \subseteq Unit
      BY <1>1, <1>4, CarriedUnits DEF TypeOK
    <2>2. \A s \in Seq(Carries["socks"]["up"]) : s \in Seq(Unit)
      BY <2>1
    <2> QED BY <1>4, <2>1, <2>2
  <1>6. PICK n \in Nat : n = Len(appSent)
    BY <1>5, LenProperties
  <1>7. /\ appSent' \in Seq(Carries["socks"]["up"]) /\ Len(appSent') = n + 1
        /\ \A i \in 1..n : appSent'[i] = appSent[i]
        /\ appSent'[n + 1] = u
    BY <1>2, <1>4, <1>5, <1>6, AppendProperties
  <1>8. /\ Worse /\ Queues' /\ reset' \subseteq Conn /\ cut \subseteq reset'
        /\ \A b \in Conn, e \in Dir : b # "socks" \/ e # "up" => Kept(b, e)
    BY <1>1, <1>2, <1>3, <1>4, PutEffect
  <1>9. TypeOK'
    BY <1>1, <1>3, <1>7, <1>8 DEF TypeOK, Queues
  <1>10. /\ n + 1 <= MaxUp + 2
         /\ n = 0 => u \in {"greet", "greet_auth"} \X {0}
         /\ n = 1 => u \in {"connect", "bind", "bad_atyp"} \X {0}
         /\ n >= 2 => u = <<"data", n - 1>>
    BY <1>1, <1>6, AppTurn
  <1>11. Grows(Story, Story')
    BY <1>1, <1>3, <1>6, <1>7, Sizes DEF Sized, Grows, Story
  <1>12. Script'
    <2>1. n + 1 >= 1 => appSent'[1] \in {"greet", "greet_auth"} \X {0}
      BY <1>1, <1>6, <1>7, <1>10 DEF Script
    <2>2. n + 1 >= 2 => appSent'[2] \in {"connect", "bind", "bad_atyp"} \X {0}
      BY <1>1, <1>6, <1>7, <1>10 DEF Script
    <2>3. \A i \in 3..(n + 1) : appSent'[i] = <<"data", i - 2>>
      <3> SUFFICES ASSUME NEW i \in 3..(n + 1) PROVE appSent'[i] = <<"data", i - 2>>
        OBVIOUS
      <3>1. CASE i = n + 1
        <4>1. n >= 2 /\ i - 2 = n - 1
          BY <3>1
        <4> QED BY <1>7, <1>10, <3>1, <4>1
      <3>2. CASE i # n + 1
        <4>1. i \in 3..n /\ i \in 1..n
          BY <3>2
        <4> QED BY <1>1, <1>6, <1>7, <4>1 DEF Script
      <3> QED BY <3>1, <3>2
    <2> QED BY <1>1, <1>3, <1>7, <1>10, <2>1, <2>2, <2>3 DEF Script
  <1>13. \A x \in Node, e \in Dir : Resting(x, e)
    BY <1>3, Still
  <1>14. \E P \in Places : Flow("down", P)'
    <2>1. PICK P \in Places : Flow("down", P)
      BY <1>1, <1>4 DEF Flows
    <2>2. \A b \in Conn : Kept(b, "down")
      BY <1>4, <1>8
    <2>3. Heard("down")' = Heard("down") /\ Wrote("down")' = Wrote("down")
      BY <1>3 DEF Heard, Wrote
    <2>4. Flow("down", P)'
      BY <1>1, <1>4, <1>8, <1>9, <1>11, <1>13, <2>1, <2>2, <2>3, FlowKept
    <2> QED BY <2>4
  <1>15. \E P \in Places : Flow("up", P)'
    <2>1. PICK P \in Places : Flow("up", P)
      BY <1>1, <1>4 DEF Flows
    <2>2. /\ Heard("up")' = Heard("up") /\ Wrote("up") = appSent
          /\ Wrote("up")' = Append(Wrote("up"), u) /\ Source("up") = "socks"
      BY <1>2, <1>3 DEF Heard, Wrote, Source
    <2>3. Right(Story', "socks", "up", n + 1, u)
      <3>1. CASE n <= 1
        <4>1. n + 1 \in {1, 2} /\ Asked(Story', n + 1, u)
          BY <1>7, <3>1 DEF Asked, Story
        <4> QED BY <4>1 DEF Right
      <3>2. CASE n >= 2
        <4>1. Len(Story'.asked) = n + 1 /\ u = <<"data", n - 1>>
          BY <1>7, <1>10, <3>2 DEF Story
        <4>2. n + 1 > 2 /\ (n + 1) + 2 <= (n + 1) + 2 /\ n - 1 = (n + 1) - 2
          BY <3>2
        <4>3. Datum(Story', "socks", "up", n + 1, u)
          BY <4>1, <4>2 DEF Datum, Opening, Source, Known
        <4> QED BY <4>3 DEF Right
      <3> QED BY <3>1, <3>2
    <2>4. /\ Right(Story', Source("up"), "up", Len(Wrote("up")) + 1, u)
          /\ Put(Source("up"), "up", u) /\ u \in Carries[Source("up")]["up"]
          /\ Wrote("up") \in Seq(Unit) /\ gone' = gone
      BY <1>2, <1>3, <1>4, <1>5, <1>6, <2>2, <2>3
    <2>5. Flow("up", P)'
      BY <1>1, <1>4, <1>9, <1>11, <1>13, <2>1, <2>2, <2>4, FlowAsked
    <2> QED BY <2>5
  <1>16. Flows'
    BY <1>14, <1>15 DEF Flows, Dir
  <1>17. \A j \in {1, 2} : \A v : Asked(Story, j, v) => Asked(Story', j, v)
    <2>1. Len(Story.asked) \in Nat /\ Len(Story'.asked) \in Nat
      BY <1>1, <1>9, Sizes, SizesAfter DEF Sized
    <2> QED BY <1>11, <2>1, AskedGrows
  <1>18. Opened'
    BY <1>1, <1>3, <1>17 DEF Opened
  <1>19. Dialed' /\ Idle'
    BY <1>1, <1>3 DEF Dialed, Idle
  <1> QED BY <1>9, <1>12, <1>16, <1>18, <1>19 DEF IInv

LEMMA TargetWritesKeeps ==
  ASSUME IInv, TargetWrites
  PROVE  IInv'
  <1> DEFINE u == <<"data", Len(targetSent) + 1>>
  <1>1. TypeOK /\ Opened /\ Dialed /\ Idle /\ Script /\ Flows
    BY DEF IInv
  <1>2. /\ dialed = "connected" /\ Len(targetSent) < MaxDown
        /\ Put("dest", "down", u) /\ targetSent' = Append(targetSent, u)
        /\ UNCHANGED <<pc, hold, dialed, transport, appSent, appGot, targetGot>>
        /\ UNCHANGED <<shut, gone, cut>>
    BY DEF TargetWrites, ends
  <1>3. PICK n \in Nat : n = Len(targetSent)
    BY <1>1, LenProperties DEF TypeOK
  <1>4. u = <<"data", n + 1>>
    BY <1>3
  <1> HIDE DEF u
  <1>5. n + 1 \in 1..(IF MaxUp > MaxDown THEN MaxUp ELSE MaxDown) /\ n + 1 <= MaxDown
    BY <1>2, <1>3, BoundsAssumption
  <1>6. u \in Chunk /\ "dest" \in Conn /\ "up" \in Dir /\ "down" \in Dir
    BY <1>4, <1>5 DEF Chunk, Conn, Dir
  <1>7. u \in Carries["dest"]["down"] /\ u \in Unit
    BY <1>6, ChunkCarried, CarriedUnits
  <1>8. targetSent \in Seq(Chunk) /\ targetSent \in Seq(Unit)
    <2>1. targetSent \in Seq(Chunk) /\ Chunk \subseteq Unit
      BY <1>1, <1>6, ChunkCarried, CarriedUnits DEF TypeOK
    <2>2. \A s \in Seq(Chunk) : s \in Seq(Unit)
      BY <2>1
    <2> QED BY <2>1, <2>2
  <1>9. /\ targetSent' \in Seq(Chunk) /\ Len(targetSent') = n + 1
        /\ \A i \in 1..n : targetSent'[i] = targetSent[i]
        /\ targetSent'[n + 1] = u
    BY <1>2, <1>3, <1>6, <1>8, AppendProperties
  <1>10. /\ Worse /\ Queues' /\ reset' \subseteq Conn /\ cut \subseteq reset'
         /\ \A b \in Conn, e \in Dir : b # "dest" \/ e # "down" => Kept(b, e)
    BY <1>1, <1>2, <1>6, <1>7, PutEffect
  <1>11. TypeOK'
    BY <1>1, <1>2, <1>9, <1>10 DEF TypeOK, Queues
  <1>12. Grows(Story, Story')
    BY <1>1, <1>2, <1>3, <1>9, Sizes DEF Sized, Grows, Story
  <1>13. Script'
    <2>1. \A i \in 1..(n + 1) : targetSent'[i] = <<"data", i>>
      <3> SUFFICES ASSUME NEW i \in 1..(n + 1) PROVE targetSent'[i] = <<"data", i>>
        OBVIOUS
      <3>1. CASE i = n + 1
        BY <1>4, <1>9, <3>1
      <3>2. CASE i # n + 1
        <4>1. i \in 1..n
          BY <3>2
        <4> QED BY <1>1, <1>3, <1>9, <4>1 DEF Script
      <3> QED BY <3>1, <3>2
    <2> QED BY <1>1, <1>2, <1>5, <1>9, <2>1 DEF Script
  <1>14. \A x \in Node, e \in Dir : Resting(x, e)
    BY <1>2, Still
  <1>15. \E P \in Places : Flow("up", P)'
    <2>1. PICK P \in Places : Flow("up", P)
      BY <1>1, <1>6 DEF Flows
    <2>2. \A b \in Conn : Kept(b, "up")
      BY <1>6, <1>10
    <2>3. Heard("up")' = Heard("up") /\ Wrote("up")' = Wrote("up")
      BY <1>2 DEF Heard, Wrote
    <2>4. Flow("up", P)'
      BY <1>1, <1>6, <1>10, <1>11, <1>12, <1>14, <2>1, <2>2, <2>3, FlowKept
    <2> QED BY <2>4
  <1>16. \E P \in Places : Flow("down", P)'
    <2>1. PICK P \in Places : Flow("down", P)
      BY <1>1, <1>6 DEF Flows
    <2>2. /\ Heard("down")' = Heard("down") /\ Wrote("down") = targetSent
          /\ Wrote("down")' = Append(Wrote("down"), u) /\ Source("down") = "dest"
      BY <1>2 DEF Heard, Wrote, Source
    <2>3. Right(Story', "dest", "down", n + 1, u)
      <3>1. Len(Story'.produced) = n + 1
        BY <1>9 DEF Story
      <3>2. n + 1 > 0 /\ (n + 1) + 0 <= (n + 1) + 0 /\ n + 1 = (n + 1) - 0
        OBVIOUS
      <3>3. Datum(Story', "dest", "down", n + 1, u)
        BY <1>4, <3>1, <3>2 DEF Datum, Opening, Source, Known
      <3> QED BY <3>3 DEF Right
    <2>4. /\ Right(Story', Source("down"), "down", Len(Wrote("down")) + 1, u)
          /\ Put(Source("down"), "down", u) /\ u \in Carries[Source("down")]["down"]
          /\ Wrote("down") \in Seq(Unit) /\ gone' = gone
      BY <1>2, <1>3, <1>7, <1>8, <2>2, <2>3
    <2>5. Flow("down", P)'
      BY <1>1, <1>6, <1>11, <1>12, <1>14, <2>1, <2>2, <2>4, FlowAsked
    <2> QED BY <2>5
  <1>17. Flows'
    BY <1>15, <1>16 DEF Flows, Dir
  <1>18. \A j \in {1, 2} : \A v : Asked(Story, j, v) => Asked(Story', j, v)
    BY <1>2 DEF Asked, Story
  <1>19. Opened'
    BY <1>1, <1>2, <1>18 DEF Opened
  <1>20. Dialed' /\ Idle'
    BY <1>1, <1>2 DEF Dialed, Idle
  <1> QED BY <1>11, <1>13, <1>17, <1>19, <1>20 DEF IInv

\* What the party at the end of direction d reads moves nothing else.
LEMMA PartyReads ==
  ASSUME IInv, NEW d \in Dir, Take(Final(d), d), UNCHANGED <<pc, hold, reset, ends, dialed>>,
         UNCHANGED <<transport, appSent, targetSent>>,
         Heard(d)' = Append(Heard(d), First(Final(d), d)),
         Heard(Other(d))' = Heard(Other(d)),
         Heard(d) \in Seq(Carries[Final(d)][d]),
         appGot' \in Seq(Carries.socks.down), targetGot' \in Seq(Chunk)
  PROVE  IInv'
  <1>1. TypeOK /\ Opened /\ Dialed /\ Idle /\ Script /\ Flows
    BY DEF IInv
  <1>2. Final(d) \in Conn /\ Other(d) \in Dir /\ \A e \in Dir : e # d => e = Other(d)
    BY Layout DEF Dir, Other
  <1>3. /\ gone' = gone /\ shut' = shut /\ cut' = cut /\ reset' = reset
        /\ UNCHANGED <<pc, hold>> /\ UNCHANGED <<appSent, dialed, targetSent>>
    BY DEF ends
  <1>4. /\ Worse /\ Queues' /\ q[Final(d)][d] # <<>> /\ q'[Final(d)][d] = Tail(q[Final(d)][d])
        /\ First(Final(d), d) = Head(q[Final(d)][d])
        /\ \A b \in Conn, e \in Dir : b # Final(d) \/ e # d => Kept(b, e)
    BY <1>1, <1>2, <1>3, TakeEffect
  <1>5. TypeOK'
    BY <1>1, <1>3, <1>4 DEF TypeOK, Queues
  <1>6. Grows(Story, Story') /\ Script' /\ Story' = Story /\ \A e \in Dir : Wrote(e)' = Wrote(e)
    BY <1>1, <1>3, SameStory
  <1>7. \A x \in Node, e \in Dir : Resting(x, e)
    BY <1>3, Still
  <1>8. Heard(d) \in Seq(Unit)
    <2>1. Carries[Final(d)][d] \subseteq Unit
      BY <1>2, CarriedUnits
    <2>2. \A s \in Seq(Carries[Final(d)][d]) : s \in Seq(Unit)
      BY <2>1
    <2> QED BY <2>2
  <1>9. \E P \in Places : Flow(d, P)'
    <2>1. PICK P \in Places : Flow(d, P)
      BY <1>1 DEF Flows
    <2>2. PICK Q : Q = [P EXCEPT ![Final(d)] = @ + 1]
      OBVIOUS
    <2>3. Heard(d)' = Append(Heard(d), Head(q[Final(d)][d]))
      BY <1>4
    <2>4. \A b \in Conn : b # Final(d) => Kept(b, d)
      BY <1>4
    <2>5. Q \in Places /\ Flow(d, Q)'
      BY <1>1, <1>4, <1>5, <1>6, <1>7, <1>8, <2>1, <2>2, <2>3, <2>4, FlowHeard
    <2> QED BY <2>5
  <1>10. ASSUME NEW e \in Dir, e # d PROVE \E P \in Places : Flow(e, P)'
    <2>1. PICK P \in Places : Flow(e, P)
      BY <1>1 DEF Flows
    <2>2. Heard(e)' = Heard(e)
      BY <1>2, <1>10
    <2>3. \A b \in Conn : Kept(b, e)
      BY <1>4, <1>10
    <2>4. Flow(e, P)'
      BY <1>1, <1>4, <1>5, <1>6, <1>7, <2>1, <2>2, <2>3, FlowKept
    <2> QED BY <2>4
  <1>11. Flows'
    BY <1>9, <1>10 DEF Flows
  <1>12. Opened'
    BY <1>1, <1>3, <1>6 DEF Opened
  <1>13. Dialed' /\ Idle'
    BY <1>1, <1>3 DEF Dialed, Idle
  <1> QED BY <1>5, <1>6, <1>11, <1>12, <1>13 DEF IInv

LEMMA AppReadsKeeps ==
  ASSUME IInv, AppReads
  PROVE  IInv'
  <1>1. TypeOK
    BY DEF IInv
  <1>2. /\ Take("socks", "down") /\ appGot' = Append(appGot, First("socks", "down"))
        /\ UNCHANGED <<pc, hold, reset, ends, dialed>> /\ reset' = reset /\ gone' = gone
        /\ UNCHANGED <<transport, appSent, targetSent>> /\ targetGot' = targetGot
    BY DEF AppReads, ends
  <1>3. "down" \in Dir /\ "socks" \in Conn /\ Final("down") = "socks" /\ Other("down") = "up"
    BY DEF Dir, Conn, Final, Other
  <1>4. First("socks", "down") \in Carries["socks"]["down"]
    BY <1>1, <1>2, <1>3, TakeEffect
  <1>5. /\ appGot \in Seq(Carries["socks"]["down"]) /\ appGot \in Seq(Carries.socks.down)
        /\ targetGot \in Seq(Chunk)
    BY <1>1 DEF TypeOK
  <1>6. appGot' \in Seq(Carries.socks.down)
    BY <1>2, <1>4, <1>5, AppendProperties
  <1>7. /\ Heard("down") = appGot /\ Heard("down")' = appGot'
        /\ Heard("up")' = Heard("up")
    BY <1>2 DEF Heard
  <1> QED BY <1>2, <1>3, <1>5, <1>6, <1>7, PartyReads

LEMMA TargetReadsKeeps ==
  ASSUME IInv, TargetReads
  PROVE  IInv'
  <1>1. TypeOK
    BY DEF IInv
  <1>2. /\ Take("dest", "up") /\ targetGot' = Append(targetGot, First("dest", "up"))
        /\ UNCHANGED <<pc, hold, reset, ends, dialed>> /\ reset' = reset /\ gone' = gone
        /\ UNCHANGED <<transport, appSent, targetSent>> /\ appGot' = appGot
    BY DEF TargetReads, ends
  <1>3. "up" \in Dir /\ "dest" \in Conn /\ Final("up") = "dest" /\ Other("up") = "down"
    BY DEF Dir, Conn, Final, Other
  <1>4. First("dest", "up") \in Carries["dest"]["up"] /\ Carries["dest"]["up"] = Chunk
    <2>1. Carries["dest"]["up"] = Chunk
      BY DEF Carries
    <2> QED BY <1>1, <1>2, <1>3, <2>1, TakeEffect
  <1>5. appGot \in Seq(Carries.socks.down) /\ targetGot \in Seq(Chunk)
    BY <1>1 DEF TypeOK
  <1>6. targetGot' \in Seq(Chunk)
    BY <1>2, <1>4, <1>5, AppendProperties
  <1>7. /\ Heard("up") = targetGot /\ Heard("up")' = targetGot'
        /\ Heard("down")' = Heard("down")
    BY <1>2 DEF Heard
  <1> QED BY <1>2, <1>3, <1>4, <1>5, <1>6, <1>7, PartyReads

-----------------------------------------------------------------------------
\* The invariant.

LEMMA Start ==
  ASSUME Init
  PROVE  IInv
  <1>1. /\ pc = [x \in Node |-> IF x = "client" THEN "greeting" ELSE "none"]
        /\ hold = [x \in Node |-> [d \in Dir |-> None]]
        /\ q = [c \in Conn |-> [d \in Dir |-> <<>>]]
        /\ shut = {} /\ gone = {} /\ reset = {} /\ cut = {} /\ dialed = "no"
        /\ appSent = <<>> /\ appGot = <<>> /\ targetSent = <<>> /\ targetGot = <<>>
        /\ transport \in Transports
    BY DEF Init
  <1>2. /\ pc["client"] = "greeting" /\ pc["server"] = "none"
        /\ \A x \in Node, d \in Dir : hold[x][d] = None
        /\ \A c \in Conn, d \in Dir : q[c][d] = <<>>
    BY <1>1 DEF Node
  <1>3. \A U : <<>> \in Seq(U)
    OBVIOUS
  <1>4. Len(<<>>) = 0
    OBVIOUS
  <1>5. TypeOK
    <2>1. pc \in [Node -> ClientPc \cup ServerPc]
      BY <1>1 DEF Node, ClientPc, ServerPc
    <2>2. pc["client"] \in ClientPc /\ pc["server"] \in ServerPc
      BY <1>2 DEF ClientPc, ServerPc
    <2>3. hold \in [Node -> [Dir -> Chunk \cup {None}]]
      BY <1>1
    <2>4. q \in [Conn -> [Dir -> Seq(Unit)]]
      BY <1>1
    <2>5. \A c \in Conn, d \in Dir : q[c][d] \in Seq(Carries[c][d])
      BY <1>2, <1>3
    <2> QED BY <1>1, <1>3, <2>1, <2>2, <2>3, <2>4, <2>5 DEF TypeOK
  <1>6. Opened /\ Dialed
    BY <1>1, <1>2 DEF Opened, Dialed
  <1>7. Idle
    BY <1>2 DEF Idle
  <1>8. Script
    BY <1>1, <1>4, BoundsAssumption DEF Script
  <1>9. Flows
    <2> SUFFICES ASSUME NEW d \in Dir PROVE \E P \in Places : Flow(d, P)
      BY DEF Flows
    <2>1. PICK P : P = [c \in Conn |-> 0]
      OBVIOUS
    <2>2. P \in Places /\ \A c \in Conn : P[c] = 0
      BY <2>1 DEF Places
    <2>3. Heard(d) = <<>> /\ Wrote(d) = <<>>
      BY <1>1 DEF Heard, Wrote
    <2>4. \A c, k : Row(Story, c, d, k, <<>>)
      BY <1>4 DEF Row
    <2>5. Heads(d, P)
      BY <1>4, <2>2, <2>3, <2>4, Layout DEF Heads
    <2>6. Tails(d, P)
      BY <1>2, <1>4, <2>2, <2>3, Layout DEF Tails
    <2>7. \A c \in Conn : Carried(c, d, P)
      BY <1>2, <2>4 DEF Carried
    <2>8. ASSUME NEW x \in Node PROVE Reading(x, d, P) /\ Writing(x, d, P)
      <3>1. Took(pc[x], x, d) = 0 /\ Told(pc[x], x, d) = 0 /\ pc[x] # "relay"
        BY <1>2 DEF Took, Told, Node
      <3>2. P[From(x, d)] = 0 /\ P[To(x, d)] = 0 /\ Len(q[To(x, d)][d]) = 0
        BY <1>2, <1>4, <2>2, Layout
      <3>3. Holds(x, d) = 0
        BY <1>2 DEF Holds
      <3>4. Reading(x, d, P)
        BY <3>1, <3>2 DEF Reading
      <3>5. Writing(x, d, P)
        BY <3>1, <3>2, <3>3 DEF Writing
      <3> QED BY <3>4, <3>5
    <2> QED BY <2>2, <2>5, <2>6, <2>7, <2>8 DEF Flow
  <1> QED BY <1>5, <1>6, <1>7, <1>8, <1>9 DEF IInv

LEMMA StutterKeeps ==
  ASSUME IInv, UNCHANGED vars
  PROVE  IInv'
  <1>1. TypeOK /\ UNCHANGED <<pc, hold, dialed, parties>> /\ UNCHANGED <<q, reset, ends>>
    BY DEF IInv, vars, parties, ends
  <1>2. Worse /\ \A c \in Conn, d \in Dir : Kept(c, d)
    BY <1>1, Untouched
  <1>3. TypeOK'
    BY <1>1 DEF TypeOK, parties, ends
  <1> QED BY <1>1, <1>2, <1>3, Quietly

LEMMA NextKeeps ==
  ASSUME IInv, [Next]_vars
  PROVE  IInv'
  <1>1. ASSUME NEW x \in Node, Task(x) PROVE IInv'
    BY <1>1, HearKeeps, SayKeeps, FailKeeps, RelayEndsKeeps, DropKeeps, PumpReadKeeps,
       PumpWriteKeeps, ConnectKeeps, DialKeeps DEF Task, Runs
  <1>2. CASE AppWrites \/ AppReads
    BY <1>2, AppWritesKeeps, AppReadsKeeps
  <1>3. CASE TargetWrites \/ TargetReads
    BY <1>3, TargetWritesKeeps, TargetReadsKeeps
  <1>4. CASE PartyCloses("socks", "up") \/ PartyCloses("dest", "down")
    BY <1>4, PartyClosesKeeps DEF Conn, Dir
  <1>5. CASE \E c \in Conn : Cut(c)
    BY <1>5, CutKeeps
  <1>6. CASE UNCHANGED vars
    BY <1>6, StutterKeeps
  <1> QED BY <1>1, <1>2, <1>3, <1>4, <1>5, <1>6 DEF Next

LEMMA Invariance == Spec => []IInv
  <1>1. Init => IInv
    BY Start
  <1>2. IInv /\ [Next]_vars => IInv'
    BY NextKeeps
  <1> QED BY <1>1, <1>2, PTL DEF Spec

\* Every variable of the session keeps its type: no task reaches a point its
\* code does not have, no pump of relay_bidirectional holds anything but data
\* (a header, a status or a SOCKS message never gets into the stream), and each
\* connection carries only what belongs on it.
THEOREM TypeCorrect == Spec => []TypeOK
  <1>1. IInv => TypeOK
    BY DEF IInv
  <1> QED BY <1>1, Invariance, PTL

-----------------------------------------------------------------------------
\* The session implements the proxy of SocksProxy.

\* What a party is about to read is what the story makes its next unit.
LEMMA NextHeard ==
  ASSUME IInv, NEW d \in Dir, q[Final(d)][d] # <<>>
  PROVE  /\ Row(Story, Final(d), d, 0, Heard(d))
         /\ Right(Story, Final(d), d, Len(Heard(d)) + 1, First(Final(d), d))
  <1>1. TypeOK /\ Flows
    BY DEF IInv
  <1>2. PICK P \in Places : Flow(d, P)
    BY <1>1 DEF Flows
  <1>3. Final(d) \in Conn /\ Listened(Final(d), d)
    BY Layout DEF Listened
  <1>4. P[Final(d)] = Len(Heard(d)) /\ Row(Story, Final(d), d, 0, Heard(d))
    BY <1>2 DEF Flow, Heads
  <1>5. Row(Story, Final(d), d, P[Final(d)], q[Final(d)][d])
    BY <1>2, <1>3 DEF Flow, Carried
  <1>6. P[Final(d)] \in Nat /\ q[Final(d)][d] \in Seq(Unit)
    BY <1>1, <1>3, Sizes DEF Places, Sized
  <1> QED BY <1>4, <1>5, <1>6, RowTail DEF First

LEMMA AppReadsAnswer ==
  ASSUME IInv, AppReads
  PROVE  Service!Answer
  <1> DEFINE u == First("socks", "down")
  <1>1. TypeOK /\ Opened /\ Dialed /\ Script
    BY DEF IInv
  <1>2. /\ q["socks"]["down"] # <<>> /\ appGot' = Append(appGot, u)
        /\ UNCHANGED <<appSent, dialed, targetSent, targetGot>>
    BY DEF AppReads, Take, ends
  <1>3. /\ Row(Story, "socks", "down", 0, appGot)
        /\ Right(Story, "socks", "down", Len(appGot) + 1, u)
    <2>1. "down" \in Dir /\ Final("down") = "socks" /\ Heard("down") = appGot
      BY DEF Dir, Final, Heard
    <2> QED BY <1>2, <2>1, NextHeard
  <1> HIDE DEF u
  <1>4. PICK n \in Nat : n = Len(appGot)
    BY <1>1, LenProperties DEF TypeOK
  <1>5. Right(Story, "socks", "down", n + 1, u)
    BY <1>3, <1>4
  <1>6. n >= 1 => MethodTold(Story, appGot[1])
    <2> SUFFICES ASSUME n >= 1 PROVE MethodTold(Story, appGot[1])
      OBVIOUS
    <2>1. 1 \in 1..Len(appGot) /\ 0 + 1 = 1
      BY <1>4
    <2>2. Right(Story, "socks", "down", 1, appGot[1])
      BY <1>3, <2>1 DEF Row
    <2> QED BY <2>2 DEF Right, Datum, Opening
  <1>7. n >= 2 => ReplyTold(Story, appGot[2])
    <2> SUFFICES ASSUME n >= 2 PROVE ReplyTold(Story, appGot[2])
      OBVIOUS
    <2>1. 2 \in 1..Len(appGot) /\ 0 + 2 = 2
      BY <1>4
    <2>2. Right(Story, "socks", "down", 2, appGot[2])
      BY <1>3, <2>1 DEF Row
    <2> QED BY <2>2 DEF Right, Datum, Opening
  <1>8. Asked(Story, 2, <<"bind", 0>>) => dialed = "no"
    <2>1. Asked(Story, 2, <<"bind", 0>>) => ~Asked(Story, 2, <<"connect", 0>>)
      BY DEF Asked
    <2>2. Asked(Story, 2, <<"bind", 0>>) => pc["server"] = "none"
      BY <1>1, <2>1 DEF Opened
    <2> QED BY <1>1, <2>2 DEF Dialed
  <1>9. ASSUME NEW v, ReplyTold(Story, v)
        PROVE  v = Service!Verdict /\ v # <<"none", 0>>
    <2>1. CASE dialed = "connected"
      <3>1. v = <<"reply", 0>>
        BY <1>8, <1>9, <2>1 DEF ReplyTold, Story
      <3> QED BY <2>1, <3>1 DEF Service!Verdict
    <2>2. CASE dialed = "failed"
      <3>1. v = <<"reply", 5>>
        BY <1>8, <1>9, <2>2 DEF ReplyTold, Story
      <3> QED BY <2>2, <3>1 DEF Service!Verdict
    <2>3. CASE dialed = "no"
      <3>1. v = <<"reply", 7>> /\ Asked(Story, 2, <<"bind", 0>>)
        BY <1>9, <2>3 DEF ReplyTold, Story
      <3>2. Service!Requests("bind")
        BY <3>1 DEF Service!Requests, Asked, Story
      <3> QED BY <2>3, <3>1, <3>2 DEF Service!Verdict
    <2>4. dialed \in {"no", "connected", "failed"}
      BY <1>1 DEF TypeOK
    <2> QED BY <2>1, <2>2, <2>3, <2>4
  <1>10. CASE n = 0
    <2>1. MethodTold(Story, u)
      BY <1>5, <1>10 DEF Right, Datum, Opening
    <2>2. appSent # <<>> /\ u = Service!Method
      BY <1>1, <2>1 DEF MethodTold, Asked, Story, Service!Method
    <2>3. u \in {<<"method", 0>>, <<"method", 255>>}
      BY <2>1 DEF MethodTold
    <2>4. Service!Answers(u)
      BY <1>4, <1>10, <2>2 DEF Service!Answers
    <2> QED BY <1>2, <2>3, <2>4 DEF Service!Answer
  <1>11. CASE n = 1
    <2>1. ReplyTold(Story, u) /\ MethodTold(Story, appGot[1])
      BY <1>5, <1>6, <1>11 DEF Right, Datum, Opening
    <2>2. appGot[1] = <<"method", 0>>
      BY <2>1 DEF ReplyTold, MethodTold, Asked
    <2>3. u = Service!Verdict /\ u # <<"none", 0>>
      BY <1>9, <2>1
    <2>4. Service!Answers(u)
      BY <1>4, <1>11, <2>2, <2>3 DEF Service!Answers
    <2> QED BY <1>2, <2>3, <2>4 DEF Service!Answer
  <1>12. CASE n >= 2
    <2>1. n + 1 > 2 /\ ~(n + 1 = 1) /\ ~(n + 1 = 2) /\ n - 1 \in Nat /\ n - 1 >= 1
          /\ (n + 1) - 2 = n - 1
      BY <1>12
    <2>2. Datum(Story, "socks", "down", n + 1, u)
      BY <1>5, <2>1 DEF Right
    <2>3. PICK l \in Nat : l = Len(targetSent)
      BY <1>1, LenProperties DEF TypeOK
    <2>4. (n + 1) + 0 <= l + 2 /\ u = <<"data", (n + 1) - 2>>
      BY <2>2, <2>3 DEF Datum, Opening, Source, Known, Story
    <2>5. n - 1 <= l /\ n - 1 \in 1..l /\ u = <<"data", n - 1>>
      BY <1>12, <2>1, <2>4
    <2>6. targetSent[n - 1] = u
      BY <1>1, <2>3, <2>5 DEF Script
    <2>7. dialed = "connected"
      <3>1. targetSent # <<>>
        BY <2>3, <2>5
      <3> QED BY <1>1, <3>1 DEF Script
    <2>8. appGot[2] = <<"reply", 0>>
      BY <1>7, <1>8, <1>12, <2>7 DEF ReplyTold, Story
    <2>9. u \in Chunk
      <3>1. targetSent \in Seq(Chunk)
        BY <1>1 DEF TypeOK
      <3> QED BY <2>3, <2>5, <2>6, <3>1, ElementOfSeq
    <2>10. Service!Answers(u)
      BY <1>4, <1>12, <2>3, <2>5, <2>6, <2>8 DEF Service!Answers
    <2> QED BY <1>2, <2>9, <2>10 DEF Service!Answer
  <1> QED BY <1>10, <1>11, <1>12

LEMMA TargetReadsReceive ==
  ASSUME IInv, TargetReads
  PROVE  Service!Receive
  <1> DEFINE u == First("dest", "up")
  <1>1. TypeOK /\ Script
    BY DEF IInv
  <1>2. /\ q["dest"]["up"] # <<>> /\ targetGot' = Append(targetGot, u) /\ dialed = "connected"
        /\ UNCHANGED <<appSent, dialed, targetSent, appGot>>
    BY DEF TargetReads, Take, ends
  <1>3. Right(Story, "dest", "up", Len(targetGot) + 1, u)
    <2>1. "up" \in Dir /\ Final("up") = "dest" /\ Heard("up") = targetGot
      BY DEF Dir, Final, Heard
    <2> QED BY <1>2, <2>1, NextHeard
  <1> HIDE DEF u
  <1>4. PICK n \in Nat : n = Len(targetGot)
    BY <1>1, LenProperties DEF TypeOK
  <1>5. PICK l \in Nat : l = Len(appSent)
    BY <1>1, LenProperties DEF TypeOK
  <1>6. Datum(Story, "dest", "up", n + 1, u)
    BY <1>3, <1>4 DEF Right
  <1>7. (n + 1) + 2 <= l + 0 /\ u = <<"data", (n + 1) - 0>>
    BY <1>5, <1>6 DEF Datum, Opening, Source, Known, Story
  <1>8. n + 2 < l /\ n + 3 \in 3..l /\ (n + 3) - 2 = (n + 1) - 0
    BY <1>7
  <1>9. appSent[n + 3] = u
    BY <1>1, <1>5, <1>7, <1>8 DEF Script
  <1> QED BY <1>2, <1>4, <1>5, <1>8, <1>9 DEF Service!Receive

LEMMA DialDials ==
  ASSUME IInv, Dial
  PROVE  Service!Dial
  <1>1. dialed = "no" /\ Asked(Story, 2, <<"connect", 0>>)
    BY DEF IInv, Dialed, Opened, Dial
  <1>2. Service!Requests("connect")
    BY <1>1 DEF Service!Requests, Asked, Story
  <1>3. dialed' \in {"connected", "failed"} /\ UNCHANGED <<appSent, appGot, targetSent, targetGot>>
    BY DEF Dial, parties
  <1> QED BY <1>1, <1>2, <1>3 DEF Service!Dial

LEMMA AppWritesAsk ==
  ASSUME IInv, AppWrites
  PROVE  \E u \in Carries.socks.up : Service!Ask(u)
  <1>1. PICK u \in AppMay : appSent' = Append(appSent, u)
    BY DEF AppWrites
  <1>2. u \in Carries.socks.up
    BY <1>1, AppTurn DEF IInv
  <1>3. UNCHANGED <<appGot, dialed, targetSent, targetGot>>
    BY DEF AppWrites
  <1>4. Service!Ask(u)
    BY <1>1, <1>3 DEF Service!Ask
  <1> QED BY <1>2, <1>4

LEMMA TargetWritesProduce ==
  ASSUME IInv, TargetWrites
  PROVE  \E u \in Chunk : Service!Produce(u)
  <1>1. PICK n \in Nat : n = Len(targetSent)
    BY LenProperties DEF IInv, TypeOK
  <1>2. /\ targetSent' = Append(targetSent, <<"data", n + 1>>) /\ n < MaxDown
        /\ dialed = "connected" /\ UNCHANGED <<appSent, appGot, dialed, targetGot>>
    BY <1>1 DEF TargetWrites
  <1>3. n + 1 \in 1..(IF MaxUp > MaxDown THEN MaxUp ELSE MaxDown)
    BY <1>2, BoundsAssumption
  <1>4. <<"data", n + 1>> \in Chunk
    BY <1>3 DEF Chunk
  <1>5. Service!Produce(<<"data", n + 1>>)
    BY <1>2 DEF Service!Produce
  <1> QED BY <1>4, <1>5

LEMMA StepImplements ==
  ASSUME IInv, [Next]_vars
  PROVE  [Service!Next]_(Service!proxyVars)
  <1>1. ASSUME UNCHANGED <<appSent, appGot, dialed, targetSent, targetGot>>
        PROVE  UNCHANGED Service!proxyVars
    BY <1>1 DEF Service!proxyVars
  <1>2. ASSUME NEW x \in Node, Task(x) PROVE [Service!Next]_(Service!proxyVars)
    <2>1. CASE Dial
      BY SMTT(30), <2>1, DialDials DEF Service!Next
    <2>2. ASSUME Hear(x) \/ Say(x) \/ Fail(x) \/ RelayEnds(x) \/ Drop(x) \/ Connect
                   \/ \E d \in Dir : PumpRead(x, d) \/ PumpWrite(x, d)
          PROVE  UNCHANGED <<appSent, appGot, dialed, targetSent, targetGot>>
      BY <2>2 DEF Hear, Say, Fail, RelayEnds, Drop, Connect, PumpRead, PumpWrite, parties
    <2> QED BY <1>1, <1>2, <2>1, <2>2 DEF Task, Runs
  <1>3. CASE AppWrites
    BY <1>3, AppWritesAsk DEF Service!Next
  <1>4. CASE AppReads
    BY <1>4, AppReadsAnswer DEF Service!Next
  <1>5. CASE TargetWrites
    BY <1>5, TargetWritesProduce DEF Service!Next
  <1>6. CASE TargetReads
    BY <1>6, TargetReadsReceive DEF Service!Next
  <1>7. CASE PartyCloses("socks", "up") \/ PartyCloses("dest", "down") \/ \E c \in Conn : Cut(c)
    BY <1>1, <1>7 DEF PartyCloses, Cut, parties
  <1>8. CASE UNCHANGED vars
    BY <1>1, <1>8 DEF vars
  <1> QED BY <1>2, <1>3, <1>4, <1>5, <1>6, <1>7, <1>8 DEF Next

\* handle_socks_client, run_tunnel_client and run_tunnel_server between them
\* implement the proxy of SocksProxy, for chunks without bound and buffers of any
\* size: whatever closes, breaks or is lost, what the app reads is one SOCKS
\* conversation that tells the truth about the dial and then the target's
\* stream, and what the target reads is the app's.
THEOREM ImplementsProxy == Spec => ServiceSpec
  <1>1. Init => Service!Init
    BY DEF Init, Service!Init
  <1>2. IInv /\ [Next]_vars => [Service!Next]_(Service!proxyVars)
    BY StepImplements
  <1> QED BY <1>1, <1>2, Invariance, PTL DEF Spec, ServiceSpec, Service!Spec
=============================================================================

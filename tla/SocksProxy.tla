----------------------------- MODULE SocksProxy -----------------------------
(***************************************************************************)
(* What vs-vpn promises the two parties of one SOCKS connection, with no   *)
(* tunnel in sight: the abstract specification of TunnelSession.  The app  *)
(* writes a greeting, a request and data; the proxy dials at most once,    *)
(* tells the truth about it, and then carries two streams.  It may stop    *)
(* carrying at any time, and it never says more than this.                 *)
(***************************************************************************)
EXTENDS Naturals, Sequences

CONSTANTS
  Asks,                \* what an app may write
  Data                 \* what a target may write

VARIABLES
  asked,               \* what the app has written
  answered,            \* what the app has read
  dialed,              \* what became of the dial
  produced,            \* what the target has written
  received             \* what the target has read

proxyVars == <<asked, answered, dialed, produced, received>>

Init ==
  /\ asked = <<>> /\ answered = <<>> /\ produced = <<>> /\ received = <<>>
  /\ dialed = "no"

Requests(kind) == Len(asked) >= 2 /\ asked[2] = <<kind, 0>>

Ask(u) ==
  /\ asked' = Append(asked, u)
  /\ UNCHANGED <<answered, dialed, produced, received>>

Dial ==
  /\ dialed = "no" /\ Requests("connect")
  /\ dialed' \in {"connected", "failed"}
  /\ UNCHANGED <<asked, answered, produced, received>>

\* What the app may read next.
Verdict == CASE dialed = "connected" -> <<"reply", 0>>
             [] dialed = "failed" -> <<"reply", 5>>
             [] dialed = "no" /\ Requests("bind") -> <<"reply", 7>>
             [] OTHER -> <<"none", 0>>

Method == IF asked[1] = <<"greet", 0>> THEN <<"method", 0>> ELSE <<"method", 255>>

Answers(u) ==
  \/ Len(answered) = 0 /\ asked # <<>> /\ u = Method
  \/ /\ Len(answered) = 1 /\ answered[1] = <<"method", 0>>
     /\ u = Verdict /\ u # <<"none", 0>>
  \/ /\ Len(answered) >= 2 /\ answered[2] = <<"reply", 0>>
     /\ Len(answered) - 1 <= Len(produced)
     /\ u = produced[Len(answered) - 1]

Answer ==
  /\ \E u \in {<<"method", 0>>, <<"method", 255>>, Verdict} \cup Data :
       Answers(u) /\ answered' = Append(answered, u)
  /\ UNCHANGED <<asked, dialed, produced, received>>

Produce(u) ==
  /\ dialed = "connected"
  /\ produced' = Append(produced, u)
  /\ UNCHANGED <<asked, answered, dialed, received>>

\* The target reads what the app wrote behind its request, one unit at a time.
Receive ==
  /\ dialed = "connected"
  /\ Len(received) + 2 < Len(asked)
  /\ received' = Append(received, asked[Len(received) + 3])
  /\ UNCHANGED <<asked, answered, dialed, produced>>

Next == Dial \/ Answer \/ Receive \/ (\E u \in Asks : Ask(u)) \/ (\E u \in Data : Produce(u))

Spec == Init /\ [][Next]_proxyVars
=============================================================================

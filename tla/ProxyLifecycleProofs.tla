------------------------ MODULE ProxyLifecycleProofs ------------------------
(***************************************************************************)
(* Proofs about ProxyLifecycle, for any number of taps and any length of   *)
(* the log buffer.                                                         *)
(***************************************************************************)
EXTENDS ProxyLifecycle, FiniteSetTheorems, TLAPS

-----------------------------------------------------------------------------
\* The inductive invariant: the four properties, and what each needs to know of
\* the moments in which the main thread is inside nativeStart or nativeStop.

Poller == [at : {"off", "delay", "polling", "holding"}, cancel : BOOLEAN, batch : Seq(Nat)]

Shapes ==
  /\ session \in Nat /\ logBuf \in Seq(Nat)
  /\ isRunning \in BOOLEAN /\ stored \in BOOLEAN
  /\ main \in {"idle", "starting", "publishing", "joining"}
  /\ screen \in [running : BOOLEAN, logs : Seq(Nat)]
  /\ poller \in [Session -> Poller]

\* STATE and isRunning agree but for the time of a nativeStop, and a proxy whose
\* thread may still run is known to one of them.
Known ==
  /\ main = "idle" => stored = isRunning
  /\ main = "starting" => ~stored /\ ~isRunning
  /\ main = "publishing" => stored /\ isRunning
  /\ main = "joining" => ~stored /\ isRunning
  /\ NoOrphan

\* A job that is not cancelled is the current session's; one that will be
\* launched has never been.
Launched ==
  /\ Active \subseteq {session}
  /\ main # "idle" \/ ~isRunning => Active = {}
  /\ \A n \in Session :
       n > session \/ (n = session /\ main \in {"starting", "publishing"}) =>
         poller[n].at = "off" /\ poller[n].batch = <<>>

\* The buffer is the current session's from nativeStart until nativeStop returns.
Logged ==
  /\ isRunning \/ main # "idle" => ToSet(logBuf) \subseteq {session}
  /\ \A n \in Active : ToSet(poller[n].batch) \subseteq {n}

Shown == ViewsAgree /\ (main = "starting" => ~screen.running)

IInv == Shapes /\ Known /\ Launched /\ Logged /\ Shown

-----------------------------------------------------------------------------
LEMMA LatestOf ==
  ASSUME NEW S, NEW s \in Seq(S), NEW t \in Seq(S)
  PROVE  Latest(s \o t) \in Seq(S)
<1>1. s \o t \in Seq(S)
  OBVIOUS
<1> QED
  BY <1>1, BoundsAssumption DEF Latest

\* Launching and cancelling a job.
LEMMA JobFields ==
  ASSUME NEW p \in Poller
  PROVE  /\ [p EXCEPT !.at = "delay"] \in Poller
         /\ [p EXCEPT !.at = "delay"].batch = p.batch
         /\ [p EXCEPT !.cancel = TRUE] \in Poller
         /\ [p EXCEPT !.cancel = TRUE].cancel = TRUE
         /\ [p EXCEPT !.cancel = TRUE].at = p.at
         /\ [p EXCEPT !.cancel = TRUE].batch = p.batch
BY DEF Poller

\* The steps of the polling jobs start none and revive none.
Moved(n) ==
  /\ poller[n].at # "off"
  /\ poller' \in [Session -> Poller]
  /\ poller'[n].cancel = poller[n].cancel
  /\ \A k \in Session : k # n => poller'[k] = poller[k]

LEMMA JobsMove ==
  ASSUME Shapes, NEW n \in Session, Wake(n) \/ Poll(n) \/ Show(n)
  PROVE  Moved(n)
<1> USE DEF Poller
<1>1. CASE Wake(n)
  <2>1. poller' = [poller EXCEPT ![n] = [@ EXCEPT !.at = IF poller[n].cancel THEN "off" ELSE "polling"]]
    BY <1>1 DEF Wake
  <2> QED
    BY <1>1, <2>1 DEF Shapes, Wake, Moved
<1>2. CASE Poll(n)
  <2>1. /\ poller' \in [Session -> Poller]
        /\ poller'[n].cancel = poller[n].cancel
    BY <1>2 DEF Shapes, Poll
  <2>2. \A k \in Session : k # n => poller'[k] = poller[k]
    BY <1>2 DEF Shapes, Poll
  <2> QED
    BY <1>2, <2>1, <2>2 DEF Poll, Moved
<1>3. CASE Show(n)
  <2> <<>> \in Seq(Nat)
    OBVIOUS
  <2>1. poller[n] \in Poller
    BY DEF Shapes
  <2>2. poller' = [poller EXCEPT ![n] = [@ EXCEPT !.at = "delay", !.batch = <<>>]]
    BY <1>3 DEF Show
  <2>3. [poller[n] EXCEPT !.at = "delay", !.batch = <<>>] \in Poller
    BY <2>1
  <2> QED
    BY <1>3, <2>1, <2>2, <2>3 DEF Shapes, Show, Moved
<1> QED
  BY <1>1, <1>2, <1>3

LEMMA JobsStayActive ==
  ASSUME Shapes, NEW n \in Session, Moved(n)
  PROVE  Active' \subseteq Active
BY DEF Moved, Active

LEMMA InitIInv == Init => IInv
<1> SUFFICES ASSUME Init PROVE IInv
  OBVIOUS
<1> <<>> \in Seq(Nat)
  OBVIOUS
<1>1. Shapes
  BY DEF Init, Shapes, Poller, NoPoller
<1>2. Active = {}
  BY DEF Init, Active, NoPoller
<1>3. Launched
  BY <1>2 DEF Init, Launched, NoPoller
<1>4. Logged
  BY <1>2 DEF Init, Logged
<1> QED
  BY <1>1, <1>3, <1>4 DEF Init, IInv, Known, NoOrphan, Shown, ViewsAgree

-----------------------------------------------------------------------------
LEMMA NextIInv == IInv /\ [Next]_vars => IInv'
<1> SUFFICES ASSUME IInv, [Next]_vars PROVE IInv'
  OBVIOUS
<1> USE DEF IInv, Shapes, Known, NoOrphan, Launched, Logged, Shown, ViewsAgree, Active
<1>1. CASE UNCHANGED vars
  BY <1>1 DEF vars
<1>2. CASE Click
  BY <1>2 DEF Click, proxyVars
<1>3. CASE Redraw
  BY <1>3 DEF Redraw, proxyVars
<1>4. CASE StartRefused
  BY <1>4 DEF StartRefused, Handles, UpdatedNotice, uiVars, proxyVars
<1>5. CASE StartSpawns
  <2>1. Active = {} /\ Active' = {}
    BY <1>5 DEF StartSpawns, Handles
  <2>2. Shapes' /\ Known' /\ Shown'
    BY <1>5 DEF StartSpawns, Handles, ClearedLog, uiVars
  <2>3. Launched'
    BY <1>5, <2>1 DEF StartSpawns, Handles, Session
  <2>4. Logged'
    BY <1>5, <2>1 DEF StartSpawns, Handles, ClearedLog, ToSet
  <2> QED
    BY <2>2, <2>3, <2>4
<1>6. CASE StartReturns
  BY <1>6 DEF StartReturns, HandleStored, uiVars, proxyVars
<1>7. CASE StartFails
  BY <1>7 DEF StartFails, UpdatedNotice, uiVars, proxyVars
<1>8. CASE StartPublishes
  <2> <<>> \in Seq(Nat)
    OBVIOUS
  <2>1. /\ poller' \in [Session -> Poller]
        /\ \A k \in Session : k # session => poller'[k] = poller[k]
        /\ \A k \in Session : poller'[k].batch = poller[k].batch
    <3>1. CASE session \in Session
      <4>1. poller' = [poller EXCEPT ![session] = [poller[session] EXCEPT !.at = "delay"]]
        BY <1>8 DEF StartPublishes
      <4>2. poller'[session] = [poller[session] EXCEPT !.at = "delay"]
        BY <3>1, <4>1
      <4> QED
        BY <3>1, <4>1, <4>2, JobFields
    <3>2. CASE session \notin Session
      <4>1. poller' = poller
        BY <1>8, <3>2 DEF StartPublishes
      <4> QED
        BY <4>1
    <3> QED
      BY <3>1, <3>2
  <2>2. Active = {} /\ Active' \subseteq {session}
    BY <1>8, <2>1 DEF StartPublishes
  <2>3. Shapes' /\ Known' /\ Shown'
    BY <1>8, <2>1 DEF StartPublishes, UpdatedNotice, proxyVars
  <2>4. Launched'
    BY <1>8, <2>1, <2>2 DEF StartPublishes, proxyVars
  <2>5. Logged'
    <3>1. ToSet(logBuf) \subseteq {session} /\ UNCHANGED <<logBuf, session, isRunning>>
      BY <1>8 DEF StartPublishes, proxyVars
    <3>2. \A n \in Active' : ToSet(poller[n].batch) = {}
      BY <1>8, <2>2 DEF StartPublishes, ToSet
    <3> QED
      BY <2>1, <3>1, <3>2
  <2> QED
    BY <2>3, <2>4, <2>5
<1>9. CASE StopIgnored
  BY <1>9 DEF StopIgnored, NoticeAfterStop, uiVars, proxyVars
<1>10. CASE DestroyIgnored
  BY <1>10 DEF DestroyIgnored, Handles, uiVars, proxyVars
<1>11. CASE StopWaits
  <2>1. /\ poller' \in [Session -> Poller]
        /\ \A k \in Session : k # session => poller'[k] = poller[k]
        /\ \A k \in Session : poller'[k].at = poller[k].at /\ poller'[k].batch = poller[k].batch
        /\ session \in Session => poller'[session].cancel = TRUE
    <3>1. CASE session \in Session
      <4>1. poller' = [poller EXCEPT ![session] = [poller[session] EXCEPT !.cancel = TRUE]]
        BY <1>11 DEF StopWaits, JobCancelled
      <4>2. poller'[session] = [poller[session] EXCEPT !.cancel = TRUE]
        BY <3>1, <4>1
      <4> QED
        BY <3>1, <4>1, <4>2, JobFields
    <3>2. CASE session \notin Session
      BY <1>11, <3>2 DEF StopWaits
    <3> QED
      BY <3>1, <3>2
  <2>2. Active' = {}
    BY <1>11, <2>1 DEF StopWaits
  <2>3. Shapes' /\ Known' /\ Shown'
    BY <1>11, <2>1 DEF StopWaits, TokenCancelled, uiVars, proxyVars
  <2>4. Launched'
    BY <1>11, <2>1, <2>2 DEF StopWaits, proxyVars
  <2>5. Logged'
    BY <1>11, <2>2 DEF StopWaits, proxyVars
  <2> QED
    BY <2>3, <2>4, <2>5
<1>12. CASE StopReturns
  BY <1>12 DEF StopReturns, NoticeAfterStop, proxyVars
<1>13. CASE Bind
  BY <1>13 DEF Bind, appVars, uiVars
<1>14. CASE Shutdown \/ AcceptFails
  <2>1. Leave
    BY <1>14 DEF Shutdown, AcceptFails
  <2> QED
    BY <2>1 DEF Leave, appVars, uiVars
<1>15. CASE LookupStarts
  BY <1>15 DEF LookupStarts, appVars, uiVars
<1>19. CASE LookupEnds
  BY <1>19 DEF LookupEnds, appVars, uiVars
<1>16. CASE ThreadEnds
  BY <1>16 DEF ThreadEnds, appVars, uiVars
<1>17. CASE Log
  <2>1. logBuf' \in Seq(Nat) /\ ToSet(logBuf') \subseteq ToSet(logBuf) \cup {session}
    BY <1>17 DEF Log, ToSet
  <2> QED
    BY <1>17, <2>1 DEF Log, appVars, uiVars, proxyVars
<1>18. ASSUME NEW n \in Session, Wake(n) \/ Poll(n) \/ Show(n) PROVE IInv'
  <2>1. Moved(n) /\ Active' \subseteq Active
    BY <1>18, JobsMove, JobsStayActive
  <2>2. UNCHANGED <<notice, main, isRunning, stored, session, thread>>
    BY <1>18 DEF Wake, Poll, Show, appVars, uiVars, proxyVars
  <2>3. logBuf' \in {logBuf, <<>>} /\ ToSet(logBuf') \subseteq ToSet(logBuf)
    BY <1>18 DEF Wake, Poll, Show, ToSet
  <2>4. screen' \in [running : BOOLEAN, logs : Seq(Nat)] /\ screen'.running = screen.running
    <3>1. CASE Wake(n) \/ Poll(n)
      BY <3>1 DEF Wake, Poll, appVars, uiVars
    <3>2. CASE Show(n)
      <4>1. screen.logs \in Seq(Nat) /\ poller[n].batch \in Seq(Nat)
        BY DEF Poller
      <4>2. Latest(screen.logs \o poller[n].batch) \in Seq(Nat)
        BY <4>1, LatestOf
      <4> QED
        BY <3>2, <4>2 DEF Show
    <3> QED
      BY <1>18, <3>1, <3>2
  <2> <<>> \in Seq(Nat)
    OBVIOUS
  <2>5. Shapes' /\ Known' /\ Shown'
    <3>1. Shapes'
      BY <2>1, <2>2, <2>3, <2>4 DEF Moved
    <3>2. Known'
      BY <2>2
    <3>3. Shown'
      BY <2>2, <2>4
    <3> QED
      BY <3>1, <3>2, <3>3
  <2>6. Launched'
    BY <2>1, <2>2 DEF Moved
  <2>7. Logged'
    <3>1. poller'[n].batch \in {poller[n].batch, logBuf, <<>>}
      BY <1>18 DEF Wake, Poll, Show, Poller
    <3>2. n \in Active' => ToSet(poller'[n].batch) \subseteq {n}
      <4> SUFFICES ASSUME n \in Active' PROVE ToSet(poller'[n].batch) \subseteq {n}
        OBVIOUS
      <4>1. n \in Active
        BY <2>1
      <4>2. ToSet(poller[n].batch) \subseteq {n} /\ ToSet(logBuf) \subseteq {n}
        BY <4>1
      <4>3. ToSet(<<>>) = {}
        BY DEF ToSet
      <4> QED
        BY <3>1, <4>2, <4>3
    <3> QED
      BY <2>1, <2>2, <2>3, <3>2 DEF Moved
  <2> QED
    BY <2>5, <2>6, <2>7
<1> QED
  BY <1>1, <1>2, <1>3, <1>4, <1>5, <1>6, <1>7, <1>8, <1>9, <1>10, <1>11, <1>12, <1>13, <1>14,
     <1>15, <1>16, <1>17, <1>18, <1>19 DEF Next

LEMMA Invariance == Spec => []IInv
BY InitIInv, NextIInv, PTL DEF Spec

-----------------------------------------------------------------------------
\* nativeStart and nativeStop never lose a proxy that still has its port.
THEOREM NoProxyLost == Spec => []NoOrphan
<1>1. IInv => NoOrphan
  BY DEF IInv, Known
<1> QED
  BY <1>1, Invariance, PTL

\* ProxyManager never has two jobs drain the one log buffer.
THEOREM SinglePoller == Spec => []OnePoller
<1>1. IInv => OnePoller
  <2> SUFFICES ASSUME IInv PROVE OnePoller
    OBVIOUS
  <2>1. Active = {} \/ Active = {session}
    BY DEF IInv, Launched
  <2>2. Cardinality(Active) \in {0, 1}
    BY <2>1, FS_EmptySet, FS_Singleton
  <2> QED
    BY <2>2 DEF OnePoller, IInv, Launched
<1> QED
  BY <1>1, Invariance, PTL

\* A running session's job is handed lines of its own session alone.
THEOREM LinesStayInSession == Spec => []OwnLines
<1>1. IInv => OwnLines
  BY DEF IInv, Logged, OwnLines
<1> QED
  BY <1>1, Invariance, PTL

\* Screen and notification never contradict isRunning while the main thread is free.
THEOREM ViewsStayTrue == Spec => []ViewsAgree
<1>1. IInv => ViewsAgree
  BY DEF IInv, Shown
<1> QED
  BY <1>1, Invariance, PTL

-----------------------------------------------------------------------------
\* For the types: there are as many intents left to handle as clicks were not
\* turned into sessions, a stop being followed by one destroy at the most; a line
\* is logged only in a session; and nativeStop runs for the intent that is first.
Counted ==
  /\ session + Len(intents) <= clicks
  /\ main # "idle" \/ isRunning \/ thread # "none" => session >= 1
  /\ main = "joining" => intents # <<>>

Typed == TypeOK /\ Counted

Job == [at : {"off", "delay", "polling", "holding"}, cancel : BOOLEAN, batch : Seq(Session)]
Action == {"start", "stop", "destroy"}

LEMMA QueueSteps ==
  ASSUME intents \in Seq(Action), intents # <<>>
  PROVE  /\ Tail(intents) \in Seq(Action) /\ Len(Tail(intents)) = Len(intents) - 1
         /\ StopSelf(Tail(intents)) \in Seq(Action)
         /\ Len(StopSelf(Tail(intents))) <= Len(intents)
         /\ Len(intents) \in Nat /\ Len(StopSelf(Tail(intents))) \in Nat
<1>1. "destroy" \in Action
  BY DEF Action
<1> QED
  BY <1>1 DEF StopSelf

LEMMA InitTyped == Init => Typed
<1> SUFFICES ASSUME Init PROVE Typed
  OBVIOUS
<1>1. <<>> \in Seq(Session) /\ <<>> \in Seq(Action) /\ Len(<<>>) = 0
  OBVIOUS
<1>2. /\ poller \in [Session -> Job]
      /\ screen \in [running : BOOLEAN, logs : Seq(Session)]
  BY <1>1 DEF Init, NoPoller, Job
<1> QED
  <2>1. clicks \in 0..MaxClicks /\ session \in 0..MaxClicks /\ session + Len(intents) <= clicks
    BY <1>1, BoundsAssumption DEF Init
  <2>2. intents \in Seq({"start", "stop", "destroy"}) /\ logBuf \in Seq(Session)
    BY <1>1 DEF Init
  <2> QED
    BY <1>2, <2>1, <2>2 DEF Init, Typed, TypeOK, Counted, Job

\* One field of a job, or two, are set to something of its type.
LEMMA JobKeepsType ==
  ASSUME NEW p \in Job, NEW a \in {"off", "delay", "polling", "holding"},
         NEW b \in Seq(Session)
  PROVE  /\ [p EXCEPT !.at = a] \in Job /\ [p EXCEPT !.cancel = TRUE] \in Job
         /\ [p EXCEPT !.at = a, !.batch = b] \in Job
BY DEF Job

LEMMA NextTyped == Typed /\ [Next]_vars => Typed'
<1> SUFFICES ASSUME Typed, [Next]_vars PROVE Typed'
  OBVIOUS
<1>0. /\ poller \in [Session -> Job] /\ intents \in Seq(Action)
      /\ session \in Nat /\ clicks \in Nat /\ Len(intents) \in Nat
      /\ <<>> \in Seq(Session) /\ MaxClicks \in Nat
  BY BoundsAssumption DEF Typed, TypeOK, Job, Action
<1> USE <1>0 DEF Typed, TypeOK, Counted
<1>1. CASE UNCHANGED vars
  BY <1>1 DEF vars
<1>2. CASE Click
  <2>1. /\ intents' \in Seq(Action) /\ Len(intents') = Len(intents) + 1
    BY <1>2 DEF Click, Action
  <2>2. clicks' = clicks + 1 /\ clicks' \in 0..MaxClicks
    BY <1>2 DEF Click
  <2> QED
    BY <1>2, <2>1, <2>2 DEF Click, Action, proxyVars
<1>3. CASE Redraw
  BY <1>3 DEF Redraw, proxyVars
<1>4. CASE StartRefused \/ DestroyIgnored
  <2>1. intents # <<>> /\ intents' = Tail(intents) /\ main = "idle"
    BY <1>4 DEF StartRefused, DestroyIgnored, Handles
  <2>2. intents' \in Seq(Action) /\ Len(intents') = Len(intents) - 1
    BY <2>1, QueueSteps
  <2>3. notice' \in {"none", "starting", "running", "stopped"}
    BY <1>4 DEF StartRefused, DestroyIgnored, UpdatedNotice
  <2>4. UNCHANGED <<uiVars, main, isRunning, stored, cancelled, proxyVars, logBuf, poller>>
    BY <1>4 DEF StartRefused, DestroyIgnored
  <2> QED
    BY <2>1, <2>2, <2>3, <2>4 DEF Action, uiVars, proxyVars
<1>5. CASE StartSpawns
  <2>1. /\ intents' \in Seq(Action) /\ Len(intents') = Len(intents) - 1
        /\ session' = session + 1
    BY <1>5, QueueSteps DEF StartSpawns, Handles
  <2>2. session' \in 0..MaxClicks /\ session' + Len(intents') <= clicks
    BY <2>1
  <2>3. session' >= 1 /\ logBuf' \in Seq(Session) /\ poller' \in [Session -> Job]
    BY <1>5, <2>1 DEF StartSpawns, ClearedLog
  <2>4. /\ main' = "starting" /\ cancelled' = FALSE /\ thread' = "binding" /\ ready' = "none"
        /\ notice' = "starting" /\ UNCHANGED <<clicks, button, screen, isRunning, stored, lookup>>
    BY <1>5 DEF StartSpawns, uiVars
  <2> QED
    BY <2>1, <2>2, <2>3, <2>4 DEF Action, Job
<1>6. CASE StartReturns
  BY <1>6 DEF StartReturns, HandleStored, uiVars, proxyVars
<1>7. CASE StartFails
  BY <1>7 DEF StartFails, UpdatedNotice, uiVars, proxyVars
<1>8. CASE StartPublishes
  <2>1. session \in Session
    BY <1>8 DEF StartPublishes, Session
  <2>2. poller' = [poller EXCEPT ![session] = [poller[session] EXCEPT !.at = "delay"]]
    BY <1>8 DEF StartPublishes
  <2>3. poller' \in [Session -> Job]
    BY <2>1, <2>2, JobKeepsType
  <2> QED
    BY <1>8, <2>3 DEF StartPublishes, UpdatedNotice, proxyVars, Job
<1>9. CASE StopIgnored
  <2>1. intents' \in Seq(Action) /\ Len(intents') \in Nat /\ Len(intents') <= Len(intents)
    BY <1>9, QueueSteps DEF StopIgnored
  <2> QED
    BY <1>9, <2>1 DEF StopIgnored, NoticeAfterStop, Action, uiVars, proxyVars
<1>10. CASE StopWaits
  <2>1. session \in Session
    BY <1>10 DEF StopWaits, Session
  <2>2. poller' = [poller EXCEPT ![session] = [poller[session] EXCEPT !.cancel = TRUE]]
    BY <1>10 DEF StopWaits, JobCancelled
  <2>3. poller' \in [Session -> Job]
    BY <2>1, <2>2, JobKeepsType
  <2> QED
    BY <1>10, <2>3 DEF StopWaits, StopAsked, TokenCancelled, uiVars, proxyVars, Job
<1>11. CASE StopReturns
  <2>1. intents' \in Seq(Action) /\ Len(intents') \in Nat /\ Len(intents') <= Len(intents)
    <3>1. main = "joining" /\ (intents' = StopSelf(Tail(intents)) \/ intents' = Tail(intents))
      BY <1>11 DEF StopReturns
    <3>2. intents # <<>>
      BY <3>1
    <3>3. /\ Tail(intents) \in Seq(Action) /\ Len(Tail(intents)) = Len(intents) - 1
          /\ StopSelf(Tail(intents)) \in Seq(Action)
          /\ Len(StopSelf(Tail(intents))) <= Len(intents)
          /\ Len(StopSelf(Tail(intents))) \in Nat
      BY <3>2, QueueSteps
    <3> HIDE DEF Typed, TypeOK, Counted
    <3> QED
      BY <3>1, <3>3
  <2> QED
    <3>1. screen' \in [running : BOOLEAN, logs : Seq(Session)]
      BY <1>11 DEF StopReturns
    <3>2. notice' \in {"none", "starting", "running", "stopped"}
      BY <1>11 DEF StopReturns, NoticeAfterStop
    <3>3. /\ main' = "idle" /\ isRunning' = FALSE /\ session >= 1
          /\ UNCHANGED <<clicks, button, stored, cancelled, proxyVars, logBuf, poller>>
      BY <1>11 DEF StopReturns
    <3> QED
      <4>1. TypeOK'
        BY <2>1, <3>1, <3>2, <3>3 DEF Action, proxyVars
      <4>2. session' = session /\ clicks' = clicks
        BY <3>3 DEF proxyVars
      <4>3. Counted'
        <5> HIDE DEF Typed, TypeOK
        <5>1. session + Len(intents) <= clicks
          BY DEF Typed
        <5>2. session' + Len(intents') <= clicks'
          BY <2>1, <4>2, <5>1
        <5> QED
          BY <3>3, <4>2, <5>2
      <4> QED
        BY <4>1, <4>3
<1>12. CASE Bind \/ Shutdown \/ AcceptFails \/ LookupStarts \/ LookupEnds \/ ThreadEnds
  <2>1. /\ UNCHANGED <<appVars, session, logBuf, poller>>
        /\ thread' \in {thread, "running", "unwinding", "ended"}
        /\ thread' # "none" => thread # "none"
        /\ ready' \in {ready, "bound", "closed"} /\ lookup' \in BOOLEAN
    BY <1>12 DEF Bind, Shutdown, AcceptFails, Leave, LookupStarts, LookupEnds, ThreadEnds
  <2> QED
    BY <2>1 DEF appVars, uiVars
<1>13. CASE Log
  <2>1. session \in Session
    BY <1>13 DEF Log, Session
  <2>2. logBuf' \in Seq(Session)
    BY <1>13, <2>1 DEF Log
  <2> QED
    BY <1>13, <2>2 DEF Log, appVars, uiVars, proxyVars
<1>14. ASSUME NEW n \in Session, Wake(n) \/ Poll(n) \/ Show(n) PROVE Typed'
  <2>1. poller[n] \in Job /\ poller[n].batch \in Seq(Session) /\ screen.logs \in Seq(Session)
    BY DEF Job
  <2>2. /\ UNCHANGED <<clicks, button, notice, intents, main, isRunning, stored, cancelled, proxyVars>>
        /\ logBuf' \in Seq(Session)
    BY <1>14 DEF Wake, Poll, Show, appVars, uiVars
  <2>3. \E a \in {"off", "delay", "polling", "holding"}, b \in Seq(Session) :
          \/ poller' = [poller EXCEPT ![n] = [poller[n] EXCEPT !.at = a, !.batch = b]]
          \/ poller' = [poller EXCEPT ![n] = [poller[n] EXCEPT !.at = a]]
    <3>1. CASE Wake(n)
      BY <3>1 DEF Wake
    <3>2. CASE Poll(n)
      <4>1. poller' = [poller EXCEPT ![n] =
                [poller[n] EXCEPT !.at = IF logBuf = <<>> THEN "delay" ELSE "holding", !.batch = logBuf]]
        BY <3>2 DEF Poll
      <4> QED
        BY <4>1
    <3>3. CASE Show(n)
      <4>1. poller' = [poller EXCEPT ![n] = [poller[n] EXCEPT !.at = "delay", !.batch = <<>>]]
        BY <3>3 DEF Show
      <4> QED
        BY <4>1
    <3> QED
      BY <1>14, <3>1, <3>2, <3>3
  <2>4. poller' \in [Session -> Job]
    <3>1. PICK a \in {"off", "delay", "polling", "holding"}, b \in Seq(Session) :
             \/ poller' = [poller EXCEPT ![n] = [poller[n] EXCEPT !.at = a, !.batch = b]]
             \/ poller' = [poller EXCEPT ![n] = [poller[n] EXCEPT !.at = a]]
      BY <2>3
    <3>2. /\ [poller[n] EXCEPT !.at = a, !.batch = b] \in Job
          /\ [poller[n] EXCEPT !.at = a] \in Job
      BY <2>1, JobKeepsType
    <3> HIDE DEF Job
    <3> QED
      BY <3>1, <3>2
  <2>5. screen' \in [running : BOOLEAN, logs : Seq(Session)]
    <3>1. CASE Wake(n) \/ Poll(n)
      BY <3>1 DEF Wake, Poll, appVars, uiVars
    <3>2. CASE Show(n)
      <4>1. Latest(screen.logs \o poller[n].batch) \in Seq(Session)
        BY <2>1, LatestOf
      <4> QED
        BY <3>2, <4>1 DEF Show
    <3> QED
      BY <1>14, <3>1, <3>2
  <2> QED
    BY <2>2, <2>4, <2>5 DEF proxyVars, Job
<1> QED
  BY <1>1, <1>2, <1>3, <1>4, <1>5, <1>6, <1>7, <1>8, <1>9, <1>10, <1>11, <1>12, <1>13, <1>14
     DEF Next

\* Every session was started by a click of its own, and what is logged, polled
\* and shown belongs to one; nativeStop joins only what it has told to end.
THEOREM TypeCorrect == Spec => []TypeOK
<1>1. Spec => []Typed
  BY InitTyped, NextTyped, PTL DEF Spec
<1>2. Typed => TypeOK
  BY DEF Typed
<1> QED
  BY <1>1, <1>2, PTL
=============================================================================

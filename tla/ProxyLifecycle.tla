--------------------------- MODULE ProxyLifecycle ---------------------------
(***************************************************************************)
(* The proxy inside the Android app: ProxyService and ProxyManager in      *)
(* Kotlin over the JNI functions of android/rust-jni/src/lib.rs.           *)
(*                                                                         *)
(* Three kinds of threads meet.  The app's main thread handles the clicks, *)
(* and the service's intents and its onDestroy in the order in which the   *)
(* system was asked for them.  The proxy thread that nativeStart spawns    *)
(* runs client::run on a runtime of its own.  The polling coroutine drains *)
(* LOG_BUF; its cancellation is cooperative, so that one of an earlier     *)
(* session may be still at work.  Log lines are told apart by the session  *)
(* that wrote them; the two critical sections on STATE are main-thread     *)
(* only and need no separate lock here.                                    *)
(***************************************************************************)
EXTENDS Naturals, Sequences, FiniteSets, SequencesExt

CONSTANTS
  MaxClicks,           \* bound: intents the user sends
  MaxLines             \* bound: lines LOG_BUF and the screen hold

ASSUME BoundsAssumption == MaxClicks \in Nat /\ MaxLines \in Nat

VARIABLES
  clicks,              \* intents sent so far
  intents,             \* what the service has not handled yet
  button,              \* the button was last drawn as STOP
  main,                \* what the main thread is doing
  isRunning,           \* ProxyManager.isRunning
  screen,              \* ProxyManager.status: isRunning and logs
  notice,              \* the text of the service's notification, or "none"
  stored,              \* STATE holds the handle and the token of the proxy
  cancelled,           \* the token has been cancelled
  session,             \* proxies started so far
  ready,               \* the oneshot channel of the current start
  thread,              \* the proxy thread of the current session
  lookup,              \* the runtime has a name lookup on a blocking thread
  logBuf,              \* LOG_BUF: the session that wrote each line
  poller               \* poller[n]: the polling job launched by session n

vars == <<clicks, intents, button, main, isRunning, screen, notice, stored, cancelled,
          session, ready, thread, lookup, logBuf, poller>>

Session == 1..MaxClicks
NoPoller == [at |-> "off", cancel |-> FALSE, batch |-> <<>>]

TypeOK ==
  /\ clicks \in 0..MaxClicks /\ intents \in Seq({"start", "stop", "destroy"})
  /\ main \in {"idle", "starting", "publishing", "joining"}
  /\ button \in BOOLEAN /\ isRunning \in BOOLEAN /\ stored \in BOOLEAN
  /\ cancelled \in BOOLEAN /\ lookup \in BOOLEAN
  /\ notice \in {"none", "starting", "running", "stopped"}
  /\ screen \in [running : BOOLEAN, logs : Seq(Session)]
  /\ session \in 0..MaxClicks
  /\ ready \in {"none", "bound", "closed"}
  /\ thread \in {"none", "binding", "running", "unwinding", "ended"}
  /\ logBuf \in Seq(Session)
  /\ poller \in [Session -> [at : {"off", "delay", "polling", "holding"},
                             cancel : BOOLEAN, batch : Seq(Session)]]
  /\ main = "joining" => cancelled /\ ~stored

Init ==
  /\ clicks = 0 /\ intents = <<>> /\ button = FALSE
  /\ main = "idle" /\ isRunning = FALSE
  /\ screen = [running |-> FALSE, logs |-> <<>>] /\ notice = "none"
  /\ stored = FALSE /\ cancelled = FALSE /\ session = 0
  /\ ready = "none" /\ thread = "none" /\ lookup = FALSE
  /\ logBuf = <<>>
  /\ poller = [n \in Session |-> NoPoller]

proxyVars == <<session, ready, thread, lookup>>
uiVars == <<clicks, button, screen>>

\* What no step of the proxy thread changes.
appVars == <<uiVars, notice, intents, main, isRunning, stored, cancelled>>

-----------------------------------------------------------------------------
\* The user, and the main thread.

\* The button sends START or STOP by the status it was last drawn with.
Click ==
  /\ main = "idle" /\ clicks < MaxClicks
  /\ clicks' = clicks + 1
  /\ intents' = Append(intents, IF button THEN "stop" ELSE "start")
  /\ UNCHANGED <<notice, button, screen, main, isRunning, stored, cancelled,
                 proxyVars, logBuf, poller>>

\* collectAsState: the screen is drawn from the status some time later.
Redraw ==
  /\ main = "idle"
  /\ button' = screen.running
  /\ UNCHANGED <<notice, clicks, intents, screen, main, isRunning, stored, cancelled,
                 proxyVars, logBuf, poller>>

Handles(action) ==
  /\ main = "idle" /\ intents # <<>> /\ Head(intents) = action
  /\ intents' = Tail(intents)

\* updateNotification, and stopForeground.  (Not: a notification that stays.)
UpdatedNotice == IF isRunning THEN "running" ELSE "stopped"
NoticeAfterStop_Kept == notice
NoticeAfterStop == "none"

\* stopSelf: this service's onDestroy follows what has been asked for already.
StopSelf(queue) == IF Contains(queue, "destroy") THEN queue ELSE Append(queue, "destroy")

\* ProxyManager.start and nativeStart return -2.
StartRefused ==
  /\ Handles("start")
  /\ isRunning \/ stored
  /\ notice' = UpdatedNotice
  /\ UNCHANGED <<uiVars, main, isRunning, stored, cancelled, proxyVars, logBuf, poller>>

\* nativeStart up to blocking_recv: the log buffer cleared, the thread spawned.
ClearedLog_Kept == logBuf
ClearedLog == <<>>

StartSpawns ==
  /\ Handles("start")
  /\ ~isRunning /\ ~stored
  /\ main' = "starting"
  /\ logBuf' = ClearedLog
  /\ session' = session + 1
  /\ thread' = "binding" /\ ready' = "none" /\ cancelled' = FALSE
  /\ notice' = "starting"
  /\ UNCHANGED <<uiVars, isRunning, stored, lookup, poller>>

\* nativeStart returns the port, ProxyManager sets isRunning.
\* (Not: without storing the handle.)
HandleStored_Not == stored
HandleStored == TRUE

StartReturns ==
  /\ main = "starting" /\ ready = "bound"
  /\ stored' = HandleStored /\ isRunning' = TRUE
  /\ main' = "publishing"
  /\ UNCHANGED <<notice, uiVars, intents, cancelled, proxyVars, logBuf, poller>>

\* The bind failed: nativeStart joins the thread and returns -1.
StartFails ==
  /\ main = "starting" /\ ready = "closed" /\ thread = "ended"
  /\ main' = "idle"
  /\ notice' = UpdatedNotice
  /\ UNCHANGED <<uiVars, intents, isRunning, stored, cancelled, proxyVars, logBuf, poller>>

\* The status of the new session, without logs, and its polling job.
StartPublishes ==
  /\ main = "publishing"
  /\ screen' = [running |-> TRUE, logs |-> <<>>]
  /\ poller' = [poller EXCEPT ![session].at = "delay"]
  /\ main' = "idle"
  /\ notice' = UpdatedNotice
  /\ UNCHANGED <<clicks, button, intents, isRunning, stored, cancelled, proxyVars, logBuf>>

\* ProxyManager.stop when the proxy is not running, from either handler.
StopIgnored ==
  /\ main = "idle" /\ intents # <<>> /\ Head(intents) = "stop"
  /\ ~isRunning
  /\ intents' = StopSelf(Tail(intents))
  /\ notice' = NoticeAfterStop
  /\ UNCHANGED <<uiVars, main, isRunning, stored, cancelled, proxyVars, logBuf, poller>>

DestroyIgnored ==
  /\ Handles("destroy")
  /\ ~isRunning
  /\ notice' = "none"
  /\ UNCHANGED <<uiVars, main, isRunning, stored, cancelled, proxyVars, logBuf, poller>>

\* ProxyManager.stop and nativeStop up to join.
StopAsked == intents # <<>> /\ Head(intents) \in {"stop", "destroy"}

\* (Not: a job or a thread that is not told to end.)
JobCancelled_Not == poller[session].cancel
JobCancelled == TRUE
TokenCancelled_Not == cancelled
TokenCancelled == TRUE

StopWaits ==
  /\ main = "idle" /\ StopAsked
  /\ isRunning /\ stored
  /\ poller' = [poller EXCEPT ![session].cancel = JobCancelled]
  /\ stored' = FALSE /\ cancelled' = TokenCancelled
  /\ main' = "joining"
  /\ UNCHANGED <<notice, uiVars, intents, isRunning, proxyVars, logBuf>>

StopReturns ==
  /\ main = "joining" /\ thread = "ended"
  /\ isRunning' = FALSE
  /\ screen' = [screen EXCEPT !.running = FALSE]
  /\ main' = "idle"
  /\ notice' = IF Head(intents) = "stop" THEN NoticeAfterStop ELSE "none"
  /\ intents' = IF Head(intents) = "stop" THEN StopSelf(Tail(intents)) ELSE Tail(intents)
  /\ UNCHANGED <<clicks, button, stored, cancelled, proxyVars, logBuf, poller>>

-----------------------------------------------------------------------------
\* The proxy thread.

Bind ==
  /\ thread = "binding"
  /\ \/ thread' = "running" /\ ready' = "bound"
     \/ thread' = "unwinding" /\ ready' = "closed"
  /\ UNCHANGED <<appVars, session, lookup, logBuf, poller>>

\* run_with leaves its loop: the token is cancelled, or accept failed.
Leave ==
  /\ thread = "running"
  /\ thread' = "unwinding"
  /\ UNCHANGED <<appVars, session, ready, lookup, logBuf, poller>>

Shutdown == cancelled /\ Leave
AcceptFails == ~cancelled /\ Leave

\* TcpStream::connect of a host name runs on a thread of the blocking pool,
\* for which the runtime waits when it is dropped.
LookupStarts ==
  /\ thread = "running" /\ ~lookup
  /\ lookup' = TRUE
  /\ UNCHANGED <<appVars, session, ready, thread, logBuf, poller>>

LookupEnds ==
  /\ lookup
  /\ lookup' = FALSE
  /\ UNCHANGED <<appVars, session, ready, thread, logBuf, poller>>

ThreadEnds ==
  /\ thread = "unwinding" /\ ~lookup
  /\ thread' = "ended"
  /\ UNCHANGED <<appVars, session, ready, lookup, logBuf, poller>>

\* TeeWriter::write, from the proxy thread or from nativeStart and nativeStop.
Log ==
  /\ thread \in {"binding", "running", "unwinding"} \/ main \in {"starting", "joining"}
  /\ Len(logBuf) < MaxLines
  /\ logBuf' = Append(logBuf, session)
  /\ UNCHANGED <<appVars, proxyVars, poller>>

-----------------------------------------------------------------------------
\* The polling job of session n: `while (isActive)`, nativePollLogs, the
\* update of the status, delay.

Wake(n) ==
  /\ poller[n].at = "delay"
  /\ poller' = [poller EXCEPT ![n].at = IF poller[n].cancel THEN "off" ELSE "polling"]
  /\ UNCHANGED <<appVars, proxyVars, logBuf>>

Poll(n) ==
  /\ poller[n].at = "polling"
  /\ poller' = [poller EXCEPT ![n].at = IF logBuf = <<>> THEN "delay" ELSE "holding",
                              ![n].batch = logBuf]
  /\ logBuf' = <<>>
  /\ UNCHANGED <<appVars, proxyVars>>

\* MAX_LOG_ENTRIES: takeLast.
Latest(s) == SubSeq(s, IF Len(s) > MaxLines THEN Len(s) - MaxLines + 1 ELSE 1, Len(s))

Show(n) ==
  /\ poller[n].at = "holding"
  /\ screen' = [screen EXCEPT !.logs = Latest(@ \o poller[n].batch)]
  /\ poller' = [poller EXCEPT ![n].at = "delay", ![n].batch = <<>>]
  /\ UNCHANGED <<notice, clicks, button, intents, main, isRunning, stored, cancelled,
                 proxyVars, logBuf>>

Next ==
  \/ Click \/ Redraw
  \/ StartRefused \/ StartSpawns \/ StartReturns \/ StartFails \/ StartPublishes
  \/ StopIgnored \/ DestroyIgnored \/ StopWaits \/ StopReturns
  \/ Bind \/ Shutdown \/ AcceptFails \/ LookupStarts \/ LookupEnds \/ ThreadEnds \/ Log
  \/ \E n \in Session : Wake(n) \/ Poll(n) \/ Show(n)

Spec == Init /\ [][Next]_vars

\* The main thread and the proxy thread run when they can.  How long a name
\* lookup takes is up to the resolver: only FairSpec says that it ends.
RunsFair ==
  /\ WF_vars(StartRefused) /\ WF_vars(StartSpawns) /\ WF_vars(StartReturns)
  /\ WF_vars(StartFails) /\ WF_vars(StartPublishes)
  /\ WF_vars(StopIgnored) /\ WF_vars(DestroyIgnored) /\ WF_vars(StopWaits) /\ WF_vars(StopReturns)
  /\ WF_vars(Bind) /\ WF_vars(Shutdown) /\ WF_vars(ThreadEnds)
  /\ \A n \in Session : WF_vars(Wake(n)) /\ WF_vars(Poll(n)) /\ WF_vars(Show(n))

StuckLookupSpec == Spec /\ RunsFair
FairSpec == StuckLookupSpec /\ WF_vars(LookupEnds)

-----------------------------------------------------------------------------
\* nativeStart and nativeStop: whenever the main thread is free, a proxy thread
\* that has not ended is one that STATE can stop and the app knows to be
\* running; no click sequence leaves a proxy behind on its port.
NoOrphan ==
  main = "idle" /\ thread \in {"binding", "running", "unwinding"} => stored /\ isRunning

\* ProxyManager: at most one polling job is not cancelled, and none when
\* no proxy is running; two would share the lines of one buffer.
Active == {n \in Session : poller[n].at # "off" /\ ~poller[n].cancel}

OnePoller ==
  /\ Cardinality(Active) <= 1
  /\ main = "idle" /\ ~isRunning => Active = {}

\* nativeStart clears LOG_BUF, and nativeStop returns only when its proxy has
\* written its last line: a running session's polling job is handed lines of this
\* session alone.  (A cancelled job may still take some of them, and show them.)
OwnLines ==
  /\ \A n \in Active : ToSet(poller[n].batch) \subseteq {n}
  /\ isRunning => ToSet(logBuf) \subseteq {session}

\* ProxyService and ProxyManager: whenever the main thread is free, the
\* notification and the screen tell what isRunning does, whichever way the last
\* start or stop went, and a running proxy has its foreground service.
ViewsAgree ==
  main = "idle" => (notice = "running" <=> isRunning) /\ (screen.running <=> isRunning)

\* Every intent is handled: no start or stop blocks the main thread for ever,
\* whatever the thread is doing when it is told to stop.
AllHandled == intents # <<>> ~> intents = <<>> /\ main = "idle"

\* nativeStop's comment: join with a timeout of five seconds.
StopIsTimed == main = "joining" ~> main = "idle"
=============================================================================

------------------------------ MODULE Shutdown ------------------------------
(***************************************************************************)
(* The life of the process: main (main.go), setupDatabase,                 *)
(* checkTailscaleReady, startListeners, startServer and waitForShutdown    *)
(* (helpers.go, server.go), with net/http's Shutdown, the one-place signal *)
(* channel, two servers and the requests in flight on them.                *)
(*                                                                         *)
(* A signal is caught from signal.Notify on, which is before the database  *)
(* is reached, and is read only by waitForShutdown.  os.Exit runs no       *)
(* deferred call and ends every request; a panic of main runs the deferred *)
(* calls first.                                                            *)
(***************************************************************************)
EXTENDS Integers, Sequences

CONSTANTS Request,      \* requests over the life of the process
          MaxSignals    \* bound on the signals that are caught

ASSUME SignalsAssumption == MaxSignals \in Nat

VARIABLES
  main,             \* where main is
  attempt,          \* attempts setupDatabase has made without success
  status,           \* what lc.Status said last, while main asks
  pool,             \* dbconn
  sigChan,          \* chan os.Signal of capacity 1
  caught,           \* every signal the channel took, in order
  sig,              \* the signal waitForShutdown began with
  server,           \* the two http.Server
  shutter,          \* the goroutines that call their Shutdown
  serversDone,      \* how many of them have sent and not been received
  serversShutdown,  \* how many of them have been received
  expired,          \* shutdownCtx.Done
  request,          \* where each request is
  exit              \* how the process ended

startVars == <<attempt, status, pool>>
signalVars == <<sigChan, caught, sig>>
drainVars == <<shutter, serversDone, serversShutdown, expired>>
vars == <<main, startVars, signalVars, server, drainVars, request, exit>>

-----------------------------------------------------------------------------
Server == {"http", "https"}
Number == [SIGHUP |-> 1, SIGINT |-> 2, SIGQUIT |-> 3, SIGTERM |-> 15]
Signal == DOMAIN Number
NoSignal == "none"

(* The states of the daemon about which checkTailscaleReady asks again.    *)
Waiting == {"NoState", "NeedsLogin", "NeedsMachineAuth", "Starting"}
Unasked == "unasked"

Attempts == 3

Startup == <<"telemetry", "database", "ping", "directory", "client",
             "ready", "peers", "listen", "serve", "serveTls">>
Main == {Startup[i] : i \in DOMAIN Startup} \cup {"wait", "select", "exited"}

Running == [how |-> "running", code |-> 0]
Exit(how, code) == [how |-> how, code |-> code]

(* active: its handler runs; done: it was answered; cut: it never will be. *)
Idle == [server |-> "none", at |-> "idle"]
RequestState == [server : Server, at : {"active", "done", "cut"}]

Init ==
  /\ main = "telemetry"
  /\ attempt = 0 /\ status = Unasked /\ pool = "none"
  /\ sigChan = <<>> /\ caught = <<>> /\ sig = NoSignal
  /\ server = [s \in Server |-> "off"]
  /\ shutter = [s \in Server |-> "none"]
  /\ serversDone = 0 /\ serversShutdown = 0 /\ expired = FALSE
  /\ request = [r \in Request |-> Idle]
  /\ exit = Running

Active(s) == {r \in Request : request[r] = [server |-> s, at |-> "active"]}

Moved(r, at) == [server |-> request[r].server, at |-> at]

(* The process is gone, and every request with it.                         *)
End(how, code) ==
  /\ main' = "exited"
  /\ exit' = Exit(how, code)
  /\ request' = [r \in Request |-> IF request[r].at = "active"
                                   THEN Moved(r, "cut")
                                   ELSE request[r]]

OsExit(how, code) == End(how, code) /\ UNCHANGED pool

(* The deferred dbconn.Close runs.                                         *)
Panic ==
  /\ End("panicked", 2)
  /\ pool' = IF pool = "open" THEN "closed" ELSE pool

Goto(label) == main' = label /\ UNCHANGED <<exit, request>>

-----------------------------------------------------------------------------
(* Starting up, until both servers are asked to serve.                     *)

(* signal.Notify follows a setupTelemetry that worked; one that failed     *)
(* leaves telemetry nil, and main reads telemetry.Metrics.                 *)
SetupTelemetry ==
  /\ main = "telemetry"
  /\ Goto("database")
  /\ UNCHANGED <<startVars, signalVars, server, drainVars>>

TelemetryMissing ==
  /\ main = "telemetry"
  /\ Panic
  /\ UNCHANGED <<attempt, status, signalVars, server, drainVars>>

(* DATABASE_URL missing or wrong, or the third attempt has failed.         *)
DatabaseMissing ==
  /\ main = "database" /\ attempt \in {0, Attempts}
  /\ OsExit("failed", 1)
  /\ UNCHANGED <<attempt, status, signalVars, server, drainVars>>

ConnectFails ==
  /\ main = "database" /\ attempt < Attempts
  /\ attempt' = attempt + 1
  /\ UNCHANGED <<main, status, pool, signalVars, server, drainVars, request,
                 exit>>

Connect ==
  /\ main = "database" /\ attempt < Attempts
  /\ attempt' = 0 /\ pool' = "open"
  /\ Goto("ping")
  /\ UNCHANGED <<status, signalVars, server, drainVars>>

PingFails ==
  /\ main = "ping"
  /\ End("failed", 1)
  /\ pool' = "closed"
  /\ UNCHANGED <<attempt, status, signalVars, server, drainVars>>

(* The steps of which each either goes on to the next or exits with 1.     *)
After == [ping |-> "directory", directory |-> "client", client |-> "ready",
          listen |-> "serve"]

Proceed ==
  /\ main \in DOMAIN After
  /\ Goto(After[main])
  /\ UNCHANGED <<startVars, signalVars, server, drainVars>>

(* createConfigDir, or one of the two listeners.                           *)
SetupFails ==
  /\ main \in {"directory", "listen"}
  /\ OsExit("failed", 1)
  /\ UNCHANGED <<attempt, status, signalVars, server, drainVars>>

(* getTailscaleLocalClient returned nil, on which Status is called.        *)
ClientMissing ==
  /\ main = "client"
  /\ Panic
  /\ UNCHANGED <<attempt, status, signalVars, server, drainVars>>

CheckTailscaleReady ==
  /\ main = "ready"
  /\ \/ status' \in Waiting /\ Goto("ready")
     \/ status' = Unasked /\ Goto("listen")   \* Stopped
     \/ status' = Unasked /\ Goto("peers")    \* Running
  /\ UNCHANGED <<attempt, pool, signalVars, server, drainVars>>

TailscaleNotReady ==
  /\ main = "ready"
  /\ OsExit("failed", 1)
  /\ UNCHANGED <<attempt, status, signalVars, server, drainVars>>

StatusWithoutPeers ==
  /\ main = "peers"
  /\ Goto("listen")
  /\ UNCHANGED <<startVars, signalVars, server, drainVars>>

(* An error is logged, and nopeers is read all the same.                   *)
PeersMissing ==
  /\ main = "peers"
  /\ Panic
  /\ UNCHANGED <<attempt, status, signalVars, server, drainVars>>

(* The two go statements; expandSNIName is called between them.            *)
StartPlain ==
  /\ main = "serve"
  /\ server' = [server EXCEPT !["http"] = "started"]
  /\ Goto("serveTls")
  /\ UNCHANGED <<startVars, signalVars, drainVars>>

StartTls ==
  /\ main = "serveTls"
  /\ server' = [server EXCEPT !["https"] = "started"]
  /\ Goto("wait")
  /\ UNCHANGED <<startVars, signalVars, drainVars>>

-----------------------------------------------------------------------------
(* A server's goroutine: Serve runs until Shutdown closes the listener, or *)
(* fails, which is only logged.                                            *)
Serve(s) ==
  /\ main # "exited"
  /\ server[s] = "started"
  /\ server' = [server EXCEPT ![s] = "serving"]
  /\ UNCHANGED <<main, startVars, signalVars, drainVars, request, exit>>

ServeFails(s) ==
  /\ main # "exited"
  /\ server[s] = "serving"
  /\ server' = [server EXCEPT ![s] = "failed"]
  /\ UNCHANGED <<main, startVars, signalVars, drainVars, request, exit>>

Accept(r) ==
  /\ main # "exited"
  /\ request[r] = Idle
  /\ \E s \in Server :
       /\ server[s] = "serving"
       /\ request' = [request EXCEPT ![r] =
                        [server |-> s, at |-> "active"]]
  /\ UNCHANGED <<main, startVars, signalVars, server, drainVars, exit>>

Finish(r) ==
  /\ main # "exited"
  /\ request[r].at = "active"
  /\ request' = [request EXCEPT ![r] = Moved(r, "done")]
  /\ UNCHANGED <<main, startVars, signalVars, server, drainVars, exit>>

-----------------------------------------------------------------------------
(* Signals.  Before Notify they end the process; afterwards one waits in   *)
(* the channel and the others are dropped.                                 *)
KilledBySignal ==
  /\ main = "telemetry"
  /\ OsExit("killed", 2)
  /\ UNCHANGED <<attempt, status, signalVars, server, drainVars>>

Catch ==
  /\ main \notin {"telemetry", "exited"}
  /\ sigChan = <<>> /\ Len(caught) < MaxSignals
  /\ \E n \in Signal : sigChan' = <<n>> /\ caught' = Append(caught, n)
  /\ UNCHANGED <<main, startVars, sig, server, drainVars, request, exit>>

-----------------------------------------------------------------------------
(* waitForShutdown.                                                        *)
(* Variant: the signal stays in the channel.                               *)
ReceiveSignalAgain ==
  /\ main = "wait" /\ sigChan # <<>>
  /\ sig' = Head(sigChan)
  /\ shutter' = [s \in Server |-> "begun"]
  /\ Goto("select")
  /\ UNCHANGED <<sigChan, startVars, caught, server, serversDone,
                 serversShutdown, expired>>

ReceiveSignal ==
  /\ main = "wait" /\ sigChan # <<>>
  /\ sig' = Head(sigChan) /\ sigChan' = <<>>
  /\ shutter' = [s \in Server |-> "begun"]
  /\ Goto("select")
  /\ UNCHANGED <<startVars, caught, server, serversDone, serversShutdown,
                 expired>>

(* Shutdown first closes the listener, and Serve returns ErrServerClosed.  *)
CloseListener(s) ==
  /\ main # "exited"
  /\ shutter[s] = "begun"
  /\ shutter' = [shutter EXCEPT ![s] = "waiting"]
  /\ server' = [server EXCEPT ![s] = "closed"]
  /\ UNCHANGED <<main, startVars, signalVars, serversDone, serversShutdown,
                 expired, request, exit>>

Quiescent(s) == Active(s) = {}

(* Then it returns when no connection is active, or with the error of the  *)
(* context; the deferred send does not ask which.                          *)
ShutdownReturns(s) ==
  /\ main # "exited"
  /\ shutter[s] = "waiting"
  /\ Quiescent(s) \/ expired
  /\ shutter' = [shutter EXCEPT ![s] = "returned"]
  /\ serversDone' = serversDone + 1
  /\ UNCHANGED <<main, startVars, signalVars, server, serversShutdown,
                 expired, request, exit>>

(* 30 seconds.  Variant: context.Background() without a timeout.           *)
ExpireNever == FALSE /\ UNCHANGED vars
Expire ==
  /\ main = "select" /\ ~expired
  /\ expired' = TRUE
  /\ UNCHANGED <<main, startVars, signalVars, server, shutter, serversDone,
                 serversShutdown, request, exit>>

(* Variant: the first server is enough.                                    *)
EnoughAfterOne(n) == n >= 1
Enough(n) == n >= 2

(* Variant: the goroutines close the channel, which then is always ready.  *)
ReceiveDoneClosed ==
  /\ main = "select"
  /\ serversDone' = serversDone - 1
  /\ serversShutdown' = serversShutdown + 1
  /\ IF Enough(serversShutdown + 1)
     THEN OsExit("drained", 128 + Number[sig])
     ELSE UNCHANGED <<main, pool, request, exit>>
  /\ UNCHANGED <<attempt, status, signalVars, server, shutter, expired>>

ReceiveDone ==
  /\ main = "select" /\ serversDone > 0
  /\ serversDone' = serversDone - 1
  /\ serversShutdown' = serversShutdown + 1
  /\ IF Enough(serversShutdown + 1)
     THEN OsExit("drained", 128 + Number[sig])
     ELSE UNCHANGED <<main, pool, request, exit>>
  /\ UNCHANGED <<attempt, status, signalVars, server, shutter, expired>>

(* Variant: waitForShutdown returns, and main's deferred calls run.        *)
TimeoutReturns ==
  /\ main = "select" /\ expired
  /\ pool' = "closed"
  /\ UNCHANGED <<main, attempt, status, signalVars, server, drainVars,
                 request, exit>>

TimeoutReached ==
  /\ main = "select" /\ expired
  /\ OsExit("timeout", 128 + Number[sig])
  /\ UNCHANGED <<attempt, status, signalVars, server, drainVars>>

Forcing == {"SIGTERM", "SIGQUIT"}

(* Variant: the case assigns sig instead of declaring another.             *)
ReceiveAgainAssigns ==
  /\ main = "select" /\ sigChan # <<>>
  /\ sigChan' = <<>>
  /\ sig' = Head(sigChan)
  /\ IF Head(sigChan) \in Forcing THEN OsExit("forced", 130)
     ELSE UNCHANGED <<main, pool, request, exit>>
  /\ UNCHANGED <<attempt, status, caught, server, drainVars>>

ReceiveAgain ==
  /\ main = "select" /\ sigChan # <<>>
  /\ sigChan' = <<>>
  /\ IF Head(sigChan) \in Forcing THEN OsExit("forced", 130)
     ELSE UNCHANGED <<main, pool, request, exit>>
  /\ UNCHANGED <<attempt, status, caught, sig, server, drainVars>>

-----------------------------------------------------------------------------
Start ==
  \/ SetupTelemetry \/ TelemetryMissing
  \/ DatabaseMissing \/ ConnectFails \/ Connect \/ PingFails
  \/ Proceed \/ SetupFails \/ ClientMissing
  \/ CheckTailscaleReady \/ TailscaleNotReady
  \/ StatusWithoutPeers \/ PeersMissing \/ StartPlain \/ StartTls

Next ==
  \/ Start
  \/ KilledBySignal \/ Catch
  \/ \E s \in Server : \/ Serve(s) \/ ServeFails(s)
                       \/ CloseListener(s) \/ ShutdownReturns(s)
  \/ \E r \in Request : Accept(r) \/ Finish(r)
  \/ ReceiveSignal \/ Expire
  \/ ReceiveDone \/ TimeoutReached \/ ReceiveAgain

Spec == Init /\ [][Next]_vars

(* main and the goroutines run, and the 30 seconds pass; select picks any  *)
(* ready case, so no case that stays ready waits for ever.  Nothing makes  *)
(* a request finish, and nothing makes a signal come.                      *)
FairSpec ==
  /\ Spec
  /\ WF_vars(Start) /\ WF_vars(ReceiveSignal) /\ WF_vars(Expire)
  /\ WF_vars(ReceiveDone) /\ WF_vars(TimeoutReached) /\ WF_vars(ReceiveAgain)
  /\ \A s \in Server :
       /\ WF_vars(Serve(s)) /\ WF_vars(CloseListener(s))
       /\ WF_vars(ShutdownReturns(s))

-----------------------------------------------------------------------------
(* Every variable has its type.                                            *)
TypeOK ==
  /\ main \in Main
  /\ attempt \in 0 .. Attempts
  /\ status \in Waiting \cup {Unasked}
  /\ pool \in {"none", "open", "closed"}
  /\ sigChan \in Seq(Signal) /\ caught \in Seq(Signal)
  /\ sig \in Signal \cup {NoSignal}
  /\ server \in [Server -> {"off", "started", "serving", "failed", "closed"}]
  /\ shutter \in [Server -> {"none", "begun", "waiting", "returned"}]
  /\ serversDone \in Nat /\ serversShutdown \in Nat
  /\ expired \in BOOLEAN
  /\ request \in [Request -> {Idle} \cup RequestState]
  /\ exit \in [how : {"running", "panicked", "failed", "killed", "drained",
                      "timeout", "forced"}, code : Nat]

(* A request in flight is cut off only at the deadline of waitForShutdown  *)
(* or by a repeated SIGTERM or SIGQUIT: never by a shutdown that reports   *)
(* all servers done before the deadline, by the first signal, or by an     *)
(* error of startup, although os.Exit ends whatever is still running.      *)
OnlyTheDeadlineCuts ==
  \A r \in Request :
    request[r].at = "cut" => expired \/ exit.how = "forced"

(* No request finds the pool closed: the deferred dbconn.Close never runs  *)
(* while a handler does.                                                   *)
PoolOutlivesRequests ==
  \A r \in Request : request[r].at = "active" => pool = "open"

(* A shutdown that was not forced exits with 128 and the number of the     *)
(* first signal the process caught, whatever came after it and however     *)
(* long before waitForShutdown it came.                                    *)
ExitNamesFirstSignal ==
  exit.how \in {"drained", "timeout"} =>
    caught # <<>> /\ exit.code = 128 + Number[Head(caught)]

(* A single signal never forces the exit: 130 takes a second one.          *)
ForcedByRepeat ==
  exit.how = "forced" =>
    \E i \in DOMAIN caught : i > 1 /\ caught[i] \in Forcing

(* A signal that was caught ends the process, even if no request in flight *)
(* ever finishes, except while checkTailscaleReady goes on asking.         *)
SignalEndsProcess ==
  caught # <<>> ~> main \in {"exited", "ready"}

=============================================================================

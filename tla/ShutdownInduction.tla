------------------------- MODULE ShutdownInduction -------------------------
(* The inductive invariant of Shutdown.                                    *)
EXTENDS Shutdown

(* Until waitForShutdown has a signal, nothing has been shut down.         *)
BeforeSignal ==
  main \notin {"select", "exited"} =>
    /\ sig = NoSignal /\ caught = sigChan /\ ~expired
    /\ \A s \in Server : shutter[s] = "none"

(* Before a server is started it has no requests.                          *)
BeforeServing ==
  /\ \A r \in Request : request[r].at = "active" =>
       /\ main \in {"serveTls", "wait", "select"}
       /\ server[request[r].server] \notin {"off", "started"}
  /\ main \notin {"serveTls", "wait", "select", "exited"} =>
       \A s \in Server : server[s] = "off"
  /\ main = "serveTls" => server["https"] = "off"

(* dbconn is open from the first Ping on.                                  *)
PoolIsOpen ==
  main \in {"ping", "directory", "client", "ready", "peers", "listen",
            "serve", "serveTls", "wait", "select"} => pool = "open"

(* main runs exactly as long as there is no exit.                          *)
ExitIsEnd == main = "exited" <=> exit.how # "running"

(* The channel holds at most the last signal that was caught.              *)
ChannelHoldsLast ==
  /\ Len(sigChan) <= 1
  /\ main = "telemetry" => caught = <<>>
  /\ sigChan # <<>> =>
       caught # <<>> /\ Head(sigChan) = caught[Len(caught)]
  /\ sig # NoSignal =>
       /\ caught # <<>> /\ sig = Head(caught)
       /\ sigChan # <<>> => Len(caught) > 1
  /\ main = "select" => sig # NoSignal

(* A Shutdown that has returned left nobody in flight, or is late.         *)
ReturnedIsQuiet ==
  \A s \in Server :
    /\ shutter[s] \in {"waiting", "returned"} => server[s] = "closed"
    /\ shutter[s] = "returned" => expired \/ Active(s) = {}

(* Every Shutdown that has returned was counted once.                      *)
Returned(s) == IF shutter[s] = "returned" THEN 1 ELSE 0
DoneIsCounted ==
  /\ serversDone + serversShutdown = Returned("http") + Returned("https")
  /\ main = "select" => serversShutdown < 2

IInv ==
  /\ TypeOK /\ BeforeSignal /\ BeforeServing /\ PoolIsOpen /\ ExitIsEnd
  /\ ChannelHoldsLast /\ ReturnedIsQuiet /\ DoneIsCounted
  /\ OnlyTheDeadlineCuts /\ ExitNamesFirstSignal /\ ForcedByRepeat
=============================================================================

--------------------------- MODULE ShutdownProofs ---------------------------
(* The safety of Shutdown for every number of requests and signals.  Each  *)
(* action has a lemma; the conjuncts of IInv are taken together where one  *)
(* reason keeps them: the types, the signals, the phases of main, the      *)
(* counting of the servers, and the exit.                                  *)
EXTENDS ShutdownInduction, TLAPS

USE DEF startVars, signalVars, drainVars, Server, Number, Signal, NoSignal,
        Waiting, Unasked, Attempts, Startup, Main, Running, Exit, Idle,
        RequestState, Active, Moved, End, OsExit, Panic, Goto, After, Forcing,
        Quiescent, Enough, Returned

-----------------------------------------------------------------------------
(* Starting up: nothing is served, so nothing is cut.                      *)
LEMMA SetupTelemetryKeeps == ASSUME IInv, SetupTelemetry PROVE IInv'
<1>1. TypeOK'
  BY DEF SetupTelemetry, IInv, TypeOK, ChannelHoldsLast
<1>2. BeforeSignal' /\ ChannelHoldsLast'
  BY DEF SetupTelemetry, IInv, TypeOK, BeforeSignal, ChannelHoldsLast
<1>3. BeforeServing' /\ PoolIsOpen' /\ ExitIsEnd'
  BY DEF SetupTelemetry, IInv, TypeOK, BeforeSignal, BeforeServing,
         PoolIsOpen, ExitIsEnd
<1>4. ReturnedIsQuiet' /\ DoneIsCounted' /\ OnlyTheDeadlineCuts'
  BY DEF SetupTelemetry, IInv, TypeOK, BeforeSignal, BeforeServing,
         ExitIsEnd, ReturnedIsQuiet, DoneIsCounted, OnlyTheDeadlineCuts
<1>5. ExitNamesFirstSignal' /\ ForcedByRepeat'
  BY DEF SetupTelemetry, IInv, TypeOK, ExitIsEnd, ChannelHoldsLast,
         ExitNamesFirstSignal, ForcedByRepeat
<1> QED BY <1>1, <1>2, <1>3, <1>4, <1>5 DEF IInv

LEMMA TelemetryMissingKeeps == ASSUME IInv, TelemetryMissing PROVE IInv'
<1>1. TypeOK'
  BY DEF TelemetryMissing, IInv, TypeOK, ChannelHoldsLast
<1>2. BeforeSignal' /\ ChannelHoldsLast'
  BY DEF TelemetryMissing, IInv, TypeOK, BeforeSignal, ChannelHoldsLast
<1>3. BeforeServing' /\ PoolIsOpen' /\ ExitIsEnd'
  BY DEF TelemetryMissing, IInv, TypeOK, BeforeSignal, BeforeServing,
         PoolIsOpen, ExitIsEnd
<1>4. ReturnedIsQuiet' /\ DoneIsCounted' /\ OnlyTheDeadlineCuts'
  BY DEF TelemetryMissing, IInv, TypeOK, BeforeSignal, BeforeServing,
         ExitIsEnd, ReturnedIsQuiet, DoneIsCounted, OnlyTheDeadlineCuts
<1>5. ExitNamesFirstSignal' /\ ForcedByRepeat'
  BY DEF TelemetryMissing, IInv, TypeOK, ExitIsEnd, ChannelHoldsLast,
         ExitNamesFirstSignal, ForcedByRepeat
<1> QED BY <1>1, <1>2, <1>3, <1>4, <1>5 DEF IInv

LEMMA DatabaseMissingKeeps == ASSUME IInv, DatabaseMissing PROVE IInv'
<1>1. TypeOK'
  BY DEF DatabaseMissing, IInv, TypeOK, ChannelHoldsLast
<1>2. BeforeSignal' /\ ChannelHoldsLast'
  BY DEF DatabaseMissing, IInv, TypeOK, BeforeSignal, ChannelHoldsLast
<1>3. BeforeServing' /\ PoolIsOpen' /\ ExitIsEnd'
  BY DEF DatabaseMissing, IInv, TypeOK, BeforeSignal, BeforeServing,
         PoolIsOpen, ExitIsEnd
<1>4. ReturnedIsQuiet' /\ DoneIsCounted' /\ OnlyTheDeadlineCuts'
  BY DEF DatabaseMissing, IInv, TypeOK, BeforeSignal, BeforeServing,
         ExitIsEnd, ReturnedIsQuiet, DoneIsCounted, OnlyTheDeadlineCuts
<1>5. ExitNamesFirstSignal' /\ ForcedByRepeat'
  BY DEF DatabaseMissing, IInv, TypeOK, ExitIsEnd, ChannelHoldsLast,
         ExitNamesFirstSignal, ForcedByRepeat
<1> QED BY <1>1, <1>2, <1>3, <1>4, <1>5 DEF IInv

LEMMA ConnectFailsKeeps == ASSUME IInv, ConnectFails PROVE IInv'
<1>1. TypeOK'
  BY DEF ConnectFails, IInv, TypeOK, ChannelHoldsLast
<1>2. BeforeSignal' /\ ChannelHoldsLast'
  BY DEF ConnectFails, IInv, TypeOK, BeforeSignal, ChannelHoldsLast
<1>3. BeforeServing' /\ PoolIsOpen' /\ ExitIsEnd'
  BY DEF ConnectFails, IInv, TypeOK, BeforeSignal, BeforeServing,
         PoolIsOpen, ExitIsEnd
<1>4. ReturnedIsQuiet' /\ DoneIsCounted' /\ OnlyTheDeadlineCuts'
  BY DEF ConnectFails, IInv, TypeOK, BeforeSignal, BeforeServing, ExitIsEnd,
         ReturnedIsQuiet, DoneIsCounted, OnlyTheDeadlineCuts
<1>5. ExitNamesFirstSignal' /\ ForcedByRepeat'
  BY DEF ConnectFails, IInv, TypeOK, ExitIsEnd, ChannelHoldsLast,
         ExitNamesFirstSignal, ForcedByRepeat
<1> QED BY <1>1, <1>2, <1>3, <1>4, <1>5 DEF IInv

LEMMA ConnectKeeps == ASSUME IInv, Connect PROVE IInv'
<1>1. TypeOK'
  BY DEF Connect, IInv, TypeOK, ChannelHoldsLast
<1>2. BeforeSignal' /\ ChannelHoldsLast'
  BY DEF Connect, IInv, TypeOK, BeforeSignal, ChannelHoldsLast
<1>3. BeforeServing' /\ PoolIsOpen' /\ ExitIsEnd'
  BY DEF Connect, IInv, TypeOK, BeforeSignal, BeforeServing, PoolIsOpen,
         ExitIsEnd
<1>4. ReturnedIsQuiet' /\ DoneIsCounted' /\ OnlyTheDeadlineCuts'
  BY DEF Connect, IInv, TypeOK, BeforeSignal, BeforeServing, ExitIsEnd,
         ReturnedIsQuiet, DoneIsCounted, OnlyTheDeadlineCuts
<1>5. ExitNamesFirstSignal' /\ ForcedByRepeat'
  BY DEF Connect, IInv, TypeOK, ExitIsEnd, ChannelHoldsLast,
         ExitNamesFirstSignal, ForcedByRepeat
<1> QED BY <1>1, <1>2, <1>3, <1>4, <1>5 DEF IInv

LEMMA PingFailsKeeps == ASSUME IInv, PingFails PROVE IInv'
<1>1. TypeOK'
  BY DEF PingFails, IInv, TypeOK, ChannelHoldsLast
<1>2. BeforeSignal' /\ ChannelHoldsLast'
  BY DEF PingFails, IInv, TypeOK, BeforeSignal, ChannelHoldsLast
<1>3. BeforeServing' /\ PoolIsOpen' /\ ExitIsEnd'
  BY DEF PingFails, IInv, TypeOK, BeforeSignal, BeforeServing, PoolIsOpen,
         ExitIsEnd
<1>4. ReturnedIsQuiet' /\ DoneIsCounted' /\ OnlyTheDeadlineCuts'
  BY DEF PingFails, IInv, TypeOK, BeforeSignal, BeforeServing, ExitIsEnd,
         ReturnedIsQuiet, DoneIsCounted, OnlyTheDeadlineCuts
<1>5. ExitNamesFirstSignal' /\ ForcedByRepeat'
  BY DEF PingFails, IInv, TypeOK, ExitIsEnd, ChannelHoldsLast,
         ExitNamesFirstSignal, ForcedByRepeat
<1> QED BY <1>1, <1>2, <1>3, <1>4, <1>5 DEF IInv

LEMMA ProceedKeeps == ASSUME IInv, Proceed PROVE IInv'
<1>1. TypeOK'
  <2>1. CASE main = "ping"
    BY <2>1 DEF Proceed, IInv, TypeOK
  <2>2. CASE main = "directory"
    BY <2>2 DEF Proceed, IInv, TypeOK
  <2>3. CASE main = "client"
    BY <2>3 DEF Proceed, IInv, TypeOK
  <2>4. CASE main = "listen"
    BY <2>4 DEF Proceed, IInv, TypeOK
  <2> QED BY <2>1, <2>2, <2>3, <2>4 DEF Proceed
<1>2. BeforeSignal' /\ ChannelHoldsLast'
  BY DEF Proceed, IInv, TypeOK, BeforeSignal, ChannelHoldsLast
<1>3. BeforeServing' /\ PoolIsOpen' /\ ExitIsEnd'
  <2>1. CASE main = "ping"
    BY <2>1 DEF Proceed, IInv, BeforeServing, PoolIsOpen, ExitIsEnd
  <2>2. CASE main = "directory"
    BY <2>2 DEF Proceed, IInv, BeforeServing, PoolIsOpen, ExitIsEnd
  <2>3. CASE main = "client"
    BY <2>3 DEF Proceed, IInv, BeforeServing, PoolIsOpen, ExitIsEnd
  <2>4. CASE main = "listen"
    BY <2>4 DEF Proceed, IInv, BeforeServing, PoolIsOpen, ExitIsEnd
  <2> QED BY <2>1, <2>2, <2>3, <2>4 DEF Proceed
<1>4. ReturnedIsQuiet' /\ DoneIsCounted' /\ OnlyTheDeadlineCuts'
  BY DEF Proceed, IInv, TypeOK, BeforeSignal, BeforeServing, ExitIsEnd,
         ReturnedIsQuiet, DoneIsCounted, OnlyTheDeadlineCuts
<1>5. ExitNamesFirstSignal' /\ ForcedByRepeat'
  BY DEF Proceed, IInv, TypeOK, ExitIsEnd, ChannelHoldsLast,
         ExitNamesFirstSignal, ForcedByRepeat
<1> QED BY <1>1, <1>2, <1>3, <1>4, <1>5 DEF IInv

LEMMA SetupFailsKeeps == ASSUME IInv, SetupFails PROVE IInv'
<1>1. TypeOK'
  BY DEF SetupFails, IInv, TypeOK, ChannelHoldsLast
<1>2. BeforeSignal' /\ ChannelHoldsLast'
  BY DEF SetupFails, IInv, TypeOK, BeforeSignal, ChannelHoldsLast
<1>3. BeforeServing' /\ PoolIsOpen' /\ ExitIsEnd'
  BY DEF SetupFails, IInv, TypeOK, BeforeSignal, BeforeServing, PoolIsOpen,
         ExitIsEnd
<1>4. ReturnedIsQuiet' /\ DoneIsCounted' /\ OnlyTheDeadlineCuts'
  BY DEF SetupFails, IInv, TypeOK, BeforeSignal, BeforeServing, ExitIsEnd,
         ReturnedIsQuiet, DoneIsCounted, OnlyTheDeadlineCuts
<1>5. ExitNamesFirstSignal' /\ ForcedByRepeat'
  BY DEF SetupFails, IInv, TypeOK, ExitIsEnd, ChannelHoldsLast,
         ExitNamesFirstSignal, ForcedByRepeat
<1> QED BY <1>1, <1>2, <1>3, <1>4, <1>5 DEF IInv

LEMMA ClientMissingKeeps == ASSUME IInv, ClientMissing PROVE IInv'
<1>1. TypeOK'
  BY DEF ClientMissing, IInv, TypeOK, ChannelHoldsLast
<1>2. BeforeSignal' /\ ChannelHoldsLast'
  BY DEF ClientMissing, IInv, TypeOK, BeforeSignal, ChannelHoldsLast
<1>3. BeforeServing' /\ PoolIsOpen' /\ ExitIsEnd'
  BY DEF ClientMissing, IInv, TypeOK, BeforeSignal, BeforeServing,
         PoolIsOpen, ExitIsEnd
<1>4. ReturnedIsQuiet' /\ DoneIsCounted' /\ OnlyTheDeadlineCuts'
  BY DEF ClientMissing, IInv, TypeOK, BeforeSignal, BeforeServing,
         ExitIsEnd, ReturnedIsQuiet, DoneIsCounted, OnlyTheDeadlineCuts
<1>5. ExitNamesFirstSignal' /\ ForcedByRepeat'
  BY DEF ClientMissing, IInv, TypeOK, ExitIsEnd, ChannelHoldsLast,
         ExitNamesFirstSignal, ForcedByRepeat
<1> QED BY <1>1, <1>2, <1>3, <1>4, <1>5 DEF IInv

LEMMA CheckTailscaleReadyKeeps == ASSUME IInv, CheckTailscaleReady PROVE IInv'
<1>1. TypeOK'
  BY DEF CheckTailscaleReady, IInv, TypeOK, ChannelHoldsLast
<1>2. BeforeSignal' /\ ChannelHoldsLast'
  BY DEF CheckTailscaleReady, IInv, TypeOK, BeforeSignal, ChannelHoldsLast
<1>3. BeforeServing' /\ PoolIsOpen' /\ ExitIsEnd'
  BY DEF CheckTailscaleReady, IInv, TypeOK, BeforeSignal, BeforeServing,
         PoolIsOpen, ExitIsEnd
<1>4. ReturnedIsQuiet' /\ DoneIsCounted' /\ OnlyTheDeadlineCuts'
  BY DEF CheckTailscaleReady, IInv, TypeOK, BeforeSignal, BeforeServing,
         ExitIsEnd, ReturnedIsQuiet, DoneIsCounted, OnlyTheDeadlineCuts
<1>5. ExitNamesFirstSignal' /\ ForcedByRepeat'
  BY DEF CheckTailscaleReady, IInv, TypeOK, ExitIsEnd, ChannelHoldsLast,
         ExitNamesFirstSignal, ForcedByRepeat
<1> QED BY <1>1, <1>2, <1>3, <1>4, <1>5 DEF IInv

LEMMA TailscaleNotReadyKeeps == ASSUME IInv, TailscaleNotReady PROVE IInv'
<1>1. TypeOK'
  BY DEF TailscaleNotReady, IInv, TypeOK, ChannelHoldsLast
<1>2. BeforeSignal' /\ ChannelHoldsLast'
  BY DEF TailscaleNotReady, IInv, TypeOK, BeforeSignal, ChannelHoldsLast
<1>3. BeforeServing' /\ PoolIsOpen' /\ ExitIsEnd'
  BY DEF TailscaleNotReady, IInv, TypeOK, BeforeSignal, BeforeServing,
         PoolIsOpen, ExitIsEnd
<1>4. ReturnedIsQuiet' /\ DoneIsCounted' /\ OnlyTheDeadlineCuts'
  BY DEF TailscaleNotReady, IInv, TypeOK, BeforeSignal, BeforeServing,
         ExitIsEnd, ReturnedIsQuiet, DoneIsCounted, OnlyTheDeadlineCuts
<1>5. ExitNamesFirstSignal' /\ ForcedByRepeat'
  BY DEF TailscaleNotReady, IInv, TypeOK, ExitIsEnd, ChannelHoldsLast,
         ExitNamesFirstSignal, ForcedByRepeat
<1> QED BY <1>1, <1>2, <1>3, <1>4, <1>5 DEF IInv

LEMMA StatusWithoutPeersKeeps == ASSUME IInv, StatusWithoutPeers PROVE IInv'
<1>1. TypeOK'
  BY DEF StatusWithoutPeers, IInv, TypeOK, ChannelHoldsLast
<1>2. BeforeSignal' /\ ChannelHoldsLast'
  BY DEF StatusWithoutPeers, IInv, TypeOK, BeforeSignal, ChannelHoldsLast
<1>3. BeforeServing' /\ PoolIsOpen' /\ ExitIsEnd'
  BY DEF StatusWithoutPeers, IInv, TypeOK, BeforeSignal, BeforeServing,
         PoolIsOpen, ExitIsEnd
<1>4. ReturnedIsQuiet' /\ DoneIsCounted' /\ OnlyTheDeadlineCuts'
  BY DEF StatusWithoutPeers, IInv, TypeOK, BeforeSignal, BeforeServing,
         ExitIsEnd, ReturnedIsQuiet, DoneIsCounted, OnlyTheDeadlineCuts
<1>5. ExitNamesFirstSignal' /\ ForcedByRepeat'
  BY DEF StatusWithoutPeers, IInv, TypeOK, ExitIsEnd, ChannelHoldsLast,
         ExitNamesFirstSignal, ForcedByRepeat
<1> QED BY <1>1, <1>2, <1>3, <1>4, <1>5 DEF IInv

LEMMA PeersMissingKeeps == ASSUME IInv, PeersMissing PROVE IInv'
<1>1. TypeOK'
  BY DEF PeersMissing, IInv, TypeOK, ChannelHoldsLast
<1>2. BeforeSignal' /\ ChannelHoldsLast'
  BY DEF PeersMissing, IInv, TypeOK, BeforeSignal, ChannelHoldsLast
<1>3. BeforeServing' /\ PoolIsOpen' /\ ExitIsEnd'
  BY DEF PeersMissing, IInv, TypeOK, BeforeSignal, BeforeServing,
         PoolIsOpen, ExitIsEnd
<1>4. ReturnedIsQuiet' /\ DoneIsCounted' /\ OnlyTheDeadlineCuts'
  BY DEF PeersMissing, IInv, TypeOK, BeforeSignal, BeforeServing, ExitIsEnd,
         ReturnedIsQuiet, DoneIsCounted, OnlyTheDeadlineCuts
<1>5. ExitNamesFirstSignal' /\ ForcedByRepeat'
  BY DEF PeersMissing, IInv, TypeOK, ExitIsEnd, ChannelHoldsLast,
         ExitNamesFirstSignal, ForcedByRepeat
<1> QED BY <1>1, <1>2, <1>3, <1>4, <1>5 DEF IInv

LEMMA StartPlainKeeps == ASSUME IInv, StartPlain PROVE IInv'
<1>1. TypeOK'
  BY DEF StartPlain, IInv, TypeOK, ChannelHoldsLast
<1>2. BeforeSignal' /\ ChannelHoldsLast'
  BY DEF StartPlain, IInv, TypeOK, BeforeSignal, ChannelHoldsLast
<1>3. BeforeServing' /\ PoolIsOpen' /\ ExitIsEnd'
  BY DEF StartPlain, IInv, TypeOK, BeforeSignal, BeforeServing, PoolIsOpen,
         ExitIsEnd
<1>4. ReturnedIsQuiet' /\ DoneIsCounted' /\ OnlyTheDeadlineCuts'
  BY DEF StartPlain, IInv, TypeOK, BeforeSignal, BeforeServing, ExitIsEnd,
         ReturnedIsQuiet, DoneIsCounted, OnlyTheDeadlineCuts
<1>5. ExitNamesFirstSignal' /\ ForcedByRepeat'
  BY DEF StartPlain, IInv, TypeOK, ExitIsEnd, ChannelHoldsLast,
         ExitNamesFirstSignal, ForcedByRepeat
<1> QED BY <1>1, <1>2, <1>3, <1>4, <1>5 DEF IInv

LEMMA StartTlsKeeps == ASSUME IInv, StartTls PROVE IInv'
<1>1. TypeOK'
  BY DEF StartTls, IInv, TypeOK, ChannelHoldsLast
<1>2. BeforeSignal' /\ ChannelHoldsLast'
  BY DEF StartTls, IInv, TypeOK, BeforeSignal, ChannelHoldsLast
<1>3. BeforeServing' /\ PoolIsOpen' /\ ExitIsEnd'
  BY DEF StartTls, IInv, TypeOK, BeforeSignal, BeforeServing, PoolIsOpen,
         ExitIsEnd
<1>4. ReturnedIsQuiet' /\ DoneIsCounted' /\ OnlyTheDeadlineCuts'
  BY DEF StartTls, IInv, TypeOK, BeforeSignal, BeforeServing, ExitIsEnd,
         ReturnedIsQuiet, DoneIsCounted, OnlyTheDeadlineCuts
<1>5. ExitNamesFirstSignal' /\ ForcedByRepeat'
  BY DEF StartTls, IInv, TypeOK, ExitIsEnd, ChannelHoldsLast,
         ExitNamesFirstSignal, ForcedByRepeat
<1> QED BY <1>1, <1>2, <1>3, <1>4, <1>5 DEF IInv

-----------------------------------------------------------------------------
(* Servers, requests and signals.                                          *)
LEMMA ServeKeeps == ASSUME NEW s \in Server, IInv, Serve(s) PROVE IInv'
<1>1. TypeOK'
  BY DEF Serve, IInv, TypeOK, ChannelHoldsLast
<1>2. BeforeSignal' /\ ChannelHoldsLast'
  BY DEF Serve, IInv, TypeOK, BeforeSignal, ChannelHoldsLast
<1>3. BeforeServing' /\ PoolIsOpen' /\ ExitIsEnd'
  BY DEF Serve, IInv, TypeOK, BeforeSignal, BeforeServing, PoolIsOpen,
         ExitIsEnd
<1>4. ReturnedIsQuiet' /\ DoneIsCounted' /\ OnlyTheDeadlineCuts'
  BY DEF Serve, IInv, TypeOK, BeforeSignal, BeforeServing, ExitIsEnd,
         ReturnedIsQuiet, DoneIsCounted, OnlyTheDeadlineCuts
<1>5. ExitNamesFirstSignal' /\ ForcedByRepeat'
  BY DEF Serve, IInv, TypeOK, ExitIsEnd, ChannelHoldsLast,
         ExitNamesFirstSignal, ForcedByRepeat
<1> QED BY <1>1, <1>2, <1>3, <1>4, <1>5 DEF IInv

LEMMA ServeFailsKeeps == ASSUME NEW s \in Server, IInv, ServeFails(s) PROVE IInv'
<1>1. TypeOK'
  BY DEF ServeFails, IInv, TypeOK, ChannelHoldsLast
<1>2. BeforeSignal' /\ ChannelHoldsLast'
  BY DEF ServeFails, IInv, TypeOK, BeforeSignal, ChannelHoldsLast
<1>3. BeforeServing' /\ PoolIsOpen' /\ ExitIsEnd'
  BY DEF ServeFails, IInv, TypeOK, BeforeSignal, BeforeServing, PoolIsOpen,
         ExitIsEnd
<1>4. ReturnedIsQuiet' /\ DoneIsCounted' /\ OnlyTheDeadlineCuts'
  BY DEF ServeFails, IInv, TypeOK, BeforeSignal, BeforeServing, ExitIsEnd,
         ReturnedIsQuiet, DoneIsCounted, OnlyTheDeadlineCuts
<1>5. ExitNamesFirstSignal' /\ ForcedByRepeat'
  BY DEF ServeFails, IInv, TypeOK, ExitIsEnd, ChannelHoldsLast,
         ExitNamesFirstSignal, ForcedByRepeat
<1> QED BY <1>1, <1>2, <1>3, <1>4, <1>5 DEF IInv

LEMMA AcceptKeeps == ASSUME NEW r \in Request, IInv, Accept(r) PROVE IInv'
<1>1. TypeOK'
  BY DEF Accept, IInv, TypeOK, ChannelHoldsLast
<1>2. BeforeSignal' /\ ChannelHoldsLast'
  BY DEF Accept, IInv, TypeOK, BeforeSignal, ChannelHoldsLast
<1>3. BeforeServing' /\ PoolIsOpen' /\ ExitIsEnd'
  BY DEF Accept, IInv, TypeOK, BeforeSignal, BeforeServing, PoolIsOpen,
         ExitIsEnd
<1>4. ReturnedIsQuiet' /\ DoneIsCounted' /\ OnlyTheDeadlineCuts'
  BY DEF Accept, IInv, TypeOK, BeforeSignal, BeforeServing, ExitIsEnd,
         ReturnedIsQuiet, DoneIsCounted, OnlyTheDeadlineCuts
<1>5. ExitNamesFirstSignal' /\ ForcedByRepeat'
  BY DEF Accept, IInv, TypeOK, ExitIsEnd, ChannelHoldsLast,
         ExitNamesFirstSignal, ForcedByRepeat
<1> QED BY <1>1, <1>2, <1>3, <1>4, <1>5 DEF IInv

LEMMA FinishKeeps == ASSUME NEW r \in Request, IInv, Finish(r) PROVE IInv'
<1>1. TypeOK'
  BY DEF Finish, IInv, TypeOK, ChannelHoldsLast
<1>2. BeforeSignal' /\ ChannelHoldsLast'
  BY DEF Finish, IInv, TypeOK, BeforeSignal, ChannelHoldsLast
<1>3. BeforeServing' /\ PoolIsOpen' /\ ExitIsEnd'
  BY DEF Finish, IInv, TypeOK, BeforeSignal, BeforeServing, PoolIsOpen,
         ExitIsEnd
<1>4. ReturnedIsQuiet' /\ DoneIsCounted' /\ OnlyTheDeadlineCuts'
  BY DEF Finish, IInv, TypeOK, BeforeSignal, BeforeServing, ExitIsEnd,
         ReturnedIsQuiet, DoneIsCounted, OnlyTheDeadlineCuts
<1>5. ExitNamesFirstSignal' /\ ForcedByRepeat'
  BY DEF Finish, IInv, TypeOK, ExitIsEnd, ChannelHoldsLast,
         ExitNamesFirstSignal, ForcedByRepeat
<1> QED BY <1>1, <1>2, <1>3, <1>4, <1>5 DEF IInv

LEMMA KilledBySignalKeeps == ASSUME IInv, KilledBySignal PROVE IInv'
<1>1. TypeOK'
  BY DEF KilledBySignal, IInv, TypeOK, ChannelHoldsLast
<1>2. BeforeSignal' /\ ChannelHoldsLast'
  BY DEF KilledBySignal, IInv, TypeOK, BeforeSignal, ChannelHoldsLast
<1>3. BeforeServing' /\ PoolIsOpen' /\ ExitIsEnd'
  BY DEF KilledBySignal, IInv, TypeOK, BeforeSignal, BeforeServing,
         PoolIsOpen, ExitIsEnd
<1>4. ReturnedIsQuiet' /\ DoneIsCounted' /\ OnlyTheDeadlineCuts'
  BY DEF KilledBySignal, IInv, TypeOK, BeforeSignal, BeforeServing,
         ExitIsEnd, ReturnedIsQuiet, DoneIsCounted, OnlyTheDeadlineCuts
<1>5. ExitNamesFirstSignal' /\ ForcedByRepeat'
  BY DEF KilledBySignal, IInv, TypeOK, ExitIsEnd, ChannelHoldsLast,
         ExitNamesFirstSignal, ForcedByRepeat
<1> QED BY <1>1, <1>2, <1>3, <1>4, <1>5 DEF IInv

LEMMA CatchKeeps == ASSUME IInv, Catch PROVE IInv'
<1>1. TypeOK'
  BY DEF Catch, IInv, TypeOK, ChannelHoldsLast
<1>2. BeforeSignal' /\ ChannelHoldsLast'
  <2>1. PICK n \in Signal : sigChan' = <<n>> /\ caught' = Append(caught, n)
    BY DEF Catch
  <2>2. caught \in Seq(Signal) /\ sigChan = <<>>
    BY DEF Catch, IInv, TypeOK
  <2>3. /\ Len(sigChan') = 1 /\ Head(sigChan') = n /\ sigChan' # <<>>
        /\ caught' # <<>> /\ caught'[Len(caught')] = n
        /\ Len(caught') = Len(caught) + 1
        /\ caught # <<>> => Head(caught') = Head(caught) /\ Len(caught) >= 1
    BY <2>1, <2>2
  <2>4. BeforeSignal'
    BY <2>1, <2>2 DEF Catch, IInv, BeforeSignal
  <2>5. ChannelHoldsLast'
    BY <2>3, <2>2 DEF Catch, IInv, ChannelHoldsLast
  <2> QED BY <2>4, <2>5
<1>3. BeforeServing' /\ PoolIsOpen' /\ ExitIsEnd'
  BY DEF Catch, IInv, TypeOK, BeforeSignal, BeforeServing, PoolIsOpen,
         ExitIsEnd
<1>4. ReturnedIsQuiet' /\ DoneIsCounted' /\ OnlyTheDeadlineCuts'
  BY DEF Catch, IInv, TypeOK, BeforeSignal, BeforeServing, ExitIsEnd,
         ReturnedIsQuiet, DoneIsCounted, OnlyTheDeadlineCuts
<1>5. ExitNamesFirstSignal' /\ ForcedByRepeat'
  BY DEF Catch, IInv, TypeOK, ExitIsEnd, ChannelHoldsLast,
         ExitNamesFirstSignal, ForcedByRepeat
<1> QED BY <1>1, <1>2, <1>3, <1>4, <1>5 DEF IInv

-----------------------------------------------------------------------------
(* waitForShutdown.                                                        *)
LEMMA ReceiveSignalKeeps == ASSUME IInv, ReceiveSignal PROVE IInv'
<1>1. TypeOK'
  BY DEF ReceiveSignal, IInv, TypeOK, ChannelHoldsLast
<1>2. BeforeSignal' /\ ChannelHoldsLast'
  BY DEF ReceiveSignal, IInv, TypeOK, BeforeSignal, ChannelHoldsLast
<1>3. BeforeServing' /\ PoolIsOpen' /\ ExitIsEnd'
  BY DEF ReceiveSignal, IInv, TypeOK, BeforeSignal, BeforeServing,
         PoolIsOpen, ExitIsEnd
<1>4. ReturnedIsQuiet' /\ DoneIsCounted' /\ OnlyTheDeadlineCuts'
  BY DEF ReceiveSignal, IInv, TypeOK, BeforeSignal, BeforeServing,
         ExitIsEnd, ReturnedIsQuiet, DoneIsCounted, OnlyTheDeadlineCuts
<1>5. ExitNamesFirstSignal' /\ ForcedByRepeat'
  BY DEF ReceiveSignal, IInv, TypeOK, ExitIsEnd, ChannelHoldsLast,
         ExitNamesFirstSignal, ForcedByRepeat
<1> QED BY <1>1, <1>2, <1>3, <1>4, <1>5 DEF IInv

LEMMA CloseListenerKeeps == ASSUME NEW s \in Server, IInv, CloseListener(s) PROVE IInv'
<1>1. TypeOK'
  BY DEF CloseListener, IInv, TypeOK, ChannelHoldsLast
<1>2. BeforeSignal' /\ ChannelHoldsLast'
  BY DEF CloseListener, IInv, TypeOK, BeforeSignal, ChannelHoldsLast
<1>3. BeforeServing' /\ PoolIsOpen' /\ ExitIsEnd'
  BY DEF CloseListener, IInv, TypeOK, BeforeSignal, BeforeServing,
         PoolIsOpen, ExitIsEnd
<1>4. ReturnedIsQuiet' /\ DoneIsCounted' /\ OnlyTheDeadlineCuts'
  BY DEF CloseListener, IInv, TypeOK, BeforeSignal, BeforeServing,
         ExitIsEnd, ReturnedIsQuiet, DoneIsCounted, OnlyTheDeadlineCuts
<1>5. ExitNamesFirstSignal' /\ ForcedByRepeat'
  BY DEF CloseListener, IInv, TypeOK, ExitIsEnd, ChannelHoldsLast,
         ExitNamesFirstSignal, ForcedByRepeat
<1> QED BY <1>1, <1>2, <1>3, <1>4, <1>5 DEF IInv

LEMMA ShutdownReturnsKeeps == ASSUME NEW s \in Server, IInv, ShutdownReturns(s) PROVE IInv'
<1>1. TypeOK'
  BY DEF ShutdownReturns, IInv, TypeOK, ChannelHoldsLast
<1>2. BeforeSignal' /\ ChannelHoldsLast'
  BY DEF ShutdownReturns, IInv, TypeOK, BeforeSignal, ChannelHoldsLast
<1>3. BeforeServing' /\ PoolIsOpen' /\ ExitIsEnd'
  BY DEF ShutdownReturns, IInv, TypeOK, BeforeSignal, BeforeServing,
         PoolIsOpen, ExitIsEnd
<1>4. ReturnedIsQuiet' /\ DoneIsCounted' /\ OnlyTheDeadlineCuts'
  BY DEF ShutdownReturns, IInv, TypeOK, BeforeSignal, BeforeServing,
         ExitIsEnd, ReturnedIsQuiet, DoneIsCounted, OnlyTheDeadlineCuts
<1>5. ExitNamesFirstSignal' /\ ForcedByRepeat'
  BY DEF ShutdownReturns, IInv, TypeOK, ExitIsEnd, ChannelHoldsLast,
         ExitNamesFirstSignal, ForcedByRepeat
<1> QED BY <1>1, <1>2, <1>3, <1>4, <1>5 DEF IInv

LEMMA ExpireKeeps == ASSUME IInv, Expire PROVE IInv'
<1>1. TypeOK'
  BY DEF Expire, IInv, TypeOK, ChannelHoldsLast
<1>2. BeforeSignal' /\ ChannelHoldsLast'
  BY DEF Expire, IInv, TypeOK, BeforeSignal, ChannelHoldsLast
<1>3. BeforeServing' /\ PoolIsOpen' /\ ExitIsEnd'
  BY DEF Expire, IInv, TypeOK, BeforeSignal, BeforeServing, PoolIsOpen,
         ExitIsEnd
<1>4. ReturnedIsQuiet' /\ DoneIsCounted' /\ OnlyTheDeadlineCuts'
  BY DEF Expire, IInv, TypeOK, BeforeSignal, BeforeServing, ExitIsEnd,
         ReturnedIsQuiet, DoneIsCounted, OnlyTheDeadlineCuts
<1>5. ExitNamesFirstSignal' /\ ForcedByRepeat'
  BY DEF Expire, IInv, TypeOK, ExitIsEnd, ChannelHoldsLast,
         ExitNamesFirstSignal, ForcedByRepeat
<1> QED BY <1>1, <1>2, <1>3, <1>4, <1>5 DEF IInv

LEMMA ReceiveDoneKeeps == ASSUME IInv, ReceiveDone PROVE IInv'
<1>1. TypeOK'
  <2>1. CASE Enough(serversShutdown + 1)
    <3>1. OsExit("drained", 128 + Number[sig])
      BY <2>1 DEF ReceiveDone
    <3>2. 128 + Number[sig] \in Nat
      BY DEF ReceiveDone, IInv, TypeOK, ChannelHoldsLast
    <3>3. main' = "exited" /\ pool' = pool
          /\ exit' = [how |-> "drained", code |-> 128 + Number[sig]]
          /\ request' = [r \in Request |-> IF request[r].at = "active"
                                   THEN Moved(r, "cut")
                                   ELSE request[r]]
      BY <3>1
    <3>4. request' \in [Request -> {Idle} \cup RequestState]
      <4>1. ASSUME NEW r \in Request, request[r].at = "active"
            PROVE  Moved(r, "cut") \in RequestState
        <5>1. request[r] \in RequestState
          BY <4>1 DEF IInv, TypeOK
        <5> QED BY <5>1
      <4>2. request \in [Request -> {Idle} \cup RequestState]
        BY DEF IInv, TypeOK
      <4> QED BY <3>3, <4>1, <4>2
    <3>5. exit' \in [how : {"running", "panicked", "failed", "killed",
                         "drained", "timeout", "forced"}, code : Nat]
      BY <3>2, <3>3
    <3>6. serversDone' \in Nat /\ serversShutdown' \in Nat
      BY DEF ReceiveDone, IInv, TypeOK
    <3> QED BY <3>3, <3>4, <3>5, <3>6 DEF ReceiveDone, IInv, TypeOK
  <2>2. CASE ~Enough(serversShutdown + 1)
    BY <2>2 DEF ReceiveDone, IInv, TypeOK
  <2> QED BY <2>1, <2>2
<1>2. BeforeSignal' /\ ChannelHoldsLast'
  BY DEF ReceiveDone, IInv, TypeOK, BeforeSignal, ChannelHoldsLast
<1>3. BeforeServing' /\ PoolIsOpen' /\ ExitIsEnd'
  <2>1. CASE Enough(serversShutdown + 1)
    BY <2>1 DEF ReceiveDone, IInv, TypeOK, BeforeServing, PoolIsOpen,
                ExitIsEnd
  <2>2. CASE ~Enough(serversShutdown + 1)
    BY <2>2 DEF ReceiveDone, IInv, BeforeServing, PoolIsOpen, ExitIsEnd
  <2> QED BY <2>1, <2>2
<1>4. ReturnedIsQuiet' /\ DoneIsCounted' /\ OnlyTheDeadlineCuts'
  <2>1. /\ serversDone \in Nat /\ serversShutdown \in Nat
        /\ serversDone > 0 /\ main = "select"
        /\ serversDone + serversShutdown = Returned("http")
                                              + Returned("https")
    BY DEF ReceiveDone, IInv, TypeOK, DoneIsCounted
  <2>2. DoneIsCounted'
    BY <2>1 DEF ReceiveDone, DoneIsCounted
  <2>3. CASE Enough(serversShutdown + 1)
    <3>1. shutter["http"] = "returned" /\ shutter["https"] = "returned"
      BY <2>1, <2>3
    <3>2. ASSUME ~expired, NEW r \in Request
          PROVE  request[r].at # "active"
      <4>1. request[r] \in {Idle} \cup RequestState
        BY DEF IInv, TypeOK
      <4>2. \A s \in Server : Active(s) = {}
        BY <3>1, <3>2 DEF IInv, ReturnedIsQuiet
      <4> QED BY <4>1, <4>2
    <3>3. OsExit("drained", 128 + Number[sig])
      BY <2>3 DEF ReceiveDone
    <3>4. /\ UNCHANGED <<shutter, server, expired>>
          /\ request' = [r \in Request |-> IF request[r].at = "active"
                                   THEN Moved(r, "cut")
                                   ELSE request[r]]
      BY <3>3 DEF ReceiveDone
    <3>5. OnlyTheDeadlineCuts'
      <4>1. CASE expired
        BY <4>1, <3>4 DEF OnlyTheDeadlineCuts
      <4>2. CASE ~expired
        <5>1. request' = request
          BY <3>2, <3>4, <4>2 DEF IInv, TypeOK
        <5>2. \A r \in Request : request[r].at # "cut"
          BY <2>1, <4>2 DEF IInv, OnlyTheDeadlineCuts, ExitIsEnd
        <5> QED BY <5>1, <5>2 DEF OnlyTheDeadlineCuts
      <4> QED BY <4>1, <4>2
    <3>6. ReturnedIsQuiet'
      BY <3>4 DEF IInv, TypeOK, ReturnedIsQuiet
    <3> QED BY <2>2, <3>5, <3>6
  <2>4. CASE ~Enough(serversShutdown + 1)
    BY <2>2, <2>4 DEF ReceiveDone, IInv, ReturnedIsQuiet,
                      OnlyTheDeadlineCuts
  <2> QED BY <2>3, <2>4
<1>5. ExitNamesFirstSignal' /\ ForcedByRepeat'
  BY DEF ReceiveDone, IInv, TypeOK, ExitIsEnd, ChannelHoldsLast,
         ExitNamesFirstSignal, ForcedByRepeat
<1> QED BY <1>1, <1>2, <1>3, <1>4, <1>5 DEF IInv

LEMMA TimeoutReachedKeeps == ASSUME IInv, TimeoutReached PROVE IInv'
<1>1. TypeOK'
  BY DEF TimeoutReached, IInv, TypeOK, ChannelHoldsLast
<1>2. BeforeSignal' /\ ChannelHoldsLast'
  BY DEF TimeoutReached, IInv, TypeOK, BeforeSignal, ChannelHoldsLast
<1>3. BeforeServing' /\ PoolIsOpen' /\ ExitIsEnd'
  BY DEF TimeoutReached, IInv, TypeOK, BeforeSignal, BeforeServing,
         PoolIsOpen, ExitIsEnd
<1>4. ReturnedIsQuiet' /\ DoneIsCounted' /\ OnlyTheDeadlineCuts'
  BY DEF TimeoutReached, IInv, TypeOK, BeforeSignal, BeforeServing,
         ExitIsEnd, ReturnedIsQuiet, DoneIsCounted, OnlyTheDeadlineCuts
<1>5. ExitNamesFirstSignal' /\ ForcedByRepeat'
  BY DEF TimeoutReached, IInv, TypeOK, ExitIsEnd, ChannelHoldsLast,
         ExitNamesFirstSignal, ForcedByRepeat
<1> QED BY <1>1, <1>2, <1>3, <1>4, <1>5 DEF IInv

LEMMA ReceiveAgainKeeps == ASSUME IInv, ReceiveAgain PROVE IInv'
<1>1. TypeOK'
  BY DEF ReceiveAgain, IInv, TypeOK, ChannelHoldsLast
<1>2. BeforeSignal' /\ ChannelHoldsLast'
  <2>1. CASE Head(sigChan) \in Forcing
    BY <2>1 DEF ReceiveAgain, IInv, TypeOK, BeforeSignal, ChannelHoldsLast
  <2>2. CASE Head(sigChan) \notin Forcing
    BY <2>2 DEF ReceiveAgain, IInv, TypeOK, BeforeSignal, ChannelHoldsLast
  <2> QED BY <2>1, <2>2
<1>3. BeforeServing' /\ PoolIsOpen' /\ ExitIsEnd'
  BY DEF ReceiveAgain, IInv, TypeOK, BeforeSignal, BeforeServing,
         PoolIsOpen, ExitIsEnd
<1>4. ReturnedIsQuiet' /\ DoneIsCounted' /\ OnlyTheDeadlineCuts'
  <2>1. CASE Head(sigChan) \in Forcing
    BY <2>1 DEF ReceiveAgain, IInv, TypeOK, BeforeSignal, BeforeServing,
                ExitIsEnd, ReturnedIsQuiet, DoneIsCounted,
                OnlyTheDeadlineCuts
  <2>2. CASE Head(sigChan) \notin Forcing
    BY <2>2 DEF ReceiveAgain, IInv, TypeOK, BeforeSignal, BeforeServing,
                ExitIsEnd, ReturnedIsQuiet, DoneIsCounted,
                OnlyTheDeadlineCuts
  <2> QED BY <2>1, <2>2
<1>5. ExitNamesFirstSignal' /\ ForcedByRepeat'
  BY DEF ReceiveAgain, IInv, TypeOK, ExitIsEnd, ChannelHoldsLast,
         ExitNamesFirstSignal, ForcedByRepeat
<1> QED BY <1>1, <1>2, <1>3, <1>4, <1>5 DEF IInv

-----------------------------------------------------------------------------
(* Specification.                                                          *)
LEMMA InitIInv == Init => IInv
<1> SUFFICES ASSUME Init PROVE IInv
  OBVIOUS
<1>1. caught = <<>> /\ sigChan = <<>> /\ Len(sigChan) = 0
  BY DEF Init
<1>2. TypeOK
  <2>1. main \in Main
    <3>1. Startup[1] = "telemetry" /\ 1 \in DOMAIN Startup
      OBVIOUS
    <3> QED BY <3>1 DEF Init
  <2>2. sigChan \in Seq(Signal) /\ caught \in Seq(Signal)
    BY <1>1
  <2>3. exit \in [how : {"running", "panicked", "failed", "killed", "drained",
                      "timeout", "forced"}, code : Nat]
    BY DEF Init
  <2>4. request \in [Request -> {Idle} \cup RequestState]
    BY DEF Init
  <2>5. /\ server \in [Server -> {"off", "started", "serving", "failed",
                                "closed"}]
        /\ shutter \in [Server -> {"none", "begun", "waiting", "returned"}]
    BY DEF Init
  <2>6. expired \in BOOLEAN
    BY Zenon DEF Init
  <2>7. /\ attempt \in 0 .. Attempts /\ serversDone \in Nat
        /\ serversShutdown \in Nat
    BY DEF Init
  <2>8. status \in Waiting \cup {Unasked} /\ sig \in Signal \cup {NoSignal}
    BY DEF Init
  <2>9. pool \in {"none", "open", "closed"}
    BY DEF Init
  <2> HIDE DEF Main, Startup, Signal, NoSignal, Server, Idle, RequestState,
               Waiting, Unasked, Attempts
  <2> QED BY <2>1, <2>2, <2>3, <2>4, <2>5, <2>6, <2>7, <2>8, <2>9
       DEF TypeOK
<1>3. BeforeSignal /\ BeforeServing /\ PoolIsOpen /\ ExitIsEnd
  BY DEF Init, BeforeSignal, BeforeServing, PoolIsOpen, ExitIsEnd
<1>4. ChannelHoldsLast /\ ReturnedIsQuiet /\ DoneIsCounted
  BY <1>1 DEF Init, ChannelHoldsLast, ReturnedIsQuiet, DoneIsCounted
<1>5. OnlyTheDeadlineCuts /\ ExitNamesFirstSignal /\ ForcedByRepeat
  BY DEF Init, OnlyTheDeadlineCuts, ExitNamesFirstSignal, ForcedByRepeat
<1> QED BY <1>2, <1>3, <1>4, <1>5 DEF IInv

LEMMA StutterKeeps == ASSUME IInv, UNCHANGED vars PROVE IInv'
  BY DEF vars, IInv, TypeOK, BeforeSignal, BeforeServing, PoolIsOpen,
         ExitIsEnd, ChannelHoldsLast, ReturnedIsQuiet, DoneIsCounted,
         OnlyTheDeadlineCuts, ExitNamesFirstSignal, ForcedByRepeat

LEMMA StartKeeps == ASSUME IInv, Start PROVE IInv'
  BY SetupTelemetryKeeps, TelemetryMissingKeeps, DatabaseMissingKeeps,
     ConnectFailsKeeps, ConnectKeeps, PingFailsKeeps, ProceedKeeps,
     SetupFailsKeeps, ClientMissingKeeps, CheckTailscaleReadyKeeps,
     TailscaleNotReadyKeeps, StatusWithoutPeersKeeps, PeersMissingKeeps,
     StartPlainKeeps, StartTlsKeeps, Zenon DEF Start

LEMMA NextKeeps == ASSUME IInv, Next PROVE IInv'
  BY StartKeeps, KilledBySignalKeeps, CatchKeeps, ServeKeeps,
     ServeFailsKeeps, CloseListenerKeeps, ShutdownReturnsKeeps, AcceptKeeps,
     FinishKeeps, ReceiveSignalKeeps, ExpireKeeps, ReceiveDoneKeeps,
     TimeoutReachedKeeps, ReceiveAgainKeeps, Zenon DEF Next

(* The inductive invariant holds in every state of the process.            *)
THEOREM ShutdownInvariant == Spec => []IInv
<1>1. IInv /\ [Next]_vars => IInv'
  BY NextKeeps, StutterKeeps, Zenon
<1> QED BY InitIInv, <1>1, PTL DEF Spec

(* Every variable of Shutdown has its type.                                *)
THEOREM ShutdownTypes == Spec => []TypeOK
<1>1. IInv => TypeOK
  BY DEF IInv
<1> QED BY ShutdownInvariant, <1>1, PTL

(* waitForShutdown cuts a request off only at its deadline or when a       *)
(* second SIGTERM or SIGQUIT forces it to: startup, a failed server and a  *)
(* shutdown in time never do, whatever the number of requests.             *)
THEOREM RequestsAreLetFinish == Spec => []OnlyTheDeadlineCuts
<1>1. IInv => OnlyTheDeadlineCuts
  BY DEF IInv
<1> QED BY ShutdownInvariant, <1>1, PTL

(* While a handler runs, main is past startup and before its exit, so the  *)
(* pool is open.                                                           *)
THEOREM PoolIsThere == Spec => []PoolOutlivesRequests
<1>1. IInv => PoolOutlivesRequests
  BY DEF IInv, BeforeServing, PoolIsOpen, PoolOutlivesRequests
<1> QED BY ShutdownInvariant, <1>1, PTL

(* The exit code of a shutdown that was not forced is 128 and the number   *)
(* of the first signal that was caught.                                    *)
THEOREM ExitCode == Spec => []ExitNamesFirstSignal
<1>1. IInv => ExitNamesFirstSignal
  BY DEF IInv
<1> QED BY ShutdownInvariant, <1>1, PTL

(* The exit is forced only by a SIGTERM or SIGQUIT that was not the first  *)
(* signal.                                                                 *)
THEOREM ForcedExit == Spec => []ForcedByRepeat
<1>1. IInv => ForcedByRepeat
  BY DEF IInv
<1> QED BY ShutdownInvariant, <1>1, PTL

=============================================================================

---------------------------- MODULE TransmuxTiming ----------------------------
(***************************************************************************)
(* The clocks of transmuxLoop (relay/manager.go): how long ffmpeg has run, *)
(* the failure window that disables a channel, and the back-off between    *)
(* two starts.  RelayWorkers lets a loop give up, or try again, whenever   *)
(* it likes; here its steps keep the times that decide.                    *)
(*                                                                         *)
(* Time is counted in units.  It passes only while every loop runs ffmpeg  *)
(* or sleeps: statements and process starts are short.                     *)
(***************************************************************************)
EXTENDS RelayWorkers

CONSTANTS
  Healthy,            \* a run of more units than this was healthy (30 s)
  SourceErrorAfter,   \* cfg.SourceErrorAfterSecs (300 s); 0 turns it off
  FirstBackoff,       \* a second
  MaxBackoff,         \* 30 s
  Horizon,            \* bound: times beyond it are not told apart
  NoTime              \* the zero time.Time

ASSUME TimingAssumption ==
  /\ {Healthy, SourceErrorAfter, FirstBackoff, MaxBackoff, Horizon} \subseteq Nat
  /\ 0 < FirstBackoff /\ FirstBackoff <= MaxBackoff
  /\ Healthy < Horizon /\ SourceErrorAfter < Horizon
  /\ NoTime \notin Nat

VARIABLES
  ran,        \* time since ffmpegStartedAt; NoTime if the start failed
  window,     \* time since firstFailureAt
  backoff,    \* backoff
  rest,       \* what is left of the sleep
  broken      \* history: time since the loop began or a healthy ffmpeg exited

clocks == <<ran, window, backoff, rest, broken>>
timedVars == <<vars, clocks>>

Time == 0..Horizon

TimingTypeOK ==
  /\ ran \in [Handles -> Time \cup {NoTime}]
  /\ window \in [Handles -> Time \cup {NoTime}]
  /\ backoff \in [Handles -> FirstBackoff..MaxBackoff]
  /\ rest \in [Handles -> 0..MaxBackoff]
  /\ broken \in [Handles -> Time]

TimedInit ==
  /\ Init
  /\ ran = [h \in Handles |-> NoTime]
  /\ window = [h \in Handles |-> NoTime]
  /\ backoff = [h \in Handles |-> FirstBackoff]
  /\ rest = [h \in Handles |-> 0]
  /\ broken = [h \in Handles |-> 0]

-----------------------------------------------------------------------------
\* The variables of the loop, when transmuxLoop reaches `for`.
EnterLoop(h) ==
  /\ MkdirOk(h)
  /\ ran' = [ran EXCEPT ![h] = NoTime]
  /\ window' = [window EXCEPT ![h] = NoTime]
  /\ backoff' = [backoff EXCEPT ![h] = FirstBackoff]
  /\ rest' = [rest EXCEPT ![h] = 0]
  /\ broken' = [broken EXCEPT ![h] = 0]

\* cmd.Start fails.
NoFfmpeg(h) ==
  /\ SpawnFail(h)
  /\ ran' = [ran EXCEPT ![h] = NoTime]
  /\ UNCHANGED <<window, backoff, rest, broken>>

\* ffmpeg has started: whatever happened before, the next sleep is a second.
Started(h) ==
  /\ MarkSpawned(h)
  /\ ran' = [ran EXCEPT ![h] = 0]
  /\ backoff' = [backoff EXCEPT ![h] = FirstBackoff]
  /\ UNCHANGED <<window, rest, broken>>

WasHealthy(h) == ran[h] # NoTime /\ ran[h] > Healthy

\* Mutant: every failure opens the window anew.
WindowOfLastFailure(h) ==
  IF WasHealthy(h) THEN NoTime ELSE IF ran[h] = NoTime THEN 0 ELSE ran[h]

\* Mutant: a healthy run does not close it.
WindowNeverClosed(h) ==
  IF window[h] # NoTime THEN window[h] ELSE IF ran[h] = NoTime THEN 0 ELSE ran[h]

\* firstFailureAt after a failure: unset after a healthy run, else the start of the
\* first run that was not, or the moment of the first failed start.
WindowAfterFailure(h) ==
  IF WasHealthy(h) THEN NoTime
  ELSE IF window[h] # NoTime THEN window[h]
  ELSE IF ran[h] = NoTime THEN 0 ELSE ran[h]

Failed(h) ==
  /\ MarkDown(h)
  /\ window' = [window EXCEPT ![h] = WindowAfterFailure(h)]
  /\ broken' = [broken EXCEPT ![h] = IF WasHealthy(h) THEN 0 ELSE @]
  /\ UNCHANGED <<ran, backoff, rest>>

FailingTooLong(h) ==
  SourceErrorAfter > 0 /\ window[h] # NoTime /\ window[h] > SourceErrorAfter

GiveUp(h) == FailingTooLong(h) /\ AutoDisable(h) /\ UNCHANGED clocks

Sleep(h) ==
  /\ ~FailingTooLong(h)
  /\ Backoff(h)
  /\ rest' = [rest EXCEPT ![h] = backoff[h]]
  /\ UNCHANGED <<ran, window, backoff, broken>>

nextBackoff(b) == IF 2 * b > MaxBackoff THEN MaxBackoff ELSE 2 * b

WakeUp(h) ==
  /\ rest[h] = 0
  /\ Retry(h)
  /\ backoff' = [backoff EXCEPT ![h] = nextBackoff(@)]
  /\ UNCHANGED <<ran, window, rest, broken>>

Asleep(h) == pc[h] = "backoff" /\ rest[h] > 0 /\ ~Done(h)
Running(h) == pc[h] = "ffmpeg" /\ ~Done(h)

Later(t) == IF t = NoTime \/ t = Horizon THEN t ELSE t + 1

Tick ==
  /\ \A h \in Handles : pc[h] = "idle" \/ Asleep(h) \/ Running(h)
  /\ ran' = [h \in Handles |-> IF Running(h) THEN Later(ran[h]) ELSE ran[h]]
  /\ window' = [h \in Handles |-> IF pc[h] = "idle" THEN window[h] ELSE Later(window[h])]
  /\ rest' = [h \in Handles |-> IF Asleep(h) THEN rest[h] - 1 ELSE rest[h]]
  /\ broken' = [h \in Handles |-> IF pc[h] = "idle" THEN broken[h] ELSE Later(broken[h])]
  /\ UNCHANGED <<vars, backoff>>

\* The steps of RelayWorkers that no clock decides.
Untimed(h) ==
  /\ \/ Launch(h) \/ MkdirFail(h) \/ LeaveTop(h) \/ PassTop(h) \/ SpawnOk(h)
     \/ FfmpegKilled(h) \/ LeaveBackoff(h) \/ Deferred(h)
  /\ UNCHANGED clocks

LoopStep(h) ==
  \/ EnterLoop(h) \/ NoFfmpeg(h) \/ Started(h) \/ Failed(h) \/ GiveUp(h) \/ Sleep(h)
  \/ WakeUp(h) \/ Untimed(h)

TimedNext ==
  \/ \E h \in Handles : LoopStep(h) \/ (FfmpegExit(h) /\ UNCHANGED clocks)
  \/ /\ \/ \E c \in Channels, k \in Configs, h \in Handles : StartWorker(c, status[c], k, FALSE, h)
        \/ \E c \in Channels : StopWorker(c)
     /\ UNCHANGED clocks
  \/ Tick

\* Timers fire and ffmpeg is killed when its context is done; ffmpeg need not exit.
TimedSpec == TimedInit /\ [][TimedNext]_timedVars /\ WF_timedVars(Tick)
               /\ \A h \in Handles : WF_timedVars(LoopStep(h))

-----------------------------------------------------------------------------
\* manager.go:922-923, "auto-disable a channel whose upstream is broken": a loop whose
\* ffmpeg never stays up for more than Healthy is given up within the window, the run
\* and the sleeps at its two ends, however starts that fail and runs that end mix.
BrokenIsDisabled ==
  SourceErrorAfter > 0 =>
    \A h \in Handles :
      pc[h] \in TransmuxSteps /\ ~WasHealthy(h) =>
        broken[h] <= FirstBackoff + SourceErrorAfter + MaxBackoff + Healthy

\* manager.go:1043-1044, "so transient blips don't trigger auto-disable": only a loop
\* gives up that has had no healthy run for longer than the window.
BlipsAreForgiven ==
  [][\A h \in Handles :
       pc[h] = "exited" /\ pc'[h] = "release" => broken[h] > SourceErrorAfter]_timedVars

\* A worker of either kind that is stopped ends; so does a loop that sleeps.
StoppedLoopEnds == \A h \in Handles : h \in cancelled ~> pc[h] = "idle"

=============================================================================

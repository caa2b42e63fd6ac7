------------------------- MODULE TransmuxTimingProofs -------------------------
(***************************************************************************)
(* TransmuxTiming for all its times and every set of channels and loops.   *)
(*                                                                         *)
(* First, its steps are steps of RelayWorkers: what is proved of the       *)
(* manager holds of the loops with their clocks.  Then the two halves of   *)
(* auto-disable.  The failure window is never older than the trouble       *)
(* (WindowInv, RunInv), so no loop gives up too early.  And at each point  *)
(* of the loop the trouble is bounded by the window, and the window by     *)
(* what the loop may still do before it looks at it again (Unbroken,       *)
(* Failing): no loop goes on for too long.                                 *)
(***************************************************************************)
EXTENDS TransmuxTiming, RelayWorkersProofs

\* Within `for`.
Loop == TransmuxSteps \ {"mkdir"}

\* A run is on, or has ended and is not accounted for; a run is to come, or did not come.
OnAir(h) == pc[h] = "ffmpeg" \/ (pc[h] = "down" /\ ran[h] # NoTime)
Starting(h) == pc[h] \in {"top", "spawn", "spawned"} \/ (pc[h] = "down" /\ ran[h] = NoTime)

WindowInv(h) == window[h] # NoTime => window[h] <= broken[h]

RunInv(h) ==
  /\ pc[h] = "ffmpeg" => ran[h] # NoTime
  /\ OnAir(h) => ran[h] <= broken[h] /\ backoff[h] = FirstBackoff

\* No failure since a healthy run: only a first sleep may lie between.
Unbroken(h) ==
  window[h] = NoTime =>
    /\ Starting(h) => broken[h] <= FirstBackoff
    /\ OnAir(h) => broken[h] <= FirstBackoff + ran[h]
    /\ pc[h] = "exited" => broken[h] = 0 /\ backoff[h] = FirstBackoff
    /\ pc[h] = "backoff" => broken[h] + rest[h] <= FirstBackoff

\* The window is open: it was looked at before the last sleep.
Failing(h) ==
  window[h] # NoTime /\ pc[h] \in Loop =>
    /\ broken[h] <= FirstBackoff + window[h]
    /\ Starting(h) => window[h] <= SourceErrorAfter + MaxBackoff
    /\ OnAir(h) => window[h] <= SourceErrorAfter + MaxBackoff + ran[h]
    /\ pc[h] = "exited" => window[h] <= SourceErrorAfter + MaxBackoff + Healthy
    /\ pc[h] = "backoff" => window[h] + rest[h] <= SourceErrorAfter + MaxBackoff

\* Outside the loop the clocks stand as it left them.
Left(h) ==
  pc[h] \notin Loop /\ ~WasHealthy(h) =>
    broken[h] <= FirstBackoff + SourceErrorAfter + MaxBackoff + Healthy

Forgiving(h) == WindowInv(h) /\ RunInv(h)
Strict(h) == SourceErrorAfter > 0 => Unbroken(h) /\ Failing(h) /\ Left(h)

TimedInv == TimingTypeOK /\ \A h \in Handles : Forgiving(h) /\ Strict(h)

\* The goroutine of h goes from one point of its loop to another.
Move(h, from, to) == pc[h] = from /\ pc' = [pc EXCEPT ![h] = to]

USE DEF PCs, Live, Owning, Working, IngestSteps, TransmuxSteps

-----------------------------------------------------------------------------
\* The steps of the loop that its clocks decide.
LEMMA LoopMoves ==
  ASSUME NEW h
  PROVE  /\ MkdirOk(h) => Move(h, "mkdir", "top")
         /\ SpawnFail(h) => Move(h, "spawn", "down")
         /\ MarkSpawned(h) => Move(h, "spawned", "ffmpeg")
         /\ FfmpegExit(h) => Move(h, "ffmpeg", "down")
         /\ MarkDown(h) => Move(h, "down", "exited")
         /\ AutoDisable(h) => Move(h, "exited", "release")
         /\ Backoff(h) => Move(h, "exited", "backoff")
         /\ Retry(h) => Move(h, "backoff", "top")
  BY DEF MkdirOk, SpawnFail, MarkSpawned, FfmpegExit, MarkDown, AutoDisable, Backoff, Retry,
         GotoQuietly, GotoMarking, GotoFlagging, Goto, Move

\* The others lead out of the loop, or to the next start.
LEMMA UntimedMoves ==
  ASSUME NEW h \in Handles, Untimed(h)
  PROVE  \/ \E from \in PCs \ {"exited"}, to \in PCs \ Loop : Move(h, from, to)
         \/ Move(h, "top", "spawn") \/ Move(h, "spawn", "spawned")
<1> DEFINE Out(from, to) == from \in PCs \ {"exited"} /\ to \in PCs \ Loop /\ Move(h, from, to)
<1>0. SUFFICES ASSUME \A from, to : ~Out(from, to)
               PROVE  Move(h, "top", "spawn") \/ Move(h, "spawn", "spawned")
  OBVIOUS
<1>1. \A from \in PCs \ {"exited"}, to \in PCs \ Loop : ~Goto(h, from, to)
  BY <1>0 DEF Goto, Move
<1> HIDE DEF Out
<1>2. CASE Launch(h)
  <2>1. Goto(h, "claimed", "begin") \/ Goto(h, "begin", "mkdir") \/ Goto(h, "begin", "fetch")
    BY <1>2 DEF Launch, MarkRunning, Begin, GotoQuietly, GotoMarking
  <2> QED BY <1>1, <2>1 DEF Loop
<1>3. CASE MkdirFail(h) \/ LeaveTop(h) \/ FfmpegKilled(h) \/ LeaveBackoff(h)
  <2>1. \/ Goto(h, "mkdir", "release") \/ Goto(h, "top", "release")
        \/ Goto(h, "ffmpeg", "release") \/ Goto(h, "backoff", "release")
    BY <1>3 DEF MkdirFail, LeaveTop, FfmpegKilled, LeaveBackoff, GotoQuietly, GotoMarking
  <2> QED BY <1>1, <2>1 DEF Loop
<1>4. CASE PassTop(h) \/ SpawnOk(h)
  BY <1>4 DEF PassTop, SpawnOk, GotoQuietly, Goto, Move
<1>5. CASE Deferred(h)
  <2>1. Move(h, "release", "final") \/ Move(h, "final", "idle")
    BY <1>5 DEF Deferred, ReleaseWorker, MarkStopped, Move
  <2> QED BY <1>0, <2>1 DEF Loop, Out
<1> QED BY <1>2, <1>3, <1>4, <1>5 DEF Untimed

-----------------------------------------------------------------------------
(* The clocks restrict RelayWorkers                                          *)

\* Every step of a loop with its clocks is a step of the loop, and time leaves the
\* manager, its goroutines and the rows alone.
LEMMA TimedStepIsStep == [TimedNext]_timedVars => [Next]_vars
<1> SUFFICES ASSUME [TimedNext]_timedVars PROVE [Next]_vars
  OBVIOUS
<1>1. ASSUME NEW h \in Handles, LoopStep(h) PROVE Next
  <2>1. GoroutineStep(h)
    BY <1>1 DEF LoopStep, EnterLoop, NoFfmpeg, Started, Failed, GiveUp, Sleep, WakeUp,
                Untimed, GoroutineStep, TransmuxStep
  <2> QED BY <2>1 DEF Next
<1>2. ASSUME NEW h \in Handles, FfmpegExit(h) PROVE Next
  BY <1>2 DEF Next
<1>3. ASSUME NEW c \in Channels, NEW k \in Configs, NEW h \in Handles,
             StartWorker(c, status[c], k, FALSE, h)
      PROVE  Next
  <2>1. StartWorker(c, "active", k, FALSE, h)
    BY <1>3 DEF StartWorker
  <2> QED BY <2>1 DEF Next, ManagerCall
<1>4. ASSUME NEW c \in Channels, StopWorker(c) PROVE Next
  BY <1>4 DEF Next, ManagerCall
<1>5. CASE Tick \/ UNCHANGED timedVars
  BY <1>5 DEF Tick, timedVars
<1> QED BY <1>1, <1>2, <1>3, <1>4, <1>5 DEF TimedNext

\* The loops with their clocks are RelayWorkers, whose promises they keep: at most one
\* worker per channel, a registry that is exact, a row that ends as stopped.
THEOREM TimedLoopsAreWorkers == TimedSpec => Spec
<1>1. TimedInit => Init
  BY DEF TimedInit
<1> QED BY <1>1, TimedStepIsStep, PTL DEF TimedSpec, Spec

-----------------------------------------------------------------------------
(* What the clocks say                                                       *)

USE TimingAssumption

LEMMA InitTimed == TimedInit => TimedInv
<1> SUFFICES ASSUME TimedInit PROVE TimedInv
  OBVIOUS
<1>1. TimingTypeOK
  BY DEF TimedInit, TimingTypeOK, Time
<1>2. ASSUME NEW h \in Handles
      PROVE  pc[h] = "idle" /\ ran[h] = NoTime /\ window[h] = NoTime /\ broken[h] = 0
  BY DEF TimedInit, Init
<1>3. ASSUME NEW h \in Handles PROVE Forgiving(h) /\ Strict(h)
  BY <1>2 DEF Forgiving, Strict, WindowInv, RunInv, Unbroken, Failing, Left, OnAir, Starting,
              WasHealthy, Loop
<1> QED BY <1>1, <1>3 DEF TimedInv

\* What is said of a loop depends on its own clocks only.
LEMMA OthersStand ==
  ASSUME NEW h, Forgiving(h) /\ Strict(h),
         pc'[h] = pc[h], ran'[h] = ran[h], window'[h] = window[h], backoff'[h] = backoff[h],
         rest'[h] = rest[h], broken'[h] = broken[h]
  PROVE  (Forgiving(h) /\ Strict(h))'
  BY DEF Forgiving, Strict, WindowInv, RunInv, Unbroken, Failing, Left, OnAir, Starting,
         WasHealthy

\* A loop is left within the bound, unless its last run was healthy.
LEMMA LoopIsLeft ==
  ASSUME TypeOK, TimedInv, NEW h \in Handles, NEW from \in PCs, NEW to \in PCs \ Loop,
         Move(h, from, to), UNCHANGED clocks
  PROVE  TimedInv'
<1>1. /\ ran[h] \in Nat \cup {NoTime} /\ window[h] \in Nat \cup {NoTime}
      /\ rest[h] \in Nat /\ broken[h] \in Nat /\ backoff[h] \in Nat /\ pc[h] = from
  BY DEF TimedInv, TimingTypeOK, Time, Move
<1>2. pc'[h] = to /\ UNCHANGED <<ran, window, backoff, rest, broken>>
  BY DEF TypeOK, Move, clocks
<1>3. Forgiving(h) /\ Strict(h)
  BY DEF TimedInv
<1>4. WindowInv(h)' /\ RunInv(h)' /\ Unbroken(h)' /\ Failing(h)'
  BY <1>2, <1>3 DEF Forgiving, WindowInv, RunInv, Unbroken, Failing, OnAir, Starting, Loop
<1>5. ASSUME SourceErrorAfter > 0 PROVE Left(h)'
  <2>1. Unbroken(h) /\ Failing(h) /\ Left(h)
    BY <1>3, <1>5 DEF Strict
  <2>2. CASE from \in Loop /\ window[h] = NoTime
    BY <1>1, <1>2, <1>3, <2>1, <2>2
       DEF Left, Unbroken, OnAir, Starting, WasHealthy, Loop, Forgiving, RunInv
  <2>3. CASE from \in Loop /\ window[h] # NoTime
    BY <1>1, <1>2, <1>3, <2>1, <2>3
       DEF Left, Failing, OnAir, Starting, WasHealthy, Loop, Forgiving, RunInv
  <2>4. CASE from \notin Loop
    BY <1>1, <1>2, <2>1, <2>4 DEF Left, WasHealthy
  <2> QED BY <2>2, <2>3, <2>4
<1>6. ASSUME NEW g \in Handles \ {h} PROVE (Forgiving(g) /\ Strict(g))'
  BY <1>2, OthersStand DEF TimedInv, TypeOK, Move
<1>7. TimingTypeOK'
  BY <1>2 DEF TimedInv, TimingTypeOK
<1> QED BY <1>4, <1>5, <1>6, <1>7 DEF TimedInv, Forgiving, Strict

\* What a step of h leaves alone.
OthersAlone(h) ==
  \A g \in Handles \ {h} :
    /\ pc'[g] = pc[g] /\ ran'[g] = ran[g] /\ window'[g] = window[g]
    /\ backoff'[g] = backoff[g] /\ rest'[g] = rest[g] /\ broken'[g] = broken[g]

LEMMA OneLoop ==
  ASSUME TimedInv, NEW h \in Handles, OthersAlone(h), TimingTypeOK', Forgiving(h)', Strict(h)'
  PROVE  TimedInv'
<1>1. ASSUME NEW g \in Handles \ {h} PROVE (Forgiving(g) /\ Strict(g))'
  BY OthersStand DEF TimedInv, OthersAlone
<1> QED BY <1>1 DEF TimedInv

\* A window that opens is as old as the first run, one that is open stays, and a healthy
\* run closes it: it never says more than the trouble.
LEMMA FailedTimed ==
  ASSUME TypeOK, TimedInv, NEW h \in Handles, Failed(h)
  PROVE  TimedInv'
<1>1. /\ ran[h] \in Nat \cup {NoTime} /\ window[h] \in Nat \cup {NoTime}
      /\ rest[h] \in Nat /\ broken[h] \in Nat /\ backoff[h] \in Nat
  BY DEF TimedInv, TimingTypeOK, Time
<1>2. /\ pc[h] = "down" /\ pc'[h] = "exited" /\ UNCHANGED <<ran, backoff, rest>>
      /\ window'[h] = WindowAfterFailure(h)
      /\ broken'[h] = IF WasHealthy(h) THEN 0 ELSE broken[h]
      /\ OthersAlone(h)
  BY LoopMoves DEF Failed, Move, OthersAlone, TypeOK, TimedInv, TimingTypeOK
<1>3. Forgiving(h) /\ Strict(h)
  BY DEF TimedInv
<1>4. TimingTypeOK'
  <2>1. WindowAfterFailure(h) \in Time \cup {NoTime}
    BY DEF WindowAfterFailure, TimedInv, TimingTypeOK, Time
  <2> QED BY <2>1 DEF Failed, TimedInv, TimingTypeOK, Time
<1>5. Forgiving(h)'
  BY <1>1, <1>2, <1>3
     DEF Forgiving, WindowInv, RunInv, OnAir, WindowAfterFailure, WasHealthy
<1>6. Strict(h)'
  <2> SUFFICES ASSUME SourceErrorAfter > 0 PROVE Unbroken(h)' /\ Failing(h)' /\ Left(h)'
    BY DEF Strict
  <2>1. Unbroken(h) /\ Failing(h)
    BY <1>3 DEF Strict
  <2>2. Unbroken(h)'
    BY <1>1, <1>2, <1>3, <2>1
       DEF Unbroken, WindowAfterFailure, WasHealthy, OnAir, Starting, Forgiving, RunInv
  <2>3. Failing(h)'
    BY <1>1, <1>2, <2>1
       DEF Unbroken, Failing, WindowAfterFailure, WasHealthy, OnAir, Starting, Loop
  <2>4. Left(h)'
    BY <1>2 DEF Left, Loop
  <2> QED BY <2>2, <2>3, <2>4
<1> QED BY <1>2, <1>4, <1>5, <1>6, OneLoop

\* The other steps of the loop.
LEMMA LoopStepTimed ==
  ASSUME TypeOK, TimedInv, NEW h \in Handles, LoopStep(h) \/ (FfmpegExit(h) /\ UNCHANGED clocks)
  PROVE  TimedInv'
<1>0. /\ ran[h] \in Nat \cup {NoTime} /\ window[h] \in Nat \cup {NoTime}
      /\ rest[h] \in Nat /\ broken[h] \in Nat /\ backoff[h] \in FirstBackoff..MaxBackoff
      /\ Forgiving(h) /\ Strict(h)
  BY DEF TimedInv, TimingTypeOK, Time
<1> USE DEF Move, OthersAlone, Forgiving, Strict
<1>1. CASE EnterLoop(h)
  <2>1. TimingTypeOK'
    BY <1>1 DEF EnterLoop, TimedInv, TimingTypeOK, Time
  <2>2. /\ pc'[h] = "top" /\ window'[h] = NoTime /\ broken'[h] = 0 /\ OthersAlone(h)
    BY <1>1, LoopMoves DEF EnterLoop, TypeOK, TimedInv, TimingTypeOK
  <2>3. (Forgiving(h) /\ Strict(h))'
    BY <2>2 DEF WindowInv, RunInv, Unbroken, Failing, Left, OnAir, Starting, Loop
  <2> QED BY <2>1, <2>2, <2>3, OneLoop
<1>2. CASE NoFfmpeg(h)
  <2>1. TimingTypeOK'
    BY <1>2 DEF NoFfmpeg, TimedInv, TimingTypeOK
  <2>2. /\ pc[h] = "spawn" /\ pc'[h] = "down" /\ ran'[h] = NoTime /\ OthersAlone(h)
        /\ UNCHANGED <<window, backoff, rest, broken>>
    BY <1>2, LoopMoves DEF NoFfmpeg, TypeOK, TimedInv, TimingTypeOK
  <2>3. (Forgiving(h) /\ Strict(h))'
    BY <1>0, <2>2 DEF WindowInv, RunInv, Unbroken, Failing, Left, OnAir, Starting, Loop
  <2> QED BY <2>1, <2>2, <2>3, OneLoop
<1>3. CASE Started(h)
  <2>1. TimingTypeOK'
    BY <1>3 DEF Started, TimedInv, TimingTypeOK, Time
  <2>2. /\ pc[h] = "spawned" /\ pc'[h] = "ffmpeg" /\ ran'[h] = 0 /\ OthersAlone(h)
        /\ backoff'[h] = FirstBackoff /\ UNCHANGED <<window, rest, broken>>
    BY <1>3, LoopMoves DEF Started, TypeOK, TimedInv, TimingTypeOK
  <2>3. (Forgiving(h) /\ Strict(h))'
    BY <1>0, <2>2 DEF WindowInv, RunInv, Unbroken, Failing, Left, OnAir, Starting, Loop
  <2> QED BY <2>1, <2>2, <2>3, OneLoop
<1>4. CASE Failed(h)
  BY <1>4, FailedTimed
<1>5. CASE GiveUp(h)
  <2>1. Move(h, "exited", "release") /\ UNCHANGED clocks
    BY <1>5, LoopMoves DEF GiveUp
  <2>2. "exited" \in PCs /\ "release" \in PCs \ Loop
    BY DEF Loop
  <2> QED BY <2>1, <2>2, LoopIsLeft
<1>6. CASE Sleep(h)
  <2>1. TimingTypeOK'
    BY <1>6 DEF Sleep, TimedInv, TimingTypeOK
  <2>2. /\ pc[h] = "exited" /\ pc'[h] = "backoff" /\ rest'[h] = backoff[h] /\ OthersAlone(h)
        /\ ~FailingTooLong(h) /\ UNCHANGED <<ran, window, backoff, broken>>
    BY <1>6, LoopMoves DEF Sleep, TypeOK, TimedInv, TimingTypeOK
  <2>3. (Forgiving(h) /\ Strict(h))'
    BY <1>0, <2>2 DEF WindowInv, RunInv, Unbroken, Failing, Left, OnAir, Starting, Loop,
                      FailingTooLong
  <2> QED BY <2>1, <2>2, <2>3, OneLoop
<1>7. CASE WakeUp(h)
  <2>1. nextBackoff(backoff[h]) \in FirstBackoff..MaxBackoff
    BY <1>0 DEF nextBackoff
  <2>2. TimingTypeOK'
    BY <1>7, <2>1 DEF WakeUp, TimedInv, TimingTypeOK
  <2>3. /\ pc[h] = "backoff" /\ pc'[h] = "top" /\ rest[h] = 0 /\ OthersAlone(h)
        /\ UNCHANGED <<ran, window, rest, broken>>
    BY <1>7, LoopMoves DEF WakeUp, TypeOK, TimedInv, TimingTypeOK
  <2>4. (Forgiving(h) /\ Strict(h))'
    BY <1>0, <2>3 DEF WindowInv, RunInv, Unbroken, Failing, Left, OnAir, Starting, Loop
  <2> QED BY <2>2, <2>3, <2>4, OneLoop
<1>8. ASSUME Move(h, "top", "spawn") \/ Move(h, "spawn", "spawned") \/ Move(h, "ffmpeg", "down"),
             UNCHANGED clocks
      PROVE  TimedInv'
  <2>1. TimingTypeOK' /\ OthersAlone(h)
    BY <1>8 DEF TypeOK, TimedInv, TimingTypeOK, clocks
  <2>2. (Forgiving(h) /\ Strict(h))'
    BY <1>0, <1>8 DEF WindowInv, RunInv, Unbroken, Failing, Left, OnAir, Starting, Loop,
                      clocks, TypeOK
  <2> QED BY <2>1, <2>2, OneLoop
<1>9. CASE Untimed(h)
  <2>1. CASE \E from \in PCs \ {"exited"}, to \in PCs \ Loop : Move(h, from, to)
    BY <1>9, <2>1, LoopIsLeft DEF Untimed
  <2> QED BY <1>8, <1>9, <2>1, UntimedMoves DEF Untimed
<1> QED BY <1>1, <1>2, <1>3, <1>4, <1>5, <1>6, <1>7, <1>8, <1>9, LoopMoves DEF LoopStep

\* While time passes every loop runs or sleeps, and all its clocks go on together.
LEMMA TickTimed ==
  ASSUME TypeOK, TimedInv, Tick
  PROVE  TimedInv'
<1>1. UNCHANGED <<pc, backoff, cancelled, booted, rootDown>>
  BY DEF Tick, vars, goroutines
<1>2. \A t \in Time \cup {NoTime} : Later(t) \in Time \cup {NoTime} /\ (t # NoTime => Later(t) \in Time)
  BY DEF Later, Time
<1>3. ASSUME NEW h \in Handles
      PROVE  /\ ran[h] \in Time \cup {NoTime} /\ window[h] \in Time \cup {NoTime}
             /\ rest[h] \in 0..MaxBackoff /\ broken[h] \in Time
  BY DEF TimedInv, TimingTypeOK
<1>4. TimingTypeOK'
  <2>1. ran' \in [Handles -> Time \cup {NoTime}]
    BY <1>2, <1>3 DEF Tick
  <2>2. window' \in [Handles -> Time \cup {NoTime}]
    BY <1>2, <1>3 DEF Tick
  <2>3. rest' \in [Handles -> 0..MaxBackoff]
    BY <1>3 DEF Tick, Asleep
  <2>4. broken' \in [Handles -> Time]
    <3>1. NoTime \notin Time
      BY DEF Time
    <3> QED BY <1>2, <1>3, <3>1 DEF Tick
  <2> QED BY <1>1, <2>1, <2>2, <2>3, <2>4 DEF TimedInv, TimingTypeOK
<1>5. ASSUME NEW h \in Handles PROVE (Forgiving(h) /\ Strict(h))'
  <2>0. /\ ran[h] \in Nat \cup {NoTime} /\ window[h] \in Nat \cup {NoTime}
        /\ rest[h] \in Nat /\ broken[h] \in Nat /\ broken[h] <= Horizon
        /\ ran[h] # NoTime => ran[h] <= Horizon
        /\ window[h] # NoTime => window[h] <= Horizon
        /\ Forgiving(h) /\ Strict(h)
    BY <1>3 DEF Time, TimedInv
  <2>1. CASE pc[h] = "idle"
    <3>1. ~Running(h) /\ ~Asleep(h)
      BY <2>1 DEF Running, Asleep
    <3>2. /\ ran'[h] = ran[h] /\ window'[h] = window[h] /\ rest'[h] = rest[h]
          /\ broken'[h] = broken[h]
      BY <2>1, <3>1 DEF Tick
    <3> QED BY <1>1, <2>0, <3>2, OthersStand
  <2>2. CASE Asleep(h)
    <3>1. /\ pc[h] = "backoff" /\ rest[h] > 0 /\ ran'[h] = ran[h]
          /\ window'[h] = Later(window[h]) /\ rest'[h] = rest[h] - 1
          /\ broken'[h] = Later(broken[h])
      BY <2>2 DEF Tick, Asleep, Running
    <3> QED BY <1>1, <2>0, <3>1
            DEF Forgiving, Strict, WindowInv, RunInv, Unbroken, Failing, Left, OnAir, Starting,
                Loop, Later
  <2>3. CASE Running(h)
    <3>1. /\ pc[h] = "ffmpeg" /\ ran'[h] = Later(ran[h]) /\ window'[h] = Later(window[h])
          /\ rest'[h] = rest[h] /\ broken'[h] = Later(broken[h])
      BY <2>3 DEF Tick, Asleep, Running
    <3> QED BY <1>1, <2>0, <3>1
            DEF Forgiving, Strict, WindowInv, RunInv, Unbroken, Failing, Left, OnAir, Starting,
                Loop, Later
  <2> QED BY <2>1, <2>2, <2>3 DEF Tick
<1> QED BY <1>4, <1>5 DEF TimedInv

LEMMA NextTimed == TypeOK /\ TimedInv /\ [TimedNext]_timedVars => TimedInv'
<1> SUFFICES ASSUME TypeOK, TimedInv, [TimedNext]_timedVars PROVE TimedInv'
  OBVIOUS
<1>1. CASE \E h \in Handles : LoopStep(h) \/ (FfmpegExit(h) /\ UNCHANGED clocks)
  BY <1>1, LoopStepTimed
<1>2. ASSUME NEW c \in Channels, NEW k \in Configs, NEW h \in Handles,
             StartWorker(c, status[c], k, FALSE, h), UNCHANGED clocks
      PROVE  TimedInv'
  <2>1. Move(h, "idle", "claimed") /\ "idle" \in PCs /\ "claimed" \in PCs \ Loop
    BY <1>2 DEF StartWorker, Move, Loop
  <2> QED BY <1>2, <2>1, LoopIsLeft
<1>3. CASE UNCHANGED <<pc, clocks>>
  BY <1>3, OthersStand DEF clocks, TimedInv, TimingTypeOK
<1>4. ASSUME NEW c \in Channels, StopWorker(c), UNCHANGED clocks PROVE TimedInv'
  BY <1>3, <1>4 DEF StopWorker
<1>5. CASE UNCHANGED timedVars
  BY <1>3, <1>5 DEF timedVars, vars, goroutines
<1> QED BY <1>1, <1>2, <1>4, <1>5, TickTimed DEF TimedNext

LEMMA TimedInvHolds == TimedSpec => [](TypeOK /\ TimedInv)
  BY InitTimed, NextTimed, TimedLoopsAreWorkers, TypeCorrect, PTL DEF TimedSpec

\* No clock leaves its range: a sleep is never shorter than FirstBackoff nor longer than
\* MaxBackoff, however often the back-off is doubled.
THEOREM TimingTypeCorrect == TimedSpec => []TimingTypeOK
<1>1. TimedInv => TimingTypeOK
  BY DEF TimedInv
<1> QED BY <1>1, TimedInvHolds, PTL

\* A channel whose ffmpeg never stays up for long is given up in time, for every window,
\* threshold and back-off: runs that fail and starts that fail mix in any order.
THEOREM BrokenLoopIsDisabled == TimedSpec => []BrokenIsDisabled
<1>1. TimedInv => BrokenIsDisabled
  <2> SUFFICES ASSUME TimedInv, SourceErrorAfter > 0, NEW h \in Handles, ~WasHealthy(h),
                      pc[h] \in TransmuxSteps
               PROVE  broken[h] <= FirstBackoff + SourceErrorAfter + MaxBackoff + Healthy
    BY DEF BrokenIsDisabled
  <2>1. /\ ran[h] \in Nat \cup {NoTime} /\ window[h] \in Nat \cup {NoTime}
        /\ rest[h] \in Nat /\ broken[h] \in Nat
    BY DEF TimedInv, TimingTypeOK, Time
  <2>2. RunInv(h) /\ Unbroken(h) /\ Failing(h) /\ Left(h)
    BY DEF TimedInv, Forgiving, Strict
  <2>3. CASE window[h] = NoTime
    BY <2>1, <2>2, <2>3 DEF Unbroken, RunInv, Left, OnAir, Starting, WasHealthy, Loop
  <2>4. CASE window[h] # NoTime
    BY <2>1, <2>2, <2>4 DEF Failing, RunInv, Left, OnAir, Starting, WasHealthy, Loop
  <2> QED BY <2>3, <2>4
<1> QED BY <1>1, TimedInvHolds, PTL

\* Only GiveUp takes a loop from "exited" to "release".
LEMMA OnlyGiveUpDisables ==
  ASSUME TypeOK, TimedInv, [TimedNext]_timedVars, NEW h \in Handles,
         pc[h] = "exited", pc'[h] = "release"
  PROVE  broken[h] > SourceErrorAfter
<1>1. PICK g \in Handles : LoopStep(g)
  BY DEF TimedNext, FfmpegExit, GotoQuietly, Goto, StartWorker, StopWorker, Tick, timedVars,
         vars, goroutines, TypeOK
<1>2. ASSUME NEW to, NEW from \in PCs, Move(g, from, to), to # "release" \/ from # "exited"
      PROVE  FALSE
  BY <1>2 DEF Move, TypeOK
<1>3. GiveUp(g) /\ g = h
  BY <1>1, <1>2, LoopMoves, UntimedMoves
     DEF LoopStep, EnterLoop, NoFfmpeg, Started, Failed, GiveUp, Sleep, WakeUp, Move, TypeOK
<1> QED BY <1>3 DEF GiveUp, FailingTooLong, TimedInv, Forgiving, WindowInv, TimingTypeOK, Time

\* Transient blips do not disable a channel: only a loop that had no healthy run for
\* longer than the window gives up.
THEOREM BlipsDoNotDisable == TimedSpec => BlipsAreForgiven
<1> DEFINE Forgiven == \A h \in Handles :
      pc[h] = "exited" /\ pc'[h] = "release" => broken[h] > SourceErrorAfter
<1>1. TypeOK /\ TimedInv /\ [TimedNext]_timedVars => [Forgiven]_timedVars
  BY OnlyGiveUpDisables
<1> QED BY <1>1, TimedInvHolds, PTL DEF TimedSpec, BlipsAreForgiven

=============================================================================

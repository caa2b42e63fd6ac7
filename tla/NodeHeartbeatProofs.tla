------------------------- MODULE NodeHeartbeatProofs -------------------------
(***************************************************************************)
(* NodeHeartbeat for every period, interval and timeout.                   *)
(*                                                                         *)
(* The argument for SilentIsOffline: as long as the last sweep worked, the *)
(* time since the last heartbeat and the time to the next sweep add up to  *)
(* no more than the cutoff and an interval, for the one grows as the other *)
(* shrinks and the sweep that restarts the latter leaves no node online    *)
(* that is beyond the cutoff.                                              *)
(*                                                                         *)
(* The argument for OneFailureIsForgiven: at every point of the agent's    *)
(* loop the time since the last heartbeat is bounded by what the tickers   *)
(* and the jobs before the next one can take, one bound while no job has   *)
(* failed and one after the first failure, and neither reaches the cutoff. *)
(***************************************************************************)
EXTENDS NodeHeartbeat, TLAPS

\* A running ticker has at least a unit to go.
LeftInv == \A j \in Jobs : left[j] \in Nat \ {0} /\ left[j] <= Period[j]

TypeInv == HeartbeatTypeOK /\ LeftInv

SweepComes ==
  api = "swept" /\ node.status = "online" => node.seen + sweepIn <= Cutoff + Interval

Inv == TypeInv /\ SweepComes

USE HeartbeatAssumption

-----------------------------------------------------------------------------
\* The bounds of HeartbeatTypeOK are numbers.
LEMMA Bounds ==
  /\ Interval \in Nat \ {0} /\ Timeout \in Nat \ {0} /\ Answer \in Nat \ {0}
  /\ Answer <= Timeout /\ Unlucky \in Nat
  /\ Cutoff \in Nat /\ Old \in Nat /\ Cutoff + Interval < Old
  /\ Period \in [Jobs -> Nat \ {0}]
BY DEF Cutoff, Old

\* An agent that has just turned to a step of its loop is well typed.
LEMMA Turned == \A a \in Steps : [at |-> a, for |-> 0] \in [at : Steps, for : 0..Timeout]
<1>1. 0 \in 0..Timeout
  BY Bounds
<1> QED BY <1>1

LEMMA InitTyped == HeartbeatInit => TypeInv
BY Bounds DEF HeartbeatInit, TypeInv, HeartbeatTypeOK, LeftInv, Statuses, Steps

\* What the agent does keeps the types.
LEMMA AgentTyped ==
  ASSUME TypeInv, Start \/ (\E j \in Jobs : Take(j)) \/ Succeed \/ Fail \/ Crash
  PROVE  TypeInv'
<1> USE DEF TypeInv, HeartbeatTypeOK, LeftInv
<1>0. Jobs \subseteq Steps /\ {"down", "hello", "firstSync", "select"} \subseteq Steps
  BY Zenon DEF Steps
<1>1. CASE Start
  BY <1>0, <1>1, Turned DEF Start
<1>2. ASSUME NEW j \in Jobs, Take(j)
      PROVE  TypeInv'
  <2>1. agent' \in [at : Steps, for : 0..Timeout] /\ due' \subseteq Jobs /\ UNCHANGED left
    BY <1>0, <1>2, Turned DEF Take
  <2>2. passed' \in 0..(Unlucky + 1) /\ beat' \in {"none", "sent", "done"}
    BY <1>2, Bounds DEF Take
  <2>3. trouble' \in 0..2
    BY <1>2 DEF Take
  <2> QED BY <1>2, <2>1, <2>2, <2>3 DEF Take
<1>3. ASSUME Return
      PROVE  /\ agent' \in [at : Steps, for : 0..Timeout]
             /\ left' \in [Jobs -> Nat] /\ \A j \in Jobs : left'[j] \in Nat \ {0} /\ left'[j] <= Period[j]
             /\ due' \subseteq Jobs /\ passed' \in 0..(Unlucky + 1)
  <2>1. agent' \in [at : Steps, for : 0..Timeout] /\ passed' \in 0..(Unlucky + 1)
    BY <1>0, <1>3, Bounds, Turned DEF Return
  <2>2. due' \subseteq Jobs /\ left' \in {left, Period}
    BY <1>3 DEF Return
  <2> QED BY <2>1, <2>2, Bounds
<1>4. CASE Succeed
  <2>1. trouble' \in 0..2
    BY <1>4 DEF Succeed, More
  <2> QED BY <1>4, <1>3, <2>1 DEF Succeed
<1>5. CASE Fail
  <2>1. trouble' \in 0..2 /\ beat' \in {"none", "sent", "done"}
    BY <1>5 DEF Fail, More
  <2> QED BY <1>5, <1>3, <2>1 DEF Fail
<1>6. CASE Crash
  <2>1. left' \in [Jobs -> Nat] /\ \A j \in Jobs : left'[j] \in Nat \ {0} /\ left'[j] <= Period[j]
    BY <1>6, Bounds DEF Crash
  <2>2. agent' \in [at : Steps, for : 0..Timeout] /\ passed' \in 0..(Unlucky + 1)
    <3>1. agent' = [at |-> "down", for |-> 0] /\ passed' = 0
      BY <1>6 DEF Crash
    <3>2. 0 \in 0..(Unlucky + 1)
      BY Bounds
    <3> QED BY <1>0, <3>1, <3>2, Turned
  <2> QED BY <1>6, <2>1, <2>2 DEF Crash
<1> QED BY <1>1, <1>2, <1>4, <1>5, <1>6

\* So does what the control plane does.
LEMMA ControlPlaneTyped ==
  ASSUME TypeInv, Touch \/ Sweep \/ Restart \/ DeleteNode
  PROVE  TypeInv'
<1> USE Bounds DEF TypeInv, HeartbeatTypeOK, LeftInv, Statuses
<1>1. CASE Touch
  BY <1>1 DEF Touch
<1>2. CASE Sweep
  BY <1>2 DEF Sweep
<1>3. CASE Restart
  BY <1>3 DEF Restart, Down, Up
<1>4. CASE DeleteNode
  BY <1>4 DEF DeleteNode
<1> QED BY <1>1, <1>2, <1>3, <1>4

\* So does time.
LEMMA TickTyped ==
  ASSUME TypeInv, Tick
  PROVE  TypeInv'
<1> USE Bounds DEF TypeInv, HeartbeatTypeOK, LeftInv, Statuses, Tick
<1>1. agent' \in [at : Steps, for : 0..Timeout]
  <2>1. agent'.at = agent.at /\ agent'.for \in 0..Timeout /\ agent' = [at |-> agent'.at, for |-> agent'.for]
    BY DEF Busy
  <2> QED BY <2>1
<1>2. left' \in [Jobs -> Nat] /\ \A j \in Jobs : left'[j] \in Nat \ {0} /\ left'[j] <= Period[j]
  OBVIOUS
<1>3. due' \subseteq Jobs
  OBVIOUS
<1>4. sweepIn' \in 0..Interval
  OBVIOUS
<1>5. node' \in [status : Statuses \cup {"deleted"}, seen : 0..Old]
  OBVIOUS
<1> QED BY <1>1, <1>2, <1>3, <1>4, <1>5

LEMMA NextTyped == TypeInv /\ [HeartbeatNext]_heartbeatVars => TypeInv'
<1> SUFFICES ASSUME TypeInv, [HeartbeatNext]_heartbeatVars
             PROVE  TypeInv'
  OBVIOUS
<1>1. CASE UNCHANGED heartbeatVars
  BY <1>1 DEF TypeInv, HeartbeatTypeOK, LeftInv, heartbeatVars
<1> QED BY <1>1, AgentTyped, ControlPlaneTyped, TickTyped DEF HeartbeatNext

\* Every variable of the agent and of the control plane keeps its type: no job outlasts
\* the client's timeout, and every ticker has at most its period to go.
THEOREM HeartbeatTypeCorrect == HeartbeatSpec => []HeartbeatTypeOK
<1>1. TypeInv => HeartbeatTypeOK
  BY DEF TypeInv
<1> QED BY <1>1, InitTyped, NextTyped, PTL DEF HeartbeatSpec

-----------------------------------------------------------------------------
LEMMA InitSweeps == HeartbeatInit => SweepComes
BY DEF HeartbeatInit, SweepComes

\* A node goes online with a heartbeat, stays so over a sweep only within the cutoff, and
\* the control plane's start undoes "swept".
LEMMA NextSweeps ==
  ASSUME Inv, [HeartbeatNext]_heartbeatVars
  PROVE  SweepComes'
<1> USE Bounds DEF Inv, TypeInv, HeartbeatTypeOK, SweepComes
<1>1. CASE UNCHANGED <<node, api, sweepIn>>
  BY <1>1
<1>2. CASE Start \/ (\E j \in Jobs : Take(j)) \/ Succeed \/ Fail \/ Crash
  <2>1. UNCHANGED <<node, api, sweepIn>>
    BY <1>2 DEF Start, Take, Succeed, Fail, Crash
  <2> QED BY <2>1, <1>1
<1>3. CASE Touch
  BY <1>3 DEF Touch
<1>4. CASE Sweep
  BY <1>4 DEF Sweep, Stale
<1>5. CASE Restart
  BY <1>5 DEF Restart, Down, Up
<1>6. CASE DeleteNode
  BY <1>6 DEF DeleteNode
<1>7. CASE Tick
  BY <1>7 DEF Tick
<1> QED BY <1>1, <1>2, <1>3, <1>4, <1>5, <1>6, <1>7 DEF HeartbeatNext, heartbeatVars

\* PRD:528, a node that does not send heartbeats is marked offline after three intervals:
\* for any interval, and whatever the agent, its requests and either process do, a node
\* is shown online for no longer than the cutoff and the sweep after it.
THEOREM SilentNodeIsOffline == HeartbeatSpec => []SilentIsOffline
<1>1. HeartbeatInit => Inv
  BY InitTyped, InitSweeps DEF Inv
<1>2. Inv /\ [HeartbeatNext]_heartbeatVars => Inv'
  BY NextTyped, NextSweeps DEF Inv
<1>3. Inv => SilentIsOffline
  BY Bounds DEF Inv, TypeInv, HeartbeatTypeOK, SweepComes, SilentIsOffline
<1> QED BY <1>1, <1>2, <1>3, PTL DEF HeartbeatSpec

-----------------------------------------------------------------------------
(* One failed job.  n jobs, none longer than Answer, take at most Span(n).   *)

Span(n) == n * Answer
Beat == Period["heartbeat"]

\* What the theorem asks of the configured times: the jobs select may pass the heartbeat
\* over for end before the next tick; and the cutoff leaves room for a heartbeat that
\* waits for them twice, and for a job in between that times out.
Punctual ==
  /\ Span(Unlucky + 1) < Beat
  /\ 2 * Beat + Span(Unlucky + 4) <= Cutoff
  /\ Beat + Timeout + Span(2 * Unlucky + 4) <= Cutoff
  /\ Timeout <= Beat + Answer

\* The default times, in units of 5 s, a job that succeeds within one and a heartbeat
\* passed over twice: they leave just that room.
LEMMA DefaultsArePunctual ==
  ASSUME Period = [heartbeat |-> 6, poll |-> 3, report |-> 2],
         Interval = 6, Answer = 1, Timeout = 4, Unlucky = 2
  PROVE  Punctual
<1>1. Beat = 6
  BY DEF Beat
<1> QED BY <1>1 DEF Punctual, Span, Cutoff

SinceTick == Beat - left["heartbeat"]
Pending == "heartbeat" \in due
Unheard == agent.at = "heartbeat" /\ beat # "done"

\* How long a heartbeat that is due has been waiting, if no job failed meanwhile.
Waited == IF agent.at = "select" THEN Span(passed + 1) ELSE Span(passed) + agent.for

\* The heartbeat that is due is the first after the last one, or the second and its tick
\* was no longer ago than it has been waiting.
OnTime ==
  \/ node.seen <= SinceTick + Span(2)
  \/ node.seen <= Beat + SinceTick + Span(2) /\ SinceTick <= Waited

\* How long ago the last heartbeat was, at every point of the loop, if no job failed since.
NoneFailed ==
  node.status = "online" /\ trouble = 0 =>
    /\ agent.at # "down"
    /\ agent.at = "hello" => node.seen <= agent.for
    /\ agent.at = "firstSync" => node.seen <= Answer + agent.for
    /\ Unheard => /\ node.seen <= Beat + Span(Unlucky + 3) + agent.for
                  /\ ~Pending => node.seen <= Beat + SinceTick + Span(2)
    /\ Pending /\ ~Unheard /\ TickersRun =>
         node.seen <= Beat + Span(2) + Waited /\ (~Late => OnTime)
    /\ ~Pending /\ ~Unheard /\ TickersRun => node.seen <= SinceTick + Span(2)

\* The longest time without a heartbeat at which the one after it is due.
Gap == IF Beat >= Timeout + Span(Unlucky) THEN 2 * Beat + Span(2)
       ELSE Beat + Timeout + Span(Unlucky + 2)

\* The same if one job failed, and the one at hand has not yet.
OneFailed ==
  node.status = "online" /\ trouble = 1 /\ ~Late =>
    /\ agent.at \notin {"down", "hello"}
    /\ agent.at = "firstSync" => node.seen <= Timeout + agent.for
    /\ Unheard => node.seen <= Gap + Span(Unlucky + 1) + agent.for
    /\ Pending /\ ~Unheard /\ TickersRun => node.seen <= Gap + Waited
    /\ ~Pending /\ ~Unheard /\ TickersRun => node.seen <= Beat + SinceTick + Span(2)

Forgiving == NoneFailed /\ OneFailed

LEMMA SpanTimes ==
  /\ Span(Unlucky) \in Nat /\ Span(2) = 2 * Answer
  /\ Span(Unlucky + 1) = Span(Unlucky) + Answer
  /\ Span(Unlucky + 2) = Span(Unlucky) + 2 * Answer
  /\ Span(Unlucky + 3) = Span(Unlucky) + 3 * Answer
  /\ Span(Unlucky + 4) = Span(Unlucky) + 4 * Answer
  /\ Span(2 * Unlucky + 4) = 2 * Span(Unlucky) + 4 * Answer
BY Bounds DEF Span

LEMMA SpanGrows ==
  ASSUME NEW n \in 0..Unlucky
  PROVE  /\ Span(n) \in Nat /\ Span(n + 1) = Span(n) + Answer
         /\ Span(n) <= Span(Unlucky)
<1>1. Span(n) \in Nat /\ Span(n + 1) = Span(n) + Answer
  BY Bounds DEF Span
<1>2. PICK k \in Nat : Unlucky = n + k
  <2>1. Unlucky - n \in Nat /\ Unlucky = n + (Unlucky - n)
    BY Bounds
  <2> QED BY <2>1
<1>3. (n + k) * Answer = n * Answer + k * Answer /\ k * Answer \in Nat /\ n * Answer \in Nat
  BY Bounds
<1> QED BY <1>1, <1>2, <1>3 DEF Span

\* A heartbeat is passed over more often than Unlucky only where that counts as trouble.
LuckRunsOut == passed > Unlucky => trouble = 2

\* The numbers that the invariant is about.
LEMMA Times ==
  ASSUME TypeInv, Punctual, passed <= Unlucky
  PROVE  /\ Beat \in Nat \ {0} /\ Gap \in Nat
         /\ SinceTick \in Nat /\ SinceTick < Beat
         /\ node.seen \in Nat /\ agent.for \in Nat /\ agent.for <= Timeout
         /\ passed \in 0..Unlucky
         /\ Gap >= 2 * Beat + Span(2) /\ Gap >= Beat + Timeout + Span(Unlucky + 2)
         /\ Gap + Span(Unlucky + 2) <= Cutoff
         /\ Span(Unlucky) + Answer < Beat /\ Timeout <= Beat + Answer
         /\ Beat + Timeout + 2 * Span(Unlucky) + 4 * Answer <= Cutoff
<1>1. "heartbeat" \in Jobs
  BY DEF Jobs
<1>2. Beat \in Nat \ {0} /\ left["heartbeat"] \in 1..Beat
  BY <1>1, Bounds DEF Beat, TypeInv, LeftInv
<1>3. SinceTick \in Nat /\ SinceTick < Beat
  BY <1>2 DEF SinceTick
<1>4. /\ node.seen \in Nat /\ agent.for \in Nat /\ agent.for <= Timeout
      /\ passed \in 0..Unlucky
  BY Bounds DEF TypeInv, HeartbeatTypeOK
<1> QED BY <1>2, <1>3, <1>4, Bounds, SpanTimes DEF Punctual, Gap
LEMMA InitForgives == HeartbeatInit => Forgiving
BY DEF HeartbeatInit, Forgiving, NoneFailed, OneFailed

\* A node that is not online, or had two failed jobs, owes nothing.
LEMMA AlreadyLost ==
  ASSUME node.status # "online" \/ trouble \notin {0, 1}
  PROVE  Forgiving
BY Zenon DEF Forgiving, NoneFailed, OneFailed

LEMMA StartForgives ==
  ASSUME TypeInv, Punctual, Forgiving, passed <= Unlucky, Start
  PROVE  Forgiving'
BY DEF Forgiving, NoneFailed, OneFailed, Start, TypeInv, HeartbeatTypeOK, Late, Busy

LEMMA TakeForgives ==
  ASSUME TypeInv, Punctual, Forgiving, passed <= Unlucky, NEW j \in Jobs, Take(j),
         passed' <= Unlucky
  PROVE  Forgiving'
<1>1. /\ agent.at = "select" /\ j \in due /\ due' = due \ {j} /\ agent' = [at |-> j, for |-> 0]
      /\ UNCHANGED <<node, left, trouble>>
      /\ beat' = (IF j = "heartbeat" THEN "sent" ELSE beat)
      /\ passed' \in 0..Unlucky
  BY Bounds DEF Take, TypeInv, HeartbeatTypeOK
<1>2. ~Late /\ ~Unheard /\ TickersRun /\ ~Late'
  BY <1>1, Bounds DEF Late, Busy, Unheard, TickersRun, Jobs
<1>3. SinceTick' = SinceTick
  BY <1>1 DEF SinceTick, Beat
<1>4. Span(passed + 1) = Span(passed) + Answer /\ Span(passed) <= Span(Unlucky) /\ Span(passed) \in Nat
  BY Times, SpanGrows
<1>5. Waited = Span(passed + 1)
  BY <1>1 DEF Waited
<1>6. CASE j = "heartbeat"
  <2>1. ~Pending' /\ Unheard' /\ agent'.for = 0 /\ agent'.at = "heartbeat" /\ Pending
    BY <1>1, <1>6 DEF Pending, Unheard
  <2> QED
    BY <1>1, <1>2, <1>3, <1>4, <1>5, <2>1, Times, SpanTimes, Bounds
    DEF Forgiving, NoneFailed, OneFailed, OnTime
<1>7. CASE j # "heartbeat"
  <2>1. (Pending' <=> Pending) /\ ~Unheard' /\ agent'.at \in {"poll", "report"} /\ agent'.for = 0
    BY <1>1, <1>7 DEF Pending, Unheard, Jobs
  <2>2. ASSUME Pending
        PROVE  Waited' = Waited
    <3>1. passed' = passed + 1
      BY <1>7, <2>2 DEF Take, Pending
    <3>2. Waited' = Span(passed + 1) + 0
      BY <2>1, <3>1 DEF Waited, Span
    <3> QED BY <1>4, <1>5, <3>2, Times, Bounds
  <2>3. NoneFailed'
    BY <1>1, <1>2, <1>3, <2>1, <2>2 DEF Forgiving, NoneFailed, OnTime
  <2>4. OneFailed'
    BY <1>1, <1>2, <1>3, <2>1, <2>2 DEF Forgiving, OneFailed
  <2> QED BY <2>3, <2>4 DEF Forgiving
<1> QED BY <1>6, <1>7

\* What the end of a job does to the loop.
LEMMA Returned ==
  ASSUME TypeInv, Punctual, passed <= Unlucky, Busy, Return
  PROVE  /\ agent'.for = 0 /\ ~Late' /\ ~Unheard'
         /\ agent.at = "hello" => agent'.at = "firstSync"
         /\ agent.at # "hello" => agent'.at = "select" /\ passed' = passed
         /\ agent.at = "firstSync" => ~Pending' /\ SinceTick' = 0
         /\ agent.at \in Jobs => /\ (Pending' <=> Pending) /\ SinceTick' = SinceTick
                                /\ Waited' = Span(passed) + Answer
         /\ agent.at \in {"hello", "firstSync"} \cup Jobs
<1>1. /\ agent'.for = 0
      /\ agent.at = "hello" => agent'.at = "firstSync"
      /\ agent.at # "hello" => agent'.at = "select" /\ passed' = passed
      /\ agent'.at \in {"firstSync", "select"}
  <2>1. CASE agent.at = "hello"
    <3>1. agent' = [at |-> "firstSync", for |-> 0]
      BY <2>1 DEF Return
    <3> QED BY <2>1, <3>1
  <2>2. CASE agent.at # "hello"
    <3>1. agent' = [at |-> "select", for |-> 0] /\ passed' = passed
      BY <2>2 DEF Return
    <3> QED BY <2>2, <3>1
  <2> QED BY <2>1, <2>2
<1>2. ~Late' /\ ~Unheard'
  <2>1. agent'.for = 0 /\ agent'.at # "heartbeat"
    BY <1>1
  <2>2. ~(0 > Answer)
    BY Bounds
  <2> QED BY <2>1, <2>2, Zenon DEF Late, Unheard
<1>3. agent.at = "firstSync" => ~Pending' /\ SinceTick' = 0
  <2>1. "heartbeat" \in Jobs
    BY DEF Jobs
  <2>2. ASSUME agent.at = "firstSync"
        PROVE  left' = Period /\ due' = {}
    BY <2>2 DEF Return
  <2>3. Period["heartbeat"] \in Nat
    BY <2>1, Bounds
  <2>4. ASSUME agent.at = "firstSync"
        PROVE  ~Pending'
    BY <2>2, <2>4 DEF Pending
  <2>5. ASSUME agent.at = "firstSync"
        PROVE  SinceTick' = 0
    <3>1. SinceTick' = Period["heartbeat"] - Period["heartbeat"]
      BY <2>2, <2>5 DEF SinceTick, Beat
    <3> QED BY <2>3, <3>1
  <2> QED BY <2>4, <2>5
<1>4. agent.at \in Jobs => UNCHANGED <<left, due>>
  BY DEF Return, Jobs
<1>5. agent.at \in Jobs => (Pending' <=> Pending) /\ SinceTick' = SinceTick
  BY <1>4 DEF Pending, SinceTick, Beat
<1>6. agent.at \in Jobs => Waited' = Span(passed) + Answer
  <2>1. agent.at \in Jobs => Waited' = Span(passed + 1)
    BY <1>1 DEF Waited, Span, Jobs
  <2> QED BY <2>1, Times, SpanGrows
<1>7. agent.at \in {"hello", "firstSync"} \cup Jobs
  BY DEF Busy, TypeInv, HeartbeatTypeOK, Steps
<1> QED BY <1>1, <1>2, <1>3, <1>5, <1>6, <1>7

\* The numbers and lengths of time at a step that ends a job.
LEMMA Lengths ==
  ASSUME TypeInv, Punctual, passed <= Unlucky
  PROVE  /\ node.seen \in Nat /\ agent.for \in Nat /\ agent.for <= Timeout
         /\ Answer \in Nat /\ Timeout \in Nat /\ Beat \in Nat /\ Gap \in Nat /\ SinceTick \in Nat
         /\ Span(passed) \in Nat /\ Span(passed) <= Span(Unlucky) /\ Span(Unlucky) \in Nat
         /\ Span(2) = 2 * Answer
         /\ Span(Unlucky + 1) = Span(Unlucky) + Answer
         /\ Span(Unlucky + 2) = Span(Unlucky) + 2 * Answer
         /\ Span(Unlucky + 3) = Span(Unlucky) + 3 * Answer
         /\ SinceTick < Beat /\ Timeout <= Beat + Answer /\ Span(Unlucky) + Answer < Beat
         /\ Gap >= 2 * Beat + 2 * Answer /\ Gap >= Beat + Timeout + Span(Unlucky) + 2 * Answer
BY Times, SpanTimes, SpanGrows, Bounds

LEMMA SucceedForgives ==
  ASSUME TypeInv, Punctual, Forgiving, passed <= Unlucky, Succeed, ~Late
  PROVE  Forgiving'
<1>1. Busy /\ Return
  BY DEF Succeed
<1>2. node' = node /\ trouble' = trouble /\ agent.for <= Answer /\ ~Late /\ ~Unheard
  BY Lengths DEF Succeed, Late, Unheard, Beating
<1>3. agent'.for = 0 /\ ~Late' /\ ~Unheard' /\ agent.at \in {"hello", "firstSync"} \cup Jobs
  BY <1>1, Returned
<1>4. CASE agent.at = "hello"
  <2>1. agent'.at = "firstSync" /\ ~TickersRun'
    BY <1>1, <1>4, Returned DEF TickersRun
  <2>2. NoneFailed'
    BY <1>2, <1>3, <1>4, <2>1, Lengths DEF Forgiving, NoneFailed
  <2>3. OneFailed'
    BY <1>2, <1>3, <1>4, <2>1 DEF Forgiving, OneFailed
  <2> QED BY <2>2, <2>3 DEF Forgiving
<1>5. CASE agent.at = "firstSync"
  <2>1. agent'.at = "select" /\ ~Pending' /\ SinceTick' = 0
    BY <1>1, <1>5, Returned
  <2>2. NoneFailed'
    BY <1>2, <1>3, <1>5, <2>1, Lengths DEF Forgiving, NoneFailed
  <2>3. OneFailed'
    BY <1>2, <1>3, <1>5, <2>1, Lengths DEF Forgiving, OneFailed
  <2> QED BY <2>2, <2>3 DEF Forgiving
<1>6. CASE agent.at \in Jobs
  <2>1. agent.at \notin {"hello", "firstSync", "down"}
    BY <1>6 DEF Jobs
  <2>2. /\ agent'.at = "select" /\ SinceTick' = SinceTick /\ Waited' = Span(passed) + Answer
        /\ (Pending' <=> Pending)
    BY <1>1, <1>6, <2>1, Returned
  <2>3. TickersRun /\ TickersRun' /\ Waited = Span(passed) + agent.for
    BY <1>6, <2>1, <2>2 DEF TickersRun, Waited, Jobs
  <2>4. Waited <= Waited' /\ Waited \in Nat /\ Waited' \in Nat
    BY <1>2, <2>2, <2>3, Lengths
  <2>5. OnTime => OnTime'
    BY <1>2, <2>2, <2>4, Lengths DEF OnTime
  <2>6. NoneFailed'
    BY <1>2, <1>3, <2>2, <2>3, <2>4, <2>5, Lengths DEF Forgiving, NoneFailed
  <2>7. OneFailed'
    BY <1>2, <1>3, <2>2, <2>3, <2>4, Lengths DEF Forgiving, OneFailed
  <2> QED BY <2>6, <2>7 DEF Forgiving
<1> QED BY <1>3, <1>4, <1>5, <1>6

\* A job that failed, or that succeeded after Answer.
LEMMA TroubleForgives ==
  ASSUME TypeInv, Punctual, Forgiving, passed <= Unlucky, Busy, Return, node' = node,
         trouble' = More
  PROVE  Forgiving'
<1>1. Busy /\ Return
  OBVIOUS
<1>2. node' = node /\ trouble' = More /\ trouble \in 0..2
  BY DEF TypeInv, HeartbeatTypeOK
<1>3. agent'.for = 0 /\ ~Late' /\ ~Unheard' /\ agent.at \in {"hello", "firstSync"} \cup Jobs
  BY <1>1, Returned
<1>4. CASE trouble # 0
  <2>1. trouble' # 0 /\ trouble' # 1
    BY <1>2, <1>4 DEF More
  <2> QED BY <2>1, Zenon DEF Forgiving, NoneFailed, OneFailed
<1>5. CASE trouble = 0
  <2>1. trouble' = 1
    BY <1>2, <1>5 DEF More
  <2>2. NoneFailed'
    BY <2>1 DEF NoneFailed
  <2>3. CASE agent.at = "hello"
    <3>1. agent'.at = "firstSync" /\ ~TickersRun'
      BY <1>1, <2>3, Returned DEF TickersRun
    <3>2. OneFailed'
      BY <1>2, <1>3, <1>5, <2>1, <2>3, <3>1, Lengths DEF Forgiving, NoneFailed, OneFailed
    <3> QED BY <2>2, <3>2 DEF Forgiving
  <2>4. CASE agent.at = "firstSync"
    <3>1. agent'.at = "select" /\ ~Pending' /\ SinceTick' = 0
      BY <1>1, <2>4, Returned
    <3>2. OneFailed'
      BY <1>2, <1>3, <1>5, <2>1, <2>4, <3>1, Lengths DEF Forgiving, NoneFailed, OneFailed
    <3> QED BY <2>2, <3>2 DEF Forgiving
  <2>5. CASE agent.at \in Jobs
    <3>1. agent.at \notin {"hello", "firstSync", "down"}
      BY <2>5 DEF Jobs
    <3>2. /\ agent'.at = "select" /\ SinceTick' = SinceTick /\ Waited' = Span(passed) + Answer
          /\ (Pending' <=> Pending)
      BY <1>1, <2>5, <3>1, Returned
    <3>3. TickersRun /\ TickersRun' /\ Waited = Span(passed) + agent.for
      BY <2>5, <3>1, <3>2 DEF TickersRun, Waited, Jobs
    <3>4. node.status = "online" =>
            /\ Pending => node.seen <= Gap + Waited'
            /\ ~Pending => node.seen <= Beat + SinceTick + Span(2)
      BY <1>5, <3>2, <3>3, Lengths DEF Forgiving, NoneFailed
    <3>5. OneFailed'
      <4>1. Gap' = Gap /\ Beat' = Beat
        BY DEF Gap, Beat
      <4> QED BY <1>2, <1>3, <3>2, <3>3, <3>4, <4>1 DEF OneFailed
    <3> QED BY <2>2, <3>5 DEF Forgiving
  <2> QED BY <1>3, <2>3, <2>4, <2>5
<1> QED BY <1>4, <1>5
\* A heartbeat that came through sets the time to zero; an agent that has ended meanwhile,
\* or a node that was deleted, owes nothing.
LEMMA TouchForgives ==
  ASSUME TypeInv, Punctual, Forgiving, passed <= Unlucky, Touch
  PROVE  Forgiving'
<1>1. /\ agent' = agent /\ left' = left /\ due' = due /\ passed' = passed
      /\ trouble' = (IF agent.at = "down" THEN 2 ELSE 0)
  BY Bounds DEF Touch, TypeInv, HeartbeatTypeOK
<1>2. CASE agent.at = "down"
  <2>1. trouble' # 0 /\ trouble' # 1
    BY <1>1, <1>2
  <2> QED BY <2>1, Zenon DEF Forgiving, NoneFailed, OneFailed
<1>3. CASE node.status = "deleted"
  <2>1. node'.status # "online"
    BY <1>3 DEF Touch
  <2> QED BY <2>1, Zenon DEF Forgiving, NoneFailed, OneFailed
<1>4. CASE agent.at # "down" /\ node.status # "deleted"
  <2>1. node'.seen = 0 /\ beat' = "done" /\ trouble' = 0
    BY <1>1, <1>4 DEF Touch
  <2>2. ~Unheard' /\ Waited' = Waited /\ SinceTick' = SinceTick
    BY <1>1, <2>1 DEF Unheard, Waited, SinceTick, Beat, Span
  <2>3. Waited \in Nat
    <3>1. Span(passed + 1) \in Nat /\ Span(passed) \in Nat /\ agent.for \in Nat
      BY Times, SpanGrows, Bounds
    <3> QED BY <3>1 DEF Waited
  <2>4. NoneFailed'
    BY <1>1, <1>4, <2>1, <2>2, <2>3, Lengths DEF NoneFailed, OnTime
  <2>5. OneFailed'
    BY <2>1 DEF OneFailed
  <2> QED BY <2>4, <2>5 DEF Forgiving
<1> QED BY <1>2, <1>3, <1>4

\* The control plane's other steps leave the agent alone; its end may lose the request
\* of a heartbeat that was through, whose agent then waits for an answer.
LEMMA ControlPlaneForgives ==
  ASSUME TypeInv, Punctual, Forgiving, passed <= Unlucky, Sweep \/ Restart \/ DeleteNode
  PROVE  Forgiving'
<1>1. /\ agent' = agent /\ left' = left /\ due' = due /\ passed' = passed /\ trouble' = trouble
      /\ node' = node \/ node'.status # "online"
  BY DEF Sweep, Restart, DeleteNode, TypeInv, HeartbeatTypeOK
<1>2. CASE node'.status # "online"
  BY <1>2, Zenon DEF Forgiving, NoneFailed, OneFailed
<1>3. CASE node' = node
  <2>1. /\ SinceTick' = SinceTick /\ Waited' = Waited /\ (Late' <=> Late) /\ (Pending' <=> Pending)
        /\ (TickersRun' <=> TickersRun)
    BY <1>1 DEF SinceTick, Beat, Waited, Span, Late, Busy, Pending, TickersRun
  <2>2. OnTime' <=> OnTime
    BY <1>3, <2>1 DEF OnTime, Beat, Span
  <2>3. Unheard => Unheard'
    BY <1>1 DEF Unheard, Sweep, Restart, DeleteNode, Down, Up
  <2>4. ASSUME Unheard', ~Unheard
        PROVE  /\ TickersRun /\ Waited = Span(passed) + agent.for
               /\ agent.at \notin {"down", "hello", "firstSync"}
    BY <1>1, <2>4 DEF Unheard, TickersRun, Waited
  <2>5. NoneFailed'
    BY <1>1, <1>3, <2>1, <2>2, <2>3, <2>4, Lengths DEF Forgiving, NoneFailed, OnTime
  <2>6. OneFailed'
    BY <1>1, <1>3, <2>1, <2>3, <2>4, Lengths DEF Forgiving, OneFailed
  <2> QED BY <2>5, <2>6 DEF Forgiving
<1> QED BY <1>1, <1>2, <1>3
\* As a unit of time goes by, a heartbeat that nobody took waits on; with its tick it
\* begins to wait, if none did: the one that waits before it would have been taken.
LEMMA TickForgives ==
  ASSUME TypeInv, Punctual, Forgiving, passed <= Unlucky, Tick
  PROVE  Forgiving'
<1>1. /\ node'.status = node.status /\ node'.seen <= node.seen + 1 /\ node'.seen \in Nat
      /\ trouble' = trouble /\ beat' = beat /\ passed' = passed /\ agent'.at = agent.at
  BY Bounds DEF Tick, TypeInv, HeartbeatTypeOK
<1>2. agent'.for = (IF Busy THEN agent.for + 1 ELSE 0)
  BY DEF Tick, TypeInv, HeartbeatTypeOK
<1>3. /\ (Unheard' <=> Unheard) /\ (TickersRun' <=> TickersRun) /\ (Busy' <=> Busy)
      /\ (Late => Late')
  BY <1>1, <1>2, Lengths DEF Unheard, TickersRun, Busy, Late
<1>4. "heartbeat" \in Jobs /\ left["heartbeat"] \in Nat \ {0}
  BY DEF Jobs, TypeInv, LeftInv
<1>5. ASSUME TickersRun
      PROVE  /\ Pending => Pending'
             /\ SinceTick # Beat - 1 => SinceTick' = SinceTick + 1 /\ (Pending' <=> Pending)
             /\ SinceTick = Beat - 1 => SinceTick' = 0 /\ Pending'
  <2>1. /\ left' = [j \in Jobs |-> IF left[j] = 1 THEN Period[j] ELSE left[j] - 1]
        /\ due' = due \cup {j \in Jobs : left[j] = 1}
    BY <1>5 DEF Tick
  <2>2. left'["heartbeat"] = (IF left["heartbeat"] = 1 THEN Beat ELSE left["heartbeat"] - 1)
    BY <1>4, <2>1 DEF Beat
  <2>3. Pending' <=> Pending \/ left["heartbeat"] = 1
    BY <1>4, <2>1 DEF Pending
  <2>4. SinceTick = Beat - left["heartbeat"] /\ SinceTick' = Beat - left'["heartbeat"]
    BY DEF SinceTick, Beat
  <2> QED BY <1>4, <2>2, <2>3, <2>4, Lengths
<1>6. Pending => Busy \/ agent.at = "down"
  BY DEF Tick, Pending, Busy
<1>7. ASSUME TickersRun, Busy
      PROVE  /\ Waited = Span(passed) + agent.for /\ Waited' = Span(passed) + agent.for + 1
             /\ agent'.for = agent.for + 1
  BY <1>1, <1>2, <1>7, Lengths DEF Waited, TickersRun, Busy, Span
<1>8. Waited' \in Nat
  <2>1. Span(passed + 1) \in Nat /\ Span(passed) \in Nat
    BY Times, SpanGrows, Bounds
  <2>2. Waited' = IF agent.at = "select" THEN Span(passed + 1) ELSE Span(passed) + agent'.for
    BY <1>1 DEF Waited, Span
  <2> QED BY <1>2, <2>1, <2>2, Lengths
<1>9. NoneFailed'
  <2> SUFFICES ASSUME node'.status = "online", trouble' = 0
               PROVE  NoneFailed'
    BY DEF NoneFailed
  <2>1. NoneFailed /\ node.status = "online" /\ trouble = 0
    BY <1>1 DEF Forgiving
  <2>2. CASE agent.at \in {"down", "hello", "firstSync"}
    <3>1. ~TickersRun' /\ ~Unheard' /\ (agent.at # "down" => Busy)
      BY <1>1, <2>2 DEF TickersRun, Unheard, Busy
    <3> QED BY <1>1, <1>2, <2>1, <2>2, <3>1, Lengths DEF NoneFailed
  <2>3. CASE Unheard
    <3>1. TickersRun /\ Busy /\ agent.at = "heartbeat"
      BY <2>3 DEF Unheard, TickersRun, Busy
    <3> QED BY <1>1, <1>2, <1>3, <1>5, <2>1, <2>3, <3>1, Lengths DEF NoneFailed
  <2>4. CASE TickersRun /\ ~Unheard /\ Pending
    <3>1. Busy /\ agent.at \notin {"down", "hello", "firstSync"}
      BY <1>6, <2>4 DEF TickersRun
    <3>2. ~Late' => OnTime'
      <4> SUFFICES ASSUME ~Late'
                   PROVE  OnTime'
        OBVIOUS
      <4>1. agent.for + 1 <= Answer /\ ~Late
        BY <1>2, <1>3, <3>1, Lengths DEF Late
      <4>2. OnTime
        BY <2>1, <2>4, <4>1 DEF NoneFailed
      <4>3. Beat' = Beat /\ Span(2)' = Span(2)
        BY DEF Beat, Span
      <4>4. CASE SinceTick = Beat - 1
        <5>1. Waited < SinceTick
          BY <1>7, <2>4, <3>1, <4>1, <4>4, Lengths
        <5>2. node.seen <= SinceTick + Span(2)
          BY <4>2, <5>1, Lengths, <1>7, <2>4, <3>1 DEF OnTime
        <5> QED BY <1>1, <1>5, <1>8, <2>4, <4>3, <4>4, <5>2, Lengths DEF OnTime
      <4>5. CASE SinceTick # Beat - 1
        BY <1>1, <1>5, <1>7, <2>4, <3>1, <4>2, <4>3, <4>5, Lengths DEF OnTime
      <4> QED BY <4>4, <4>5
    <3> QED BY <1>1, <1>3, <1>5, <1>7, <2>1, <2>4, <3>1, <3>2, Lengths DEF NoneFailed
  <2>5. CASE TickersRun /\ ~Unheard /\ ~Pending
    <3>1. agent.at \notin {"down", "hello", "firstSync"}
      BY <2>5 DEF TickersRun
    <3>2. Beat' = Beat /\ Span(2)' = Span(2)
      BY DEF Beat, Span
    <3>3. Pending' => SinceTick' = 0 /\ node.seen <= Beat - 1 + Span(2)
      BY <1>5, <2>1, <2>5, Lengths DEF NoneFailed
    <3>4. Pending' => OnTime'
      BY <1>1, <1>8, <3>2, <3>3, Lengths DEF OnTime
    <3>5. ~Pending' => SinceTick' = SinceTick + 1
      BY <1>5, <2>5
    <3> QED BY <1>1, <1>3, <1>8, <2>1, <2>5, <3>1, <3>3, <3>4, <3>5, Lengths DEF NoneFailed
  <2> QED BY <2>2, <2>3, <2>4, <2>5, Zenon DEF TickersRun
<1>10. OneFailed'
  <2> SUFFICES ASSUME node'.status = "online", trouble' = 1, ~Late'
               PROVE  OneFailed'
    BY DEF OneFailed
  <2>1. OneFailed /\ node.status = "online" /\ trouble = 1 /\ ~Late
    BY <1>1, <1>3 DEF Forgiving
  <2>2. CASE agent.at \in {"down", "hello", "firstSync"}
    <3>1. ~TickersRun' /\ ~Unheard' /\ (agent.at # "down" => Busy)
      BY <1>1, <2>2 DEF TickersRun, Unheard, Busy
    <3> QED BY <1>1, <1>2, <2>1, <2>2, <3>1, Lengths DEF OneFailed
  <2>3. CASE Unheard
    <3>1. TickersRun /\ Busy /\ agent.at = "heartbeat"
      BY <2>3 DEF Unheard, TickersRun, Busy
    <3> QED BY <1>1, <1>2, <1>3, <2>1, <2>3, <3>1, Lengths DEF OneFailed
  <2>4. CASE TickersRun /\ ~Unheard /\ Pending
    <3>1. Busy /\ agent.at \notin {"down", "hello", "firstSync"}
      BY <1>6, <2>4 DEF TickersRun
    <3> QED BY <1>1, <1>3, <1>5, <1>7, <2>1, <2>4, <3>1, Lengths DEF OneFailed
  <2>5. CASE TickersRun /\ ~Unheard /\ ~Pending
    <3>1. agent.at \notin {"down", "hello", "firstSync"}
      BY <2>5 DEF TickersRun
    <3>2. node.seen <= Beat + SinceTick + Span(2)
      BY <2>1, <2>5 DEF OneFailed
    <3> QED BY <1>1, <1>3, <1>5, <1>8, <2>1, <2>5, <3>1, <3>2, Lengths DEF OneFailed
  <2> QED BY <2>2, <2>3, <2>4, <2>5, Zenon DEF TickersRun
<1> QED BY <1>9, <1>10 DEF Forgiving

LEMMA NextForgives ==
  ASSUME TypeInv, Punctual, Forgiving, LuckRunsOut, [HeartbeatNext]_heartbeatVars
  PROVE  Forgiving' /\ LuckRunsOut'
<1>1. CASE UNCHANGED heartbeatVars
  BY <1>1 DEF heartbeatVars, Forgiving, NoneFailed, OneFailed, Unheard, Pending, TickersRun,
     Waited, OnTime, SinceTick, Late, Busy, Beat, Span, Gap, LuckRunsOut
<1> SUFFICES ASSUME HeartbeatNext
             PROVE  Forgiving' /\ LuckRunsOut'
  BY <1>1
<1>2. LuckRunsOut'
  <2>1. ASSUME NEW j \in Jobs, Take(j) PROVE LuckRunsOut'
    BY <2>1 DEF Take, LuckRunsOut
  <2>2. CASE Crash
    BY <2>2, Bounds DEF Crash, LuckRunsOut
  <2>3. CASE Succeed \/ Fail
    <3>1. passed' = passed /\ (trouble = 2 => trouble' = 2)
      BY <2>3 DEF Succeed, Fail, Return, More
    <3> QED BY <3>1 DEF LuckRunsOut
  <2>4. CASE Touch
    BY <2>4 DEF Touch, LuckRunsOut
  <2>5. CASE Start \/ Sweep \/ Restart \/ DeleteNode \/ Tick
    <3>1. passed' = passed /\ trouble' = trouble
      BY <2>5 DEF Start, Sweep, Restart, DeleteNode, Tick
    <3> QED BY <3>1 DEF LuckRunsOut
  <2> QED BY <2>1, <2>2, <2>3, <2>4, <2>5 DEF HeartbeatNext
<1>3. CASE trouble' = 2
  <2>1. trouble' # 0 /\ trouble' # 1
    BY <1>3
  <2> QED BY <1>2, <2>1, Zenon DEF Forgiving, NoneFailed, OneFailed
<1>4. CASE trouble' # 2
  <2>1. passed \in 0..(Unlucky + 1) /\ passed' \in 0..(Unlucky + 1)
    BY NextTyped DEF TypeInv, HeartbeatTypeOK
  <2>2. passed' <= Unlucky
    BY <1>2, <1>4, <2>1, Bounds DEF LuckRunsOut
  <2>3. ASSUME passed > Unlucky PROVE FALSE
    <3>1. trouble = 2
      BY <2>3 DEF LuckRunsOut
    <3> QED
      BY <1>4, <2>3, <3>1
      DEF HeartbeatNext, Start, Take, Succeed, Fail, More, Crash, Touch, Sweep, Restart,
          DeleteNode, Tick
  <2>4. passed <= Unlucky
    BY <2>1, <2>3, Bounds
  <2>5. CASE Succeed
    <3>1. CASE ~Late
      BY <1>2, <2>4, <2>5, <3>1, SucceedForgives
    <3>2. CASE Late
      <4>1. Busy /\ Return /\ node' = node /\ trouble' = More
        BY <2>5, <3>2 DEF Succeed
      <4> QED BY <1>2, <2>4, <4>1, TroubleForgives
    <3> QED BY <3>1, <3>2
  <2>6. CASE Fail
    <3>1. Busy /\ Return /\ node' = node /\ trouble' = More
      BY <2>6 DEF Fail
    <3> QED BY <1>2, <2>4, <3>1, TroubleForgives
  <2>7. CASE Crash
    BY <1>4, <2>7 DEF Crash
  <2> QED
    BY <1>2, <2>2, <2>4, <2>5, <2>6, <2>7, StartForgives, TakeForgives, TouchForgives,
       ControlPlaneForgives, TickForgives DEF HeartbeatNext
<1> QED BY <1>3, <1>4, <1>2

\* The sweep finds no node beyond the cutoff before two of its jobs failed.
LEMMA SweepForgives ==
  ASSUME TypeInv, Punctual, Forgiving, LuckRunsOut, HeartbeatNext,
         node.status = "online", node'.status = "offline"
  PROVE  trouble = 2 \/ (trouble = 1 /\ Late)
<1>0. passed <= Unlucky \/ trouble = 2
  BY Bounds DEF TypeInv, HeartbeatTypeOK, LuckRunsOut
<1> SUFFICES ASSUME passed <= Unlucky
             PROVE  trouble = 2 \/ (trouble = 1 /\ Late)
  BY <1>0
<1>1. node.seen > Cutoff
  <2>1. CASE Sweep
    BY <2>1 DEF Sweep, Stale, TypeInv, HeartbeatTypeOK
  <2>2. CASE UNCHANGED node
    BY <2>2
  <2>3. CASE Touch \/ DeleteNode \/ Tick
    BY <2>3 DEF Touch, DeleteNode, Tick, TypeInv, HeartbeatTypeOK
  <2> QED BY <2>1, <2>2, <2>3 DEF HeartbeatNext, Start, Take, Succeed, Fail, Crash, Restart
<1>2. ~Late => (Busy /\ agent.for <= Answer) \/ agent.at \in {"down", "select"}
  BY Lengths DEF Late, Busy
<1>3. /\ Waited \in Nat /\ Waited <= Span(Unlucky) + Timeout
      /\ ~Late => Waited <= Span(Unlucky) + Answer \/ agent.at = "down"
  <2>1. Span(passed + 1) = Span(passed) + Answer
    BY Times, SpanGrows
  <2>2. Answer <= Timeout
    BY Bounds
  <2> QED BY <1>2, <2>1, <2>2, Lengths DEF Waited
<1>4. /\ Beat + Timeout + 2 * Span(Unlucky) + 4 * Answer <= Cutoff /\ Cutoff \in Nat
      /\ Gap + Span(Unlucky) + 2 * Answer <= Cutoff
  BY Times, SpanTimes, Bounds
<1>5. TickersRun <=> agent.at \notin {"down", "hello", "firstSync"}
  BY DEF TickersRun
<1>6. trouble # 0
  BY <1>1, <1>3, <1>4, <1>5, Lengths DEF Forgiving, NoneFailed
<1>7. trouble = 1 => Late
  <2>1. Unheard => agent.at = "heartbeat"
    BY DEF Unheard
  <2> SUFFICES ASSUME trouble = 1, ~Late
               PROVE  FALSE
    OBVIOUS
  <2>2. /\ agent.at \notin {"down", "hello"}
        /\ agent.at = "firstSync" => node.seen <= Timeout + agent.for
        /\ Unheard => node.seen <= Gap + Span(Unlucky + 1) + agent.for
        /\ Pending /\ ~Unheard /\ TickersRun => node.seen <= Gap + Waited
        /\ ~Pending /\ ~Unheard /\ TickersRun => node.seen <= Beat + SinceTick + Span(2)
    BY Zenon DEF Forgiving, OneFailed
  <2>3. agent.at \in {"firstSync", "heartbeat"} => agent.for <= Answer
    BY <1>2
  <2> QED BY <1>1, <1>3, <1>4, <1>5, <2>1, <2>2, <2>3, Lengths
<1> QED BY <1>6, <1>7 DEF TypeInv, HeartbeatTypeOK

\* The promise of "more than three intervals" (PRD:528) from the other side: for all times
\* that leave room for it, as the defaults do, a node whose agent runs is shown offline
\* only after two of its jobs failed or took longer than Answer, or a due heartbeat was
\* passed over more than Unlucky times.
THEOREM OneFailureNeverCounts == ASSUME Punctual PROVE HeartbeatSpec => OneFailureIsForgiven
<1> DEFINE I == TypeInv /\ Forgiving /\ LuckRunsOut
<1>1. HeartbeatInit => I
  BY InitTyped, InitForgives, Bounds DEF HeartbeatInit, LuckRunsOut
<1>2. I /\ [HeartbeatNext]_heartbeatVars => I'
  BY NextTyped, NextForgives
<1>3. I /\ [HeartbeatNext]_heartbeatVars
      => [node.status = "online" /\ node'.status = "offline" =>
            trouble = 2 \/ (trouble = 1 /\ Late)]_heartbeatVars
  BY SweepForgives
<1> QED BY <1>1, <1>2, <1>3, PTL DEF HeartbeatSpec, OneFailureIsForgiven

=============================================================================

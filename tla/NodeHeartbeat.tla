---------------------------- MODULE NodeHeartbeat ----------------------------
(***************************************************************************)
(* How the control plane knows that a node lives: the agent's loop         *)
(* (nodeagent/agent.go Run), POST /node/heartbeat (httpapi/nodes.go), the  *)
(* table nodes (store/nodes.go) and the sweep of cmd/api/main.go.          *)
(*                                                                         *)
(* The agent does one job at a time, so a slow poll or report delays the   *)
(* heartbeat.  Both times of a comparison are the database's now().        *)
(***************************************************************************)
EXTENDS Naturals

CONSTANTS
  Period,        \* the agent's tickers: heartbeat, poll, report (30, 15, 10 s)
  Interval,      \* NodeHeartbeatSecs of the API process (30 s)
  Timeout,       \* http.Client.Timeout (20 s): no job takes longer
  Answer,        \* for OneFailureIsForgiven: a job that takes longer counts as failed
  Unlucky        \* for OneFailureIsForgiven: how often in a row select, which picks at
                 \* random, may pass over a due heartbeat before that counts as two

Jobs == {"heartbeat", "poll", "report"}

ASSUME HeartbeatAssumption ==
  /\ Period \in [Jobs -> Nat \ {0}]
  /\ Interval \in Nat \ {0} /\ Answer \in 1..Timeout /\ {Timeout, Unlucky} \subseteq Nat

VARIABLES
  node,          \* the row: status, and the time since last_seen_at
  agent,         \* what the loop is doing, and for how long
  left, due,     \* the agent's tickers: time to the next tick, ticks not yet taken
  passed,        \* how often the heartbeat has been passed over, counted to Unlucky + 1
  beat,          \* the last heartbeat request: "sent" to the database, "done" there, or "none"
  api,           \* the API process: down, up, or up and its last sweep worked
  sweepIn,       \* time to the next sweep
  trouble        \* history, since last_seen_at was set: jobs that failed or took longer
                 \* than Answer, capped at two; two also for an agent that was not
                 \* running, and for a heartbeat passed over more than Unlucky times

heartbeatVars == <<node, agent, left, due, passed, beat, api, sweepIn, trouble>>

Cutoff == 3 * Interval
Old == Cutoff + Interval + 1       \* bound: longer times are not told apart
Statuses == {"pending", "online", "offline"}
Steps == {"down", "hello", "firstSync", "select"} \cup Jobs

HeartbeatTypeOK ==
  /\ node \in [status : Statuses \cup {"deleted"}, seen : 0..Old]
  /\ agent \in [at : Steps, for : 0..Timeout]
  /\ left \in [Jobs -> Nat] /\ \A j \in Jobs : left[j] <= Period[j]
  /\ due \subseteq Jobs /\ passed \in 0..(Unlucky + 1)
  /\ beat \in {"none", "sent", "done"} /\ api \in {"down", "up", "swept"}
  /\ sweepIn \in 0..Interval /\ trouble \in 0..2

HeartbeatInit ==
  /\ node = [status |-> "pending", seen |-> Old]       \* CreateNode
  /\ agent = [at |-> "down", for |-> 0]
  /\ left = Period /\ due = {} /\ passed = 0
  /\ beat = "none"
  /\ api = "up" /\ sweepIn = Interval
  /\ trouble = 2

-----------------------------------------------------------------------------
(* The agent                                                                 *)

\* Run: a heartbeat before anything else.
Start ==
  /\ agent.at = "down"
  /\ agent' = [at |-> "hello", for |-> 0] /\ beat' = "sent"
  /\ UNCHANGED <<node, left, due, passed, api, sweepIn, trouble>>

\* One of the channels that are ready, any of them.
Take(j) ==
  /\ agent.at = "select" /\ j \in due
  /\ due' = due \ {j}
  /\ passed' = IF j = "heartbeat" \/ "heartbeat" \notin due THEN 0
               ELSE IF passed > Unlucky THEN passed ELSE passed + 1
  /\ trouble' = IF passed' > Unlucky THEN 2 ELSE trouble
  /\ agent' = [at |-> j, for |-> 0]
  /\ beat' = IF j = "heartbeat" THEN "sent" ELSE beat
  /\ UNCHANGED <<node, left, api, sweepIn>>

Beating == agent.at \in {"hello", "heartbeat"}
Busy == agent.at \notin {"down", "select"}
Late == Busy /\ agent.for > Answer

\* After the two first jobs the tickers start.
Return ==
  IF agent.at = "hello"
  THEN agent' = [at |-> "firstSync", for |-> 0] /\ UNCHANGED <<left, due, passed>>
  ELSE /\ agent' = [at |-> "select", for |-> 0]
       /\ passed' = passed
       /\ IF agent.at = "firstSync" THEN left' = Period /\ due' = {} ELSE UNCHANGED <<left, due>>

More == IF trouble = 2 THEN 2 ELSE trouble + 1

\* A job is done: a heartbeat, if its request came through.
Succeed ==
  /\ Busy
  /\ api # "down" /\ (Beating => beat = "done")
  /\ Return
  /\ trouble' = IF Late THEN More ELSE trouble
  /\ UNCHANGED <<node, beat, api, sweepIn>>

\* It fails, which is logged; the request may be lost, or come through later.
Fail ==
  /\ Busy
  /\ Return
  /\ beat' \in {"none", beat}
  /\ trouble' = More
  /\ UNCHANGED <<node, api, sweepIn>>

Crash ==
  /\ agent.at # "down"
  /\ agent' = [at |-> "down", for |-> 0]
  /\ left' = Period /\ due' = {} /\ passed' = 0
  /\ beat' \in {"none", beat}
  /\ trouble' = 2
  /\ UNCHANGED <<node, api, sweepIn>>

-----------------------------------------------------------------------------
(* The control plane                                                         *)

\* Mutant: a node that is not pending keeps its time.
TouchStatusOnly ==
  /\ beat = "sent" /\ api # "down" /\ beat' = "done"
  /\ node' = IF node.status = "deleted" THEN node
             ELSE [status |-> "online", seen |-> IF node.status = "pending" THEN 0 ELSE node.seen]
  /\ trouble' = IF agent.at = "down" \/ passed > Unlucky THEN 2 ELSE 0
  /\ UNCHANGED <<agent, left, due, passed, api, sweepIn>>

\* handleNodeHeartbeat: authenticateNode and TouchNodeHeartbeat, for a node that exists.
Touch ==
  /\ beat = "sent" /\ api # "down"
  /\ IF node.status = "deleted" THEN node' = node /\ beat' = "none"
     ELSE node' = [status |-> "online", seen |-> 0] /\ beat' = "done"
  /\ trouble' = IF agent.at = "down" \/ passed > Unlucky THEN 2 ELSE 0
  /\ UNCHANGED <<agent, left, due, passed, api, sweepIn>>

\* Mutant: the cutoff is a single interval.
StaleAfterOne == node.status = "online" /\ node.seen > Interval

\* The rows MarkStaleNodesOffline updates.
Stale == node.status = "online" /\ node.seen > Cutoff

\* The ticker of main.go; the statement's error is ignored.
Sweep ==
  /\ api # "down" /\ sweepIn = 0
  /\ sweepIn' = Interval
  /\ \/ /\ api' = "swept"
        /\ node' = IF Stale THEN [node EXCEPT !.status = "offline"] ELSE node
     \/ api' = "up" /\ node' = node
  /\ UNCHANGED <<agent, left, due, passed, beat, trouble>>

\* The API process ends, and starts again; the requests it was serving are lost.
Down == api # "down" /\ api' = "down" /\ beat' = "none" /\ UNCHANGED sweepIn
Up == api = "down" /\ api' = "up" /\ sweepIn' = Interval /\ UNCHANGED beat

Restart ==
  /\ Down \/ Up
  /\ UNCHANGED <<node, agent, left, due, passed, trouble>>

\* DELETE /me/nodes/{id}; PATCH leaves status and time alone.
DeleteNode ==
  /\ api # "down" /\ node.status # "deleted"
  /\ node' = [status |-> "deleted", seen |-> Old]
  /\ UNCHANGED <<agent, left, due, passed, beat, api, sweepIn, trouble>>

-----------------------------------------------------------------------------
TickersRun == agent.at \notin {"down", "hello", "firstSync"}

\* A tick nobody took yet swallows the next one.
Tick ==
  /\ agent.at = "select" => due = {}
  /\ Busy => agent.for < Timeout
  /\ sweepIn = 0 => api = "down"
  /\ agent' = [agent EXCEPT !.for = IF Busy THEN @ + 1 ELSE 0]
  /\ left' = IF TickersRun THEN [j \in Jobs |-> IF left[j] = 1 THEN Period[j] ELSE left[j] - 1]
             ELSE left
  /\ due' = IF TickersRun THEN due \cup {j \in Jobs : left[j] = 1} ELSE due
  /\ sweepIn' = IF api = "down" THEN sweepIn ELSE sweepIn - 1
  /\ node' = [node EXCEPT !.seen = IF @ = Old THEN Old ELSE @ + 1]
  /\ UNCHANGED <<passed, beat, api, trouble>>

HeartbeatNext ==
  \/ Start \/ (\E j \in Jobs : Take(j)) \/ Succeed \/ Fail \/ Crash
  \/ Touch \/ Sweep \/ Restart \/ DeleteNode
  \/ Tick

HeartbeatSpec == HeartbeatInit /\ [][HeartbeatNext]_heartbeatVars

-----------------------------------------------------------------------------
(* Safety                                                                    *)

\* PRD:528, "Node yang tidak heartbeat lebih dari 3x interval secara otomatis ditandai
\* offline": a node that was not heard of for the cutoff and the sweep after it is not
\* shown online, unless that sweep failed or the API process has only just started.
SilentIsOffline ==
  api = "swept" /\ node.status = "online" => node.seen <= Cutoff + Interval

\* The other half: a running node, whose heartbeats wait for polls and reports, is shown
\* offline only after two of its jobs failed or took longer than Answer (the one at hand
\* may be the second), or after select passed over a due heartbeat more than Unlucky
\* times in a row.  The code forbids neither: with the default periods, jobs that succeed
\* but take 10 s, or three passes and one failure, do show a running node offline.
OneFailureIsForgiven ==
  [][node.status = "online" /\ node'.status = "offline" =>
       trouble = 2 \/ (trouble = 1 /\ Late)]_heartbeatVars

=============================================================================

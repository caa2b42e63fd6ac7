--------------------------- MODULE MCNodeHeartbeat ---------------------------
(* A finite instance of NodeHeartbeat, in units of 5 s.                        *)
EXTENDS NodeHeartbeat

MCPeriod == [heartbeat |-> 6, poll |-> 3, report |-> 2]

=============================================================================

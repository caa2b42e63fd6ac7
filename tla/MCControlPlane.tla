---------------------------- MODULE MCControlPlane ----------------------------
(* Finite instances of ControlPlane: one configuration per mode, and one that *)
(* is pinned to a node.                                                       *)
EXTENDS ControlPlane, TLC

CONSTANTS h1, h2, kIngest, kTransmux, kProxy, kPinned

MCMode == (kIngest :> "ingest") @@ (kTransmux :> "transmux") @@ (kProxy :> "proxy")
            @@ (kPinned :> "ingest")

MCModeOfConfigs == [k \in Configs |-> MCMode[k]]

\* All but worker_status and the history leftover, which no step of ControlPlane reads
\* and no property of the run mentions.
Seen == <<workers, goroutines, rootDown, status, config, playlists, phase, todo, req, unanswered>>

HandleSymmetry == Permutations(Handles)
BothSymmetry == HandleSymmetry \cup Permutations(Requests)

=============================================================================

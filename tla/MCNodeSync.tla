------------------------------ MODULE MCNodeSync ------------------------------
(* Finite instances of NodeSync: a configuration of each mode on this node    *)
(* and the same ones elsewhere.                                               *)
EXTENDS NodeSync, TLC

CONSTANTS kIngest, kTransmux, kProxy, kIngestAway, kTransmuxAway, kProxyAway

MCMode == (kIngest :> "ingest") @@ (kTransmux :> "transmux") @@ (kProxy :> "proxy")
MCUnbound == (kIngest :> kIngestAway) @@ (kTransmux :> kTransmuxAway) @@ (kProxy :> kProxyAway)

UnboundConfigs == [k \in Configs |-> IF k \in Here THEN MCUnbound[k] ELSE k]
ModeOfConfigs == [k \in Configs |-> MCMode[CHOOSE h \in Here : k \in {h, MCUnbound[h]}]]

=============================================================================

---------------------------- MODULE MCRelayWorkers ----------------------------
(* A finite instance of RelayWorkers: one channel, a configuration per kind.  *)
EXTENDS RelayWorkers, TLC

CONSTANTS h1, h2, kIngest, kTransmux

MCMode == kIngest :> "ingest" @@ kTransmux :> "transmux"

\* Beside a transmux goroutine in its loop there is no other; ingest goroutines overlap.
TransmuxIsAlone ==
  \A h \in Handles : pc[h] \in TransmuxSteps => \A g \in Handles \ {h} : pc[g] = "idle"

=============================================================================

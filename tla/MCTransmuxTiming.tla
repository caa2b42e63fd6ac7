--------------------------- MODULE MCTransmuxTiming ---------------------------
(* A finite instance of TransmuxTiming: one transmux channel.                  *)
EXTENDS TransmuxTiming, TLC

CONSTANTS kTransmux

MCMode == kTransmux :> "transmux"

=============================================================================

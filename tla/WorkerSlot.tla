------------------------------ MODULE WorkerSlot ------------------------------
(***************************************************************************)
(* What relay.Manager promises about workers, without goroutines, handles  *)
(* or maps: every channel has one slot, a worker takes a free slot, and    *)
(* slots are given up one at a time (StopWorker, a worker's return) or     *)
(* together (StopAll, the end of the process).  No step hands a slot from  *)
(* one worker to another.                                                  *)
(***************************************************************************)
CONSTANTS Channels, Workers, None

VARIABLE owner   \* the worker that holds the slot of a channel

Init == owner = [c \in Channels |-> None]

Acquire(c, w) ==
  /\ owner[c] = None
  /\ \A d \in Channels : owner[d] # w
  /\ owner' = [owner EXCEPT ![c] = w]

GiveUp(freed) == owner' = [c \in Channels |-> IF c \in freed THEN None ELSE owner[c]]

Next ==
  \/ \E c \in Channels, w \in Workers : Acquire(c, w)
  \/ \E freed \in SUBSET Channels : GiveUp(freed)

Spec == Init /\ [][Next]_owner

=============================================================================

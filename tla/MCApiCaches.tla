----------------------------- MODULE MCApiCaches -----------------------------
(* Finite instances of ApiCaches.                                              *)
EXTENDS ApiCaches, TLC

\* What does not move is looked at in one of its initial states only.
OtherRests ==
  /\ subject = "sessions" => kind = "host" /\ row = Empty
  /\ subject = "rows" => account.role = "viewer" /\ ~account.enabled

\* A token that a change of password may have missed is followed while its session is
\* there or coming, and no further once a logout's exception is added.
ExceptionsApart == kept \subseteq (rows \cup LoginsInFlight) \ overlapped

ApiSymmetry ==
  Permutations(Requests) \cup Permutations(Passwords) \cup Permutations(Readers)
    \cup Permutations(Writers)

=============================================================================

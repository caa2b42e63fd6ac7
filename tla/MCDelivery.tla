------------------------------ MODULE MCDelivery ------------------------------
(* Finite instances of Delivery: one ref and a few numbered segments.          *)
EXTENDS Delivery, TLC

CONSTANTS ref

\* Ingest without R2: an upload takes a cached file the same way in either mode.
MCRows == ({"proxy", "transmux"} \X BOOLEAN) \cup {<<"ingest", FALSE>>}
\* Segment 2, which has been the last and the first of the window, is the one uploaded.
MCKeys == {ref, 2}

\* A row without sync_enabled asks R2 for nothing but a purge: it always has a client.
UnsyncedHasClient == sync \/ r2

\* A silent source and a number used again each excuse a segment from SharedIsWhole, and
\* a client replaced by nil every state from NilIsNotCalled: one of the three at a time.
ExceptionsApart ==
  Cardinality({e \in 1..3 : <<stalled # {}, reused # {}, cleared>>[e]}) <= 1

CacheSymmetry == Permutations(Inodes) \cup Permutations(Fetchers) \cup Permutations(Viewers)

=============================================================================

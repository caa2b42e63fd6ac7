----------------------------- MODULE TimedCaches -----------------------------
(***************************************************************************)
(* What the API remembers of a row for a while: originCache (the enabled   *)
(* origins of everybody, of an owner, of a channel; a slug's bypass flag;  *)
(* httpapi/auth.go) and nodeHost (httpapi/server.go).  A behaviour is the  *)
(* life of one entry of one of them: `kind` says which, and never changes. *)
(*                                                                         *)
(* originCache is filled under its write lock, nodeHostCache without one.  *)
(* Time is counted in units of which an entry lives KeepFor; a lookup's    *)
(* answer reaches the cache within MaxLookup of being true.                *)
(***************************************************************************)
EXTENDS Naturals

CONSTANTS
  Values,       \* what the row may say
  Empty,        \* no origin, no bypass, no host
  Readers,      \* requests that ask
  Writers,      \* requests that change the row
  None,         \* the lock is free
  KeepFor,      \* the life of an entry (30 s; 15 s for the flag)
  MaxLookup     \* bound: how long a lookup's answer is under way

ASSUME CachesAssumption ==
  /\ {KeepFor, MaxLookup} \subseteq Nat /\ KeepFor > 0
  /\ Empty \in Values /\ None \notin Readers

VARIABLES
  kind,         \* which cache
  row,          \* what the database says
  entry,        \* value and what is left of its life; from: a lookup or an error
  lock,         \* c.mu: the reader that fills
  reader, writer, \* the requests in flight
  said,         \* history: time since the row last said a value
  missed        \* history: the row changed and no invalidation will follow

timedCacheVars == <<kind, row, entry, lock, reader, writer, said, missed>>

OriginKinds == {"global", "owner", "channel"}
Kinds == OriginKinds \cup {"bypass", "host"}
Long == KeepFor + MaxLookup + 1
Quiet == [at |-> "idle"]

Alive == entry.left > 0
Locked == kind # "host"

CachesTypeOK ==
  /\ kind \in Kinds /\ row \in Values
  /\ entry \in [value : Values, left : 0..KeepFor, from : {"lookup", "error"}]
  /\ lock \in Readers \cup {None}
  /\ said \in [Values -> 0..Long] /\ said[row] = 0
  /\ missed \in BOOLEAN
  /\ lock # None => reader[lock].at \in {"query", "fill"}
  /\ \A q \in Readers : Locked /\ reader[q].at \in {"query", "fill"} => lock = q

CachesInit ==
  /\ kind \in Kinds /\ row \in Values
  /\ entry = [value |-> Empty, left |-> 0, from |-> "lookup"]
  /\ lock = None
  /\ reader = [q \in Readers |-> Quiet]
  /\ writer = [w \in Writers |-> "idle"]
  /\ said = [v \in Values |-> IF v = row THEN 0 ELSE Long]
  /\ missed = FALSE

-----------------------------------------------------------------------------
(* Readers                                                                   *)

\* Mutant: an entry that answers lives on.
SlidingLook(q) ==
  /\ reader[q] = Quiet /\ lock = None
  /\ IF Alive THEN reader' = reader /\ entry' = [entry EXCEPT !.left = KeepFor]
     ELSE reader' = [reader EXCEPT ![q] = [at |-> "miss"]] /\ entry' = entry
  /\ UNCHANGED <<kind, row, lock, writer, said, missed>>

\* Under the read lock, which waits for the one that fills.
Look(q) ==
  /\ reader[q] = Quiet /\ lock = None
  /\ reader' = IF Alive THEN reader ELSE [reader EXCEPT ![q] = [at |-> "miss"]]
  /\ UNCHANGED <<kind, row, entry, lock, writer, said, missed>>

\* Mutant: the write lock is not held during the lookup.
AcquireNothing(q) ==
  /\ reader[q].at = "miss"
  /\ reader' = [reader EXCEPT ![q] = [at |-> "query"]]
  /\ UNCHANGED <<kind, row, entry, lock, writer, said, missed>>

\* The write lock, and the second look under it.
Acquire(q) ==
  /\ reader[q].at = "miss" /\ lock = None
  /\ IF Locked /\ Alive THEN reader' = [reader EXCEPT ![q] = Quiet] /\ lock' = None
     ELSE /\ reader' = [reader EXCEPT ![q] = [at |-> "query"]]
          /\ lock' = IF Locked THEN q ELSE None
  /\ UNCHANGED <<kind, row, entry, writer, said, missed>>

Ok(v) == [ok |-> TRUE, value |-> v]
Error == [ok |-> FALSE, value |-> Empty]

Query(q) ==
  /\ reader[q].at = "query"
  /\ \E answer \in {Ok(row), Error} :
       reader' = [reader EXCEPT ![q] = [at |-> "fill", answer |-> answer, age |-> 0]]
  /\ missed' = (missed /\ Alive)
  /\ UNCHANGED <<kind, row, entry, lock, writer, said>>

Remember(a) ==
  [value |-> a.value, left |-> KeepFor, from |-> IF a.ok THEN "lookup" ELSE "error"]

\* What each function leaves in its cache.  Everybody's origins stay what they were.
get(a) == IF a.ok THEN Remember(a) ELSE [entry EXCEPT !.left = KeepFor, !.from = "error"]
getForOwner(a) == Remember(a)
getForChannel(a) == Remember(a)
channelBypass(a) == Remember(a)
nodeHost(a) == IF a.ok THEN Remember(a) ELSE entry

Fill(q) ==
  /\ reader[q].at = "fill"
  /\ LET a == reader[q].answer IN
       entry' = CASE kind = "global" -> get(a)
                  [] kind = "owner" -> getForOwner(a)
                  [] kind = "channel" -> getForChannel(a)
                  [] kind = "bypass" -> channelBypass(a)
                  [] kind = "host" -> nodeHost(a)
  /\ reader' = [reader EXCEPT ![q] = Quiet]
  /\ lock' = None
  /\ UNCHANGED <<kind, row, writer, said, missed>>

-----------------------------------------------------------------------------
(* Writers                                                                   *)

\* The statement of a request; it may commit for a client that has left, and then
\* nothing follows it.
Commit(w, v) ==
  /\ writer[w] = "idle" /\ v # row
  /\ row' = v
  /\ said' = [said EXCEPT ![v] = 0]
  /\ \/ writer' = [writer EXCEPT ![w] = "invalidate"] /\ missed' = missed
     \/ writer' = writer /\ missed' = TRUE
  /\ UNCHANGED <<kind, entry, lock, reader>>

\* POST, PATCH and DELETE of an origin by an admin, and by its owner.
handleOrigins(w, v) == kind \in OriginKinds /\ Commit(w, v)
handleMyOrigins(w, v) == kind \in OriginKinds /\ Commit(w, v)

\* PATCH of a channel that keeps its slug, and DELETE.
handleChannelRecord(w, v) == kind = "bypass" /\ Commit(w, v)

\* POST of a channel, or PATCH that gives it another slug, after which the old one has no
\* row; DELETE of the user or channel an origin belongs to; PATCH or DELETE of a node.
ChangeUnnoticed(w, v) ==
  /\ kind \in {"bypass", "host"} \/ v = Empty
  /\ writer[w] = "idle" /\ v # row
  /\ row' = v
  /\ said' = [said EXCEPT ![v] = 0]
  /\ missed' = TRUE
  /\ UNCHANGED <<kind, entry, lock, reader, writer>>

\* Mutant: it does not wait for the one that fills.
InvalidateUnlocked(w) ==
  /\ writer[w] = "invalidate"
  /\ entry' = [entry EXCEPT !.left = 0]
  /\ writer' = [writer EXCEPT ![w] = "idle"]
  /\ UNCHANGED <<kind, row, lock, reader, said, missed>>

\* invalidate; invalidateSlugBypass of the slug.
Invalidate(w) ==
  /\ writer[w] = "invalidate" /\ lock = None
  /\ entry' = [entry EXCEPT !.left = 0]
  /\ writer' = [writer EXCEPT ![w] = "idle"]
  /\ UNCHANGED <<kind, row, lock, reader, said, missed>>

-----------------------------------------------------------------------------
Ago(t) == IF t = Long THEN Long ELSE t + 1

CachesTick ==
  /\ \A q \in Readers : reader[q].at = "fill" => reader[q].age < MaxLookup
  /\ reader' = [q \in Readers |->
       IF reader[q].at = "fill" THEN [reader[q] EXCEPT !.age = @ + 1] ELSE reader[q]]
  /\ entry' = [entry EXCEPT !.left = IF @ = 0 THEN 0 ELSE @ - 1]
  /\ said' = [v \in Values |-> IF v = row THEN 0 ELSE Ago(said[v])]
  /\ UNCHANGED <<kind, row, lock, writer, missed>>

CachesNext ==
  \/ \E q \in Readers : Look(q) \/ Acquire(q) \/ Query(q) \/ Fill(q)
  \/ \E w \in Writers :
       \/ \E v \in Values :
            \/ handleOrigins(w, v) \/ handleMyOrigins(w, v) \/ handleChannelRecord(w, v)
            \/ ChangeUnnoticed(w, v)
       \/ Invalidate(w)
  \/ CachesTick

-----------------------------------------------------------------------------
(* Safety                                                                    *)

\* auth.go:158-160, "so toggle changes take effect immediately instead of waiting for
\* the TTL": once every change is answered, what originCache remembers of a lookup is
\* what the row says, whichever lookups the changes overlapped.  A change nobody
\* announces is the exception, until the entry ends.
InvalidationWins ==
  /\ Locked /\ ~missed /\ Alive /\ entry.from = "lookup"
  /\ \A w \in Writers : writer[w] = "idle"
  => entry.value = row

\* auth.go:56, "with a short TTL": without any invalidation too, what was looked up was
\* true at most an entry's life and a lookup ago.  (A failed lookup gives everybody's
\* origins, however old, another 30 seconds.)
OriginsAreShortLived ==
  Alive /\ entry.from = "lookup" => said[entry.value] <= KeepFor - entry.left + MaxLookup

=============================================================================

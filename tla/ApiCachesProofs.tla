---------------------------- MODULE ApiCachesProofs ----------------------------
(***************************************************************************)
(* SessionCache, TimedCaches and ApiCaches for every set of tokens,        *)
(* requests and values, every life of an entry and every delay.            *)
(*                                                                         *)
(* The argument: what a lookup found is as young as the lookup (PutTrue,   *)
(* FillTrue), so an entry is as young as its own age and the lookup's.     *)
(* LogoutWins needs that a token is created once and before any logout of  *)
(* it (TokensOnce); OldPasswordIsOut that a login under way is treated as  *)
(* the session it will make; InvalidationWins that the lock keeps lookups  *)
(* and invalidations apart (LockInv), so that an answer under way is as    *)
(* good as an entry (Current).                                             *)
(***************************************************************************)
EXTENDS ApiCaches, TLAPS

-----------------------------------------------------------------------------
(* The sessions                                                              *)

RequestStates ==
  {Idle} \cup [at : {"put"}, token : Tokens, role : Roles, age : 0..MaxAnswer]
    \cup [at : {"create", "delete", "drop"}, token : Tokens]
    \cup [at : {"end sessions"}] \cup [at : {"hash", "wipe"}, password : Passwords]

SessionTyped ==
  /\ account \in [there : BOOLEAN, role : Roles, enabled : BOOLEAN, password : Passwords]
  /\ rows \subseteq Tokens
  /\ madeWith \in [Tokens -> Passwords \cup {NoPassword}]
  /\ entries \in [Tokens -> {NoEntry} \cup [role : Roles, left : 1..CacheFor]]
  /\ request \in [Requests -> RequestStates]
  /\ truth \in [Tokens -> [Roles -> Ages]]
  /\ loggedOut \subseteq Tokens \ rows /\ overlapped \subseteq Tokens
  /\ kept \subseteq Tokens

TruthIsNow ==
  \A t \in Tokens : LookupSession(t) # "none" => truth[t][LookupSession(t)] = 0

\* A lookup's answer is as young as the lookup.
PutTrue ==
  \A q \in Requests :
    request[q].at = "put" => truth[request[q].token][request[q].role] <= request[q].age

\* A token is taken by one login, and logged out only after it.
TokensOnce ==
  /\ \A t \in rows \cup loggedOut : madeWith[t] # NoPassword
  /\ \A q \in Requests :
       request[q].at \in {"create", "delete", "drop"} => madeWith[request[q].token] # NoPassword
  /\ \A q \in Requests : request[q].at = "create" =>
       /\ request[q].token \notin rows \cup loggedOut
       /\ \A p \in Requests \ {q} :
            request[p].at \in {"create", "delete", "drop"} => request[p].token # request[q].token

\* OldPasswordIsOut, also of the logins under way.
NewPasswordIsIn ==
  account.there /\ ~PasswordChanging =>
    \A t \in (rows \cup LoginsInFlight) \ kept : madeWith[t] = account.password

SessionInv ==
  /\ SessionTyped /\ TruthIsNow /\ PutTrue /\ SessionsAreShortLived
  /\ TokensOnce /\ LogoutWins /\ NewPasswordIsIn

-----------------------------------------------------------------------------
(* The caches of rows                                                        *)

Answers == [ok : BOOLEAN, value : Values]
ReaderStates ==
  [at : {"idle", "miss", "query"}] \cup [at : {"fill"}, answer : Answers, age : 0..MaxLookup]

RowsTyped ==
  /\ kind \in Kinds /\ row \in Values
  /\ entry \in [value : Values, left : 0..KeepFor, from : {"lookup", "error"}]
  /\ lock \in Readers \cup {None}
  /\ reader \in [Readers -> ReaderStates]
  /\ writer \in [Writers -> {"idle", "invalidate"}]
  /\ said \in [Values -> 0..Long] /\ said[row] = 0
  /\ missed \in BOOLEAN

Filling(q) == reader[q].at \in {"query", "fill"}

LockInv ==
  /\ lock # None => Locked /\ Filling(lock)
  /\ \A q \in Readers : Locked /\ Filling(q) => lock = q

\* A lookup's answer is as young as the lookup.
FillTrue ==
  \A q \in Readers :
    reader[q].at = "fill" /\ reader[q].answer.ok => said[reader[q].answer.value] <= reader[q].age

Settled == Locked /\ ~missed /\ \A w \in Writers : writer[w] = "idle"

\* Once every change is answered, the entry and the answers under way are current.
Current ==
  Settled =>
    /\ Alive /\ entry.from = "lookup" => entry.value = row
    /\ \A q \in Readers :
         reader[q].at = "fill" /\ reader[q].answer.ok => reader[q].answer.value = row

RowsInv == RowsTyped /\ LockInv /\ FillTrue /\ OriginsAreShortLived /\ Current

USE SessionAssumption, CachesAssumption

\* What a reader is at, it is with all that belongs to it.
LEMMA ReaderShape ==
  ASSUME RowsTyped, NEW q \in Readers
  PROVE  /\ reader[q].at \in {"idle", "miss", "query", "fill"}
         /\ reader[q].at = "fill" =>
              /\ reader[q].answer \in Answers /\ reader[q].answer.value \in Values
              /\ reader[q].age \in 0..MaxLookup /\ reader[q].age \in Nat
              /\ reader[q] = [at |-> "fill", answer |-> reader[q].answer, age |-> reader[q].age]
<1>1. reader[q] \in ReaderStates
  BY DEF RowsTyped
<1>2. reader[q].at = "fill" => reader[q] \in [at : {"fill"}, answer : Answers, age : 0..MaxLookup]
  BY <1>1 DEF ReaderStates
<1>3. reader[q].at = "fill" => reader[q].answer.value \in Values
  BY <1>2 DEF Answers
<1> QED BY <1>1, <1>2, <1>3 DEF ReaderStates

LEMMA ReaderStatesAre ==
  /\ \A at \in {"idle", "miss", "query"} : [at |-> at] \in ReaderStates
  /\ \A a \in Answers, age \in 0..MaxLookup :
       [at |-> "fill", answer |-> a, age |-> age] \in ReaderStates
  BY DEF ReaderStates

LEMMA InitRows == CachesInit => RowsInv
<1> SUFFICES ASSUME CachesInit PROVE RowsInv
  OBVIOUS
<1> USE DEF CachesInit
<1>1. \A q \in Readers : reader[q].at = "idle"
  BY DEF Quiet
<1>2. RowsTyped
  <2>1. reader \in [Readers -> ReaderStates]
    BY ReaderStatesAre DEF Quiet
  <2>2. said \in [Values -> 0..Long] /\ said[row] = 0
    BY DEF Long
  <2>3. entry \in [value : Values, left : 0..KeepFor, from : {"lookup", "error"}]
    OBVIOUS
  <2> QED BY <2>1, <2>2, <2>3 DEF RowsTyped
<1>3. LockInv /\ FillTrue /\ OriginsAreShortLived /\ Current
  BY <1>1 DEF LockInv, Filling, FillTrue, OriginsAreShortLived, Current, Alive
<1> QED BY <1>2, <1>3 DEF RowsInv

\* The first look, the second, and the query.
LEMMA ReadersKeepRows ==
  ASSUME RowsInv, NEW q \in Readers, Look(q) \/ Acquire(q) \/ Query(q)
  PROVE  RowsInv'
<1> USE DEF RowsInv
<1>0. \A p \in Readers : reader[p].at \in {"idle", "miss", "query", "fill"}
  BY ReaderShape
<1>1. CASE UNCHANGED timedCacheVars
  BY <1>1 DEF timedCacheVars, RowsTyped, LockInv, FillTrue, OriginsAreShortLived, Current,
              Locked, Filling, Alive, Settled
<1>2. ASSUME NEW at \in {"idle", "miss"}, reader' = [reader EXCEPT ![q] = [at |-> at]],
             ~Filling(q), UNCHANGED <<kind, row, entry, lock, writer, said, missed>>
      PROVE  RowsInv'
  <2>1. RowsTyped'
    BY <1>2, ReaderStatesAre DEF RowsTyped
  <2>2. \A p \in Readers : p # q => reader'[p] = reader[p]
    BY <1>2 DEF RowsTyped
  <2>3. reader'[q].at \in {"idle", "miss"}
    BY <1>2 DEF RowsTyped
  <2>4. LockInv'
    BY <1>2, <2>2, <2>3 DEF LockInv, Filling, Locked, RowsTyped
  <2>5. FillTrue' /\ Current'
    BY <1>2, <2>2, <2>3 DEF FillTrue, Current, Settled, Alive, Locked
  <2>6. OriginsAreShortLived'
    BY <1>2 DEF OriginsAreShortLived, Alive
  <2> QED BY <2>1, <2>4, <2>5, <2>6
<1>3. CASE Look(q)
  <2>1. CASE Alive
    BY <1>1, <1>3, <2>1 DEF Look, timedCacheVars
  <2>2. CASE ~Alive
    BY <1>2, <1>3, <2>2 DEF Look, Quiet, Filling
  <2> QED BY <2>1, <2>2
<1>4. CASE Acquire(q)
  <2>1. CASE Locked /\ Alive
    BY <1>2, <1>4, <2>1 DEF Acquire, Quiet, Filling
  <2>2. CASE ~(Locked /\ Alive)
    <3>1. /\ reader[q].at = "miss" /\ lock = None
          /\ reader' = [reader EXCEPT ![q] = [at |-> "query"]]
          /\ lock' = (IF Locked THEN q ELSE None)
          /\ UNCHANGED <<kind, row, entry, writer, said, missed>>
      BY <1>4, <2>2 DEF Acquire
    <3>2. RowsTyped'
      BY <3>1, ReaderStatesAre DEF RowsTyped
    <3>3. (\A p \in Readers : p # q => reader'[p] = reader[p]) /\ reader'[q].at = "query"
      BY <3>1 DEF RowsTyped
    <3>4. LockInv'
      BY <3>1, <3>3 DEF LockInv, Filling, Locked, RowsTyped
    <3>5. FillTrue' /\ Current'
      BY <3>1, <3>3 DEF FillTrue, Current, Settled, Alive, Locked
    <3>6. OriginsAreShortLived'
      BY <3>1 DEF OriginsAreShortLived, Alive
    <3> QED BY <3>2, <3>4, <3>5, <3>6
  <2> QED BY <2>1, <2>2
<1>5. CASE Query(q)
  <2>1. PICK answer \in {Ok(row), Error} :
          reader' = [reader EXCEPT ![q] = [at |-> "fill", answer |-> answer, age |-> 0]]
    BY <1>5 DEF Query
  <2>2. /\ reader[q].at = "query" /\ missed' = (missed /\ Alive)
        /\ UNCHANGED <<kind, row, entry, lock, writer, said>>
    BY <1>5 DEF Query
  <2>3. answer \in Answers /\ (answer.ok => answer.value = row)
    <3>1. Ok(row) \in Answers /\ Ok(row).value = row
      BY DEF Ok, Answers, RowsTyped
    <3>2. Error \in Answers /\ ~Error.ok
      BY DEF Error, Answers
    <3> QED BY <3>1, <3>2
  <2>4. /\ \A p \in Readers : p # q => reader'[p] = reader[p]
        /\ reader'[q].at = "fill" /\ reader'[q].answer = answer /\ reader'[q].age = 0
    BY <2>1 DEF RowsTyped
  <2>5. RowsTyped'
    <3>1. reader' \in [Readers -> ReaderStates]
      BY <2>1, <2>3, ReaderStatesAre DEF RowsTyped
    <3>2. missed' \in BOOLEAN
      BY <2>2 DEF Alive, RowsTyped
    <3> QED BY <2>2, <3>1, <3>2 DEF RowsTyped
  <2>6. LockInv'
    BY <2>2, <2>4 DEF LockInv, Filling, Locked, RowsTyped
  <2>7. FillTrue'
    BY <2>2, <2>3, <2>4 DEF FillTrue, RowsTyped
  <2>8. OriginsAreShortLived'
    BY <2>2 DEF OriginsAreShortLived, Alive
  <2>9. Current'
    <3>1. CASE Settled
      BY <2>2, <2>3, <2>4, <3>1 DEF Current, Settled, Alive, Locked
    <3>2. CASE Settled' /\ ~Settled
      <4>1. Locked /\ ~Alive /\ UNCHANGED <<entry, row>>
        BY <2>2, <3>2 DEF Settled, Locked, RowsTyped
      <4>2. \A p \in Readers : p # q => reader'[p].at # "fill"
        BY <2>2, <2>4, <4>1 DEF LockInv, Filling
      <4> QED BY <2>3, <2>4, <4>1, <4>2 DEF Current, Alive
    <3> QED BY <3>1, <3>2 DEF Current
  <2> QED BY <2>5, <2>6, <2>7, <2>8, <2>9
<1> QED BY <1>3, <1>4, <1>5

\* An answer becomes the entry: it was current, and no older than a lookup.
LEMMA FillKeepsRows ==
  ASSUME RowsInv, NEW q \in Readers, Fill(q)
  PROVE  RowsInv'
<1> USE DEF RowsInv
<1> DEFINE a == reader[q].answer
<1>1. /\ reader[q].at = "fill" /\ a \in Answers /\ reader[q].age \in 0..MaxLookup
      /\ reader' = [reader EXCEPT ![q] = Quiet] /\ lock' = None
      /\ UNCHANGED <<kind, row, writer, said, missed>>
  BY ReaderShape DEF Fill
<1>2. \/ entry' = Remember(a)
      \/ ~a.ok /\ entry' = [entry EXCEPT !.left = KeepFor, !.from = "error"]
      \/ ~Locked /\ entry' = entry
  BY <1>1 DEF Fill, get, getForOwner, getForChannel, channelBypass, nodeHost, Locked, Kinds,
              OriginKinds, RowsTyped
<1> HIDE DEF a
<1>3. (\A p \in Readers : p # q => reader'[p] = reader[p]) /\ reader'[q].at = "idle"
  BY <1>1 DEF RowsTyped, Quiet
<1>4. entry' \in [value : Values, left : 0..KeepFor, from : {"lookup", "error"}]
  <2>1. KeepFor \in 0..KeepFor /\ a.value \in Values
    BY <1>1 DEF Answers
  <2>2. Remember(a) \in [value : Values, left : 0..KeepFor, from : {"lookup", "error"}]
    BY <2>1 DEF Remember
  <2>3. [entry EXCEPT !.left = KeepFor, !.from = "error"]
          \in [value : Values, left : 0..KeepFor, from : {"lookup", "error"}]
    BY <2>1 DEF RowsTyped
  <2> QED BY <1>2, <2>2, <2>3 DEF RowsTyped
<1>5. RowsTyped'
  <2>1. reader' \in [Readers -> ReaderStates]
    BY <1>1, ReaderStatesAre DEF Quiet, RowsTyped
  <2> QED BY <1>1, <1>4, <2>1 DEF RowsTyped
<1>6. LockInv'
  BY <1>1, <1>3 DEF LockInv, Filling, Locked, RowsTyped
<1>7. FillTrue'
  BY <1>1, <1>3 DEF FillTrue
<1>8. OriginsAreShortLived'
  <2>1. a.ok => said[a.value] <= reader[q].age
    BY <1>1 DEF FillTrue, a
  <2>2. a.value \in Values /\ \A v \in Values : said[v] \in Nat
    BY <1>1 DEF Answers, RowsTyped
  <2>3. CASE entry' = Remember(a)
    BY <1>1, <2>1, <2>2, <2>3 DEF OriginsAreShortLived, Alive, Remember
  <2>4. CASE entry' = [entry EXCEPT !.left = KeepFor, !.from = "error"]
    BY <2>4 DEF OriginsAreShortLived, RowsTyped
  <2>5. CASE entry' = entry
    BY <1>1, <2>5 DEF OriginsAreShortLived, Alive
  <2> QED BY <1>2, <2>3, <2>4, <2>5
<1>9. Current'
  <2> SUFFICES ASSUME Settled' PROVE Current'
    BY DEF Current
  <2>1. Settled
    BY <1>1 DEF Settled, Locked
  <2>2. a.ok => a.value = row
    BY <1>1, <2>1 DEF Current, a
  <2>3. Alive' /\ entry'.from = "lookup" => entry'.value = row
    <3>1. CASE entry' = Remember(a)
      BY <2>2, <3>1 DEF Remember
    <3>2. CASE entry' = [entry EXCEPT !.left = KeepFor, !.from = "error"]
      BY <3>2 DEF RowsTyped
    <3> QED BY <1>2, <2>1, <3>1, <3>2 DEF Settled
  <2> QED BY <1>1, <1>3, <2>1, <2>3 DEF Current
<1> QED BY <1>5, <1>6, <1>7, <1>8, <1>9

\* A writer's statement ages no answer, and either an invalidation follows or it is missed.
LEMMA WritersKeepRows ==
  ASSUME RowsInv, NEW w \in Writers, NEW v \in Values, Commit(w, v) \/ ChangeUnnoticed(w, v)
  PROVE  RowsInv'
<1> USE DEF RowsInv
<1>1. /\ row' = v /\ said' = [said EXCEPT ![v] = 0] /\ UNCHANGED <<kind, entry, lock, reader>>
      /\ \/ writer' = [writer EXCEPT ![w] = "invalidate"] /\ missed' = missed
         \/ writer' = writer /\ missed' = TRUE
  BY DEF Commit, ChangeUnnoticed
<1>2. \A u \in Values : said[u] \in Nat /\ said'[u] \in Nat /\ said'[u] <= said[u]
  BY <1>1 DEF RowsTyped
<1>3. RowsTyped'
  <2>1. said' \in [Values -> 0..Long] /\ said'[row'] = 0
    BY <1>1 DEF RowsTyped, Long
  <2> QED BY <1>1, <2>1 DEF RowsTyped
<1>4. LockInv'
  BY <1>1 DEF LockInv, Filling, Locked
<1>5. FillTrue'
  <2> SUFFICES ASSUME NEW q \in Readers, reader[q].at = "fill", reader[q].answer.ok
               PROVE  said'[reader[q].answer.value] <= reader[q].age
    BY <1>1 DEF FillTrue
  <2>1. reader[q].answer.value \in Values /\ reader[q].age \in Nat
    BY ReaderShape
  <2> QED BY <1>2, <2>1 DEF FillTrue
<1>6. OriginsAreShortLived'
  BY <1>1, <1>2 DEF OriginsAreShortLived, Alive, RowsTyped
<1>7. ~Settled'
  BY <1>1 DEF Settled, RowsTyped
<1> QED BY <1>3, <1>4, <1>5, <1>6, <1>7 DEF Current

\* Nothing is under way when an invalidation ends.
LEMMA InvalidateKeepsRows ==
  ASSUME RowsInv, NEW w \in Writers, Invalidate(w)
  PROVE  RowsInv'
<1> USE DEF RowsInv, Invalidate
<1>1. RowsTyped'
  BY DEF RowsTyped
<1>2. ~Alive'
  BY DEF Alive, RowsTyped
<1>3. LockInv' /\ FillTrue'
  BY DEF LockInv, Filling, Locked, FillTrue
<1>4. OriginsAreShortLived'
  BY <1>2 DEF OriginsAreShortLived
<1>5. Current'
  <2>1. ASSUME NEW q \in Readers, Locked PROVE reader[q].at # "fill"
    BY <2>1 DEF LockInv, Filling
  <2> QED BY <1>2, <2>1 DEF Current, Settled, Locked
<1> QED BY <1>1, <1>3, <1>4, <1>5

\* The entry, what was true and the lookups age together.
LEMMA TickKeepsRows ==
  ASSUME RowsInv, CachesTick
  PROVE  RowsInv'
<1> USE DEF RowsInv
<1>1. \A v \in Values : said[v] \in Nat /\ said'[v] \in Nat /\ said'[v] <= said[v] + 1
  BY DEF CachesTick, Ago, RowsTyped, Long
<1>2. said' \in [Values -> 0..Long] /\ said'[row'] = 0
  BY DEF CachesTick, Ago, RowsTyped, Long
<1>3. entry' \in [value : Values, left : 0..KeepFor, from : {"lookup", "error"}]
  BY DEF CachesTick, RowsTyped
<1>4. ASSUME NEW q \in Readers
      PROVE  /\ reader'[q] \in ReaderStates /\ reader'[q].at = reader[q].at
             /\ reader[q].at = "fill" =>
                  /\ reader'[q].answer = reader[q].answer /\ reader'[q].age = reader[q].age + 1
  <2>1. CASE reader[q].at = "fill"
    <3>1. /\ reader[q].answer \in Answers /\ reader[q].age + 1 \in 0..MaxLookup
          /\ reader[q] = [at |-> "fill", answer |-> reader[q].answer, age |-> reader[q].age]
      BY <2>1, ReaderShape DEF CachesTick
    <3>2. reader'[q] = [reader[q] EXCEPT !.age = reader[q].age + 1]
      BY <2>1 DEF CachesTick
    <3>3. reader'[q] = [at |-> "fill", answer |-> reader[q].answer, age |-> reader[q].age + 1]
      BY <3>1, <3>2
    <3> QED BY <2>1, <3>1, <3>3, ReaderStatesAre
  <2>2. CASE reader[q].at # "fill"
    BY <2>2 DEF CachesTick, RowsTyped
  <2> QED BY <2>1, <2>2
<1>5. reader' \in [Readers -> ReaderStates]
  <2>1. reader' = [q \in Readers |-> reader'[q]]
    BY DEF CachesTick
  <2> QED BY <1>4, <2>1
<1>6. RowsTyped'
  BY <1>2, <1>3, <1>5 DEF CachesTick, RowsTyped
<1>7. LockInv'
  BY <1>4 DEF CachesTick, LockInv, Filling, Locked, RowsTyped
<1>8. FillTrue'
  <2> SUFFICES ASSUME NEW q \in Readers, reader'[q].at = "fill", reader'[q].answer.ok
               PROVE  said'[reader'[q].answer.value] <= reader'[q].age
    BY DEF FillTrue
  <2>1. /\ reader[q].answer.value \in Values /\ reader[q].age \in Nat
        /\ reader'[q].answer = reader[q].answer /\ reader'[q].age = reader[q].age + 1
        /\ reader[q].at = "fill"
    BY <1>4, ReaderShape
  <2> QED BY <1>1, <2>1 DEF FillTrue
<1>9. OriginsAreShortLived'
  <2> SUFFICES ASSUME Alive', entry'.from = "lookup"
               PROVE  said'[entry'.value] <= KeepFor - entry'.left + MaxLookup
    BY DEF OriginsAreShortLived
  <2>1. /\ entry.left \in Nat /\ entry.left > 0 /\ entry'.left = entry.left - 1
        /\ entry'.value = entry.value /\ entry.from = "lookup" /\ entry.value \in Values
    BY DEF CachesTick, RowsTyped, Alive
  <2> QED BY <1>1, <2>1 DEF OriginsAreShortLived, Alive
<1>10. Current'
  BY <1>4 DEF CachesTick, Current, Settled, Locked, Alive, RowsTyped
<1> QED BY <1>6, <1>7, <1>8, <1>9, <1>10

LEMMA NextRows == RowsInv /\ [CachesNext]_timedCacheVars => RowsInv'
<1> SUFFICES ASSUME RowsInv, [CachesNext]_timedCacheVars PROVE RowsInv'
  OBVIOUS
<1>1. CASE UNCHANGED timedCacheVars
  BY <1>1 DEF timedCacheVars, RowsInv, RowsTyped, LockInv, FillTrue, OriginsAreShortLived,
              Current, Locked, Filling, Alive, Settled
<1>2. ASSUME NEW w \in Writers, NEW v \in Values,
             \/ handleOrigins(w, v) \/ handleMyOrigins(w, v) \/ handleChannelRecord(w, v)
             \/ ChangeUnnoticed(w, v)
      PROVE  RowsInv'
  BY <1>2, WritersKeepRows DEF handleOrigins, handleMyOrigins, handleChannelRecord
<1> QED BY <1>1, <1>2, ReadersKeepRows, FillKeepsRows, InvalidateKeepsRows, TickKeepsRows
        DEF CachesNext

-----------------------------------------------------------------------------
\* What a request is at, it is with all that belongs to it.
LEMMA RequestShape ==
  ASSUME SessionTyped, NEW q \in Requests
  PROVE  /\ request[q].at = "put" =>
              /\ request[q].token \in Tokens /\ request[q].role \in Roles
              /\ request[q].age \in 0..MaxAnswer
              /\ request[q] = [at |-> "put", token |-> request[q].token,
                              role |-> request[q].role, age |-> request[q].age]
         /\ request[q].at \in {"create", "delete", "drop"} =>
              /\ request[q].token \in Tokens
              /\ request[q] = [at |-> request[q].at, token |-> request[q].token]
         /\ request[q].at \in {"hash", "wipe"} =>
              /\ request[q].password \in Passwords
              /\ request[q] = [at |-> request[q].at, password |-> request[q].password]
<1>1. request[q] \in RequestStates
  BY DEF SessionTyped
<1>2. \/ request[q] = [at |-> "idle"] \/ request[q] \in [at : {"end sessions"}]
      \/ request[q] \in [at : {"put"}, token : Tokens, role : Roles, age : 0..MaxAnswer]
      \/ request[q] \in [at : {"create", "delete", "drop"}, token : Tokens]
      \/ request[q] \in [at : {"hash", "wipe"}, password : Passwords]
  BY <1>1 DEF RequestStates, Idle
<1>3. CASE request[q] = [at |-> "idle"]
  BY <1>3
<1>4. CASE request[q] \in [at : {"put"}, token : Tokens, role : Roles, age : 0..MaxAnswer]
  BY <1>4
<1>5. CASE request[q] \in [at : {"create", "delete", "drop"}, token : Tokens]
  <2>1. /\ request[q].at \in {"create", "delete", "drop"} /\ request[q].token \in Tokens
        /\ request[q] = [at |-> request[q].at, token |-> request[q].token]
    BY <1>5
  <2> QED BY <2>1
<1>6. CASE request[q] \in [at : {"hash", "wipe"}, password : Passwords]
  BY <1>6
<1>7. CASE request[q] \in [at : {"end sessions"}]
  BY <1>7
<1> QED BY <1>2, <1>3, <1>4, <1>5, <1>6, <1>7

LEMMA RequestStatesAre ==
  /\ Idle \in RequestStates /\ [at |-> "end sessions"] \in RequestStates
  /\ \A t \in Tokens, r \in Roles, age \in 0..MaxAnswer :
       [at |-> "put", token |-> t, role |-> r, age |-> age] \in RequestStates
  /\ \A at \in {"create", "delete", "drop"}, t \in Tokens : [at |-> at, token |-> t] \in RequestStates
  /\ \A at \in {"hash", "wipe"}, p \in Passwords : [at |-> at, password |-> p] \in RequestStates
  BY DEF RequestStates

LEMMA IdleIs == Idle.at = "idle" /\ Idle \in RequestStates
  BY DEF Idle, RequestStates

LEMMA InitSession == SessionInit => SessionInv
<1> SUFFICES ASSUME SessionInit PROVE SessionInv
  OBVIOUS
<1> USE DEF SessionInit
<1>1. /\ \A q \in Requests : request[q].at = "idle"
      /\ \A t \in Tokens : ~Fresh(t) /\ LookupSession(t) = "none"
  BY DEF Idle, Fresh, LookupSession
<1>2. SessionTyped
  <2>1. account \in [there : BOOLEAN, role : Roles, enabled : BOOLEAN, password : Passwords]
    BY DEF CreatedByAdmin, SignedUp, Roles
  <2>2. request \in [Requests -> RequestStates]
    BY RequestStatesAre
  <2>3. truth \in [Tokens -> [Roles -> Ages]]
    BY DEF Ages, Never
  <2> QED BY <2>1, <2>2, <2>3 DEF SessionTyped
<1>3. LoginsInFlight = {}
  BY <1>1 DEF LoginsInFlight
<1>4. TruthIsNow /\ PutTrue /\ SessionsAreShortLived /\ TokensOnce /\ LogoutWins
  BY <1>1 DEF TruthIsNow, PutTrue, SessionsAreShortLived, TokensOnce, LogoutWins
<1>5. NewPasswordIsIn
  BY <1>3 DEF NewPasswordIsIn
<1> QED BY <1>2, <1>4, <1>5 DEF SessionInv

-----------------------------------------------------------------------------
(* What keeps each part of SessionInv: most steps keep most of them so.      *)

\* A statement leaves nothing older, and its own outcome true.
LEMMA NowTrueKeepsTruth ==
  ASSUME SessionInv, NowTrue, account'.role \in Roles
  PROVE  /\ truth' \in [Tokens -> [Roles -> Ages]] /\ TruthIsNow'
         /\ \A t \in Tokens, r \in Roles : truth'[t][r] <= truth[t][r]
<1> USE DEF SessionInv, SessionTyped
<1>1. \A t \in Tokens, r \in Roles :
        truth[t][r] \in Nat /\ truth'[t][r] = IF LookupSession(t)' = r THEN 0 ELSE truth[t][r]
  BY DEF NowTrue, Ages
<1>2. 0 \in Ages
  BY DEF Ages
<1>3. truth' \in [Tokens -> [Roles -> Ages]]
  BY <1>2 DEF NowTrue
<1>4. \A t \in Tokens, r \in Roles : truth'[t][r] <= truth[t][r]
  BY <1>1
<1>5. \A t \in Tokens : LookupSession(t)' # "none" => LookupSession(t)' \in Roles
  BY DEF LookupSession
<1> QED BY <1>1, <1>3, <1>4, <1>5 DEF TruthIsNow

\* A step that leaves what LookupSession reads of the two tables alone.
SameAnswers ==
  /\ UNCHANGED <<rows, truth>> /\ account'.there = account.there
  /\ account'.role = account.role /\ account'.enabled = account.enabled

\* It its answers alone.
LEMMA TablesKeepTruth ==
  ASSUME SessionInv, SameAnswers
  PROVE  /\ truth' \in [Tokens -> [Roles -> Ages]] /\ TruthIsNow'
         /\ \A t \in Tokens, r \in Roles : truth'[t][r] <= truth[t][r]
<1>1. \A t \in Tokens, r \in Roles : truth[t][r] \in Nat
  BY DEF SessionInv, SessionTyped, Ages
<1> QED BY <1>1 DEF SessionInv, SessionTyped, TruthIsNow, LookupSession, SameAnswers

\* An entry is dropped, or stays; a lookup's answer is under way, or arrives.
EntriesStay == \A t \in Tokens : entries'[t] \in {entries[t], NoEntry}
PutsStay == \A q \in Requests : request'[q].at = "put" => request'[q] = request[q]

LEMMA AgesKept ==
  ASSUME SessionInv, EntriesStay, PutsStay,
         \A t \in Tokens, r \in Roles : truth'[t][r] <= truth[t][r],
         truth' \in [Tokens -> [Roles -> Ages]]
  PROVE  PutTrue' /\ SessionsAreShortLived'
<1> USE DEF SessionInv
<1>0. \A t \in Tokens, r \in Roles : truth[t][r] \in Nat /\ truth'[t][r] \in Nat
  BY DEF SessionTyped, Ages
<1>1. PutTrue'
  <2> SUFFICES ASSUME NEW q \in Requests, request'[q].at = "put"
               PROVE  truth'[request'[q].token][request'[q].role] <= request'[q].age
    BY DEF PutTrue
  <2>1. request'[q] = request[q] /\ request[q].at = "put"
    BY DEF PutsStay
  <2>2. request[q].token \in Tokens /\ request[q].role \in Roles /\ request[q].age \in 0..MaxAnswer
    BY <2>1, RequestShape
  <2> QED BY <1>0, <2>1, <2>2 DEF PutTrue
<1>2. SessionsAreShortLived'
  <2> SUFFICES ASSUME NEW t \in Tokens, Fresh(t)'
               PROVE  truth'[t][entries'[t].role] <= CacheFor - entries'[t].left + MaxAnswer
    BY DEF SessionsAreShortLived
  <2>1. entries'[t] = entries[t] /\ Fresh(t)
    BY DEF EntriesStay, Fresh
  <2>2. entries[t].role \in Roles /\ entries[t].left \in Nat
    BY <2>1 DEF SessionTyped, Fresh
  <2> QED BY <1>0, <2>1, <2>2 DEF SessionsAreShortLived
<1> QED BY <1>1, <1>2

\* Requests that hold a token hold no other than before.
TokensStay ==
  \A q \in Requests : request'[q].at \in {"create", "delete", "drop"} =>
    /\ request[q].at \in {"create", "delete", "drop"} /\ request'[q].token = request[q].token
    /\ request'[q].at = "create" => request[q].at = "create"

LEMMA TokensKept ==
  ASSUME SessionInv, TokensStay, UNCHANGED <<madeWith, loggedOut>>, rows' \subseteq rows
  PROVE  TokensOnce' /\ loggedOut' \subseteq Tokens \ rows'
  BY DEF SessionInv, SessionTyped, TokensOnce, TokensStay

\* Nobody is let in, and no lookup begins.
LEMMA LogoutKept ==
  ASSUME SessionInv, UNCHANGED loggedOut, overlapped \subseteq overlapped',
         \A t \in Tokens : Fresh(t)' => Fresh(t),
         \A q \in Requests : request'[q].at = "put" =>
           request[q].at = "put" /\ request'[q].token = request[q].token
  PROVE  LogoutWins'
  BY DEF SessionInv, SessionTyped, LogoutWins, LookupInFlight

\* No password is written, no wipe ends, and no login begins.
LEMMA PasswordKept ==
  ASSUME SessionInv, UNCHANGED madeWith, kept \subseteq kept',
         account'.there => account.there /\ account'.password = account.password,
         (rows \cup LoginsInFlight)' \subseteq rows \cup LoginsInFlight,
         PasswordChanging => PasswordChanging'
  PROVE  NewPasswordIsIn'
  BY DEF SessionInv, NewPasswordIsIn

\* A request that turns to another state is typed, and the others stay.
LEMMA NewState ==
  ASSUME SessionInv, NEW q \in Requests, NEW s \in RequestStates, Goes(q, s)
  PROVE  /\ request' \in [Requests -> RequestStates]
         /\ request'[q] = s /\ \A p \in Requests \ {q} : request'[p] = request[p]
  BY DEF SessionInv, SessionTyped, Goes

\* One that neither takes a token, nor looks one up.
LEMMA GoesOn ==
  ASSUME SessionInv, NEW q \in Requests, NEW s \in RequestStates, Goes(q, s),
         s.at \notin {"put", "create"},
         s.at \in {"delete", "drop"} =>
           request[q].at \in {"delete", "drop"} /\ s.token = request[q].token
  PROVE  /\ request' \in [Requests -> RequestStates] /\ TokensStay /\ PutsStay
         /\ LoginsInFlight' \subseteq LoginsInFlight
         /\ request[q].at # "wipe" => (PasswordChanging => PasswordChanging')
<1>1. /\ request' \in [Requests -> RequestStates]
      /\ request'[q] = s /\ \A p \in Requests \ {q} : request'[p] = request[p]
  BY NewState
<1>2. TokensStay /\ PutsStay
  BY <1>1 DEF TokensStay, PutsStay
<1>3. LoginsInFlight' \subseteq LoginsInFlight
  BY <1>1 DEF LoginsInFlight
<1>4. request[q].at # "wipe" => (PasswordChanging => PasswordChanging')
  BY <1>1 DEF PasswordChanging
<1> QED BY <1>1, <1>2, <1>3, <1>4

\* A statement that makes no session, or no statement.
LEMMA StatementKept ==
  ASSUME SessionInv, request' \in [Requests -> RequestStates], TokensStay, PutsStay,
         UNCHANGED <<madeWith, entries, loggedOut, overlapped>>,
         kept \subseteq kept', kept' \subseteq Tokens,
         account' \in [there : BOOLEAN, role : Roles, enabled : BOOLEAN, password : Passwords],
         rows' \subseteq rows, NowTrue \/ SameAnswers,
         NewPasswordIsIn'
  PROVE  SessionInv'
<1>1. /\ truth' \in [Tokens -> [Roles -> Ages]] /\ TruthIsNow'
      /\ \A t \in Tokens, r \in Roles : truth'[t][r] <= truth[t][r]
  <2>1. account'.role \in Roles
    OBVIOUS
  <2> QED BY <2>1, NowTrueKeepsTruth, TablesKeepTruth
<1>2. EntriesStay
  BY DEF EntriesStay
<1>3. PutTrue' /\ SessionsAreShortLived'
  BY <1>1, <1>2, AgesKept
<1>4. TokensOnce' /\ loggedOut' \subseteq Tokens \ rows'
  BY TokensKept
<1>5. LogoutWins'
  BY LogoutKept DEF Fresh, PutsStay
<1>6. SessionTyped'
  BY <1>1, <1>4 DEF SessionInv, SessionTyped
<1> QED BY <1>1, <1>3, <1>4, <1>5, <1>6 DEF SessionInv

-----------------------------------------------------------------------------
(* The handlers                                                              *)

\* What an admin does to the account, but for the password.
LEMMA AdminKeeps ==
  ASSUME SessionInv, NEW q \in Requests,
         \/ \E r \in Roles, e \in BOOLEAN : PatchUser(q, r, e)
         \/ EndSessions(q) \/ DeleteUser(q) \/ \E p \in Passwords : NewPassword(q, p)
  PROVE  SessionInv'
<1> USE DEF SessionInv, SessionTyped
<1>1. ASSUME NEW s \in RequestStates, Goes(q, s), s.at \in {"idle", "end sessions", "hash"},
             request[q].at # "wipe", UNCHANGED <<madeWith, entries, loggedOut, overlapped, kept>>,
             account' \in [there : BOOLEAN, role : Roles, enabled : BOOLEAN, password : Passwords],
             account'.password = account.password, account'.there => account.there,
             rows' \subseteq rows, NowTrue \/ SameAnswers
      PROVE  SessionInv'
  <2>1. /\ request' \in [Requests -> RequestStates] /\ TokensStay /\ PutsStay
        /\ LoginsInFlight' \subseteq LoginsInFlight /\ (PasswordChanging => PasswordChanging')
    BY <1>1, GoesOn
  <2>2. NewPasswordIsIn'
    BY <1>1, <2>1, PasswordKept
  <2> QED BY <1>1, <2>1, <2>2, StatementKept
<1>2. ASSUME NEW r \in Roles, NEW e \in BOOLEAN, PatchUser(q, r, e) PROVE SessionInv'
  <2>1. PICK s \in {Idle, [at |-> "end sessions"]} : Goes(q, s)
    BY <1>2 DEF PatchUser
  <2>2. s \in RequestStates /\ s.at \in {"idle", "end sessions"}
    <3>1. CASE s = Idle
      BY <3>1, RequestStatesAre DEF Idle
    <3>2. CASE s = [at |-> "end sessions"]
      BY <3>2, RequestStatesAre
    <3> QED BY <3>1, <3>2
  <2>4. request[q].at # "wipe"
    BY <1>2, IdleIs DEF PatchUser
  <2>3. /\ account' \in [there : BOOLEAN, role : Roles, enabled : BOOLEAN, password : Passwords]
        /\ account'.password = account.password /\ account'.there = account.there
    BY <1>2 DEF PatchUser
  <2> QED BY <1>1, <1>2, <2>1, <2>2, <2>3, <2>4 DEF PatchUser
<1>3. CASE EndSessions(q)
  BY <1>1, <1>3, RequestStatesAre DEF EndSessions, Idle
<1>4. CASE DeleteUser(q)
  <2>1. Goes(q, Idle) /\ request[q].at # "wipe"
    BY <1>4 DEF DeleteUser, Goes, Idle
  <2>2. /\ account' \in [there : BOOLEAN, role : Roles, enabled : BOOLEAN, password : Passwords]
        /\ account'.password = account.password /\ ~account'.there /\ rows' \subseteq rows
    BY <1>4 DEF DeleteUser
  <2> QED BY <1>1, <1>4, <2>1, <2>2, RequestStatesAre DEF DeleteUser, Idle
<1>5. ASSUME NEW p \in Passwords, NewPassword(q, p) PROVE SessionInv'
  <2>1. [at |-> "hash", password |-> p] \in RequestStates
    BY RequestStatesAre
  <2>2. /\ Goes(q, [at |-> "hash", password |-> p]) /\ request[q].at # "wipe"
        /\ UNCHANGED <<account, rows, madeWith, entries, truth, loggedOut, overlapped, kept>>
    BY <1>5 DEF NewPassword, Idle
  <2>3. SameAnswers
    BY <2>2 DEF SameAnswers
  <2> QED BY <1>1, <2>1, <2>2, <2>3
<1> QED BY <1>2, <1>3, <1>4, <1>5

\* Its end leaves no session that a login made before it, but for those it is known to miss.
LEMMA PasswordKeeps ==
  ASSUME SessionInv, NEW q \in Requests, SetUserPassword(q)
  PROVE  SessionInv'
<1> USE DEF SessionInv, SessionTyped
<1>1. CASE request[q].at = "hash"
  <2>1. /\ request[q].password \in Passwords
        /\ request[q] = [at |-> "hash", password |-> request[q].password]
    BY <1>1, RequestShape
  <2>2. [request[q] EXCEPT !.at = "wipe"] = [at |-> "wipe", password |-> request[q].password]
    BY <2>1
  <2>3. UpdateHash(q, [at |-> "wipe", password |-> request[q].password])
    BY <1>1, <2>2 DEF SetUserPassword
  <2>4. UNCHANGED <<rows, madeWith, entries, truth, loggedOut, overlapped>>
    BY <2>3 DEF UpdateHash
  <2>5. SameAnswers
    BY <2>3 DEF UpdateHash, SameAnswers
  <2>6. LoginsInFlight \subseteq Tokens
    BY RequestShape DEF LoginsInFlight
  <2>7. /\ account' \in [there : BOOLEAN, role : Roles, enabled : BOOLEAN, password : Passwords]
        /\ kept \subseteq kept' /\ kept' \subseteq Tokens
    BY <2>1, <2>3, <2>6 DEF UpdateHash
  <2>8. CASE account' = account /\ Goes(q, Idle) /\ kept' = kept
    <3>1. /\ request' \in [Requests -> RequestStates] /\ TokensStay /\ PutsStay
          /\ LoginsInFlight' \subseteq LoginsInFlight /\ (PasswordChanging => PasswordChanging')
      BY <1>1, <2>8, GoesOn, RequestStatesAre, IdleIs
    <3>2. NewPasswordIsIn'
      BY <2>4, <2>8, <3>1, PasswordKept
    <3> QED BY <2>4, <2>5, <2>7, <3>1, <3>2, StatementKept
  <2>9. CASE Goes(q, [at |-> "wipe", password |-> request[q].password])
    <3>1. [at |-> "wipe", password |-> request[q].password] \in RequestStates
      BY <2>1, RequestStatesAre
    <3>2. /\ request' \in [Requests -> RequestStates] /\ TokensStay /\ PutsStay
          /\ request'[q].at = "wipe"
      BY <2>9, <3>1, GoesOn, NewState
    <3>3. NewPasswordIsIn'
      BY <3>2 DEF NewPasswordIsIn, PasswordChanging
    <3> QED BY <2>4, <2>5, <2>7, <3>2, <3>3, StatementKept
  <2>10. CASE Goes(q, Idle) /\ kept' = kept \cup rows \cup LoginsInFlight
    <3>1. /\ request' \in [Requests -> RequestStates] /\ TokensStay /\ PutsStay
          /\ LoginsInFlight' \subseteq LoginsInFlight
      BY <2>10, GoesOn, RequestStatesAre, IdleIs
    <3>2. NewPasswordIsIn'
      BY <2>4, <2>10, <3>1 DEF NewPasswordIsIn
    <3> QED BY <2>4, <2>5, <2>7, <3>1, <3>2, StatementKept
  <2> QED BY <2>3, <2>8, <2>9, <2>10 DEF UpdateHash
<1>2. CASE request[q].at = "wipe"
  <2>1. Wipe(q, Idle)
    BY <1>2 DEF SetUserPassword
  <2>2. /\ request' \in [Requests -> RequestStates] /\ TokensStay /\ PutsStay
        /\ LoginsInFlight' \subseteq LoginsInFlight
    BY <2>1, GoesOn, RequestStatesAre DEF Wipe, Idle
  <2>3. LoginsInFlight \subseteq Tokens
    BY RequestShape DEF LoginsInFlight
  <2>4. /\ kept \subseteq kept' /\ kept' \subseteq Tokens /\ rows' \subseteq rows
        /\ rows' \cup LoginsInFlight' \subseteq kept'
    BY <2>1, <2>2, <2>3 DEF Wipe
  <2>5. NewPasswordIsIn'
    BY <2>4 DEF NewPasswordIsIn
  <2> QED BY <2>1, <2>2, <2>4, <2>5, StatementKept DEF Wipe
<1> QED BY <1>1, <1>2 DEF SetUserPassword

\* A logout, from the request to the drop: the token is then in neither place.
LEMMA LogoutKeeps ==
  ASSUME SessionInv, NEW q \in Requests, (\E t \in Tokens : Logout(q, t)) \/ logout(q)
  PROVE  SessionInv'
<1> USE DEF SessionInv, SessionTyped
<1>1. ASSUME NEW t \in Tokens, Logout(q, t) PROVE SessionInv'
  <2> DEFINE s == [at |-> "delete", token |-> t]
  <2>1. s \in RequestStates /\ Goes(q, s) /\ s.at = "delete" /\ s.token = t
    BY <1>1, RequestStatesAre DEF Logout
  <2> HIDE DEF s
  <2>2. /\ t \in rows /\ request[q].at = "idle"
        /\ UNCHANGED <<account, rows, madeWith, entries, truth, loggedOut, overlapped, kept>>
    BY <1>1 DEF Logout, Idle
  <2>3. /\ request' \in [Requests -> RequestStates]
        /\ request'[q] = s /\ \A p \in Requests \ {q} : request'[p] = request[p]
    BY <2>1, NewState
  <2>4. PutsStay /\ EntriesStay
    BY <2>1, <2>2, <2>3 DEF PutsStay, EntriesStay
  <2>5. /\ truth' \in [Tokens -> [Roles -> Ages]] /\ TruthIsNow'
        /\ \A u \in Tokens, r \in Roles : truth'[u][r] <= truth[u][r]
    BY <2>2, TablesKeepTruth DEF SameAnswers
  <2>6. PutTrue' /\ SessionsAreShortLived'
    BY <2>4, <2>5, AgesKept
  <2>7. TokensOnce'
    <3>1. /\ \A u \in rows \cup loggedOut : madeWith[u] # NoPassword
          /\ \A p \in Requests : request'[p].at \in {"create", "delete", "drop"} =>
               madeWith[request'[p].token] # NoPassword
      BY <2>1, <2>2, <2>3 DEF TokensOnce
    <3>2. ASSUME NEW p \in Requests, request'[p].at = "create"
          PROVE  /\ p # q /\ request'[p] = request[p]
                 /\ request[p].token \notin rows \cup loggedOut /\ request[p].token # t
      BY <2>1, <2>2, <2>3, <3>2 DEF TokensOnce
    <3>3. ASSUME NEW p \in Requests, request'[p].at = "create", NEW o \in Requests \ {p},
                 request'[o].at \in {"create", "delete", "drop"}
          PROVE  request'[o].token # request'[p].token
      <4>1. CASE o = q
        BY <2>1, <2>3, <3>2, <3>3, <4>1
      <4>2. CASE o # q
        BY <2>3, <3>2, <3>3, <4>2 DEF TokensOnce
      <4> QED BY <4>1, <4>2
    <3> QED BY <2>2, <3>1, <3>2, <3>3 DEF TokensOnce
  <2>8. LogoutWins'
    BY <2>2, <2>4, LogoutKept DEF PutsStay, Fresh
  <2>9. NewPasswordIsIn'
    <3>1. LoginsInFlight' \subseteq LoginsInFlight
      BY <2>1, <2>2, <2>3 DEF LoginsInFlight
    <3>2. PasswordChanging => PasswordChanging'
      BY <2>1, <2>2, <2>3 DEF PasswordChanging
    <3> QED BY <2>2, <3>1, <3>2, PasswordKept
  <2> QED BY <2>2, <2>3, <2>5, <2>6, <2>7, <2>8, <2>9
<1>2. ASSUME request[q].at \in {"delete", "drop"}
      PROVE  /\ request[q].token \in Tokens
             /\ request[q] = [at |-> request[q].at, token |-> request[q].token]
             /\ [at |-> "drop", token |-> request[q].token] \in RequestStates
  BY <1>2, RequestShape, RequestStatesAre
<1>3. ASSUME logout(q), request[q].at = "delete" PROVE SessionInv'
  <2>1. DeleteSession(q, [at |-> "drop", token |-> request[q].token])
    <3>1. request[q] = [at |-> "delete", token |-> request[q].token]
      BY <1>2, <1>3
    <3>2. [request[q] EXCEPT !.at = "drop"] = [at |-> "drop", token |-> request[q].token]
      BY <3>1
    <3> QED BY <1>3, <3>2 DEF logout
  <2>2. /\ request' \in [Requests -> RequestStates] /\ TokensStay /\ PutsStay
        /\ LoginsInFlight' \subseteq LoginsInFlight /\ (PasswordChanging => PasswordChanging')
    BY <1>2, <1>3, <2>1, GoesOn DEF DeleteSession
  <2>3. rows' \subseteq rows /\ UNCHANGED <<account, madeWith, entries, loggedOut, overlapped, kept>>
    BY <2>1 DEF DeleteSession
  <2>4. NewPasswordIsIn'
    BY <2>2, <2>3, PasswordKept
  <2> QED BY <2>1, <2>2, <2>3, <2>4, StatementKept DEF DeleteSession
<1>4. ASSUME logout(q), request[q].at = "drop" PROVE SessionInv'
  <2> DEFINE t == request[q].token
  <2>1. /\ t \in Tokens /\ UNCHANGED <<account, rows, madeWith, truth, kept>>
        /\ entries' = [entries EXCEPT ![t] = NoEntry]
        /\ loggedOut' = loggedOut \cup ({t} \ rows)
        /\ overlapped' = IF LookupInFlight(t) THEN overlapped \cup {t} ELSE overlapped
        /\ Goes(q, Idle)
    <3>1. Drop(q, Idle)
      BY <1>4 DEF logout
    <3> QED BY <1>2, <1>4, <3>1 DEF Drop
  <2>2. /\ request' \in [Requests -> RequestStates] /\ TokensStay /\ PutsStay
        /\ LoginsInFlight' \subseteq LoginsInFlight /\ (PasswordChanging => PasswordChanging')
    BY <1>4, <2>1, IdleIs, GoesOn
  <2>3. /\ request'[q].at = "idle" /\ \A p \in Requests \ {q} : request'[p] = request[p]
    BY <2>1, NewState, IdleIs
  <2>4. \A c \in Requests : request[c].at = "create" => request[c].token # t
    BY <1>4 DEF TokensOnce
  <2>5. madeWith[t] # NoPassword
    BY <1>4 DEF TokensOnce
  <2> HIDE DEF t
  <2>6. EntriesStay
    BY <2>1 DEF EntriesStay
  <2>7. /\ truth' \in [Tokens -> [Roles -> Ages]] /\ TruthIsNow'
        /\ \A u \in Tokens, r \in Roles : truth'[u][r] <= truth[u][r]
    BY <2>1, TablesKeepTruth DEF SameAnswers
  <2>8. PutTrue' /\ SessionsAreShortLived'
    BY <2>2, <2>6, <2>7, AgesKept
  <2>9. TokensOnce'
    BY <2>1, <2>2, <2>3, <2>4, <2>5 DEF TokensOnce, TokensStay
  <2>10. LogoutWins'
    <3> SUFFICES ASSUME NEW u \in loggedOut' \ overlapped' PROVE ~Fresh(u)' /\ ~LookupInFlight(u)'
      BY DEF LogoutWins
    <3>1. LookupInFlight(u)' => LookupInFlight(u)
      BY <2>2 DEF LookupInFlight, PutsStay
    <3>2. CASE u = t
      BY <2>1, <3>1, <3>2 DEF Fresh
    <3>3. CASE u # t
      BY <2>1, <3>1, <3>3 DEF Fresh, LogoutWins
    <3> QED BY <3>2, <3>3
  <2>11. NewPasswordIsIn'
    BY <2>1, <2>2, PasswordKept
  <2>12. SessionTyped'
    <3>1. entries' \in [Tokens -> {NoEntry} \cup [role : Roles, left : 1..CacheFor]]
      BY <2>1
    <3>2. loggedOut' \subseteq Tokens \ rows' /\ overlapped' \subseteq Tokens
      BY <2>1
    <3> QED BY <2>1, <2>2, <2>7, <3>1, <3>2
  <2> QED BY <2>7, <2>8, <2>9, <2>10, <2>11, <2>12
<1> QED BY <1>1, <1>3, <1>4 DEF logout

\* A lookup that finds a session, and the entry its answer becomes.
LEMMA LookupKeeps ==
  ASSUME SessionInv, NEW q \in Requests, (\E t \in Tokens : Lookup(q, t)) \/ Put(q)
  PROVE  SessionInv'
<1> USE DEF SessionInv, SessionTyped
<1>1. ASSUME UNCHANGED <<account, rows, madeWith, truth, loggedOut, overlapped, kept>>,
             NEW s \in RequestStates, Goes(q, s), s.at \in {"put", "idle"},
             request[q].at \in {"put", "idle"}
      PROVE  /\ request' \in [Requests -> RequestStates] /\ request'[q] = s
             /\ \A p \in Requests \ {q} : request'[p] = request[p]
             /\ truth' \in [Tokens -> [Roles -> Ages]] /\ TruthIsNow'
             /\ TokensOnce' /\ NewPasswordIsIn' /\ loggedOut' \subseteq Tokens \ rows'
  <2>1. /\ request' \in [Requests -> RequestStates] /\ request'[q] = s
        /\ \A p \in Requests \ {q} : request'[p] = request[p]
    BY <1>1, NewState
  <2>2. truth' \in [Tokens -> [Roles -> Ages]] /\ TruthIsNow'
    BY <1>1, TablesKeepTruth DEF SameAnswers
  <2>3. TokensStay
    BY <1>1, <2>1 DEF TokensStay
  <2>4. TokensOnce' /\ loggedOut' \subseteq Tokens \ rows'
    BY <1>1, <2>3, TokensKept
  <2>5. LoginsInFlight' \subseteq LoginsInFlight /\ (PasswordChanging => PasswordChanging')
    BY <1>1, <2>1 DEF LoginsInFlight, PasswordChanging
  <2>6. NewPasswordIsIn'
    BY <1>1, <2>5, PasswordKept
  <2> QED BY <2>1, <2>2, <2>4, <2>6
<1>2. ASSUME NEW t \in Tokens, Lookup(q, t) PROVE SessionInv'
  <2> DEFINE r == LookupSession(t)
  <2>1. /\ t \in rows /\ r \in Roles /\ truth[t][r] = 0
        /\ Goes(q, [at |-> "put", token |-> t, role |-> r, age |-> 0])
        /\ request[q] = Idle
        /\ UNCHANGED <<account, rows, madeWith, entries, truth, loggedOut, overlapped, kept>>
    BY <1>2 DEF Lookup, LookupSession, TruthIsNow
  <2> HIDE DEF r
  <2> DEFINE s == [at |-> "put", token |-> t, role |-> r, age |-> 0]
  <2>2. s \in RequestStates /\ s.at = "put" /\ s.token = t /\ s.role = r /\ s.age = 0 /\ Goes(q, s)
    <3>1. 0 \in 0..MaxAnswer
      OBVIOUS
    <3>2. s \in RequestStates
      BY <2>1, <3>1, RequestStatesAre
    <3>3. s.at = "put" /\ s.token = t /\ s.role = r /\ s.age = 0
      OBVIOUS
    <3> QED BY <2>1, <3>2, <3>3
  <2> HIDE DEF s
  <2>3. /\ request' \in [Requests -> RequestStates] /\ request'[q] = s
        /\ \A p \in Requests \ {q} : request'[p] = request[p]
        /\ truth' \in [Tokens -> [Roles -> Ages]] /\ TruthIsNow'
        /\ TokensOnce' /\ NewPasswordIsIn' /\ loggedOut' \subseteq Tokens \ rows'
    BY <1>1, <2>1, <2>2, IdleIs
  <2>4. PutTrue'
    BY <2>1, <2>2, <2>3 DEF PutTrue
  <2>5. SessionsAreShortLived'
    BY <2>1 DEF SessionsAreShortLived, Fresh
  <2>6. LogoutWins'
    BY <2>1, <2>2, <2>3 DEF LogoutWins, LookupInFlight, Fresh
  <2> QED BY <2>1, <2>3, <2>4, <2>5, <2>6
<1>3. CASE Put(q)
  <2> DEFINE t == request[q].token
             r == request[q].role
  <2>1. /\ request[q].at = "put" /\ Goes(q, Idle)
        /\ UNCHANGED <<account, rows, madeWith, truth, loggedOut, overlapped, kept>>
        /\ \/ entries' = [entries EXCEPT ![t] = [role |-> r, left |-> CacheFor]]
           \/ entries' = entries
    BY <1>3 DEF Put
  <2>2. /\ t \in Tokens /\ r \in Roles /\ request[q].age \in 0..MaxAnswer
        /\ truth[t][r] <= request[q].age /\ truth[t][r] \in Nat /\ LookupInFlight(t)
    BY <2>1, RequestShape DEF PutTrue, Ages, LookupInFlight
  <2> HIDE DEF t, r
  <2>3. /\ request' \in [Requests -> RequestStates] /\ request'[q] = Idle
        /\ \A p \in Requests \ {q} : request'[p] = request[p]
        /\ truth' \in [Tokens -> [Roles -> Ages]] /\ TruthIsNow'
        /\ TokensOnce' /\ NewPasswordIsIn' /\ loggedOut' \subseteq Tokens \ rows'
    BY <1>1, <2>1, IdleIs
  <2>4. PutTrue'
    BY <2>1, <2>3, IdleIs DEF PutTrue
  <2>5. entries' \in [Tokens -> {NoEntry} \cup [role : Roles, left : 1..CacheFor]]
    BY <2>1, <2>2
  <2>6. SessionsAreShortLived'
    <3> SUFFICES ASSUME NEW u \in Tokens, Fresh(u)'
                 PROVE  truth'[u][entries'[u].role] <= CacheFor - entries'[u].left + MaxAnswer
      BY DEF SessionsAreShortLived
    <3>1. CASE entries'[u] = entries[u]
      BY <2>1, <3>1 DEF SessionsAreShortLived, Fresh
    <3>2. CASE u = t /\ entries'[u] = [role |-> r, left |-> CacheFor]
      BY <2>1, <2>2, <3>2
    <3> QED BY <2>1, <3>1, <3>2
  <2>7. LogoutWins'
    BY <2>1, <2>2, <2>3, IdleIs DEF LogoutWins, LookupInFlight, Fresh
  <2> QED BY <2>1, <2>3, <2>4, <2>5, <2>6, <2>7
<1> QED BY <1>2, <1>3

\* A login: its token is new, and its session is as good as the password it checked.
LEMMA LoginKeeps ==
  ASSUME SessionInv, NEW q \in Requests, (\E t \in Tokens : Verify(q, t)) \/ CreateSession(q)
  PROVE  SessionInv'
<1> USE DEF SessionInv, SessionTyped
<1>1. ASSUME NEW t \in Tokens, Verify(q, t) PROVE SessionInv'
  <2> DEFINE s == [at |-> "create", token |-> t]
  <2>1. /\ s \in RequestStates /\ s.at = "create" /\ s.token = t /\ Goes(q, s)
        /\ request[q] = Idle /\ account.there /\ madeWith[t] = NoPassword
        /\ madeWith' = [madeWith EXCEPT ![t] = account.password]
        /\ UNCHANGED <<account, rows, entries, truth, loggedOut, overlapped, kept>>
    BY <1>1, RequestStatesAre DEF Verify
  <2> HIDE DEF s
  <2>2. /\ request' \in [Requests -> RequestStates] /\ request'[q] = s
        /\ \A p \in Requests \ {q} : request'[p] = request[p]
    BY <2>1, NewState
  <2>3. /\ PutsStay /\ EntriesStay
        /\ truth' \in [Tokens -> [Roles -> Ages]] /\ TruthIsNow'
        /\ \A u \in Tokens, r \in Roles : truth'[u][r] <= truth[u][r]
    BY <2>1, <2>2, TablesKeepTruth DEF PutsStay, EntriesStay, SameAnswers
  <2>4. PutTrue' /\ SessionsAreShortLived'
    BY <2>3, AgesKept
  <2>5. LogoutWins'
    BY <2>1, <2>3, LogoutKept DEF Fresh, PutsStay
  <2>6. t \notin rows \cup loggedOut
    BY <2>1 DEF TokensOnce
  <2>7. \A p \in Requests :
          request[p].at \in {"create", "delete", "drop"} => request[p].token # t
    BY <2>1 DEF TokensOnce
  <2>8. TokensOnce'
    <3>1. \A u \in Tokens : madeWith[u] # NoPassword => madeWith'[u] # NoPassword
      BY <2>1
    <3>2. madeWith'[t] # NoPassword
      BY <2>1
    <3>3. \A u \in rows' \cup loggedOut' : madeWith'[u] # NoPassword
      BY <2>1, <3>1 DEF TokensOnce
    <3>4. \A p \in Requests : request'[p].at \in {"create", "delete", "drop"} =>
            madeWith'[request'[p].token] # NoPassword
      BY <2>1, <2>2, <3>1, <3>2, RequestShape DEF TokensOnce
    <3>5. ASSUME NEW p \in Requests, request'[p].at = "create"
          PROVE  /\ request'[p].token \notin rows' \cup loggedOut'
                 /\ \A o \in Requests \ {p} :
                      request'[o].at \in {"create", "delete", "drop"} =>
                        request'[o].token # request'[p].token
      <4>1. CASE p = q
        BY <2>1, <2>2, <2>6, <2>7, <4>1
      <4>2. CASE p # q
        BY <2>1, <2>2, <2>7, <3>5, <4>2 DEF TokensOnce
      <4> QED BY <4>1, <4>2
    <3> QED BY <3>3, <3>4, <3>5 DEF TokensOnce
  <2>9. NewPasswordIsIn'
    <3>1. LoginsInFlight' \subseteq LoginsInFlight \cup {t}
      BY <2>1, <2>2 DEF LoginsInFlight
    <3>2. PasswordChanging => PasswordChanging'
      BY <2>1, <2>2, IdleIs DEF PasswordChanging
    <3>3. LoginsInFlight \subseteq Tokens /\ t \notin LoginsInFlight
      BY <2>7, RequestShape DEF LoginsInFlight
    <3> QED BY <2>1, <2>6, <3>1, <3>2, <3>3 DEF NewPasswordIsIn
  <2>10. madeWith' \in [Tokens -> Passwords \cup {NoPassword}]
    BY <2>1
  <2> QED BY <2>1, <2>2, <2>3, <2>4, <2>5, <2>8, <2>9, <2>10
<1>2. CASE CreateSession(q)
  <2> DEFINE t == request[q].token
  <2>1. /\ request[q].at = "create" /\ Goes(q, Idle) /\ NowTrue
        /\ rows' \in {rows, rows \cup {t}}
        /\ UNCHANGED <<account, madeWith, entries, loggedOut, overlapped, kept>>
    BY <1>2 DEF CreateSession
  <2>2. /\ t \in Tokens /\ t \notin rows \cup loggedOut /\ madeWith[t] # NoPassword
        /\ t \in LoginsInFlight
        /\ \A p \in Requests \ {q} :
             request[p].at \in {"create", "delete", "drop"} => request[p].token # t
    BY <2>1, RequestShape DEF TokensOnce, LoginsInFlight
  <2> HIDE DEF t
  <2>3. /\ request' \in [Requests -> RequestStates] /\ TokensStay /\ PutsStay
        /\ LoginsInFlight' \subseteq LoginsInFlight /\ (PasswordChanging => PasswordChanging')
    BY <2>1, IdleIs, GoesOn
  <2>4. /\ request'[q].at = "idle" /\ \A p \in Requests \ {q} : request'[p] = request[p]
    BY <2>1, IdleIs, NewState
  <2>5. /\ EntriesStay /\ truth' \in [Tokens -> [Roles -> Ages]] /\ TruthIsNow'
        /\ \A u \in Tokens, r \in Roles : truth'[u][r] <= truth[u][r]
    BY <2>1, NowTrueKeepsTruth DEF EntriesStay
  <2>6. PutTrue' /\ SessionsAreShortLived'
    BY <2>3, <2>5, AgesKept
  <2>7. LogoutWins'
    BY <2>1, <2>3, LogoutKept DEF Fresh, PutsStay
  <2>8. TokensOnce'
    <3>1. \A u \in rows' \cup loggedOut' : madeWith'[u] # NoPassword
      BY <2>1, <2>2 DEF TokensOnce
    <3>2. \A p \in Requests : request'[p].at \in {"create", "delete", "drop"} =>
            p # q /\ request'[p] = request[p]
      BY <2>4
    <3> QED BY <2>1, <2>2, <3>1, <3>2 DEF TokensOnce
  <2>9. NewPasswordIsIn'
    BY <2>1, <2>2, <2>3, PasswordKept
  <2> QED BY <2>1, <2>2, <2>3, <2>5, <2>6, <2>7, <2>8, <2>9
<1> QED BY <1>1, <1>2

\* Entries, lookups and what was true age together.
LEMMA SessionTickKeeps ==
  ASSUME SessionInv, SessionTick
  PROVE  SessionInv'
<1> USE DEF SessionInv, SessionTyped
<1>1. UNCHANGED <<account, rows, madeWith, loggedOut, overlapped, kept>>
  BY DEF SessionTick
<1>2. \A t \in Tokens, r \in Roles :
        truth[t][r] \in Nat /\ truth'[t][r] \in Nat /\ truth'[t][r] <= truth[t][r] + 1
  BY DEF SessionTick, Older, Ages, Never
<1>3. truth' \in [Tokens -> [Roles -> Ages]]
  <2>0. CacheFor \in Nat /\ MaxAnswer \in Nat
    OBVIOUS
  <2>1. 0 \in Ages /\ \A a \in Ages : Older(a) \in Ages
    <3>1. 0 \in Ages /\ Never \in Ages
      BY ONLY <2>0 DEF Ages, Never
    <3>2. ASSUME NEW a \in Ages PROVE Older(a) \in Ages
      BY ONLY <2>0, <3>1, <3>2 DEF Older, Ages, Never
    <3> QED BY ONLY <3>1, <3>2
  <2>2. \A t \in Tokens, r \in Roles :
          (IF LookupSession(t) = r THEN 0 ELSE Older(truth[t][r])) \in Ages
    BY <2>1
  <2>3. truth' = [t \in Tokens |-> [r \in Roles |->
                   IF LookupSession(t) = r THEN 0 ELSE Older(truth[t][r])]]
    BY DEF SessionTick
  <2> QED BY ONLY <2>2, <2>3
<1>4. TruthIsNow'
  <2>1. \A t \in Tokens : LookupSession(t)' = LookupSession(t)
                          /\ (LookupSession(t) # "none" => LookupSession(t) \in Roles)
    BY <1>1 DEF LookupSession
  <2> QED BY <2>1 DEF SessionTick, TruthIsNow
<1>5. ASSUME NEW q \in Requests
      PROVE  /\ request'[q] \in RequestStates /\ request'[q].at = request[q].at
             /\ request[q].at \in {"create", "delete", "drop", "put"} =>
                  request'[q].token = request[q].token
             /\ request[q].at = "put" =>
                  request'[q].role = request[q].role /\ request'[q].age = request[q].age + 1
  <2>1. CASE request[q].at = "put"
    <3>1. /\ request[q].token \in Tokens /\ request[q].role \in Roles
          /\ request[q].age + 1 \in 0..MaxAnswer
          /\ request[q] = [at |-> "put", token |-> request[q].token,
                          role |-> request[q].role, age |-> request[q].age]
      BY <2>1, RequestShape DEF SessionTick
    <3>2. request'[q] = [request[q] EXCEPT !.age = request[q].age + 1]
      BY <2>1 DEF SessionTick
    <3>3. request'[q] = [at |-> "put", token |-> request[q].token,
                         role |-> request[q].role, age |-> request[q].age + 1]
      BY <3>1, <3>2
    <3>4. request'[q] \in RequestStates
      <4>1. PICK t \in Tokens, r \in Roles, a \in 0..MaxAnswer :
              t = request[q].token /\ r = request[q].role /\ a = request[q].age + 1
        BY ONLY <3>1
      <4>2. [at |-> "put", token |-> t, role |-> r, age |-> a] \in RequestStates
        BY ONLY RequestStatesAre
      <4> QED BY ONLY <3>3, <4>1, <4>2
    <3>5. /\ request'[q].at = "put" /\ request'[q].token = request[q].token
          /\ request'[q].role = request[q].role /\ request'[q].age = request[q].age + 1
      BY <3>3
    <3> QED BY ONLY <2>1, <3>4, <3>5
  <2>2. CASE request[q].at # "put"
    BY <2>2 DEF SessionTick
  <2> QED BY <2>1, <2>2
<1>6. request' \in [Requests -> RequestStates]
  <2>1. request' = [q \in Requests |-> request'[q]]
    BY DEF SessionTick
  <2> QED BY <1>5, <2>1
<1>7. ASSUME NEW t \in Tokens
      PROVE  \/ entries'[t] = NoEntry
             \/ /\ Fresh(t) /\ entries'[t] \in [role : Roles, left : 1..CacheFor]
                /\ entries'[t].role = entries[t].role /\ entries'[t].left = entries[t].left - 1
  <2>1. CASE entries[t] = NoEntry
    BY <2>1 DEF SessionTick, NoEntry
  <2>2. CASE entries[t] # NoEntry
    <3>1. entries[t] \in [role : Roles, left : 1..CacheFor]
      BY <2>2
    <3>2. entries'[t] = IF entries[t].left > 1 THEN [entries[t] EXCEPT !.left = entries[t].left - 1]
                        ELSE NoEntry
      BY DEF SessionTick
    <3> QED BY <2>2, <3>1, <3>2 DEF Fresh
  <2> QED BY <2>1, <2>2
<1>8. entries' \in [Tokens -> {NoEntry} \cup [role : Roles, left : 1..CacheFor]]
  <2>1. entries' = [t \in Tokens |-> entries'[t]]
    BY DEF SessionTick
  <2> QED BY <1>7, <2>1
<1>9. PutTrue'
  <2> SUFFICES ASSUME NEW q \in Requests, request'[q].at = "put"
               PROVE  truth'[request'[q].token][request'[q].role] <= request'[q].age
    BY DEF PutTrue
  <2>1. /\ request[q].token \in Tokens /\ request[q].role \in Roles
        /\ request[q].age \in 0..MaxAnswer /\ request[q].at = "put"
    BY <1>5, RequestShape
  <2> QED BY <1>2, <1>5, <2>1 DEF PutTrue
<1>10. SessionsAreShortLived'
  <2> SUFFICES ASSUME NEW t \in Tokens, Fresh(t)'
               PROVE  truth'[t][entries'[t].role] <= CacheFor - entries'[t].left + MaxAnswer
    BY DEF SessionsAreShortLived
  <2>1. /\ Fresh(t) /\ entries'[t].role = entries[t].role
        /\ entries'[t].left = entries[t].left - 1
    BY <1>7 DEF Fresh
  <2>2. entries[t].role \in Roles /\ entries[t].left \in 1..CacheFor
    BY <2>1 DEF Fresh
  <2> QED BY <1>2, <2>1, <2>2 DEF SessionsAreShortLived
<1>11. TokensOnce' /\ loggedOut' \subseteq Tokens \ rows'
  BY <1>1, <1>5, TokensKept DEF TokensStay
<1>12. LogoutWins'
  BY <1>1, <1>5, <1>7, LogoutKept DEF Fresh
<1>13. NewPasswordIsIn'
  <2>1. LoginsInFlight' \subseteq LoginsInFlight /\ (PasswordChanging => PasswordChanging')
    BY <1>5 DEF LoginsInFlight, PasswordChanging
  <2> QED BY <1>1, <2>1, PasswordKept
<1> QED BY <1>1, <1>3, <1>4, <1>6, <1>8, <1>9, <1>10, <1>11, <1>12, <1>13

LEMMA NextSession == SessionInv /\ [SessionNext]_sessionVars => SessionInv'
<1> SUFFICES ASSUME SessionInv, [SessionNext]_sessionVars PROVE SessionInv'
  OBVIOUS
<1>1. CASE UNCHANGED sessionVars
  BY <1>1 DEF sessionVars, SessionInv, SessionTyped, TruthIsNow, PutTrue, SessionsAreShortLived,
              TokensOnce, LogoutWins, NewPasswordIsIn, LookupSession, Fresh, LookupInFlight,
              PasswordChanging, LoginsInFlight
<1>2. ASSUME NEW t \in Tokens, Expire(t) PROVE SessionInv'
  <2>1. /\ NowTrue /\ rows' \subseteq rows /\ TokensStay /\ PutsStay
        /\ UNCHANGED <<account, madeWith, entries, request, loggedOut, overlapped, kept>>
    BY <1>2 DEF Expire, TokensStay, PutsStay
  <2>2. LoginsInFlight' = LoginsInFlight /\ PasswordChanging' = PasswordChanging
    BY <2>1 DEF LoginsInFlight, PasswordChanging
  <2>3. NewPasswordIsIn'
    BY <2>1, <2>2, PasswordKept
  <2> QED BY <2>1, <2>3, StatementKept DEF SessionInv, SessionTyped
<1>3. ASSUME NEW q \in Requests, NEW t \in Tokens, Hit(q, t) PROVE SessionInv'
  BY <1>1, <1>3 DEF Hit
<1> QED BY <1>1, <1>2, <1>3, LookupKeeps, LoginKeeps, LogoutKeeps, AdminKeeps, PasswordKeeps,
           SessionTickKeeps
        DEF SessionNext

-----------------------------------------------------------------------------
(* The API process                                                           *)

ApiInv == SessionInv /\ RowsInv /\ subject \in {"sessions", "rows"}

LEMMA NextApi == ApiInv /\ [ApiNext]_apiVars => ApiInv'
<1> SUFFICES ASSUME ApiInv, [ApiNext]_apiVars PROVE ApiInv'
  OBVIOUS
<1>1. /\ [SessionNext]_sessionVars /\ [CachesNext]_timedCacheVars
      /\ subject' = subject
  BY DEF ApiNext, apiVars
<1> QED BY <1>1, NextSession, NextRows DEF ApiInv

LEMMA AlwaysApiInv == ApiSpec => []ApiInv
<1>1. ApiInit => ApiInv
  BY InitSession, InitRows DEF ApiInit, ApiInv
<1> QED BY <1>1, NextApi, PTL DEF ApiSpec

\* What authCache and the caches of rows hold, and who holds the lock, is always of its
\* type: in particular a cache's lock is held exactly while its holder looks up.
THEOREM ApiTypeCorrect == ApiSpec => []ApiTypeOK
<1>1. ApiInv => ApiTypeOK
  <2> SUFFICES ASSUME ApiInv PROVE ApiTypeOK
    OBVIOUS
  <2>1. SessionTypeOK
    BY DEF ApiInv, SessionInv, SessionTyped, TruthIsNow, SessionTypeOK, Fresh
  <2>2. CachesTypeOK
    BY DEF ApiInv, RowsInv, RowsTyped, LockInv, Filling, CachesTypeOK
  <2> QED BY <2>1, <2>2 DEF ApiTypeOK, ApiInv
<1> QED BY <1>1, AlwaysApiInv, PTL

\* server.go:399-400: a token whose logout has answered is never let in again, unless a
\* lookup overlapped the drop.
THEOREM LogoutHolds == ApiSpec => []LogoutWins
<1>1. ApiInv => LogoutWins
  BY DEF ApiInv, SessionInv
<1> QED BY <1>1, AlwaysApiInv, PTL

\* store/auth.go:275: once a password change is through, no session is left of a login
\* with an earlier password, whatever logins and admins did meanwhile; but a login that
\* overlapped the change, and the sessions there were when one of its two statements
\* reported an error, are excepted.
THEOREM OldPasswordNeverStays == ApiSpec => []OldPasswordIsOut
<1>1. ApiInv => OldPasswordIsOut
  BY DEF ApiInv, SessionInv, NewPasswordIsIn, OldPasswordIsOut
<1> QED BY <1>1, AlwaysApiInv, PTL

\* auth.go:171: once every change of a row is answered and was followed by its
\* invalidation, the cache answers what the row says.
THEOREM InvalidationHolds == ApiSpec => []InvalidationWins
<1>1. ApiInv => InvalidationWins
  BY DEF ApiInv, RowsInv, Current, Settled, InvalidationWins
<1> QED BY <1>1, AlwaysApiInv, PTL

\* auth.go:19 and :56: whatever the caches answer was true at most an entry's life and a
\* lookup ago, for every life of an entry and every delay of a lookup.
THEOREM EntriesAreShortLived == ApiSpec => []NothingStaleForLong
<1>1. ApiInv => NothingStaleForLong
  BY DEF ApiInv, SessionInv, RowsInv, NothingStaleForLong
<1> QED BY <1>1, AlwaysApiInv, PTL

=============================================================================

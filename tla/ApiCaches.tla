------------------------------ MODULE ApiCaches ------------------------------
(***************************************************************************)
(* The API process's caches: authCache, and the caches of rows.  They      *)
(* share neither a lock nor a table, so a behaviour is a behaviour of one  *)
(* of them while the other rests.                                          *)
(***************************************************************************)
EXTENDS SessionCache, TimedCaches

VARIABLE subject   \* "sessions" or "rows": which of the two moves

apiVars == <<sessionVars, timedCacheVars, subject>>

ApiTypeOK == SessionTypeOK /\ CachesTypeOK /\ subject \in {"sessions", "rows"}

ApiInit == SessionInit /\ CachesInit /\ subject \in {"sessions", "rows"}

ApiNext ==
  \/ subject = "sessions" /\ SessionNext /\ UNCHANGED <<timedCacheVars, subject>>
  \/ subject = "rows" /\ CachesNext /\ UNCHANGED <<sessionVars, subject>>

ApiSpec == ApiInit /\ [][ApiNext]_apiVars

-----------------------------------------------------------------------------
(* Safety                                                                    *)

\* auth.go:19 and :56, a cache "with a short TTL": whatever is remembered was true at
\* most an entry's life and a lookup ago, also of what nothing invalidates.
NothingStaleForLong == SessionsAreShortLived /\ OriginsAreShortLived

=============================================================================

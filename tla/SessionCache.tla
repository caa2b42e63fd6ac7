----------------------------- MODULE SessionCache -----------------------------
(***************************************************************************)
(* The sessions of one account and the cache in front of them: login,      *)
(* logout, what an admin does to the account (httpapi/server.go,           *)
(* httpapi/admin.go, store/auth.go) and authCache (httpapi/auth.go).       *)
(*                                                                         *)
(* Every statement is a step of its own; a cache call is one step, under   *)
(* its mutex.  Time is counted in units of which an entry lives CacheFor;  *)
(* a lookup's answer reaches the cache within MaxAnswer of being true.     *)
(***************************************************************************)
EXTENDS Naturals, FiniteSets

CONSTANTS
  Tokens,       \* session tokens; a login takes one that was never used
  Requests,     \* requests the server handles at the same time
  Passwords,    \* what password_hash may be the hash of
  CacheFor,     \* the life of an entry (30 s)
  MaxAnswer     \* bound: how long a lookup's answer is under way

NoPassword == "unused"

ASSUME SessionAssumption ==
  {CacheFor, MaxAnswer} \subseteq Nat /\ CacheFor > 0 /\ NoPassword \notin Passwords

VARIABLES
  account,      \* the row of users: is there, role, enabled, password
  rows,         \* tokens of the table sessions
  madeWith,     \* history: the password a login was checked against
  entries,      \* authCache.set: role and what is left until `until`
  request,      \* the requests in flight
  truth,        \* history: time since LookupSession would have answered a role
  loggedOut,    \* history: tokens whose row a finished logout deleted
  overlapped,   \* history: tokens that were being looked up when a logout dropped them
  kept          \* history: tokens that a change of password may have missed

sessionVars == <<account, rows, madeWith, entries, request, truth, loggedOut, overlapped,
                 kept>>

Roles == {"admin", "viewer"}
Ages == 0..(CacheFor + MaxAnswer + 1)
Never == CacheFor + MaxAnswer + 1
NoEntry == [role |-> "none", left |-> 0]
Idle == [at |-> "idle"]

Fresh(t) == entries[t] # NoEntry

\* LookupSession: the row joined with the user's, who must be enabled.
LookupSession(t) ==
  IF t \in rows /\ account.there /\ account.enabled THEN account.role ELSE "none"

SessionTypeOK ==
  /\ account \in [there : BOOLEAN, role : Roles, enabled : BOOLEAN, password : Passwords]
  /\ rows \subseteq Tokens
  /\ madeWith \in [Tokens -> Passwords \cup {NoPassword}]
  /\ \A t \in Tokens : Fresh(t) => entries[t] \in [role : Roles, left : 1..CacheFor]
  /\ \A t \in Tokens : LookupSession(t) # "none" => truth[t][LookupSession(t)] = 0
  /\ truth \in [Tokens -> [Roles -> Ages]]
  /\ loggedOut \subseteq Tokens \ rows /\ overlapped \subseteq Tokens
  /\ kept \subseteq Tokens

\* Created by an admin, or by its owner, for an admin to enable.
CreatedByAdmin == [there : {TRUE}, role : Roles, enabled : BOOLEAN, password : Passwords]
SignedUp == [there : {TRUE}, role : {"viewer"}, enabled : {FALSE}, password : Passwords]

SessionInit ==
  /\ account \in CreatedByAdmin \cup SignedUp
  /\ rows = {} /\ loggedOut = {} /\ overlapped = {} /\ kept = {}
  /\ madeWith = [t \in Tokens |-> NoPassword]
  /\ entries = [t \in Tokens |-> NoEntry]
  /\ request = [q \in Requests |-> Idle]
  /\ truth = [t \in Tokens |-> [r \in Roles |-> Never]]

\* What LookupSession would answer now, as every change of the two tables leaves it.
NowTrue ==
  truth' = [t \in Tokens |-> [r \in Roles |-> IF LookupSession(t)' = r THEN 0 ELSE truth[t][r]]]

Goes(q, state) == request' = [request EXCEPT ![q] = state]

-----------------------------------------------------------------------------
(* currentSession, for the bearer token of any request                       *)

\* Mutant: a hit gives the entry another 30 seconds.
SlidingHit(q, t) ==
  /\ request[q] = Idle /\ Fresh(t)
  /\ entries' = [entries EXCEPT ![t].left = CacheFor]
  /\ UNCHANGED <<account, rows, madeWith, request, truth, loggedOut, overlapped, kept>>

\* authCache.get answers.
Hit(q, t) ==
  /\ request[q] = Idle /\ Fresh(t)
  /\ UNCHANGED sessionVars

\* It does not, and the database does; a lookup that fails leaves nothing behind.
Lookup(q, t) ==
  /\ request[q] = Idle /\ ~Fresh(t)
  /\ LookupSession(t) # "none"
  /\ Goes(q, [at |-> "put", token |-> t, role |-> LookupSession(t), age |-> 0])
  /\ UNCHANGED <<account, rows, madeWith, entries, truth, loggedOut, overlapped, kept>>

\* authCache.put, or the answer was lost.
Put(q) ==
  /\ request[q].at = "put"
  /\ \/ entries' = [entries EXCEPT ![request[q].token] =
                      [role |-> request[q].role, left |-> CacheFor]]
     \/ entries' = entries
  /\ Goes(q, Idle)
  /\ UNCHANGED <<account, rows, madeWith, truth, loggedOut, overlapped, kept>>

-----------------------------------------------------------------------------
(* login                                                                     *)

\* GetUserByUsername, verifyPassword and the enabled check.
Verify(q, t) ==
  /\ request[q] = Idle
  /\ account.there /\ account.enabled
  /\ madeWith[t] = NoPassword
  /\ madeWith' = [madeWith EXCEPT ![t] = account.password]
  /\ Goes(q, [at |-> "create", token |-> t])
  /\ UNCHANGED <<account, rows, entries, truth, loggedOut, overlapped, kept>>

\* CreateSession; it fails when the user is gone, or the client.
CreateSession(q) ==
  /\ request[q].at = "create"
  /\ \/ account.there /\ rows' = rows \cup {request[q].token}
     \/ rows' = rows
  /\ Goes(q, Idle)
  /\ UNCHANGED <<account, madeWith, entries, loggedOut, overlapped, kept>>
  /\ NowTrue

-----------------------------------------------------------------------------
(* logout                                                                    *)

Logout(q, t) ==
  /\ request[q] = Idle
  /\ t \in rows
  /\ Goes(q, [at |-> "delete", token |-> t])
  /\ UNCHANGED <<account, rows, madeWith, entries, truth, loggedOut, overlapped, kept>>

\* DeleteSession; its error is ignored.
DeleteSession(q, next) ==
  /\ \/ rows' = rows \ {request[q].token}
     \/ rows' = rows
  /\ Goes(q, next)
  /\ UNCHANGED <<account, madeWith, entries, loggedOut, overlapped, kept>>
  /\ NowTrue

\* A lookup that read the row before and has still to put it is the one thing in the way.
LookupInFlight(t) == \E q \in Requests : request[q].at = "put" /\ request[q].token = t

Drop(q, next) ==
  LET t == request[q].token IN
    /\ entries' = [entries EXCEPT ![t] = NoEntry]
    /\ loggedOut' = loggedOut \cup ({t} \ rows)
    /\ overlapped' = IF LookupInFlight(t) THEN overlapped \cup {t} ELSE overlapped
    /\ Goes(q, next)
    /\ UNCHANGED <<account, rows, madeWith, truth, kept>>

\* Mutant: the cache is dropped before the row is deleted.
LogoutDropsFirst(q) ==
  \/ request[q].at = "delete" /\ Drop(q, [request[q] EXCEPT !.at = "drop"])
  \/ request[q].at = "drop" /\ loggedOut' = loggedOut \cup {request[q].token}
     /\ rows' = rows \ {request[q].token} /\ Goes(q, Idle)
     /\ UNCHANGED <<account, madeWith, entries, overlapped, kept>> /\ NowTrue

logout(q) ==
  \/ request[q].at = "delete" /\ DeleteSession(q, [request[q] EXCEPT !.at = "drop"])
  \/ request[q].at = "drop" /\ Drop(q, Idle)

-----------------------------------------------------------------------------
(* The admin's handlers; none of them touches the cache                      *)

\* PATCH of a user: UpdateUser...
PatchUser(q, role, enabled) ==
  /\ request[q] = Idle
  /\ account.there
  /\ account' = [account EXCEPT !.role = role, !.enabled = enabled]
  /\ Goes(q, IF enabled THEN Idle ELSE [at |-> "end sessions"])
  /\ UNCHANGED <<rows, madeWith, entries, loggedOut, overlapped, kept>>
  /\ NowTrue

\* ...and DeleteUserSessions when it disables; its error is ignored.
EndSessions(q) ==
  /\ request[q].at = "end sessions"
  /\ rows' \in {{}, rows}
  /\ Goes(q, Idle)
  /\ UNCHANGED <<account, madeWith, entries, loggedOut, overlapped, kept>>
  /\ NowTrue

\* DELETE of a user: the sessions go with the row.
DeleteUser(q) ==
  /\ request[q] = Idle
  /\ account.there
  /\ account' = [account EXCEPT !.there = FALSE] /\ rows' = {}
  /\ UNCHANGED <<madeWith, entries, request, loggedOut, overlapped, kept>>
  /\ NowTrue

\* POST of a password.
NewPassword(q, p) ==
  /\ request[q] = Idle
  /\ account.there /\ p # account.password
  /\ Goes(q, [at |-> "hash", password |-> p])
  /\ UNCHANGED <<account, rows, madeWith, entries, truth, loggedOut, overlapped, kept>>

\* Logins that have checked a password and have still to create their session.
LoginsInFlight == {request[q].token : q \in {p \in Requests : request[p].at = "create"}}

\* The UPDATE of users; no row or an error ends the request.  When the client goes
\* away, Exec reports an error although the UPDATE has been done: then the sessions stay.
UpdateHash(q, next) ==
  /\ \/ account' = account /\ Goes(q, Idle) /\ kept' = kept
     \/ /\ account.there
        /\ account' = [account EXCEPT !.password = request[q].password]
        /\ \/ Goes(q, next) /\ kept' = kept
           \/ Goes(q, Idle) /\ kept' = kept \cup rows \cup LoginsInFlight
  /\ UNCHANGED <<rows, madeWith, entries, truth, loggedOut, overlapped>>

\* The delete from sessions; its error is ignored.
Wipe(q, next) ==
  /\ \/ rows' = {} /\ kept' = kept \cup LoginsInFlight
     \/ rows' = rows /\ kept' = kept \cup rows \cup LoginsInFlight
  /\ Goes(q, next)
  /\ UNCHANGED <<account, madeWith, entries, loggedOut, overlapped>>
  /\ NowTrue

\* Mutant: the sessions are deleted before the password is written.
WipeThenHash(q) ==
  \/ request[q].at = "hash" /\ Wipe(q, [request[q] EXCEPT !.at = "wipe"])
  \/ request[q].at = "wipe" /\ UpdateHash(q, Idle)

SetUserPassword(q) ==
  \/ request[q].at = "hash" /\ UpdateHash(q, [request[q] EXCEPT !.at = "wipe"])
  \/ request[q].at = "wipe" /\ Wipe(q, Idle)

-----------------------------------------------------------------------------
\* expires_at passes.
Expire(t) ==
  /\ t \in rows
  /\ rows' = rows \ {t}
  /\ UNCHANGED <<account, madeWith, entries, request, loggedOut, overlapped, kept>>
  /\ NowTrue

Older(a) == IF a = Never THEN Never ELSE a + 1

SessionTick ==
  /\ \A q \in Requests : request[q].at = "put" => request[q].age < MaxAnswer
  /\ request' = [q \in Requests |->
       IF request[q].at = "put" THEN [request[q] EXCEPT !.age = @ + 1] ELSE request[q]]
  /\ entries' = [t \in Tokens |->
       IF entries[t].left > 1 THEN [entries[t] EXCEPT !.left = @ - 1] ELSE NoEntry]
  /\ truth' = [t \in Tokens |->
       [r \in Roles |-> IF LookupSession(t) = r THEN 0 ELSE Older(truth[t][r])]]
  /\ UNCHANGED <<account, rows, madeWith, loggedOut, overlapped, kept>>

SessionNext ==
  \/ \E q \in Requests :
       \/ \E t \in Tokens : Hit(q, t) \/ Lookup(q, t) \/ Verify(q, t) \/ Logout(q, t)
       \/ \E r \in Roles, e \in BOOLEAN : PatchUser(q, r, e)
       \/ \E p \in Passwords : NewPassword(q, p)
       \/ Put(q) \/ CreateSession(q) \/ logout(q) \/ EndSessions(q) \/ DeleteUser(q)
       \/ SetUserPassword(q)
  \/ \E t \in Tokens : Expire(t)
  \/ SessionTick

-----------------------------------------------------------------------------
(* Safety                                                                    *)

\* auth.go:19, "memoises session-token lookups": what a request is let in with was the
\* database's answer at most an entry's life and a lookup ago, whatever logouts,
\* disabling, role changes and deletes did meanwhile.
SessionsAreShortLived ==
  \A t \in Tokens :
    Fresh(t) => truth[t][entries[t].role] <= CacheFor - entries[t].left + MaxAnswer

\* server.go:399-400, DeleteSession and then drop: once a logout has answered, and its
\* statement did not fail, the token is not let in again; a lookup that overlapped the
\* drop is the one exception.
LogoutWins ==
  \A t \in loggedOut \ overlapped : ~Fresh(t) /\ ~LookupInFlight(t)

PasswordChanging == \E q \in Requests : request[q].at = "wipe"

\* store/auth.go:275, "invalidate all sessions when password changes": no session is
\* left that a login made with an earlier password.  Excepted are logins that overlapped
\* the change, and whatever was there when the UPDATE took place but reported an error,
\* which skips the delete, or the delete failed.
OldPasswordIsOut ==
  account.there /\ ~PasswordChanging =>
    \A t \in rows \ kept : madeWith[t] = account.password

=============================================================================

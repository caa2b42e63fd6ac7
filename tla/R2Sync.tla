------------------------------- MODULE R2Sync -------------------------------
(***************************************************************************)
(* The copy of a channel's segments in R2: the bucket (relay/r2.go), the   *)
(* marks m.r2Ready that turn a segment's URL into the bucket's, and the    *)
(* goroutines that upload (uploadToR2 and transmuxR2Watcher of             *)
(* relay/manager.go), purge and retire objects.  None of them holds m.mu   *)
(* while it talks to the bucket, and each reads m.r2 when it needs it.     *)
(*                                                                         *)
(* SegmentCache and TransmuxFiles say which files there are and give these *)
(* actions their arguments.  One channel; a key is a segment's name.       *)
(***************************************************************************)
EXTENDS FiniteSets, Naturals

CONSTANTS
  Rows,       \* the rows of the channel: <<mode, sync_enabled>>
  Keys,       \* names of segments
  Uploads,    \* uploads in flight at once
  Clients,    \* whether SetR2Client is called with a client, or with nil
  NoKey       \* no segment

ASSUME R2Assumption ==
  /\ Rows \in SUBSET ({"ingest", "proxy", "transmux"} \X BOOLEAN)
  /\ Clients \in SUBSET BOOLEAN
  /\ NoKey \notin Keys

VARIABLES
  mode, sync, \* the row, as the run finds it
  r2,         \* m.r2 # nil
  ready,      \* m.r2Ready
  objects,    \* key -> what is stored of it in the bucket of m.r2
  up,         \* the uploads
  folder,     \* a purge's goroutine has still to delete the folder
  retire,     \* what r2RetentionLoop is doing to which key
  cleared,    \* history: a client has been replaced by nil
  panicked,   \* a nil client was dereferenced: the process is gone
  overtaken,  \* history: uploads whose object, or bucket, went before they marked it
  lost        \* history: keys they marked ready, or that lost their object but not the
              \* mark: to a purge's goroutine, or to a delete that then failed

channelVars == <<mode, sync>>
r2Vars == <<channelVars, r2, ready, objects, up, folder, retire, cleared, panicked, overtaken, lost>>

Bodies == {"none", "torn", "whole"}
Empty == [k \in Keys |-> "none"]
NoUpload == [at |-> "idle", key |-> NoKey, file |-> NoKey]
NotRetiring == [at |-> "idle", key |-> NoKey]

R2TypeOK ==
  /\ <<mode, sync>> \in Rows
  /\ r2 \in BOOLEAN
  /\ ready \in SUBSET Keys
  /\ objects \in [Keys -> Bodies]
  /\ \A u \in Uploads : up[u].at \in {"idle", "put", "mark"} /\ up[u].key \in Keys \cup {NoKey}
  /\ folder \in BOOLEAN
  /\ retire.at \in {"idle", "delete", "forget"} /\ retire.key \in Keys \cup {NoKey}
  /\ cleared \in BOOLEAN /\ panicked \in BOOLEAN
  /\ overtaken \in SUBSET Uploads
  /\ lost \in SUBSET Keys

R2Init ==
  /\ \E row \in Rows : mode = row[1] /\ sync = row[2]
  /\ r2 \in Clients
  /\ ready = {}
  /\ objects = Empty
  /\ up = [u \in Uploads |-> NoUpload]
  /\ folder = FALSE
  /\ retire = NotRetiring
  /\ cleared = FALSE /\ panicked = FALSE
  /\ overtaken = {}
  /\ lost = {}

\* Mutant: the row is enough.
SyncIsOn == sync

\* What a worker and a fetch ask before they start anything that uploads.
R2IsOn == sync /\ r2

Unmarked == {u \in Uploads : up[u].at = "mark"}
UploadGoto(u, at) == up' = [up EXCEPT ![u].at = at]
EndUpload(u) == up' = [up EXCEPT ![u] = NoUpload] /\ overtaken' = overtaken \ {u}

\* A method of *R2Client reads r.client: on a nil client the process dies.
CallR2 == panicked' = ~r2

-----------------------------------------------------------------------------
(* Uploads                                                                   *)

\* Both uploaders skip what is ready, then open the local file.
BeginUpload(u, k, file) ==
  /\ up[u].at = "idle" /\ k \notin ready
  /\ up' = [up EXCEPT ![u] = [at |-> "put", key |-> k, file |-> file]]
  /\ UNCHANGED <<channelVars, r2, ready, objects, folder, retire, cleared, panicked, overtaken, lost>>

\* PutObject reads the open file, whatever its name has become.
Put(u, body) ==
  /\ up[u].at = "put"
  /\ CallR2
  /\ objects' = [objects EXCEPT ![up[u].key] = body]
  /\ UploadGoto(u, "mark")
  /\ UNCHANGED <<channelVars, r2, ready, folder, retire, cleared, overtaken, lost>>

\* It fails, before or after the bucket has stored the object.
PutFails(u) ==
  /\ (up[u].at = "put" /\ r2) \/ up[u].at = "mark"
  /\ EndUpload(u)
  /\ UNCHANGED <<channelVars, r2, ready, objects, folder, retire, cleared, panicked, lost>>

\* The mark may come after a purge or a swap has cleared r2Ready.
MarkReady(u) ==
  /\ up[u].at = "mark"
  /\ ready' = ready \cup {up[u].key}
  /\ lost' = IF u \in overtaken THEN lost \cup {up[u].key} ELSE lost \ {up[u].key}
  /\ EndUpload(u)
  /\ UNCHANGED <<channelVars, r2, objects, folder, retire, cleared, panicked>>

-----------------------------------------------------------------------------
(* Swap, purge and retention                                                 *)

\* Mutant: the marks of the old bucket survive.
SwapKeepingMarks(client) ==
  /\ r2' = client
  /\ cleared' = (cleared \/ (r2 /\ ~client))
  /\ objects' = Empty
  /\ overtaken' = Unmarked
  /\ UNCHANGED <<channelVars, ready, up, folder, retire, panicked, lost>>

\* The node agent has new settings, or none: the marks are dropped.  A bucket that is
\* new to the manager is taken to be empty: nothing in it is marked.
SetR2Client(client) ==
  /\ r2' = client
  /\ cleared' = (cleared \/ (r2 /\ ~client))
  /\ objects' = Empty
  /\ ready' = {}
  /\ lost' = {}
  /\ overtaken' = Unmarked
  /\ UNCHANGED <<channelVars, up, folder, retire, panicked>>

\* PurgeChannel up to the goroutine that deletes the folder.
ForgetChannel ==
  /\ ready' = {}
  /\ lost' = {}
  /\ folder' = (folder \/ r2)
  /\ UNCHANGED <<channelVars, r2, objects, up, retire, cleared, panicked, overtaken>>

Stored == {k \in Keys : objects[k] # "none"}

\* These objects go.
Delete(gone) ==
  /\ objects' = [k \in Keys |-> IF k \in gone THEN "none" ELSE objects[k]]
  /\ overtaken' = overtaken \cup {u \in Unmarked : up[u].key \in gone}

\* Nobody will take their marks away.
DeleteKeepingMarks(gone) == Delete(gone) /\ lost' = lost \cup (gone \cap ready)

\* The goroutine reads m.r2 and deletes the slug's objects page by page, those that were
\* uploaded anew since the marks went included; it may fail after any part of them, or
\* work on a bucket that has been replaced meanwhile.
DeleteFolder ==
  /\ folder
  /\ folder' = FALSE
  /\ \/ CallR2 /\ \E gone \in SUBSET Stored : DeleteKeepingMarks(gone)
     \/ UNCHANGED <<objects, panicked, lost, overtaken>>
  /\ UNCHANGED <<channelVars, r2, ready, up, retire, cleared>>

\* r2RetentionLoop, once a minute: ListOlderThan finds nothing, or keys.  The loop
\* treats them alike and this is one of them...
RetentionLists(old) ==
  /\ retire.at = "idle"
  /\ CallR2
  /\ retire' = IF old = NoKey THEN NotRetiring ELSE [at |-> "delete", key |-> old]
  /\ UNCHANGED <<channelVars, r2, ready, objects, up, folder, cleared, overtaken, lost>>

\* ...DeleteKeys, in the bucket that is configured by then.  Its error covers all the
\* batches and keys: this one's object may be gone nevertheless (another key's error, a
\* later batch's, a lost response), and the marks of all of them stay...
RetentionDeletes(ok) ==
  /\ retire.at = "delete"
  /\ CallR2
  /\ IF ok
     THEN /\ Delete({retire.key}) /\ UNCHANGED lost
          /\ retire' = [retire EXCEPT !.at = "forget"]
     ELSE /\ \E gone \in SUBSET {retire.key} : DeleteKeepingMarks(gone)
          /\ retire' = NotRetiring
  /\ UNCHANGED <<channelVars, r2, ready, up, folder, cleared>>

\* ...and the marks, so that the keys can be uploaded again.
RetentionForgets ==
  /\ retire.at = "forget"
  /\ ready' = ready \ {retire.key}
  /\ lost' = lost \ {retire.key}
  /\ retire' = NotRetiring
  /\ UNCHANGED <<channelVars, r2, objects, up, folder, cleared, panicked, overtaken>>

=============================================================================

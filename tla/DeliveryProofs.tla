---------------------------- MODULE DeliveryProofs ----------------------------
(***************************************************************************)
(* R2Sync, SegmentCache, TransmuxFiles and Delivery for every number of    *)
(* segments, inodes, fetchers, viewers and uploads.                        *)
(*                                                                         *)
(* The invariant has a part for each module and one that ties them.        *)
(* Files: an inode has one name and its writers fetch the ref of that name *)
(* (NamesApart, Owned), so a name <ref>.tmp is never without a writer, and *)
(* whoever truncated a named inode last fills it unless it breaks off      *)
(* (Filled).  Proxy: there is one fetcher of a ref, so what it renames is  *)
(* its own file (OneFetcher, OwnBlocks).  Bucket: an upload that has still *)
(* to mark knows of every delete since (MarkedIsThere).  Playlists: the    *)
(* window has no gap (NoGap), so what was counted as dropped makes the     *)
(* media sequence the number of the first segment that is kept.            *)
(***************************************************************************)
EXTENDS Delivery, FiniteSetTheorems, WellFoundedInduction, TLAPS

-----------------------------------------------------------------------------
(* The bucket                                                                *)

UploadStates ==
  {NoUpload} \cup [at : {"put", "mark"}, key : Keys, file : Inodes \cup Segments]
RetireStates == {NotRetiring} \cup [at : {"delete", "forget"}, key : Keys]

R2Typed ==
  /\ <<mode, sync>> \in Rows
  /\ r2 \in BOOLEAN
  /\ ready \subseteq Keys
  /\ objects \in [Keys -> Bodies]
  /\ up \in [Uploads -> UploadStates]
  /\ folder \in BOOLEAN
  /\ retire \in RetireStates
  /\ cleared \in BOOLEAN /\ panicked \in BOOLEAN
  /\ overtaken \subseteq Uploads
  /\ lost \subseteq Keys

\* ReadyIsThere, of a mark that is still to be made.
MarkedIsThere ==
  \A u \in Uploads :
    up[u].at = "mark" /\ u \notin overtaken => panicked \/ (r2 /\ objects[up[u].key] # "none")

R2Inv == R2Typed /\ MarkedIsThere /\ ReadyIsThere

\* Somebody will call R2 without asking again whether there is a client.
Calling ==
  \/ \E u \in Uploads : up[u].at # "idle"
  \/ pending # {} \/ watcher \/ folder \/ retire.at # "idle"

\* He had asked, and there was one.
CallersAsked == Calling => r2 \/ cleared

NilInv == CallersAsked /\ NilIsNotCalled

-----------------------------------------------------------------------------
(* The cached files                                                          *)

FetchStates ==
  {Idle}
    \cup [at : {"request", "create"}, ref : Refs, inode : {NoInode}, done : {0}, flight : BOOLEAN]
    \cup [at : {"copy"}, ref : Refs, inode : Inodes, done : 0..Blocks, flight : BOOLEAN]
ViewerStates == {Gone} \cup [at : {"missed", "polling", "waiting", "opening"}, ref : Refs]

CacheTyped ==
  /\ assets \subseteq Refs
  /\ tmp \in [Refs -> Inodes \cup {NoInode}] /\ final \in [Refs -> Inodes \cup {NoInode}]
  /\ blocks \in [Inodes -> SUBSET (1..Blocks)]
  /\ fetch \in [Fetchers -> FetchStates]
  /\ viewer \in [Viewers -> ViewerStates]
  /\ pending \subseteq Refs
  /\ broken \subseteq Inodes

\* An inode has one name...
NamesApart ==
  \A r, s \in Refs :
    /\ tmp[r] # NoInode => tmp[r] # final[s] /\ (tmp[r] = tmp[s] => r = s)
    /\ final[r] # NoInode => (final[r] = final[s] => r = s)

\* ...and whoever writes to it fetches that name.
Owned ==
  \A f \in Fetchers, r \in Refs :
    fetch[f].at = "copy" /\ fetch[f].inode \in {tmp[r], final[r]} => fetch[f].ref = r

Fills(f, i) == fetch[f].inode = i /\ 1..fetch[f].done \subseteq blocks[i]

\* What has a name is whole, given up on, or being filled from its first block.
Filled ==
  \A r \in Refs, i \in Inodes :
    i \in {tmp[r], final[r]} => Whole(i) \/ i \in broken \/ \E f \in Fetchers : Fills(f, i)

\* Who waits in group.Do waits for a fetch that is under way.
WaitersHaveFlight ==
  \A v \in Viewers : viewer[v].at = "waiting" => Flight(viewer[v].ref) # {}

\* A proxy channel's fetches are the viewers' flights: one for a ref.
OneFetcher ==
  mode = "proxy" =>
    \A f \in Fetchers : fetch[f].at # "idle" =>
      /\ fetch[f].flight
      /\ \A g \in Fetchers : fetch[g].ref = fetch[f].ref => g = f

\* Nobody truncates its file.
OwnBlocks ==
  mode = "proxy" => \A f \in Fetchers : fetch[f].at = "copy" => Fills(f, fetch[f].inode)

NameInv == NamesApart /\ Owned /\ TmpHasWriter /\ Filled
ProxyInv == OneFetcher /\ OwnBlocks /\ PublishedIsWhole
CacheInv == CacheTyped /\ WaitersHaveFlight /\ NameInv /\ ProxyInv

-----------------------------------------------------------------------------
(* The transmuxed files                                                      *)

\* The number of the segment that is written, or will be.
Upcoming == IF writing # 0 THEN writing ELSE next

Writes == writing # 0 => worker = "on" /\ next = writing + 1

\* What there is was made before, but for numbers that are used again.
Past ==
  /\ \A n \in listed : n < Upcoming
  /\ \A n \in cut : n < Upcoming \/ n \in reused
  /\ cut \subseteq Uploadable
  /\ \A n \in disk : n < next
  /\ listed \cap cut = {} /\ writing \notin cut
  /\ seen < Upcoming

\* The window has no gap, nor is there one behind it.
NoGap ==
  /\ \A m, n \in listed, k \in Segments : m <= k /\ k <= n => k \in listed
  /\ worker = "on" /\ listed # {} => Upcoming - 1 \in listed

\* No segment before the last playlist's first comes back, and the window never ends
\* before it.
SeenIsPast ==
  /\ \A n \in listed : (sync => n \in disk) => seen <= n
  /\ listed # {} => \E n \in listed : seen <= n

OnlyTransmux == mode # "transmux" => listed = {}

FilesInv == FilesTypeOK /\ Writes /\ Past /\ NoGap /\ SeenIsPast /\ OnlyTransmux

-----------------------------------------------------------------------------
(* What ties them                                                            *)

\* Why the object of a segment may be unfinished, and what tells that an upload of it
\* does not read the file that is being written.
Excused == cut \cup stalled \cup reused
Told(n) == n < Upcoming \/ n \in stalled \cup reused
ToldNext(n) == n < Upcoming' \/ n \in stalled' \cup reused'

\* What no step takes back.
FilesGoOn == Excused \subseteq Excused' /\ \A n \in Uploadable : Told(n) => ToldNext(n)

\* An upload reads a file of the channel's kind, and of a segment that is over.
UploadsFit ==
  \A u \in Uploads : up[u].at # "idle" =>
    IF mode = "transmux"
    THEN up[u].file = up[u].key /\ up[u].key \in Uploadable /\ Told(up[u].key)
    ELSE up[u].key \in Refs /\ up[u].file \in Inodes

\* Only a segment that ffmpeg ended over is uploaded unfinished, or one of the exceptions.
TornIsCut == \A n \in Uploadable : objects[n] = "torn" => n \in Excused

TieInv == UploadsFit /\ TornIsCut

DeliveryInv ==
  R2Inv /\ NilInv /\ CacheInv /\ FilesInv /\ TieInv /\ purging \in BOOLEAN

-----------------------------------------------------------------------------
(* The bucket: proofs                                                        *)

\* What an upload is at, it is with a key and a file.
LEMMA UploadShape ==
  ASSUME R2Typed, NEW u \in Uploads
  PROVE  /\ up[u].at \in {"idle", "put", "mark"}
         /\ up[u].at # "idle" =>
              /\ up[u].key \in Keys /\ up[u].file \in Inodes \cup Segments
              /\ up[u] = [at |-> up[u].at, key |-> up[u].key, file |-> up[u].file]
<1>1. up[u] \in UploadStates
  BY DEF R2Typed
<1> QED BY <1>1 DEF UploadStates, NoUpload

LEMMA UploadStatesAre ==
  /\ NoUpload \in UploadStates /\ NoUpload.at = "idle"
  /\ \A at \in {"put", "mark"}, k \in Keys, file \in Inodes \cup Segments :
       [at |-> at, key |-> k, file |-> file] \in UploadStates
  BY DEF UploadStates, NoUpload

LEMMA RetireShape ==
  ASSUME R2Typed
  PROVE  /\ retire.at \in {"idle", "delete", "forget"}
         /\ retire.at # "idle" => retire.key \in Keys
         /\ retire.at = "delete" =>
              [retire EXCEPT !.at = "forget"] = [at |-> "forget", key |-> retire.key]
<1>1. retire \in RetireStates
  BY DEF R2Typed
<1> QED BY <1>1 DEF RetireStates, NotRetiring

LEMMA RetireStatesAre ==
  /\ NotRetiring \in RetireStates /\ NotRetiring.at = "idle"
  /\ \A at \in {"delete", "forget"}, k \in Keys : [at |-> at, key |-> k] \in RetireStates
  BY DEF RetireStates, NotRetiring

LEMMA R2TypeFollows == R2Inv => R2TypeOK
<1> SUFFICES ASSUME R2Inv PROVE R2TypeOK
  OBVIOUS
<1>1. R2Typed
  BY DEF R2Inv
<1>2. \A u \in Uploads : up[u].at \in {"idle", "put", "mark"} /\ up[u].key \in Keys \cup {NoKey}
  <2> SUFFICES ASSUME NEW u \in Uploads
               PROVE  up[u].at \in {"idle", "put", "mark"} /\ up[u].key \in Keys \cup {NoKey}
    OBVIOUS
  <2>1. up[u] \in UploadStates
    BY <1>1 DEF R2Typed
  <2> QED BY <2>1 DEF UploadStates, NoUpload
<1>3. retire.at \in {"idle", "delete", "forget"} /\ retire.key \in Keys \cup {NoKey}
  <2>1. retire \in RetireStates
    BY <1>1 DEF R2Typed
  <2> QED BY <2>1 DEF RetireStates, NotRetiring
<1> QED BY <1>1, <1>2, <1>3 DEF R2Typed, R2TypeOK

\* What one upload does to the uploads.
LEMMA UploadGoes ==
  ASSUME R2Typed, NEW u \in Uploads, NEW s \in UploadStates, up' = [up EXCEPT ![u] = s]
  PROVE  /\ up' \in [Uploads -> UploadStates]
         /\ up'[u] = s /\ \A w \in Uploads \ {u} : up'[w] = up[w]
  BY DEF R2Typed

LEMMA BeginKeepsR2 ==
  ASSUME R2Inv, NEW u \in Uploads, NEW k \in Keys, NEW file \in Inodes \cup Segments,
         BeginUpload(u, k, file)
  PROVE  /\ R2Inv'
         /\ up'[u].key = k /\ up'[u].file = file
         /\ \A w \in Uploads \ {u} : up'[w] = up[w]
<1> DEFINE s == [at |-> "put", key |-> k, file |-> file]
<1>1. s \in UploadStates
  BY UploadStatesAre
<1>2. s.at = "put" /\ s.key = k /\ s.file = file
  OBVIOUS
<1>3. /\ up' = [up EXCEPT ![u] = s]
      /\ UNCHANGED <<channelVars, r2, ready, objects, folder, retire, cleared, panicked,
                     overtaken, lost>>
  BY DEF BeginUpload
<1> HIDE DEF s
<1>4. /\ up' \in [Uploads -> UploadStates]
      /\ up'[u] = s /\ \A w \in Uploads \ {u} : up'[w] = up[w]
  BY <1>1, <1>3, UploadGoes DEF R2Inv
<1>5. R2Typed'
  BY <1>3, <1>4 DEF R2Inv, R2Typed, channelVars
<1>6. MarkedIsThere'
  BY <1>2, <1>3, <1>4 DEF R2Inv, MarkedIsThere
<1>7. ReadyIsThere'
  BY <1>3 DEF R2Inv, ReadyIsThere
<1> QED BY <1>2, <1>4, <1>5, <1>6, <1>7 DEF R2Inv

LEMMA PutKeepsR2 ==
  ASSUME R2Inv, ~panicked, NEW u \in Uploads, NEW body \in {"torn", "whole"}, Put(u, body)
  PROVE  /\ R2Inv'
         /\ up'[u].key = up[u].key /\ up'[u].file = up[u].file
         /\ \A w \in Uploads \ {u} : up'[w] = up[w]
<1> DEFINE k == up[u].key
           s == [at |-> "mark", key |-> k, file |-> up[u].file]
<1>1. /\ up[u].at = "put" /\ k \in Keys
      /\ up[u] = [at |-> "put", key |-> k, file |-> up[u].file]
      /\ s \in UploadStates
  BY UploadShape, UploadStatesAre DEF R2Inv, Put
<1>2. s.at = "mark" /\ s.key = k /\ s.key = up[u].key /\ s.file = up[u].file
  OBVIOUS
<1>3. /\ [up[u] EXCEPT !.at = "mark"] = s
  BY <1>1
<1>4. /\ up' = [up EXCEPT ![u] = s]
      /\ panicked' = ~r2 /\ objects' = [objects EXCEPT ![k] = body]
      /\ UNCHANGED <<channelVars, r2, ready, folder, retire, cleared, overtaken, lost>>
  BY <1>3 DEF Put, UploadGoto, CallR2, R2Inv, R2Typed
<1> HIDE DEF s, k
<1>5. /\ up' \in [Uploads -> UploadStates]
      /\ up'[u] = s /\ \A w \in Uploads \ {u} : up'[w] = up[w]
  BY <1>1, <1>4, UploadGoes DEF R2Inv
<1>6. /\ objects' \in [Keys -> Bodies] /\ objects'[k] # "none"
      /\ \A i \in Keys : objects[i] # "none" => objects'[i] # "none"
  BY <1>1, <1>4 DEF R2Inv, R2Typed, Bodies
<1>7. panicked' \in BOOLEAN /\ (~panicked' => r2)
  BY <1>4 DEF R2Inv, R2Typed
<1>8. R2Typed'
  BY <1>4, <1>5, <1>6, <1>7 DEF R2Inv, R2Typed, channelVars
<1>9. MarkedIsThere'
  <2> SUFFICES ASSUME NEW w \in Uploads, up'[w].at = "mark", w \notin overtaken', ~panicked'
               PROVE  r2' /\ objects'[up'[w].key] # "none"
    BY DEF MarkedIsThere
  <2>1. r2'
    BY <1>4, <1>7
  <2>2. CASE w = u
    BY <1>2, <1>5, <1>6, <2>1, <2>2
  <2>3. CASE w # u
    BY <1>4, <1>5, <1>6, <2>1, <2>3, UploadShape DEF R2Inv, MarkedIsThere
  <2> QED BY <2>2, <2>3
<1>10. ReadyIsThere'
  BY <1>4, <1>6 DEF R2Inv, R2Typed, ReadyIsThere
<1> QED BY <1>2, <1>5, <1>8, <1>9, <1>10 DEF R2Inv

LEMMA UploadEndsKeepsR2 ==
  ASSUME R2Inv, ~panicked, NEW u \in Uploads, PutFails(u) \/ MarkReady(u)
  PROVE  /\ R2Inv' /\ objects' = objects
         /\ up'[u].at = "idle" /\ \A w \in Uploads \ {u} : up'[w] = up[w]
<1>1. /\ up' = [up EXCEPT ![u] = NoUpload] /\ overtaken' = overtaken \ {u}
      /\ UNCHANGED <<channelVars, r2, objects, folder, retire, cleared, panicked>>
  BY DEF PutFails, MarkReady, EndUpload
<1>2. /\ up' \in [Uploads -> UploadStates]
      /\ up'[u].at = "idle" /\ \A w \in Uploads \ {u} : up'[w] = up[w]
  BY <1>1, UploadGoes, UploadStatesAre DEF R2Inv
<1>3. ready' \subseteq Keys /\ lost' \subseteq Keys
  BY UploadShape DEF R2Inv, R2Typed, PutFails, MarkReady
<1>4. R2Typed'
  BY <1>1, <1>2, <1>3 DEF R2Inv, R2Typed, channelVars
<1>5. MarkedIsThere'
  BY <1>1, <1>2 DEF R2Inv, MarkedIsThere
<1>6. ReadyIsThere'
  <2>1. CASE PutFails(u)
    BY <1>1, <2>1 DEF PutFails, R2Inv, ReadyIsThere
  <2>2. CASE MarkReady(u)
    <3> DEFINE k == up[u].key
    <3>1. /\ up[u].at = "mark" /\ ready' = ready \cup {k} /\ ~panicked'
          /\ lost' = IF u \in overtaken THEN lost \cup {k} ELSE lost \ {k}
      BY <1>1, <2>2 DEF MarkReady
    <3>2. u \notin overtaken => r2 /\ objects[k] # "none"
      BY <1>1, <3>1 DEF R2Inv, MarkedIsThere
    <3> HIDE DEF k
    <3> QED BY <1>1, <3>1, <3>2 DEF R2Inv, ReadyIsThere
  <2> QED BY <2>1, <2>2
<1> QED BY <1>1, <1>2, <1>4, <1>5, <1>6 DEF R2Inv

\* A swap and both kinds of delete leave nothing marked without telling who will mark.
LEMMA SwapKeepsR2 ==
  ASSUME R2Inv, \E client \in Clients : SetR2Client(client)
  PROVE  R2Inv' /\ up' = up /\ objects' = Empty
<1>1. PICK client \in Clients : SetR2Client(client)
  OBVIOUS
<1>2. /\ r2' \in BOOLEAN /\ cleared' \in BOOLEAN /\ ready' = {} /\ lost' = {}
      /\ overtaken' = Unmarked /\ objects' = Empty
      /\ UNCHANGED <<channelVars, up, folder, retire, panicked>>
  BY <1>1, R2Assumption DEF SetR2Client, R2Inv, R2Typed
<1>3. R2Typed'
  BY <1>2 DEF R2Inv, R2Typed, channelVars, Empty, Bodies, Unmarked
<1>4. MarkedIsThere' /\ ReadyIsThere'
  BY <1>2 DEF MarkedIsThere, ReadyIsThere, Unmarked
<1> QED BY <1>2, <1>3, <1>4 DEF R2Inv

LEMMA PurgeKeepsR2 ==
  ASSUME R2Inv, ForgetChannel
  PROVE  R2Inv' /\ up' = up /\ objects' = objects
<1>1. /\ folder' \in BOOLEAN /\ ready' = {} /\ lost' = {}
      /\ UNCHANGED <<channelVars, r2, objects, up, retire, cleared, panicked, overtaken>>
  BY DEF ForgetChannel, R2Inv, R2Typed
<1>2. R2Typed'
  BY <1>1 DEF R2Inv, R2Typed, channelVars
<1>3. MarkedIsThere' /\ ReadyIsThere'
  BY <1>1 DEF R2Inv, MarkedIsThere, ReadyIsThere
<1> QED BY <1>1, <1>2, <1>3 DEF R2Inv

\* A delete of any keys, and the uploads that it overtakes.
LEMMA DeleteTakes ==
  ASSUME R2Inv, ~panicked, NEW gone \in SUBSET Keys, Delete(gone), CallR2, UNCHANGED <<up, r2>>
  PROVE  /\ objects' \in [Keys -> Bodies] /\ overtaken' \subseteq Uploads
         /\ panicked' \in BOOLEAN
         /\ \A k \in Keys : objects'[k] = IF k \in gone THEN "none" ELSE objects[k]
         /\ MarkedIsThere'
<1>1. objects' = [k \in Keys |-> IF k \in gone THEN "none" ELSE objects[k]]
  BY DEF Delete
<1>2. overtaken' = overtaken \cup {u \in Uploads : up[u].at = "mark" /\ up[u].key \in gone}
  BY DEF Delete, Unmarked
<1>3. objects' \in [Keys -> Bodies]
  BY <1>1 DEF R2Inv, R2Typed, Bodies
<1>4. \A k \in Keys : objects'[k] = IF k \in gone THEN "none" ELSE objects[k]
  BY <1>1
<1>5. MarkedIsThere'
  <2> SUFFICES ASSUME NEW u \in Uploads, up[u].at = "mark", u \notin overtaken'
               PROVE  r2 /\ objects'[up[u].key] # "none"
    BY DEF MarkedIsThere
  <2>1. u \notin overtaken /\ up[u].key \notin gone
    BY <1>2
  <2>2. up[u].key \in Keys
    BY UploadShape DEF R2Inv
  <2> QED BY <1>4, <2>1, <2>2 DEF R2Inv, MarkedIsThere
<1> QED BY <1>2, <1>3, <1>4, <1>5 DEF R2Inv, R2Typed, CallR2

\* What it leaves marked is told.
LEMMA DeleteKeepsMarks ==
  ASSUME R2Inv, ~panicked, NEW gone \in SUBSET Keys, DeleteKeepingMarks(gone), CallR2,
         UNCHANGED <<channelVars, up, r2, ready, cleared>>, folder' \in BOOLEAN,
         retire' \in RetireStates, retire.at = "forget" => retire' = retire
  PROVE  R2Inv' /\ \A k \in Keys : objects'[k] \in {objects[k], "none"}
<1>1. /\ objects' \in [Keys -> Bodies] /\ overtaken' \subseteq Uploads
      /\ panicked' \in BOOLEAN /\ MarkedIsThere'
      /\ \A k \in Keys : objects'[k] = IF k \in gone THEN "none" ELSE objects[k]
  BY DeleteTakes DEF DeleteKeepingMarks
<1>2. lost' = lost \cup (gone \cap ready)
  BY DEF DeleteKeepingMarks
<1>3. R2Typed'
  BY <1>1, <1>2 DEF R2Inv, R2Typed, channelVars
<1>4. ReadyIsThere'
  <2> SUFFICES ASSUME NEW k \in ready \ lost, k \notin gone
               PROVE  (r2 /\ objects'[k] # "none") \/ (retire'.at = "forget" /\ k = retire'.key)
    BY <1>2 DEF ReadyIsThere
  <2>1. k \in Keys /\ objects'[k] = objects[k]
    BY <1>1 DEF R2Inv, R2Typed
  <2> QED BY <2>1 DEF R2Inv, ReadyIsThere
<1> QED BY <1>1, <1>3, <1>4 DEF R2Inv

LEMMA DeleteFolderKeepsR2 ==
  ASSUME R2Inv, ~panicked, DeleteFolder
  PROVE  R2Inv' /\ up' = up /\ \A k \in Keys : objects'[k] \in {objects[k], "none"}
<1>1. /\ folder' = FALSE
      /\ UNCHANGED <<channelVars, r2, ready, up, retire, cleared>>
  BY DEF DeleteFolder
<1>2. CASE UNCHANGED <<objects, panicked, lost, overtaken>>
  <2>1. R2Typed'
    BY <1>1, <1>2 DEF R2Inv, R2Typed, channelVars
  <2>2. MarkedIsThere' /\ ReadyIsThere'
    BY <1>1, <1>2 DEF R2Inv, MarkedIsThere, ReadyIsThere
  <2> QED BY <1>1, <1>2, <2>1, <2>2 DEF R2Inv
<1>3. CASE CallR2 /\ \E gone \in SUBSET Stored : DeleteKeepingMarks(gone)
  <2>1. PICK gone \in SUBSET Keys : DeleteKeepingMarks(gone)
    BY <1>3 DEF Stored
  <2>2. retire' \in RetireStates
    BY <1>1 DEF R2Inv, R2Typed
  <2> QED BY <1>1, <1>3, <2>1, <2>2, DeleteKeepsMarks
<1> QED BY <1>2, <1>3 DEF DeleteFolder

LEMMA RetentionKeepsR2 ==
  ASSUME R2Inv, ~panicked,
         \/ \E old \in Stored \cup {NoKey} : RetentionLists(old)
         \/ \E ok \in BOOLEAN : RetentionDeletes(ok)
         \/ RetentionForgets
  PROVE  /\ R2Inv' /\ up' = up
         /\ \A k \in Keys : objects'[k] \in {objects[k], "none"}
<1>1. ASSUME NEW old \in Stored \cup {NoKey}, RetentionLists(old)
      PROVE  R2Inv' /\ up' = up /\ objects' = objects
  <2>1. /\ panicked' = ~r2 /\ retire.at = "idle"
        /\ UNCHANGED <<channelVars, r2, ready, objects, up, folder, cleared, overtaken, lost>>
    BY <1>1 DEF RetentionLists, CallR2
  <2>2. retire' \in RetireStates
    BY <1>1, RetireStatesAre DEF RetentionLists, Stored
  <2>3. panicked' \in BOOLEAN
    BY <2>1 DEF R2Inv, R2Typed
  <2>4. R2Typed'
    BY <2>1, <2>2, <2>3 DEF R2Inv, R2Typed, channelVars
  <2>5. MarkedIsThere' /\ ReadyIsThere'
    BY <2>1 DEF R2Inv, MarkedIsThere, ReadyIsThere
  <2> QED BY <2>1, <2>4, <2>5 DEF R2Inv
<1>2. ASSUME NEW ok \in BOOLEAN, RetentionDeletes(ok)
      PROVE  R2Inv' /\ up' = up /\ \A k \in Keys : objects'[k] \in {objects[k], "none"}
  <2> DEFINE k == retire.key
  <2>1. /\ CallR2 /\ retire.at = "delete" /\ k \in Keys
        /\ UNCHANGED <<channelVars, r2, ready, up, folder, cleared>>
    BY <1>2, RetireShape DEF RetentionDeletes, R2Inv
  <2>2. folder' \in BOOLEAN
    BY <2>1 DEF R2Inv, R2Typed
  <2>3. CASE ~ok
    <3>1. PICK gone \in SUBSET {k} : DeleteKeepingMarks(gone) /\ retire' = NotRetiring
      BY <1>2, <2>3 DEF RetentionDeletes
    <3>2. gone \in SUBSET Keys /\ retire' \in RetireStates
      BY <2>1, <3>1, RetireStatesAre
    <3> QED BY <2>1, <2>2, <3>1, <3>2, DeleteKeepsMarks
  <2>4. CASE ok
    <3>1. Delete({k}) /\ UNCHANGED lost /\ retire' = [retire EXCEPT !.at = "forget"]
      BY <1>2, <2>4 DEF RetentionDeletes
    <3>2. retire' = [at |-> "forget", key |-> k]
      BY <2>1, <3>1, RetireShape DEF R2Inv
    <3>3. retire' \in RetireStates /\ retire'.at = "forget" /\ retire'.key = k
      BY <2>1, <3>2, RetireStatesAre
    <3>4. {k} \in SUBSET Keys
      BY <2>1
    <3>5. /\ objects' \in [Keys -> Bodies] /\ overtaken' \subseteq Uploads
          /\ panicked' \in BOOLEAN /\ MarkedIsThere'
          /\ \A i \in Keys : objects'[i] = IF i \in {k} THEN "none" ELSE objects[i]
      BY <2>1, <3>1, <3>4, DeleteTakes
    <3> HIDE DEF k
    <3>6. R2Typed'
      BY <2>1, <3>1, <3>3, <3>5 DEF R2Inv, R2Typed, channelVars
    <3>7. ReadyIsThere'
      <4> SUFFICES ASSUME NEW i \in ready \ lost
                   PROVE  (r2 /\ objects'[i] # "none") \/ i = k
        BY <2>1, <3>1, <3>3 DEF ReadyIsThere
      <4> QED BY <2>1, <3>5 DEF R2Inv, R2Typed, ReadyIsThere
    <3> QED BY <2>1, <3>5, <3>6, <3>7 DEF R2Inv
  <2> QED BY <2>3, <2>4
<1>3. ASSUME RetentionForgets PROVE R2Inv' /\ up' = up /\ objects' = objects
  <2>1. /\ ready' = ready \ {retire.key} /\ lost' = lost \ {retire.key} /\ retire' = NotRetiring
        /\ UNCHANGED <<channelVars, r2, objects, up, folder, cleared, panicked, overtaken>>
    BY <1>3 DEF RetentionForgets
  <2>2. R2Typed'
    BY <2>1, RetireStatesAre DEF R2Inv, R2Typed, channelVars
  <2>3. MarkedIsThere' /\ ReadyIsThere'
    BY <2>1 DEF R2Inv, MarkedIsThere, ReadyIsThere
  <2> QED BY <2>1, <2>2, <2>3 DEF R2Inv
<1> QED BY <1>1, <1>2, <1>3

\* What leaves the bucket alone.
LEMMA R2Rests == R2Inv /\ UNCHANGED r2Vars => R2Inv' /\ up' = up /\ objects' = objects
  BY DEF r2Vars, channelVars, R2Inv, R2Typed, MarkedIsThere, ReadyIsThere

-----------------------------------------------------------------------------
(* The cached files: proofs                                                  *)

\* What a fetcher is at, it is with all that belongs to it.
LEMMA FetchShape ==
  ASSUME CacheTyped, NEW f \in Fetchers
  PROVE  /\ fetch[f].at \in {"idle", "request", "create", "copy"}
         /\ fetch[f].at = "idle" => fetch[f] = Idle
         /\ fetch[f].at # "idle" => fetch[f].ref \in Refs /\ fetch[f].flight \in BOOLEAN
         /\ fetch[f].at # "copy" => fetch[f].inode = NoInode /\ fetch[f].done = 0
         /\ fetch[f].at = "copy" => fetch[f].inode \in Inodes /\ fetch[f].done \in 0..Blocks
         /\ fetch[f] = [at |-> fetch[f].at, ref |-> fetch[f].ref, inode |-> fetch[f].inode,
                        done |-> fetch[f].done, flight |-> fetch[f].flight]
<1>0. 0 \in 0..Blocks
  BY CacheAssumption
<1>1. fetch[f] \in FetchStates
  BY DEF CacheTyped
<1>2. CASE fetch[f] = Idle
  BY <1>0, <1>2 DEF Idle
<1>3. CASE fetch[f] \in [at : {"request", "create"}, ref : Refs, inode : {NoInode},
                         done : {0}, flight : BOOLEAN]
  BY <1>3
<1>4. CASE fetch[f] \in [at : {"copy"}, ref : Refs, inode : Inodes,
                         done : 0..Blocks, flight : BOOLEAN]
  BY <1>4
<1> QED BY <1>1, <1>2, <1>3, <1>4 DEF FetchStates

LEMMA FetchStatesAre ==
  /\ Idle \in FetchStates
  /\ Idle.at = "idle" /\ Idle.ref = NoKey /\ Idle.inode = NoInode /\ ~Idle.flight
  /\ \A at \in {"request", "create"}, r \in Refs, b \in BOOLEAN :
       [at |-> at, ref |-> r, inode |-> NoInode, done |-> 0, flight |-> b] \in FetchStates
  /\ \A r \in Refs, i \in Inodes, n \in 0..Blocks, b \in BOOLEAN :
       [at |-> "copy", ref |-> r, inode |-> i, done |-> n, flight |-> b] \in FetchStates
<1>1. Idle \in FetchStates
  BY DEF FetchStates
<1>2. Idle.at = "idle" /\ Idle.ref = NoKey /\ Idle.inode = NoInode /\ ~Idle.flight
  BY DEF Idle
<1>3. \A at \in {"request", "create"}, r \in Refs, b \in BOOLEAN :
       [at |-> at, ref |-> r, inode |-> NoInode, done |-> 0, flight |-> b] \in FetchStates
  BY DEF FetchStates
<1>4. \A r \in Refs, i \in Inodes, n \in 0..Blocks, b \in BOOLEAN :
       [at |-> "copy", ref |-> r, inode |-> i, done |-> n, flight |-> b] \in FetchStates
  BY DEF FetchStates
<1> QED BY <1>1, <1>2, <1>3, <1>4

LEMMA ViewerShape ==
  ASSUME CacheTyped, NEW v \in Viewers
  PROVE  /\ viewer[v].at \in {"none", "missed", "polling", "waiting", "opening"}
         /\ viewer[v].at # "none" =>
              /\ viewer[v].ref \in Refs
              /\ viewer[v] = [at |-> viewer[v].at, ref |-> viewer[v].ref]
<1>1. viewer[v] \in ViewerStates
  BY DEF CacheTyped
<1> QED BY <1>1 DEF ViewerStates, Gone

LEMMA ViewerStatesAre ==
  /\ Gone \in ViewerStates /\ Gone.at = "none"
  /\ \A at \in {"missed", "polling", "waiting", "opening"}, r \in Refs :
       [at |-> at, ref |-> r] \in ViewerStates
  BY DEF ViewerStates, Gone

LEMMA ViewerAt ==
  ASSUME NEW s \in ViewerStates, s.at # "none",
         NEW at \in {"missed", "polling", "waiting", "opening"}
  PROVE  /\ [s EXCEPT !.at = at] \in ViewerStates
         /\ [s EXCEPT !.at = at].at = at /\ [s EXCEPT !.at = at].ref = s.ref
<1>1. s \in [at : {"missed", "polling", "waiting", "opening"}, ref : Refs]
  BY DEF ViewerStates, Gone
<1>2. [s EXCEPT !.at = at] \in [at : {"missed", "polling", "waiting", "opening"}, ref : Refs]
  BY <1>1
<1>3. [s EXCEPT !.at = at].at = at /\ [s EXCEPT !.at = at].ref = s.ref
  BY <1>1
<1> QED BY <1>2, <1>3 DEF ViewerStates

\* What one fetcher does to the fetchers, one viewer to the viewers.
LEMMA FetchGoes ==
  ASSUME CacheTyped, NEW f \in Fetchers, NEW s \in FetchStates,
         fetch' = [fetch EXCEPT ![f] = s]
  PROVE  /\ fetch' \in [Fetchers -> FetchStates]
         /\ fetch'[f] = s /\ \A g \in Fetchers \ {f} : fetch'[g] = fetch[g]
  BY DEF CacheTyped

LEMMA ViewerGoes ==
  ASSUME CacheTyped, NEW v \in Viewers, NEW s \in ViewerStates,
         viewer' = [viewer EXCEPT ![v] = s]
  PROVE  /\ viewer' \in [Viewers -> ViewerStates]
         /\ viewer'[v] = s /\ \A w \in Viewers \ {v} : viewer'[w] = viewer[w]
  BY DEF CacheTyped

LEMMA CacheTypeFollows == CacheInv => CacheTypeOK
<1> SUFFICES ASSUME CacheInv PROVE CacheTypeOK
  OBVIOUS
<1>1. CacheTyped
  BY DEF CacheInv
<1>2. FetchStates \subseteq
        [at : {"idle", "request", "create", "copy"}, ref : Refs \cup {NoKey},
         inode : Inodes \cup {NoInode}, done : 0..Blocks, flight : BOOLEAN]
  <2> SUFFICES ASSUME NEW s \in FetchStates
               PROVE  s \in [at : {"idle", "request", "create", "copy"}, ref : Refs \cup {NoKey},
                             inode : Inodes \cup {NoInode}, done : 0..Blocks, flight : BOOLEAN]
    OBVIOUS
  <2>0. 0 \in 0..Blocks
    BY CacheAssumption
  <2>1. CASE s = Idle
    BY <2>0, <2>1 DEF Idle
  <2>2. CASE s # Idle
    BY <2>0, <2>2 DEF FetchStates
  <2> QED BY <2>1, <2>2
<1>3. ViewerStates \subseteq
        [at : {"none", "missed", "polling", "waiting", "opening"}, ref : Refs \cup {NoKey}]
  BY DEF ViewerStates, Gone
<1> QED BY <1>1, <1>2, <1>3 DEF CacheTyped, CacheTypeOK

LEMMA InitCache == CacheInit => CacheInv
<1> SUFFICES ASSUME CacheInit PROVE CacheInv
  OBVIOUS
<1>1. CacheTyped
  BY FetchStatesAre, ViewerStatesAre DEF CacheInit, CacheTyped
<1>2. /\ \A f \in Fetchers : fetch[f].at = "idle"
      /\ \A v \in Viewers : viewer[v].at = "none"
      /\ \A r \in Refs : tmp[r] = NoInode /\ final[r] = NoInode
  BY FetchStatesAre, ViewerStatesAre DEF CacheInit
<1>3. WaitersHaveFlight
  BY <1>2 DEF WaitersHaveFlight
<1>4. NameInv
  BY <1>2, CacheAssumption DEF NameInv, NamesApart, Owned, TmpHasWriter, Filled
<1>5. ProxyInv
  BY <1>2 DEF ProxyInv, OneFetcher, OwnBlocks, PublishedIsWhole, Cached
<1> QED BY <1>1, <1>3, <1>4, <1>5 DEF CacheInv

LEMMA NoKeyIsNoRef == NoKey \notin Refs
  BY R2Assumption, DeliveryAssumption

\* A step that writes nothing and leaves each writer at its file.
LEMMA NamesKept ==
  ASSUME CacheInv, CacheTyped', mode' = mode, blocks' = blocks,
         \A r \in Refs : {tmp'[r], final'[r]} \subseteq {tmp[r], final[r], NoInode},
         \A r \in Refs : tmp'[r] # NoInode => \E f \in Fetchers : fetch'[f].inode = tmp'[r],
         \A f \in Fetchers : fetch'[f].at = "copy" => fetch'[f] = fetch[f],
         \A r \in Refs, i \in Inodes :
           i \in {tmp'[r], final'[r]} =>
             Whole(i) \/ i \in broken' \/ \E f \in Fetchers : Fills(f, i) /\ fetch'[f] = fetch[f]
  PROVE  Owned' /\ TmpHasWriter' /\ Filled' /\ OwnBlocks'
<1>1. Owned'
  <2> SUFFICES ASSUME NEW f \in Fetchers, NEW r \in Refs, fetch'[f].at = "copy",
                      fetch'[f].inode \in {tmp'[r], final'[r]}
               PROVE  fetch'[f].ref = r
    BY DEF Owned
  <2>1. fetch'[f] = fetch[f] /\ fetch[f].at = "copy" /\ fetch[f].inode \in Inodes
    BY FetchShape DEF CacheInv
  <2>2. fetch[f].inode \in {tmp[r], final[r]}
    BY <2>1, CacheAssumption
  <2> QED BY <2>1, <2>2 DEF CacheInv, NameInv, Owned
<1>2. TmpHasWriter'
  BY DEF TmpHasWriter, Writing
<1>3. Filled'
  BY DEF Filled, Whole, Fills
<1>4. OwnBlocks'
  <2> SUFFICES ASSUME mode = "proxy", NEW f \in Fetchers, fetch'[f].at = "copy"
               PROVE  Fills(f, fetch[f].inode)'
    BY DEF OwnBlocks
  <2>1. fetch'[f] = fetch[f]
    OBVIOUS
  <2> QED BY <2>1 DEF CacheInv, ProxyInv, OwnBlocks, Fills
<1> QED BY <1>1, <1>2, <1>3, <1>4

\* A step that only takes names away.
LEMMA NamesTaken ==
  ASSUME CacheInv, mode' = mode, blocks' = blocks,
         \A r \in Refs : tmp'[r] \in {tmp[r], NoInode} /\ final'[r] \in {final[r], NoInode}
  PROVE  NamesApart' /\ PublishedIsWhole'
<1>1. NamesApart'
  BY DEF CacheInv, NameInv, NamesApart
<1>2. PublishedIsWhole'
  BY DEF CacheInv, ProxyInv, PublishedIsWhole, Cached, Whole
<1> QED BY <1>1, <1>2

\* A step that leaves the files and their writers alone.
LEMMA FilesRest ==
  ASSUME CacheInv, CacheTyped', mode' = mode, UNCHANGED <<tmp, final, blocks, broken>>,
         \A f \in Fetchers : fetch[f].at = "copy" => fetch'[f] = fetch[f],
         \A f \in Fetchers : fetch'[f].at = "copy" => fetch'[f] = fetch[f]
  PROVE  NameInv' /\ PublishedIsWhole' /\ OwnBlocks'
<1>1. \A r \in Refs : tmp[r] # NoInode => \E f \in Fetchers : fetch'[f].inode = tmp[r]
  <2> SUFFICES ASSUME NEW r \in Refs, tmp[r] # NoInode
               PROVE  \E f \in Fetchers : fetch'[f].inode = tmp[r]
    OBVIOUS
  <2>1. PICK f \in Fetchers : fetch[f].inode = tmp[r]
    BY DEF CacheInv, NameInv, TmpHasWriter, Writing
  <2>2. fetch[f].at = "copy"
    BY <2>1, FetchShape DEF CacheInv
  <2> QED BY <2>1, <2>2
<1>2. \A r \in Refs, i \in Inodes :
        i \in {tmp[r], final[r]} =>
          Whole(i) \/ i \in broken \/ \E f \in Fetchers : Fills(f, i) /\ fetch'[f] = fetch[f]
  <2> SUFFICES ASSUME NEW r \in Refs, NEW i \in Inodes, i \in {tmp[r], final[r]},
                      ~Whole(i), i \notin broken
               PROVE  \E f \in Fetchers : Fills(f, i) /\ fetch'[f] = fetch[f]
    OBVIOUS
  <2>1. PICK f \in Fetchers : Fills(f, i)
    BY DEF CacheInv, NameInv, Filled
  <2>2. fetch[f].at = "copy"
    BY <2>1, FetchShape, CacheAssumption DEF CacheInv, Fills
  <2> QED BY <2>1, <2>2
<1>3. Owned' /\ TmpHasWriter' /\ Filled' /\ OwnBlocks'
  BY <1>1, <1>2, NamesKept
<1>4. NamesApart' /\ PublishedIsWhole'
  BY NamesTaken
<1> QED BY <1>3, <1>4 DEF NameInv

\* Flights that stay, and viewers that wait for no other.
LEMMA WaitersKept ==
  ASSUME CacheInv, CacheTyped', mode' = mode,
         \A f \in Fetchers : fetch[f].at # "idle" =>
           fetch'[f].at # "idle" /\ fetch'[f].ref = fetch[f].ref /\ fetch'[f].flight = fetch[f].flight,
         \A v \in Viewers : viewer'[v].at = "waiting" =>
           \/ viewer'[v] = viewer[v]
           \/ \E f \in Fetchers : fetch'[f].ref = viewer'[v].ref /\ fetch'[f].flight
  PROVE  WaitersHaveFlight'
<1> SUFFICES ASSUME NEW v \in Viewers, viewer'[v].at = "waiting"
             PROVE  \E f \in Fetchers : fetch'[f].ref = viewer'[v].ref /\ fetch'[f].flight
  BY DEF WaitersHaveFlight, Flight, FetchersOf
<1>1. CASE viewer'[v] = viewer[v]
  <2>1. PICK f \in Fetchers : fetch[f].ref = viewer[v].ref /\ fetch[f].flight
    BY <1>1 DEF CacheInv, WaitersHaveFlight, Flight, FetchersOf
  <2>2. fetch[f].at # "idle"
    BY <2>1, FetchShape, FetchStatesAre DEF CacheInv
  <2> QED BY <1>1, <2>1, <2>2
<1> QED BY <1>1

\* No fetch begins: what was one flight is one.
LEMMA FlightsKept ==
  ASSUME CacheInv, CacheTyped', mode' = mode,
         \A g \in Fetchers : fetch'[g].at # "idle" =>
           /\ fetch[g].at # "idle"
           /\ fetch'[g].ref = fetch[g].ref /\ fetch'[g].flight = fetch[g].flight
  PROVE  OneFetcher'
<1> SUFFICES ASSUME mode = "proxy", NEW f \in Fetchers, fetch'[f].at # "idle",
                    NEW g \in Fetchers
             PROVE  fetch'[f].flight /\ (fetch'[g].ref = fetch'[f].ref => g = f)
  BY DEF OneFetcher
<1>1. fetch'[f].flight
  BY DEF CacheInv, ProxyInv, OneFetcher
<1>2. ASSUME fetch'[g].ref = fetch'[f].ref PROVE g = f
  <2>1. fetch[f].ref \in Refs
    BY FetchShape DEF CacheInv
  <2>2. fetch'[g].at # "idle"
    <3>1. fetch'[g] \in FetchStates
      BY DEF CacheTyped
    <3>2. fetch'[g].at = "idle" => fetch'[g] = Idle
      BY <3>1 DEF FetchStates
    <3> QED BY <1>2, <2>1, <3>2, FetchStatesAre, NoKeyIsNoRef
  <2> QED BY <1>2, <2>2 DEF CacheInv, ProxyInv, OneFetcher
<1> QED BY <1>1, <1>2

\* The end of a fetch, for itself and for those who wait for it.
LEMMA ReturnGoes ==
  ASSUME CacheInv, NEW f \in Fetchers, fetch[f].at # "idle",
         NEW next_ \in {"opening", "failed"}, Return(f, next_), mode' = mode,
         CacheTyped'
  PROVE  /\ fetch' \in [Fetchers -> FetchStates] /\ fetch'[f] = Idle
         /\ \A g \in Fetchers \ {f} : fetch'[g] = fetch[g]
         /\ WaitersHaveFlight' /\ OneFetcher'
<1>1. /\ fetch' \in [Fetchers -> FetchStates] /\ fetch'[f] = Idle
      /\ \A g \in Fetchers \ {f} : fetch'[g] = fetch[g]
  BY FetchGoes, FetchStatesAre DEF Return, CacheInv
<1>2. WaitersHaveFlight'
  <2> SUFFICES ASSUME NEW v \in Viewers, viewer'[v].at = "waiting"
               PROVE  \E g \in Fetchers : fetch'[g].ref = viewer'[v].ref /\ fetch'[g].flight
    BY DEF WaitersHaveFlight, Flight, FetchersOf
  <2>1. viewer'[v] = IF fetch[f].flight /\ viewer[v].at = "waiting" /\ viewer[v].ref = fetch[f].ref
                     THEN IF next_ = "opening" THEN [viewer[v] EXCEPT !.at = "opening"] ELSE Gone
                     ELSE viewer[v]
    BY DEF Return
  <2>2. viewer'[v] = viewer[v] /\ ~(fetch[f].flight /\ viewer[v].ref = fetch[f].ref)
    <3>1. CASE fetch[f].flight /\ viewer[v].at = "waiting" /\ viewer[v].ref = fetch[f].ref
      <4>1. [viewer[v] EXCEPT !.at = "opening"].at = "opening"
        BY <3>1, ViewerAt DEF CacheInv, CacheTyped
      <4> QED BY <2>1, <3>1, <4>1, ViewerStatesAre
    <3>2. CASE ~(fetch[f].flight /\ viewer[v].at = "waiting" /\ viewer[v].ref = fetch[f].ref)
      BY <2>1, <3>2
    <3> QED BY <3>1, <3>2
  <2>3. PICK g \in Fetchers : fetch[g].ref = viewer[v].ref /\ fetch[g].flight
    BY <2>2 DEF CacheInv, WaitersHaveFlight, Flight, FetchersOf
  <2> QED BY <1>1, <2>2, <2>3
<1>3. OneFetcher'
  BY <1>1, FlightsKept, FetchStatesAre
<1> QED BY <1>1, <1>2, <1>3

\* The viewers of a fetch that is over are of their type.
LEMMA ReturnTyped ==
  ASSUME CacheTyped, NEW f \in Fetchers, NEW next_ \in {"opening", "failed"}, Return(f, next_)
  PROVE  fetch' \in [Fetchers -> FetchStates] /\ viewer' \in [Viewers -> ViewerStates]
<1>1. fetch' \in [Fetchers -> FetchStates]
  BY FetchGoes, FetchStatesAre DEF Return
<1>2. ASSUME NEW v \in Viewers PROVE viewer'[v] \in ViewerStates
  <2>1. viewer[v] \in ViewerStates
    BY DEF CacheTyped
  <2>2. CASE viewer[v].at = "waiting"
    <3>1. [viewer[v] EXCEPT !.at = "opening"] \in ViewerStates
      BY <2>1, <2>2, ViewerAt
    <3> QED BY <2>1, <3>1, ViewerStatesAre DEF Return
  <2>3. CASE viewer[v].at # "waiting"
    BY <2>1, <2>3 DEF Return
  <2> QED BY <2>2, <2>3
<1>3. viewer' = [v \in Viewers |-> viewer'[v]]
  BY DEF Return
<1> QED BY <1>1, <1>2, <1>3

\* What leaves the cached files alone.
LEMMA CacheRests == CacheInv /\ UNCHANGED <<cacheVars, mode>> => CacheInv'
<1> SUFFICES ASSUME CacheInv, UNCHANGED <<cacheVars, mode>> PROVE CacheInv'
  OBVIOUS
<1> USE DEF cacheVars
<1>1. CacheTyped'
  BY DEF CacheInv, CacheTyped
<1>2. WaitersHaveFlight'
  BY DEF CacheInv, WaitersHaveFlight, Flight, FetchersOf
<1>3. NameInv' /\ PublishedIsWhole' /\ OwnBlocks'
  BY <1>1, FilesRest
<1>4. OneFetcher'
  BY <1>1, FlightsKept
<1> QED BY <1>1, <1>2, <1>3, <1>4 DEF CacheInv, ProxyInv

\* assets and pending are in nobody's way.
LEMMA MarksKeepCache ==
  ASSUME CacheInv, mode' = mode, assets' \subseteq Refs, pending' \subseteq Refs,
         UNCHANGED <<tmp, final, blocks, fetch, viewer, broken>>
  PROVE  CacheInv'
<1>1. CacheTyped'
  BY DEF CacheInv, CacheTyped
<1>2. WaitersHaveFlight'
  BY DEF CacheInv, WaitersHaveFlight, Flight, FetchersOf
<1>3. NameInv' /\ PublishedIsWhole' /\ OwnBlocks'
  BY <1>1, FilesRest
<1>4. OneFetcher'
  BY <1>1, FlightsKept
<1> QED BY <1>1, <1>2, <1>3, <1>4 DEF CacheInv, ProxyInv

LEMMA ViewerKeepsCache ==
  ASSUME CacheInv, mode' = mode, NEW v \in Viewers, NEW s \in ViewerStates,
         viewer' = [viewer EXCEPT ![v] = s],
         s.at = "waiting" => \E f \in Fetchers : fetch[f].ref = s.ref /\ fetch[f].flight,
         UNCHANGED <<assets, tmp, final, blocks, fetch, pending, broken>>
  PROVE  CacheInv'
<1>1. /\ viewer' \in [Viewers -> ViewerStates]
      /\ viewer'[v] = s /\ \A w \in Viewers \ {v} : viewer'[w] = viewer[w]
  BY ViewerGoes DEF CacheInv
<1>2. CacheTyped'
  BY <1>1 DEF CacheInv, CacheTyped
<1>3. WaitersHaveFlight'
  BY <1>1, <1>2, WaitersKept
<1>4. NameInv' /\ PublishedIsWhole' /\ OwnBlocks'
  BY <1>2, FilesRest
<1>5. OneFetcher'
  BY <1>2, FlightsKept
<1> QED BY <1>2, <1>3, <1>4, <1>5 DEF CacheInv, ProxyInv

\* A request that needs no fetch of its own.
LEMMA RequestsKeepCache ==
  ASSUME CacheInv, NEW v \in Viewers,
         \/ \E r \in Refs : AskFresh(v, r) \/ AskStale(v, r)
         \/ Hit(v) \/ StopPolling(v) \/ Join(v) \/ Serve(v)
  PROVE  CacheInv'
<1>1. mode' = mode /\ UNCHANGED <<assets, tmp, final, blocks, fetch, pending, broken>>
  BY DEF AskFresh, AskStale, Hit, StopPolling, Join, Serve, OnlyViewers, r2Vars, channelVars
<1>2. ASSUME NEW r \in Refs, AskFresh(v, r) \/ AskStale(v, r) PROVE CacheInv'
  <2>1. PICK at \in {"missed", "polling", "opening"} :
          viewer' = [viewer EXCEPT ![v] = [at |-> at, ref |-> r]]
    BY <1>2 DEF AskFresh, AskStale
  <2>2. [at |-> at, ref |-> r] \in ViewerStates /\ [at |-> at, ref |-> r].at # "waiting"
    BY ViewerStatesAre
  <2> QED BY <1>1, <2>1, <2>2, ViewerKeepsCache
<1>3. CASE Hit(v)
  <2>1. viewer[v].at = "polling" /\ viewer' = [viewer EXCEPT ![v] = [viewer[v] EXCEPT !.at = "opening"]]
    BY <1>3 DEF Hit, ViewerGoto
  <2>2. /\ [viewer[v] EXCEPT !.at = "opening"] \in ViewerStates
        /\ [viewer[v] EXCEPT !.at = "opening"].at = "opening"
    BY <2>1, ViewerAt DEF CacheInv, CacheTyped
  <2> QED BY <1>1, <2>1, <2>2, ViewerKeepsCache
<1>4. CASE StopPolling(v) \/ Serve(v)
  BY <1>1, <1>4, ViewerKeepsCache, ViewerStatesAre DEF StopPolling, Serve, Answer
<1>5. CASE Join(v)
  <2> DEFINE s == [viewer[v] EXCEPT !.at = "waiting"]
  <2>1. /\ viewer[v].at = "missed" /\ viewer' = [viewer EXCEPT ![v] = s]
        /\ \E f \in Fetchers : fetch[f].ref = viewer[v].ref /\ fetch[f].flight
    BY <1>5 DEF Join, ViewerGoto, Flight, FetchersOf
  <2>2. s \in ViewerStates /\ s.at = "waiting" /\ s.ref = viewer[v].ref
    BY <2>1, ViewerAt DEF CacheInv, CacheTyped
  <2> HIDE DEF s
  <2> QED BY <1>1, <2>1, <2>2, ViewerKeepsCache
<1> QED BY <1>2, <1>3, <1>4, <1>5

\* A fetch begins, a proxy channel's only while there is none.
LEMMA StartKeepsCache ==
  ASSUME CacheInv, mode' = mode, NEW f \in Fetchers, NEW r \in Refs, NEW b \in BOOLEAN,
         StartFetch(f, r, b), assets' \subseteq Refs, viewer' \in [Viewers -> ViewerStates],
         \A v \in Viewers : viewer'[v].at = "waiting" =>
           viewer'[v] = viewer[v] \/ (b /\ viewer'[v].ref = r),
         mode = "proxy" => b /\ \A g \in Fetchers : ~(fetch[g].ref = r /\ fetch[g].flight),
         UNCHANGED <<tmp, final, blocks, pending, broken>>
  PROVE  CacheInv'
<1> DEFINE s == [Idle EXCEPT !.at = "request", !.ref = r, !.flight = b]
           R == [at : {"idle", "request"}, ref : Refs \cup {NoKey}, inode : {NoInode},
                 done : {0}, flight : BOOLEAN]
<1>1. /\ s \in FetchStates /\ s.at = "request" /\ s.ref = r /\ (s.flight <=> b)
      /\ fetch' = [fetch EXCEPT ![f] = s]
      /\ fetch[f].at = "idle"
  <2>1. Idle \in R
    BY DEF Idle
  <2>2. s \in R /\ s.at = "request" /\ s.ref = r
    BY <2>1
  <2>3. s.flight = b
    BY <2>1
  <2>4. s \in FetchStates
    BY <2>2 DEF FetchStates
  <2>5. fetch' = [fetch EXCEPT ![f] = s] /\ fetch[f].at = "idle"
    BY FetchStatesAre DEF StartFetch
  <2> QED BY <2>2, <2>3, <2>4, <2>5
<1> HIDE DEF s
<1>2. /\ fetch' \in [Fetchers -> FetchStates]
      /\ fetch'[f] = s /\ \A g \in Fetchers \ {f} : fetch'[g] = fetch[g]
  BY <1>1, FetchGoes DEF CacheInv
<1>3. CacheTyped'
  BY <1>2 DEF CacheInv, CacheTyped
<1>4. WaitersHaveFlight'
  <2>1. \A v \in Viewers : viewer'[v].at = "waiting" =>
          \/ viewer'[v] = viewer[v]
          \/ \E g \in Fetchers : fetch'[g].ref = viewer'[v].ref /\ fetch'[g].flight
    BY <1>1, <1>2
  <2>2. \A g \in Fetchers : fetch[g].at # "idle" => fetch'[g] = fetch[g]
    BY <1>1, <1>2
  <2> QED BY <1>3, <2>1, <2>2, WaitersKept
<1>5. NameInv' /\ PublishedIsWhole' /\ OwnBlocks'
  <2>1. /\ \A g \in Fetchers : fetch[g].at = "copy" => fetch'[g] = fetch[g]
        /\ \A g \in Fetchers : fetch'[g].at = "copy" => fetch'[g] = fetch[g]
    BY <1>1, <1>2
  <2> QED BY <1>3, <2>1, FilesRest
<1>6. OneFetcher'
  <2> SUFFICES ASSUME mode = "proxy", NEW g \in Fetchers, fetch'[g].at # "idle", NEW h \in Fetchers
               PROVE  fetch'[g].flight /\ (fetch'[h].ref = fetch'[g].ref => h = g)
    BY DEF OneFetcher
  <2>1. \A h_ \in Fetchers : fetch[h_].ref = r => fetch[h_].at # "idle"
    BY FetchShape, FetchStatesAre, NoKeyIsNoRef DEF CacheInv
  <2>2. \A h_ \in Fetchers : fetch[h_].ref # r
    BY <2>1 DEF CacheInv, ProxyInv, OneFetcher
  <2>3. CASE g = f
    BY <1>1, <1>2, <2>2, <2>3
  <2>4. CASE g # f
    <3>1. /\ fetch'[g] = fetch[g] /\ fetch[g].flight /\ fetch[g].ref # r
          /\ \A h_ \in Fetchers : fetch[h_].ref = fetch[g].ref => h_ = g
      BY <1>2, <2>2, <2>4 DEF CacheInv, ProxyInv, OneFetcher
    <3> QED BY <1>1, <1>2, <3>1
  <2> QED BY <2>3, <2>4
<1> QED BY <1>3, <1>4, <1>5, <1>6 DEF CacheInv, ProxyInv

LEMMA FetchesBegin ==
  ASSUME CacheInv, NEW f \in Fetchers,
         (\E r \in Refs : Prefetch(f, r)) \/ (\E v \in Viewers : Lead(v, f))
  PROVE  CacheInv'
<1>1. ASSUME NEW r \in Refs, Prefetch(f, r) PROVE CacheInv'
  <2>1. /\ mode' = mode /\ mode # "proxy" /\ StartFetch(f, r, FALSE) /\ assets' \subseteq Refs
        /\ UNCHANGED <<tmp, final, blocks, viewer, pending, broken>>
    BY <1>1 DEF Prefetch, r2Vars, channelVars, CacheInv, CacheTyped
  <2>2. viewer' \in [Viewers -> ViewerStates]
    BY <2>1 DEF CacheInv, CacheTyped
  <2> QED BY <2>1, <2>2, StartKeepsCache
<1>2. ASSUME NEW v \in Viewers, Lead(v, f) PROVE CacheInv'
  <2> DEFINE s == [viewer[v] EXCEPT !.at = "waiting"]
             r == viewer[v].ref
  <2>1. /\ mode' = mode /\ StartFetch(f, r, TRUE) /\ viewer[v].at = "missed"
        /\ viewer' = [viewer EXCEPT ![v] = s]
        /\ \A g \in Fetchers : ~(fetch[g].ref = r /\ fetch[g].flight)
        /\ UNCHANGED <<assets, tmp, final, blocks, pending, broken>>
    BY <1>2 DEF Lead, ViewerGoto, Flight, FetchersOf, r2Vars, channelVars
  <2>2. s \in ViewerStates /\ s.at = "waiting" /\ s.ref = r /\ r \in Refs
    BY <2>1, ViewerAt, ViewerShape DEF CacheInv, CacheTyped
  <2> HIDE DEF s, r
  <2>3. /\ viewer' \in [Viewers -> ViewerStates]
        /\ viewer'[v] = s /\ \A w \in Viewers \ {v} : viewer'[w] = viewer[w]
    BY <2>1, <2>2, ViewerGoes DEF CacheInv
  <2>4. assets' \subseteq Refs
    BY <2>1 DEF CacheInv, CacheTyped
  <2>5. \A w \in Viewers : viewer'[w].at = "waiting" => viewer'[w] = viewer[w] \/ viewer'[w].ref = r
    BY <2>2, <2>3
  <2> QED BY <2>1, <2>2, <2>3, <2>4, <2>5, StartKeepsCache
<1> QED BY <1>1, <1>2

\* A fetch goes on.
LEMMA FlightGoesOn ==
  ASSUME CacheInv, CacheTyped', mode' = mode, viewer' = viewer, NEW f \in Fetchers,
         fetch[f].at # "idle", fetch'[f].at # "idle",
         fetch'[f].ref = fetch[f].ref, fetch'[f].flight = fetch[f].flight,
         \A g \in Fetchers \ {f} : fetch'[g] = fetch[g]
  PROVE  WaitersHaveFlight' /\ OneFetcher'
<1>1. \A g \in Fetchers : fetch'[g].ref = fetch[g].ref /\ fetch'[g].flight = fetch[g].flight
  OBVIOUS
<1>2. \A g \in Fetchers : fetch'[g].at # "idle" <=> fetch[g].at # "idle"
  OBVIOUS
<1>3. WaitersHaveFlight'
  BY <1>1, <1>2, WaitersKept
<1>4. OneFetcher'
  BY <1>1, <1>2, FlightsKept
<1> QED BY <1>3, <1>4

LEMMA AnswerKeepsCache ==
  ASSUME CacheInv, NEW f \in Fetchers, UpstreamAnswers(f)
  PROVE  CacheInv'
<1> DEFINE s == [fetch[f] EXCEPT !.at = "create"]
           R == [at : {"request", "create"}, ref : Refs, inode : {NoInode},
                 done : {0}, flight : BOOLEAN]
<1>1. /\ fetch[f].at = "request" /\ fetch' = [fetch EXCEPT ![f] = s] /\ mode' = mode
      /\ UNCHANGED <<assets, tmp, final, blocks, viewer, pending, broken>>
  BY DEF UpstreamAnswers, r2Vars, channelVars
<1>2. fetch[f] \in R
  BY <1>1, FetchStatesAre DEF CacheInv, CacheTyped, FetchStates
<1>3. /\ s \in R /\ s.at = "create" /\ s.ref = fetch[f].ref
  BY <1>2
<1>4. s.flight = fetch[f].flight
  BY <1>2
<1>5. s \in FetchStates
  BY <1>3 DEF FetchStates
<1> HIDE DEF s, R
<1>6. /\ fetch' \in [Fetchers -> FetchStates]
      /\ fetch'[f] = s /\ \A g \in Fetchers \ {f} : fetch'[g] = fetch[g]
  BY <1>1, <1>5, FetchGoes DEF CacheInv
<1>7. CacheTyped'
  BY <1>1, <1>6 DEF CacheInv, CacheTyped
<1>8. WaitersHaveFlight' /\ OneFetcher'
  BY <1>1, <1>3, <1>4, <1>6, <1>7, FlightGoesOn
<1>9. NameInv' /\ PublishedIsWhole' /\ OwnBlocks'
  <2>1. /\ \A g \in Fetchers : fetch[g].at = "copy" => fetch'[g] = fetch[g]
        /\ \A g \in Fetchers : fetch'[g].at = "copy" => fetch'[g] = fetch[g]
    BY <1>1, <1>3, <1>6
  <2> QED BY <1>1, <1>7, <2>1, FilesRest
<1> QED BY <1>7, <1>8, <1>9 DEF CacheInv, ProxyInv

LEMMA FailureKeepsCache ==
  ASSUME CacheInv, NEW f \in Fetchers, FetchFails(f)
  PROVE  CacheInv'
<1>1. /\ fetch[f].at \in {"request", "create"} /\ mode' = mode
      /\ Return(f, "failed")
      /\ UNCHANGED <<assets, tmp, final, blocks, pending, broken>>
  BY DEF FetchFails, r2Vars, channelVars
<1>2. CacheTyped'
  BY <1>1, ReturnTyped DEF CacheInv, CacheTyped
<1>3. /\ fetch'[f] = Idle /\ \A g \in Fetchers \ {f} : fetch'[g] = fetch[g]
      /\ WaitersHaveFlight' /\ OneFetcher'
  BY <1>1, <1>2, ReturnGoes
<1>4. NameInv' /\ PublishedIsWhole' /\ OwnBlocks'
  <2>1. /\ \A g \in Fetchers : fetch[g].at = "copy" => fetch'[g] = fetch[g]
        /\ \A g \in Fetchers : fetch'[g].at = "copy" => fetch'[g] = fetch[g]
    BY <1>1, <1>3, FetchStatesAre
  <2> QED BY <1>1, <1>2, <2>1, FilesRest
<1> QED BY <1>2, <1>3, <1>4 DEF CacheInv, ProxyInv

\* What os.Create truncates has, in a proxy channel, no other writer and no other name.
LEMMA CreateTakesFree ==
  ASSUME CacheInv, NEW f \in Fetchers, fetch[f].at = "create", NEW i \in Inodes,
         IF tmp[fetch[f].ref] # NoInode THEN i = tmp[fetch[f].ref] ELSE Free(i)
  PROVE  /\ \A r \in Refs : final[r] # i /\ (tmp[r] = i => r = fetch[f].ref)
         /\ \A g \in Fetchers : fetch[g].inode = i => fetch[g].ref = fetch[f].ref
         /\ mode = "proxy" => \A g \in Fetchers : fetch[g].inode # i
<1> DEFINE o == fetch[f].ref
<1>0. o \in Refs
  BY FetchShape DEF CacheInv
<1>1. CASE tmp[o] = NoInode
  <2>1. (\A r \in Refs : tmp[r] # i /\ final[r] # i) /\ \A g \in Fetchers : fetch[g].inode # i
    BY <1>1 DEF Free, Writing
  <2> QED BY <2>1
<1>2. CASE tmp[o] # NoInode
  <2>1. i = tmp[o]
    BY <1>2
  <2>2. \A r \in Refs : final[r] # i /\ (tmp[r] = i => r = o)
    BY <1>0, <1>2, <2>1 DEF CacheInv, NameInv, NamesApart
  <2>3. ASSUME NEW g \in Fetchers, fetch[g].inode = i PROVE fetch[g].ref = o /\ g # f
    <3>1. fetch[g].at = "copy"
      BY <2>3, FetchShape, CacheAssumption DEF CacheInv
    <3> QED BY <1>0, <2>1, <2>3, <3>1 DEF CacheInv, NameInv, Owned
  <2>4. mode # "proxy"
    <3> SUFFICES ASSUME mode = "proxy" PROVE FALSE
      OBVIOUS
    <3>1. PICK g \in Fetchers : fetch[g].inode = i
      BY <1>0, <1>2, <2>1 DEF CacheInv, NameInv, TmpHasWriter, Writing
    <3> QED BY <2>3, <3>1 DEF CacheInv, ProxyInv, OneFetcher
  <2> QED BY <2>2, <2>3, <2>4
<1> QED BY <1>1, <1>2

LEMMA CreateKeepsCache ==
  ASSUME CacheInv, NEW f \in Fetchers, CreateTmp(f)
  PROVE  CacheInv'
<1> DEFINE o == fetch[f].ref
<1>1. PICK i \in Inodes :
        /\ IF tmp[o] # NoInode THEN i = tmp[o] ELSE Free(i)
        /\ tmp' = [tmp EXCEPT ![o] = i] /\ blocks' = [blocks EXCEPT ![i] = {}]
        /\ broken' = broken \ {i}
        /\ fetch' = [fetch EXCEPT ![f].at = "copy", ![f].inode = i]
  BY DEF CreateTmp
<1>2. /\ fetch[f].at = "create" /\ mode' = mode
      /\ UNCHANGED <<assets, final, viewer, pending>>
  BY DEF CreateTmp, r2Vars, channelVars
<1>3. o \in Refs /\ fetch[f].done = 0 /\ fetch[f].flight \in BOOLEAN
  BY <1>2, FetchShape DEF CacheInv
<1> DEFINE s == [fetch[f] EXCEPT !.at = "copy", !.inode = i]
           R == [at : {"create", "copy"}, ref : Refs, inode : Inodes \cup {NoInode},
                 done : 0..Blocks, flight : BOOLEAN]
<1>4. fetch[f] \in R /\ fetch[f].done = 0
  <2>1. fetch[f] \in [at : {"request", "create"}, ref : Refs, inode : {NoInode},
                      done : {0}, flight : BOOLEAN]
    BY <1>2, FetchStatesAre DEF CacheInv, CacheTyped, FetchStates
  <2>2. 0 \in 0..Blocks
    BY CacheAssumption
  <2> QED BY <1>2, <2>1, <2>2
<1>5. s \in R /\ s.at = "copy" /\ s.inode = i /\ s.ref = o /\ s.done = 0
  BY <1>4
<1>6. s.flight = fetch[f].flight
  BY <1>4
<1>7. s \in FetchStates
  BY <1>5 DEF FetchStates
<1>8. fetch' = [fetch EXCEPT ![f] = s]
  BY <1>1 DEF CacheInv, CacheTyped
<1> HIDE DEF s, R
<1>9. /\ fetch' \in [Fetchers -> FetchStates]
      /\ fetch'[f] = s /\ \A g \in Fetchers \ {f} : fetch'[g] = fetch[g]
  BY <1>7, <1>8, FetchGoes DEF CacheInv
<1>10. /\ \A r \in Refs : final[r] # i /\ (tmp[r] = i => r = o)
       /\ \A g \in Fetchers : fetch[g].inode = i => fetch[g].ref = o
       /\ mode = "proxy" => \A g \in Fetchers : fetch[g].inode # i
  BY <1>1, <1>2, CreateTakesFree
<1> HIDE DEF o
<1>11. /\ tmp' \in [Refs -> Inodes \cup {NoInode}]
       /\ tmp'[o] = i /\ \A r \in Refs \ {o} : tmp'[r] = tmp[r]
       /\ blocks' \in [Inodes -> SUBSET (1..Blocks)]
       /\ blocks'[i] = {} /\ \A j \in Inodes \ {i} : blocks'[j] = blocks[j]
  BY <1>1, <1>3 DEF CacheInv, CacheTyped
<1>12. CacheTyped'
  BY <1>1, <1>2, <1>9, <1>11 DEF CacheInv, CacheTyped
<1>13. WaitersHaveFlight' /\ OneFetcher'
  <2>1. fetch'[f].ref = fetch[f].ref
    BY <1>5, <1>9 DEF o
  <2>2. fetch'[f].at # "idle" /\ fetch'[f].flight = fetch[f].flight
    BY <1>5, <1>6, <1>9
  <2> QED BY <1>2, <1>9, <1>12, <2>1, <2>2, FlightGoesOn
<1>14. NamesApart'
  BY <1>2, <1>3, <1>10, <1>11, CacheAssumption DEF CacheInv, NameInv, NamesApart
<1>15. Owned'
  <2> SUFFICES ASSUME NEW g \in Fetchers, NEW r \in Refs, fetch'[g].at = "copy",
                      fetch'[g].inode \in {tmp'[r], final'[r]}
               PROVE  fetch'[g].ref = r
    BY DEF Owned
  <2>1. CASE g = f
    BY <1>2, <1>3, <1>5, <1>9, <1>10, <1>11, <2>1
  <2>2. CASE g # f
    <3>1. fetch'[g] = fetch[g]
      BY <1>9, <2>2
    <3>2. CASE fetch[g].inode = i
      BY <1>2, <1>10, <1>11, <3>1, <3>2
    <3>3. CASE fetch[g].inode # i
      <4>1. fetch[g].inode \in {tmp[r], final[r]}
        BY <1>2, <1>11, <3>1, <3>3
      <4> QED BY <3>1, <4>1 DEF CacheInv, NameInv, Owned
    <3> QED BY <3>2, <3>3
  <2> QED BY <2>1, <2>2
<1>16. TmpHasWriter'
  <2> SUFFICES ASSUME NEW r \in Refs, tmp'[r] # NoInode
               PROVE  \E g \in Fetchers : fetch'[g].inode = tmp'[r]
    BY DEF TmpHasWriter, Writing
  <2>1. CASE r = o
    BY <1>5, <1>9, <1>11, <2>1
  <2>2. CASE r # o
    <3>1. PICK g \in Fetchers : fetch[g].inode = tmp[r]
      BY <1>11, <2>2 DEF CacheInv, NameInv, TmpHasWriter, Writing
    <3>2. fetch[f].inode = NoInode
      BY <1>2, FetchShape DEF CacheInv
    <3> QED BY <1>9, <1>11, <2>2, <3>1, <3>2
  <2> QED BY <2>1, <2>2
<1>17. Filled'
  <2> SUFFICES ASSUME NEW r \in Refs, NEW j \in Inodes, j \in {tmp'[r], final'[r]}
               PROVE  Whole(j)' \/ j \in broken' \/ \E g \in Fetchers : Fills(g, j)'
    BY DEF Filled
  <2>1. CASE j = i
    <3>1. fetch'[f].inode = j /\ fetch'[f].done = 0
      BY <1>5, <1>9, <2>1
    <3>2. 1..fetch'[f].done \subseteq blocks'[j]
      BY <3>1
    <3> QED BY <3>1, <3>2 DEF Fills
  <2>2. CASE j # i
    <3>1. j \in {tmp[r], final[r]} /\ blocks'[j] = blocks[j]
      BY <1>2, <1>11, <2>2
    <3>2. CASE Whole(j) \/ j \in broken
      BY <1>1, <2>2, <3>1, <3>2 DEF Whole
    <3>3. CASE \E g \in Fetchers : Fills(g, j)
      <4>1. PICK g \in Fetchers : Fills(g, j)
        BY <3>3
      <4>2. g # f
        BY <1>2, <4>1, FetchShape, CacheAssumption DEF CacheInv, Fills
      <4> QED BY <1>9, <3>1, <4>1, <4>2 DEF Fills
    <3> QED BY <3>1, <3>2, <3>3 DEF CacheInv, NameInv, Filled
  <2> QED BY <2>1, <2>2
<1>18. PublishedIsWhole'
  <2> SUFFICES ASSUME mode = "proxy", NEW r \in Refs, final[r] # NoInode
               PROVE  blocks'[final[r]] = 1..Blocks
    BY <1>2 DEF PublishedIsWhole, Cached, Whole
  <2>1. blocks[final[r]] = 1..Blocks /\ final[r] \in Inodes
    BY DEF CacheInv, CacheTyped, ProxyInv, PublishedIsWhole, Cached, Whole
  <2> QED BY <1>10, <1>11, <2>1
<1>19. OwnBlocks'
  <2> SUFFICES ASSUME mode = "proxy", NEW g \in Fetchers, fetch'[g].at = "copy"
               PROVE  1..fetch'[g].done \subseteq blocks'[fetch'[g].inode]
    BY <1>2 DEF OwnBlocks, Fills
  <2>1. CASE g = f
    <3>1. fetch'[g].done = 0
      BY <1>5, <1>9, <2>1
    <3> QED BY <3>1
  <2>2. CASE g # f
    <3>1. fetch'[g] = fetch[g] /\ fetch[g].inode \in Inodes /\ fetch[g].inode # i
      BY <1>9, <1>10, <2>2, FetchShape DEF CacheInv
    <3>2. 1..fetch[g].done \subseteq blocks[fetch[g].inode]
      BY <3>1 DEF CacheInv, ProxyInv, OwnBlocks, Fills
    <3> QED BY <1>11, <3>1, <3>2
  <2> QED BY <2>1, <2>2
<1> QED BY <1>12, <1>13, <1>14, <1>15, <1>16, <1>17, <1>18, <1>19 DEF CacheInv, NameInv, ProxyInv

LEMMA CopyKeepsCache ==
  ASSUME CacheInv, NEW f \in Fetchers, Copy(f)
  PROVE  CacheInv'
<1> DEFINE n == fetch[f].done + 1
           i == fetch[f].inode
           s == [fetch[f] EXCEPT !.done = n]
           R == [at : {"copy"}, ref : Refs, inode : Inodes, done : 0..Blocks, flight : BOOLEAN]
<1>1. /\ fetch[f].at = "copy" /\ fetch[f].done < Blocks /\ mode' = mode
      /\ blocks' = [blocks EXCEPT ![i] = @ \cup {n}] /\ fetch' = [fetch EXCEPT ![f] = s]
      /\ UNCHANGED <<assets, tmp, final, viewer, pending, broken>>
  BY DEF Copy, Copying, r2Vars, channelVars
<1>2. fetch[f] \in R
  BY <1>1, FetchStatesAre DEF CacheInv, CacheTyped, FetchStates
<1>3. i \in Inodes /\ fetch[f].done \in 0..Blocks /\ n \in 1..Blocks
  BY <1>1, <1>2, CacheAssumption
<1>4. s \in R /\ s.at = "copy" /\ s.inode = i /\ s.ref = fetch[f].ref /\ s.done = n
  <2>1. n \in 0..Blocks
    BY <1>3
  <2> QED BY <1>2, <2>1
<1>5. s.flight = fetch[f].flight
  BY <1>2
<1>6. s \in FetchStates
  BY <1>4 DEF FetchStates
<1> HIDE DEF s, R
<1>7. /\ fetch' \in [Fetchers -> FetchStates]
      /\ fetch'[f] = s /\ \A g \in Fetchers \ {f} : fetch'[g] = fetch[g]
  BY <1>1, <1>6, FetchGoes DEF CacheInv
<1>8. /\ blocks' \in [Inodes -> SUBSET (1..Blocks)]
      /\ blocks'[i] = blocks[i] \cup {n}
      /\ \A j \in Inodes : blocks[j] \subseteq blocks'[j] /\ (Whole(j) => Whole(j)')
  BY <1>1, <1>3 DEF CacheInv, CacheTyped, Whole
<1>9. CacheTyped'
  BY <1>1, <1>7, <1>8 DEF CacheInv, CacheTyped
<1>10. WaitersHaveFlight' /\ OneFetcher'
  BY <1>1, <1>4, <1>5, <1>7, <1>9, FlightGoesOn
<1>11. \A g \in Fetchers :
         fetch'[g].inode = fetch[g].inode /\ fetch'[g].ref = fetch[g].ref
         /\ fetch'[g].at = fetch[g].at
  BY <1>1, <1>4, <1>7
<1>12. ASSUME NEW g \in Fetchers, NEW j \in Inodes, Fills(g, j) PROVE Fills(g, j)'
  <2>1. CASE g = f
    <3>1. j = i /\ 1..fetch[f].done \subseteq blocks[j] /\ fetch'[g].done = n
      BY <1>4, <1>7, <1>12, <2>1 DEF Fills
    <3>2. 1..n = (1..fetch[f].done) \cup {n}
      BY <1>3
    <3>3. 1..n \subseteq blocks'[j]
      BY <1>8, <3>1, <3>2
    <3> QED BY <1>4, <1>7, <2>1, <3>1, <3>3 DEF Fills
  <2>2. CASE g # f
    BY <1>7, <1>8, <1>12, <2>2 DEF Fills
  <2> QED BY <2>1, <2>2
<1>13. NamesApart' /\ TmpHasWriter'
  BY <1>1, <1>11 DEF CacheInv, NameInv, NamesApart, TmpHasWriter, Writing
<1>14. Owned'
  BY <1>1, <1>11 DEF CacheInv, NameInv, Owned
<1>15. Filled'
  <2> SUFFICES ASSUME NEW r \in Refs, NEW j \in Inodes, j \in {tmp[r], final[r]}
               PROVE  Whole(j)' \/ j \in broken \/ \E g \in Fetchers : Fills(g, j)'
    BY <1>1 DEF Filled
  <2> QED BY <1>8, <1>12 DEF CacheInv, NameInv, Filled
<1>16. PublishedIsWhole'
  BY <1>1, <1>8 DEF CacheInv, CacheTyped, ProxyInv, PublishedIsWhole, Cached
<1>17. OwnBlocks'
  <2> SUFFICES ASSUME mode = "proxy", NEW g \in Fetchers, fetch[g].at = "copy"
               PROVE  Fills(g, fetch[g].inode)'
    BY <1>1, <1>11 DEF OwnBlocks, Fills
  <2>1. fetch[g].inode \in Inodes /\ Fills(g, fetch[g].inode)
    BY FetchShape DEF CacheInv, ProxyInv, OwnBlocks
  <2>2. \A j \in Inodes : Fills(g, j) => Fills(g, j)'
    BY <1>12
  <2>3. PICK j \in Inodes : j = fetch[g].inode
    BY <2>1
  <2>4. Fills(g, j)'
    BY <2>1, <2>2, <2>3
  <2> QED BY <1>11, <2>3, <2>4 DEF Fills
<1> QED BY <1>9, <1>10, <1>13, <1>14, <1>15, <1>16, <1>17 DEF CacheInv, NameInv, ProxyInv

\* The name of another ref has a writer that is not f.
LEMMA OtherWriter ==
  ASSUME CacheInv, NEW f \in Fetchers, fetch[f].at = "copy",
         NEW r \in Refs, r # fetch[f].ref, tmp[r] # NoInode
  PROVE  \E g \in Fetchers \ {f} : fetch[g].inode = tmp[r]
<1>1. PICK g \in Fetchers : fetch[g].inode = tmp[r]
  BY DEF CacheInv, NameInv, TmpHasWriter, Writing
<1>2. fetch[g].at = "copy"
  BY <1>1, FetchShape DEF CacheInv
<1>3. fetch[g].ref = r
  BY <1>1, <1>2 DEF CacheInv, NameInv, Owned
<1> QED BY <1>1, <1>3

LEMMA BreakingKeepsCache ==
  ASSUME CacheInv, NEW f \in Fetchers, CopyFails(f)
  PROVE  CacheInv'
<1> DEFINE o == fetch[f].ref
           i == fetch[f].inode
<1>1. /\ fetch[f].at = "copy" /\ mode' = mode
      /\ tmp' = [tmp EXCEPT ![o] = NoInode] /\ broken' = broken \cup {i}
      /\ Return(f, "failed")
      /\ UNCHANGED <<assets, final, blocks, pending>>
  BY DEF CopyFails, Copying, r2Vars, channelVars
<1>2. o \in Refs /\ i \in Inodes
  BY <1>1, FetchShape DEF CacheInv
<1>3. /\ tmp' \in [Refs -> Inodes \cup {NoInode}]
      /\ tmp'[o] = NoInode /\ \A r \in Refs \ {o} : tmp'[r] = tmp[r]
  BY <1>1, <1>2 DEF CacheInv, CacheTyped
<1>4. CacheTyped'
  BY <1>1, <1>2, <1>3, ReturnTyped DEF CacheInv, CacheTyped
<1>5. /\ fetch'[f] = Idle /\ \A g \in Fetchers \ {f} : fetch'[g] = fetch[g]
      /\ WaitersHaveFlight' /\ OneFetcher'
  BY <1>1, <1>4, ReturnGoes
<1>6. \A r \in Refs : tmp'[r] # NoInode => \E g \in Fetchers : fetch'[g].inode = tmp'[r]
  <2> SUFFICES ASSUME NEW r \in Refs, tmp'[r] # NoInode
               PROVE  \E g \in Fetchers : fetch'[g].inode = tmp'[r]
    OBVIOUS
  <2>1. r # o /\ tmp'[r] = tmp[r]
    BY <1>3
  <2>2. PICK g \in Fetchers \ {f} : fetch[g].inode = tmp[r]
    BY <1>1, <2>1, OtherWriter
  <2> QED BY <1>5, <2>1, <2>2
<1>7. \A g \in Fetchers : fetch'[g].at = "copy" => fetch'[g] = fetch[g]
  BY <1>5, FetchStatesAre
<1>8. \A r \in Refs, j \in Inodes : j \in {tmp'[r], final'[r]} =>
        Whole(j) \/ j \in broken' \/ \E g \in Fetchers : Fills(g, j) /\ fetch'[g] = fetch[g]
  <2> SUFFICES ASSUME NEW r \in Refs, NEW j \in Inodes, j \in {tmp'[r], final'[r]},
                      ~Whole(j), j \notin broken'
               PROVE  \E g \in Fetchers : Fills(g, j) /\ fetch'[g] = fetch[g]
    OBVIOUS
  <2>1. j \in {tmp[r], final[r]} /\ j \notin broken /\ j # i
    BY <1>1, <1>3, CacheAssumption
  <2>2. PICK g \in Fetchers : Fills(g, j)
    BY <2>1 DEF CacheInv, NameInv, Filled
  <2> QED BY <1>5, <2>1, <2>2 DEF Fills
<1>9. \A r \in Refs : tmp'[r] \in {tmp[r], NoInode} /\ final'[r] \in {final[r], NoInode}
  BY <1>1, <1>3
<1>10. \A r \in Refs : {tmp'[r], final'[r]} \subseteq {tmp[r], final[r], NoInode}
  BY <1>9
<1>11. Owned' /\ TmpHasWriter' /\ Filled' /\ OwnBlocks'
  BY <1>1, <1>4, <1>6, <1>7, <1>8, <1>10, NamesKept
<1>12. NamesApart' /\ PublishedIsWhole'
  BY <1>1, <1>9, NamesTaken
<1> QED BY <1>4, <1>5, <1>11, <1>12 DEF CacheInv, NameInv, ProxyInv

\* What a proxy channel's fetch renames is what it wrote.
LEMMA PublishesItsOwn ==
  ASSUME CacheInv, NEW f \in Fetchers, fetch[f].at = "copy", mode = "proxy",
         tmp[fetch[f].ref] # NoInode
  PROVE  tmp[fetch[f].ref] = fetch[f].inode
<1> DEFINE o == fetch[f].ref
<1>1. o \in Refs
  BY FetchShape DEF CacheInv
<1>2. PICK g \in Fetchers : fetch[g].inode = tmp[o]
  BY <1>1 DEF CacheInv, NameInv, TmpHasWriter, Writing
<1>3. fetch[g].at = "copy"
  BY <1>2, FetchShape DEF CacheInv
<1>4. fetch[g].ref = o
  BY <1>1, <1>2, <1>3 DEF CacheInv, NameInv, Owned
<1>5. g = f
  BY <1>4 DEF CacheInv, ProxyInv, OneFetcher
<1> QED BY <1>2, <1>5

LEMMA PublishKeepsCache ==
  ASSUME CacheInv, NEW f \in Fetchers, Publish(f)
  PROVE  CacheInv'
<1> DEFINE o == fetch[f].ref
           i == fetch[f].inode
           published == tmp[o] # NoInode
<1>1. /\ fetch[f].at = "copy" /\ fetch[f].done = Blocks /\ mode' = mode
      /\ tmp' = [tmp EXCEPT ![o] = NoInode]
      /\ final' = [final EXCEPT ![o] = IF published THEN tmp[o] ELSE final[o]]
      /\ pending' \subseteq pending \cup {o}
      /\ \E next_ \in {"opening", "failed"} : Return(f, next_)
      /\ UNCHANGED <<assets, blocks, broken>>
  BY DEF Publish, Rename, r2Vars, channelVars
<1>2. o \in Refs /\ i \in Inodes
  BY <1>1, FetchShape DEF CacheInv
<1>3. /\ tmp' \in [Refs -> Inodes \cup {NoInode}] /\ final' \in [Refs -> Inodes \cup {NoInode}]
      /\ tmp'[o] = NoInode /\ final'[o] = IF published THEN tmp[o] ELSE final[o]
      /\ \A r \in Refs \ {o} : tmp'[r] = tmp[r] /\ final'[r] = final[r]
  BY <1>1, <1>2 DEF CacheInv, CacheTyped
<1>4. CacheTyped'
  BY <1>1, <1>2, <1>3, ReturnTyped DEF CacheInv, CacheTyped
<1>5. /\ fetch'[f] = Idle /\ \A g \in Fetchers \ {f} : fetch'[g] = fetch[g]
      /\ WaitersHaveFlight' /\ OneFetcher'
  BY <1>1, <1>4, ReturnGoes
<1>6. \A r \in Refs : tmp'[r] # NoInode => \E g \in Fetchers : fetch'[g].inode = tmp'[r]
  <2> SUFFICES ASSUME NEW r \in Refs, tmp'[r] # NoInode
               PROVE  \E g \in Fetchers : fetch'[g].inode = tmp'[r]
    OBVIOUS
  <2>1. r # o /\ tmp'[r] = tmp[r]
    BY <1>3
  <2>2. PICK g \in Fetchers \ {f} : fetch[g].inode = tmp[r]
    BY <1>1, <2>1, OtherWriter
  <2> QED BY <1>5, <2>1, <2>2
<1>7. \A g \in Fetchers : fetch'[g].at = "copy" => fetch'[g] = fetch[g]
  BY <1>5, FetchStatesAre
<1>8. \A r \in Refs, j \in Inodes : j \in {tmp'[r], final'[r]} => j \in {tmp[r], final[r]}
  BY <1>3, CacheAssumption
<1>9. \A r \in Refs, j \in Inodes : j \in {tmp'[r], final'[r]} =>
        Whole(j) \/ j \in broken' \/ \E g \in Fetchers : Fills(g, j) /\ fetch'[g] = fetch[g]
  <2> SUFFICES ASSUME NEW r \in Refs, NEW j \in Inodes, j \in {tmp'[r], final'[r]},
                      ~Whole(j), j \notin broken'
               PROVE  \E g \in Fetchers : Fills(g, j) /\ fetch'[g] = fetch[g]
    OBVIOUS
  <2>1. PICK g \in Fetchers : Fills(g, j)
    BY <1>1, <1>8 DEF CacheInv, NameInv, Filled
  <2>2. g # f
    <3> SUFFICES ASSUME g = f PROVE FALSE
      OBVIOUS
    <3>1. 1..Blocks \subseteq blocks[j] /\ blocks[j] \subseteq 1..Blocks
      BY <1>1, <2>1 DEF Fills, CacheInv, CacheTyped
    <3> QED BY <3>1 DEF Whole
  <2> QED BY <1>5, <2>1, <2>2
<1>10. \A r \in Refs : {tmp'[r], final'[r]} \subseteq {tmp[r], final[r], NoInode}
  BY <1>3
<1>11. Owned' /\ TmpHasWriter' /\ Filled' /\ OwnBlocks'
  BY <1>1, <1>4, <1>6, <1>7, <1>9, <1>10, NamesKept
<1>12. NamesApart'
  BY <1>2, <1>3 DEF CacheInv, NameInv, NamesApart
<1>13. PublishedIsWhole'
  <2> SUFFICES ASSUME mode = "proxy", NEW r \in Refs, final'[r] # NoInode
               PROVE  blocks[final'[r]] = 1..Blocks
    BY <1>1 DEF PublishedIsWhole, Cached, Whole
  <2>1. CASE final'[r] = final[r]
    BY <2>1 DEF CacheInv, ProxyInv, PublishedIsWhole, Cached, Whole
  <2>2. CASE final'[r] # final[r]
    <3>1. r = o /\ published /\ final'[r] = tmp[o]
      BY <1>3, <2>2
    <3>2. tmp[o] = i
      BY <1>1, <3>1, PublishesItsOwn
    <3>3. 1..Blocks \subseteq blocks[i] /\ blocks[i] \subseteq 1..Blocks
      BY <1>1, <1>2 DEF CacheInv, CacheTyped, ProxyInv, OwnBlocks, Fills
    <3> QED BY <3>1, <3>2, <3>3
  <2> QED BY <2>1, <2>2
<1> QED BY <1>4, <1>5, <1>11, <1>12, <1>13 DEF CacheInv, NameInv, ProxyInv

\* Files go, under whoever writes to them.
LEMMA RemovalKeepsCache ==
  ASSUME CacheInv, mode' = mode, UNCHANGED <<assets, blocks, fetch, viewer, pending, broken>>,
         tmp' \in [Refs -> Inodes \cup {NoInode}], final' \in [Refs -> Inodes \cup {NoInode}],
         \A r \in Refs : tmp'[r] \in {tmp[r], NoInode} /\ final'[r] \in {final[r], NoInode}
  PROVE  CacheInv'
<1>1. CacheTyped'
  BY DEF CacheInv, CacheTyped
<1>2. WaitersHaveFlight'
  BY DEF CacheInv, WaitersHaveFlight, Flight, FetchersOf
<1>3. OneFetcher'
  BY <1>1, FlightsKept
<1>4. \A r \in Refs : tmp'[r] # NoInode => \E g \in Fetchers : fetch'[g].inode = tmp'[r]
  BY DEF CacheInv, NameInv, TmpHasWriter, Writing
<1>5. \A r \in Refs, j \in Inodes : j \in {tmp'[r], final'[r]} =>
        Whole(j) \/ j \in broken' \/ \E g \in Fetchers : Fills(g, j) /\ fetch'[g] = fetch[g]
  BY CacheAssumption DEF CacheInv, NameInv, Filled
<1>6. \A r \in Refs : {tmp'[r], final'[r]} \subseteq {tmp[r], final[r], NoInode}
  OBVIOUS
<1>7. Owned' /\ TmpHasWriter' /\ Filled' /\ OwnBlocks'
  BY <1>1, <1>4, <1>5, <1>6, NamesKept
<1>8. NamesApart' /\ PublishedIsWhole'
  BY NamesTaken
<1> QED BY <1>1, <1>2, <1>3, <1>7, <1>8 DEF CacheInv, NameInv, ProxyInv

LEMMA CleanupKeepsCache ==
  ASSUME CacheInv, NEW r \in Refs, Cleanup(r)
  PROVE  CacheInv'
<1>1. /\ final' = [final EXCEPT ![r] = NoInode] /\ mode' = mode
      /\ UNCHANGED <<assets, tmp, blocks, fetch, viewer, pending, broken>>
  BY DEF Cleanup, r2Vars, channelVars
<1>2. /\ final' \in [Refs -> Inodes \cup {NoInode}] /\ tmp' \in [Refs -> Inodes \cup {NoInode}]
      /\ \A s \in Refs : final'[s] \in {final[s], NoInode} /\ tmp'[s] = tmp[s]
  BY <1>1 DEF CacheInv, CacheTyped
<1> QED BY <1>1, <1>2, RemovalKeepsCache

LEMMA NextCache ==
  ASSUME CacheInv, CacheStep
  PROVE  CacheInv' /\ channelVars' = channelVars
<1>1. ASSUME NEW r \in Refs, Register(r) PROVE CacheInv' /\ channelVars' = channelVars
  <2>1. /\ assets' \subseteq Refs /\ mode' = mode /\ channelVars' = channelVars
        /\ UNCHANGED <<tmp, final, blocks, fetch, viewer, pending, broken>>
    BY <1>1 DEF Register, r2Vars, channelVars, CacheInv, CacheTyped
  <2>2. pending' \subseteq Refs
    BY <2>1 DEF CacheInv, CacheTyped
  <2> QED BY <2>1, <2>2, MarksKeepCache
<1>2. ASSUME NEW u \in Uploads, NEW r \in Refs, UploadSegment(u, r)
      PROVE  CacheInv' /\ channelVars' = channelVars
  <2>1. /\ pending' = pending \ {r} /\ channelVars' = channelVars
        /\ UNCHANGED <<assets, tmp, final, blocks, fetch, viewer, broken>>
    BY <1>2 DEF UploadSegment, BeginUpload, r2Vars
  <2>2. mode' = mode /\ pending' \subseteq Refs /\ assets' \subseteq Refs
    BY <2>1 DEF channelVars, CacheInv, CacheTyped
  <2> QED BY <2>1, <2>2, MarksKeepCache
<1>3. ASSUME NEW u \in Uploads, UploadCached(u) PROVE CacheInv' /\ channelVars' = channelVars
  <2>1. UNCHANGED cacheVars /\ channelVars' = channelVars
    BY <1>3 DEF UploadCached, Put, PutFails, MarkReady
  <2> QED BY <2>1, CacheRests DEF channelVars
<1>4. ASSUME NEW f \in Fetchers, FetchStep(f) PROVE CacheInv' /\ channelVars' = channelVars
  <2>1. channelVars' = channelVars
    BY <1>4 DEF FetchStep, UpstreamAnswers, FetchFails, CreateTmp, Copy, CopyFails, Publish,
                Rename, r2Vars
  <2> QED BY <1>4, <2>1, AnswerKeepsCache, FailureKeepsCache, CreateKeepsCache, CopyKeepsCache,
             BreakingKeepsCache, PublishKeepsCache DEF FetchStep
<1>5. ASSUME NEW v \in Viewers,
             \/ \E r \in Refs : AskFresh(v, r) \/ AskStale(v, r)
             \/ Hit(v) \/ StopPolling(v) \/ Join(v) \/ Serve(v)
      PROVE  CacheInv' /\ channelVars' = channelVars
  <2>1. channelVars' = channelVars
    BY <1>5 DEF AskFresh, AskStale, Hit, StopPolling, Join, Serve, OnlyViewers, r2Vars
  <2> QED BY <1>5, <2>1, RequestsKeepCache
<1>6. ASSUME NEW f \in Fetchers,
             (\E r \in Refs : Prefetch(f, r)) \/ (\E v \in Viewers : Lead(v, f))
      PROVE  CacheInv' /\ channelVars' = channelVars
  <2>1. channelVars' = channelVars
    BY <1>6 DEF Prefetch, Lead, r2Vars
  <2> QED BY <1>6, <2>1, FetchesBegin
<1>7. ASSUME NEW r \in Refs, Cleanup(r) PROVE CacheInv' /\ channelVars' = channelVars
  <2>1. channelVars' = channelVars
    BY <1>7 DEF Cleanup, r2Vars
  <2> QED BY <1>7, <2>1, CleanupKeepsCache
<1>8. CASE \E r \in Refs : Register(r) \/ Cleanup(r) \/ \E f \in Fetchers : Prefetch(f, r)
  BY <1>1, <1>6, <1>7, <1>8
<1>9. CASE \E v \in Viewers, r \in Refs : AskFresh(v, r) \/ AskStale(v, r)
  BY <1>5, <1>9
<1>10. CASE \E v \in Viewers : ViewerStep(v)
  BY <1>5, <1>6, <1>10 DEF ViewerStep
<1>11. CASE \E f \in Fetchers : FetchStep(f)
  BY <1>4, <1>11
<1>12. CASE \E u \in Uploads : UploadCached(u) \/ \E r \in Refs : UploadSegment(u, r)
  BY <1>2, <1>3, <1>12
<1> QED BY <1>8, <1>9, <1>10, <1>11, <1>12 DEF CacheStep

-----------------------------------------------------------------------------
(* The transmuxed files: proofs                                              *)

\* Where the window has no gap, the number of segments before n and its first one make n.
LEMMA MinOfNumbers ==
  ASSUME NEW S \in SUBSET Nat, S # {}
  PROVE  First(S) \in S /\ \A k \in S : First(S) <= k
<1>1. \E m \in S : \A k \in S : <<k, m>> \notin OpToRel(<, Nat)
  BY NatLessThanWellFounded, WFMin
<1>2. PICK m \in S : \A k \in S : ~(k < m)
  BY <1>1 DEF OpToRel
<1>3. m \in S /\ \A k \in S : m <= k
  BY <1>2
<1> QED BY <1>3 DEF First

LEMMA SequenceIsFirstKept ==
  ASSUME FilesTypeOK, NoGap, Kept # {}
  PROVE  /\ Playlist.seq = First(Kept) /\ First(Kept) \in Kept
         /\ \A n \in Kept : First(Kept) <= n
<1> DEFINE a == First(listed)
           m == First(Kept)
<1>1. Kept \subseteq listed /\ listed \subseteq Nat /\ listed \subseteq Segments
  BY FilesAssumption DEF Kept, FilesTypeOK, Segments
<1>2. m \in Kept /\ \A n \in Kept : m <= n
  BY <1>1, MinOfNumbers
<1>3. a \in listed /\ \A n \in listed : a <= n
  BY <1>1, MinOfNumbers
<1>0. a \in Nat /\ m \in Nat /\ Playlist.seq = a + DroppedFromHead
  BY <1>1, <1>2, <1>3 DEF Playlist
<1>4. CASE ~sync
  <2>1. Kept = listed /\ DroppedFromHead = 0
    BY <1>4 DEF Kept, DroppedFromHead
  <2>2. m = a /\ a + 0 = a
    BY <1>0, <2>1
  <2> QED BY ONLY <1>0, <1>2, <2>1, <2>2
<1>5. CASE sync
  <2>1. {n \in listed : \A k \in Kept : n < k} = a..(m - 1)
    <3>1. a \in Nat /\ m \in Nat /\ m \in listed
      BY <1>1, <1>2, <1>3
    <3>2. ASSUME NEW n \in listed, \A k \in Kept : n < k PROVE n \in a..(m - 1)
      BY <1>1, <1>2, <1>3, <3>1, <3>2
    <3>3. ASSUME NEW n \in a..(m - 1) PROVE n \in listed /\ \A k \in Kept : n < k
      <4>1. a <= n /\ n <= m /\ n < m /\ n \in Int
        BY <3>1, <3>3
      <4>2. n \in Segments
        BY <1>1, <1>3, <3>1, <4>1, FilesAssumption DEF Segments
      <4>3. n \in listed
        BY <1>3, <3>1, <4>1, <4>2 DEF NoGap
      <4>4. \A k \in Kept : n < k
        BY <1>1, <1>2, <3>1, <4>1
      <4> QED BY <4>3, <4>4
    <3> QED BY <3>2, <3>3
  <2>2. a \in Int /\ m - 1 \in Int /\ m \in Int /\ a <= m
    <3>1. m \in listed /\ a <= m
      BY <1>1, <1>2, <1>3
    <3> QED BY ONLY <1>0, <3>1
  <2>3. DroppedFromHead = m - a
    <3>1. Cardinality(a..(m - 1)) = IF a > m - 1 THEN 0 ELSE (m - 1) - a + 1
      BY <2>2, FS_Interval
    <3>2. DroppedFromHead = Cardinality(a..(m - 1))
      BY <1>5, <2>1 DEF DroppedFromHead
    <3> HIDE DEF a, m
    <3> QED BY ONLY <2>2, <3>1, <3>2
  <2>4. a + (m - a) = m
    BY <2>2
  <2> QED BY ONLY <1>0, <1>2, <2>3, <2>4
<1> QED BY <1>4, <1>5

\* Where none is kept the sequence is beyond the whole window.
LEMMA SequenceIsBeyond ==
  ASSUME FilesTypeOK, NoGap, Kept = {}, NEW n \in listed
  PROVE  Playlist.seq > n /\ Playlist.seq \in Int
<1> DEFINE a == First(listed)
<1>1. listed \subseteq Nat /\ listed \subseteq Segments
  BY FilesAssumption DEF FilesTypeOK, Segments
<1>2. a \in listed /\ \A k \in listed : a <= k
  BY <1>1, MinOfNumbers
<1>3. sync /\ {k \in listed : \A i \in Kept : k < i} = listed
  BY DEF Kept
<1>4. Playlist.seq = a + Cardinality(listed)
  BY <1>3 DEF Playlist, DroppedFromHead
<1>5. a..n \subseteq listed
  <2> SUFFICES ASSUME NEW k \in a..n PROVE k \in listed
    OBVIOUS
  <2>0. a \in Nat /\ n \in Nat
    BY <1>1, <1>2
  <2> HIDE DEF a
  <2>1. a \in Nat /\ n \in Nat /\ a <= k /\ k <= n /\ k \in Nat
    BY <2>0
  <2>2. k \in Segments
    BY <1>1, <1>2, <2>1, FilesAssumption DEF Segments
  <2> QED BY <1>2, <2>1, <2>2 DEF NoGap
<1>6. IsFiniteSet(listed)
  <2>1. IsFiniteSet(Segments)
    BY FilesAssumption, FS_Interval DEF Segments
  <2> QED BY <1>1, <2>1, FS_Subset
<1>7. Cardinality(a..n) <= Cardinality(listed) /\ Cardinality(listed) \in Nat
  BY <1>5, <1>6, FS_Subset, FS_CardinalityType
<1>8. a \in Nat /\ n \in Nat /\ a <= n
  BY <1>1, <1>2
<1>9. Cardinality(a..n) = IF a > n THEN 0 ELSE n - a + 1
  BY <1>8, FS_Interval
<1> HIDE DEF a
<1> QED BY ONLY <1>4, <1>7, <1>8, <1>9

LEMMA InitFiles == FilesInit => FilesInv
<1> SUFFICES ASSUME FilesInit PROVE FilesInv
  OBVIOUS
<1>1. FilesTypeOK
  <2>1. 0 \in 0..MaxSegment /\ 1 \in 1..(MaxSegment + 1)
    BY FilesAssumption
  <2> QED BY <2>1 DEF FilesInit, FilesTypeOK
<1>2. Writes /\ Past /\ NoGap /\ SeenIsPast /\ OnlyTransmux
  BY DEF FilesInit, Writes, Past, NoGap, SeenIsPast, OnlyTransmux, Upcoming
<1> QED BY <1>1, <1>2 DEF FilesInv

\* Files go, and nothing else of the directory changes but its existence.
LEMMA FewerFilesKept ==
  ASSUME FilesInv, channelVars' = channelVars, dir' \in BOOLEAN, disk' \subseteq disk,
         UNCHANGED <<worker, next, writing, settled, cut, stalled, reused, seen>>,
         watcher' \in BOOLEAN, listed' \in {listed, {}}
  PROVE  FilesInv' /\ FilesGoOn
<1> USE DEF FilesInv, channelVars
<1>1. Upcoming' = Upcoming
  BY DEF Upcoming
<1>2. FilesTypeOK'
  BY DEF FilesTypeOK
<1>3. Writes' /\ Past' /\ OnlyTransmux'
  BY <1>1 DEF Writes, Past, OnlyTransmux
<1>4. NoGap' /\ SeenIsPast'
  BY <1>1 DEF NoGap, SeenIsPast
<1>5. FilesGoOn
  BY <1>1 DEF FilesGoOn, Excused, Told, ToldNext
<1> QED BY <1>2, <1>3, <1>4, <1>5

\* What may be unfinished, or has been told of, only grows while the numbers go on.
LEMMA NumbersGoOn ==
  ASSUME FilesTypeOK, FilesTypeOK', Upcoming' >= Upcoming, cut \subseteq cut',
         stalled \subseteq stalled', reused \subseteq reused'
  PROVE  FilesGoOn
<1>1. Upcoming \in Nat /\ Upcoming' \in Nat
  BY FilesAssumption DEF FilesTypeOK, Upcoming
<1>2. \A n \in Uploadable : n < Upcoming => n < Upcoming'
  BY <1>1 DEF Uploadable, Segments
<1> QED BY <1>2 DEF FilesGoOn, Excused, Told, ToldNext

\* The worker comes and goes, and so does its ffmpeg.
LEMMA WorkerKeepsFiles ==
  ASSUME FilesInv, mode = "transmux", WorkerBegins \/ WorkerEnds \/ FfmpegExits
  PROVE  FilesInv' /\ FilesGoOn
<1> USE DEF FilesInv
<1>0. /\ UNCHANGED r2Vars /\ UNCHANGED <<next, settled, stalled, reused, seen>>
      /\ next \in Nat /\ writing \in Nat /\ seen \in Nat /\ Upcoming \in Nat
      /\ listed \subseteq Nat /\ cut \subseteq Nat /\ disk \subseteq Nat
  BY FilesAssumption DEF WorkerBegins, WorkerEnds, FfmpegExits, FilesTypeOK,
     Segments, Upcoming, segmentVars
<1>1. CASE WorkerBegins
  <2>1. /\ worker = "off" /\ worker' = "top" /\ dir' = TRUE /\ watcher' \in BOOLEAN
        /\ UNCHANGED <<next, writing, listed, disk, cut, settled, seen>>
    BY <1>1 DEF WorkerBegins, R2IsOn, segmentVars
  <2>2. writing = 0 /\ Upcoming' = Upcoming
    BY <2>1 DEF Writes, Upcoming
  <2>3. FilesTypeOK'
    BY <1>0, <2>1 DEF FilesTypeOK
  <2>4. Writes' /\ Past' /\ OnlyTransmux'
    BY <1>0, <2>1, <2>2 DEF Writes, Past, OnlyTransmux, r2Vars, channelVars
  <2>5. NoGap' /\ SeenIsPast'
    BY <1>0, <2>1, <2>2 DEF NoGap, SeenIsPast, r2Vars, channelVars
  <2>6. FilesGoOn
    BY <1>0, <2>1, <2>2 DEF FilesGoOn, Excused, Told, ToldNext
  <2> QED BY <2>3, <2>4, <2>5, <2>6
<1>2. CASE WorkerEnds \/ FfmpegExits
  <2>1. /\ worker' \in {"off", "top"} /\ watcher' \in BOOLEAN /\ writing' = 0
        /\ cut' = cut \cup ({writing} \cap Uploadable)
        /\ UNCHANGED <<dir, next, listed, disk, settled, seen>>
    BY <1>2 DEF WorkerEnds, FfmpegExits, FilesTypeOK
  <2>2. Upcoming' = next /\ Upcoming <= next /\ (writing # 0 => writing < next)
    BY <1>0, <2>1 DEF Writes, Upcoming
  <2>3. FilesTypeOK'
    <3>1. cut' \subseteq Segments
      BY <2>1 DEF FilesTypeOK, Uploadable
    <3>2. writing' \in 0..MaxSegment
      BY <2>1, FilesAssumption
    <3> QED BY <1>0, <2>1, <3>1, <3>2 DEF FilesTypeOK
  <2>4. Past'
    <3>1. \A n \in listed' : n < Upcoming'
      BY <1>0, <2>1, <2>2 DEF Past
    <3>2. \A n \in cut' : n < Upcoming' \/ n \in reused'
      <4> SUFFICES ASSUME NEW n \in cut', n \notin reused PROVE n < next
        BY <1>0, <2>2
      <4>1. CASE n \in cut
        <5>1. n < Upcoming /\ n \in Nat
          BY <1>0, <4>1 DEF Past
        <5> QED BY <1>0, <2>2, <5>1
      <4>2. CASE n \notin cut
        <5>1. n = writing /\ writing # 0
          BY <2>1, <4>2 DEF Uploadable, Segments
        <5> QED BY <2>2, <5>1
      <4> QED BY <4>1, <4>2
    <3>3. listed' \cap cut' = {} /\ writing' \notin cut'
      <4>1. writing # 0 => writing \notin listed
        BY <1>0 DEF Past, Upcoming
      <4>2. 0 \notin cut' /\ 0 \notin listed
        BY <2>1 DEF FilesTypeOK, Segments, Uploadable
      <4> QED BY <2>1, <4>1, <4>2 DEF Past
    <3>4. seen' < Upcoming' /\ \A n \in disk' : n < next'
      BY <1>0, <2>1, <2>2 DEF Past
    <3>5. cut' \subseteq Uploadable
      BY <2>1 DEF Past
    <3> QED BY <3>1, <3>2, <3>3, <3>4, <3>5 DEF Past
  <2>5. Writes' /\ OnlyTransmux'
    BY <1>0, <2>1 DEF Writes, OnlyTransmux, r2Vars, channelVars
  <2>6. NoGap' /\ SeenIsPast'
    BY <1>0, <2>1 DEF NoGap, SeenIsPast, r2Vars, channelVars
  <2>7. FilesGoOn
    BY <1>0, <2>1, <2>2, <2>3, NumbersGoOn
  <2> QED BY <2>3, <2>4, <2>5, <2>6, <2>7
<1> QED BY <1>1, <1>2

\* A new ffmpeg: the window is empty, and the numbers that come again are told of.
LEMMA StartKeepsFiles ==
  ASSUME FilesInv, mode = "transmux", FfmpegStarts
  PROVE  FilesInv' /\ FilesGoOn
<1> USE DEF FilesInv
<1>1. PICK start \in Segments :
        /\ next' = start
        /\ settled' = IF settled < start THEN settled ELSE start - 1
        /\ reused' = reused \cup {n \in Uploadable : start <= n /\ n < next}
        /\ seen' = IF start < next THEN 0 ELSE seen
  BY DEF FfmpegStarts
<1>2. /\ worker = "top" /\ worker' = "on" /\ listed' = {} /\ disk' = {}
      /\ UNCHANGED <<dir, watcher, writing, cut, stalled>> /\ UNCHANGED r2Vars
  BY DEF FfmpegStarts
<1>3. writing = 0 /\ Upcoming = next /\ Upcoming' = start
  BY <1>1, <1>2 DEF Writes, Upcoming
<1>4. /\ next \in Nat /\ seen \in Nat /\ settled \in Nat /\ MaxSegment \in Nat
      /\ start \in Nat /\ 1 <= start /\ start <= MaxSegment /\ cut \subseteq Segments
      /\ settled <= MaxSegment /\ seen <= MaxSegment
  BY FilesAssumption DEF FilesTypeOK, Segments
<1>5. FilesTypeOK'
  <2>1. next' \in 1..(MaxSegment + 1)
    BY <1>1, <1>4
  <2>2. settled' \in 0..MaxSegment
    BY <1>1, <1>4
  <2>3. seen' \in 0..MaxSegment
    BY <1>1, <1>4
  <2>4. reused' \in SUBSET Segments
    BY <1>1 DEF FilesTypeOK, Uploadable
  <2> QED BY <1>2, <2>1, <2>2, <2>3, <2>4 DEF FilesTypeOK
<1>6. \A n \in Uploadable : n < Upcoming => n < Upcoming' \/ n \in reused'
  <2> SUFFICES ASSUME NEW n \in Uploadable, n < next PROVE n < start \/ n \in reused'
    BY <1>3
  <2>1. n \in Nat
    BY DEF Uploadable, Segments
  <2> QED BY <1>1, <1>4, <2>1
<1>7. seen' < start
  BY <1>1, <1>3, <1>4 DEF Past
<1>8. \A n \in cut : n < start \/ n \in reused'
  <2> SUFFICES ASSUME NEW n \in cut PROVE n < start \/ n \in reused'
    OBVIOUS
  <2>1. n \in Uploadable
    BY DEF Past
  <2>2. n < Upcoming \/ n \in reused
    BY DEF Past
  <2> QED BY <1>1, <1>3, <1>6, <2>1, <2>2
<1>9. Past'
  <2>1. writing' \notin cut'
    BY <1>2, <1>3, <1>4 DEF Segments
  <2> QED BY <1>1, <1>2, <1>3, <1>7, <1>8, <2>1 DEF Past
<1>10. Writes' /\ OnlyTransmux' /\ NoGap' /\ SeenIsPast'
  BY <1>2, <1>3 DEF Writes, OnlyTransmux, NoGap, SeenIsPast
<1>11. FilesGoOn
  <2>1. reused \subseteq reused'
    BY <1>1
  <2> QED BY <1>2, <1>6, <2>1 DEF FilesGoOn, Excused, Told, ToldNext
<1> QED BY <1>5, <1>9, <1>10, <1>11

LEMMA OpenKeepsFiles ==
  ASSUME FilesInv, mode = "transmux", OpensSegment
  PROVE  FilesInv' /\ FilesGoOn
<1> USE DEF FilesInv
<1>0. /\ next \in Nat /\ writing \in Nat /\ seen \in Nat /\ Upcoming \in Nat
      /\ listed \subseteq Nat /\ cut \subseteq Nat /\ disk \subseteq Nat
  BY FilesAssumption DEF FilesTypeOK, Segments, Upcoming
<1>1. /\ worker = "on" /\ writing = 0 /\ next \in Segments
      /\ writing' = next /\ next' = next + 1 /\ disk' = disk \cup {next}
      /\ cut' = cut \ {next}
      /\ UNCHANGED r2Vars
      /\ UNCHANGED <<dir, worker, watcher, listed, settled, stalled, reused, seen>>
  BY DEF OpensSegment
<1>2. Upcoming' = next /\ Upcoming = next /\ next # 0
  BY <1>1, FilesAssumption DEF Upcoming, Segments
<1>3. FilesTypeOK'
  <2>1. next' \in 1..(MaxSegment + 1) /\ writing' \in 0..MaxSegment
    BY <1>1, FilesAssumption DEF Segments
  <2>2. disk' \subseteq Segments /\ cut' \subseteq Segments
    BY <1>1 DEF FilesTypeOK
  <2> QED BY <1>1, <2>1, <2>2 DEF FilesTypeOK
<1>4. Writes' /\ OnlyTransmux'
  BY <1>1, <1>2 DEF Writes, OnlyTransmux, r2Vars, channelVars
<1>5. Past'
  <2>1. \A n \in disk' : n < next'
    BY <1>0, <1>1 DEF Past
  <2>2. \A n \in cut' : n < Upcoming' \/ n \in reused'
    BY <1>1, <1>2 DEF Past
  <2> QED BY <1>1, <1>2, <2>1, <2>2 DEF Past
<1>6. NoGap'
  BY <1>1, <1>2 DEF NoGap
<1>7. SeenIsPast'
  <2>1. ASSUME NEW n \in listed, sync => n \in disk \cup {next} PROVE seen <= n
    <3>1. n < next
      BY <1>2 DEF Past
    <3> QED BY <1>0, <2>1, <3>1 DEF SeenIsPast
  <2> QED BY <1>1, <2>1 DEF SeenIsPast, r2Vars, channelVars
<1>8. FilesGoOn
  <2>1. cut \ cut' \subseteq reused
    BY <1>0, <1>1, <1>2 DEF Past
  <2>2. Excused \subseteq Excused'
    BY <1>1, <2>1 DEF Excused
  <2>3. \A n \in Uploadable : Told(n) => ToldNext(n)
    BY <1>1, <1>2 DEF Told, ToldNext
  <2> QED BY <2>2, <2>3 DEF FilesGoOn
<1> QED BY <1>3, <1>4, <1>5, <1>6, <1>7, <1>8

\* The source is silent: one more exception.
LEMMA StallKeepsFiles ==
  ASSUME FilesInv, SourceStalls
  PROVE  FilesInv' /\ FilesGoOn
<1> USE DEF FilesInv
<1>1. /\ stalled' = stalled \cup {writing} /\ writing \in Segments /\ UNCHANGED r2Vars
      /\ UNCHANGED <<dir, worker, watcher, next, writing, listed, disk, settled, cut, reused, seen>>
  BY DEF SourceStalls, Uploadable
<1>2. Upcoming' = Upcoming
  BY <1>1 DEF Upcoming
<1>3. FilesTypeOK'
  BY <1>1 DEF FilesTypeOK
<1>4. Writes' /\ OnlyTransmux' /\ Past' /\ NoGap' /\ SeenIsPast'
  BY <1>1, <1>2 DEF Writes, OnlyTransmux, Past, NoGap, SeenIsPast, r2Vars,
     channelVars
<1>5. FilesGoOn
  BY <1>1, <1>2 DEF FilesGoOn, Excused, Told, ToldNext
<1> QED BY <1>3, <1>4, <1>5

LEMMA ListKeepsFiles ==
  ASSUME FilesInv, mode = "transmux", ListsSegment
  PROVE  FilesInv' /\ FilesGoOn
<1> USE DEF FilesInv
<1>0. /\ next \in Nat /\ writing \in Nat /\ seen \in Nat
      /\ listed \subseteq Nat /\ cut \subseteq Nat /\ disk \subseteq Nat
      /\ ListSize \in Nat /\ ListSize > 0
  BY FilesAssumption DEF FilesTypeOK, Segments
<1>1. /\ worker = "on" /\ writing # 0 /\ writing' = 0
      /\ listed' = {n \in listed \cup {writing} : n > writing - ListSize}
      /\ disk' = {n \in disk : n > writing - ListSize - Threshold}
      /\ UNCHANGED r2Vars
      /\ UNCHANGED <<dir, worker, watcher, next, settled, cut, stalled, reused, seen>>
  BY DEF ListsSegment, segmentVars
<1>2. Upcoming = writing /\ Upcoming' = writing + 1 /\ next = writing + 1
  BY <1>0, <1>1 DEF Upcoming, Writes
<1>3. writing \in Segments /\ writing \in listed'
  <2>1. writing \in Segments
    BY <1>0, <1>1 DEF FilesTypeOK, Segments
  <2>2. writing > writing - ListSize
    BY <1>0
  <2> QED BY <1>1, <2>1, <2>2
<1>4. FilesTypeOK'
  <2>1. listed' \subseteq Segments /\ disk' \subseteq Segments
    BY <1>1, <1>3 DEF FilesTypeOK
  <2>2. writing' \in 0..MaxSegment
    BY <1>1, FilesAssumption
  <2> QED BY <1>1, <2>1, <2>2 DEF FilesTypeOK
<1>5. Writes' /\ OnlyTransmux'
  BY <1>1 DEF Writes, OnlyTransmux, r2Vars, channelVars
<1>6. \A n \in listed : n < writing
  BY <1>2 DEF Past
<1>7. Past'
  <2>1. \A n \in listed' : n < Upcoming'
    <3> SUFFICES ASSUME NEW n \in listed \cup {writing} PROVE n < writing + 1
      BY <1>1, <1>2
    <3>1. n \in Nat /\ (n < writing \/ n = writing)
      BY <1>0, <1>2 DEF Past
    <3> QED BY ONLY <1>0, <3>1
  <2>2. \A n \in cut' : n < Upcoming' \/ n \in reused'
    <3> SUFFICES ASSUME NEW n \in cut, n \notin reused PROVE n < writing + 1
      BY <1>1, <1>2
    <3>1. n \in Nat /\ n < writing
      BY <1>0, <1>2 DEF Past
    <3> QED BY ONLY <1>0, <3>1
  <2>3. listed' \cap cut' = {}
    BY <1>1 DEF Past
  <2>4. writing' \notin cut'
    BY <1>1 DEF FilesTypeOK, Segments
  <2>5. seen' < Upcoming'
    BY <1>0, <1>1, <1>2 DEF Past
  <2>6. \A n \in disk' : n < next'
    BY <1>1 DEF Past
  <2>7. cut' \subseteq Uploadable
    BY <1>1 DEF Past
  <2> QED BY <2>1, <2>2, <2>3, <2>4, <2>5, <2>6, <2>7 DEF Past
<1>8. NoGap'
  <2>1. Upcoming' - 1 \in listed'
    BY <1>0, <1>2, <1>3
  <2>2. ASSUME NEW m \in listed', NEW n \in listed', NEW k \in Segments, m <= k, k <= n
        PROVE  k \in listed'
    <3>1. /\ m \in listed \cup {writing} /\ m > writing - ListSize /\ m \in Nat
          /\ n \in listed \cup {writing} /\ n <= writing /\ n \in Nat /\ k \in Nat
      BY <1>0, <1>1, <1>6 DEF Segments
    <3>2. k > writing - ListSize
      BY ONLY <1>0, <2>2, <3>1
    <3>3. CASE k = writing
      BY <1>3, <3>3
    <3>4. CASE k # writing
      <4>1. m < writing /\ k <= writing - 1 /\ k < writing
        BY ONLY <1>0, <2>2, <3>1, <3>4
      <4>2. m \in listed
        BY <1>0, <3>1, <4>1
      <4>3. writing - 1 \in listed
        BY <1>1, <1>2, <4>2 DEF NoGap
      <4>4. k \in listed
        BY <2>2, <4>1, <4>2, <4>3 DEF NoGap
      <4> QED BY <1>1, <3>2, <4>4
    <3> QED BY <3>3, <3>4
  <2> QED BY <2>1, <2>2 DEF NoGap
<1>9. SeenIsPast'
  <2>1. seen < writing
    BY <1>2 DEF Past
  <2>2. ASSUME NEW n \in listed \cup {writing}, sync => n \in disk PROVE seen <= n
    BY <1>0, <2>1, <2>2 DEF SeenIsPast
  <2>3. \E n \in listed' : seen <= n
    BY <1>0, <1>3, <2>1
  <2> QED BY <1>1, <2>2, <2>3 DEF SeenIsPast, r2Vars, channelVars
<1>10. FilesGoOn
  <2>1. Upcoming' >= Upcoming
    BY <1>0, <1>2
  <2> QED BY <1>1, <1>4, <2>1, NumbersGoOn
<1> QED BY <1>4, <1>5, <1>7, <1>8, <1>9, <1>10

\* A playlist's media sequence is beyond the last one's, and all that may come is beyond it.
LEMMA PlaylistKeepsFiles ==
  ASSUME FilesInv, mode = "transmux", ServePlaylist
  PROVE  FilesInv' /\ FilesGoOn
<1> USE DEF FilesInv
<1>0. /\ seen \in Nat /\ listed \subseteq Nat /\ settled \in Nat
      /\ Kept \subseteq listed /\ (sync => Kept \subseteq disk)
  BY FilesAssumption DEF FilesTypeOK, Segments, Kept
<1>1. /\ UNCHANGED r2Vars
      /\ UNCHANGED <<dir, worker, watcher, next, writing, listed, disk, settled>>
      /\ UNCHANGED <<cut, stalled, reused>>
      /\ seen' = IF Kept = {} THEN seen ELSE Playlist.seq
  BY DEF ServePlaylist, segmentVars
<1>2. Upcoming' = Upcoming
  BY <1>1 DEF Upcoming
<1>3. /\ seen' \in 0..MaxSegment /\ seen' < Upcoming
      /\ \A n \in listed : (sync => n \in disk) => seen' <= n
      /\ listed # {} => \E n \in listed : seen' <= n
  <2>1. CASE Kept = {}
    BY <1>0, <1>1, <2>1 DEF FilesTypeOK, Past, SeenIsPast
  <2>2. CASE Kept # {}
    <3> DEFINE m == First(Kept)
    <3>1. seen' = m /\ m \in Kept /\ \A n \in Kept : m <= n
      BY <1>1, <2>2, SequenceIsFirstKept
    <3> HIDE DEF m
    <3>2. m \in Nat /\ m \in listed /\ (sync => m \in disk)
      BY <1>0, <3>1
    <3>3. m \in 0..MaxSegment
      <4>1. m \in Segments
        BY <3>2 DEF FilesTypeOK
      <4> QED BY <4>1, FilesAssumption DEF Segments
    <3>4. m < Upcoming
      BY <3>2 DEF Past
    <3>5. ASSUME NEW n \in listed, sync => n \in disk PROVE m <= n
      <4>1. CASE n \in Kept
        BY <3>1, <4>1
      <4>2. CASE n \notin Kept
        <5>1. sync /\ n \in disk /\ ~(n <= settled) /\ m <= settled
          BY <3>1, <3>5, <4>2 DEF Kept
        <5> QED BY <1>0, <3>2, <5>1
      <4> QED BY <4>1, <4>2
    <3>6. \E n \in listed : m <= n
      BY <3>1, <3>2
    <3> QED BY <3>1, <3>3, <3>4, <3>5, <3>6
  <2> QED BY <2>1, <2>2
<1>4. FilesTypeOK'
  BY <1>1, <1>3 DEF FilesTypeOK
<1>5. Writes' /\ OnlyTransmux' /\ NoGap'
  BY <1>1, <1>2 DEF Writes, OnlyTransmux, NoGap, r2Vars, channelVars
<1>6. Past' /\ SeenIsPast'
  BY <1>1, <1>2, <1>3 DEF Past, SeenIsPast, r2Vars, channelVars
<1>7. FilesGoOn
  BY <1>1, <1>2 DEF FilesGoOn, Excused, Told, ToldNext
<1> QED BY <1>4, <1>5, <1>6, <1>7

LEMMA SettleKeepsFiles ==
  ASSUME FilesInv, Settles
  PROVE  FilesInv' /\ FilesGoOn
<1> USE DEF FilesInv
<1>1. /\ settled + 1 < next /\ settled' = settled + 1 /\ UNCHANGED r2Vars
      /\ UNCHANGED <<dir, worker, watcher, next, writing, listed, disk>>
      /\ UNCHANGED <<cut, stalled, reused, seen>>
  BY DEF Settles, segmentVars
<1>2. settled' \in 0..MaxSegment
  BY <1>1, FilesAssumption DEF FilesTypeOK
<1>3. FilesTypeOK'
  BY <1>1, <1>2 DEF FilesTypeOK
<1>4. Upcoming' = Upcoming
  BY <1>1 DEF Upcoming
<1>5. FilesGoOn
  BY <1>1, <1>4 DEF FilesGoOn, Excused, Told, ToldNext
<1> QED BY <1>1, <1>3, <1>4, <1>5 DEF Writes, OnlyTransmux, Past, NoGap, SeenIsPast, r2Vars, channelVars

\* One step of the transmuxed files; what the uploads do to the bucket is FilesStepKeeps's.
LEMMA NextFiles ==
  ASSUME FilesInv, mode = "transmux", FilesStep
  PROVE  FilesInv' /\ channelVars' = channelVars /\ FilesGoOn
<1>1. CASE WorkerBegins \/ WorkerEnds \/ FfmpegExits
  <2>1. channelVars' = channelVars
    BY <1>1 DEF WorkerBegins, WorkerEnds, FfmpegExits, r2Vars
  <2> QED BY <1>1, <2>1, WorkerKeepsFiles
<1>2. CASE OpensSegment
  BY <1>2, OpenKeepsFiles DEF OpensSegment, r2Vars
<1>3. CASE ListsSegment
  BY <1>3, ListKeepsFiles DEF ListsSegment, r2Vars
<1>4. CASE ServePlaylist
  BY <1>4, PlaylistKeepsFiles DEF ServePlaylist, r2Vars
<1>5. CASE Settles
  BY <1>5, SettleKeepsFiles DEF Settles, r2Vars
<1>11. CASE SourceStalls
  BY <1>11, StallKeepsFiles DEF SourceStalls, r2Vars
<1>12. CASE FfmpegStarts
  BY <1>12, StartKeepsFiles DEF FfmpegStarts, r2Vars
<1>6. ASSUME UNCHANGED <<dir, worker, watcher, next, writing, listed, settled>>,
             UNCHANGED <<cut, stalled, reused, seen>>,
             disk' \subseteq disk, channelVars' = channelVars
      PROVE  FilesInv' /\ channelVars' = channelVars /\ FilesGoOn
  <2>1. dir' \in BOOLEAN /\ watcher' \in BOOLEAN
    BY <1>6 DEF FilesInv, FilesTypeOK
  <2> QED BY <1>6, <2>1, FewerFilesKept
<1>7. ASSUME NEW u \in Uploads, UploadingFile(u)
      PROVE  /\ UNCHANGED <<dir, worker, watcher, next, writing, listed, settled>>
             /\ UNCHANGED <<cut, stalled, reused, seen>>
             /\ disk' \subseteq disk /\ channelVars' = channelVars
  BY <1>7 DEF UploadingFile, Put, PutFails, MarkReady, segmentVars
<1>8. ASSUME NEW u \in Uploads, NEW n \in Segments, UploadFile(u, n)
      PROVE  /\ UNCHANGED <<dir, worker, watcher, next, writing, listed, settled>>
             /\ UNCHANGED <<cut, stalled, reused, seen>>
             /\ disk' \subseteq disk /\ channelVars' = channelVars
  BY <1>8 DEF UploadFile, BeginUpload, fileVars, segmentVars
<1>9. CASE Retention
  <2>1. fileVars' = fileVars
    BY <1>9 DEF Retention
  <2>2. channelVars' = channelVars
    BY <1>9 DEF Retention, RetentionLists, RetentionDeletes, RetentionForgets
  <2> QED BY <1>6, <2>1, <2>2 DEF fileVars, segmentVars
<1>10. CASE \E u \in Uploads : UploadingFile(u) \/ \E n \in Segments : UploadFile(u, n)
  BY <1>6, <1>7, <1>8, <1>10
<1> QED BY <1>1, <1>2, <1>3, <1>4, <1>5, <1>9, <1>10, <1>11, <1>12 DEF FilesStep

-----------------------------------------------------------------------------
(* The nil client: proofs                                                    *)

\* Who calls, and then r2 may have become nil under him, but only by a swap.
LEMMA NilKept ==
  ASSUME NilInv, ~panicked, r2' = r2, cleared' = cleared,
         Calling' => Calling \/ r2, panicked' => Calling /\ ~r2
  PROVE  NilInv'
  BY DEF NilInv, CallersAsked, NilIsNotCalled

\* CallR2, or no call.
LEMMA OnlyNilPanics ==
  ASSUME r2 \in BOOLEAN, ~panicked, panicked' = ~r2 \/ panicked' = panicked
  PROVE  panicked' => ~r2
<1>1. CASE r2 = TRUE
  BY <1>1
<1>2. CASE r2 = FALSE
  BY <1>2
<1> QED BY <1>1, <1>2

LEMMA NilKeptByR2 ==
  ASSUME R2Inv, NilInv, ~panicked, UNCHANGED <<pending, watcher>>,
         \/ \E client \in Clients : SetR2Client(client)
         \/ DeleteFolder
         \/ \E u \in Uploads :
              PutFails(u) \/ MarkReady(u) \/ \E body \in {"torn", "whole"} : Put(u, body)
         \/ /\ \/ watcher /\ \E old \in Stored \cup {NoKey} : RetentionLists(old)
               \/ \E ok \in BOOLEAN : RetentionDeletes(ok)
               \/ RetentionForgets
  PROVE  NilInv'
<1>0. r2 \in BOOLEAN
  BY DEF R2Inv, R2Typed
<1>1. ASSUME NEW client \in Clients, SetR2Client(client) PROVE NilInv'
  <2>1. /\ r2' = client /\ cleared' = (cleared \/ (r2 /\ ~client)) /\ panicked' = panicked
        /\ UNCHANGED <<up, folder, retire>>
    BY <1>1 DEF SetR2Client
  <2>2. Calling' => Calling
    BY <2>1 DEF Calling
  <2>3. r2 \/ cleared => r2' \/ cleared'
    <3>1. client \in BOOLEAN /\ r2 \in BOOLEAN /\ cleared \in BOOLEAN
      BY R2Assumption DEF R2Inv, R2Typed
    <3>2. CASE client = TRUE
      BY <2>1, <3>2
    <3>3. CASE client = FALSE
      <4>1. cleared' = (cleared \/ r2)
        BY <2>1, <3>3
      <4> QED BY <4>1
    <3> QED BY <3>1, <3>2, <3>3
  <2> QED BY <2>1, <2>2, <2>3 DEF NilInv, CallersAsked, NilIsNotCalled
<1>2. CASE DeleteFolder
  <2>1. /\ folder /\ ~folder' /\ UNCHANGED <<r2, up, retire, cleared>>
        /\ (panicked' = ~r2 \/ panicked' = panicked)
    BY <1>2 DEF DeleteFolder, CallR2
  <2>2. Calling /\ (Calling' => Calling)
    BY <2>1 DEF Calling
  <2>3. panicked' => ~r2
    BY <1>0, <2>1, OnlyNilPanics
  <2> QED BY <2>1, <2>2, <2>3, NilKept
<1>3. ASSUME NEW u \in Uploads,
             PutFails(u) \/ MarkReady(u) \/ \E body \in {"torn", "whole"} : Put(u, body)
      PROVE  NilInv'
  <2>1. /\ up[u].at # "idle" /\ UNCHANGED <<r2, folder, retire, cleared>>
        /\ (panicked' = ~r2 \/ panicked' = panicked)
    BY <1>3 DEF PutFails, MarkReady, Put, CallR2
  <2>2. Calling
    BY <2>1 DEF Calling
  <2>3. panicked' => ~r2
    BY <1>0, <2>1, OnlyNilPanics
  <2> QED BY <2>1, <2>2, <2>3, NilKept
<1>4. ASSUME NEW old \in Stored \cup {NoKey}, watcher, RetentionLists(old) PROVE NilInv'
  <2>1. UNCHANGED <<r2, up, folder, cleared>> /\ panicked' = ~r2
    BY <1>4 DEF RetentionLists, CallR2
  <2>2. Calling
    BY <1>4 DEF Calling
  <2>3. panicked' => ~r2
    BY <1>0, <2>1, OnlyNilPanics
  <2> QED BY <2>1, <2>2, <2>3, NilKept
<1>5. CASE (\E ok \in BOOLEAN : RetentionDeletes(ok)) \/ RetentionForgets
  <2>1. /\ UNCHANGED <<r2, up, folder, cleared>> /\ retire.at # "idle"
        /\ (panicked' = ~r2 \/ panicked' = panicked)
    BY <1>5 DEF RetentionDeletes, RetentionForgets, CallR2
  <2>2. Calling
    BY <2>1 DEF Calling
  <2>3. panicked' => ~r2
    BY <1>0, <2>1, OnlyNilPanics
  <2> QED BY <2>1, <2>2, <2>3, NilKept
<1> QED BY <1>1, <1>2, <1>3, <1>4, <1>5

\* A step that is nobody's call, and starts one only with a client at hand.
LEMMA NilKeptByOthers ==
  ASSUME NilInv, ~panicked, UNCHANGED <<r2, cleared, panicked, retire>>,
         \A u \in Uploads : up'[u].at # "idle" => up[u].at # "idle" \/ Calling,
         pending' # {} => pending # {} \/ r2, watcher' => watcher \/ r2,
         folder' => folder \/ r2
  PROVE  NilInv'
<1>1. Calling' => Calling \/ r2
  BY DEF Calling
<1> QED BY <1>1, NilKept

-----------------------------------------------------------------------------
(* The parts together: proofs                                                *)

\* An upload that goes on with its key and its file.
LEMMA FitsStillOne ==
  ASSUME UploadsFit, mode' = mode, FilesGoOn, NEW w \in Uploads, up[w].at # "idle",
         up'[w].key = up[w].key, up'[w].file = up[w].file
  PROVE  IF mode' = "transmux"
         THEN up'[w].file = up'[w].key /\ up'[w].key \in Uploadable /\ ToldNext(up'[w].key)
         ELSE up'[w].key \in Refs /\ up'[w].file \in Inodes
<1>1. PICK k : k = up[w].key
  OBVIOUS
<1>2. k \in Uploadable /\ Told(k) => ToldNext(k)
  BY DEF FilesGoOn
<1>3. IF mode = "transmux"
      THEN up[w].file = k /\ k \in Uploadable /\ Told(k)
      ELSE k \in Refs /\ up[w].file \in Inodes
  BY <1>1 DEF UploadsFit
<1> QED BY <1>1, <1>2, <1>3 DEF Told, ToldNext

\* What uploads there are still fit.
LEMMA FitsStill ==
  ASSUME UploadsFit, mode' = mode, FilesGoOn,
         \A w \in Uploads : up'[w].at # "idle" =>
           up[w].at # "idle" /\ up'[w].key = up[w].key /\ up'[w].file = up[w].file
  PROVE  UploadsFit'
<1> SUFFICES ASSUME NEW w \in Uploads, up'[w].at # "idle"
             PROVE  IF mode' = "transmux"
                    THEN /\ up'[w].file = up'[w].key /\ up'[w].key \in Uploadable
                         /\ ToldNext(up'[w].key)
                    ELSE up'[w].key \in Refs /\ up'[w].file \in Inodes
  BY DEF UploadsFit, Told, ToldNext
<1> QED BY FitsStillOne

\* No upload begins, and no object is stored unfinished.
LEMMA TieKept ==
  ASSUME TieInv, mode' = mode, FilesGoOn,
         \A w \in Uploads : up'[w].at # "idle" =>
           up[w].at # "idle" /\ up'[w].key = up[w].key /\ up'[w].file = up[w].file,
         \A n \in Uploadable : objects'[n] = "torn" => objects[n] = "torn"
  PROVE  TieInv'
<1>1. UploadsFit'
  BY FitsStill DEF TieInv
<1>2. TornIsCut'
  BY DEF TieInv, TornIsCut, FilesGoOn
<1> QED BY <1>1, <1>2 DEF TieInv

\* Nothing happens to the bucket.
LEMMA TieRests ==
  ASSUME TieInv, R2Inv, UNCHANGED r2Vars, FilesGoOn
  PROVE  TieInv'
<1>1. up' = up /\ objects' = objects /\ mode' = mode
  BY R2Rests DEF r2Vars, channelVars
<1> QED BY <1>1, TieKept

LEMMA FilesRestTie ==
  ASSUME FilesInv, fileVars' = fileVars, mode' = mode, sync' = sync
  PROVE  FilesInv' /\ FilesGoOn
<1>1. dir' \in BOOLEAN /\ watcher' \in BOOLEAN
  BY DEF FilesInv, FilesTypeOK, fileVars
<1> QED BY <1>1, FewerFilesKept DEF fileVars, segmentVars, channelVars

\* What a step of the cache has to do with R2.
LEMMA CacheStepKinds ==
  ASSUME CacheInv, CacheStep
  PROVE  \/ UNCHANGED r2Vars /\ (pending' # {} => pending # {} \/ r2)
         \/ \E u \in Uploads : UploadCached(u)
         \/ \E u \in Uploads, r \in Refs :
              /\ r \in pending /\ pending' = pending \ {r}
              /\ final[r] \in Inodes /\ BeginUpload(u, r, final[r])
<1>1. ASSUME NEW r \in Refs, NEW f \in Fetchers, Register(r) \/ Cleanup(r) \/ Prefetch(f, r)
      PROVE  UNCHANGED <<r2Vars, pending>>
  BY <1>1 DEF Register, Cleanup, Prefetch
<1>2. ASSUME NEW r \in Refs, Register(r) \/ Cleanup(r) PROVE UNCHANGED <<r2Vars, pending>>
  BY <1>2 DEF Register, Cleanup
<1>3. ASSUME NEW v \in Viewers, NEW r \in Refs, AskFresh(v, r) \/ AskStale(v, r)
      PROVE  UNCHANGED <<r2Vars, pending>>
  BY <1>3 DEF AskFresh, AskStale, OnlyViewers
<1>4. ASSUME NEW v \in Viewers, ViewerStep(v) PROVE UNCHANGED <<r2Vars, pending>>
  BY <1>4 DEF ViewerStep, Hit, StopPolling, Join, Serve, Lead, OnlyViewers
<1>5. ASSUME NEW f \in Fetchers, FetchStep(f), ~Publish(f) PROVE UNCHANGED <<r2Vars, pending>>
  BY <1>5 DEF FetchStep, UpstreamAnswers, FetchFails, CreateTmp, Copy, CopyFails
<1>6. ASSUME NEW f \in Fetchers, Publish(f)
      PROVE  UNCHANGED r2Vars /\ (pending' # {} => pending # {} \/ r2)
  BY <1>6 DEF Publish, Rename, R2IsOn
<1>7. ASSUME NEW u \in Uploads, NEW r \in Refs, UploadSegment(u, r)
      PROVE  \/ UNCHANGED r2Vars /\ (pending' # {} => pending # {} \/ r2)
             \/ /\ r \in pending /\ pending' = pending \ {r}
                /\ final[r] \in Inodes /\ BeginUpload(u, r, final[r])
  <2>1. final[r] \in Inodes \cup {NoInode}
    BY DEF CacheInv, CacheTyped
  <2> QED BY <1>7, <2>1 DEF UploadSegment, Cached
<1> QED BY <1>1, <1>2, <1>3, <1>4, <1>5, <1>6, <1>7 DEF CacheStep

\* What an upload of either kind does: put, or end.
LEMMA UploadKeepsAll ==
  ASSUME R2Inv, NilInv, ~panicked, UNCHANGED <<pending, watcher>>, NEW u \in Uploads,
         NEW body \in {"torn", "whole"}, Put(u, body) \/ PutFails(u) \/ MarkReady(u)
  PROVE  /\ R2Inv' /\ NilInv' /\ channelVars' = channelVars
         /\ up[u].at # "idle"
         /\ \A w \in Uploads : up'[w].at # "idle" =>
              up[w].at # "idle" /\ up'[w].key = up[w].key /\ up'[w].file = up[w].file
         /\ objects' = objects \/ objects' = [objects EXCEPT ![up[u].key] = body]
<1>1. NilInv'
  BY NilKeptByR2
<1>2. up[u].at # "idle" /\ channelVars' = channelVars
  BY DEF Put, PutFails, MarkReady
<1>3. CASE Put(u, body)
  <2>1. objects' = [objects EXCEPT ![up[u].key] = body]
    BY <1>3 DEF Put
  <2>2. /\ R2Inv' /\ up'[u].key = up[u].key /\ up'[u].file = up[u].file
        /\ \A w \in Uploads \ {u} : up'[w] = up[w]
    BY <1>3, PutKeepsR2
  <2> QED BY <1>1, <1>2, <2>1, <2>2
<1>4. CASE PutFails(u) \/ MarkReady(u)
  <2>1. /\ R2Inv' /\ objects' = objects
        /\ up'[u].at = "idle" /\ \A w \in Uploads \ {u} : up'[w] = up[w]
    BY <1>4, UploadEndsKeepsR2
  <2> QED BY <1>1, <1>2, <2>1
<1> QED BY <1>3, <1>4

\* A step of an ingest or proxy channel.
LEMMA CacheStepKeeps ==
  ASSUME DeliveryInv, ~panicked, mode # "transmux", CacheStep, UNCHANGED fileVars
  PROVE  R2Inv' /\ NilInv' /\ CacheInv' /\ FilesInv' /\ TieInv'
<1>0. R2Inv /\ NilInv /\ CacheInv /\ FilesInv /\ TieInv
  BY DEF DeliveryInv
<1>1. CacheInv' /\ mode' = mode /\ sync' = sync
  BY <1>0, NextCache DEF channelVars
<1>2. FilesInv' /\ FilesGoOn /\ watcher' = watcher
  BY <1>0, <1>1, FilesRestTie DEF fileVars
<1>3. Refs \subseteq Keys /\ Refs \cap Segments = {}
  BY DeliveryAssumption
<1>4. CASE UNCHANGED r2Vars /\ (pending' # {} => pending # {} \/ r2)
  <2>1. R2Inv' /\ up' = up
    BY <1>0, <1>4, R2Rests
  <2>2. TieInv'
    BY <1>0, <1>2, <1>4, TieRests
  <2>3. UNCHANGED <<r2, cleared, panicked, retire, folder>>
    BY <1>4 DEF r2Vars
  <2>4. NilInv'
    BY <1>0, <1>2, <1>4, <2>1, <2>3, NilKeptByOthers
  <2> QED BY <1>1, <1>2, <2>1, <2>2, <2>4
<1>5. ASSUME NEW u \in Uploads, UploadCached(u) PROVE R2Inv' /\ NilInv' /\ TieInv'
  <2> DEFINE body == Body(up[u].file)
  <2>1. body \in {"torn", "whole"} /\ pending' = pending
    BY <1>5 DEF UploadCached, Body, cacheVars
  <2>2. Put(u, body) \/ PutFails(u) \/ MarkReady(u)
    BY <1>5 DEF UploadCached
  <2> HIDE DEF body
  <2>3. /\ R2Inv' /\ NilInv' /\ up[u].at # "idle"
        /\ \A w \in Uploads : up'[w].at # "idle" =>
             up[w].at # "idle" /\ up'[w].key = up[w].key /\ up'[w].file = up[w].file
        /\ objects' = objects \/ objects' = [objects EXCEPT ![up[u].key] = body]
    BY <1>0, <1>2, <2>1, <2>2, UploadKeepsAll
  <2>4. up[u].key \in Refs
    BY <1>0, <2>3 DEF TieInv, UploadsFit
  <2>5. \A n \in Uploadable : objects'[n] = objects[n]
    <3>1. objects \in [Keys -> Bodies]
      BY <1>0 DEF R2Inv, R2Typed
    <3> QED BY <1>3, <2>3, <2>4, <3>1 DEF Uploadable
  <2>6. TieInv'
    BY <1>0, <1>1, <1>2, <2>3, <2>5, TieKept
  <2> QED BY <2>3, <2>6
<1>6. ASSUME NEW u \in Uploads, NEW r \in Refs, r \in pending, pending' = pending \ {r},
             final[r] \in Inodes, BeginUpload(u, r, final[r])
      PROVE  R2Inv' /\ NilInv' /\ TieInv'
  <2>1. /\ R2Inv' /\ up'[u].key = r /\ up'[u].file = final[r]
        /\ \A w \in Uploads \ {u} : up'[w] = up[w]
    BY <1>0, <1>3, <1>6, BeginKeepsR2
  <2>2. UNCHANGED <<r2, cleared, panicked, retire, folder, objects>>
    BY <1>6 DEF BeginUpload
  <2>3. Calling
    BY <1>6 DEF Calling
  <2>4. NilInv'
    BY <1>0, <1>2, <1>6, <2>2, <2>3, NilKeptByOthers
  <2>5. UploadsFit'
    BY <1>0, <1>1, <1>6, <2>1 DEF TieInv, UploadsFit
  <2>6. TornIsCut'
    BY <1>0, <1>2, <2>2 DEF TieInv, TornIsCut, FilesGoOn
  <2> QED BY <2>1, <2>4, <2>5, <2>6 DEF TieInv
<1> QED BY <1>0, <1>1, <1>2, <1>4, <1>5, <1>6, CacheStepKinds

\* What a step of a transmux channel has to do with R2.
LEMMA FilesStepKinds ==
  ASSUME FilesStep
  PROVE  \/ UNCHANGED r2Vars /\ (watcher' => watcher \/ r2)
         \/ \E u \in Uploads : UploadingFile(u)
         \/ \E u \in Uploads, n \in Segments : UploadFile(u, n)
         \/ Retention
<1>1. CASE WorkerBegins
  BY <1>1 DEF WorkerBegins, R2IsOn
<1>2. CASE WorkerEnds \/ FfmpegStarts \/ FfmpegExits
  BY <1>2 DEF WorkerEnds, FfmpegStarts, FfmpegExits
<1>3. CASE OpensSegment \/ SourceStalls \/ ListsSegment \/ Settles \/ ServePlaylist
  BY <1>3 DEF OpensSegment, SourceStalls, ListsSegment, Settles, ServePlaylist
<1> QED BY <1>1, <1>2, <1>3 DEF FilesStep

LEMMA FilesStepKeeps ==
  ASSUME DeliveryInv, ~panicked, mode = "transmux", FilesStep, UNCHANGED cacheVars
  PROVE  R2Inv' /\ NilInv' /\ CacheInv' /\ FilesInv' /\ TieInv'
<1>0. R2Inv /\ NilInv /\ CacheInv /\ FilesInv /\ TieInv
  BY DEF DeliveryInv
<1>1. FilesInv' /\ mode' = mode /\ FilesGoOn
  BY <1>0, NextFiles DEF channelVars
<1>2. CacheInv' /\ pending' = pending
  BY <1>0, <1>1, CacheRests DEF cacheVars
<1>3. CASE UNCHANGED r2Vars /\ (watcher' => watcher \/ r2)
  <2>1. R2Inv' /\ up' = up
    BY <1>0, <1>3, R2Rests
  <2>2. TieInv'
    BY <1>0, <1>1, <1>3, TieRests
  <2>3. UNCHANGED <<r2, cleared, panicked, retire, folder>>
    BY <1>3 DEF r2Vars
  <2>4. NilInv'
    BY <1>0, <1>2, <1>3, <2>1, <2>3, NilKeptByOthers
  <2> QED BY <1>1, <1>2, <2>1, <2>2, <2>4
<1>4. ASSUME NEW u \in Uploads, UploadingFile(u) PROVE R2Inv' /\ NilInv' /\ TieInv'
  <2> DEFINE k == up[u].key
  <2>1. watcher' = watcher /\ Excused' = Excused
    BY <1>4 DEF UploadingFile, segmentVars, Excused
  <2>2. PICK body \in {"torn", "whole"} :
          /\ Put(u, body) \/ PutFails(u) \/ MarkReady(u)
          /\ body = "torn" => PutFails(u) \/ MarkReady(u) \/ body \in BodiesRead(up[u].file)
    <3>1. CASE \E body \in BodiesRead(up[u].file) : Put(u, body)
      BY <3>1 DEF BodiesRead
    <3>2. CASE PutFails(u) \/ MarkReady(u)
      BY <3>2
    <3> QED BY <1>4, <3>1, <3>2 DEF UploadingFile
  <2>3. /\ R2Inv' /\ NilInv' /\ up[u].at # "idle"
        /\ \A w \in Uploads : up'[w].at # "idle" =>
             up[w].at # "idle" /\ up'[w].key = up[w].key /\ up'[w].file = up[w].file
        /\ objects' = objects \/ objects' = [objects EXCEPT ![k] = body]
    BY <1>0, <1>2, <2>1, <2>2, UploadKeepsAll
  <2>4. up[u].file = k /\ k \in Uploadable /\ Told(k)
    BY <1>0, <2>3 DEF TieInv, UploadsFit
  <2>5. body = "torn" => objects' = objects \/ k \in Excused
    <3>1. k = writing => k \in stalled \cup reused
      BY <2>4, FilesAssumption DEF Told, Upcoming, Uploadable, Segments
    <3>2. CASE PutFails(u) \/ MarkReady(u)
      BY <3>2 DEF PutFails, MarkReady
    <3>3. ASSUME body = "torn", body \in BodiesRead(k) PROVE k \in Excused
      BY <3>1, <3>3 DEF BodiesRead, Complete, Excused
    <3> QED BY <2>2, <2>4, <3>2, <3>3
  <2> HIDE DEF k
  <2>6. \A w \in Uploads : up'[w].at # "idle" =>
          up[w].at # "idle" /\ up'[w].key = up[w].key /\ up'[w].file = up[w].file
    BY <2>3
  <2>7. UploadsFit'
    <3>1. UploadsFit
      BY <1>0 DEF TieInv
    <3> QED BY <1>1, <2>6, <3>1, FitsStill
  <2>8. TornIsCut'
    <3>1. objects \in [Keys -> Bodies]
      BY <1>0 DEF R2Inv, R2Typed
    <3>2. ASSUME NEW n \in Uploadable, objects'[n] = "torn" PROVE n \in Excused
      <4>1. objects[n] = "torn" \/ (n = k /\ body = "torn" /\ objects' # objects)
        BY <2>3, <3>1, <3>2 DEF Uploadable
      <4> QED BY <1>0, <2>5, <4>1 DEF TieInv, TornIsCut
    <3> QED BY <2>1, <3>2 DEF TornIsCut
  <2> QED BY <2>3, <2>7, <2>8 DEF TieInv
<1>5. ASSUME NEW u \in Uploads, NEW n \in Segments, UploadFile(u, n)
      PROVE  R2Inv' /\ NilInv' /\ TieInv'
  <2>1. /\ n \in Keys /\ n \in disk /\ watcher /\ BeginUpload(u, n, n) /\ UNCHANGED fileVars
        /\ n # writing \/ n \in stalled
    BY <1>5 DEF UploadFile, Quiet
  <2>2. /\ R2Inv' /\ up'[u].key = n /\ up'[u].file = n
        /\ \A w \in Uploads \ {u} : up'[w] = up[w]
    BY <1>0, <2>1, BeginKeepsR2
  <2>3. UNCHANGED <<r2, cleared, panicked, retire, folder, objects, watcher>>
    BY <2>1 DEF BeginUpload, fileVars
  <2>4. Calling
    BY <2>1 DEF Calling
  <2>5. NilInv'
    BY <1>0, <1>2, <2>3, <2>4, NilKeptByOthers
  <2>6. Told(n) /\ n \in Uploadable
    <3>1. n < next
      BY <1>0, <2>1 DEF FilesInv, Past
    <3>2. writing # 0 => next = writing + 1
      BY <1>0 DEF FilesInv, Writes
    <3>3. n \in Nat /\ writing \in Nat /\ next \in Nat
      BY <1>0, FilesAssumption DEF FilesInv, FilesTypeOK, Segments
    <3> QED BY <2>1, <3>1, <3>2, <3>3 DEF Told, Upcoming, Uploadable
  <2>7. ToldNext(n)
    BY <1>1, <2>6 DEF FilesGoOn
  <2>8. UploadsFit'
    <3> SUFFICES ASSUME NEW w \in Uploads, up'[w].at # "idle"
                 PROVE  /\ up'[w].file = up'[w].key /\ up'[w].key \in Uploadable
                        /\ ToldNext(up'[w].key)
      BY <1>1 DEF UploadsFit, Told, ToldNext
    <3>1. CASE w = u
      BY <2>2, <2>6, <2>7, <3>1 DEF Told, ToldNext
    <3>2. CASE w # u
      <4>1. up'[w] = up[w] /\ UploadsFit
        BY <1>0, <2>2, <3>2 DEF TieInv
      <4> QED BY <1>1, <4>1, FitsStillOne
    <3> QED BY <3>1, <3>2
  <2>9. TornIsCut'
    BY <1>0, <1>1, <2>3 DEF TieInv, TornIsCut, FilesGoOn
  <2> QED BY <2>2, <2>5, <2>8, <2>9 DEF TieInv
<1>6. CASE Retention
  <2>1. /\ \/ watcher /\ \E old \in Stored \cup {NoKey} : RetentionLists(old)
           \/ \E ok \in BOOLEAN : RetentionDeletes(ok)
           \/ RetentionForgets
        /\ watcher' = watcher
    BY <1>6 DEF Retention, fileVars
  <2>2. R2Inv' /\ up' = up /\ \A k \in Keys : objects'[k] \in {objects[k], "none"}
    BY <1>0, <2>1, RetentionKeepsR2
  <2>3. NilInv'
    BY <1>0, <1>2, <2>1, NilKeptByR2
  <2>4. TieInv'
    BY <1>0, <1>1, <2>2, TieKept DEF Uploadable
  <2> QED BY <1>1, <1>2, <2>2, <2>3, <2>4
<1> QED BY <1>1, <1>2, <1>3, <1>4, <1>5, <1>6, FilesStepKinds

\* A purge, and then the removal of the files.
LEMMA PurgeKeeps ==
  ASSUME DeliveryInv, ~panicked, Purge
  PROVE  DeliveryInv'
<1>0. R2Inv /\ NilInv /\ CacheInv /\ FilesInv /\ TieInv
  BY DEF DeliveryInv
<1>1. /\ assets' = {} /\ purging' = TRUE /\ ForgetChannel
      /\ UNCHANGED <<tmp, final, blocks, fetch, viewer, pending, broken, fileVars>>
  BY DEF Purge
<1>2. /\ UNCHANGED <<mode, sync, r2, cleared, panicked, retire, watcher>>
      /\ folder' = (folder \/ r2)
  BY <1>1 DEF ForgetChannel, channelVars, fileVars
<1>3. R2Inv' /\ up' = up /\ objects' = objects
  BY <1>0, <1>1, PurgeKeepsR2
<1>4. pending \subseteq Refs
  BY <1>0 DEF CacheInv, CacheTyped
<1>5. CacheInv'
  BY <1>0, <1>1, <1>2, <1>4, MarksKeepCache
<1>6. FilesInv' /\ FilesGoOn
  BY <1>0, <1>1, <1>2, FilesRestTie
<1>7. folder' => folder \/ r2
  BY <1>2
<1>8. NilInv'
  BY <1>0, <1>1, <1>2, <1>3, <1>7, NilKeptByOthers
<1>9. TieInv'
  BY <1>0, <1>2, <1>3, <1>6, TieKept
<1> QED BY <1>1, <1>3, <1>5, <1>6, <1>8, <1>9 DEF DeliveryInv

LEMMA RemoveKeeps ==
  ASSUME DeliveryInv, ~panicked, RemoveFiles
  PROVE  DeliveryInv'
<1>0. R2Inv /\ NilInv /\ CacheInv /\ FilesInv /\ TieInv
  BY DEF DeliveryInv
<1>1. /\ purging' = FALSE
      /\ tmp' = [r \in Refs |-> NoInode] /\ final' = [r \in Refs |-> NoInode]
      /\ listed' = {} /\ disk' = {} /\ dir' = FALSE
      /\ UNCHANGED <<r2Vars, assets, blocks, fetch, viewer, pending, broken>>
      /\ UNCHANGED <<worker, watcher, next, writing, settled, cut, stalled, reused, seen>>
  BY DEF RemoveFiles, segmentVars
<1>2. UNCHANGED <<channelVars, mode, r2, cleared, panicked, retire, folder, watcher>>
  BY <1>1 DEF r2Vars, channelVars
<1>3. R2Inv' /\ up' = up /\ objects' = objects
  BY <1>0, <1>1, R2Rests
<1>4. CacheInv'
  BY <1>0, <1>1, <1>2, RemovalKeepsCache
<1>5. watcher \in BOOLEAN
  BY <1>0 DEF FilesInv, FilesTypeOK
<1>6. FilesInv' /\ FilesGoOn
  BY <1>0, <1>1, <1>2, <1>5, FewerFilesKept
<1>7. NilInv'
  BY <1>0, <1>1, <1>2, <1>3, NilKeptByOthers
<1>8. TieInv'
  BY <1>0, <1>1, <1>6, TieRests
<1>9. purging' \in BOOLEAN
  BY <1>1
<1> QED BY <1>3, <1>4, <1>6, <1>7, <1>8, <1>9 DEF DeliveryInv

\* A swap of the client, and the goroutine that deletes a purged channel's folder.
LEMMA BucketStepKeeps ==
  ASSUME DeliveryInv, ~panicked, (\E client \in Clients : SetR2Client(client)) \/ DeleteFolder,
         UNCHANGED <<cacheVars, fileVars, purging>>
  PROVE  DeliveryInv'
<1>0. R2Inv /\ NilInv /\ CacheInv /\ FilesInv /\ TieInv
  BY DEF DeliveryInv
<1>1. mode' = mode /\ sync' = sync
  BY DEF SetR2Client, DeleteFolder, channelVars
<1>2. FilesInv' /\ FilesGoOn /\ watcher' = watcher
  BY <1>0, <1>1, FilesRestTie DEF fileVars
<1>3. CacheInv' /\ pending' = pending
  BY <1>0, <1>1, CacheRests DEF cacheVars
<1>4. R2Inv' /\ up' = up /\ \A k \in Keys : objects'[k] \in {objects[k], "none"}
  BY <1>0, SwapKeepsR2, DeleteFolderKeepsR2 DEF Empty
<1>5. NilInv'
  BY <1>0, <1>2, <1>3, NilKeptByR2
<1>6. \A n \in Uploadable : objects'[n] = "torn" => objects[n] = "torn"
  BY <1>4 DEF Uploadable
<1>7. TieInv'
  BY <1>0, <1>1, <1>2, <1>4, <1>6, TieKept
<1>8. purging' = purging /\ purging \in BOOLEAN
  BY DEF DeliveryInv
<1> QED BY <1>2, <1>3, <1>4, <1>5, <1>7, <1>8 DEF DeliveryInv

LEMMA NextDelivery == DeliveryInv /\ [DeliveryNext]_deliveryVars => DeliveryInv'
<1> SUFFICES ASSUME DeliveryInv, [DeliveryNext]_deliveryVars PROVE DeliveryInv'
  OBVIOUS
<1>0. R2Inv /\ NilInv /\ CacheInv /\ FilesInv /\ TieInv /\ purging \in BOOLEAN
  BY DEF DeliveryInv
<1>1. CASE ~panicked /\ Purge
  BY <1>1, PurgeKeeps
<1>2. CASE ~panicked /\ RemoveFiles
  BY <1>2, RemoveKeeps
<1>3. CASE ~panicked /\ mode # "transmux" /\ CacheStep /\ UNCHANGED <<fileVars, purging>>
  <2>1. R2Inv' /\ NilInv' /\ CacheInv' /\ FilesInv' /\ TieInv'
    BY <1>3, CacheStepKeeps
  <2> QED BY <1>0, <1>3, <2>1 DEF DeliveryInv, fileVars
<1>4. CASE ~panicked /\ mode = "transmux" /\ FilesStep /\ UNCHANGED <<cacheVars, purging>>
  <2>1. R2Inv' /\ NilInv' /\ CacheInv' /\ FilesInv' /\ TieInv'
    BY <1>4, FilesStepKeeps
  <2> QED BY <1>0, <1>4, <2>1 DEF DeliveryInv
<1>5. CASE /\ ~panicked
           /\ (\E client \in Clients : SetR2Client(client)) \/ DeleteFolder
           /\ UNCHANGED <<cacheVars, fileVars, purging>>
  BY <1>5, BucketStepKeeps
<1>6. CASE UNCHANGED deliveryVars
  <2>1. /\ UNCHANGED <<r2Vars, cacheVars, fileVars, mode, sync, r2, cleared, panicked, retire, folder>>
        /\ UNCHANGED <<pending, watcher, purging>>
    BY <1>6 DEF deliveryVars, r2Vars, channelVars, cacheVars, fileVars
  <2>2. R2Inv' /\ up' = up
    BY <1>0, <2>1, R2Rests
  <2>3. CacheInv'
    BY <1>0, <2>1, CacheRests
  <2>4. FilesInv' /\ FilesGoOn
    BY <1>0, <2>1, FilesRestTie
  <2>5. TieInv'
    BY <1>0, <2>1, <2>4, TieRests
  <2>6. NilInv'
    BY <1>0, <2>1, <2>2 DEF NilInv, CallersAsked, NilIsNotCalled, Calling
  <2> QED BY <1>0, <2>1, <2>2, <2>3, <2>4, <2>5, <2>6 DEF DeliveryInv
<1> QED BY <1>1, <1>2, <1>3, <1>4, <1>5, <1>6 DEF DeliveryNext

LEMMA InitDelivery == DeliveryInit => DeliveryInv
<1> SUFFICES ASSUME DeliveryInit PROVE DeliveryInv
  OBVIOUS
<1>1. CacheInv /\ FilesInv
  BY InitCache, InitFiles DEF DeliveryInit
<1>2. /\ r2 \in Clients /\ ready = {} /\ objects = Empty /\ folder = FALSE /\ lost = {}
      /\ up = [u \in Uploads |-> NoUpload] /\ retire = NotRetiring /\ overtaken = {}
      /\ cleared = FALSE /\ panicked = FALSE /\ pending = {} /\ watcher = FALSE
  BY DEF DeliveryInit, R2Init, CacheInit, FilesInit
<1>3. \A u \in Uploads : up[u].at = "idle"
  BY <1>2, UploadStatesAre
<1>4. R2Typed
  <2>1. <<mode, sync>> \in Rows
    <3>1. PICK row \in Rows : mode = row[1] /\ sync = row[2]
      BY DEF DeliveryInit, R2Init
    <3>2. row \in {"ingest", "proxy", "transmux"} \X BOOLEAN
      BY R2Assumption
    <3>3. <<row[1], row[2]>> = row
      BY <3>2
    <3> QED BY <3>1, <3>3
  <2>2. r2 \in BOOLEAN
    BY <1>2, R2Assumption
  <2>3. objects \in [Keys -> Bodies]
    BY <1>2 DEF Empty, Bodies
  <2>4. up \in [Uploads -> UploadStates] /\ retire \in RetireStates
    BY <1>2, UploadStatesAre, RetireStatesAre
  <2>5. /\ ready \subseteq Keys /\ overtaken \subseteq Uploads /\ lost \subseteq Keys
        /\ folder \in BOOLEAN /\ cleared \in BOOLEAN /\ panicked \in BOOLEAN
    BY <1>2
  <2> QED BY <2>1, <2>2, <2>3, <2>4, <2>5 DEF R2Typed
<1>5. R2Inv
  BY <1>2, <1>3, <1>4 DEF R2Inv, MarkedIsThere, ReadyIsThere
<1>6. NilInv
  BY <1>2, <1>3, RetireStatesAre DEF NilInv, CallersAsked, Calling, NilIsNotCalled
<1>7. TieInv
  BY <1>2, <1>3 DEF TieInv, UploadsFit, TornIsCut, Empty, Uploadable
<1>8. purging \in BOOLEAN
  BY DEF DeliveryInit
<1> QED BY <1>1, <1>5, <1>6, <1>7, <1>8 DEF DeliveryInv

LEMMA DeliveryInvariant == DeliverySpec => []DeliveryInv
<1>1. DeliveryInv /\ [DeliveryNext]_deliveryVars => DeliveryInv'
  BY NextDelivery
<1> QED BY InitDelivery, <1>1, PTL DEF DeliverySpec

-----------------------------------------------------------------------------
(* The theorems                                                              *)

\* Every variable of the bucket, the cache and the transmux directory keeps its type,
\* for any number of fetchers, viewers, uploads and segments.
THEOREM DeliveryTypeCorrect == DeliverySpec => []DeliveryTypeOK
<1>1. DeliveryInv => DeliveryTypeOK
  BY R2TypeFollows, CacheTypeFollows DEF DeliveryInv, DeliveryTypeOK, FilesInv
<1> QED BY <1>1, DeliveryInvariant, PTL

\* ServeAsset's singleflight (manager.go:356): a proxy segment has one request upstream
\* at most, however many viewers ask and whatever fails or is purged meanwhile.
THEOREM UpstreamIsAskedOnce == DeliverySpec => []OneUpstreamRequest
<1>1. CacheInv => OneUpstreamRequest
  <2> SUFFICES ASSUME CacheInv, mode = "proxy", NEW r \in Refs
               PROVE  Cardinality(FetchersOf(r)) <= 1
    BY DEF OneUpstreamRequest
  <2>1. \A f \in FetchersOf(r) : fetch[f].at # "idle"
    <3> SUFFICES ASSUME NEW f \in FetchersOf(r) PROVE fetch[f].at # "idle"
      OBVIOUS
    <3>1. f \in Fetchers /\ fetch[f].ref = r /\ r # NoKey
      BY NoKeyIsNoRef DEF FetchersOf
    <3>2. fetch[f] \in FetchStates
      BY <3>1 DEF CacheInv, CacheTyped
    <3> QED BY <3>1, <3>2 DEF FetchStates, Idle
  <2>2. \A f, g \in FetchersOf(r) : f = g
    BY <2>1 DEF CacheInv, ProxyInv, OneFetcher, FetchersOf
  <2>3. CASE FetchersOf(r) = {}
    BY <2>3, FS_EmptySet
  <2>4. CASE FetchersOf(r) # {}
    <3>1. PICK f : f \in FetchersOf(r)
      BY <2>4
    <3>2. FetchersOf(r) = {f}
      BY <2>2, <3>1
    <3>3. Cardinality({f}) = 1
      BY FS_Singleton
    <3> QED BY <3>2, <3>3
  <2> QED BY <2>3, <2>4
<1> QED BY <1>1, DeliveryInvariant, PTL DEF DeliveryInv

\* DiskCache.Write's temporary name and rename (cache.go:34-56): what a proxy viewer may
\* open has all its blocks.
THEOREM ProxyFilesAreWhole == DeliverySpec => []PublishedIsWhole
<1>1. DeliveryInv => PublishedIsWhole
  BY DEF DeliveryInv, CacheInv, ProxyInv
<1> QED BY <1>1, DeliveryInvariant, PTL

\* The prefetches of an ingest channel share <ref>.tmp: a published file with blocks
\* missing is still being written, or a fetch of it broke off.
THEOREM HolesGetFilled == DeliverySpec => []HolesAreFilled
<1>1. CacheInv => HolesAreFilled
  <2> SUFFICES ASSUME CacheInv, NEW r \in Refs, Cached(r), ~Whole(final[r])
               PROVE  Writing(final[r]) # {} \/ final[r] \in broken
    BY DEF HolesAreFilled
  <2>1. final[r] \in Inodes
    BY DEF CacheInv, CacheTyped, Cached
  <2>2. final[r] \in broken \/ \E f \in Fetchers : Fills(f, final[r])
    BY <2>1 DEF CacheInv, NameInv, Filled
  <2> QED BY <2>2 DEF Fills, Writing
<1> QED BY <1>1, DeliveryInvariant, PTL DEF DeliveryInv

\* Every way out of DiskCache.Write removes the temporary name (cache.go:44-55), so one
\* that exists is being written to, under whichever of the fetchers that share it.
THEOREM TmpNamesHaveWriters == DeliverySpec => []TmpHasWriter
<1>1. DeliveryInv => TmpHasWriter
  BY DEF DeliveryInv, CacheInv, NameInv
<1> QED BY <1>1, DeliveryInvariant, PTL

\* A key marked ready is in the bucket that is configured now, unless its mark overtook
\* a swap, a purge or the retention, a purge's goroutine or a delete that failed took
\* its object (r2.go:57-82, 123-156), or it is the one being retired.
THEOREM MarksAreTrue == DeliverySpec => []ReadyIsThere
<1>1. DeliveryInv => ReadyIsThere
  BY DEF DeliveryInv, R2Inv
<1> QED BY <1>1, DeliveryInvariant, PTL

\* Of what is in the window no object is unfinished, but of segments whose source fell
\* silent for two seconds while they were written, which transmuxR2Watcher (manager.go:863)
\* cannot tell from finished ones, of numbers that were used again, and of lost keys.
THEOREM SharedSegmentsAreWhole == DeliverySpec => []SharedIsWhole
<1>1. DeliveryInv => SharedIsWhole
  <2> SUFFICES ASSUME DeliveryInv, NEW n \in Playlist.shared \ (lost \cup stalled \cup reused)
               PROVE  objects[n] # "torn"
    BY DEF SharedIsWhole
  <2>1. n \in Kept /\ n \in ready
    BY DEF Playlist
  <2>2. n \in listed
    BY <2>1 DEF Kept
  <2>3. n \in Uploadable /\ n \notin cut
    BY <2>1, <2>2 DEF DeliveryInv, FilesInv, FilesTypeOK, Past, R2Inv, R2Typed, Uploadable
  <2> QED BY <2>3 DEF DeliveryInv, TieInv, TornIsCut, Excused
<1> QED BY <1>1, DeliveryInvariant, PTL

\* SetR2Client (manager.go:89): who calls R2 without asking again had asked, so a nil
\* client is only called after a client had been replaced by nil.
THEOREM NilClientIsNotCalled == DeliverySpec => []NilIsNotCalled
<1>1. DeliveryInv => NilIsNotCalled
  BY DEF DeliveryInv, NilInv
<1> QED BY <1>1, DeliveryInvariant, PTL

\* What readTransmuxPlaylist dropped is added to the media sequence (manager.go:754),
\* which is then the number of the first segment it keeps, or is beyond the window when it
\* keeps none: as long as no ffmpeg begins below the one before, no playlist announces
\* less than one with segments did.
THEOREM SequenceNeverGoesBack == DeliverySpec => []NumbersNeverGoBack
<1>1. FilesInv => NumbersNeverGoBack
  <2> SUFFICES ASSUME FilesInv, listed # {} PROVE Playlist.seq >= seen
    BY DEF NumbersNeverGoBack
  <2>1. FilesTypeOK /\ NoGap /\ SeenIsPast /\ listed \subseteq Nat /\ seen \in Nat
    BY FilesAssumption DEF FilesInv, FilesTypeOK, Segments
  <2>2. CASE Kept = {}
    <3>1. PICK n \in listed : seen <= n
      BY <2>1 DEF SeenIsPast
    <3>2. Playlist.seq > n /\ Playlist.seq \in Int
      BY <2>1, <2>2, SequenceIsBeyond
    <3> QED BY <2>1, <3>1, <3>2
  <2>3. CASE Kept # {}
    <3>1. PICK m \in Kept : Playlist.seq = m
      BY <2>1, <2>3, SequenceIsFirstKept
    <3>2. m \in listed /\ (sync => m \in disk)
      BY DEF Kept
    <3> QED BY <2>1, <3>1, <3>2 DEF SeenIsPast
  <2> QED BY <2>2, <2>3
<1> QED BY <1>1, DeliveryInvariant, PTL DEF DeliveryInv

=============================================================================

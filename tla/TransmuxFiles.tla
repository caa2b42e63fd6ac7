---------------------------- MODULE TransmuxFiles ----------------------------
(***************************************************************************)
(* The directory of a transmux channel: ffmpeg writes numbered segments    *)
(* and index.m3u8 into it, transmuxR2Watcher uploads and removes segments, *)
(* and readTransmuxPlaylist makes of index.m3u8 the playlist that viewers  *)
(* get (relay/manager.go).                                                 *)
(*                                                                         *)
(* Times are kept as what they decide: which segments are older than the   *)
(* sync delay (settled), and whether an upload is later than the local     *)
(* retention.  A new ffmpeg numbers its segments from the unix time: that  *)
(* may be beyond every number used before, or, when segments have been     *)
(* shorter than a second or the clock has been set, among them.            *)
(***************************************************************************)
EXTENDS R2Sync

CONSTANTS
  MaxSegment,   \* segments are numbered 1..MaxSegment
  ListSize,     \* -hls_list_size
  Threshold     \* -hls_delete_threshold

ASSUME FilesAssumption ==
  {MaxSegment, ListSize, Threshold} \subseteq Nat /\ ListSize > 0

Segments == 1..MaxSegment
Uploadable == Segments \cap Keys

VARIABLES
  dir,        \* the directory exists
  worker,     \* transmuxLoop: "off", "top" (no ffmpeg), "on"
  watcher,    \* transmuxR2Watcher and r2RetentionLoop run
  next,       \* the number the next segment gets
  writing,    \* the segment ffmpeg has open, 0 if none
  listed,     \* the segments index.m3u8 names
  disk,       \* segments whose file exists
  cut,        \* those in Keys that an ffmpeg ended over
  settled,    \* segments up to this one were last written before the sync cutoff
  stalled,    \* history: those in Keys whose source fell silent while they were written
  reused,     \* history: those in Keys that a later ffmpeg began at or below
  seen        \* history: the media sequence of the last playlist answered with segments,
              \* since an ffmpeg last began below where the one before had got to

segmentVars == <<cut, stalled, reused>>
fileVars ==
  <<dir, worker, watcher, next, writing, listed, disk, settled, segmentVars, seen>>

FilesTypeOK ==
  /\ dir \in BOOLEAN /\ worker \in {"off", "top", "on"} /\ watcher \in BOOLEAN
  /\ next \in 1..(MaxSegment + 1) /\ writing \in 0..MaxSegment
  /\ listed \in SUBSET Segments /\ disk \in SUBSET Segments /\ cut \in SUBSET Segments
  /\ settled \in 0..MaxSegment
  /\ stalled \in SUBSET Segments /\ reused \in SUBSET Segments
  /\ seen \in 0..MaxSegment

FilesInit ==
  /\ dir = FALSE /\ worker = "off" /\ watcher = FALSE
  /\ next = 1 /\ writing = 0
  /\ listed = {} /\ disk = {} /\ cut = {}
  /\ settled = 0 /\ stalled = {} /\ reused = {}
  /\ seen = 0

-----------------------------------------------------------------------------
(* transmuxLoop and ffmpeg                                                   *)

\* The goroutine begins: MkdirAll, and both R2 goroutines if there is a client now.
WorkerBegins ==
  /\ mode = "transmux" /\ worker = "off"
  /\ dir' = TRUE /\ worker' = "top"
  /\ watcher' = R2IsOn
  /\ UNCHANGED <<r2Vars, next, writing, listed, disk, settled, segmentVars, seen>>

\* Its context is cancelled: ffmpeg is killed and the R2 goroutines end.
WorkerEnds ==
  /\ worker # "off"
  /\ worker' = "off" /\ watcher' = FALSE
  /\ writing' = 0
  /\ cut' = cut \cup ({writing} \cap Uploadable)
  /\ UNCHANGED <<r2Vars, dir, next, listed, disk, settled, stalled, reused, seen>>

\* clearTransmuxFiles and cmd.Start; nothing makes the directory again.  -start_number is
\* the unix time.
FfmpegStarts ==
  /\ worker = "top"
  /\ worker' = "on"
  /\ listed' = {} /\ disk' = {}
  /\ \E start \in Segments :
       /\ next' = start
       /\ settled' = IF settled < start THEN settled ELSE start - 1
       /\ reused' = reused \cup {n \in Uploadable : start <= n /\ n < next}
       /\ seen' = IF start < next THEN 0 ELSE seen
  /\ UNCHANGED <<r2Vars, dir, watcher, writing, cut, stalled>>

\* ffmpeg creates a segment's file.
OpensSegment ==
  /\ worker = "on" /\ dir /\ writing = 0
  /\ next \in Segments
  /\ writing' = next /\ next' = next + 1
  /\ disk' = disk \cup {next}
  /\ cut' = cut \ {next}
  /\ UNCHANGED <<r2Vars, dir, worker, watcher, listed, settled, stalled, reused, seen>>

\* Two seconds pass in which the source sends nothing to write.
SourceStalls ==
  /\ writing \in Uploadable
  /\ stalled' = stalled \cup {writing}
  /\ UNCHANGED <<r2Vars, dir, worker, watcher, next, writing, listed, disk, settled>>
  /\ UNCHANGED <<cut, reused, seen>>

\* It closes the file, lists it, and deletes what left the list a while ago.
ListsSegment ==
  /\ worker = "on" /\ dir /\ writing # 0
  /\ writing' = 0
  /\ listed' = {n \in listed \cup {writing} : n > writing - ListSize}
  /\ disk' = {n \in disk : n > writing - ListSize - Threshold}
  /\ UNCHANGED <<r2Vars, dir, worker, watcher, next, settled, segmentVars, seen>>

\* It exits by itself, over a file that may be unfinished.
FfmpegExits ==
  /\ worker = "on"
  /\ worker' = "top"
  /\ writing' = 0
  /\ cut' = cut \cup ({writing} \cap Uploadable)
  /\ UNCHANGED <<r2Vars, dir, watcher, next, listed, disk, settled, stalled, reused, seen>>

\* Time passes: the cutoff passes a segment that ffmpeg has finished with.
Settles ==
  /\ settled + 1 < next /\ settled + 1 # writing
  /\ settled' = settled + 1
  /\ UNCHANGED <<r2Vars, dir, worker, watcher, next, writing, listed, disk>>
  /\ UNCHANGED <<segmentVars, seen>>

-----------------------------------------------------------------------------
(* readTransmuxPlaylist                                                      *)

\* With sync on, a segment is dropped when os.Stat fails or it is too new.
Kept == IF sync THEN {n \in listed : n \in disk /\ n <= settled} ELSE listed

\* Mutant: counted wherever it was dropped, also at the tail.
DroppedAnywhere == IF sync THEN Cardinality(listed \ Kept) ELSE 0

\* ...and counted as dropped from the head while no segment has been kept: all of them,
\* when none is.
DroppedFromHead == IF sync THEN Cardinality({n \in listed : \A k \in Kept : n < k}) ELSE 0

First(S) == CHOOSE n \in S : \A k \in S : n <= k

\* The playlist: #EXT-X-MEDIA-SEQUENCE, the segments, and those with a URL in R2.
Playlist ==
  [seq |-> First(listed) + DroppedFromHead,
   segs |-> Kept,
   shared |-> IF R2IsOn THEN Kept \cap ready ELSE {}]

\* ServePlaylist lets one reader a second through (m.transmux, singleflight).
ServePlaylist ==
  /\ listed # {}
  /\ seen' = IF Kept = {} THEN seen ELSE Playlist.seq
  /\ UNCHANGED <<r2Vars, dir, worker, watcher, next, writing, listed, disk, settled, segmentVars>>

-----------------------------------------------------------------------------
(* transmuxR2Watcher                                                         *)

Complete(n) == n # writing /\ n \notin cut

\* What is read of the file that was opened as n; of a number that is used again it may
\* be the file that had it before.
BodiesRead(n) ==
  IF n \in reused THEN {"torn", "whole"} ELSE {IF Complete(n) THEN "whole" ELSE "torn"}

\* Mutant: no test.
QuietOrNot(n) == TRUE

\* Its test is that nothing was written for two seconds.
Quiet(n) == n # writing \/ n \in stalled

UploadFile(u, n) ==
  /\ watcher /\ \A w \in Uploads : up[w].at = "idle"
  /\ n \in disk \cap Keys /\ Quiet(n)
  /\ BeginUpload(u, n, n)
  /\ UNCHANGED fileVars

\* In the same round, and only then, the local file goes if it is older than the
\* local retention.
UploadingFile(u) ==
  /\ up[u].file \in Segments
  /\ \/ (\E body \in BodiesRead(up[u].file) : Put(u, body)) /\ UNCHANGED disk
     \/ PutFails(u) /\ UNCHANGED disk
     \/ MarkReady(u) /\ \E late \in BOOLEAN : disk' = IF late THEN disk \ {up[u].file} ELSE disk
  /\ UNCHANGED <<dir, worker, watcher, next, writing, listed, settled, segmentVars, seen>>

Retention ==
  /\ \/ watcher /\ \E old \in Stored \cup {NoKey} : RetentionLists(old)
     \/ \E ok \in BOOLEAN : RetentionDeletes(ok)
     \/ RetentionForgets
  /\ UNCHANGED fileVars

FilesStep ==
  \/ WorkerBegins \/ WorkerEnds
  \/ FfmpegStarts \/ OpensSegment \/ SourceStalls \/ ListsSegment \/ FfmpegExits \/ Settles
  \/ ServePlaylist
  \/ \E u \in Uploads : UploadingFile(u) \/ \E n \in Segments : UploadFile(u, n)
  \/ Retention

=============================================================================

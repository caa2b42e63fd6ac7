------------------------------ MODULE Delivery ------------------------------
(***************************************************************************)
(* How one channel's segments reach its viewers: SegmentCache when it is   *)
(* an ingest or a proxy channel, TransmuxFiles when ffmpeg makes them, and *)
(* R2Sync for the copies in the bucket; with PurgeChannel and SetR2Client, *)
(* which may be called at any moment.                                      *)
(***************************************************************************)
EXTENDS SegmentCache, TransmuxFiles

ASSUME DeliveryAssumption ==
  /\ Refs \subseteq Keys /\ Keys \subseteq Refs \cup Segments
  /\ Refs \cap Segments = {}

VARIABLE purging   \* PurgeChannel has still to remove the files

deliveryVars == <<r2Vars, cacheVars, fileVars, purging>>

DeliveryTypeOK == R2TypeOK /\ CacheTypeOK /\ FilesTypeOK /\ purging \in BOOLEAN

DeliveryInit == R2Init /\ CacheInit /\ FilesInit /\ purging = FALSE

\* PurgeChannel: the maps and the marks first, the folder by a goroutine...
Purge ==
  /\ ~purging
  /\ purging' = TRUE
  /\ assets' = {}
  /\ ForgetChannel
  /\ UNCHANGED <<tmp, final, blocks, fetch, viewer, pending, broken, fileVars>>

\* ...then both directories, whoever writes to them.
RemoveFiles ==
  /\ purging
  /\ purging' = FALSE
  /\ tmp' = [r \in Refs |-> NoInode] /\ final' = [r \in Refs |-> NoInode]
  /\ listed' = {} /\ disk' = {} /\ dir' = FALSE
  /\ UNCHANGED <<r2Vars, assets, blocks, fetch, viewer, pending, broken>>
  /\ UNCHANGED <<worker, watcher, next, writing, settled, segmentVars, seen>>

DeliveryNext ==
  /\ ~panicked
  /\ \/ Purge \/ RemoveFiles
     \/ mode # "transmux" /\ CacheStep /\ UNCHANGED <<fileVars, purging>>
     \/ mode = "transmux" /\ FilesStep /\ UNCHANGED <<cacheVars, purging>>
     \/ /\ (\E client \in Clients : SetR2Client(client)) \/ DeleteFolder
        /\ UNCHANGED <<cacheVars, fileVars, purging>>

DeliverySpec == DeliveryInit /\ [][DeliveryNext]_deliveryVars

-----------------------------------------------------------------------------
(* Safety                                                                    *)

\* PRD 8.2, "Hanya satu request upstream aktif untuk key yang sama": a proxy segment
\* is never fetched twice at the same time, whatever is purged or fails meanwhile.
OneUpstreamRequest ==
  mode = "proxy" => \A r \in Refs : Cardinality(FetchersOf(r)) <= 1

\* cache.go:34-56, the write to <ref>.tmp before the rename: a proxy viewer never gets
\* a file that is still being written, although purge, cleanup and failed fetches take
\* names away under the writer.
PublishedIsWhole ==
  mode = "proxy" => \A r \in Refs : Cached(r) => Whole(final[r])

\* Prefetches of two cycles share <ref>.tmp (cache.go:39), so an ingest segment may be
\* published with blocks missing; it does not stay so unless a fetch broke off: some
\* fetcher is still writing to that very inode.
HolesAreFilled ==
  \A r \in Refs :
    Cached(r) /\ ~Whole(final[r]) => Writing(final[r]) # {} \/ final[r] \in broken

\* cache.go:44-55: every way out of Write takes the name <ref>.tmp away, its own file's
\* or another's: no temporary file outlives its writers.
TmpHasWriter ==
  \A r \in Refs : tmp[r] # NoInode => Writing(tmp[r]) # {}

\* PRD 10.7.4, "Setelah segment R2 ready, URL publik R2 dipakai": what is marked ready
\* is in the bucket that is configured now, across uploads, swaps, purges and retention.
\* It is not where the mark overtook a swap, a purge or the retention's delete, where a
\* purge's goroutine deleted what was uploaded and marked after the purge, and where a
\* delete took the object and then failed: these keys are lost, and no others.
ReadyIsThere ==
  \A k \in ready \ lost :
    \/ r2 /\ objects[k] # "none"
    \/ retire.at = "forget" /\ k = retire.key

\* manager.go:863, "Only upload segments that finished writing >=2s ago": of a segment
\* that ffmpeg has left unfinished, or still writes, no playlist sends viewers to the
\* object.  What the two seconds cannot tell is the exception: a source that was silent
\* for as long in mid-segment (stalled), and a number whose file has been another
\* ffmpeg's before (reused).
SharedIsWhole ==
  listed # {} =>
    \A n \in Playlist.shared \ (lost \cup stalled \cup reused) : objects[n] # "torn"

\* manager.go:89, "Pass nil to disable R2 sync": a manager that starts without a client,
\* and gets or swaps clients later, never calls R2 on nil.  (Once a client is replaced
\* by nil, the goroutines that had seen the old one do call it, and the process ends.)
NilIsNotCalled == panicked => cleared

\* RFC 8216 4.3.3.2, which readTransmuxPlaylist keeps by adding what it dropped to the
\* media sequence (manager.go:754): the playlist a viewer would get now, with segments or
\* without, does not announce less than one with segments did before, across sync
\* cutoffs, removed files, purges and new ffmpegs.  (It does after an ffmpeg has begun
\* below where the last one had got to; and one without segments counts all of them as
\* dropped, which the next one may take back.)
NumbersNeverGoBack == listed # {} => Playlist.seq >= seen

=============================================================================

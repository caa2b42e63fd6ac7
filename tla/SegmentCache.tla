---------------------------- MODULE SegmentCache ----------------------------
(***************************************************************************)
(* Segments of an ingest or a proxy channel: ServeAsset, the prefetches of *)
(* runIngestCycle and fetchAndCache (relay/manager.go) over the disk cache *)
(* (relay/cache.go).                                                       *)
(*                                                                         *)
(* A file is an inode, and an inode the set of the segment's blocks it     *)
(* holds: os.Create truncates the inode that <ref>.tmp names, or makes a   *)
(* new one; a writer goes on writing to the inode it has opened, also when *)
(* os.Rename has published it or os.Remove has taken its name away.        *)
(***************************************************************************)
EXTENDS R2Sync

CONSTANTS
  Refs,       \* the segments' refs
  Inodes, NoInode,
  Blocks,     \* a segment is blocks 1..Blocks
  Fetchers,   \* goroutines in fetchAndCache
  Viewers     \* requests for a segment

ASSUME CacheAssumption == Blocks \in Nat /\ NoInode \notin Inodes

VARIABLES
  assets,     \* m.assets
  tmp,        \* ref -> inode of <ref>.tmp
  final,      \* ref -> inode of <ref>
  blocks,     \* inode -> blocks written to it
  fetch,      \* the fetchers
  viewer,     \* the requests
  pending,    \* refs for which uploadToR2 has been started and has not begun
  broken      \* history: inodes a fetcher gave up on

cacheVars == <<assets, tmp, final, blocks, fetch, viewer, pending, broken>>

Idle == [at |-> "idle", ref |-> NoKey, inode |-> NoInode, done |-> 0, flight |-> FALSE]
Gone == [at |-> "none", ref |-> NoKey]

CacheTypeOK ==
  /\ assets \in SUBSET Refs
  /\ tmp \in [Refs -> Inodes \cup {NoInode}] /\ final \in [Refs -> Inodes \cup {NoInode}]
  /\ blocks \in [Inodes -> SUBSET (1..Blocks)]
  /\ fetch \in [Fetchers ->
       [at : {"idle", "request", "create", "copy"}, ref : Refs \cup {NoKey},
        inode : Inodes \cup {NoInode}, done : 0..Blocks, flight : BOOLEAN]]
  /\ viewer \in [Viewers ->
       [at : {"none", "missed", "polling", "waiting", "opening"},
        ref : Refs \cup {NoKey}]]
  /\ pending \in SUBSET Refs
  /\ broken \in SUBSET Inodes

CacheInit ==
  /\ assets = {}
  /\ tmp = [r \in Refs |-> NoInode] /\ final = [r \in Refs |-> NoInode]
  /\ blocks = [i \in Inodes |-> {}]
  /\ fetch = [f \in Fetchers |-> Idle]
  /\ viewer = [v \in Viewers |-> Gone]
  /\ pending = {}
  /\ broken = {}

-----------------------------------------------------------------------------
(* Fetches                                                                   *)

Whole(i) == blocks[i] = 1..Blocks
Body(i) == IF Whole(i) THEN "whole" ELSE "torn"
Cached(r) == final[r] # NoInode

FetchersOf(r) == {f \in Fetchers : fetch[f].ref = r}
Flight(r) == {f \in FetchersOf(r) : fetch[f].flight}
Writing(i) == {f \in Fetchers : fetch[f].inode = i}

\* An inode nobody can reach any more may be used again.
Free(i) ==
  /\ \A r \in Refs : tmp[r] # i /\ final[r] # i
  /\ Writing(i) = {}
  /\ \A u \in Uploads : up[u].file # i

StartFetch(f, r, shared) ==
  /\ fetch[f] = Idle
  /\ fetch' = [fetch EXCEPT ![f] = [Idle EXCEPT !.at = "request", !.ref = r, !.flight = shared]]

\* The fetch is over: singleflight gives its result to all that wait for it.
Return(f, next) ==
  /\ fetch' = [fetch EXCEPT ![f] = Idle]
  /\ viewer' = [v \in Viewers |->
       IF fetch[f].flight /\ viewer[v].at = "waiting" /\ viewer[v].ref = fetch[f].ref
       THEN IF next = "opening" THEN [viewer[v] EXCEPT !.at = "opening"] ELSE Gone
       ELSE viewer[v]]

\* A playlist names r: RegisterAsset.  A cycle of the ingest worker fetches what is
\* missing or too old, in a goroutine of its own.
Register(r) ==
  /\ assets' = assets \cup {r}
  /\ UNCHANGED <<r2Vars, tmp, final, blocks, fetch, viewer, pending, broken>>

Prefetch(f, r) ==
  /\ mode = "ingest"
  /\ assets' = assets \cup {r}
  /\ StartFetch(f, r, FALSE)
  /\ UNCHANGED <<r2Vars, tmp, final, blocks, viewer, pending, broken>>

\* Upstream answers 2xx.
UpstreamAnswers(f) ==
  /\ fetch[f].at = "request"
  /\ fetch' = [fetch EXCEPT ![f].at = "create"]
  /\ UNCHANGED <<r2Vars, assets, tmp, final, blocks, viewer, pending, broken>>

\* Any error before there is a file: upstream, timeout, the leader's context.
FetchFails(f) ==
  /\ fetch[f].at \in {"request", "create"}
  /\ Return(f, "failed")
  /\ UNCHANGED <<r2Vars, assets, tmp, final, blocks, pending, broken>>

\* os.Create(<ref>.tmp)
CreateTmp(f) ==
  /\ fetch[f].at = "create"
  /\ LET r == fetch[f].ref
     IN  \E i \in Inodes :
           /\ IF tmp[r] # NoInode THEN i = tmp[r] ELSE Free(i)
           /\ tmp' = [tmp EXCEPT ![r] = i]
           /\ blocks' = [blocks EXCEPT ![i] = {}]
           /\ broken' = broken \ {i}
           /\ fetch' = [fetch EXCEPT ![f].at = "copy", ![f].inode = i]
  /\ UNCHANGED <<r2Vars, assets, final, viewer, pending>>

\* Mutant: a block too many.
CopyingOn(f) == fetch[f].at = "copy" /\ fetch[f].done <= Blocks

Copying(f) == fetch[f].at = "copy" /\ fetch[f].done < Blocks

\* io.Copy, block by block.
Copy(f) ==
  /\ Copying(f)
  /\ LET n == fetch[f].done + 1
     IN  /\ blocks' = [blocks EXCEPT ![fetch[f].inode] = @ \cup {n}]
         /\ fetch' = [fetch EXCEPT ![f].done = n]
  /\ UNCHANGED <<r2Vars, assets, tmp, final, viewer, pending, broken>>

\* Mutant: the partial file is left behind.
CopyFailsKeepingTmp(f) ==
  /\ Copying(f)
  /\ broken' = broken \cup {fetch[f].inode}
  /\ Return(f, "failed")
  /\ UNCHANGED <<r2Vars, assets, tmp, final, blocks, pending>>

\* The body ends early, the client times out or the leader leaves: the name
\* <ref>.tmp is removed, whichever inode it has by now.
CopyFails(f) ==
  /\ Copying(f)
  /\ tmp' = [tmp EXCEPT ![fetch[f].ref] = NoInode]
  /\ broken' = broken \cup {fetch[f].inode}
  /\ Return(f, "failed")
  /\ UNCHANGED <<r2Vars, assets, final, blocks, pending>>

\* os.Rename: whatever inode is called <ref>.tmp is published; if there is none, a
\* purge or another fetcher has taken it and the fetch fails.
Rename(f) ==
  LET r == fetch[f].ref
      published == tmp[r] # NoInode
  IN  /\ final' = [final EXCEPT ![r] = IF published THEN tmp[r] ELSE @]
      /\ tmp' = [tmp EXCEPT ![r] = NoInode]
      /\ pending' = IF published /\ R2IsOn THEN pending \cup {r} ELSE pending
      /\ Return(f, IF published THEN "opening" ELSE "failed")
      /\ UNCHANGED <<r2Vars, assets, blocks, broken>>

\* Mutant: the file is published while its last block is still being written.
PublishEarly(f) == fetch[f].at = "copy" /\ fetch[f].done = Blocks - 1 /\ Rename(f)

Publish(f) == fetch[f].at = "copy" /\ fetch[f].done = Blocks /\ Rename(f)

-----------------------------------------------------------------------------
(* ServeAsset                                                                *)

ViewerGoto(v, at) == viewer' = [viewer EXCEPT ![v].at = at]
Answer(v) == viewer' = [viewer EXCEPT ![v] = Gone]
OnlyViewers == UNCHANGED <<r2Vars, assets, tmp, final, blocks, fetch, pending, broken>>

\* assetSource knows the ref, or the answer is 404; then HasFresh, and a file may be
\* too old at any time.
AskFresh(v, r) ==
  /\ viewer[v] = Gone
  /\ r \in assets /\ Cached(r)
  /\ viewer' = [viewer EXCEPT ![v] = [at |-> "opening", ref |-> r]]
  /\ OnlyViewers

AskStale(v, r) ==
  /\ viewer[v] = Gone
  /\ r \in assets
  /\ viewer' = [viewer EXCEPT ![v] =
       [at |-> IF mode = "ingest" THEN "polling" ELSE "missed", ref |-> r]]
  /\ OnlyViewers

\* An ingest viewer polls until HasFresh...
Hit(v) ==
  /\ viewer[v].at = "polling"
  /\ Cached(viewer[v].ref)
  /\ ViewerGoto(v, "opening")
  /\ OnlyViewers

\* ...for 1.5 s, or leaves; it never fetches.
StopPolling(v) ==
  /\ viewer[v].at = "polling"
  /\ Answer(v)
  /\ OnlyViewers

\* group.Do: wait for the fetch of this ref that is under way...
Join(v) ==
  /\ viewer[v].at = "missed"
  /\ Flight(viewer[v].ref) # {}
  /\ ViewerGoto(v, "waiting")
  /\ OnlyViewers

\* Mutant: two viewers may fetch at the same time.
LeadAlways(v, f) ==
  /\ viewer[v].at = "missed"
  /\ StartFetch(f, viewer[v].ref, TRUE)
  /\ ViewerGoto(v, "waiting")
  /\ UNCHANGED <<r2Vars, assets, tmp, final, blocks, pending, broken>>

\* ...or make it, with this request's context.
Lead(v, f) ==
  /\ viewer[v].at = "missed"
  /\ Flight(viewer[v].ref) = {}
  /\ StartFetch(f, viewer[v].ref, TRUE)
  /\ ViewerGoto(v, "waiting")
  /\ UNCHANGED <<r2Vars, assets, tmp, final, blocks, pending, broken>>

\* cache.Open and ServeContent, or the error of a file that has gone meanwhile.
Serve(v) ==
  /\ viewer[v].at = "opening"
  /\ Answer(v)
  /\ OnlyViewers

-----------------------------------------------------------------------------
(* Uploads, cleanup                                                          *)

\* uploadToR2 begins: what is ready, or has no file any more, is left alone.
UploadSegment(u, r) ==
  /\ r \in pending
  /\ pending' = pending \ {r}
  /\ IF r \in ready \/ ~Cached(r)
     THEN up[u].at = "idle" /\ UNCHANGED r2Vars
     ELSE BeginUpload(u, r, final[r])
  /\ UNCHANGED <<assets, tmp, final, blocks, fetch, viewer, broken>>

UploadCached(u) ==
  /\ up[u].file \in Inodes
  /\ Put(u, Body(up[u].file)) \/ PutFails(u) \/ MarkReady(u)
  /\ UNCHANGED cacheVars

\* cleanupLoop removes files of six hours and more.
Cleanup(r) ==
  /\ Cached(r)
  /\ final' = [final EXCEPT ![r] = NoInode]
  /\ UNCHANGED <<r2Vars, assets, tmp, blocks, fetch, viewer, pending, broken>>

FetchStep(f) ==
  UpstreamAnswers(f) \/ FetchFails(f) \/ CreateTmp(f) \/ Copy(f) \/ CopyFails(f) \/ Publish(f)

ViewerStep(v) ==
  \/ Hit(v) \/ StopPolling(v) \/ Join(v) \/ Serve(v)
  \/ \E f \in Fetchers : Lead(v, f)

CacheStep ==
  \/ \E r \in Refs : Register(r) \/ Cleanup(r) \/ \E f \in Fetchers : Prefetch(f, r)
  \/ \E v \in Viewers, r \in Refs : AskFresh(v, r) \/ AskStale(v, r)
  \/ \E v \in Viewers : ViewerStep(v)
  \/ \E f \in Fetchers : FetchStep(f)
  \/ \E u \in Uploads : UploadCached(u) \/ \E r \in Refs : UploadSegment(u, r)

=============================================================================

---------------------------- MODULE SegmentSpans ----------------------------
(***************************************************************************)
(* The slices of the segments of one thread (segment.rs).                  *)
(*                                                                         *)
(* A segment is cut into spans of adjacent slices.  A span is a page of    *)
(* the heap or free; a free span is in the span queue of its size.  All    *)
(* that is known about a span is in the header of its first slice, and,    *)
(* for the search backwards, in the offset of its last slice; the headers  *)
(* in between keep what an earlier span left there.                        *)
(*                                                                         *)
(* Only the owner of the segments runs this code, so one action is one     *)
(* call: a request for a page takes one step per round of the recursion    *)
(* in segments_page_alloc.  A span queue is a set: the order in a queue,   *)
(* which decides among spans that all fit, is left open.                   *)
(***************************************************************************)
EXTENDS Integers, FiniteSets

CONSTANTS
  Segment,       \* the segments the system can supply
  SliceCount,    \* SLICES_PER_SEGMENT
  SEGMENT_BIN_MAX,
  SliceBin,      \* slice_bin, for the spans of 1 .. SliceCount - 1 slices
  Request,       \* slices_needed of the page kinds
  MaxPages       \* bound: pages in use at a time

Slice == 0 .. SliceCount - 1
Bin   == 0 .. SEGMENT_BIN_MAX

ASSUME SegmentAssumption == IsFiniteSet(Segment)
ASSUME SliceCountAssumption == SliceCount \in Nat /\ SliceCount >= 2
ASSUME BinAssumption ==
  /\ SEGMENT_BIN_MAX \in Nat
  /\ SliceBin \in [1 .. SliceCount - 1 -> Bin]
ASSUME BinMonotone ==
  \A m, n \in 1 .. SliceCount - 1 : m <= n => SliceBin[m] <= SliceBin[n]
ASSUME RequestAssumption == Request \subseteq 1 .. SliceCount - 1
ASSUME MaxPagesAssumption == MaxPages \in Nat

VARIABLES
  segs,          \* the segments obtained so far
  count,         \* count[s][i], offset[s][i], xblock_size[s][i]: fields of the
  offset,        \*   header of slice i; the offset in headers, the size 0 or 1
  xblock_size,   \*   (some size that is not 0)
  queue,         \* span_queue_headers: the free spans of each bin
  used,          \* SegmentHeaderMain2.used
  pages,         \* the pages the heap has
  req,           \* slices_needed of the call under way, 0 if there is none
  grown,         \* the call has obtained a segment
  aborted        \* todo() was reached

vars == <<segs, count, offset, xblock_size, queue, used, pages, req, grown, aborted>>

Init ==
  /\ segs = {}
  /\ count = [s \in Segment |-> [i \in Slice |-> 0]]
  /\ offset = [s \in Segment |-> [i \in Slice |-> 0]]
  /\ xblock_size = [s \in Segment |-> [i \in Slice |-> 0]]
  /\ queue = [b \in Bin |-> {}]
  /\ used = [s \in Segment |-> 0]
  /\ pages = {}
  /\ req = 0
  /\ grown = FALSE
  /\ aborted = FALSE

-----------------------------------------------------------------------------
(* Allocation of a page                                                     *)

\* segment_page_alloc, segments_page_alloc: the page kind decides the slices
PageAlloc(n) ==
  /\ ~aborted /\ req = 0
  /\ Cardinality(pages) < MaxPages
  /\ req' = n
  /\ grown' = FALSE
  /\ UNCHANGED <<segs, count, offset, xblock_size, queue, used, pages, aborted>>

\* the spans of bin b that the loop of segments_page_find_and_allocate accepts
Fits(b, n) == {p \in queue[b] : count[p[1]][p[2]] >= n}

\* (mutant) the search starts at the next larger bin
FirstBin_Next(n) == SliceBin[n] + 1

\* the bin in which the search for n slices starts
FirstBin(n) == SliceBin[n]

Found(n) == \E b \in FirstBin(n) .. SEGMENT_BIN_MAX : Fits(b, n) # {}

\* the search ends in bin b, the bins before it have no span that is large enough
FoundIn(b, n) ==
  /\ b >= FirstBin(n)
  /\ Fits(b, n) # {}
  /\ \A c \in FirstBin(n) .. b - 1 : Fits(c, n) = {}

\* span_queue_delete: the caller derives the bin from the count of the span
Unlink(q, b, s, i) == [q EXCEPT ![b] = @ \ {<<s, i>>}]

\* the end of segment_slice_split and of segment_span_free
Push(q, s, i, n) == [q EXCEPT ![SliceBin[n]] = @ \cup {<<s, i>>}]

\* (mutant) the header after the last one of the span is written
SplitLast_Past(i, c) == i + c

\* the last slice of a span of c slices from i
SplitLast(i, c) == i + c - 1

\* (mutant) the last slice of a page gets no offset
PageSlices_Short(i, n) == i .. i + n - 2

\* the slices whose offsets segment_span_allocate writes
PageSlices(i, n) == i .. i + n - 1

\* The headers c, o, x of a segment after segment_slice_split, if the span at i
\* is larger, and segment_span_allocate: n slices from i are a page, the others
\* are free under a header of their own.
TakeCount(c, i, n) == [j \in Slice |->
  IF j = i THEN n
  ELSE IF c[i] > n /\ j \in {i + n, SplitLast(i, c[i])} THEN c[i] - n ELSE c[j]]
TakeOffset(c, o, i, n) == [j \in Slice |->
  IF j \in PageSlices(i, n) THEN j - i
  ELSE IF c[i] > n /\ j = i + n THEN 0
  ELSE IF c[i] > n /\ j = SplitLast(i, c[i]) THEN c[i] - n - 1 ELSE o[j]]
TakeBlock(c, x, i, n) == [j \in Slice |->
  IF j = i THEN 1
  ELSE IF c[i] > n /\ j \in {i + n, SplitLast(i, c[i])} THEN 0 ELSE x[j]]

\* segments_page_find_and_allocate: the span leaves its queue, what remains of
\* it is put into the queue of its size.
FindAndAllocate(b, s, i) ==
  LET n == req
      c == count[s][i]
  IN
  /\ ~aborted /\ req # 0
  /\ FoundIn(b, n)
  /\ <<s, i>> \in Fits(b, n)
  /\ queue' = IF c > n THEN Push(Unlink(queue, b, s, i), s, i + n, c - n)
                       ELSE Unlink(queue, b, s, i)
  /\ count' = [count EXCEPT ![s] = TakeCount(count[s], i, n)]
  /\ offset' = [offset EXCEPT ![s] = TakeOffset(count[s], offset[s], i, n)]
  /\ xblock_size' = [xblock_size EXCEPT ![s] = TakeBlock(count[s], xblock_size[s], i, n)]
  /\ used' = [used EXCEPT ![s] = @ + 1]
  /\ pages' = pages \cup {<<s, i>>}
  /\ req' = 0
  /\ grown' = FALSE
  /\ UNCHANGED <<segs, aborted>>

\* segment_ensure_committed gets no memory for the span that was found: todo().
\* What was written by then is lost with the process.
CommitRefused ==
  /\ ~aborted /\ req # 0
  /\ Found(req)
  /\ aborted' = TRUE
  /\ UNCHANGED <<segs, count, offset, xblock_size, queue, used, pages, req, grown>>

\* The headers of a new segment: slice 0, which holds them, is a span of its own,
\* all other slices are one free span.
FreshCount == [j \in Slice |-> IF j = 0 THEN 1 ELSE IF j = 1 THEN SliceCount - 1 ELSE 0]
FreshOffset == [j \in Slice |-> IF j = SliceCount - 1 THEN SliceCount - 2 ELSE 0]
FreshBlock == [j \in Slice |-> IF j = 0 THEN 1 ELSE 0]

\* segment_alloc after a search without success; slice 0 is not counted as used.
\* Then segments_page_alloc calls itself.
SegmentAlloc(s) ==
  /\ ~aborted /\ req # 0
  /\ ~Found(req)
  /\ s \notin segs
  /\ segs' = segs \cup {s}
  /\ count' = [count EXCEPT ![s] = FreshCount]
  /\ offset' = [offset EXCEPT ![s] = FreshOffset]
  /\ xblock_size' = [xblock_size EXCEPT ![s] = FreshBlock]
  /\ queue' = Push(queue, s, 1, SliceCount - 1)
  /\ used' = [used EXCEPT ![s] = 0]
  /\ grown' = TRUE
  /\ UNCHANGED <<pages, req, aborted>>

\* segment_os_alloc gets no memory: segments_page_alloc returns null
AllocFails ==
  /\ ~aborted /\ req # 0
  /\ ~Found(req)
  /\ req' = 0
  /\ grown' = FALSE
  /\ UNCHANGED <<segs, count, offset, xblock_size, queue, used, pages, aborted>>

\* os_mem_alloc_aligned gets memory that is not aligned to a segment: todo()
AllocMisaligned ==
  /\ ~aborted /\ req # 0
  /\ ~Found(req)
  /\ aborted' = TRUE
  /\ UNCHANGED <<segs, count, offset, xblock_size, queue, used, pages, req, grown>>

-----------------------------------------------------------------------------
(* Freeing a page: segment_page_free, segment_page_clear,                   *)
(* segment_span_free_coalesce                                               *)

\* With c, o, x the headers of the segment: the span after the one at i, if
\* there is one and it is free
SpanAfter(c, i) == i + c[i]
FreeAfter(c, x, i) == SpanAfter(c, i) < SliceCount /\ x[SpanAfter(c, i)] = 0

\* the span before the one at i, found through the offset of its last slice
SpanBefore(o, i) == (i - 1) - o[i - 1]

\* (mutant) no look backwards
FreeBefore_Never(o, x, i) == FALSE

FreeBefore(o, x, i) == i > 0 /\ x[SpanBefore(o, i)] = 0

\* the span that results
MergedStart(o, x, i) == IF FreeBefore(o, x, i) THEN SpanBefore(o, i) ELSE i
MergedCount(c, o, x, i) ==
  c[i]
  + (IF FreeAfter(c, x, i) THEN c[SpanAfter(c, i)] ELSE 0)
  + (IF FreeBefore(o, x, i) THEN c[SpanBefore(o, i)] ELSE 0)

\* (mutant) the bins are computed after the counts have been added up
Neighbours_Merged(s, c, o, x, i) ==
  LET b == SliceBin[MergedCount(c, o, x, i)]
      q == IF FreeAfter(c, x, i) THEN Unlink(queue, b, s, SpanAfter(c, i)) ELSE queue
  IN  IF FreeBefore(o, x, i) THEN Unlink(q, b, s, SpanBefore(o, i)) ELSE q

\* the queues without the neighbours that are merged
Neighbours(s, c, o, x, i) ==
  LET bin(j) == SliceBin[c[j]]
      q == IF FreeAfter(c, x, i)
           THEN Unlink(queue, bin(SpanAfter(c, i)), s, SpanAfter(c, i)) ELSE queue
  IN  IF FreeBefore(o, x, i)
      THEN Unlink(q, bin(SpanBefore(o, i)), s, SpanBefore(o, i)) ELSE q

\* the headers after segment_page_clear (xblock_size of i) and segment_span_free
FreedCount(c, o, x, i) == [j \in Slice |->
  IF j = MergedStart(o, x, i) THEN MergedCount(c, o, x, i) ELSE c[j]]
FreedOffset(c, o, x, i) == [j \in Slice |->
  IF j = MergedStart(o, x, i) THEN 0
  ELSE IF j = MergedStart(o, x, i) + MergedCount(c, o, x, i) - 1
       THEN MergedCount(c, o, x, i) - 1 ELSE o[j]]
FreedBlock(c, o, x, i) == [j \in Slice |->
  IF j \in {i, MergedStart(o, x, i)} THEN 0 ELSE x[j]]

Released(s) == [used EXCEPT ![s] = @ - 1]

\* When the last page of the segment is gone segment_free is called: todo().
PageFree(s, i) ==
  LET c == count[s]
      o == offset[s]
      x == xblock_size[s]
  IN
  /\ ~aborted /\ req = 0
  /\ <<s, i>> \in pages
  /\ queue' = Push(Neighbours(s, c, o, x, i), s, MergedStart(o, x, i), MergedCount(c, o, x, i))
  /\ count' = [count EXCEPT ![s] = FreedCount(c, o, x, i)]
  /\ offset' = [offset EXCEPT ![s] = FreedOffset(c, o, x, i)]
  /\ xblock_size' = [xblock_size EXCEPT ![s] = FreedBlock(c, o, x, i)]
  /\ used' = Released(s)
  /\ pages' = pages \ {<<s, i>>}
  /\ aborted' = (used'[s] = 0)
  /\ UNCHANGED <<segs, req, grown>>

\* after todo() nothing runs any more
Aborted == aborted /\ UNCHANGED vars

Next ==
  \/ \E n \in Request : PageAlloc(n)
  \/ \E b \in Bin, s \in Segment, i \in Slice : FindAndAllocate(b, s, i)
  \/ CommitRefused
  \/ \E s \in Segment : SegmentAlloc(s)
  \/ AllocFails
  \/ AllocMisaligned
  \/ \E s \in Segment, i \in Slice : PageFree(s, i)
  \/ Aborted

Spec == Init /\ [][Next]_vars

-----------------------------------------------------------------------------
(* Properties                                                               *)

\* The values the fields can have.
TypeOK ==
  /\ segs \subseteq Segment
  /\ count \in [Segment -> [Slice -> 0 .. SliceCount - 1]]
  /\ offset \in [Segment -> [Slice -> 0 .. SliceCount - 1]]
  /\ xblock_size \in [Segment -> [Slice -> {0, 1}]]
  /\ queue \in [Bin -> SUBSET (Segment \X Slice)]
  /\ used \in [Segment -> Nat]
  /\ pages \subseteq Segment \X Slice
  /\ req \in Request \cup {0}
  /\ grown \in BOOLEAN
  /\ aborted \in BOOLEAN

\* the free spans, and the first slices of the spans of segment s
FreeSpans == UNION {queue[b] : b \in Bin}
Heads(s)  == {0} \cup {i \in Slice : <<s, i>> \in pages \cup FreeSpans}

\* spans that begin at the slices H and have c[i] slices lie side by side
Tiles(H, c) ==
  /\ \A i \in H :
       /\ c[i] >= 1
       /\ i + c[i] \in H \cup {SliceCount}
       /\ \A j \in H : j > i => j >= i + c[i]
  /\ \A j \in Slice : \E i \in H : i <= j /\ j < i + c[i]

\* The spans of a segment lie side by side: each ends where the next begins or
\* the segment ends, none begins inside another, and every slice is in one.
\* segment_slice_split and the two directions of coalescing rely on it.
Tiling == \A s \in segs : Tiles(Heads(s), count[s])

\* free (free.rs) computes the page of a block from the offset of the slice the
\* block lies in, in any thread: every slice of a page leads to its first.
PageLookup ==
  \A p \in pages : \A j \in 0 .. count[p[1]][p[2]] - 1 :
    offset[p[1]][p[2] + j] = j

\* A free span is in the queue of its size and in no other, its header says so
\* (xblock_size is 0), and no page is taken for a free span by a neighbour.
QueueExact ==
  /\ \A b \in Bin : \A p \in queue[b] :
       /\ p[1] \in segs
       /\ xblock_size[p[1]][p[2]] = 0
       /\ count[p[1]][p[2]] >= 1
       /\ b = SliceBin[count[p[1]][p[2]]]
  /\ \A p \in pages : p[1] \in segs /\ xblock_size[p[1]][p[2]] = 1

\* Coalescing leaves no two free spans side by side.
NoFreeNeighbours ==
  \A p \in FreeSpans : <<p[1], p[2] + count[p[1]][p[2]]>> \notin FreeSpans

\* used, on which segment_page_free decides to give the segment up, is the
\* number of its pages.
UsedIsPages ==
  \A s \in segs : used[s] = Cardinality({i \in Slice : <<s, i>> \in pages})

\* The header of a slice of a page is read by other threads (free computes the
\* page of a block, free.rs) without a lock: the owner never writes it while
\* the page is in use, whatever it does to the spans around it.
LiveHeadersUntouched ==
  [][\A p \in pages \cap pages' :
       \A j \in p[2] .. p[2] + count[p[1]][p[2]] - 1 :
         /\ offset'[p[1]][j] = offset[p[1]][j]
         /\ count'[p[1]][j] = count[p[1]][j]
         /\ xblock_size'[p[1]][j] = xblock_size[p[1]][j]]_vars

Heap == INSTANCE SpanSpec WITH
  alloc <- {<<p[1], p[2], count[p[1]][p[2]]>> : p \in pages}

\* A page is cut out of slices no other page has, a new segment is requested
\* only if no segment has enough adjacent slices left, and the request then
\* succeeds without another one (segments_page_alloc calls itself only once).
KeepsSpanPromise == Heap!Spec

-----------------------------------------------------------------------------
(* What else the argument needs                                             *)

\* The recursion of segments_page_alloc ends: a new segment has room.
GrownIsEnough == grown => req # 0 /\ Found(req)
=============================================================================

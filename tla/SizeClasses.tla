---------------------------- MODULE SizeClasses ----------------------------
(***************************************************************************)
(* What the size of a request decides, from malloc to the slices of a      *)
(* page: the queue (bin_sizes.rs), the block size of the queue (init.rs),  *)
(* the slices and the number of blocks of a fresh page (segment.rs,        *)
(* page.rs), the queue the page is looked up in later, and the entries of  *)
(* pages_free_direct a queue writes (queues.rs).  And, on its own, the     *)
(* span queue of a number of slices.  All numbers are those of the code.   *)
(***************************************************************************)
EXTENDS BinSizes, Sequences

CONSTANTS
  MaxSize,     \* bound: the largest request
  MaxSpan      \* bound: the largest span, SLICES_PER_SEGMENT

ASSUME SizeAssumption == MaxSize \in Nat /\ MaxSpan \in Nat

SLICE_SIZE == 65536
MEDIUM_PAGE_SIZE == 8 * SLICE_SIZE
SMALL_OBJ_SIZE_MAX == SLICE_SIZE \div 4
MEDIUM_OBJ_SIZE_MAX == MEDIUM_PAGE_SIZE \div 4
SMALL_SIZE_MAX == 128 * WordSize
MAX_ALIGN_GUARANTEE == 128
BIN_HUGE == 73
SEGMENT_BIN_MAX == 31

VARIABLES
  size,         \* the request
  pq,           \* the queue find_free_page looks in, 0 before
  xblock_size,  \* of the fresh page, 0 before
  slices,       \*   its slices
  reserved,     \*   its blocks, a u16
  home,         \* the queue the page is looked up in when it is unlinked, 0 before
  refused,      \* find_page took the branch that is todo()
  span,         \* a number of slices, 0 if this is about a request
  sbin          \* its span queue, -1 before

vars == <<size, pq, xblock_size, slices, reserved, home, refused, span, sbin>>

Init ==
  /\ \/ size \in 0 .. MaxSize /\ span = 0
     \/ size = 0 /\ span \in 1 .. MaxSpan
  /\ pq = 0 /\ xblock_size = 0 /\ slices = 0 /\ reserved = 0 /\ home = 0
  /\ refused = FALSE
  /\ sbin = -1

\* pages_tmp: the words of a block of each queue, from queue 0 to BIN_FULL
QueueWords ==
  << 1, 1, 2, 3, 4, 5, 6, 7, 8,
     10, 12, 14, 16, 20, 24, 28, 32,
     40, 48, 56, 64, 80, 96, 112, 128,
     160, 192, 224, 256, 320, 384, 448, 512,
     640, 768, 896, 1024, 1280, 1536, 1792, 2048,
     2560, 3072, 3584, 4096, 5120, 6144, 7168, 8192,
     10240, 12288, 14336, 16384, 20480, 24576, 28672, 32768,
     40960, 49152, 57344, 65536, 81920, 98304, 114688, 131072,
     163840, 196608, 229376, 262144, 327680, 393216, 458752, 524288,
     524289, 524290 >>

BlockSize(q) == QueueWords[q + 1] * WordSize

\* find_page, find_free_page
FindPage ==
  /\ span = 0 /\ pq = 0 /\ ~refused
  /\ size <= MEDIUM_OBJ_SIZE_MAX
  /\ pq' = BinOf(size)
  /\ UNCHANGED <<size, xblock_size, slices, reserved, home, refused, span, sbin>>

FindPageTodo ==
  /\ span = 0 /\ pq = 0 /\ ~refused
  /\ size > MEDIUM_OBJ_SIZE_MAX
  /\ refused' = TRUE
  /\ UNCHANGED <<size, pq, xblock_size, slices, reserved, home, span, sbin>>

\* the largest multiple of y up to x, the smallest from x on
align_down(x, y) == (x \div y) * y
align_up(x, y) == ((x + y - 1) \div y) * y

\* segment_page_alloc: what a page of blocks of b bytes is to hold
Required(b) == IF b <= SMALL_OBJ_SIZE_MAX THEN b ELSE MEDIUM_PAGE_SIZE

\* segments_page_alloc
SlicesNeeded(b) ==
  LET alignment == IF Required(b) > MEDIUM_PAGE_SIZE THEN MEDIUM_PAGE_SIZE ELSE SLICE_SIZE
  IN  align_up(Required(b), alignment) \div SLICE_SIZE

\* calculate_start_offset
StartOffset(b) == IF b >= 8 /\ b <= 1024 THEN 3 * MAX_ALIGN_GUARANTEE ELSE 0

\* page_init, with the cast to u16
Reserved(b, n) == ((n * SLICE_SIZE - StartOffset(b)) \div b) % 2 ^ 16

\* page_fresh, page_fresh_alloc, page_init
PageFresh ==
  LET b == BlockSize(pq) IN
  /\ pq # 0 /\ xblock_size = 0
  /\ xblock_size' = b
  /\ slices' = SlicesNeeded(b)
  /\ reserved' = Reserved(b, SlicesNeeded(b))
  /\ UNCHANGED <<size, pq, home, refused, span, sbin>>

\* page_free, page_unfull: the queue is computed again, from the page
PageQueueOf ==
  /\ xblock_size # 0 /\ home = 0
  /\ home' = BinOf(xblock_size)
  /\ UNCHANGED <<size, pq, xblock_size, slices, reserved, refused, span, sbin>>

\* slice_bin, for each caller in segment.rs
SpanQueueOf ==
  /\ span # 0 /\ sbin = -1
  /\ sbin' = SliceBinOf(span)
  /\ UNCHANGED <<size, pq, xblock_size, slices, reserved, home, refused, span>>

\* the request or the span is dealt with
Done ==
  /\ home # 0 \/ refused \/ sbin # -1
  /\ UNCHANGED vars

Next == FindPage \/ FindPageTodo \/ PageFresh \/ PageQueueOf \/ SpanQueueOf \/ Done

Spec == Init /\ [][Next]_vars

\* heap_queue_first_update: the entries of pages_free_direct that queue q writes
DirectLow(q) == IF BlockSize(q) \div 8 <= 1 THEN 0 ELSE 1 + BlockSize(q - 1) \div 8
DirectHigh(q) == BlockSize(q) \div 8
Writes(q) == IF BlockSize(q) > SMALL_SIZE_MAX THEN {} ELSE DirectLow(q) .. DirectHigh(q)

-----------------------------------------------------------------------------
(* Properties                                                               *)

\* size_of_sbin
SizeOfSbin(b) ==
  IF b <= 7 THEN b
  ELSE IF b = 8 THEN 10
  ELSE (((b - 8) % 4) + 5) * 2 ^ ((b - 8) \div 4 + 1)

\* The block of the queue that bin chooses holds the request, and the queue
\* before it has blocks that are too small: the logarithm in bin and the
\* literals of pages_tmp agree.  The entry of pages_free_direct that
\* heap_get_free_small_page reads for the request is written by this queue and
\* by no other, and page_free and page_unfull find the page in it again.  The
\* span queue that slice_bin chooses, too, holds the span and is the first to.
BestFit ==
  /\ pq # 0 =>
       /\ BlockSize(pq) >= size
       /\ pq > 1 => BlockSize(pq - 1) < size
       /\ size <= SMALL_SIZE_MAX =>
            {q \in 1 .. BIN_HUGE : Words(size) \in Writes(q)} = {pq}
  /\ home # 0 => home = pq
  /\ sbin # -1 => span <= SizeOfSbin(sbin) /\ span > SizeOfSbin(sbin - 1)
=============================================================================

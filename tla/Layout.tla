------------------------------- MODULE Layout -------------------------------
(***************************************************************************)
(* Where things are in a segment (layout.rs, the pointer types of          *)
(* types.rs): the memory it is made of and the part of it that is          *)
(* committed for a page (os_alloc.rs, commit_segment.rs, os_commit.rs),    *)
(* the headers of the slices, the first byte of a slice, the blocks of a   *)
(* page; and the way back, from the address that free is given to the      *)
(* header of the page, and from the header of a slice to those of its      *)
(* neighbours.  The way forth starts at the page of SizeClasses, the way   *)
(* back knows nothing but an address.  All numbers are those of the code.  *)
(***************************************************************************)
EXTENDS SizeClasses

CONSTANTS
  SegmentAt,   \* bound: the segments, as multiples of SEGMENT_SIZE
  FirstSlice   \* bound: the slices a page is placed at

ASSUME PlaceAssumption == SegmentAt \subseteq Nat \ {0} /\ FirstSlice \subseteq Nat \ {0}

SLICES_PER_SEGMENT == 512
SEGMENT_SIZE == SLICES_PER_SEGMENT * SLICE_SIZE
SIZEOF_SEGMENT_HEADER == 264
SIZEOF_PAGE_HEADER == 80
SEGMENT_ALIGN == SEGMENT_SIZE
COMMIT_SIZE == SLICE_SIZE
PageSize == 4096     \* get_page_size

VARIABLES
  segment, \* the segment: its start and size, the end of its headers, and what
           \* is committed for them
  page,    \* the address of the header of the page, 0 before
  block,   \* the address of a block of it, 0 before
  found,   \* the header that free computes for the block, 0 before
  around,  \* the headers that segment_span_free_coalesce computes for the page
  area     \* what is committed for the page, and what is decommitted after it

place == <<segment, page, block, found, around, area>>
lvars == <<vars, place>>

Nowhere == [next |-> 0, inside |-> FALSE, last |-> 0, first |-> 0]

NoArea == [start |-> 0, size |-> 0, bits |-> {}]
NoSegment == [start |-> 0, size |-> 0, headers |-> 0, committed |-> NoArea]

LInit ==
  /\ Init
  /\ segment = NoSegment /\ page = 0 /\ block = 0 /\ found = 0
  /\ around = Nowhere /\ area = NoArea

-----------------------------------------------------------------------------
(* The memory of a segment                                                  *)

\* for a normal segment, required = 0
segment_calculate_slices ==
  LET i_size == align_up(SIZEOF_SEGMENT_HEADER, PageSize)
      j_size == align_up(i_size, SLICE_SIZE)
  IN  [segment_slices |-> SEGMENT_SIZE \div SLICE_SIZE, info_slices |-> j_size \div SLICE_SIZE]

\* sizes near usize::MAX, which are left alone, do not occur
os_good_alloc_size(n) ==
  LET kib == 1024
      mib == 1024 * kib
      align_size == CASE n < 512 * kib -> PageSize
                      [] 512 * kib <= n /\ n < 2 * mib -> 64 * kib
                      [] 2 * mib <= n /\ n < 8 * mib -> 256 * kib
                      [] 8 * mib <= n /\ n < 32 * mib -> mib
                      [] OTHER -> 4 * mib
  IN  align_up(n, align_size)

\* os_mem_alloc_aligned: null for an alignment that is no power of two, or less
\* than a page; null is size 0 here.  What mmap returns is OsMem's subject.
Requested(n, alignment) ==
  IF n # 0 /\ alignment >= PageSize /\ \E e \in 0 .. 30 : alignment = 2 ^ e
  THEN [size |-> n, alignment |-> alignment]
  ELSE [size |-> 0, alignment |-> alignment]

os_alloc_aligned(n, alignment) ==
  Requested(IF n = 0 THEN 0 ELSE os_good_alloc_size(n), align_up(alignment, PageSize))

\* another offset gives null or is todo()
os_alloc_aligned_offset(n, alignment, offset) ==
  IF offset = 0 THEN os_alloc_aligned(n, alignment) ELSE [size |-> 0, alignment |-> alignment]

arena_alloc_aligned(n, alignment, offset) == os_alloc_aligned_offset(n, alignment, offset)

\* os_page_align_areax: whole pages of the system, inside or around
os_page_align_areax(conservative, addr, n) ==
  LET start == IF conservative THEN align_up(addr, PageSize) ELSE align_down(addr, PageSize)
      end == IF conservative THEN align_down(addr + n, PageSize) ELSE align_up(addr + n, PageSize)
  IN  IF n = 0 \/ addr = 0 \/ end <= start THEN [start |-> 0, size |-> 0]
      ELSE [start |-> start, size |-> end - start]

\* segment_commit_mask: whole commit units, inside or around; slice 0 stays out
\* unless the area begins there
commit_start(conservative, pstart) ==
  LET start == IF conservative THEN align_up(pstart, COMMIT_SIZE) ELSE align_down(pstart, COMMIT_SIZE)
  IN  IF pstart >= SLICE_SIZE /\ start < SLICE_SIZE THEN SLICE_SIZE ELSE start

commit_end(conservative, pend) ==
  LET end == IF conservative THEN align_down(pend, COMMIT_SIZE) ELSE align_up(pend, COMMIT_SIZE)
  IN  IF end > SEGMENT_SIZE THEN SEGMENT_SIZE ELSE end

\* CommitMask::create, as a set
commit_bits(start, full_size) ==
  LET bitidx == start \div COMMIT_SIZE
      bitcount == full_size \div COMMIT_SIZE
  IN  bitidx .. bitidx + bitcount - 1

segment_commit_mask(s, conservative, p, n) ==
  LET start == commit_start(conservative, p - s)
      end == commit_end(conservative, p - s + n)
  IN  IF n = 0 \/ n > SEGMENT_SIZE \/ p >= s + SEGMENT_SIZE \/ end <= start THEN NoArea
      ELSE [start |-> s + start, size |-> end - start, bits |-> commit_bits(start, end - start)]

\* segment_commitx: the bits of the mask, and what mprotect is called for; a
\* commit rounds to the outside, a decommit to the inside
segment_commitx(s, commit, p, n) ==
  LET mask == segment_commit_mask(s, ~commit, p, n)
      whole == os_page_align_areax(~commit, mask.start, mask.size)
  IN  [start |-> whole.start, size |-> whole.size, bits |-> mask.bits]

\* segment_delayed_decommit: a run of bits
decommit_run(s, idx, count) ==
  segment_commitx(s, FALSE, s + idx * COMMIT_SIZE, count * COMMIT_SIZE)

-----------------------------------------------------------------------------
(* Headers                                                                  *)

get_page_header_ptr(s, idx) == s + SIZEOF_SEGMENT_HEADER + idx * SIZEOF_PAGE_HEADER

get_page_after_end(s) ==
  s + SIZEOF_SEGMENT_HEADER + SLICES_PER_SEGMENT * SIZEOF_PAGE_HEADER

ptr_segment(p) == (p \div SEGMENT_SIZE) * SEGMENT_SIZE

add_offset(p, count) == p + count * SIZEOF_PAGE_HEADER

sub_offset(p, count) == p - count * SIZEOF_PAGE_HEADER

is_gt_0th_slice(p, s) == p > get_page_header_ptr(s, 0)

add_offset_and_check(p, count, s) ==
  LET q == p + count * SIZEOF_PAGE_HEADER
  IN  [next |-> q, inside |-> q < get_page_after_end(s)]

get_index(p) == (p - ptr_segment(p) - SIZEOF_SEGMENT_HEADER) \div SIZEOF_PAGE_HEADER

slice_start(p) ==
  ptr_segment(p)
    + ((p - ptr_segment(p) - SIZEOF_SEGMENT_HEADER) \div SIZEOF_PAGE_HEADER) * SLICE_SIZE

-----------------------------------------------------------------------------
(* Blocks                                                                   *)

segment_page_start_from_slice(s, slice, b) ==
  LET idx == (slice - (s + SIZEOF_SEGMENT_HEADER)) \div SIZEOF_PAGE_HEADER
  IN  s + idx * SLICE_SIZE + StartOffset(b)

calculate_page_start(p, b) == segment_page_start_from_slice(ptr_segment(p), p, b)

\* (mutant) the blocks are numbered from 1
calculate_page_block_at_One(start, b, idx) == start + b * (idx + 1)

calculate_page_block_at(start, b, idx) == start + b * idx

\* (ptr - 1) & !(SEGMENT_SIZE - 1), SEGMENT_SIZE a power of two
calculate_segment_ptr_from_block(ptr) == ((ptr - 1) \div SEGMENT_SIZE) * SEGMENT_SIZE

\* (mutant) the slices are counted up to the next one
calculate_slice_page_ptr_from_block_Up(ptr, s) ==
  LET q == (ptr - s + SLICE_SIZE - 1) \div SLICE_SIZE
  IN  s + SIZEOF_SEGMENT_HEADER + q * SIZEOF_PAGE_HEADER

calculate_slice_page_ptr_from_block(ptr, s) ==
  LET q == (ptr - s) \div SLICE_SIZE
  IN  s + SIZEOF_SEGMENT_HEADER + q * SIZEOF_PAGE_HEADER

calculate_page_ptr_subtract_offset(p, offset) == p - offset

\* the offset in the header of a slice: segment_span_allocate writes it in
\* every slice of the page; another slice has an offset of its own
OffsetAt(h) ==
  LET i == get_index(h) - get_index(page)
  IN  IF i \in 0 .. slices - 1 THEN i * SIZEOF_PAGE_HEADER ELSE 0

-----------------------------------------------------------------------------
(* Steps                                                                    *)

\* the loop of segment_alloc that writes the headers 0 .. SLICES_PER_SEGMENT:
\* cur_page_ptr after it
page_headers_end(s) ==
  s + SIZEOF_SEGMENT_HEADER + (SLICES_PER_SEGMENT + 1) * SIZEOF_PAGE_HEADER

\* segment_alloc, segment_os_alloc: memory is asked for, the slices of the
\* headers are committed, and a header is written for every slice and one more.
\* Where the page is depends on its queue alone, so only the request that fills
\* a block is given a segment (bound)
SegmentAlloc ==
  LET n == segment_calculate_slices
      memory == arena_alloc_aligned(n.segment_slices * SLICE_SIZE, SEGMENT_ALIGN, 0)
  IN
  /\ home # 0 /\ size = xblock_size /\ segment = NoSegment
  /\ memory.size # 0
  /\ \E k \in SegmentAt :
       LET s == k * memory.alignment
           info == os_page_align_areax(FALSE, s, n.info_slices * COMMIT_SIZE)
       IN  segment' = [start |-> s, size |-> memory.size,
                       headers |-> page_headers_end(s),
                       committed |-> [start |-> info.start, size |-> info.size,
                                      bits |-> 0 .. n.info_slices - 1]]
  /\ UNCHANGED <<vars, page, block, found, around, area>>

\* segment_span_allocate: the page gets slices of the segment, slice 0 is never
\* one of them, and segment_ensure_committed commits them
PlacePage ==
  /\ segment # NoSegment /\ page = 0
  /\ \E i \in FirstSlice :
       /\ i + slices <= SLICES_PER_SEGMENT
       /\ page' = get_page_header_ptr(segment.start, i)
       /\ area' = segment_commitx(segment.start, TRUE, slice_start(page'), slices * SLICE_SIZE)
  /\ UNCHANGED <<vars, segment, block, found, around>>

\* page_free_list_extend
MakeBlock ==
  /\ page # 0 /\ block = 0 /\ around = Nowhere
  /\ \E idx \in 0 .. reserved - 1 :
       block' = calculate_page_block_at(calculate_page_start(page, xblock_size), xblock_size, idx)
  /\ UNCHANGED <<vars, segment, page, found, around, area>>

\* free, free_delayed_block: the address is all there is
FreeBlock ==
  LET s == calculate_segment_ptr_from_block(block)
      h == calculate_slice_page_ptr_from_block(block, s)
  IN
  /\ block # 0 /\ found = 0
  /\ found' = calculate_page_ptr_subtract_offset(h, OffsetAt(h))
  /\ UNCHANGED <<vars, segment, page, block, around, area>>

\* segment_span_free_coalesce: for the page, the span after it; and for that
\* span, if the segment goes on, the slice before it and the page it belongs to.
\* Both are in use, so it is the page that segment_perhaps_decommit is called for
Coalesce ==
  LET s == ptr_segment(page)
      next == add_offset_and_check(page, slices, s)
      last == sub_offset(next.next, 1)
  IN
  /\ page # 0 /\ block = 0 /\ around = Nowhere
  /\ around' = [next   |-> next.next,
                inside |-> next.inside,
                last   |-> last,
                first  |-> IF next.inside /\ is_gt_0th_slice(next.next, s)
                           THEN calculate_page_ptr_subtract_offset(last, OffsetAt(last))
                           ELSE 0]
  /\ area' = segment_commitx(s, FALSE, slice_start(page), slices * SLICE_SIZE)
  /\ UNCHANGED <<vars, segment, page, block, found>>

LNext == (Next /\ UNCHANGED place) \/ SegmentAlloc \/ PlacePage \/ MakeBlock \/ FreeBlock \/ Coalesce

LSpec == LInit /\ [][LNext]_lvars

-----------------------------------------------------------------------------
(* Properties                                                               *)

\* From the address of any block of any page, free comes back to the header
\* of the page.  The span after a page is the slice the page ends before,
\* unless the page ends the segment, and the slice before that span leads back
\* to the page: coalescing looks at no header outside the segment.
HeadersFound ==
  /\ found # 0 => found = page
  /\ around # Nowhere =>
       /\ around.inside <=> get_index(page) + slices < SLICES_PER_SEGMENT
       /\ around.inside =>
            /\ slice_start(around.next) = slice_start(page) + slices * SLICE_SIZE
            /\ around.last = add_offset(page, slices - 1)
            /\ around.first = page

\* an area is exactly the slices of the page, in the masks and for the system
IsThePage(a) ==
  /\ a.start = slice_start(page)
  /\ a.size = slices * SLICE_SIZE
  /\ a.bits = get_index(page) .. get_index(page) + slices - 1

\* The headers lie in what is committed for them, the blocks of a page in what is
\* committed for it, inside the segment and apart from the headers; what is given
\* back after the page, in one piece or by the runs of decommit_mask, is what was
\* committed: rounding at three places loses and takes nothing.  The address of a
\* block leaves the two low bits free that ThreadLLWithDelayBits keeps its state
\* in.  No block that would fit is lost to the cast of reserved.
BlockInside ==
  /\ segment # NoSegment =>
       /\ segment.start = ptr_segment(segment.headers)
       /\ segment.size = SEGMENT_SIZE
       /\ segment.headers = get_page_after_end(segment.start) + SIZEOF_PAGE_HEADER
       /\ segment.headers <= segment.committed.start + segment.committed.size
  /\ page # 0 =>
       /\ IsThePage(area)
       /\ area.bits \cap segment.committed.bits = {}
       /\ IsThePage(decommit_run(segment.start, get_index(page), slices))
  /\ block # 0 =>
       /\ area.start <= block
       /\ block + xblock_size <= area.start + area.size
       /\ area.start + area.size <= segment.start + segment.size
       /\ segment.headers <= area.start
       /\ block % 4 = 0
  /\ xblock_size # 0 =>
       /\ reserved >= 1
       /\ StartOffset(xblock_size) + (reserved + 1) * xblock_size > slices * SLICE_SIZE
=============================================================================

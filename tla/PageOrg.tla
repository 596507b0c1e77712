------------------------------ MODULE PageOrg ------------------------------
(***************************************************************************)
(* PageOrg, the state machine of page_organization.rs that the proof of    *)
(* the allocator runs beside segment.rs, queues.rs and page.rs.            *)
(*                                                                         *)
(* It has all headers of the segments of a thread, the lists of free spans *)
(* and of pages with their links, and one range of slices that is taken    *)
(* out (popped) while it changes hands.  A call of the code is a sequence  *)
(* of transitions; what the order of calls is, is left open.               *)
(*                                                                         *)
(* pages is total: a header of a segment that does not exist is blank.     *)
(* The block size in a page's kind is that of its bin and is left out.     *)
(***************************************************************************)
EXTENDS Integers, Sequences, SequencesExt, FiniteSets

CONSTANTS
  Segment,
  SLICES_PER_SEGMENT,
  SEGMENT_BIN_MAX,
  SmallestSbin,      \* smallest_sbin_fitting_size, for 1 .. SLICES_PER_SEGMENT
  ValidBin,          \* the bins of pages, without the one of full pages
  BIN_FULL,
  FirstCount,        \* slices that the segment header may take
  NONE

Idx    == 0 .. SLICES_PER_SEGMENT      \* the last one is past the end
PageId == Segment \X Idx
Sbin   == 0 .. SEGMENT_BIN_MAX
UsedBin == ValidBin \cup {BIN_FULL}

ASSUME SliceAssumption == SLICES_PER_SEGMENT \in Nat /\ SLICES_PER_SEGMENT >= 2
ASSUME SbinAssumption == SmallestSbin \in [1 .. SLICES_PER_SEGMENT -> Sbin]
ASSUME FirstAssumption == FirstCount \subseteq 1 .. SLICES_PER_SEGMENT - 1
ASSUME FullAssumption == BIN_FULL \notin ValidBin
ASSUME NoneAssumption ==
  /\ NONE \notin PageId \cup ValidBin /\ NONE \notin Int /\ NONE \notin BOOLEAN
  /\ NONE \notin [prev : PageId \cup {NONE}, next : PageId \cup {NONE}]

VARIABLES
  pages,             \* PageData of every header
  used,              \* SegmentData.used; its domain are the segments that exist
  popped,            \* Popped: the range that is in nobody's list
  unused_headers, unused_lists,     \* per bin: first and last, and the list
  used_headers, used_lists

vars == <<pages, used, popped, unused_headers, unused_lists, used_headers, used_lists>>

Blank == [dlist |-> NONE, count |-> NONE, offset |-> NONE,
          is_used |-> FALSE, full |-> NONE, kind |-> NONE]

No                      == [tag |-> "No"]
Ready(p, b)             == [tag |-> "Ready", page |-> p, ec |-> b]
Used(p, b)              == [tag |-> "Used", page |-> p, ec |-> b]
SegmentCreating(s)      == [tag |-> "SegmentCreating", seg |-> s]
VeryUnready(s, i, n, b) == [tag |-> "VeryUnready", seg |-> s, start |-> i, count |-> n, ec |-> b]
SegmentFreeing(s, i)    == [tag |-> "SegmentFreeing", seg |-> s, idx |-> i]
ExtraCount(s)           == [tag |-> "ExtraCount", seg |-> s]

Init ==
  /\ pages = [p \in PageId |-> Blank]
  /\ used = [s \in {} |-> 0]
  /\ popped = No
  /\ unused_headers = [b \in Sbin |-> [first |-> NONE, last |-> NONE]]
  /\ unused_lists = [b \in Sbin |-> <<>>]
  /\ used_headers = [b \in UsedBin |-> [first |-> NONE, last |-> NONE]]
  /\ used_lists = [b \in UsedBin |-> <<>>]

-----------------------------------------------------------------------------
(* Lists: the transitions change links and, apart from them, the sequence   *)

\* page_id_range
Range2(s, i, j) == {s} \X (i .. j - 1)

\* the headers of the range get the values V(p)
Overwrite(pg, R, V(_)) == [p \in PageId |-> IF p \in R THEN V(p) ELSE pg[p]]

\* (mutant) the page after p keeps its link back to p
Unlinked_NoPrev(pg, p) ==
  [q \in PageId |->
     IF q = pg[p].dlist.prev THEN [pg[q] EXCEPT !.dlist.next = pg[p].dlist.next] ELSE pg[q]]

\* p leaves its list: the neighbours are linked to each other
Unlinked(pg, p) ==
  [q \in PageId |->
     CASE q = pg[p].dlist.prev -> [pg[q] EXCEPT !.dlist.next = pg[p].dlist.next]
       [] q = pg[p].dlist.next -> [pg[q] EXCEPT !.dlist.prev = pg[p].dlist.prev]
       [] OTHER -> pg[q]]

UnlinkedHeader(pg, h, p) ==
  [first |-> IF pg[p].dlist.prev = NONE THEN pg[p].dlist.next ELSE h.first,
   last  |-> IF pg[p].dlist.next = NONE THEN pg[p].dlist.prev ELSE h.last]

\* p becomes the first page of the list with header h
LinkedFront(pg, h, p) ==
  [q \in PageId |->
     CASE q = p -> [pg[q] EXCEPT !.dlist = [prev |-> NONE, next |-> h.first]]
       [] q = h.first -> [pg[q] EXCEPT !.dlist.prev = p]
       [] OTHER -> pg[q]]

FrontHeader(h, p) == [first |-> p, last |-> IF h.first # NONE THEN h.last ELSE p]

\* p becomes the last page
LinkedBack(pg, h, p) ==
  [q \in PageId |->
     CASE q = p -> [pg[q] EXCEPT !.dlist = [prev |-> h.last, next |-> NONE]]
       [] q = h.last -> [pg[q] EXCEPT !.dlist.next = p]
       [] OTHER -> pg[q]]

BackHeader(h, p) == [first |-> IF h.last # NONE THEN h.first ELSE p, last |-> p]

\* p has its place j in list b of free spans, or of pages
valid_unused_page(p, b, j) ==
  /\ p[2] # 0
  /\ ~pages[p].is_used
  /\ pages[p].count \in 1 .. SLICES_PER_SEGMENT
  /\ pages[p].dlist # NONE
  /\ j \in DOMAIN unused_lists[b] /\ unused_lists[b][j] = p

valid_used_page(p, b, j) ==
  /\ p[2] # 0
  /\ pages[p].is_used
  /\ pages[p].dlist # NONE
  /\ pages[p].offset = 0
  /\ j \in DOMAIN used_lists[b] /\ used_lists[b][j] = p
  /\ pages[p].kind \in ValidBin
  /\ b # BIN_FULL => b = pages[p].kind

-----------------------------------------------------------------------------
(* Free spans                                                               *)

\* (mutant) the span is one slice too long
SpanWritten_Long(pg, s, i, n) ==
  [pg EXCEPT ![<<s, i>>].count = n + 1, ![<<s, i>>].offset = 0,
             ![<<s, i + n - 1>>].offset = n - 1]

\* (mutant) the last slice does not lead to the first
SpanWritten_NoLast(pg, s, i, n) == [pg EXCEPT ![<<s, i>>].count = n, ![<<s, i>>].offset = 0]

\* The header of a free span of n slices from i is written, and the offset of
\* its last slice, with which the span is found from behind.  The other fields
\* of these headers are blank while the range is popped.
SpanWritten(pg, s, i, n) ==
  [pg EXCEPT ![<<s, i>>].count = n, ![<<s, i>>].offset = 0,
             ![<<s, i + n - 1>>].offset = n - 1]

\* the header of a span and the offset of its last slice are forgotten
SpanErased(pg, s, i, n) ==
  [pg EXCEPT ![<<s, i>>].count = NONE, ![<<s, i>>].offset = NONE, ![<<s, i>>].dlist = NONE,
             ![<<s, i + n - 1>>].offset = NONE]

\* p leaves list b of the free spans
LeavesUnused(p, b, j) ==
  /\ pages' = SpanErased(Unlinked(pages, p), p[1], p[2], pages[p].count)
  /\ unused_headers' = [unused_headers EXCEPT ![b] = UnlinkedHeader(pages, @, p)]
  /\ unused_lists' = [unused_lists EXCEPT ![b] = RemoveAt(@, j)]

\* a span of n slices from i becomes the first one of the list of its size
EntersUnused(s, i, n) ==
  LET b == SmallestSbin[n]
      p == <<s, i>>
  IN
  /\ pages' = LinkedFront(SpanWritten(pages, s, i, n), unused_headers[b], p)
  /\ unused_headers' = [unused_headers EXCEPT ![b] = FrontHeader(@, p)]
  /\ unused_lists' = [unused_lists EXCEPT ![b] = <<p>> \o @]

\* a free span is taken to be allocated, or because its segment is given up
take_page_from_unused_queue(p, b, j) ==
  /\ valid_unused_page(p, b, j)
  /\ \/ popped = No /\ popped' = VeryUnready(p[1], p[2], pages[p].count, FALSE)
     \/ /\ popped = SegmentFreeing(p[1], p[2])
        /\ popped' = SegmentFreeing(p[1], p[2] + pages[p].count)
  /\ LeavesUnused(p, b, j)
  /\ UNCHANGED <<used, used_headers, used_lists>>

\* the popped range keeps its first n slices, the others are a free span
split_page(n) ==
  /\ popped.tag = "VeryUnready" /\ ~popped.ec
  /\ n < popped.count
  /\ EntersUnused(popped.seg, popped.start + n, popped.count - n)
  /\ popped' = [popped EXCEPT !.count = n]
  /\ UNCHANGED <<used, used_headers, used_lists>>

\* the range is a free span; ec: the segment still counts it as used
free_to_unused_queue ==
  /\ popped.tag = "VeryUnready"
  /\ EntersUnused(popped.seg, popped.start, popped.count)
  /\ popped' = IF popped.ec THEN ExtraCount(popped.seg) ELSE No
  /\ UNCHANGED <<used, used_headers, used_lists>>

\* (mutant) the counter stays
Uncounted_Kept(s) == used

\* what was taken out does not count any more
Uncounted(s) == [used EXCEPT ![s] = @ - 1]

clear_ec ==
  /\ popped.tag = "ExtraCount"
  /\ used' = Uncounted(popped.seg)
  /\ popped' = No
  /\ UNCHANGED <<pages, unused_headers, unused_lists, used_headers, used_lists>>

\* the place of a free span in the lists (get_list_idx)
ListIdx(p, b) == CHOOSE j \in DOMAIN unused_lists[b] : unused_lists[b][j] = p

\* the free span that follows the popped range is added to it
merge_with_after ==
  LET p == <<popped.seg, popped.start + popped.count>>
      b == SmallestSbin[pages[p].count]
  IN
  /\ popped.tag = "VeryUnready"
  /\ popped.start + popped.count < SLICES_PER_SEGMENT
  /\ ~pages[p].is_used
  /\ LeavesUnused(p, b, ListIdx(p, b))
  /\ popped' = [popped EXCEPT !.count = @ + pages[p].count]
  /\ UNCHANGED <<used, used_headers, used_lists>>

\* the first slice of the span that ends before slice i
BeforeStart(s, i) == (i - 1) - pages[<<s, i - 1>>].offset

\* the one before it; the first span holds the segment header and stays
merge_with_before ==
  LET i == BeforeStart(popped.seg, popped.start)
      p == <<popped.seg, i>>
      b == SmallestSbin[pages[p].count]
  IN
  /\ popped.tag = "VeryUnready"
  /\ popped.start > 1
  /\ i > 0
  /\ ~pages[p].is_used
  /\ LeavesUnused(p, b, ListIdx(p, b))
  /\ popped' = [popped EXCEPT !.start = i, !.count = @ + pages[p].count]
  /\ UNCHANGED <<used, used_headers, used_lists>>

-----------------------------------------------------------------------------
(* Segments                                                                 *)

create_segment(s) ==
  /\ popped = No
  /\ s \notin DOMAIN used
  /\ used' = [t \in DOMAIN used \cup {s} |-> IF t = s THEN 0 ELSE used[t]]
  /\ pages' = Overwrite(pages, Range2(s, 0, SLICES_PER_SEGMENT + 1), LAMBDA p : Blank)
  /\ popped' = SegmentCreating(s)
  /\ UNCHANGED <<unused_headers, unused_lists, used_headers, used_lists>>

\* n slices from i belong together: each says how far it is from the first
RangeWritten(pg, s, i, n) ==
  Overwrite(pg, Range2(s, i, i + n), LAMBDA p :
    [Blank EXCEPT !.dlist = pg[p].dlist, !.offset = p[2] - i,
                  !.count = IF p[2] = i THEN n ELSE pg[p].count])

\* the slices of the segment header; they count as used for the moment
forget_about_first_page(n) ==
  /\ popped.tag = "SegmentCreating"
  /\ pages' = RangeWritten(pages, popped.seg, 0, n)
  /\ used' = [used EXCEPT ![popped.seg] = @ + 1]
  /\ popped' = VeryUnready(popped.seg, n, SLICES_PER_SEGMENT - n, TRUE)
  /\ UNCHANGED <<unused_headers, unused_lists, used_headers, used_lists>>

forget_about_first_page2 ==
  /\ popped.tag = "VeryUnready" /\ popped.ec
  /\ used' = Uncounted(popped.seg)
  /\ popped' = [popped EXCEPT !.ec = FALSE]
  /\ UNCHANGED <<pages, unused_headers, unused_lists, used_headers, used_lists>>

\* a segment without pages is given up: first the slices of its header, then
\* its free spans one by one (take_page_from_unused_queue), then the rest
segment_freeing_start(s) ==
  LET n == pages[<<s, 0>>].count IN
  /\ popped = No
  /\ s \in DOMAIN used /\ used[s] = 0
  /\ pages' = Overwrite(pages, Range2(s, 0, n), LAMBDA p : Blank)
  /\ popped' = SegmentFreeing(s, n)
  /\ UNCHANGED <<used, unused_headers, unused_lists, used_headers, used_lists>>

segment_freeing_finish ==
  /\ popped.tag = "SegmentFreeing" /\ popped.idx = SLICES_PER_SEGMENT
  /\ used' = [t \in DOMAIN used \ {popped.seg} |-> used[t]]
  /\ pages' = Overwrite(pages, Range2(popped.seg, 0, SLICES_PER_SEGMENT + 1), LAMBDA p : Blank)
  /\ popped' = No
  /\ UNCHANGED <<unused_headers, unused_lists, used_headers, used_lists>>
-----------------------------------------------------------------------------
(* Pages                                                                    *)

\* the popped range is laid out for a page and counts as used
allocate_popped ==
  /\ popped.tag = "VeryUnready" /\ ~popped.ec
  /\ pages' = RangeWritten(pages, popped.seg, popped.start, popped.count)
  /\ used' = [used EXCEPT ![popped.seg] = @ + 1]
  /\ popped' = Ready(<<popped.seg, popped.start>>, TRUE)
  /\ UNCHANGED <<unused_headers, unused_lists, used_headers, used_lists>>

PoppedRange == Range2(popped.page[1], popped.page[2], popped.page[2] + pages[popped.page].count)

\* page_init: the page is one of bin k
set_range_to_used(k) ==
  /\ popped.tag = "Ready"
  /\ pages' = Overwrite(pages, PoppedRange, LAMBDA p :
       [pages[p] EXCEPT !.is_used = TRUE, !.kind = IF p = popped.page THEN k ELSE NONE])
  /\ popped' = Used(popped.page, popped.ec)
  /\ UNCHANGED <<used, unused_headers, unused_lists, used_headers, used_lists>>

\* what is left of the header of a slice when its page is cleared
Cleared(h) == [h EXCEPT !.is_used = FALSE, !.kind = NONE, !.offset = NONE, !.count = NONE]

\* segment_page_clear: the slices are no page any more, but still count as one
set_range_to_not_used ==
  /\ popped.tag = "Used"
  /\ pages' = Overwrite(pages, PoppedRange, LAMBDA p : Cleared(pages[p]))
  /\ popped' = VeryUnready(popped.page[1], popped.page[2], pages[popped.page].count, popped.ec)
  /\ UNCHANGED <<used, unused_headers, unused_lists, used_headers, used_lists>>

\* the popped page may enter the list of its bin or that of full pages
MayEnter(b) == popped.tag = "Used" /\ popped.ec /\ b \in {pages[popped.page].kind, BIN_FULL}

Placed(pg, p, b) == [pg EXCEPT ![p].full = (b = BIN_FULL)]

into_used_list(b) ==
  /\ MayEnter(b)
  /\ pages' = Placed(LinkedFront(pages, used_headers[b], popped.page), popped.page, b)
  /\ used_headers' = [used_headers EXCEPT ![b] = FrontHeader(@, popped.page)]
  /\ used_lists' = [used_lists EXCEPT ![b] = <<popped.page>> \o @]
  /\ popped' = No
  /\ UNCHANGED <<used, unused_headers, unused_lists>>

into_used_list_back(b) ==
  /\ MayEnter(b)
  /\ pages' = Placed(LinkedBack(pages, used_headers[b], popped.page), popped.page, b)
  /\ used_headers' = [used_headers EXCEPT ![b] = BackHeader(@, popped.page)]
  /\ used_lists' = [used_lists EXCEPT ![b] = Append(@, popped.page)]
  /\ popped' = No
  /\ UNCHANGED <<used, unused_headers, unused_lists>>

out_of_used_list(p, b, j) ==
  /\ popped = No
  /\ valid_used_page(p, b, j)
  /\ pages' = [Unlinked(pages, p) EXCEPT ![p].full = NONE, ![p].dlist = NONE]
  /\ used_headers' = [used_headers EXCEPT ![b] = UnlinkedHeader(pages, @, p)]
  /\ used_lists' = [used_lists EXCEPT ![b] = RemoveAt(@, j)]
  /\ popped' = Used(p, TRUE)
  /\ UNCHANGED <<used, unused_headers, unused_lists>>

-----------------------------------------------------------------------------
Next ==
  \/ \E b \in Sbin : \E j \in DOMAIN unused_lists[b] :
       take_page_from_unused_queue(unused_lists[b][j], b, j)
  \/ \E n \in 1 .. SLICES_PER_SEGMENT : split_page(n)
  \/ free_to_unused_queue \/ clear_ec
  \/ merge_with_after \/ merge_with_before
  \/ \E s \in Segment : create_segment(s) \/ segment_freeing_start(s)
  \/ \E n \in FirstCount : forget_about_first_page(n)
  \/ forget_about_first_page2
  \/ segment_freeing_finish
  \/ allocate_popped
  \/ \E k \in ValidBin : set_range_to_used(k)
  \/ set_range_to_not_used
  \/ \E b \in UsedBin : into_used_list(b) \/ into_used_list_back(b)
  \/ \E b \in UsedBin : \E j \in DOMAIN used_lists[b] :
       out_of_used_list(used_lists[b][j], b, j)

Spec == Init /\ [][Next]_vars

-----------------------------------------------------------------------------
(* What the source calls a good range                                       *)

\* one_count, ucount: the pages of a segment
ucount(s) == Cardinality({i \in 0 .. SLICES_PER_SEGMENT - 1 :
  i # 0 /\ pages[<<s, i>>].is_used /\ pages[<<s, i>>].offset = 0})

\* ec_of_popped: what the popped range adds to the counter
popped_ec(s) ==
  CASE popped.tag = "Ready" /\ popped.page[1] = s -> IF popped.ec THEN 1 ELSE 0
    [] popped.tag = "Used" /\ popped.page[1] = s -> IF popped.ec THEN 0 ELSE -1
    [] popped.tag = "VeryUnready" /\ popped.seg = s -> IF popped.ec THEN 1 ELSE 0
    [] popped.tag = "ExtraCount" /\ popped.seg = s -> 1
    [] OTHER -> 0

\* popped_for_seg, is_the_popped, popped_len
popped_for_seg(s) ==
  \/ popped.tag \in {"Ready", "Used"} /\ popped.page[1] = s
  \/ popped.tag = "VeryUnready" /\ popped.seg = s
is_the_popped(s, i) ==
  \/ popped.tag \in {"Ready", "Used"} /\ popped.page = <<s, i>>
  \/ popped.tag = "VeryUnready" /\ popped.seg = s /\ popped.start = i
popped_len == IF popped.tag = "VeryUnready" THEN popped.count ELSE pages[popped.page].count

\* the headers of the span that begins at p agree with each other
SpanShape(p, Good(_)) ==
  /\ pages[p].offset = 0
  /\ pages[p].count \in 1 .. SLICES_PER_SEGMENT - p[2]
  /\ \A q \in Range2(p[1], p[2], p[2] + pages[p].count) : Good(q)

good_range0(s) == SpanShape(<<s, 0>>, LAMBDA q :
  /\ pages[q] = [Blank EXCEPT !.count = pages[q].count, !.offset = q[2]]
  /\ pages[q].count # NONE <=> q[2] = 0)

good_range_unused(p) == SpanShape(p, LAMBDA q :
  /\ pages[q] = [Blank EXCEPT !.count = pages[q].count, !.offset = pages[q].offset,
                              !.dlist = pages[q].dlist]
  /\ pages[q].count # NONE <=> q = p
  /\ pages[q].dlist # NONE <=> q = p
  /\ pages[q].offset = IF q[2] \in {p[2], p[2] + pages[p].count - 1} THEN q[2] - p[2] ELSE NONE)

good_range_used(p) == SpanShape(p, LAMBDA q :
  /\ pages[q].is_used
  /\ pages[q].offset = q[2] - p[2]
  /\ pages[q].kind # NONE <=> q = p
  /\ q # p => pages[q].dlist = NONE /\ pages[q].full = NONE)

\* attached_rec: from slice i on the spans of s lie side by side up to the end,
\* with the popped range among them if sp
attached_rec(s, from, withPopped) ==
  LET rec[i \in Idx] == [sp \in BOOLEAN |->
        CASE i = SLICES_PER_SEGMENT -> ~sp
          [] is_the_popped(s, i) ->
               sp /\ popped_len >= 1 /\ i + popped_len \in Idx /\ rec[i + popped_len][FALSE]
          [] OTHER ->
               /\ IF pages[<<s, i>>].is_used THEN good_range_used(<<s, i>>)
                                             ELSE good_range_unused(<<s, i>>)
               /\ rec[i + pages[<<s, i>>].count][sp]]
  IN  rec[from][withPopped]

\* valid_ll: links and header describe the sequence ll
valid_ll(h, ll) ==
  LET at(j) == IF j \in DOMAIN ll THEN ll[j] ELSE NONE IN
  /\ h = [first |-> at(1), last |-> at(Len(ll))]
  /\ \A j \in DOMAIN ll : pages[ll[j]].dlist = [prev |-> at(j - 1), next |-> at(j + 1)]

\* in_popped_range
in_popped_range(p) ==
  CASE popped.tag \in {"Ready", "Used"} -> p \in PoppedRange
    [] popped.tag = "VeryUnready" ->
         p \in Range2(popped.seg, popped.start, popped.start + popped.count)
    [] OTHER -> FALSE

-----------------------------------------------------------------------------
(* The invariants the source states, each under its name                    *)

\* the popped range, while it is laid out for a page, while its slices are one,
\* and while they are nothing
good_range_ready(p) == SpanShape(p, LAMBDA q :
  /\ pages[q] = [Blank EXCEPT !.count = pages[q].count, !.offset = q[2] - p[2]]
  /\ pages[q].count # NONE <=> q = p)

good_range_very_unready(p, n) ==
  p[2] + n <= SLICES_PER_SEGMENT /\ \A q \in Range2(p[1], p[2], p[2] + n) : pages[q] = Blank

inv_ready == popped.tag = "Ready" => good_range_ready(popped.page)

inv_used ==
  popped.tag = "Used" =>
    /\ good_range_used(popped.page)
    /\ pages[popped.page].dlist = NONE /\ pages[popped.page].full = NONE

inv_very_unready ==
  popped.tag = "VeryUnready" =>
    /\ popped.start > 0 /\ popped.count > 0
    /\ good_range_very_unready(<<popped.seg, popped.start>>, popped.count)

inv_segment_creating ==
  popped.tag = "SegmentCreating" =>
    used[popped.seg] = 0 /\ \A i \in Idx : pages[<<popped.seg, i>>] = Blank

\* the slices of a segment that is given up are blank up to idx
seg_free_prefix(s, idx) == \A i \in 0 .. idx - 1 : pages[<<s, i>>] = Blank

inv_segment_freeing ==
  popped.tag = "SegmentFreeing" =>
    /\ used[popped.seg] = 0
    /\ popped.idx \in 1 .. SLICES_PER_SEGMENT
    /\ seg_free_prefix(popped.seg, popped.idx)
    /\ attached_rec(popped.seg, popped.idx, FALSE)

count_off0 ==
  \A p \in PageId : pages[p].count # NONE => pages[p].count \in 1 .. SLICES_PER_SEGMENT - p[2]

\* the popped range is in a segment that exists, and not at its beginning
popped_basics ==
  CASE popped.tag = "No" -> TRUE
    [] popped.tag \in {"Ready", "Used"} ->
         /\ popped.page[1] \in DOMAIN used /\ popped.page[2] # 0
         /\ pages[popped.page].offset = 0
         /\ pages[popped.page].count \in 1 .. SLICES_PER_SEGMENT - popped.page[2]
    [] OTHER -> popped.seg \in DOMAIN used

\* a segment without pages begins with its header and nothing else
end_is_unused(s) ==
  ~(popped.tag \in {"SegmentCreating", "SegmentFreeing"} /\ popped.seg = s) /\ used[s] = popped_ec(s)
    => /\ pages[<<s, 0>>].offset = 0
       /\ ~pages[<<s, 0>>].is_used
       /\ pages[<<s, 0>>].count # NONE

attached_ranges_segment(s) ==
  IF popped = SegmentCreating(s) THEN TRUE
  ELSE IF popped.tag = "SegmentFreeing" /\ popped.seg = s THEN attached_rec(s, popped.idx, FALSE)
  ELSE good_range0(s) /\ attached_rec(s, pages[<<s, 0>>].count, popped_for_seg(s))

\* p is neither popped nor in a segment that is being created
Settled(p) ==
  \/ popped.tag \in {"No", "ExtraCount", "SegmentFreeing"}
  \/ popped.tag \in {"Ready", "VeryUnready"} /\ ~in_popped_range(p)
  \/ popped.tag = "Used" /\ p # popped.page
  \/ popped.tag = "SegmentCreating" /\ p[1] # popped.seg

SettledPages == {p \in PageId : Settled(p) /\ pages[p].is_used /\ pages[p].offset = 0}

data_for_used_header ==
  \A p \in SettledPages : pages[p].dlist # NONE /\ pages[p].full # NONE /\ pages[p].kind \in ValidBin

ll_inv_valid_unused ==
  \A b \in Sbin :
    /\ valid_ll(unused_headers[b], unused_lists[b])
    /\ \A j \in DOMAIN unused_lists[b] :
         LET p == unused_lists[b][j]
         IN  valid_unused_page(p, b, j) /\ pages[p].offset = 0 /\ b = SmallestSbin[pages[p].count]

ll_inv_valid_used ==
  \A b \in UsedBin :
    /\ valid_ll(used_headers[b], used_lists[b])
    /\ \A j \in DOMAIN used_lists[b] :
         LET p == used_lists[b][j]
         IN  /\ valid_used_page(p, b, j)
             /\ pages[p].count # NONE
             /\ pages[p].full = (b = BIN_FULL)
             /\ popped.tag = "Ready" => p # popped.page

ll_inv_valid_used2 ==
  \A p \in SettledPages :
    /\ pages[p].full # FALSE => p \in ToSet(used_lists[BIN_FULL])
    /\ pages[p].full # TRUE => p \in ToSet(used_lists[pages[p].kind])

ll_inv_exists_in_some_list ==
  \A p \in PageId :
    /\ ~(popped.tag = "SegmentCreating" /\ popped.seg = p[1]) /\ ~in_popped_range(p)
    /\ pages[p].offset = 0 /\ ~pages[p].is_used /\ p[2] # 0
    => pages[p].count # NONE /\ \E b \in Sbin : p \in ToSet(unused_lists[b])

-----------------------------------------------------------------------------
(* What the code asks of PageOrg before it follows a link or steps to a      *)
(* neighbour: the contracts of the lemmas it calls, each under its name      *)

\* segment_page_find: from the first span of a queue along the links
first_is_in(b) ==
  LET p == unused_headers[b].first
  IN  popped = No /\ p # NONE => valid_unused_page(p, b, 1)

next_is_in(b, j) ==
  LET p == pages[unused_lists[b][j]].dlist.next
  IN  popped = No /\ p # NONE => valid_unused_page(p, b, j + 1)

\* page_queue_find_free_ex: the same for the pages of a bin
used_first_is_in(b) ==
  LET p == used_headers[b].first
  IN  popped.tag # "Ready" /\ p # NONE => valid_used_page(p, b, 1)

used_next_is_in(b, j) ==
  LET p == pages[used_lists[b][j]].dlist.next
  IN  p # NONE => valid_used_page(p, b, j + 1)

\* page_queue_remove: only the first page has no page before it
used_page_dlist_facts(b, j) ==
  LET p == used_lists[b][j]
      e == pages[p].dlist
  IN  /\ e.prev = NONE => j = 1 /\ used_headers[b].first = p
      /\ e.next # NONE => e.next # p /\ pages[e.next].is_used /\ pages[e.next].dlist # NONE

\* page_queue_of: a page between two calls is in the queue that its flag names
marked_full_is_in(p) ==
  pages[p].full # FALSE =>
    /\ \E j \in DOMAIN used_lists[BIN_FULL] : valid_used_page(p, BIN_FULL, j)
    /\ pages[p].kind \in ValidBin

marked_unfull_is_in(p) ==
  pages[p].full # TRUE =>
    \E j \in DOMAIN used_lists[pages[p].kind] : valid_used_page(p, pages[p].kind, j)

\* segment_span_remove_from_queue: a free span beside a range that is taken out, or
\* in a segment that is given up, is in the queue that its length names
unused_is_in_sbin(p) ==
  popped.tag \in {"VeryUnready", "SegmentFreeing"} /\ ~pages[p].is_used /\ p[2] # 0 =>
    LET b == SmallestSbin[pages[p].count] IN valid_unused_page(p, b, ListIdx(p, b))

\* segment_free: the next slice of a segment that is given up begins a free span
segment_freeing_is_in ==
  popped.tag = "SegmentFreeing" /\ popped.idx < SLICES_PER_SEGMENT =>
    LET p == <<popped.seg, popped.idx>>
    IN  pages[p].offset = 0 /\ pages[p].count # NONE /\ unused_is_in_sbin(p) /\ ~pages[p].is_used

\* segment_span_free_coalesce: a span begins where the range ends, and the last
\* slice before the range leads to the beginning of its span
valid_page_after ==
  popped.tag = "VeryUnready" /\ popped.start + popped.count < SLICES_PER_SEGMENT =>
    pages[<<popped.seg, popped.start + popped.count>>].offset = 0

valid_page_before ==
  popped.tag = "VeryUnready" =>
    LET last == <<popped.seg, popped.start - 1>>
        off  == pages[last].offset
    IN  /\ off \in 0 .. last[2]
        /\ pages[<<popped.seg, last[2] - off>>].offset = 0
        /\ pages[<<popped.seg, last[2] - off>>].count = off + 1

\* span_queue_delete: the neighbours of a free span in its queue are two other
\* free spans, and none of them is the slice whose offset is forgotten with it
take_page_from_unused_queue_page_facts(p) ==
  LET last == <<p[1], p[2] + pages[p].count - 1>>
  IN  /\ good_range_unused(p)
      /\ ~pages[last].is_used /\ pages[last].kind = NONE
      /\ last # p => pages[last].dlist = NONE

take_page_from_unused_queue_dlist_facts(p) ==
  LET e == pages[p].dlist
      free(q) == q # NONE => q # p /\ pages[q].dlist # NONE /\ ~pages[q].is_used
  IN  /\ free(e.prev) /\ free(e.next)
      /\ e.prev # NONE /\ e.next # NONE => e.prev # e.next

\* coalescing: the free span that is merged has the length its last slice tells,
\* ends at the range and is in the queue of this length
merge_with_before_page_facts ==
  LET last == <<popped.seg, popped.start - 1>>
      p    == <<popped.seg, BeforeStart(popped.seg, popped.start)>>
  IN  popped.tag = "VeryUnready" /\ popped.start > 1 /\ p[2] > 0 /\ ~pages[p].is_used =>
        /\ ~pages[last].is_used
        /\ p[2] + pages[p].count = popped.start
        /\ good_range_unused(p) /\ unused_is_in_sbin(p)

merge_with_before_dlist_facts ==
  LET last == <<popped.seg, popped.start - 1>>
      p    == <<popped.seg, BeforeStart(popped.seg, popped.start)>>
  IN  popped.tag = "VeryUnready" /\ popped.start > 1 /\ p[2] > 0 /\ ~pages[p].is_used =>
        take_page_from_unused_queue_dlist_facts(p) /\ last \notin {pages[p].dlist.prev, pages[p].dlist.next}

merge_with_after_page_facts ==
  LET p == <<popped.seg, popped.start + popped.count>>
  IN  popped.tag = "VeryUnready" /\ p[2] < SLICES_PER_SEGMENT /\ ~pages[p].is_used =>
        /\ popped.count + pages[p].count <= SLICES_PER_SEGMENT
        /\ good_range_unused(p) /\ unused_is_in_sbin(p)

Headers == {p \in PageId : pages[p].offset = 0}
PageHeaders == {p \in Headers : pages[p].is_used}

\* free: every slice of a page leads to its header
get_offset_for_something_in_used_range(p) ==
  \A q \in Range2(p[1], p[2], p[2] + pages[p].count) :
    pages[q].is_used /\ pages[q].offset = q[2] - p[2]

\* the memory of two pages, and of a page and the range, is disjoint
Apart(p, i, n) == p[2] + pages[p].count <= i \/ i + n <= p[2]

lemma_range_disjoint_used2(p, q) ==
  p # q /\ p[1] = q[1] => Apart(p, q[2], pages[q].count)

lemma_range_disjoint_very_unready(p) ==
  popped.tag = "VeryUnready" /\ p[1] = popped.seg => Apart(p, popped.start, popped.count)

-----------------------------------------------------------------------------
(* Properties                                                               *)

\* The counter on which segment_page_free decides to give a segment up counts
\* its pages, in every state between the transitions of one call, in which the
\* range that changes hands counts already or still (count_is_right); a segment
\* whose counter is zero has its header in front and can be given up.
CountIsRight == \A s \in DOMAIN used : used[s] = ucount(s) + popped_ec(s) /\ end_is_unused(s)

\* The spans of a segment and the range that is taken out lie side by side, and
\* the headers of each have the shape of what it is, the popped range in each of
\* its forms too; while a segment is given up this holds for what is left of it.
AttachedRanges ==
  /\ \A s \in DOMAIN used : attached_ranges_segment(s)
  /\ count_off0 /\ popped_basics
  /\ inv_ready /\ inv_used /\ inv_very_unready
  /\ inv_segment_creating /\ inv_segment_freeing

\* The links of the code and the sequences of the proof are the same lists. A
\* free span is in the list of its size, a page in the one of its bin or that of
\* full pages, as its header says, and no span or page is missing.
ListsExact ==
  /\ ll_inv_valid_unused /\ ll_inv_exists_in_some_list
  /\ ll_inv_valid_used /\ ll_inv_valid_used2 /\ data_for_used_header

\* Headers and links describe the segments: the invariants of the source but for
\* the counter, in every state between two transitions of one call.
OrgSound == AttachedRanges /\ ListsExact

\* The code may follow what it reads: a walk along a queue stays in that queue,
\* a span that leaves its queue has free spans around it there, the flag of a
\* page and the length of a span name the queue it is in, the neighbours of a
\* range that is being coalesced are found from their headers, and no two pages
\* share a slice.
CodeFindsItsWay ==
  /\ \A b \in Sbin : first_is_in(b) /\ \A j \in DOMAIN unused_lists[b] :
       /\ next_is_in(b, j)
       /\ take_page_from_unused_queue_page_facts(unused_lists[b][j])
       /\ take_page_from_unused_queue_dlist_facts(unused_lists[b][j])
  /\ \A b \in UsedBin : \A j \in DOMAIN used_lists[b] :
       used_next_is_in(b, j) /\ used_page_dlist_facts(b, j)
  /\ \A b \in ValidBin : used_first_is_in(b)
  /\ popped = No => \A p \in PageHeaders : marked_full_is_in(p) /\ marked_unfull_is_in(p)
  /\ \A p \in Headers : unused_is_in_sbin(p)
  /\ segment_freeing_is_in /\ valid_page_after /\ valid_page_before
  /\ merge_with_after_page_facts
  /\ merge_with_before_page_facts /\ merge_with_before_dlist_facts
  /\ \A p \in PageHeaders :
       /\ good_range_used(p) /\ get_offset_for_something_in_used_range(p)
       /\ lemma_range_disjoint_very_unready(p)
       /\ \A q \in PageHeaders : lemma_range_disjoint_used2(p, q)

\* what slice q is: part of the listed span or page that begins at p, or taken out
Role(q) ==
  LET inSpan(L) == {p \in UNION {ToSet(L[b]) : b \in DOMAIN L} :
                      q \in Range2(p[1], p[2], p[2] + pages[p].count)}
  IN  IF inSpan(used_lists) # {} THEN <<"page", inSpan(used_lists)>>
      ELSE IF inSpan(unused_lists) # {} THEN <<"free", inSpan(unused_lists)>>
      ELSE <<"out", {}>>

\* A slice of a page in the heap's lists becomes part of a free span, of another
\* page or of a larger page only through the popped range: no transition turns
\* listed slices into something else behind the back of the thread that has
\* taken nothing out. Other threads read these headers in free (free.rs).
ThroughPopped ==
  [][\A q \in PageId : Role(q)' # Role(q) =>
       \/ Role(q)[1] = "out"
       \/ Role(q)'[1] = "out"]_vars
=============================================================================

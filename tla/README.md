# TLA+ verification of verus-mimalloc

`verus-mimalloc` is a memory allocator in Rust, a port of mimalloc, verified
with Verus against a sequential contract for each call plus ghost tokens for
what threads share. Verus shows that the code is memory safe and that the
ghost state machines are respected; it says nothing about what the protocol
between threads *achieves* (does a freed block come back, is memory stranded on
a full page, can a loop wait for ever), and several functions of the protocol
are trusted (`check_is_good` and `disable` are `external_body`). This project
models the executable code and states those properties directly.

## 1. Inventory

All sources are in `src/verus-mimalloc/`.

| Component | State | Operations | Correct means |
|---|---|---|---|
| Multi-threaded free (`free.rs`, `linked_list.rs`) | per page `xthread_free`: head pointer and two `DelayState` bits in one word; per heap `thread_delayed_free` | `free`, `free_block`, `free_block_mt`, `free_delayed_block`, `try_use_delayed_free`, `check_is_good`, `take`, `atomic_insert_block` | no block lost or duplicated, the owner learns of every block freed on a full page, no page is cleared under a thread that uses it |
| malloc (`alloc_fast.rs`, `alloc_generic.rs`) | page lists `free`, `local_free`, counters `used`, `capacity` | `page_malloc`, `malloc_generic`, `heap_delayed_free_partial`, `page_free_collect`, `page_extend_free` | returns a block nobody holds; terminates |
| Page life cycle (`page.rs`) | which queue a page is in, `in_full`, `retire_expire` | `find_page`, `page_queue_find_free_ex`, `page_fresh`, `page_to_full`, `page_unfull`, `page_retire`, `page_free` | a page is cleared only when nothing of it is outside |
| Page queues (`queues.rs`) | 75 doubly linked queues, `pages_free_direct[129]`, `page_count` | `page_queue_remove`, `page_queue_push`, `page_queue_push_back`, `heap_queue_first_update` | links consistent; each cache entry names the first page of its class |
| Segments (`segment.rs`) | 512 slices per segment, spans, 32 span queues, `used` | `segment_page_alloc`, `segment_span_allocate`, `segment_slice_split`, `segment_span_free`, coalescing, `segment_alloc`, `segment_page_clear` | spans tile the segment; free neighbours are merged; each free span is in the queue of its size |
| Block lists (`linked_list.rs`, `types.rs`) | a head per list, a link in the first word of each free block | `insert_block`, `pop_block`, `append`, `prepend_contiguous_blocks`, `take` | words and links are the lists they stand for, whoever pushes meanwhile |
| PageOrg (`page_organization.rs`) | ghost: all headers, the lists with their links, the range that is taken out | 17 transitions; a call of `segment.rs`, `queues.rs` or `page.rs` is a sequence of them | between any two of them the counter, the ranges and the lists are right, and what the code reads next leads where it expects |
| Mim (`tokens.rs`) | ghost: what each thread has and may read | transitions that create, enable, check, disable and destroy heaps, segments, pages, blocks and the delay state | a transition finds what it takes; who holds a token may read what it guards |
| Commit mask (`commit_mask.rs`) | 8 words of 64 bits | `set`, `clear`, `create`, `create_intersect`, `next_run`, tests | agrees with sets of bit numbers |
| Commit state (`commit_segment.rs`) | `commit_mask`, `decommit_mask`, `decommit_expire` | `segment_ensure_committed`, `segment_perhaps_decommit`, `segment_delayed_decommit`, `segment_commitx` | slices in use are committed, whatever OS calls fail |
| Size classes (`bin_sizes.rs`) | none | `bin`, `slice_bin`, tables | smallest class that is large enough |
| OS layer (`os_*.rs`, `arena.rs`) | `ALIGNED_BASE`, the address space | mmap at a hint and anywhere, commit, decommit, aligned hints | what is mapped belongs to one thread; segments are aligned; masks tell what is accessible |
| Initialisation (`init.rs`, `thread.rs`) | `THREAD_COUNT`, empty page | `heap_init`, thread ids | one heap per thread |
| Layout, configuration, flags | none | address arithmetic | `free` finds the header from the address of a block; blocks lie in committed memory |
| Glue (`lib.rs`), `realloc.rs`, `bitmap.rs` | none | C entry points | realloc is `todo()`, bitmap is commented out |

**Interactions.** The program calls `malloc` and `free`. A heap belongs to one
thread, its owner. The owner alone touches page headers, queues and segments;
the other threads reach a page only through the two atomic words. A remote
`free` either pushes the block onto the page's `xthread_free` (silently), or,
if the `DelayState` asks for it, onto the heap's `thread_delayed_free`, which
announces the page to the owner. The owner takes both lists in
`malloc_generic` and clears pages whose last block came back; a cleared page's
slices return to the segment, which may give their memory back to the system.

**What is hard.** Remote frees race each other and the owner on words that hold
two things at once; a thread in the *Freeing* window uses a page of which it no
longer holds any block; the owner gives up after four yields and puts the block
back on the list it is draining; full pages are never searched, so a missed
announcement strands their memory for good; weak exchanges fail for no reason;
an exchange may see the address it loaded with another list behind it.
Sequentially hard are the boundary cases of span coalescing, of bit runs in the
commit mask and of size classes. `PROJECT.json` lists each hazard at its line.

## 2. Modules

| Module | Models |
|---|---|
| `DelayedFree` | the protocol: remote frees, the owner's malloc and free, the life of pages, for one size class of one heap |
| `AllocatorSpec` | what malloc and free promise: a block is available, allocated or returning |
| `MimTokens` | the token protocol of one heap: what a step of `DelayedFree` may do to the tokens |
| `Mim` | the token state machine of `tokens.rs`, for several threads and heaps |
| `BlockLists` | the lists of one page in memory: links, words, the walk of `append` |
| `ListSpec` | what these lists are: sequences of blocks |
| `BlockListsProofs` | its inductive invariant and theorems, the refinement of `ListSpec` |
| `MimProofs` | the inductive invariant of `Mim`, its theorems, the view of one heap |
| `DelayedFreeProofs` | the inductive invariant, the theorems, the refinement |
| `SegmentSpans` | the slices of the segments of a thread: requests for pages, splitting, coalescing, span queues |
| `SpanSpec` | what the segments promise the heap: a page is a run of slices no other page has |
| `SegmentSpansProofs` | the inductive invariant of `SegmentSpans`, its theorems, the refinement |
| `PageOrg` | the state machine of `page_organization.rs` |
| `PageOrgProofs` | its inductive invariant and theorems |
| `BinSizes` | `bin` and `slice_bin` |
| `SizeClasses` | everything the size of a request decides, with the numbers of the code |
| `Layout` | where a page, its blocks and its headers are, and the way back; extends `SizeClasses` |
| `CommitSegment` | the memory of a segment: commit on allocation, delayed decommit |
| `CommitSegmentProofs` | its inductive invariant and theorems |
| `CommitMask` | the bit mask: words, shifts, the loops of `create` and `next_run` |
| `PageQueues` | the page queues with their links, `pages_free_direct`, the search for a page |
| `QueueSpec` | what the queues are: sequences of pages |
| `PageQueuesProofs` | the inductive invariant of `PageQueues`, its theorems, the refinement |
| `OsMem` | heaps and segments of several threads in one address space |
| `OsMemProofs` | its inductive invariant and theorems |
| `MCDelayedFree`, `MCBlockLists`, `MCMim`, `MCSegmentSpans`, `MCPageOrg`, `MCSizeClasses`, `MCCommitSegment`, `MCCommitMask`, `MCPageQueues`, `MCOsMem` and their `.cfg` files | instances for TLC |

### DelayedFree

One action is one access to a shared word, together with everything the thread
does up to its next one; all of that touches only memory it owns.

| State | Code |
|---|---|
| `state[p]` | the queue page `p` is in: `bin` (its size class), `full`, none (`popped`), or not a page at all (`unused`) |
| `free`, `local_free`, `used` | the fields of `PageInner` |
| `raw[p]` | the blocks between `capacity` and `reserved`, not yet carved |
| `delay[p]`, `thead[p]`, `tfree[p]` | `xthread_free`: the two low bits, the pointer, the list hanging from it |
| `dhead`, `dfree` | `thread_delayed_free`: the pointer, the list |
| `user` | blocks in the hands of the program |
| `rpc`, `rblk`, `rpage`, `rhead`, `rdelay` | program counter and locals of each remote thread |
| `opc`, `opage`, `oblk`, `pend`, `ohead`, `odelay`, `yields`, `oret`, `first_try` | program counter and locals of the owner |

| Actions | Code |
|---|---|
| `RFree`, `RLoad`, `RCasFreeing`, `RCasPush`, `RCasFail` | `free` up to `free_block_mt`, its loop on `xthread_free` |
| `RDelayedLoad`, `RDelayedPush`, `RDelayedFail`, `RXor` | the *Freeing* window: push on the heap's list, `fetch_xor(3)` |
| `OFree`, `OPageFree`, `OCheckGood`, `OClear` | local free, `page_retire`, `page_unfull`, `page_free`, `segment_page_clear` |
| `OMallocFast`, `OAlloc` | `page_malloc` |
| `OTakeLoad`, `OTakeSwap`, `OPop`, `OPopDone` | `heap_delayed_free_partial` |
| `OTryYield`, `OTryGiveUp`, `OTryLoad`, `OTryCas`, `OTryFail` | `try_use_delayed_free` |
| `OReinsertLoad`, `OReinsertPush`, `OReinsertFail` | the block that was given up goes back |
| `OCollectLoad`, `OCollectSkip`, `OCollectTake`, `ODelayedFree` | `page_free_collect`, the end of `free_delayed_block` |
| `OFind`, `OFindNone`, `OFirst`, `OWalk`, `OLookFound`, `OLookExtend`, `OToFull`, `OFresh`, `ONoPage` | `find_page` and below |
| `Aborted` | `todo()` |

Simplifications, and why they lose nothing the properties speak about:

* One size class. Pages of different classes share only the segment and the
  delayed list; several classes and the direct-page cache are in `PageQueues`.
* The queue of the class is a set: the model allows every order.
* A list is its set of blocks and its head. The code pushes single blocks and
  takes whole lists; a push writes the loaded head as next pointer and succeeds
  only if the head is still the same, so it prepends to whatever list is there
  then, also after the head went away and came back. `BlockLists` has the links
  and checks just this.
* `retire_expire`, `page_retired_min` and `page_retired_max` are written and
  never read by this code, so they are left out.
* In `try_use_delayed_free` the branches "already the wanted state" and
  `NeverDelayedFree` are one outcome (`OTryLoad`); `DelayExact` shows that
  neither is taken.
* `page_fresh` may return null at any time (`ONoPage`). The callers handle it and
  the contracts of the OS layer allow it, so the model has it; in this version
  of the OS layer a refused mmap or mprotect ends the process instead
  (`os_alloc.rs:461`, `os_mem.rs:245`). The same holds for `AllocFails` and
  `CommitRefused` of `SegmentSpans`.
* Memory is sequentially consistent, as Verus assumes of its atomics.

### SegmentSpans

Only the owner of a segment runs this code, so one action is one call, except
that `segments_page_alloc` takes one step per round of its recursion. What can
go wrong is a matter of long sequences of calls: headers inside a span keep
what an older span left there, and every call trusts what it reads from them.

| State | Code |
|---|---|
| `count[s][i]`, `offset[s][i]`, `xblock_size[s][i]` | the header of slice `i`; the offset in headers, the size as 0 (free) or 1 (a page, whatever its block size) |
| `queue[b]` | the free spans in `span_queue_headers[b]` |
| `used[s]`, `segs` | `SegmentHeaderMain2.used`, the segments the thread has |
| `pages` | the pages the heap has, its side of the interface |
| `req`, `grown` | the request under way, and whether it has obtained a segment |

| Actions | Code |
|---|---|
| `PageAlloc` | `segment_page_alloc`, the beginning of `segments_page_alloc` |
| `FindAndAllocate` | `segments_page_find_and_allocate`, `span_queue_delete`, `segment_slice_split`, `segment_span_allocate` |
| `CommitRefused` | the span that was found cannot be committed: `todo()` |
| `SegmentAlloc`, `AllocFails`, `AllocMisaligned` | `segment_alloc` and the two ways it ends without a segment (null, `todo()`) |
| `PageFree` | `segment_page_free`, `segment_page_clear`, both directions of `segment_span_free_coalesce`, `segment_span_free`; `segment_free` if no page is left (`todo()`) |

A span queue is a set, so the model takes any span of the first bin that has
one that fits; the code takes the first in the list. `segment_perhaps_decommit`
and `segment_ensure_committed` change the commit state only, which belongs to
`CommitSegment`. `slice_bin` is a constant function that is assumed to be
monotone; `BestFit` of `SizeClasses` implies the assumption for the 512 slices of
the code. The links of the span queues are in `PageOrg`.

### PageOrg

`page_organization.rs` is the state machine the Verus proof runs beside the code
of spans and pages. It is finer than `SegmentSpans`: one call of the code is a
sequence of transitions, between which a range of slices is *popped*, in nobody's
list and with headers that say nothing. The code reads other headers and links in
these moments, so they are where an invariant has to hold.

| State | Code |
|---|---|
| `pages` | `PageData` of every header: links, count, offset, whether it is a page, in which list and of which bin |
| `used` | `SegmentData.used`; its domain are the segments that exist |
| `popped` | the range that changes hands: `No`, `VeryUnready`, `Ready`, `Used`, `SegmentCreating`, `SegmentFreeing`, `ExtraCount` |
| `unused_headers`, `unused_lists`, `used_headers`, `used_lists` | first and last of each list, and the list as the proof has it |

| Transitions | Calls |
|---|---|
| `take_page_from_unused_queue`, `split_page`, `allocate_popped` | `segments_page_find_and_allocate` |
| `set_range_to_used`, `into_used_list`, `into_used_list_back`, `out_of_used_list` | `page_init`, `page_queue_push`, `page_queue_push_back`, `page_queue_remove` |
| `set_range_to_not_used`, `merge_with_after`, `merge_with_before`, `free_to_unused_queue`, `clear_ec` | `segment_page_clear`, `segment_span_free_coalesce`, `segment_span_free` |
| `create_segment`, `forget_about_first_page`, `forget_about_first_page2` | `segment_alloc` |
| `segment_freeing_start`, `segment_freeing_finish` | giving a segment up, `todo()` in the code |

The model takes the transitions in every order their conditions allow, which
includes all orders of the code. `good_range_*`, `attached_rec`, `ll_inv_*` and
the other invariants keep their names. So do the lemmas the code calls before it
follows a link (`first_is_in`, `valid_page_before`, `merge_with_before_page_facts`
and so on): the definition is the contract of the lemma. The inductive proofs
of the file are not translated; `PageOrgProofs` proves the same from an invariant of
its own.

### Mim, MimTokens

`Mim` has the fields and transitions of `tokens.rs` under their names. In a
tokenized state machine `remove`, `have` and `require` are conditions, but what
`add`, `deposit`, `withdraw`, `guard` and `assert` need is an obligation, so these
are not in the guards of the actions but in `ThreadObligations`, `PageObligations`,
`DelayObligations` and `Conclusions`, which have to hold wherever the guard does.
A shared access is a model value.

`MimTokens` is the same protocol for the pages of one heap, as operators on a
record of tokens. It links the two sides: `OneHeapView` says that `Mim` looks like
`MimTokens` to each thread, and `FollowsMim` that each step of `DelayedFree`, the
executable code, is a transition of `MimTokens` whose conditions hold, with
page creation (`MimFresh`) and clearing (`MimClear`) as the sequences of
transitions that `page_init` and `segment_page_clear` make.

### BlockLists, ListSpec

One page with its blocks at addresses, `mem[a]` the first word of each: a link
while the block is on a list, `JUNK` while the program has it. `xfree` is the word
with the address and the two bits, computed on as the code does
(`masked_ptr_delay_*`). The actions are those of `DelayedFree` with the writes of
links where the code makes them: before the exchange, one per block in `append`
(`OAppendWalk`, `OAppendEnd`), all at once in memory nobody else sees
(`prepend_contiguous_blocks`). The other pages of the heap are three choices: malloc
may be served elsewhere, `page_retire` may keep the page, a cleared page may come
back. `ListSpec` has six sequences; `Blocks` reads them off the memory.

### OsMem

| State | Code |
|---|---|
| `aligned_base`, `thread_count` | `ALIGNED_BASE`, `THREAD_COUNT` |
| `prot` | the address space, in slices: unmapped, without access, read and write |
| `pc`, `hint`, `commit`, `fresh` | where a thread is in `heap_init` or `segment_alloc`, and its locals |
| `segments`, `heap` | what a thread has, with the commit mask of each segment |

| Actions | Code |
|---|---|
| `increment_thread_count`, `thread_data_alloc`, `init_empty_page_ptr` | `heap_init` |
| `segment_alloc`, `HintFirst`, `HintReset`, `HintAgain` | the decision to commit, the three accesses to `ALIGNED_BASE` in `os_get_aligned_hint` |
| `MapAtHint`, `MapAnywhere`, `segment_os_alloc` | `unix_mmapx` and its second try, alignment test, committing the headers |
| `os_commit`, `os_decommit` | the calls `segment_commitx` makes |

mmap takes the hint if nothing is there and any free place otherwise, or fails;
mprotect may fail. Where the code panics or calls `todo()` the process ends and its
memory is gone (`Abort`). The test of `tld.segments.count` in `segment_alloc` is left
out: no code counts it up.

### CommitSegment

The commit state of one segment. Its pages come and go as `SegmentSpans` allows:
a page is cut off the beginning of a maximal free run, and a freed page is
merged with the free slices on both sides (`Tiling` and `NoFreeNeighbours` there
say that this is what the headers describe). A commit unit is a slice, and all
addresses are starts of spans, so a mask is a set of slices.

| State | Code |
|---|---|
| `commit_mask`, `decommit_mask` | the fields of `SegmentHeaderMain` |
| `armed`, `left` | `decommit_expire`: whether it is set, and how far it lies ahead of the clock; all the code does is to compare the two and to add an option to one of them |
| `mem` | what the process may access: what mprotect was told |
| `pages`, `eager` | the pages in use; whether the segment was committed as a whole |
| `pc`, `idx` | where the owner is in `segment_delayed_decommit` |
| `drained` | history, for `GivenBack` |

| Actions | Code |
|---|---|
| `PageAlloc` | `segment_span_allocate` with `segment_ensure_committed`, `segment_commitx(true)` |
| `PageFree` | `segment_span_free` with `segment_perhaps_decommit`: four ways the deadline can lie |
| `DecommitRun`, `DecommitDone` | a round of the loop of `segment_delayed_decommit` with `segment_commitx(false)`, and its end |
| `CommitPanics`, `DecommitPanics` | mprotect fails: panic |
| `Tick` | the monotonic clock |

`allow_decommit` is true for every segment of this version (no large or pinned
memory), so the early returns on it are left out.

### CommitMask

A word is the set of its bits; `Shr` and `Shl` drop what leaves the word. The
operations on all words are functions, `create` and `next_run` run loop by loop
(`CreateWord`; `ScanWord`, `ShiftZero`, `CountBit`, `NextWord` and their exits),
because what can go wrong is in the indices. Masks are made the way the callers
do: from the empty or full one, with runs that are set, cleared or intersected.
`WordsAreSets` is what `CommitSegment` uses of it (`NextRunAt`, `RunFrom`).

### PageQueues, QueueSpec

`DelayedFree` has one class and its queue is a set. `PageQueues` has the links,
all classes and the cache, and leaves the blocks out: a page may turn out to be
full, get a block back or lose its last one at any time.

| State | Code |
|---|---|
| `h.first`, `h.last` | `Heap.pages`; the queue of full pages is the one after the classes |
| `h.next`, `h.prev`, `h.in_full` | the headers of the pages; links of a page that was removed stay as they were |
| `h.direct`, `h.page_count` | `pages_free_direct`, `page_count` |
| `class` | the queue `bin(xblock_size)`, 0 when the header is cleared |
| `pc`, `wq`, `cursor`, `first_try` | where `page_queue_find_free_ex` is |

| Actions | Code |
|---|---|
| `FindFree`, `WalkFound`, `WalkFull`, `WalkFresh`, `WalkAgain`, `WalkFails` | `find_free_page`, `page_queue_find_free_ex`, `page_to_full`, `page_fresh` |
| `Unfull` | `page_unfull` |
| `Retire` | `page_retire` where it does not keep the page, `page_free`, the header reset of `segment_page_clear` |

`Remove`, `Push`, `PushBack` and `FirstUpdate` are functions from heap to heap, so
that an action can be the sequence of calls the code makes. The refinement of
`QueueSpec` reads the sequence of a queue off its links (`Nth`).

### BinSizes, SizeClasses, Layout

`SizeClasses` follows one number through the code: a request becomes a queue
(`FindPage`), a fresh page of that queue gets its block size, slices and number
of blocks (`PageFresh`), and the queue is computed again from the page when it
is unlinked (`PageQueueOf`). The initial states are all sizes up to the largest
`find_page` accepts and the first ones it does not, and all numbers of slices
for `slice_bin` (`SpanQueueOf`): there is no scaling. `QueueWords` is the
literal table of `init.rs`, so the run also checks that the table and the
logarithm in `bin` belong together.

`Layout` goes on from there with bytes: a segment at an address, what is committed
for its headers, a page at one of its slices and what is committed for it, one
of its blocks; and back, as `free` does, from nothing but the address of the block
to the segment, the slice, its offset and the header of the page, and as
coalescing does, from a header to those of its neighbours.

Definitions marked *(mutant)* are plausible bugs of the definition after them.
No specification uses them; each shows that some property notices the bug.

## 3. Runs

| Run | Instance | Checks |
|---|---|---|
| `protocol` | three pages (2, 1, 1 blocks), two segments, two remote threads | the invariants of the protocol; `Promise`: implements `AllocatorSpec`; `FollowsMim` |
| `arrives` | two pages (2, 1 blocks), one remote thread, fair | `EveryFreeArrives`, `OwnerReturns` |
| `free_supported` | as `protocol`, one remote thread | finding: `segment_free` is `todo()` |
| `block_lists` | a page of three blocks, two remote threads | `UsedExact`; `KeepsLists`: implements `ListSpec` |
| `mim` | two threads with a heap each, a segment of two slices, pages of 1 and 2 slices, blocks in both, at most two pages | `ProtocolSound`, `OneHeapView` |
| `spans` | two segments of six slices, pages of 1, 2 and 4 slices, at most four at a time | the invariants of spans, `LiveHeadersUntouched`; `KeepsSpanPromise`: implements `SpanSpec` |
| `page_org` | two segments of four slices, one bin and the full list | the invariants of `PageOrg`, `ThroughPopped` |
| `size_classes` | all sizes 0 to 131080, all spans 1 to 512, every block of a page of each queue at slices 1, 504 and 511 of two segments | the arithmetic of size classes and addresses |
| `commit` | a segment of ten slices, pages of 1 and 2 slices, delay 3, extension 2, fair | the invariants of the commit state, `DecommitEnds` |
| `commit_mask` | three words of three bits, all masks | the mask against sets of bit numbers, `LoopsEnd` |
| `page_queues` | three pages; classes of 1, 3 and 5 words, of which the first two are small; fair | the queues, `KeepsOrder`: implements `QueueSpec` |
| `os_mem` | two threads, two segments of two slices each, nine slices of addresses, hints at 4 and 6 | `MemoryExact`, `HintsRunOut` |

The properties:

* `OnePlace`: every block is in exactly one place.
* `UsedCount`: `used` counts the blocks outside the owner's lists.
* `DelayExact`: the two bits tell exactly who is in the window and whether one,
  and only one, block of the page is announced.
* `NothingStranded`: a page nobody will announce has nothing on `thread_free`,
  and no free block if it is in the full queue.
* `NoStalePage`: no page is cleared while a thread in `free` points to it.
* `FollowsMim`: every step makes transitions of the token protocol whose
  conditions hold at that moment: *Freeing* is entered from `UseDelayedFree` with a
  block in hand and left by the thread that entered it, a page goes when all
  its blocks are with the owner and the bits were checked, and who works on a page
  may read its header. `check_is_good` and `disable`, which the code trusts
  (`external_body`), are among these steps.
* `FoundPageHasBlock`: `malloc_generic` and `page_malloc` do not recurse.
* `Promise`: the allocator as the program sees it.
* `EveryFreeArrives`: a freed block comes back. `OwnerReturns`: malloc and free
  return on the owner, although blocks are put back on the list it drains and
  other threads hold it up in *Freeing*.
* `KeepsLists`, `UsedExact`: words and links are the lists of `ListSpec`; the count
  of the walk in `append` keeps `used` exact.
* `ProtocolSound`: the invariants of `tokens.rs` and every obligation of its
  transitions. `OneHeapView`: to each thread it is the protocol of one heap.
* `Tiling`: the spans of a segment lie side by side and cover it.
* `PageLookup`: from every slice of a page its offset leads to the header, as
  `free` needs it in any thread.
* `QueueExact`: a free span is in the queue of its size and no other; pages and
  free spans are told apart by `xblock_size`.
* `NoFreeNeighbours`: coalescing is complete.
* `LiveHeadersUntouched`: no step writes a header of a page that stays in use;
  other threads read these headers without a lock.
* `KeepsSpanPromise`: a page takes slices no other page has; the system is asked
  for a segment only if no run of slices is long enough, and once per request.
* `CountIsRight`: in every state inside a call, `used` is the number of pages and
  what the popped range adds to it; a segment that counts none can be given up.
* `OrgSound`: the spans and the popped range lie side by side, each with headers
  of its kind, and the links, the lists and the headers agree on who is in
  which list.
* `CodeFindsItsWay`: the contracts of the lemmas: a walk stays in its queue, a span
  that is unlinked has free spans around it, flag and length name the queue, the
  neighbours of a range are found from their headers, no two pages overlap.
* `ThroughPopped`: slices change their role only through the popped range.
* `BestFit`: the queue of a request has the smallest blocks that hold it, its
  entries in `pages_free_direct` are its own, the page is found again in it, and a
  span queue holds just the sizes between the one before and its own.
* `BlockInside`: the headers and the blocks lie in memory that is committed for
  them, in their segment and apart; what is decommitted is what was committed; no
  block is lost to the `u16` of `reserved`; addresses leave two bits free.
* `HeadersFound`: from any block `free` finds the header of its page, and
  coalescing finds the neighbours and looks at nothing outside the segment.
* `InUseAccessible`: the memory of a page and of the headers is there and does
  not wait to be decommitted.
* `MaskExact`: `commit_mask` is what the system was told; only committed memory
  waits.
* `GivenBack`: in a segment that commits on demand a committed slice is in use or
  waits to be given back, and, since `decommit_expire` is never reset, from the
  first `segment_delayed_decommit` on every free gives its memory back at once.
  No document promises otherwise; it is stated because the option suggests it.
* `DecommitEnds`: the loop that searches again where it just was ends.
* `WordsAreSets`, `LoopsEnd`: `create` makes the run asked for, the operations on
  words are those on sets, `next_run` returns the first run and all of it (its
  Verus contract only says that the bits returned are set), and the loops end.
* `LinksExact`: the links fit together, and `page_queue_of` finds the queue a page
  is linked into.
* `DirectExact`: every entry of `pages_free_direct` is the first page of its class
  or the empty page, though it is rewritten only when its last entry is wrong.
* `WalkAtFront`: the search, which moves the page it stands on and goes on with a
  link read before, is always at the front of its queue; so it asks for a new
  page only when every page of the class is full. `WalkEnds`: it ends.
* `KeepsOrder`: the queues are sequences; new pages come first, moved pages last,
  and the only page of a class is never dropped.
* `MemoryExact`: what is mapped belongs to one thread, segments are aligned, and a
  commit mask names the slices that can be accessed, whatever `THREAD_COUNT` did
  meanwhile. `HintsRunOut`: two threads that find the hints too high do not both
  set them back.

**Bounds.** Two remote threads are needed for one to be in the window while
another pushes silently or fails; two blocks on one page for that page to be
full, announced by one and hit by the other; a second page in the queue for
`page_retire` to clear anything, a third in a segment of its own for the last
page of a segment to be cleared. A page announces its first block and takes the
others silently, so two silent pushes can only race on a page of three blocks,
which the theorems cover: they hold for any number of blocks and threads.
`MaxYield` is 1 (4 in the code): one yield and
one give-up already occur in every order. `MaxExtend` is 1, so a page of two
blocks is extended once after its first use. TLC reports that every action
fires. Blocks of the same page and remote threads are interchangeable, which
the symmetry sets of the safety runs use; the fair run uses none.

For spans six slices are five that pages can have: enough for a page with free
spans on both sides, one on one side, none, at slice 1 and at the end, and for
pages of two slices between pages of one. Larger segments are out of reach
because every stale header is part of the state. The bins of the code hold one
size each up to eight slices; here several sizes share a bin from three on
(`MCSliceBin`), so that the search passes through a bin with spans that are too
small. What these bounds leave open the proofs close: they hold for any number of
segments and slices and any monotone `slice_bin`. In `page_org` four slices leave
three that can be a range between two spans; the second segment lets lists run
across segments. In `block_lists` three blocks are a list with a block in the
middle, and enough for one to go away and come back as head while a thread holds
its old link. In `mim` a page of two slices has blocks that begin in its second one;
there is one segment (`MaxSegment`), which either thread may make, and the other
one meets its pages as a holder of their blocks and in *Freeing*. In `os_mem` two segments per thread run through the two
hints twice.

For the commit state ten slices give a freed page committed and uncommitted free
neighbours on both sides and three runs in `decommit_mask` at once; `MaxLeft`
stops frees from moving the deadline further than two extensions, after which
only the distance grows. Three words are the least with a word inside a run, and
three bits the least with a bit that touches neither end of its word. Three pages
are enough for a page between two others in one queue; four pages hold as well,
but take more than five minutes.

**Fairness.** The loops of `CommitSegment`, `CommitMask` and `PageQueues` have one actor: a
thread inside one keeps running, nothing else is assumed. In `DelayedFree` each
thread that is inside `malloc` or `free` keeps running (weak
fairness on its steps): the operating system schedules it. Each retried
exchange succeeds eventually if it is possible again and again (strong
fairness): the loops have no bound and rely on just this. The owner keeps
calling `malloc_generic` (strong fairness on `OTakeLoad`): the allocator
collects remote frees nowhere else, so a program that stops allocating leaves
them on the lists; mimalloc has the same property. `EveryFreeArrives` ends at
`Aborted`, where `todo()` has ended the process. The fair run has one remote
thread: with two the liveness check takes too long for a routine run, and the
interference of remote threads with each other is in the safety runs.

**Finding.** `README.md:101` of the repository says that malloc and free are
supported; a free that clears the last page of a segment reaches `segment_free`,
which is `todo()`: run `free_supported`.

Two comments differ from the code without consequence and have no run. The comment
of `free` (`free.rs:27-29`) says that a local free updates `local_free`; the code
uses `free` (`free.rs:248`, `331`), so `local_free` is filled by collections only. The
table of span queues in `bin_sizes.rs:78` gives 17 to 20 slices the bin 11, which is
that of 15 and 16; `slice_bin` returns 12, and everything else agrees with it.

## 4. Proofs

`DelayedFreeProofs` proves, for any finite set of pages and blocks, any set of
remote threads and any bounds:

* `Invariance`: `IInv` is invariant;
* from it `TypeCorrect`, `NoBlockLostOrShared`, `UsedIsExact`,
  `DelayStateIsExact`, `NoMemoryStranded`, `PagePointersStayValid`,
  `ClearingIsQuiet`;
* `FoundPageIsUsable`, by a second induction relative to `IInv`;
* `KeepsPromise`: every step is a step of `AllocatorSpec` or leaves it alone;
* `CodeFollowsMim`: every step makes transitions of `MimTokens` whose conditions hold.

Assumptions: `Page` and `Block` are finite and without `NULL`, every block lies
on a page and every page has a block, `MaxYield` is a natural number,
`MaxExtend` a positive one. TLC evaluates them on every run.

The argument. A page is cleared when `used` is 0. `UsedCount` says that then all
its blocks are on the owner's lists, so by `OnePlace` none is with the program,
on a shared list or in the hands of a thread. A thread in the window before its
push holds a block; after the push, before `fetch_xor(3)`, it holds none, and
this is where `DelayExact` is needed: in that state the pushed block is still
pending, because the owner cannot finish it while the bits say *Freeing*. So a
page with an open window has a block outside and is not cleared. For
`NothingStranded` the invariant has to follow the owner through
`free_delayed_block`: between resetting the bits and collecting, the page is
allowed to have blocks on `thread_free` (`Stranded`), because the collection
follows. The other parts of `IInv` (`RemoteLocals`, `OwnerLocals`, `HeadOK`,
`Vacated`) say what the locals of each thread are good for at each program
counter, that a null head is an empty list, and that an unused page has all
its blocks uncarved; without them the steps that use a loaded value could start
in states the program is never in. Counting steps use the cardinality theorems
of the library, through `SubsetCardinality` and `FreeLocalCount`. `CodeFollowsMim`
needs nothing beyond `IInv`: for the steps that push, announce or close the window
the conditions of the transition are what `DelayExact` and `OnePlace` say of the
block in hand, for `OClear` they are that no block of the page is outside.

`BlockListsProofs` proves, for any number of blocks, any set of threads and any
aligned block size: `ListsInvariant`, `CounterRight` (`UsedExact`) and
`WordsAreLists` (the refinement of `ListSpec`).

The argument. `Config` says that memory, heads, the six sequences, the loose blocks
and the capacity belong together: each head leads through its sequence to null, no
block is twice in them, and they and the loose blocks are the blocks up to the
capacity. `ConfigPush`, `ConfigPop`, `ConfigMove`, `ConfigExtend` and `ConfigWrite`
show, for constant memory and sequences, that the five things the code does to
lists keep this. What a compare-and-exchange needs is then only `RemoteAt`: while a
thread waits to exchange, its block is linked to the word it loaded. If the word is
that again, the block is linked to the head of whatever list there is *now*, so it
does not matter how often the head went away and came back. The `DelayState` bits
play no part in it; who may push when is the subject of `DelayedFreeProofs`.
`OwnerFits` says where the walk of `append` is: at the block it has counted. For
`CounterRight` it has counted all of them when it finds the null link, and a page is
cleared only when `used` is 0, which by `ConfigCount` means that every carved block is
on one of the page's own lists.

`MimProofs` proves, for any numbers of threads, segments, pages, slices and blocks:
`TokensInvariant`, `TokensSound` (`ProtocolSound`) and `EachHeapKeepsProtocol`
(`OneHeapView`).

The argument. The invariants of `tokens.rs` with the types of the tokens (`TypeInv`)
are inductive as they stand; the obligations of the transitions and what the holder
of a token concludes follow from them. Verus proves its own version of the first
part with the transitions' own proof blocks. `OneHeapView` is new: for each thread
the tokens of its heap change by a transition of `MimTokens` or not at all, whatever
the other threads do. Together with `CodeFollowsMim` this is the whole way from the
atomic accesses of the code to the token machine of many threads.

`PageQueuesProofs` proves, for any finite set of pages and any classes:
`QueuesInvariant`, `QueuesLinked` (`LinksExact`), `FastPathRight` (`DirectExact`),
`SearchAtFront` (`WalkAtFront`) and `QueuesAreSequences` (the refinement of
`QueueSpec`).

The argument. `LinksExact` is not inductive: a ring of pages beside the list that
starts at `first` would satisfy it. `QInv` says that for each queue *some* sequence of
all its pages has exactly these links. Each of `Remove`, `Push` and `PushBack` takes
one such sequence to another, so that one proof gives the invariant and the
refinement; that the sequence is the one `Nth` reads off the links is an induction.
For `DirectExact` the invariant says of every class that its entries are alike,
which is why it is enough to look at the last of them before rewriting.

`OsMemProofs` proves, for any set of threads and any sizes: `MemoryInvariant`,
`MemoryDivided` (`MemoryExact`) and `HintsNotReused` (`HintsRunOut`).

The argument. `MInv` adds two things to `MemoryExact`: `FreshRight`, what mmap has
returned and is not yet a segment belongs to the thread that is setting it up and is
accessible as far as it thinks; and `ResetRight`, a thread that is about to set the
hints back has read a base beyond `HINT_MAX`, and its exchange succeeds only on that.

`SegmentSpansProofs` proves, for any finite set of segments, any number of slices
from 2, any set of page sizes and any monotone `slice_bin`: `SpanTypes`,
`TilingHolds`, `PageLookupHolds`, `QueueExactHolds`, `NoFreeNeighboursHolds`,
`UsedIsPagesHolds`, `LiveHeaders` and `Implements` (the refinement of `SpanSpec`).

The argument. The invariant `SInv` says of each segment, through `SegOK` on its
headers alone, all of the properties together and one thing none of them says:
the offset of the *last* slice of every span, free or not, leads to its first.
That is what looking backwards rests on, and it is not a consequence of the
rest, since the offsets inside a free span are stale. `TakeOK`, `GiveOK` and
`FreshOK` show that a segment in order is in order after a split, a free with
its merges, and when it is new; they speak of functions on slices, not of
variables. `GiveNeighbours` is their centre: the span found after a page and
the one found before it through an offset are its neighbours in the tiling, so
that what `xblock_size` says there is the truth about them. `InBins` ties the
queues to the counts. For `Implements` two facts are added: if some run of
vacant slices is long enough, it lies in one free span, because free spans do
not touch (`NoFreeNeighbours`), and that span is in a bin the search looks at,
because `slice_bin` is monotone (`RoomFound`); and a new segment satisfies the
request (`GrownIsEnough`), so the recursion ends after one round.

`PageOrgProofs` proves, for any segments, any number of slices from 2, any bins and
any bin function: `OrgInvariant`, `CounterOfPages` (`CountIsRight`),
`OrganisationSound` (`OrgSound`), `HeadersLeadRight` (`CodeFindsItsWay`) and
`RolesChangeHands` (`ThroughPopped`).

The argument. The source says what a segment is by walking it from slice 0, span by
span, with or without the popped range on the way (`attached_rec`). A transition
changes a few headers somewhere in the middle, and what it does to such a walk is not
seen there. `OrgInv` says the same of each span for itself. `Ext` gives every slice the
length of the span that begins there, or 0; `Tiling` says that where a span ends
another one begins or the segment ends, that nothing begins inside a span, and that
where a span begins another one ends. `Span` says which header each slice of a span
has, by what the span is: the header of the segment, a page, a free span, or the popped
range in one of its forms. `Family` says that the lists with their links contain just
the spans they should, each in the list its header names. The operations on one of
these parts have lemmas of their own, with constants in place of variables
(`TileSplit`, `TileMerge`, `Entering`, `Leaving`, and others), so that the proof of a
transition (`SplitStep` and its like, one for each of the 17) only puts together which
spans come and go. TLC had checked `OrgInv` on two segments of four slices before.

The first three theorems then need `OrgInv` in one state only. `CodeFindsItsWay` is read off it:
what lies before a range is a span because something must end where the range begins.
For `OrgSound` the walk is recovered from the tiling, by induction from the end of the
segment (`SegmentAttached`): from every slice where a span begins, `attached_rec` finds
that span, goes to where it ends, and has met the popped range if it was on the way.
`RolesChangeHands` compares two states: since no two listed spans share a slice
(`DistinctNow`), it is enough to know which one span enters or leaves a list in a step,
and that a step which leaves the lists alone writes the length of no span in them.

`CommitSegmentProofs` proves, for any number of slices from 2, any page sizes and
any positive delays: `CommitTypes`, `InUseStaysAccessible`, `MasksAreExact` and
`MemoryGivenBack`.

The argument. `CInv` joins the properties, since each needs the others: a slice
that is handed out leaves `decommit_mask`, so a run that loses its memory meets
no page; and what a free adds to `decommit_mask` is committed by `MaskExact` and
free by `Disjoint` (pages share no slice, so the merged span meets no other
page). `Ahead` says that the loop has left nothing behind `idx`, which makes its
end mean that `decommit_mask` is empty. `Late` carries the second half of `GivenBack`: once the
loop has run the deadline has passed by more than the extension, and it can only
be moved by an allocation of a waiting slice, of which there is none between
calls.

Assumptions on constants are named in the modules that declare them and TLC
evaluates them on every run. Besides those above: block addresses leave two bits
free and `JUNK` is no address (`AlignAssumption`, `JunkAssumption`), one of the small
classes has the largest small size (`SmallAssumption` of `PageQueues`), `None` is no
heap (`MimAssumption`), in `OsMem` the hints are multiples of the segment size
(`HintAssumption`), and in `PageOrg` the bin function is defined for every length
(`SbinAssumption`), the span of the segment header is shorter than the segment
(`FirstAssumption`), the full list is no bin (`FullAssumption`) and `NONE` is nothing
else (`NoneAssumption`).

**Induction.** The induction theorems of the library take an operator, which the
provers cannot instantiate. Where a recursion had to be followed (`Blocks`, `Nth`,
`attached_rec`, the conversions of sets of numbers) the proofs use `SetInduction`, induction for a set of
numbers, which follows from the least element of its complement
(`NatLessThanWellFounded` and `WFMin`), and the recursive functions are unfolded once
in a lemma of their own (`BlocksAre`).

Only model-checked: `EveryFreeArrives`, `OwnerReturns`, `DecommitEnds`, `LoopsEnd` and
`WalkEnds` (liveness under fairness is beyond the prover); the words of `CommitMask`,
whose module uses the bit operations of the community modules; and the arithmetic of
sizes and addresses, which is about one set of numbers and is checked for all of them.

## 5. Plan

Done: all modules of section 2, and the proofs of `DelayedFree`, `SegmentSpans`,
`CommitSegment`, `PageQueues`, `OsMem`, `Mim`, `BlockLists` and `PageOrg`. Open, in this
order:

1. `CommitMask`: `WordsAreSets` for every word size, by the invariants of the loops.
2. `SegmentSpans` shown to take transitions of `PageOrg`, several per action.

## 6. Not modelled

* `realloc.rs` and `bitmap.rs`: `realloc` is `todo()` where the library exports it, and
  the file is not called; `bitmap.rs` is commented out, as are the arenas proper.
* `lib.rs`: the C entry points and the thread-local heap, without logic of their own.
* `flags.rs`: two booleans packed into a byte; the modules have them as fields.
* `os_mem_util.rs` and `dealloc_token.rs`: ghost permissions to memory, divided and
  joined by Verus. What they add up to is stated by `MemoryExact`, `InUseAccessible`
  and `BlockInside`.
* The inductive proofs in `page_organization.rs` and `tokens.rs`, and the `wf` predicates
  of `types.rs`: proof text, which the runs and the proofs of section 4 replace.
  `actor` of `Mim`, which no transition fills.
* Contents of blocks (zeroing), statistics, huge allocations (`todo()`), thread exit
  (a heap is never torn down), `thread.rs` (ids from the standard library).

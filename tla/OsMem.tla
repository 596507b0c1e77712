------------------------------- MODULE OsMem -------------------------------
(***************************************************************************)
(* Memory from the operating system: threads that set up their heaps        *)
(* (init.rs) and allocate segments (segment_os_alloc, arena.rs,             *)
(* os_alloc.rs), commit and decommit slices of them (os_commit.rs), and     *)
(* share two words, ALIGNED_BASE and THREAD_COUNT, and the address space.   *)
(*                                                                          *)
(* The unit is the slice, which is also the unit of commit and a whole      *)
(* number of the system's pages.  mmap and mprotect are modelled by what    *)
(* os_mem.rs expects of them; a call of todo() or a failing mprotect ends   *)
(* the process.                                                             *)
(***************************************************************************)
EXTENDS Integers, FiniteSets

CONSTANTS
  Thread,
  SEGMENT_SIZE,   \* slices of a segment, also its alignment
  INFO_SLICES,    \* slices of the segment's own headers
  HINT_BASE, HINT_MAX,
  MAX_ADDRESS,    \* the address space is 1 .. MAX_ADDRESS
  MAX_SEGMENTS    \* bound: segments a thread asks for

ASSUME SegmentAssumption == SEGMENT_SIZE \in Nat \ {0} /\ INFO_SLICES \in 1 .. SEGMENT_SIZE
ASSUME HintAssumption == /\ HINT_BASE \in Nat \ {0} /\ HINT_BASE % SEGMENT_SIZE = 0
                         /\ HINT_MAX \in Nat /\ HINT_BASE <= HINT_MAX
ASSUME AddressAssumption == MAX_ADDRESS \in Nat

VARIABLES
  aligned_base,   \* ALIGNED_BASE
  thread_count,   \* THREAD_COUNT
  prot,           \* prot[a]: "unmapped", "none" or "rw"
  pc,             \* pc[t]: where thread t is
  hint,           \* hint[t]: its local variable in os_get_aligned_hint, unix_mmapx
  commit,         \* commit[t]: request_commit of the segment it is allocating
  fresh,          \* fresh[t]: the segment mmap has returned
  segments,       \* segments[t]: its segments: start and commit_mask
  heap,           \* heap[t]: the pages of thread_data_alloc and init_empty_page_ptr
  aborted         \* the process has ended

shared == <<aligned_base, thread_count>>
locals == <<pc, hint, commit, fresh>>
vars == <<shared, prot, locals, segments, heap, aborted>>

Address == 1 .. MAX_ADDRESS
NULL == 0

Area(start, len) == start .. start + len - 1

\* nothing mapped, no thread known: before the process and after it
Nothing(base, count, map, at, h, c, f, segs, hp) ==
  /\ base = 0 /\ count = 0
  /\ map = [a \in Address |-> "unmapped"]
  /\ at = [t \in Thread |-> "start"]
  /\ h = [t \in Thread |-> NULL] /\ f = [t \in Thread |-> NULL]
  /\ c = [t \in Thread |-> FALSE]
  /\ segs = [t \in Thread |-> {}] /\ hp = [t \in Thread |-> {}]

Init ==
  /\ Nothing(aligned_base, thread_count, prot, pc, hint, commit, fresh, segments, heap)
  /\ aborted = FALSE

\* the thread goes to the label l
Goto(t, l) == pc' = [pc EXCEPT ![t] = l]

\* todo(), or a panic in os_mem.rs: the process ends, and its memory is gone
Abort ==
  /\ Nothing(aligned_base', thread_count', prot', pc', hint', commit', fresh', segments', heap')
  /\ aborted' = TRUE

-----------------------------------------------------------------------------
(* The system calls                                                         *)

Unmapped(p, len) == \A a \in Area(p, len) : a \in Address /\ prot[a] = "unmapped"

\* the addresses mmap may return: the hint if nothing is there, otherwise any
Placements(h, len) ==
  IF h # NULL /\ Unmapped(h, len) THEN {h} ELSE {p \in Address : Unmapped(p, len)}

Protect(A, how) == prot' = [a \in Address |-> IF a \in A THEN how ELSE prot[a]]

-----------------------------------------------------------------------------
(* heap_init                                                                *)

increment_thread_count(t) ==
  /\ pc[t] = "start" /\ ~aborted
  /\ thread_count' = thread_count + 1
  /\ Goto(t, "data")
  /\ UNCHANGED <<aligned_base, prot, hint, commit, fresh, segments, heap, aborted>>

\* mmap_prot_read_write(null, 4096), and todo() if it fails
MapPage(t, from, to) ==
  /\ pc[t] = from
  /\ \/ \E p \in Placements(NULL, 1) :
          /\ Protect({p}, "rw")
          /\ heap' = [heap EXCEPT ![t] = @ \cup {p}]
          /\ Goto(t, to)
          /\ UNCHANGED <<shared, hint, commit, fresh, segments, aborted>>
     \/ Abort

thread_data_alloc(t) == MapPage(t, "data", "empty")
init_empty_page_ptr(t) == MapPage(t, "empty", "idle")

-----------------------------------------------------------------------------
(* segment_alloc                                                            *)

\* eager_delay: once there is a second thread, segments are committed piece by
\* piece.  The test of tld.segments.count is left out: nothing ever counts up.
request_commit == ~(thread_count > 1)

segment_alloc(t) ==
  /\ pc[t] = "idle"
  /\ Cardinality(segments[t]) < MAX_SEGMENTS
  /\ commit' = [commit EXCEPT ![t] = request_commit]
  /\ Goto(t, "hint")
  /\ UNCHANGED <<shared, prot, hint, fresh, segments, heap, aborted>>

\* os_get_aligned_hint: ALIGNED_BASE.fetch_add(size)
TakeHint(t, overflow) ==
  /\ hint' = [hint EXCEPT ![t] = IF overflow \/ aligned_base % SEGMENT_SIZE = 0
                                   THEN aligned_base ELSE NULL]
  /\ aligned_base' = aligned_base + SEGMENT_SIZE
  /\ Goto(t, IF overflow THEN "reset" ELSE "map")
  /\ UNCHANGED <<thread_count, prot, commit, fresh, segments, heap, aborted>>

HintFirst(t) ==
  /\ pc[t] = "hint"
  /\ TakeHint(t, aligned_base = 0 \/ aligned_base > HINT_MAX)

\* (mutant) the base is stored without a look at it
HintReset_Store(t) ==
  /\ pc[t] = "reset"
  /\ aligned_base' = HINT_BASE
  /\ Goto(t, "again")
  /\ UNCHANGED <<thread_count, prot, hint, commit, fresh, segments, heap, aborted>>

\* ALIGNED_BASE.compare_exchange(hint + size, HINT_BASE), result ignored
HintReset(t) ==
  /\ pc[t] = "reset"
  /\ aligned_base' = IF aligned_base = hint[t] + SEGMENT_SIZE THEN HINT_BASE
                     ELSE aligned_base
  /\ Goto(t, "again")
  /\ UNCHANGED <<thread_count, prot, hint, commit, fresh, segments, heap, aborted>>

\* the second fetch_add; what it returns is not looked at again
HintAgain(t) == pc[t] = "again" /\ TakeHint(t, FALSE)

\* unix_mmapx with the hint: on failure, or without a hint, the call is made
\* once more with a null hint
MapAtHint(t) ==
  /\ pc[t] = "map"
  /\ \/ /\ hint[t] # NULL
        /\ \E p \in Placements(hint[t], SEGMENT_SIZE) :
             /\ Protect(Area(p, SEGMENT_SIZE), IF commit[t] THEN "rw" ELSE "none")
             /\ fresh' = [fresh EXCEPT ![t] = p]
             /\ Goto(t, "mapped")
     \/ /\ Goto(t, "map_anywhere")
        /\ UNCHANGED <<prot, fresh>>
  /\ hint' = [hint EXCEPT ![t] = NULL]
  /\ UNCHANGED <<shared, commit, segments, heap, aborted>>

MapAnywhere(t) ==
  /\ pc[t] = "map_anywhere"
  /\ \/ \E p \in Placements(NULL, SEGMENT_SIZE) :
          /\ Protect(Area(p, SEGMENT_SIZE), IF commit[t] THEN "rw" ELSE "none")
          /\ fresh' = [fresh EXCEPT ![t] = p]
          /\ Goto(t, "mapped")
          /\ UNCHANGED <<shared, hint, commit, segments, heap, aborted>>
     \/ Abort

\* os_mem_alloc_aligned: todo() for memory that is not aligned
Aligned(p) == p % SEGMENT_SIZE = 0

-----------------------------------------------------------------------------
(* os_commit, os_decommit                                                   *)

\* Both callers pass whole pages, so rounding to the inside (decommit) and to
\* the outside (commit) give the same area.
os_page_align_areax(addr, size) ==
  IF size = 0 \/ addr = NULL THEN {} ELSE Area(addr, size)

\* (mutant) whether the memory is committed is asked a second time
fresh_mask_Again(t) ==
  IF request_commit THEN 0 .. SEGMENT_SIZE - 1 ELSE 0 .. INFO_SLICES - 1

\* the commit mask of a new segment: all of it, or the headers
fresh_mask(t) ==
  IF commit[t] THEN 0 .. SEGMENT_SIZE - 1 ELSE 0 .. INFO_SLICES - 1

\* the end of os_mem_alloc_aligned, segment_os_alloc and segment_alloc: todo()
\* for memory that is not aligned; the headers are committed unless everything
\* is; and the segment is the thread's
segment_os_alloc(t) ==
  LET p == fresh[t]
      commit_needed == IF commit[t] THEN 0 ELSE INFO_SLICES
  IN  /\ pc[t] = "mapped"
      /\ \/ /\ Aligned(p)
            /\ Protect(os_page_align_areax(p, commit_needed), "rw")
            /\ segments' = [segments EXCEPT ![t] =
                              @ \cup {[start |-> p, commit_mask |-> fresh_mask(t)]}]
            /\ fresh' = [fresh EXCEPT ![t] = NULL]
            /\ commit' = [commit EXCEPT ![t] = FALSE]
            /\ Goto(t, "idle")
            /\ UNCHANGED <<shared, hint, heap, aborted>>
         \/ (~Aligned(p) \/ commit_needed > 0) /\ Abort

\* os_commit and os_decommit of n slices from i on, never those of the headers,
\* with the mask that segment_commitx keeps
Recommit(t, s, i, n, how, mask) ==
  /\ pc[t] = "idle"
  /\ i >= INFO_SLICES /\ i + n <= SEGMENT_SIZE
  /\ \/ /\ Protect(os_page_align_areax(s.start + i, n), how)
        /\ segments' = [segments EXCEPT ![t] = (@ \ {s}) \cup {[s EXCEPT !.commit_mask = mask]}]
        /\ UNCHANGED <<shared, locals, heap, aborted>>
     \/ Abort

os_commit(t, s, i, n) == Recommit(t, s, i, n, "rw", s.commit_mask \cup Area(i, n))
os_decommit(t, s, i, n) == Recommit(t, s, i, n, "none", s.commit_mask \ Area(i, n))

-----------------------------------------------------------------------------
Step(t) ==
  \/ increment_thread_count(t) \/ thread_data_alloc(t) \/ init_empty_page_ptr(t)
  \/ segment_alloc(t) \/ HintFirst(t) \/ HintReset(t) \/ HintAgain(t)
  \/ MapAtHint(t) \/ MapAnywhere(t) \/ segment_os_alloc(t)
  \/ \E s \in segments[t], i, n \in 1 .. SEGMENT_SIZE :
       os_commit(t, s, i, n) \/ os_decommit(t, s, i, n)

Next == \E t \in Thread : Step(t)

Spec == Init /\ [][Next]_vars

-----------------------------------------------------------------------------
(* Properties                                                               *)

SegmentArea(s) == Area(s.start, SEGMENT_SIZE)

\* what thread t has from the system: whole segments, one it is setting up, the
\* pages of its heap
Owns(t) == heap[t] \cup (UNION {SegmentArea(s) : s \in segments[t]})
             \cup (IF fresh[t] = NULL THEN {} ELSE Area(fresh[t], SEGMENT_SIZE))

\* Whatever the threads race for, the address space is divided exactly: what is
\* mapped belongs to one thread, every segment lies at a multiple of its size,
\* and its commit mask names the slices that can be accessed, the headers among
\* them, although whether to commit was decided before the memory was there.
MemoryExact ==
  /\ \A t, u \in Thread : t # u => Owns(t) \cap Owns(u) = {}
  /\ {a \in Address : prot[a] # "unmapped"} = UNION {Owns(t) : t \in Thread}
  /\ \A t \in Thread : \A s \in segments[t] :
       /\ s.start % SEGMENT_SIZE = 0
       /\ 0 .. INFO_SLICES - 1 \subseteq s.commit_mask
       /\ s.commit_mask = {i \in 0 .. SEGMENT_SIZE - 1 : prot[s.start + i] = "rw"}
       /\ \A r \in segments[t] \ {s} : SegmentArea(r) \cap SegmentArea(s) = {}

\* ALIGNED_BASE goes back to HINT_BASE only when it has passed HINT_MAX: two
\* threads that find it too high do not both set it back, which would hand out
\* for a second time the hint that the first of them got.
HintsRunOut ==
  [][aligned_base' < aligned_base => aligned_base > HINT_MAX \/ aborted']_vars
=============================================================================

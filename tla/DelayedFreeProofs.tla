------------------------- MODULE DelayedFreeProofs -------------------------
(***************************************************************************)
(* The invariants of DelayedFree, for every number of pages, blocks and     *)
(* remote threads.  IInv is inductive; the proof has one lemma per action,  *)
(* with one step per conjunct of IInv that the action can disturb and one  *)
(* for those it cannot.                                                     *)
(***************************************************************************)
EXTENDS DelayedFree, FiniteSetTheorems, TLAPS

-----------------------------------------------------------------------------
(* Facts about blocks and counts                                            *)

\* A page has finitely many blocks, so Outside has a cardinality.
LEMMA OutsideFinite == \A p \in Page : IsFiniteSet(Outside(p))
  BY BlockAssumption, FS_Subset DEF Outside, BlocksOf

\* The cardinality of a difference with a subset.
LEMMA SubsetCardinality ==
  ASSUME NEW S, NEW T \in SUBSET S, IsFiniteSet(S)
  PROVE  /\ Cardinality(T) \in Nat
         /\ Cardinality(S) \in Nat
         /\ Cardinality(S \ T) \in Nat
         /\ Cardinality(S \ T) = Cardinality(S) - Cardinality(T)
<1>1. IsFiniteSet(T) /\ IsFiniteSet(S \ T) /\ S \cap T = T
  BY FS_Subset
<1>. QED BY <1>1, FS_CardinalityType, FS_Difference

\* A block that is with the program or with a free in progress is on none of the
\* owner's lists, and its page is in use.
LEMMA InTransit ==
  ASSUME IInv, NEW b \in Block,
         \/ b \in user \/ b \in tfree[PageOf[b]] \/ b \in dfree \/ b \in pend
         \/ b = oblk \/ \E t \in Remote : rblk[t] = b
  PROVE  /\ PageOf[b] \in Page
         /\ b \in Outside(PageOf[b])
         /\ state[PageOf[b]] \in {"bin", "full"}
<1>1. PageOf[b] \in Page
  BY PageOfAssumption
<1>2. Places(b) = 1
  BY DEF IInv, OnePlace
<1>3. b \notin free[PageOf[b]] \cup local_free[PageOf[b]] \cup raw[PageOf[b]]
  BY <1>2 DEF Places, One
<1>. QED BY <1>1, <1>3 DEF IInv, Outside, BlocksOf, Vacated, TypeOK, PageState

\* free_block with is_local keeps `used` exact, and finds it positive.
LEMMA FreeLocalCount ==
  ASSUME IInv, NEW b \in Block, NEW ret \in {"idle", "pop"}, FreeLocal(b, ret),
         b \in Outside(PageOf[b])
  PROVE  /\ used[PageOf[b]] \in Nat \ {0}
         /\ used' \in [Page -> Nat]
         /\ UsedCount'
<1>. DEFINE p == PageOf[b]
<1>1. p \in Page
  BY PageOfAssumption
<1>2. /\ Outside(p)' = Outside(p) \ {b}
      /\ \A q \in Page \ {p} : Outside(q)' = Outside(q)
  BY <1>1 DEF IInv, TypeOK, FreeLocal, Outside, BlocksOf
<1>3. /\ Cardinality({b}) = 1
      /\ Cardinality(Outside(p)) \in Nat
      /\ Cardinality(Outside(p) \ {b}) \in Nat
      /\ Cardinality(Outside(p) \ {b}) = Cardinality(Outside(p)) - 1
  <2>1. {b} \in SUBSET Outside(p)
    OBVIOUS
  <2>2. IsFiniteSet(Outside(p)) /\ Cardinality({b}) = 1
    BY <1>1, OutsideFinite, FS_Singleton
  <2>. QED BY <2>1, <2>2, SubsetCardinality
<1>4. used[p] = Cardinality(Outside(p)) /\ used \in [Page -> Nat]
  BY <1>1 DEF IInv, UsedCount, TypeOK
<1>5. used' = [used EXCEPT ![p] = @ - 1]
  BY DEF FreeLocal
<1>. QED BY <1>1, <1>2, <1>3, <1>4, <1>5 DEF IInv, UsedCount

\* When the owner clears a page no thread is in its window, none of its blocks is
\* announced, and its thread_free list is empty.
LEMMA QuietLemma == ASSUME IInv PROVE ClearIsQuiet
<1>. SUFFICES ASSUME opc \in {"check_good", "clear"}
             PROVE  delay[opage] = UseDelayedFree /\ tfree[opage] = {}
  BY DEF ClearIsQuiet
<1>1. opage \in Page /\ state[opage] = "popped"
  BY DEF IInv, OwnerLocals
<1>2. ASSUME NEW b \in Pending(opage) PROVE FALSE
  <2>1. b \in Block /\ PageOf[b] = opage /\ (b \in dfree \/ b \in pend \/ b = oblk)
    BY DEF Pending, BlocksOf
  <2>. QED BY <1>1, <2>1, InTransit
<1>3. ASSUME NEW t \in Window(opage) PROVE FALSE
  <2>1. rpc[t] # "xor"
    BY <1>1, <1>2 DEF IInv, DelayExact
  <2>2. rblk[t] \in Block /\ PageOf[rblk[t]] = opage
    BY <2>1 DEF IInv, RemoteLocals, Window
  <2>. QED BY <1>1, <2>2, InTransit DEF Window
<1>4. delay[opage] = UseDelayedFree
  BY <1>1, <1>2, <1>3 DEF IInv, TypeOK, DelayState, DelayExact, UseDelayedFree,
     Freeing, NoDelayedFree, NeverDelayedFree
<1>. QED BY <1>1, <1>4 DEF IInv, Stranded

-----------------------------------------------------------------------------
(* Every action preserves IInv                                              *)

\* free on a remote thread takes the block from the program.
LEMMA RFreeInv ==
  ASSUME IInv, NEW t \in Remote, NEW b \in Block, RFree(t, b)
  PROVE  IInv'
<1>1. TypeOK'
  BY PageOfAssumption DEF IInv, RFree, pageVars, sharedVars, ownerVars, TypeOK,
       DelayState, PageState, RemotePC, OwnerPC, UseDelayedFree, Freeing,
       NoDelayedFree, NeverDelayedFree
<1>2. RemoteLocals'
  BY DEF IInv, RFree, pageVars, sharedVars, ownerVars, TypeOK, RemoteLocals, RemotePC
<1>3. OnePlace'
  BY BlockAssumption, PageOfAssumption DEF IInv, RFree, pageVars, sharedVars,
       ownerVars, TypeOK, OnePlace, Places, One, BlocksOf, RemoteLocals
<1>4. DelayExact'
  <2>1. \A p \in Page : Window(p)' = Window(p)
    BY DEF IInv, TypeOK, RemoteLocals, RFree, pageVars, sharedVars, ownerVars, Window
  <2>2. \A p \in Page : Pending(p)' = Pending(p)
    BY DEF IInv, TypeOK, OwnerLocals, HoldsDelayed, RFree, pageVars, sharedVars,
         ownerVars, Pending
  <2>3. \A p \in Page, u \in Remote : u \in Window(p) => (rpc[u] = "xor") = (rpc[u] = "xor")'
    BY DEF IInv, TypeOK, RemoteLocals, RFree, pageVars, sharedVars, ownerVars, Window
  <2>. QED BY <2>1, <2>2, <2>3 DEF IInv, DelayExact, RFree, pageVars, sharedVars,
       ownerVars
<1>5. OwnerLocals'
  BY DEF IInv, RFree, pageVars, sharedVars, ownerVars, OwnerLocals, HoldsDelayed,
       Draining
<1>6. HeadOK' /\ UsedCount' /\ Stranded' /\ Vacated'
  BY DEF IInv, RFree, pageVars, sharedVars, ownerVars, HeadOK, UsedCount, Outside,
       Stranded, Unwinding, Vacated
<1>. QED BY <1>1, <1>2, <1>3, <1>4, <1>5, <1>6 DEF IInv

\* Loading xthread_free changes only the thread's own locals.
LEMMA RLoadInv ==
  ASSUME IInv, NEW t \in Remote, RLoad(t)
  PROVE  IInv'
<1>1. TypeOK'
  <2>1. rpage[t] \in Page
    BY PageOfAssumption DEF IInv, RemoteLocals, RLoad
  <2>. QED BY <2>1 DEF IInv, RLoad, pageVars, sharedVars, ownerVars, TypeOK,
       DelayState, RemotePC
<1>2. RemoteLocals'
  BY DEF IInv, RLoad, pageVars, sharedVars, ownerVars, TypeOK, RemoteLocals, RemotePC
<1>3. DelayExact'
  BY DEF IInv, RLoad, pageVars, sharedVars, ownerVars, TypeOK, DelayExact, Window,
       Pending, BlocksOf, RemoteLocals, UseDelayedFree, Freeing, NoDelayedFree,
       NeverDelayedFree
<1>4. OwnerLocals'
  BY DEF IInv, RLoad, pageVars, sharedVars, ownerVars, OwnerLocals, HoldsDelayed,
       Draining
<1>5. HeadOK' /\ UsedCount' /\ Stranded' /\ Vacated'
  BY DEF IInv, RLoad, pageVars, sharedVars, ownerVars, HeadOK, UsedCount, Outside,
       Stranded, Unwinding, Vacated
<1>6. OnePlace'
  BY DEF IInv, RLoad, pageVars, sharedVars, ownerVars, OnePlace, Places, One
<1>. QED BY <1>1, <1>2, <1>3, <1>4, <1>5, <1>6 DEF IInv

\* The exchange to Freeing opens the window of one thread, on a quiet page.
LEMMA RCasFreeingInv ==
  ASSUME IInv, NEW t \in Remote, RCasFreeing(t)
  PROVE  IInv'
<1>1. TypeOK'
  <2>1. rpage[t] \in Page
    BY PageOfAssumption DEF IInv, RemoteLocals, RCasFreeing
  <2>. QED BY <2>1 DEF IInv, RCasFreeing, pageVars, ownerVars, TypeOK, DelayState,
       RemotePC, Freeing
<1>2. RemoteLocals'
  BY DEF IInv, RCasFreeing, RMaskUnchanged, pageVars, ownerVars, TypeOK, RemoteLocals,
       RemotePC
<1>3. DelayExact'
  BY DEF IInv, RCasFreeing, RMaskUnchanged, pageVars, ownerVars, TypeOK, DelayExact,
       Window, Pending, BlocksOf, RemoteLocals, UseDelayedFree, Freeing, NoDelayedFree,
       NeverDelayedFree
<1>4. Stranded'
  BY DEF IInv, RCasFreeing, RMaskUnchanged, pageVars, ownerVars, TypeOK, Stranded,
       Unwinding, UseDelayedFree
<1>5. OwnerLocals'
  BY DEF IInv, RCasFreeing, pageVars, ownerVars, OwnerLocals, HoldsDelayed, Draining
<1>6. HeadOK' /\ UsedCount' /\ Vacated'
  BY DEF IInv, RCasFreeing, pageVars, ownerVars, HeadOK, UsedCount, Outside, Vacated
<1>7. OnePlace'
  BY DEF IInv, RCasFreeing, pageVars, ownerVars, OnePlace, Places, One
<1>. QED BY <1>1, <1>2, <1>3, <1>4, <1>5, <1>6, <1>7 DEF IInv

\* The exchange that pushes onto thread_free happens only while another block of the page is announced.
LEMMA RCasPushInv ==
  ASSUME IInv, NEW t \in Remote, RCasPush(t)
  PROVE  IInv'
<1>1. TypeOK'
  <2>1. rpage[t] \in Page /\ rblk[t] \in Block
    BY PageOfAssumption DEF IInv, RemoteLocals, RCasPush
  <2>. QED BY <2>1 DEF IInv, RCasPush, pageVars, ownerVars, TypeOK, DelayState,
       RemotePC, UseDelayedFree
<1>2. RemoteLocals'
  BY DEF IInv, RCasPush, RMaskUnchanged, pageVars, ownerVars, TypeOK, RemoteLocals,
       RemotePC
<1>3. HeadOK'
  <2>1. rpage[t] \in Page /\ rblk[t] # NULL
    BY BlockAssumption, PageOfAssumption DEF IInv, RemoteLocals, RCasPush
  <2>. QED BY <2>1 DEF IInv, RCasPush, pageVars, ownerVars, TypeOK, HeadOK
<1>4. OnePlace'
  BY BlockAssumption, PageOfAssumption DEF IInv, RCasPush, RMaskUnchanged, pageVars,
       ownerVars, TypeOK, OnePlace, Places, One, BlocksOf, RemoteLocals
<1>5. DelayExact'
  BY DEF IInv, RCasPush, RMaskUnchanged, pageVars, ownerVars, TypeOK, DelayExact,
       Window, Pending, BlocksOf, RemoteLocals, UseDelayedFree, Freeing, NoDelayedFree,
       NeverDelayedFree
<1>6. Stranded'
  BY DEF IInv, RCasPush, RMaskUnchanged, pageVars, ownerVars, TypeOK, Stranded,
       Unwinding, UseDelayedFree
<1>7. OwnerLocals'
  BY DEF IInv, RCasPush, pageVars, ownerVars, OwnerLocals, HoldsDelayed, Draining
<1>8. UsedCount' /\ Vacated'
  BY DEF IInv, RCasPush, pageVars, ownerVars, UsedCount, Outside, Vacated
<1>. QED BY <1>1, <1>2, <1>3, <1>4, <1>5, <1>6, <1>7, <1>8 DEF IInv

\* A failed exchange changes only the thread's own locals.
LEMMA RCasFailInv ==
  ASSUME IInv, NEW t \in Remote, RCasFail(t)
  PROVE  IInv'
<1>1. TypeOK'
  BY DEF IInv, RCasFail, pageVars, sharedVars, ownerVars, TypeOK, DelayState,
       PageState, RemotePC, OwnerPC, UseDelayedFree, Freeing, NoDelayedFree,
       NeverDelayedFree
<1>2. RemoteLocals'
  BY DEF IInv, RCasFail, pageVars, sharedVars, ownerVars, TypeOK, RemoteLocals, RemotePC
<1>3. DelayExact'
  <2>1. \A p \in Page : Window(p)' = Window(p)
    BY DEF IInv, TypeOK, RemoteLocals, RCasFail, pageVars, sharedVars, ownerVars, Window
  <2>2. \A p \in Page : Pending(p)' = Pending(p)
    BY DEF IInv, TypeOK, OwnerLocals, HoldsDelayed, RCasFail, pageVars, sharedVars,
         ownerVars, Pending
  <2>3. \A p \in Page, u \in Remote : u \in Window(p) => (rpc[u] = "xor") = (rpc[u] = "xor")'
    BY DEF IInv, TypeOK, RemoteLocals, RCasFail, pageVars, sharedVars, ownerVars, Window
  <2>. QED BY <2>1, <2>2, <2>3 DEF IInv, DelayExact, RCasFail, pageVars, sharedVars,
       ownerVars
<1>4. OwnerLocals'
  BY DEF IInv, RCasFail, pageVars, sharedVars, ownerVars, OwnerLocals, HoldsDelayed,
       Draining
<1>5. HeadOK' /\ UsedCount' /\ Stranded' /\ Vacated'
  BY DEF IInv, RCasFail, pageVars, sharedVars, ownerVars, HeadOK, UsedCount, Outside,
       Stranded, Unwinding, Vacated
<1>6. OnePlace'
  BY DEF IInv, RCasFail, pageVars, sharedVars, ownerVars, OnePlace, Places, One
<1>. QED BY <1>1, <1>2, <1>3, <1>4, <1>5, <1>6 DEF IInv

\* Loading thread_delayed_free changes only the thread's own locals.
LEMMA RDelayedLoadInv ==
  ASSUME IInv, NEW t \in Remote, RDelayedLoad(t)
  PROVE  IInv'
<1>1. TypeOK'
  BY DEF IInv, RDelayedLoad, pageVars, sharedVars, ownerVars, TypeOK, DelayState,
       PageState, RemotePC, OwnerPC, UseDelayedFree, Freeing, NoDelayedFree,
       NeverDelayedFree
<1>2. RemoteLocals'
  BY DEF IInv, RDelayedLoad, pageVars, sharedVars, ownerVars, TypeOK, RemoteLocals,
       RemotePC
<1>3. DelayExact'
  BY DEF IInv, RDelayedLoad, pageVars, sharedVars, ownerVars, TypeOK, DelayExact,
       Window, Pending, BlocksOf, RemoteLocals, UseDelayedFree, Freeing, NoDelayedFree,
       NeverDelayedFree
<1>4. OwnerLocals'
  BY DEF IInv, RDelayedLoad, pageVars, sharedVars, ownerVars, OwnerLocals,
       HoldsDelayed, Draining
<1>5. HeadOK' /\ UsedCount' /\ Stranded' /\ Vacated'
  BY DEF IInv, RDelayedLoad, pageVars, sharedVars, ownerVars, HeadOK, UsedCount,
       Outside, Stranded, Unwinding, Vacated
<1>6. OnePlace'
  BY DEF IInv, RDelayedLoad, pageVars, sharedVars, ownerVars, OnePlace, Places, One
<1>. QED BY <1>1, <1>2, <1>3, <1>4, <1>5, <1>6 DEF IInv

\* The push onto thread_delayed_free announces the page, inside the window.
LEMMA RDelayedPushInv ==
  ASSUME IInv, NEW t \in Remote, RDelayedPush(t)
  PROVE  IInv'
<1>1. TypeOK'
  BY DEF IInv, RDelayedPush, pageVars, ownerVars, TypeOK, DelayState, PageState,
       RemotePC, OwnerPC, UseDelayedFree, Freeing, NoDelayedFree, NeverDelayedFree,
       RemoteLocals
<1>2. RemoteLocals'
  BY BlockAssumption, PageOfAssumption DEF IInv, RDelayedPush, pageVars, ownerVars,
       TypeOK, RemoteLocals, RemotePC
<1>3. OnePlace'
  BY BlockAssumption, PageOfAssumption DEF IInv, RDelayedPush, pageVars, ownerVars,
       TypeOK, OnePlace, Places, One, BlocksOf, RemoteLocals
<1>4. DelayExact'
  BY DEF IInv, RDelayedPush, pageVars, ownerVars, TypeOK, DelayExact, Window, Pending,
       BlocksOf, RemoteLocals, UseDelayedFree, Freeing, NoDelayedFree, NeverDelayedFree
<1>5. OwnerLocals'
  BY DEF IInv, RDelayedPush, pageVars, ownerVars, OwnerLocals, HoldsDelayed, Draining
<1>6. HeadOK' /\ UsedCount' /\ Stranded' /\ Vacated'
  BY DEF IInv, RDelayedPush, pageVars, ownerVars, HeadOK, UsedCount, Outside, Stranded,
       Unwinding, Vacated
<1>. QED BY <1>1, <1>2, <1>3, <1>4, <1>5, <1>6 DEF IInv

\* A failed exchange changes only the thread's own locals.
LEMMA RDelayedFailInv ==
  ASSUME IInv, NEW t \in Remote, RDelayedFail(t)
  PROVE  IInv'
<1>1. TypeOK'
  BY DEF IInv, RDelayedFail, pageVars, sharedVars, ownerVars, TypeOK, DelayState,
       PageState, RemotePC, OwnerPC, UseDelayedFree, Freeing, NoDelayedFree,
       NeverDelayedFree
<1>2. RemoteLocals'
  BY DEF IInv, RDelayedFail, pageVars, sharedVars, ownerVars, TypeOK, RemoteLocals,
       RemotePC
<1>3. DelayExact'
  BY DEF IInv, RDelayedFail, pageVars, sharedVars, ownerVars, TypeOK, DelayExact,
       Window, Pending, BlocksOf, RemoteLocals, UseDelayedFree, Freeing, NoDelayedFree,
       NeverDelayedFree
<1>4. OwnerLocals'
  BY DEF IInv, RDelayedFail, pageVars, sharedVars, ownerVars, OwnerLocals,
       HoldsDelayed, Draining
<1>5. HeadOK' /\ UsedCount' /\ Stranded' /\ Vacated'
  BY DEF IInv, RDelayedFail, pageVars, sharedVars, ownerVars, HeadOK, UsedCount,
       Outside, Stranded, Unwinding, Vacated
<1>6. OnePlace'
  BY DEF IInv, RDelayedFail, pageVars, sharedVars, ownerVars, OnePlace, Places, One
<1>. QED BY <1>1, <1>2, <1>3, <1>4, <1>5, <1>6 DEF IInv

\* fetch_xor(3) closes the window: Freeing becomes NoDelayedFree.
LEMMA RXorInv ==
  ASSUME IInv, NEW t \in Remote, RXor(t)
  PROVE  IInv'
<1>1. TypeOK'
  BY DEF IInv, RXor, Xor3, pageVars, ownerVars, TypeOK, DelayState, PageState,
       RemotePC, OwnerPC, UseDelayedFree, Freeing, NoDelayedFree, NeverDelayedFree,
       RemoteLocals
<1>2. RemoteLocals'
  BY DEF IInv, RXor, Xor3, pageVars, ownerVars, TypeOK, RemoteLocals, RemotePC
<1>3. DelayExact'
  BY DEF IInv, RXor, Xor3, pageVars, ownerVars, TypeOK, DelayExact, Window, Pending,
       BlocksOf, RemoteLocals, UseDelayedFree, Freeing, NoDelayedFree, NeverDelayedFree
<1>4. Stranded'
  <2>1. delay[rpage[t]] = Freeing /\ rpage[t] \in Page
    BY DEF IInv, TypeOK, RXor, RemoteLocals, DelayExact, Window
  <2>. QED BY <2>1 DEF IInv, RXor, Xor3, pageVars, ownerVars, TypeOK, Stranded,
       Unwinding, UseDelayedFree, Freeing, NoDelayedFree, NeverDelayedFree
<1>5. OwnerLocals'
  BY DEF IInv, RXor, pageVars, ownerVars, OwnerLocals, HoldsDelayed, Draining
<1>6. HeadOK' /\ UsedCount' /\ Vacated'
  BY DEF IInv, RXor, pageVars, ownerVars, HeadOK, UsedCount, Outside, Vacated
<1>7. OnePlace'
  BY DEF IInv, RXor, pageVars, ownerVars, OnePlace, Places, One
<1>. QED BY <1>1, <1>2, <1>3, <1>4, <1>5, <1>6, <1>7 DEF IInv

\* free on the owner thread gives a block back to its page.
LEMMA OFreeInv ==
  ASSUME IInv, NEW b \in Block, OFree(b)
  PROVE  IInv'
<1>1. TypeOK'
  <2>1. PageOf[b] \in Page
    BY PageOfAssumption
  <2>2. used' \in [Page -> Nat]
    BY InTransit, FreeLocalCount DEF OFree
  <2>. QED BY <2>1, <2>2 DEF IInv, OFree, FreeLocal, sharedVars, remoteVars, TypeOK,
       PageState, OwnerPC
<1>2. OwnerLocals'
  BY InTransit, FreeLocalCount, PageOfAssumption DEF IInv, OFree, FreeLocal,
       sharedVars, remoteVars, TypeOK, OwnerLocals, HoldsDelayed, Draining
<1>3. OnePlace'
  BY BlockAssumption, PageOfAssumption DEF IInv, OFree, FreeLocal, sharedVars,
       remoteVars, TypeOK, OnePlace, Places, One, BlocksOf, RemoteLocals
<1>4. UsedCount'
  BY InTransit, FreeLocalCount DEF OFree
<1>5. DelayExact'
  BY DEF IInv, OFree, FreeLocal, sharedVars, remoteVars, TypeOK, DelayExact, Window,
       Pending, BlocksOf, RemoteLocals, UseDelayedFree, Freeing, NoDelayedFree,
       NeverDelayedFree
<1>6. Stranded'
  BY InTransit, PageOfAssumption DEF IInv, OFree, FreeLocal, sharedVars, remoteVars,
       TypeOK, Stranded, Unwinding, UseDelayedFree, OwnerLocals, Bin
<1>7. Vacated'
  BY DEF IInv, OFree, FreeLocal, sharedVars, remoteVars, TypeOK, Vacated
<1>8. RemoteLocals' /\ HeadOK'
  BY DEF IInv, OFree, FreeLocal, sharedVars, remoteVars, RemoteLocals, HeadOK
<1>. QED BY <1>1, <1>2, <1>3, <1>4, <1>5, <1>6, <1>7, <1>8 DEF IInv

\* page_free resets the header of a page without outside blocks.
LEMMA OPageFreeInv ==
  ASSUME IInv, OPageFree
  PROVE  IInv'
<1>1. TypeOK'
  BY PageOfAssumption DEF IInv, OPageFree, sharedVars, remoteVars, TypeOK, PageState,
       OwnerPC, OwnerLocals, BlocksOf
<1>2. OwnerLocals'
  BY DEF IInv, OPageFree, sharedVars, remoteVars, TypeOK, OwnerLocals, HoldsDelayed,
       Draining, UseDelayedFree, Freeing, NoDelayedFree, NeverDelayedFree
<1>3. OnePlace'
  <2>1. opage \in Page /\ Outside(opage) = {}
    <3>1. opage \in Page /\ used[opage] = 0
      BY DEF IInv, OwnerLocals, OPageFree
    <3>. QED BY <3>1, OutsideFinite, FS_EmptySet DEF IInv, UsedCount
  <2>. SUFFICES ASSUME NEW b \in Block PROVE Places(b)' = 1
    BY <2>1 DEF IInv, TypeOK, OPageFree, sharedVars, remoteVars, OnePlace, BlocksOf
  <2>2. Places(b) = 1 /\ PageOf[b] \in Page
    BY PageOfAssumption DEF IInv, OnePlace
  <2>3. CASE PageOf[b] = opage
    <3>1. b \in free[opage] \cup local_free[opage] \cup raw[opage]
      BY <2>1, <2>3 DEF Outside, BlocksOf
    <3>. QED BY <2>1, <2>2, <2>3, <3>1 DEF IInv, TypeOK, OPageFree, sharedVars,
         remoteVars, Places, One, BlocksOf
  <2>4. CASE PageOf[b] # opage
    BY <2>1, <2>2, <2>4 DEF IInv, TypeOK, OPageFree, sharedVars, remoteVars, Places, One
  <2>. QED BY <2>3, <2>4
<1>4. UsedCount'
  <2>1. opage \in Page
    BY DEF IInv, OwnerLocals, OPageFree
  <2>2. Outside(opage)' = {} /\ opage' = opage /\ used'[opage] = 0
    BY <2>1 DEF IInv, TypeOK, OPageFree, Outside, BlocksOf
  <2>3. \A q \in Page \ {opage} : Outside(q)' = Outside(q) /\ used'[q] = used[q]
    BY <2>1 DEF IInv, TypeOK, OPageFree, Outside, BlocksOf
  <2>4. Cardinality({}) = 0
    BY FS_EmptySet
  <2>. QED BY <2>1, <2>2, <2>3, <2>4 DEF IInv, UsedCount
<1>5. DelayExact'
  <2>1. \A p \in Page : Window(p)' = Window(p) /\ Pending(p)' = Pending(p)
    BY DEF OPageFree, sharedVars, remoteVars, Window, Pending, BlocksOf
  <2>. QED BY <2>1 DEF IInv, DelayExact, OPageFree, sharedVars, remoteVars
<1>6. Stranded'
  BY DEF IInv, OPageFree, sharedVars, remoteVars, TypeOK, Stranded, Unwinding,
       UseDelayedFree
<1>7. Vacated'
  BY DEF IInv, OPageFree, sharedVars, remoteVars, TypeOK, Vacated
<1>8. RemoteLocals' /\ HeadOK'
  BY DEF IInv, OPageFree, sharedVars, remoteVars, RemoteLocals, HeadOK
<1>. QED BY <1>1, <1>2, <1>3, <1>4, <1>5, <1>6, <1>7, <1>8 DEF IInv

\* check_is_good waits and changes nothing.
LEMMA OCheckGoodInv ==
  ASSUME IInv, OCheckGood
  PROVE  IInv'
<1>1. TypeOK'
  BY DEF IInv, OCheckGood, pageVars, sharedVars, remoteVars, TypeOK, DelayState,
       PageState, RemotePC, OwnerPC, UseDelayedFree, Freeing, NoDelayedFree,
       NeverDelayedFree
<1>2. OwnerLocals'
  BY DEF IInv, OCheckGood, pageVars, sharedVars, remoteVars, TypeOK, OwnerLocals,
       HoldsDelayed, Draining, UseDelayedFree, Freeing, NoDelayedFree, NeverDelayedFree
<1>3. DelayExact'
  BY DEF IInv, OCheckGood, pageVars, sharedVars, remoteVars, TypeOK, DelayExact,
       Window, Pending, BlocksOf, RemoteLocals, UseDelayedFree, Freeing, NoDelayedFree,
       NeverDelayedFree
<1>4. Stranded'
  BY DEF IInv, OCheckGood, pageVars, sharedVars, remoteVars, TypeOK, Stranded,
       Unwinding, UseDelayedFree
<1>5. RemoteLocals' /\ HeadOK' /\ UsedCount' /\ Vacated'
  BY DEF IInv, OCheckGood, pageVars, sharedVars, remoteVars, RemoteLocals, HeadOK,
       UsedCount, Outside, Vacated
<1>6. OnePlace'
  BY DEF IInv, OCheckGood, pageVars, sharedVars, remoteVars, OnePlace, Places, One
<1>. QED BY <1>1, <1>2, <1>3, <1>4, <1>5, <1>6 DEF IInv

\* A cleared page returns to its segment.
LEMMA OClearInv ==
  ASSUME IInv, OClear
  PROVE  IInv'
<1>1. TypeOK'
  <2>1. opage \in Page /\ delay[opage] = UseDelayedFree /\ tfree[opage] = {}
    BY QuietLemma DEF IInv, OwnerLocals, OClear, ClearIsQuiet
  <2>. QED BY <2>1 DEF IInv, OClear, remoteVars, TypeOK, DelayState, PageState,
       OwnerLocals, OwnerPC, UseDelayedFree
<1>2. OwnerLocals'
  BY DEF IInv, OClear, remoteVars, TypeOK, OwnerLocals, HoldsDelayed, Draining,
       UseDelayedFree, Freeing, NoDelayedFree, NeverDelayedFree
<1>3. HeadOK'
  <2>1. opage \in Page /\ delay[opage] = UseDelayedFree /\ tfree[opage] = {}
    BY QuietLemma DEF IInv, OwnerLocals, OClear, ClearIsQuiet
  <2>2. delay' = delay /\ tfree' = tfree
    BY <2>1 DEF IInv, TypeOK, OClear
  <2>. QED BY <2>1, <2>2 DEF IInv, TypeOK, HeadOK, OClear
<1>4. OnePlace'
  <2>1. opage \in Page /\ delay[opage] = UseDelayedFree /\ tfree[opage] = {}
    BY QuietLemma DEF IInv, OwnerLocals, OClear, ClearIsQuiet
  <2>2. delay' = delay /\ tfree' = tfree
    BY <2>1 DEF IInv, TypeOK, OClear
  <2>. QED BY <2>2 DEF IInv, OnePlace, Places, One, OClear, remoteVars
<1>5. DelayExact'
  <2>1. opage \in Page /\ delay[opage] = UseDelayedFree /\ tfree[opage] = {}
    BY QuietLemma DEF IInv, OwnerLocals, OClear, ClearIsQuiet
  <2>2. delay' = delay /\ tfree' = tfree
    BY <2>1 DEF IInv, TypeOK, OClear
  <2>3. \A p \in Page : Window(p)' = Window(p) /\ Pending(p)' = Pending(p)
    BY DEF IInv, OwnerLocals, OClear, remoteVars, Window, Pending, BlocksOf
  <2>. QED BY <2>2, <2>3 DEF IInv, DelayExact, OClear, remoteVars
<1>6. Stranded'
  <2>1. opage \in Page /\ delay[opage] = UseDelayedFree /\ tfree[opage] = {}
    BY QuietLemma DEF IInv, OwnerLocals, OClear, ClearIsQuiet
  <2>2. delay' = delay /\ tfree' = tfree
    BY <2>1 DEF IInv, TypeOK, OClear
  <2>. QED BY <2>1, <2>2 DEF IInv, OClear, remoteVars, TypeOK, Stranded, Unwinding,
       UseDelayedFree
<1>7. Vacated'
  BY DEF IInv, OClear, remoteVars, TypeOK, Vacated, OwnerLocals, BlocksOf
<1>8. RemoteLocals' /\ UsedCount'
  BY DEF IInv, OClear, remoteVars, RemoteLocals, UsedCount, Outside
<1>. QED BY <1>1, <1>2, <1>3, <1>4, <1>5, <1>6, <1>7, <1>8 DEF IInv

\* The fast path of malloc hands out one block.
LEMMA OMallocFastInv ==
  ASSUME IInv, NEW p \in Page, NEW b \in Block, OMallocFast(p, b)
  PROVE  IInv'
<1>1. TypeOK'
  BY DEF IInv, OMallocFast, Bin, sharedVars, remoteVars, ownerVars, TypeOK, DelayState,
       PageState, RemotePC, OwnerPC, UseDelayedFree, Freeing, NoDelayedFree,
       NeverDelayedFree
<1>2. OwnerLocals'
  BY DEF IInv, OMallocFast, Bin, sharedVars, remoteVars, ownerVars, TypeOK,
       OwnerLocals, HoldsDelayed, Draining, UseDelayedFree, Freeing, NoDelayedFree,
       NeverDelayedFree
<1>3. OnePlace'
  BY DEF IInv, OMallocFast, Bin, sharedVars, remoteVars, ownerVars, TypeOK, OnePlace,
       Places, One, BlocksOf, RemoteLocals
<1>4. UsedCount'
  <2>1. p \in Page /\ b \in free[p] /\ b \in BlocksOf(p)
    BY DEF IInv, OnePlace, OwnerLocals, OMallocFast
  <2>2. /\ Outside(p)' = Outside(p) \cup {b}
        /\ b \notin Outside(p)
        /\ \A q \in Page \ {p} : Outside(q)' = Outside(q) /\ used'[q] = used[q]
        /\ used'[p] = used[p] + 1
    <3>1. Places(b) = 1 /\ PageOf[b] = p
      BY <2>1 DEF IInv, OnePlace, BlocksOf
    <3>2. b \notin local_free[p] /\ b \notin raw[p]
      BY <2>1, <3>1 DEF Places, One
    <3>. QED BY <2>1, <3>1, <3>2 DEF IInv, TypeOK, OMallocFast, Outside, BlocksOf
  <2>. QED BY <2>1, <2>2, OutsideFinite, FS_AddElement DEF IInv, UsedCount
<1>5. Stranded'
  BY DEF IInv, OMallocFast, Bin, sharedVars, remoteVars, ownerVars, TypeOK, Stranded,
       Unwinding, UseDelayedFree
<1>6. RemoteLocals' /\ HeadOK' /\ DelayExact' /\ Vacated'
  BY DEF IInv, OMallocFast, sharedVars, remoteVars, ownerVars, RemoteLocals, HeadOK,
       DelayExact, Window, Pending, Vacated
<1>. QED BY <1>1, <1>2, <1>3, <1>4, <1>5, <1>6 DEF IInv

\* Loading thread_delayed_free starts malloc_generic.
LEMMA OTakeLoadInv ==
  ASSUME IInv, OTakeLoad
  PROVE  IInv'
<1>1. TypeOK'
  BY DEF IInv, OTakeLoad, pageVars, sharedVars, remoteVars, TypeOK, DelayState,
       PageState, RemotePC, OwnerPC, UseDelayedFree, Freeing, NoDelayedFree,
       NeverDelayedFree
<1>2. OwnerLocals'
  BY DEF IInv, OTakeLoad, pageVars, sharedVars, remoteVars, TypeOK, OwnerLocals,
       HoldsDelayed, Draining, UseDelayedFree, Freeing, NoDelayedFree, NeverDelayedFree
<1>3. DelayExact'
  BY DEF IInv, OTakeLoad, pageVars, sharedVars, remoteVars, TypeOK, DelayExact, Window,
       Pending, BlocksOf, RemoteLocals, UseDelayedFree, Freeing, NoDelayedFree,
       NeverDelayedFree
<1>4. Stranded'
  BY DEF IInv, OTakeLoad, pageVars, sharedVars, remoteVars, TypeOK, Stranded,
       Unwinding, UseDelayedFree
<1>5. RemoteLocals' /\ HeadOK' /\ UsedCount' /\ Vacated'
  BY DEF IInv, OTakeLoad, pageVars, sharedVars, remoteVars, RemoteLocals, HeadOK,
       UsedCount, Outside, Vacated
<1>6. OnePlace'
  BY DEF IInv, OTakeLoad, pageVars, sharedVars, remoteVars, OnePlace, Places, One
<1>. QED BY <1>1, <1>2, <1>3, <1>4, <1>5, <1>6 DEF IInv

\* The swap moves the whole delayed list to the owner.
LEMMA OTakeSwapInv ==
  ASSUME IInv, OTakeSwap
  PROVE  IInv'
<1>1. TypeOK'
  BY DEF IInv, OTakeSwap, pageVars, remoteVars, TypeOK, DelayState, PageState,
       RemotePC, OwnerPC, UseDelayedFree, Freeing, NoDelayedFree, NeverDelayedFree
<1>2. OwnerLocals'
  BY DEF IInv, OTakeSwap, pageVars, remoteVars, TypeOK, OwnerLocals, HoldsDelayed,
       Draining, UseDelayedFree, Freeing, NoDelayedFree, NeverDelayedFree
<1>3. OnePlace'
  BY DEF IInv, OTakeSwap, pageVars, remoteVars, TypeOK, OnePlace, Places, One,
       BlocksOf, OwnerLocals, HoldsDelayed, Draining
<1>4. DelayExact'
  <2>1. \A p \in Page : Window(p)' = Window(p)
    BY DEF IInv, TypeOK, RemoteLocals, OTakeSwap, pageVars, remoteVars, Window
  <2>2. \A p \in Page : Pending(p)' = Pending(p)
    BY DEF IInv, TypeOK, OwnerLocals, HoldsDelayed, OTakeSwap, pageVars, remoteVars,
         Pending, Draining
  <2>3. \A p \in Page, u \in Remote : u \in Window(p) => (rpc[u] = "xor") = (rpc[u] = "xor")'
    BY DEF IInv, TypeOK, RemoteLocals, OTakeSwap, pageVars, remoteVars, Window
  <2>. QED BY <2>1, <2>2, <2>3 DEF IInv, DelayExact, OTakeSwap, pageVars, remoteVars
<1>5. Stranded'
  BY DEF IInv, OTakeSwap, pageVars, remoteVars, TypeOK, Stranded, Unwinding,
       UseDelayedFree
<1>6. RemoteLocals' /\ HeadOK' /\ UsedCount' /\ Vacated'
  BY DEF IInv, OTakeSwap, pageVars, remoteVars, RemoteLocals, HeadOK, UsedCount,
       Outside, Vacated
<1>. QED BY <1>1, <1>2, <1>3, <1>4, <1>5, <1>6 DEF IInv

\* The owner takes up one delayed block.
LEMMA OPopInv ==
  ASSUME IInv, NEW b \in Block, OPop(b)
  PROVE  IInv'
<1>1. TypeOK'
  BY PageOfAssumption, BoundAssumption DEF IInv, OPop, pageVars, sharedVars,
       remoteVars, TypeOK, DelayState, PageState, RemotePC, OwnerPC, UseDelayedFree,
       Freeing, NoDelayedFree, NeverDelayedFree
<1>2. OwnerLocals'
  BY DEF IInv, OPop, pageVars, sharedVars, remoteVars, TypeOK, OwnerLocals,
       HoldsDelayed, Draining, UseDelayedFree, Freeing, NoDelayedFree, NeverDelayedFree
<1>3. OnePlace'
  BY BlockAssumption DEF IInv, OPop, pageVars, sharedVars, remoteVars, TypeOK,
       OnePlace, Places, One, BlocksOf, OwnerLocals, HoldsDelayed
<1>4. DelayExact'
  BY DEF IInv, OPop, pageVars, sharedVars, remoteVars, TypeOK, DelayExact, Window,
       Pending, BlocksOf, RemoteLocals, UseDelayedFree, Freeing, NoDelayedFree,
       NeverDelayedFree
<1>5. Stranded'
  BY DEF IInv, OPop, pageVars, sharedVars, remoteVars, TypeOK, Stranded, Unwinding,
       UseDelayedFree
<1>6. RemoteLocals' /\ HeadOK' /\ UsedCount' /\ Vacated'
  BY DEF IInv, OPop, pageVars, sharedVars, remoteVars, RemoteLocals, HeadOK, UsedCount,
       Outside, Vacated
<1>. QED BY <1>1, <1>2, <1>3, <1>4, <1>5, <1>6 DEF IInv

\* The delayed list is worked off.
LEMMA OPopDoneInv ==
  ASSUME IInv, OPopDone
  PROVE  IInv'
<1>1. TypeOK'
  BY DEF IInv, OPopDone, pageVars, sharedVars, remoteVars, TypeOK, DelayState,
       PageState, RemotePC, OwnerPC, UseDelayedFree, Freeing, NoDelayedFree,
       NeverDelayedFree
<1>2. OwnerLocals'
  BY DEF IInv, OPopDone, pageVars, sharedVars, remoteVars, TypeOK, OwnerLocals,
       HoldsDelayed, Draining, UseDelayedFree, Freeing, NoDelayedFree, NeverDelayedFree
<1>3. DelayExact'
  BY DEF IInv, OPopDone, pageVars, sharedVars, remoteVars, TypeOK, DelayExact, Window,
       Pending, BlocksOf, RemoteLocals, UseDelayedFree, Freeing, NoDelayedFree,
       NeverDelayedFree
<1>4. Stranded'
  BY DEF IInv, OPopDone, pageVars, sharedVars, remoteVars, TypeOK, Stranded, Unwinding,
       UseDelayedFree
<1>5. RemoteLocals' /\ HeadOK' /\ UsedCount' /\ Vacated'
  BY DEF IInv, OPopDone, pageVars, sharedVars, remoteVars, RemoteLocals, HeadOK,
       UsedCount, Outside, Vacated
<1>6. OnePlace'
  BY DEF IInv, OPopDone, pageVars, sharedVars, remoteVars, OnePlace, Places, One
<1>. QED BY <1>1, <1>2, <1>3, <1>4, <1>5, <1>6 DEF IInv

\* A yield waits for the thread in the window.
LEMMA OTryYieldInv ==
  ASSUME IInv, OTryYield
  PROVE  IInv'
<1>1. TypeOK'
  BY BoundAssumption DEF IInv, OTryYield, pageVars, sharedVars, remoteVars, TypeOK,
       DelayState, PageState, RemotePC, OwnerPC, UseDelayedFree, Freeing,
       NoDelayedFree, NeverDelayedFree
<1>2. OwnerLocals'
  BY DEF IInv, OTryYield, pageVars, sharedVars, remoteVars, OwnerLocals, HoldsDelayed,
       Draining
<1>3. RemoteLocals' /\ HeadOK' /\ UsedCount' /\ DelayExact' /\ Stranded' /\ Vacated'
  BY DEF IInv, OTryYield, pageVars, sharedVars, remoteVars, RemoteLocals, HeadOK,
       UsedCount, Outside, DelayExact, Window, Pending, Stranded, Unwinding, Vacated
<1>4. OnePlace'
  BY DEF IInv, OTryYield, pageVars, sharedVars, remoteVars, OnePlace, Places, One
<1>. QED BY <1>1, <1>2, <1>3, <1>4 DEF IInv

\* After enough yields the owner gives the block up.
LEMMA OTryGiveUpInv ==
  ASSUME IInv, OTryGiveUp
  PROVE  IInv'
<1>1. TypeOK'
  BY BoundAssumption DEF IInv, OTryGiveUp, pageVars, sharedVars, remoteVars, TypeOK,
       DelayState, PageState, RemotePC, OwnerPC, UseDelayedFree, Freeing,
       NoDelayedFree, NeverDelayedFree
<1>2. OwnerLocals'
  BY DEF IInv, OTryGiveUp, pageVars, sharedVars, remoteVars, TypeOK, OwnerLocals,
       HoldsDelayed, Draining, UseDelayedFree, Freeing, NoDelayedFree, NeverDelayedFree
<1>3. DelayExact'
  BY DEF IInv, OTryGiveUp, pageVars, sharedVars, remoteVars, TypeOK, DelayExact,
       Window, Pending, BlocksOf, RemoteLocals, UseDelayedFree, Freeing, NoDelayedFree,
       NeverDelayedFree
<1>4. Stranded'
  BY DEF IInv, OTryGiveUp, pageVars, sharedVars, remoteVars, TypeOK, Stranded,
       Unwinding, UseDelayedFree
<1>5. RemoteLocals' /\ HeadOK' /\ UsedCount' /\ Vacated'
  BY DEF IInv, OTryGiveUp, pageVars, sharedVars, remoteVars, RemoteLocals, HeadOK,
       UsedCount, Outside, Vacated
<1>6. OnePlace'
  BY DEF IInv, OTryGiveUp, pageVars, sharedVars, remoteVars, OnePlace, Places, One
<1>. QED BY <1>1, <1>2, <1>3, <1>4, <1>5, <1>6 DEF IInv

\* The page of a delayed block that is not Freeing is NoDelayedFree.
LEMMA OTryLoadInv ==
  ASSUME IInv, OTryLoad
  PROVE  IInv'
<1>1. TypeOK'
  <2>1. opage \in Page
    BY PageOfAssumption DEF IInv, OwnerLocals, HoldsDelayed, OTryLoad
  <2>. QED BY <2>1, BoundAssumption DEF IInv, OTryLoad, pageVars, sharedVars,
       remoteVars, TypeOK, DelayState, OwnerPC, UseDelayedFree
<1>2. OwnerLocals'
  BY PageOfAssumption DEF IInv, OTryLoad, pageVars, sharedVars, remoteVars, TypeOK,
       OwnerLocals, HoldsDelayed, Draining, NoDelayedFree
<1>3. DelayExact'
  <2>1. delay[opage] = NoDelayedFree
    <3>1. oblk \in Pending(opage) /\ opage \in Page
      BY PageOfAssumption DEF IInv, OTryLoad, OwnerLocals, HoldsDelayed, Pending,
           BlocksOf
    <3>. QED BY <3>1 DEF IInv, DelayExact, OTryLoad
  <2>2. \A p \in Page : Window(p)' = Window(p) /\ Pending(p)' = Pending(p)
    BY <2>1 DEF OTryLoad, pageVars, sharedVars, remoteVars, Window, Pending, BlocksOf
  <2>. QED BY <2>2 DEF IInv, DelayExact, OTryLoad, pageVars, sharedVars, remoteVars
<1>4. Stranded'
  BY DEF IInv, OTryLoad, pageVars, sharedVars, remoteVars, TypeOK, Stranded, Unwinding,
       UseDelayedFree
<1>5. RemoteLocals' /\ HeadOK' /\ UsedCount' /\ Vacated'
  BY DEF IInv, OTryLoad, pageVars, sharedVars, remoteVars, RemoteLocals, HeadOK,
       UsedCount, Outside, Vacated
<1>6. OnePlace'
  BY DEF IInv, OTryLoad, pageVars, sharedVars, remoteVars, OnePlace, Places, One
<1>. QED BY <1>1, <1>2, <1>3, <1>4, <1>5, <1>6 DEF IInv

\* The exchange to UseDelayedFree retires the page's announcement.
LEMMA OTryCasInv ==
  ASSUME IInv, OTryCas
  PROVE  IInv'
<1>1. TypeOK'
  <2>1. opage \in Page
    BY PageOfAssumption DEF IInv, OwnerLocals, HoldsDelayed, OTryCas
  <2>. QED BY <2>1, BoundAssumption DEF IInv, OTryCas, pageVars, remoteVars, TypeOK,
       DelayState, OwnerPC, UseDelayedFree
<1>2. OwnerLocals'
  BY PageOfAssumption DEF IInv, OTryCas, pageVars, remoteVars, TypeOK, OwnerLocals,
       HoldsDelayed, Draining, UseDelayedFree, Freeing, NoDelayedFree, NeverDelayedFree
<1>3. DelayExact'
  <2>1. /\ oblk \in Pending(opage) /\ opage \in Page /\ opage = PageOf[oblk]
        /\ delay[opage] = NoDelayedFree
    BY PageOfAssumption DEF IInv, OTryCas, OwnerLocals, HoldsDelayed, Pending, BlocksOf
  <2>2. /\ Pending(opage)' = {}
        /\ opage' = opage
        /\ \A q \in Page \ {opage} : Pending(q)' = Pending(q) /\ delay'[q] = delay[q]
        /\ delay'[opage] = UseDelayedFree
    <3>1. \A b \in Pending(opage) : b = oblk
      BY <2>1 DEF IInv, DelayExact
    <3>2. oblk \notin dfree \cup pend
      <4>1. oblk \in Block /\ Places(oblk) = 1
        BY DEF IInv, OTryCas, OwnerLocals, HoldsDelayed, OnePlace
      <4>. QED BY <4>1 DEF Places, One
    <3>. QED BY <2>1, <3>1, <3>2 DEF IInv, TypeOK, OTryCas, pageVars, remoteVars,
         Pending, BlocksOf
  <2>3. \A p \in Page : Window(p)' = Window(p)
    BY DEF OTryCas, pageVars, remoteVars, Window
  <2>4. Window(opage) = {}
    BY <2>1 DEF IInv, DelayExact, Freeing, NoDelayedFree
  <2>. QED BY <2>1, <2>2, <2>3, <2>4 DEF IInv, DelayExact, OTryCas, pageVars,
       remoteVars, UseDelayedFree, Freeing, NoDelayedFree, NeverDelayedFree
<1>4. Stranded'
  BY DEF IInv, OTryCas, pageVars, remoteVars, TypeOK, Stranded, Unwinding,
       UseDelayedFree
<1>5. RemoteLocals' /\ HeadOK' /\ UsedCount' /\ Vacated'
  BY DEF IInv, OTryCas, pageVars, remoteVars, RemoteLocals, HeadOK, UsedCount, Outside,
       Vacated
<1>6. OnePlace'
  BY DEF IInv, OTryCas, pageVars, remoteVars, OnePlace, Places, One
<1>. QED BY <1>1, <1>2, <1>3, <1>4, <1>5, <1>6 DEF IInv

\* A failed exchange changes only the owner's locals.
LEMMA OTryFailInv ==
  ASSUME IInv, OTryFail
  PROVE  IInv'
<1>1. TypeOK'
  BY DEF IInv, OTryFail, pageVars, sharedVars, remoteVars, TypeOK, DelayState,
       PageState, RemotePC, OwnerPC, UseDelayedFree, Freeing, NoDelayedFree,
       NeverDelayedFree
<1>2. OwnerLocals'
  BY DEF IInv, OTryFail, pageVars, sharedVars, remoteVars, TypeOK, OwnerLocals,
       HoldsDelayed, Draining, UseDelayedFree, Freeing, NoDelayedFree, NeverDelayedFree
<1>3. DelayExact'
  BY DEF IInv, OTryFail, pageVars, sharedVars, remoteVars, TypeOK, DelayExact, Window,
       Pending, BlocksOf, RemoteLocals, UseDelayedFree, Freeing, NoDelayedFree,
       NeverDelayedFree
<1>4. Stranded'
  BY DEF IInv, OTryFail, pageVars, sharedVars, remoteVars, TypeOK, Stranded, Unwinding,
       UseDelayedFree
<1>5. RemoteLocals' /\ HeadOK' /\ UsedCount' /\ Vacated'
  BY DEF IInv, OTryFail, pageVars, sharedVars, remoteVars, RemoteLocals, HeadOK,
       UsedCount, Outside, Vacated
<1>6. OnePlace'
  BY DEF IInv, OTryFail, pageVars, sharedVars, remoteVars, OnePlace, Places, One
<1>. QED BY <1>1, <1>2, <1>3, <1>4, <1>5, <1>6 DEF IInv

\* Loading thread_delayed_free changes only the owner's locals.
LEMMA OReinsertLoadInv ==
  ASSUME IInv, OReinsertLoad
  PROVE  IInv'
<1>1. TypeOK'
  BY DEF IInv, OReinsertLoad, pageVars, sharedVars, remoteVars, TypeOK, DelayState,
       PageState, RemotePC, OwnerPC, UseDelayedFree, Freeing, NoDelayedFree,
       NeverDelayedFree
<1>2. OwnerLocals'
  BY DEF IInv, OReinsertLoad, pageVars, sharedVars, remoteVars, TypeOK, OwnerLocals,
       HoldsDelayed, Draining, UseDelayedFree, Freeing, NoDelayedFree, NeverDelayedFree
<1>3. DelayExact'
  BY DEF IInv, OReinsertLoad, pageVars, sharedVars, remoteVars, TypeOK, DelayExact,
       Window, Pending, BlocksOf, RemoteLocals, UseDelayedFree, Freeing, NoDelayedFree,
       NeverDelayedFree
<1>4. Stranded'
  BY DEF IInv, OReinsertLoad, pageVars, sharedVars, remoteVars, TypeOK, Stranded,
       Unwinding, UseDelayedFree
<1>5. RemoteLocals' /\ HeadOK' /\ UsedCount' /\ Vacated'
  BY DEF IInv, OReinsertLoad, pageVars, sharedVars, remoteVars, RemoteLocals, HeadOK,
       UsedCount, Outside, Vacated
<1>6. OnePlace'
  BY DEF IInv, OReinsertLoad, pageVars, sharedVars, remoteVars, OnePlace, Places, One
<1>. QED BY <1>1, <1>2, <1>3, <1>4, <1>5, <1>6 DEF IInv

\* The block that was given up is on the delayed list again.
LEMMA OReinsertPushInv ==
  ASSUME IInv, OReinsertPush
  PROVE  IInv'
<1>1. TypeOK'
  BY DEF IInv, OReinsertPush, pageVars, remoteVars, TypeOK, DelayState, PageState,
       RemotePC, OwnerPC, UseDelayedFree, Freeing, NoDelayedFree, NeverDelayedFree,
       OwnerLocals, HoldsDelayed
<1>2. OwnerLocals'
  BY DEF IInv, OReinsertPush, pageVars, remoteVars, TypeOK, OwnerLocals, HoldsDelayed,
       Draining, UseDelayedFree, Freeing, NoDelayedFree, NeverDelayedFree
<1>3. OnePlace'
  BY BlockAssumption, PageOfAssumption DEF IInv, OReinsertPush, pageVars, remoteVars,
       TypeOK, OnePlace, Places, One, BlocksOf, RemoteLocals
<1>4. DelayExact'
  BY DEF IInv, OReinsertPush, pageVars, remoteVars, TypeOK, DelayExact, Window,
       Pending, BlocksOf, RemoteLocals, UseDelayedFree, Freeing, NoDelayedFree,
       NeverDelayedFree
<1>5. Stranded'
  BY DEF IInv, OReinsertPush, pageVars, remoteVars, TypeOK, Stranded, Unwinding,
       UseDelayedFree
<1>6. RemoteLocals' /\ HeadOK' /\ UsedCount' /\ Vacated'
  BY DEF IInv, OReinsertPush, pageVars, remoteVars, RemoteLocals, HeadOK, UsedCount,
       Outside, Vacated
<1>. QED BY <1>1, <1>2, <1>3, <1>4, <1>5, <1>6 DEF IInv

\* A failed exchange changes only the owner's locals.
LEMMA OReinsertFailInv ==
  ASSUME IInv, OReinsertFail
  PROVE  IInv'
<1>1. TypeOK'
  BY DEF IInv, OReinsertFail, pageVars, sharedVars, remoteVars, TypeOK, DelayState,
       PageState, RemotePC, OwnerPC, UseDelayedFree, Freeing, NoDelayedFree,
       NeverDelayedFree
<1>2. OwnerLocals'
  BY DEF IInv, OReinsertFail, pageVars, sharedVars, remoteVars, TypeOK, OwnerLocals,
       HoldsDelayed, Draining, UseDelayedFree, Freeing, NoDelayedFree, NeverDelayedFree
<1>3. DelayExact'
  BY DEF IInv, OReinsertFail, pageVars, sharedVars, remoteVars, TypeOK, DelayExact,
       Window, Pending, BlocksOf, RemoteLocals, UseDelayedFree, Freeing, NoDelayedFree,
       NeverDelayedFree
<1>4. Stranded'
  BY DEF IInv, OReinsertFail, pageVars, sharedVars, remoteVars, TypeOK, Stranded,
       Unwinding, UseDelayedFree
<1>5. RemoteLocals' /\ HeadOK' /\ UsedCount' /\ Vacated'
  BY DEF IInv, OReinsertFail, pageVars, sharedVars, remoteVars, RemoteLocals, HeadOK,
       UsedCount, Outside, Vacated
<1>6. OnePlace'
  BY DEF IInv, OReinsertFail, pageVars, sharedVars, remoteVars, OnePlace, Places, One
<1>. QED BY <1>1, <1>2, <1>3, <1>4, <1>5, <1>6 DEF IInv

\* page_free_collect finds something to take.
LEMMA OCollectLoadInv ==
  ASSUME IInv, OCollectLoad
  PROVE  IInv'
<1>1. TypeOK'
  BY DEF IInv, OCollectLoad, pageVars, sharedVars, remoteVars, TypeOK, DelayState,
       PageState, RemotePC, OwnerPC, UseDelayedFree, Freeing, NoDelayedFree,
       NeverDelayedFree
<1>2. OwnerLocals'
  BY DEF IInv, OCollectLoad, pageVars, sharedVars, remoteVars, TypeOK, OwnerLocals,
       HoldsDelayed, Draining, UseDelayedFree, Freeing, NoDelayedFree, NeverDelayedFree
<1>3. DelayExact'
  BY DEF IInv, OCollectLoad, pageVars, sharedVars, remoteVars, TypeOK, DelayExact,
       Window, Pending, BlocksOf, RemoteLocals, UseDelayedFree, Freeing, NoDelayedFree,
       NeverDelayedFree
<1>4. Stranded'
  BY DEF IInv, OCollectLoad, pageVars, sharedVars, remoteVars, TypeOK, Stranded,
       Unwinding, UseDelayedFree
<1>5. RemoteLocals' /\ HeadOK' /\ UsedCount' /\ Vacated'
  BY DEF IInv, OCollectLoad, pageVars, sharedVars, remoteVars, RemoteLocals, HeadOK,
       UsedCount, Outside, Vacated
<1>6. OnePlace'
  BY DEF IInv, OCollectLoad, pageVars, sharedVars, remoteVars, OnePlace, Places, One
<1>. QED BY <1>1, <1>2, <1>3, <1>4, <1>5, <1>6 DEF IInv

\* page_free_collect with nothing to take moves local_free to free.
LEMMA OCollectSkipInv ==
  ASSUME IInv, OCollectSkip
  PROVE  IInv'
<1>1. TypeOK'
  BY DEF IInv, OCollectSkip, Refill, sharedVars, remoteVars, TypeOK, DelayState,
       PageState, RemotePC, OwnerPC, UseDelayedFree, Freeing, NoDelayedFree,
       NeverDelayedFree
<1>2. OwnerLocals'
  BY DEF IInv, OCollectSkip, Refill, sharedVars, remoteVars, TypeOK, OwnerLocals,
       HoldsDelayed, Draining, UseDelayedFree, Freeing, NoDelayedFree, NeverDelayedFree
<1>3. OnePlace'
  <2>1. opage \in Page /\ opage' = opage
    BY DEF IInv, OwnerLocals, OCollectSkip
  <2>2. CASE free[opage] # {}
    BY <2>1, <2>2 DEF IInv, OCollectSkip, Refill, sharedVars, remoteVars, TypeOK,
         OnePlace, Places, One, BlocksOf
  <2>3. CASE free[opage] = {}
    <3>1. /\ free' = [free EXCEPT ![opage] = local_free[opage]]
          /\ local_free' = [local_free EXCEPT ![opage] = {}]
      BY <2>3 DEF OCollectSkip, Refill
    <3>2. \A p \in Page : free'[p] \cup local_free'[p] = free[p] \cup local_free[p]
      BY <2>1, <2>3, <3>1 DEF IInv, TypeOK
    <3>3. ASSUME NEW b \in Block PROVE Places(b)' = 1
      <4>1. Places(b) = 1 /\ PageOf[b] \in Page
        BY PageOfAssumption DEF IInv, OnePlace
      <4>2. One(b \in free'[PageOf[b]]) + One(b \in local_free'[PageOf[b]])
              = One(b \in free[PageOf[b]]) + One(b \in local_free[PageOf[b]])
        BY <2>1, <2>3, <3>1, <4>1 DEF IInv, TypeOK, One
      <4>. QED BY <4>1, <4>2 DEF OCollectSkip, sharedVars, remoteVars, Places, One
    <3>. QED BY <3>2, <3>3 DEF IInv, OnePlace, OCollectSkip, sharedVars, remoteVars
  <2>. QED BY <2>2, <2>3
<1>4. UsedCount'
  <2>1. opage \in Page /\ opage' = opage
    BY DEF IInv, OwnerLocals, OCollectSkip
  <2>2. \A p \in Page : Outside(p)' = Outside(p) /\ used'[p] = used[p]
    BY <2>1 DEF IInv, TypeOK, OCollectSkip, Refill, Outside, BlocksOf
  <2>. QED BY <2>2 DEF IInv, UsedCount
<1>5. DelayExact'
  <2>1. \A p \in Page : Window(p)' = Window(p)
    BY DEF IInv, TypeOK, RemoteLocals, OCollectSkip, sharedVars, remoteVars, Window
  <2>2. \A p \in Page : Pending(p)' = Pending(p)
    BY DEF IInv, TypeOK, OwnerLocals, HoldsDelayed, OCollectSkip, sharedVars,
         remoteVars, Pending
  <2>3. \A p \in Page, u \in Remote : u \in Window(p) => (rpc[u] = "xor") = (rpc[u] = "xor")'
    BY DEF IInv, TypeOK, RemoteLocals, OCollectSkip, sharedVars, remoteVars, Window
  <2>. QED BY <2>1, <2>2, <2>3 DEF IInv, DelayExact, OCollectSkip, sharedVars,
       remoteVars
<1>6. Stranded'
  <2>1. opage \in Page /\ opage' = opage
    BY DEF IInv, OwnerLocals, OCollectSkip
  <2>2. tfree[opage] = {}
    BY <2>1 DEF IInv, HeadOK, OCollectSkip
  <2>. QED BY <2>1, <2>2 DEF IInv, OCollectSkip, Refill, sharedVars, remoteVars,
       TypeOK, Stranded, Unwinding, UseDelayedFree
<1>7. RemoteLocals' /\ HeadOK' /\ Vacated'
  BY DEF IInv, OCollectSkip, sharedVars, remoteVars, RemoteLocals, HeadOK, Vacated
<1>. QED BY <1>1, <1>2, <1>3, <1>4, <1>5, <1>6, <1>7 DEF IInv

\* page_thread_free_collect takes the thread_free list and counts it.
LEMMA OCollectTakeInv ==
  ASSUME IInv, OCollectTake
  PROVE  IInv'
<1>1. TypeOK'
  <2>1. opage \in Page /\ opage' = opage
    BY DEF IInv, OwnerLocals, OCollectTake
  <2>2. tfree[opage] \in SUBSET Outside(opage)
    <3>1. \A b \in tfree[opage] : b \in Block /\ PageOf[b] = opage
      BY <2>1 DEF IInv, TypeOK, OnePlace, BlocksOf
    <3>. QED BY <3>1, InTransit
  <2>3. /\ used[opage] = Cardinality(Outside(opage))
        /\ Cardinality(tfree[opage]) \in Nat
        /\ Cardinality(Outside(opage)) \in Nat
        /\ Cardinality(Outside(opage) \ tfree[opage]) \in Nat
        /\ Cardinality(Outside(opage) \ tfree[opage])
             = Cardinality(Outside(opage)) - Cardinality(tfree[opage])
    <3>1. IsFiniteSet(Outside(opage)) /\ used[opage] = Cardinality(Outside(opage))
      BY <2>1, OutsideFinite DEF IInv, UsedCount
    <3>. QED BY <2>2, <3>1, SubsetCardinality
  <2>. QED BY <2>1, <2>3 DEF IInv, OCollectTake, Refill, remoteVars, TypeOK,
       OwnerLocals, OwnerPC
<1>2. OwnerLocals'
  BY DEF IInv, OCollectTake, Refill, remoteVars, TypeOK, OwnerLocals, HoldsDelayed,
       Draining, UseDelayedFree, Freeing, NoDelayedFree, NeverDelayedFree
<1>3. HeadOK'
  BY DEF IInv, OCollectTake, Refill, remoteVars, TypeOK, HeadOK
<1>4. OnePlace'
  BY BlockAssumption, PageOfAssumption DEF IInv, OCollectTake, Refill, remoteVars,
       TypeOK, OnePlace, Places, One, BlocksOf, RemoteLocals
<1>5. UsedCount'
  <2>1. opage \in Page /\ opage' = opage
    BY DEF IInv, OwnerLocals, OCollectTake
  <2>2. tfree[opage] \in SUBSET Outside(opage)
    <3>1. \A b \in tfree[opage] : b \in Block /\ PageOf[b] = opage
      BY <2>1 DEF IInv, TypeOK, OnePlace, BlocksOf
    <3>. QED BY <3>1, InTransit
  <2>3. /\ used[opage] = Cardinality(Outside(opage))
        /\ Cardinality(tfree[opage]) \in Nat
        /\ Cardinality(Outside(opage)) \in Nat
        /\ Cardinality(Outside(opage) \ tfree[opage]) \in Nat
        /\ Cardinality(Outside(opage) \ tfree[opage])
             = Cardinality(Outside(opage)) - Cardinality(tfree[opage])
    <3>1. IsFiniteSet(Outside(opage)) /\ used[opage] = Cardinality(Outside(opage))
      BY <2>1, OutsideFinite DEF IInv, UsedCount
    <3>. QED BY <2>2, <3>1, SubsetCardinality
  <2>4. /\ Outside(opage)' = Outside(opage) \ tfree[opage]
        /\ used'[opage] = used[opage] - Cardinality(tfree[opage])
    BY <2>1 DEF IInv, TypeOK, OCollectTake, Refill, Outside, BlocksOf
  <2>5. \A q \in Page \ {opage} : Outside(q)' = Outside(q) /\ used'[q] = used[q]
    BY <2>1 DEF IInv, TypeOK, OCollectTake, Refill, Outside, BlocksOf
  <2>. QED BY <2>1, <2>3, <2>4, <2>5 DEF IInv, UsedCount
<1>6. DelayExact'
  <2>1. \A p \in Page : Window(p)' = Window(p)
    BY DEF IInv, TypeOK, RemoteLocals, OCollectTake, remoteVars, Window
  <2>2. \A p \in Page : Pending(p)' = Pending(p)
    BY DEF IInv, TypeOK, OwnerLocals, HoldsDelayed, OCollectTake, remoteVars, Pending
  <2>3. \A p \in Page, u \in Remote : u \in Window(p) => (rpc[u] = "xor") = (rpc[u] = "xor")'
    BY DEF IInv, TypeOK, RemoteLocals, OCollectTake, remoteVars, Window
  <2>. QED BY <2>1, <2>2, <2>3 DEF IInv, DelayExact, OCollectTake, remoteVars
<1>7. Stranded'
  BY DEF IInv, OCollectTake, Refill, remoteVars, TypeOK, Stranded, Unwinding,
       UseDelayedFree
<1>8. RemoteLocals' /\ Vacated'
  BY DEF IInv, OCollectTake, remoteVars, RemoteLocals, Vacated
<1>. QED BY <1>1, <1>2, <1>3, <1>4, <1>5, <1>6, <1>7, <1>8 DEF IInv

\* free_delayed_block ends by freeing the block locally.
LEMMA ODelayedFreeInv ==
  ASSUME IInv, ODelayedFree
  PROVE  IInv'
<1>1. TypeOK'
  <2>1. oblk \in Block /\ PageOf[oblk] \in Page
    BY PageOfAssumption DEF IInv, ODelayedFree, OwnerLocals, HoldsDelayed
  <2>2. used' \in [Page -> Nat]
    BY <2>1, InTransit, FreeLocalCount DEF ODelayedFree
  <2>. QED BY <2>1, <2>2 DEF IInv, ODelayedFree, FreeLocal, sharedVars, remoteVars,
       TypeOK, PageState, OwnerPC
<1>2. OwnerLocals'
  <2>1. oblk \in Block /\ opage = PageOf[oblk]
    BY DEF IInv, ODelayedFree, OwnerLocals, HoldsDelayed
  <2>. QED BY <2>1, InTransit, FreeLocalCount, PageOfAssumption DEF IInv, ODelayedFree,
       FreeLocal, sharedVars, remoteVars, TypeOK, OwnerLocals, HoldsDelayed, Draining
<1>3. OnePlace'
  <2>1. oblk \in Block /\ PageOf[oblk] \in Page
    BY PageOfAssumption DEF IInv, ODelayedFree, OwnerLocals, HoldsDelayed
  <2>. QED BY <2>1, BlockAssumption, PageOfAssumption DEF IInv, ODelayedFree,
       FreeLocal, sharedVars, remoteVars, TypeOK, OnePlace, Places, One, BlocksOf
<1>4. UsedCount'
  BY InTransit, FreeLocalCount DEF ODelayedFree, IInv, OwnerLocals, HoldsDelayed
<1>5. DelayExact'
  BY DEF IInv, ODelayedFree, FreeLocal, sharedVars, remoteVars, TypeOK, DelayExact,
       Window, Pending, BlocksOf, RemoteLocals, UseDelayedFree, Freeing, NoDelayedFree,
       NeverDelayedFree
<1>6. Stranded'
  <2>1. oblk \in Block /\ opage = PageOf[oblk] /\ PageOf[oblk] \in Page
    BY PageOfAssumption DEF IInv, ODelayedFree, OwnerLocals, HoldsDelayed
  <2>. QED BY <2>1, InTransit, PageOfAssumption DEF IInv, ODelayedFree, FreeLocal,
       sharedVars, remoteVars, TypeOK, Stranded, Unwinding, UseDelayedFree, Bin
<1>7. Vacated'
  BY DEF IInv, ODelayedFree, FreeLocal, sharedVars, remoteVars, TypeOK, Vacated
<1>8. RemoteLocals' /\ HeadOK'
  BY DEF IInv, ODelayedFree, FreeLocal, sharedVars, remoteVars, RemoteLocals, HeadOK
<1>. QED BY <1>1, <1>2, <1>3, <1>4, <1>5, <1>6, <1>7, <1>8 DEF IInv

\* find_free_page looks at a page of the queue.
LEMMA OFindInv ==
  ASSUME IInv, NEW p \in Page, OFind(p)
  PROVE  IInv'
<1>1. TypeOK'
  BY DEF IInv, OFind, Bin, pageVars, sharedVars, remoteVars, TypeOK, DelayState,
       PageState, RemotePC, OwnerPC, UseDelayedFree, Freeing, NoDelayedFree,
       NeverDelayedFree
<1>2. OwnerLocals'
  BY DEF IInv, OFind, Bin, pageVars, sharedVars, remoteVars, TypeOK, OwnerLocals,
       HoldsDelayed, Draining, UseDelayedFree, Freeing, NoDelayedFree, NeverDelayedFree
<1>3. DelayExact'
  BY DEF IInv, OFind, Bin, pageVars, sharedVars, remoteVars, TypeOK, DelayExact,
       Window, Pending, BlocksOf, RemoteLocals, UseDelayedFree, Freeing, NoDelayedFree,
       NeverDelayedFree
<1>4. Stranded'
  BY DEF IInv, OFind, Bin, pageVars, sharedVars, remoteVars, TypeOK, Stranded,
       Unwinding, UseDelayedFree
<1>5. RemoteLocals' /\ HeadOK' /\ UsedCount' /\ Vacated'
  BY DEF IInv, OFind, pageVars, sharedVars, remoteVars, RemoteLocals, HeadOK,
       UsedCount, Outside, Vacated
<1>6. OnePlace'
  BY DEF IInv, OFind, pageVars, sharedVars, remoteVars, OnePlace, Places, One
<1>. QED BY <1>1, <1>2, <1>3, <1>4, <1>5, <1>6 DEF IInv

\* find_free_page finds an empty queue.
LEMMA OFindNoneInv ==
  ASSUME IInv, OFindNone
  PROVE  IInv'
<1>1. TypeOK'
  BY DEF IInv, OFindNone, Bin, pageVars, sharedVars, remoteVars, TypeOK, DelayState,
       PageState, RemotePC, OwnerPC, UseDelayedFree, Freeing, NoDelayedFree,
       NeverDelayedFree
<1>2. OwnerLocals'
  BY DEF IInv, OFindNone, Bin, pageVars, sharedVars, remoteVars, TypeOK, OwnerLocals,
       HoldsDelayed, Draining, UseDelayedFree, Freeing, NoDelayedFree, NeverDelayedFree
<1>3. DelayExact'
  BY DEF IInv, OFindNone, Bin, pageVars, sharedVars, remoteVars, TypeOK, DelayExact,
       Window, Pending, BlocksOf, RemoteLocals, UseDelayedFree, Freeing, NoDelayedFree,
       NeverDelayedFree
<1>4. Stranded'
  BY DEF IInv, OFindNone, Bin, pageVars, sharedVars, remoteVars, TypeOK, Stranded,
       Unwinding, UseDelayedFree
<1>5. RemoteLocals' /\ HeadOK' /\ UsedCount' /\ Vacated'
  BY DEF IInv, OFindNone, pageVars, sharedVars, remoteVars, RemoteLocals, HeadOK,
       UsedCount, Outside, Vacated
<1>6. OnePlace'
  BY DEF IInv, OFindNone, pageVars, sharedVars, remoteVars, OnePlace, Places, One
<1>. QED BY <1>1, <1>2, <1>3, <1>4, <1>5, <1>6 DEF IInv

\* find_free_page accepts the page or goes on to the walk.
LEMMA OFirstInv ==
  ASSUME IInv, OFirst
  PROVE  IInv'
<1>1. TypeOK'
  BY DEF IInv, OFirst, pageVars, sharedVars, remoteVars, TypeOK, DelayState, PageState,
       RemotePC, OwnerPC, UseDelayedFree, Freeing, NoDelayedFree, NeverDelayedFree
<1>2. OwnerLocals'
  BY DEF IInv, OFirst, pageVars, sharedVars, remoteVars, TypeOK, OwnerLocals,
       HoldsDelayed, Draining, UseDelayedFree, Freeing, NoDelayedFree, NeverDelayedFree
<1>3. DelayExact'
  BY DEF IInv, OFirst, pageVars, sharedVars, remoteVars, TypeOK, DelayExact, Window,
       Pending, BlocksOf, RemoteLocals, UseDelayedFree, Freeing, NoDelayedFree,
       NeverDelayedFree
<1>4. Stranded'
  BY DEF IInv, OFirst, pageVars, sharedVars, remoteVars, TypeOK, Stranded, Unwinding,
       UseDelayedFree
<1>5. RemoteLocals' /\ HeadOK' /\ UsedCount' /\ Vacated'
  BY DEF IInv, OFirst, pageVars, sharedVars, remoteVars, RemoteLocals, HeadOK,
       UsedCount, Outside, Vacated
<1>6. OnePlace'
  BY DEF IInv, OFirst, pageVars, sharedVars, remoteVars, OnePlace, Places, One
<1>. QED BY <1>1, <1>2, <1>3, <1>4, <1>5, <1>6 DEF IInv

\* The walk collects a page.
LEMMA OWalkInv ==
  ASSUME IInv, NEW p \in Page, OWalk(p)
  PROVE  IInv'
<1>1. TypeOK'
  BY DEF IInv, OWalk, Bin, pageVars, sharedVars, remoteVars, TypeOK, DelayState,
       PageState, RemotePC, OwnerPC, UseDelayedFree, Freeing, NoDelayedFree,
       NeverDelayedFree
<1>2. OwnerLocals'
  BY DEF IInv, OWalk, Bin, pageVars, sharedVars, remoteVars, TypeOK, OwnerLocals,
       HoldsDelayed, Draining, UseDelayedFree, Freeing, NoDelayedFree, NeverDelayedFree
<1>3. DelayExact'
  BY DEF IInv, OWalk, Bin, pageVars, sharedVars, remoteVars, TypeOK, DelayExact,
       Window, Pending, BlocksOf, RemoteLocals, UseDelayedFree, Freeing, NoDelayedFree,
       NeverDelayedFree
<1>4. Stranded'
  BY DEF IInv, OWalk, Bin, pageVars, sharedVars, remoteVars, TypeOK, Stranded,
       Unwinding, UseDelayedFree
<1>5. RemoteLocals' /\ HeadOK' /\ UsedCount' /\ Vacated'
  BY DEF IInv, OWalk, pageVars, sharedVars, remoteVars, RemoteLocals, HeadOK,
       UsedCount, Outside, Vacated
<1>6. OnePlace'
  BY DEF IInv, OWalk, pageVars, sharedVars, remoteVars, OnePlace, Places, One
<1>. QED BY <1>1, <1>2, <1>3, <1>4, <1>5, <1>6 DEF IInv

\* The walk accepts a page with a free block.
LEMMA OLookFoundInv ==
  ASSUME IInv, OLookFound
  PROVE  IInv'
<1>1. TypeOK'
  BY DEF IInv, OLookFound, pageVars, sharedVars, remoteVars, TypeOK, DelayState,
       PageState, RemotePC, OwnerPC, UseDelayedFree, Freeing, NoDelayedFree,
       NeverDelayedFree
<1>2. OwnerLocals'
  BY DEF IInv, OLookFound, pageVars, sharedVars, remoteVars, TypeOK, OwnerLocals,
       HoldsDelayed, Draining, UseDelayedFree, Freeing, NoDelayedFree, NeverDelayedFree
<1>3. DelayExact'
  BY DEF IInv, OLookFound, pageVars, sharedVars, remoteVars, TypeOK, DelayExact,
       Window, Pending, BlocksOf, RemoteLocals, UseDelayedFree, Freeing, NoDelayedFree,
       NeverDelayedFree
<1>4. Stranded'
  BY DEF IInv, OLookFound, pageVars, sharedVars, remoteVars, TypeOK, Stranded,
       Unwinding, UseDelayedFree
<1>5. RemoteLocals' /\ HeadOK' /\ UsedCount' /\ Vacated'
  BY DEF IInv, OLookFound, pageVars, sharedVars, remoteVars, RemoteLocals, HeadOK,
       UsedCount, Outside, Vacated
<1>6. OnePlace'
  BY DEF IInv, OLookFound, pageVars, sharedVars, remoteVars, OnePlace, Places, One
<1>. QED BY <1>1, <1>2, <1>3, <1>4, <1>5, <1>6 DEF IInv

\* page_extend_free carves blocks nobody has seen yet.
LEMMA OLookExtendInv ==
  ASSUME IInv, NEW E \in SUBSET Block, OLookExtend(E)
  PROVE  IInv'
<1>1. TypeOK'
  <2>1. opage \in Page
    BY DEF IInv, OwnerLocals, OLookExtend
  <2>. QED BY <2>1 DEF IInv, OLookExtend, sharedVars, remoteVars, TypeOK, OwnerPC
<1>2. OwnerLocals'
  BY DEF IInv, OLookExtend, Extensions, sharedVars, remoteVars, TypeOK, OwnerLocals,
       HoldsDelayed, Draining, UseDelayedFree, Freeing, NoDelayedFree, NeverDelayedFree
<1>3. OnePlace'
  BY DEF IInv, OLookExtend, Extensions, sharedVars, remoteVars, TypeOK, OnePlace,
       Places, One, BlocksOf, RemoteLocals
<1>4. UsedCount'
  <2>1. opage \in Page /\ opage' = opage
    BY DEF IInv, OwnerLocals, OLookExtend
  <2>2. E \subseteq raw[opage] /\ free[opage] = {} /\ state[opage] = "bin"
    BY <2>1 DEF IInv, OwnerLocals, OLookExtend, Extensions
  <2>3. \A p \in Page : Outside(p)' = Outside(p) /\ used'[p] = used[p]
    BY <2>1, <2>2 DEF IInv, TypeOK, OLookExtend, Outside, BlocksOf
  <2>. QED BY <2>3 DEF IInv, UsedCount
<1>5. DelayExact'
  BY DEF IInv, OLookExtend, Extensions, sharedVars, remoteVars, TypeOK, DelayExact,
       Window, Pending, BlocksOf, RemoteLocals, UseDelayedFree, Freeing, NoDelayedFree,
       NeverDelayedFree
<1>6. Stranded'
  <2>1. opage \in Page /\ opage' = opage
    BY DEF IInv, OwnerLocals, OLookExtend
  <2>2. E \subseteq raw[opage] /\ free[opage] = {} /\ state[opage] = "bin"
    BY <2>1 DEF IInv, OwnerLocals, OLookExtend, Extensions
  <2>. QED BY <2>1, <2>2 DEF IInv, OLookExtend, sharedVars, remoteVars, TypeOK,
       Stranded, Unwinding
<1>7. Vacated'
  <2>1. opage \in Page /\ opage' = opage
    BY DEF IInv, OwnerLocals, OLookExtend
  <2>2. E \subseteq raw[opage] /\ free[opage] = {} /\ state[opage] = "bin"
    BY <2>1 DEF IInv, OwnerLocals, OLookExtend, Extensions
  <2>. QED BY <2>1, <2>2 DEF IInv, OLookExtend, sharedVars, remoteVars, TypeOK,
       Vacated, BlocksOf
<1>8. RemoteLocals' /\ HeadOK'
  BY DEF IInv, OLookExtend, sharedVars, remoteVars, RemoteLocals, HeadOK
<1>. QED BY <1>1, <1>2, <1>3, <1>4, <1>5, <1>6, <1>7, <1>8 DEF IInv

\* page_to_full moves a page without free blocks to the full queue.
LEMMA OToFullInv ==
  ASSUME IInv, OToFull
  PROVE  IInv'
<1>1. TypeOK'
  BY DEF IInv, OToFull, sharedVars, remoteVars, TypeOK, DelayState, PageState,
       RemotePC, OwnerPC, UseDelayedFree, Freeing, NoDelayedFree, NeverDelayedFree
<1>2. OwnerLocals'
  BY DEF IInv, OToFull, sharedVars, remoteVars, TypeOK, OwnerLocals, HoldsDelayed,
       Draining, UseDelayedFree, Freeing, NoDelayedFree, NeverDelayedFree
<1>3. DelayExact'
  BY DEF IInv, OToFull, sharedVars, remoteVars, TypeOK, DelayExact, Window, Pending,
       BlocksOf, RemoteLocals, UseDelayedFree, Freeing, NoDelayedFree, NeverDelayedFree
<1>4. Stranded'
  <2>1. opage \in Page /\ opage' = opage
    BY DEF IInv, OwnerLocals, OToFull
  <2>2. free[opage] = {} /\ local_free[opage] = {}
    BY DEF IInv, OwnerLocals, OToFull
  <2>. QED BY <2>1, <2>2 DEF IInv, OToFull, sharedVars, remoteVars, TypeOK, Stranded,
       Unwinding
<1>5. Vacated'
  BY DEF IInv, OToFull, sharedVars, remoteVars, TypeOK, Vacated
<1>6. RemoteLocals' /\ HeadOK' /\ UsedCount'
  BY DEF IInv, OToFull, sharedVars, remoteVars, RemoteLocals, HeadOK, UsedCount, Outside
<1>7. OnePlace'
  BY DEF IInv, OToFull, sharedVars, remoteVars, OnePlace, Places, One
<1>. QED BY <1>1, <1>2, <1>3, <1>4, <1>5, <1>6, <1>7 DEF IInv

\* page_fresh takes a page that nobody holds anything of.
LEMMA OFreshInv ==
  ASSUME IInv, NEW p \in Page, NEW E \in SUBSET Block, OFresh(p, E)
  PROVE  IInv'
<1>1. TypeOK'
  BY DEF IInv, OFresh, Extensions, sharedVars, remoteVars, TypeOK, PageState, OwnerPC
<1>2. OwnerLocals'
  BY DEF IInv, OFresh, Extensions, sharedVars, remoteVars, TypeOK, OwnerLocals,
       HoldsDelayed, Draining, UseDelayedFree, Freeing, NoDelayedFree, NeverDelayedFree
<1>3. OnePlace'
  <2>1. E \subseteq raw[p]
    BY DEF OFresh, Extensions
  <2>. QED BY <2>1, PageOfAssumption DEF IInv, OFresh, sharedVars, remoteVars, TypeOK,
       OnePlace, Places, One, BlocksOf
<1>4. UsedCount'
  <2>1. E \subseteq raw[p]
    BY DEF OFresh, Extensions
  <2>2. \A q \in Page : Outside(q)' = Outside(q) /\ used'[q] = used[q]
    BY <2>1 DEF IInv, TypeOK, OFresh, Outside, BlocksOf
  <2>. QED BY <2>2 DEF IInv, UsedCount
<1>5. DelayExact'
  <2>1. \A q \in Page : Window(q)' = Window(q) /\ Pending(q)' = Pending(q)
    BY DEF OFresh, sharedVars, remoteVars, Window, Pending, BlocksOf
  <2>. QED BY <2>1 DEF IInv, DelayExact, OFresh, sharedVars, remoteVars
<1>6. Stranded'
  BY DEF IInv, OFresh, Extensions, sharedVars, remoteVars, TypeOK, Stranded, Unwinding,
       UseDelayedFree
<1>7. Vacated'
  BY DEF IInv, OFresh, Extensions, sharedVars, remoteVars, TypeOK, Vacated
<1>8. RemoteLocals' /\ HeadOK'
  BY DEF IInv, OFresh, sharedVars, remoteVars, RemoteLocals, HeadOK
<1>. QED BY <1>1, <1>2, <1>3, <1>4, <1>5, <1>6, <1>7, <1>8 DEF IInv

\* No page to be had.
LEMMA ONoPageInv ==
  ASSUME IInv, ONoPage
  PROVE  IInv'
<1>1. TypeOK'
  BY DEF IInv, ONoPage, pageVars, sharedVars, remoteVars, TypeOK, DelayState,
       PageState, RemotePC, OwnerPC, UseDelayedFree, Freeing, NoDelayedFree,
       NeverDelayedFree
<1>2. OwnerLocals'
  BY DEF IInv, ONoPage, pageVars, sharedVars, remoteVars, TypeOK, OwnerLocals,
       HoldsDelayed, Draining, UseDelayedFree, Freeing, NoDelayedFree, NeverDelayedFree
<1>3. DelayExact'
  BY DEF IInv, ONoPage, pageVars, sharedVars, remoteVars, TypeOK, DelayExact, Window,
       Pending, BlocksOf, RemoteLocals, UseDelayedFree, Freeing, NoDelayedFree,
       NeverDelayedFree
<1>4. Stranded'
  BY DEF IInv, ONoPage, pageVars, sharedVars, remoteVars, TypeOK, Stranded, Unwinding,
       UseDelayedFree
<1>5. RemoteLocals' /\ HeadOK' /\ UsedCount' /\ Vacated'
  BY DEF IInv, ONoPage, pageVars, sharedVars, remoteVars, RemoteLocals, HeadOK,
       UsedCount, Outside, Vacated
<1>6. OnePlace'
  BY DEF IInv, ONoPage, pageVars, sharedVars, remoteVars, OnePlace, Places, One
<1>. QED BY <1>1, <1>2, <1>3, <1>4, <1>5, <1>6 DEF IInv

\* page_malloc hands out a block of the page that was found.
LEMMA OAllocInv ==
  ASSUME IInv, NEW b \in Block, OAlloc(b)
  PROVE  IInv'
<1>1. TypeOK'
  BY DEF IInv, OAlloc, sharedVars, remoteVars, TypeOK, DelayState, PageState, RemotePC,
       OwnerPC, UseDelayedFree, Freeing, NoDelayedFree, NeverDelayedFree, OwnerLocals,
       HoldsDelayed
<1>2. OwnerLocals'
  BY DEF IInv, OAlloc, sharedVars, remoteVars, TypeOK, OwnerLocals, HoldsDelayed,
       Draining, UseDelayedFree, Freeing, NoDelayedFree, NeverDelayedFree
<1>3. OnePlace'
  <2>1. opage \in Page /\ PageOf[b] = opage
    BY DEF IInv, OnePlace, OwnerLocals, OAlloc, BlocksOf
  <2>. QED BY <2>1 DEF IInv, OAlloc, sharedVars, remoteVars, TypeOK, OnePlace, Places,
       One, BlocksOf
<1>4. UsedCount'
  <2>0. PICK p \in Page : p = opage
    BY DEF IInv, OwnerLocals, OAlloc
  <2>1. p \in Page /\ b \in free[p] /\ b \in BlocksOf(p)
    BY <2>0 DEF IInv, OnePlace, OAlloc
  <2>2. /\ Outside(p)' = Outside(p) \cup {b}
        /\ b \notin Outside(p)
        /\ \A q \in Page \ {p} : Outside(q)' = Outside(q) /\ used'[q] = used[q]
        /\ used'[p] = used[p] + 1
    <3>1. Places(b) = 1 /\ PageOf[b] = p
      BY <2>1 DEF IInv, OnePlace, BlocksOf
    <3>2. b \notin local_free[p] /\ b \notin raw[p]
      BY <2>1, <3>1 DEF Places, One
    <3>. QED BY <2>0, <2>1, <3>1, <3>2 DEF IInv, TypeOK, OAlloc, Outside, BlocksOf
  <2>. QED BY <2>1, <2>2, OutsideFinite, FS_AddElement DEF IInv, UsedCount
<1>5. DelayExact'
  BY DEF IInv, OAlloc, sharedVars, remoteVars, TypeOK, DelayExact, Window, Pending,
       BlocksOf, RemoteLocals, UseDelayedFree, Freeing, NoDelayedFree, NeverDelayedFree
<1>6. Stranded'
  BY DEF IInv, OAlloc, sharedVars, remoteVars, TypeOK, Stranded, Unwinding,
       UseDelayedFree
<1>7. RemoteLocals' /\ HeadOK' /\ Vacated'
  BY DEF IInv, OAlloc, sharedVars, remoteVars, RemoteLocals, HeadOK, Vacated
<1>. QED BY <1>1, <1>2, <1>3, <1>4, <1>5, <1>6, <1>7 DEF IInv

-----------------------------------------------------------------------------
(* The theorems                                                             *)

\* The heap starts with every page unused and every block beyond capacity.
LEMMA InitInv == Init => IInv
<1>. SUFFICES ASSUME Init PROVE IInv
  OBVIOUS
<1>1. TypeOK
  BY BoundAssumption DEF Init, TypeOK, PageState, DelayState, RemotePC, OwnerPC,
       BlocksOf,
     UseDelayedFree
<1>2. RemoteLocals /\ OwnerLocals /\ HeadOK /\ Stranded /\ Vacated
  BY DEF Init, RemoteLocals, OwnerLocals, HoldsDelayed, Draining, HeadOK, Stranded,
       Vacated
<1>3. OnePlace
  BY BlockAssumption, PageOfAssumption DEF Init, OnePlace, Places, One, BlocksOf
<1>4. UsedCount
  <2>1. \A p \in Page : Outside(p) = {} /\ used[p] = 0
    BY DEF Init, Outside
  <2>2. Cardinality({}) = 0
    BY FS_EmptySet
  <2>. QED BY <2>1, <2>2 DEF UsedCount
<1>5. DelayExact
  BY DEF Init, DelayExact, Window, Pending, UseDelayedFree, Freeing, NoDelayedFree,
     NeverDelayedFree
<1>. QED BY <1>1, <1>2, <1>3, <1>4, <1>5 DEF IInv

\* A step that changes nothing preserves everything.
LEMMA StutterInv == ASSUME IInv, UNCHANGED vars PROVE IInv'
<1>1. TypeOK'
  BY DEF IInv, vars, pageVars, sharedVars, remoteVars, ownerVars, TypeOK
<1>2. RemoteLocals' /\ OwnerLocals' /\ HeadOK' /\ UsedCount'
  BY DEF IInv, vars, pageVars, sharedVars, remoteVars, ownerVars, RemoteLocals,
     OwnerLocals, HoldsDelayed, Draining, HeadOK, UsedCount, Outside
<1>3. OnePlace' /\ DelayExact' /\ Stranded' /\ Vacated'
  BY DEF IInv, vars, pageVars, sharedVars, remoteVars, ownerVars, OnePlace, Places, One,
     DelayExact, Window, Pending, Stranded, Unwinding, Vacated
<1>. QED BY <1>1, <1>2, <1>3 DEF IInv

\* Every step of every thread preserves the inductive invariant.
LEMMA StepInv == IInv /\ [Next]_vars => IInv'
<1>. SUFFICES ASSUME IInv, [Next]_vars PROVE IInv'
  OBVIOUS
<1>1. CASE Client
  BY <1>1, RFreeInv, OFreeInv, OMallocFastInv, OTakeLoadInv DEF Client
<1>2. CASE OwnerStep
  BY <1>2, OPageFreeInv, OCheckGoodInv, OClearInv, OTakeSwapInv, OPopInv, OPopDoneInv,
       OTryYieldInv, OTryGiveUpInv, OTryLoadInv, OTryCasInv, OTryFailInv,
       OReinsertLoadInv, OReinsertPushInv, OReinsertFailInv, OCollectLoadInv,
       OCollectSkipInv, OCollectTakeInv, ODelayedFreeInv, OFindInv, OFindNoneInv,
       OFirstInv, OWalkInv, OLookFoundInv, OLookExtendInv, OToFullInv, OFreshInv,
       ONoPageInv, OAllocInv DEF OwnerStep
<1>3. CASE \E t \in Remote : RemoteStep(t)
  BY <1>3, RLoadInv, RCasFreeingInv, RCasPushInv, RCasFailInv, RDelayedLoadInv,
       RDelayedPushInv, RDelayedFailInv, RXorInv DEF RemoteStep
<1>4. CASE Aborted \/ UNCHANGED vars
  BY <1>4, StutterInv DEF Aborted
<1>. QED BY <1>1, <1>2, <1>3, <1>4 DEF Next

\* The inductive invariant holds in every reachable state.
THEOREM Invariance == Spec => []IInv
<1>. QED BY InitInv, StepInv, PTL DEF Spec

\* Every field, shared word and local keeps its type; in particular `used`
\* never goes below zero, whatever collections and delayed frees race.
THEOREM TypeCorrect == Spec => []TypeOK
<1>1. IInv => TypeOK
  BY DEF IInv
<1>. QED BY <1>1, Invariance, PTL

\* A block is never in two places and never lost: malloc hands out no block
\* that a free in progress still holds.
THEOREM NoBlockLostOrShared == Spec => []OnePlace
<1>1. IInv => OnePlace
  BY DEF IInv
<1>. QED BY <1>1, Invariance, PTL

\* page.used is exact in every interleaving of local, remote and delayed frees.
THEOREM UsedIsExact == Spec => []UsedCount
<1>1. IInv => UsedCount
  BY DEF IInv
<1>. QED BY <1>1, Invariance, PTL

\* The DelayState bits say exactly who is notifying the heap and what is on
\* its way to the owner.
THEOREM DelayStateIsExact == Spec => []DelayExact
<1>1. IInv => DelayExact
  BY DEF IInv
<1>. QED BY <1>1, Invariance, PTL

\* No free block is out of the owner's sight: not on thread_free of a page
\* that nobody will announce, and not on a full page's lists.
THEOREM NoMemoryStranded == Spec => []NothingStranded
<1>1. IInv => NothingStranded
  BY DEF IInv, Stranded, NothingStranded, Unwinding
<1>. QED BY <1>1, Invariance, PTL

\* No thread inside free works on a page that was cleared or handed out again.
THEOREM PagePointersStayValid == Spec => []NoStalePage
<1>1. ASSUME IInv PROVE NoStalePage
  <2>1. ASSUME NEW t \in Remote, rpc[t] # "idle" PROVE state[rpage[t]] \in {"bin", "full"}
    <3>1. CASE rpc[t] = "xor"
      <4>1. rpage[t] \in Page /\ t \in Window(rpage[t])
        BY <1>1, <3>1 DEF IInv, RemoteLocals, Window
      <4>2. PICK b \in Pending(rpage[t]) : TRUE
        BY <1>1, <3>1, <4>1 DEF IInv, DelayExact
      <4>3. /\ b \in Block /\ PageOf[b] = rpage[t]
            /\ b \in dfree \/ b \in pend \/ b = oblk
        BY <4>2 DEF Pending, BlocksOf
      <4>. QED BY <4>3, InTransit, <1>1
    <3>2. CASE rpc[t] # "xor"
      <4>1. rblk[t] \in Block /\ rpage[t] = PageOf[rblk[t]]
        BY <1>1, <2>1, <3>2 DEF IInv, TypeOK, RemotePC, RemoteLocals
      <4>. QED BY <4>1, InTransit, <1>1
    <3>. QED BY <3>1, <3>2
  <2>2. ASSUME NEW b \in dfree \cup pend PROVE state[PageOf[b]] \in {"bin", "full"}
    <3>1. b \in Block
      BY <1>1 DEF IInv, TypeOK
    <3>. QED BY <1>1, <2>2, <3>1, InTransit
  <2>. QED BY <2>1, <2>2 DEF NoStalePage
<1>. QED BY <1>1, Invariance, PTL

\* The loop of check_is_good never has to wait, and disable() drops no block.
THEOREM ClearingIsQuiet == Spec => []ClearIsQuiet
<1>1. IInv => ClearIsQuiet
  BY QuietLemma
<1>. QED BY <1>1, Invariance, PTL

\* What page_extend_free carves from a page that is not yet full is not empty.
LEMMA ExtensionNonempty ==
  ASSUME NEW S \in SUBSET Block, S # {}, NEW E \in Extensions(S)
  PROVE  E # {}
<1>1. IsFiniteSet(S)
  BY BlockAssumption, FS_Subset
<1>2. Cardinality(S) \in Nat \ {0}
  BY <1>1, FS_EmptySet, FS_CardinalityType
<1>3. Cardinality(E) # 0
  BY <1>2, BoundAssumption DEF Extensions
<1>. QED BY <1>3, FS_EmptySet

\* The page find_page returns has a free block, so malloc_generic's
\* page_malloc never falls back into malloc_generic.
THEOREM FoundPageIsUsable == Spec => []FoundPageHasBlock
<1>1. Init => FoundPageHasBlock
  BY DEF Init, FoundPageHasBlock
<1>2. ASSUME IInv, FoundPageHasBlock, [Next]_vars PROVE FoundPageHasBlock'
  <2>1. CASE Client
    BY <1>2, <2>1 DEF Client, FoundPageHasBlock, RFree, OFree, FreeLocal, OMallocFast,
       OTakeLoad, ownerVars, pageVars
  <2>2. CASE \E t \in Remote : RemoteStep(t)
    BY <1>2, <2>2 DEF RemoteStep, FoundPageHasBlock, RLoad, RCasFreeing, RCasPush,
         RCasFail,
       RDelayedLoad, RDelayedPush, RDelayedFail, RXor, ownerVars, pageVars
  <2>3. ASSUME NEW E \in SUBSET Block, OLookExtend(E) PROVE FoundPageHasBlock'
    <3>1. opage \in Page /\ raw[opage] \in SUBSET Block
      BY <1>2, <2>3 DEF IInv, TypeOK, OwnerLocals, OLookExtend
    <3>2. E # {}
      BY <2>3, <3>1, ExtensionNonempty DEF OLookExtend
    <3>. QED BY <1>2, <2>3, <3>1, <3>2 DEF IInv, TypeOK, OLookExtend, FoundPageHasBlock
  <2>4. ASSUME NEW p \in Page, NEW E \in SUBSET Block, OFresh(p, E) PROVE FoundPageHasBlock'
    <3>1. raw[p] \in SUBSET Block /\ raw[p] # {}
      BY <1>2, <2>4, HasBlocksAssumption DEF IInv, TypeOK, Vacated, BlocksOf, OFresh
    <3>2. E # {}
      BY <2>4, <3>1, ExtensionNonempty DEF OFresh
    <3>. QED BY <1>2, <2>4, <3>2 DEF IInv, TypeOK, OFresh, FoundPageHasBlock
  <2>5. CASE OwnerStep
    <3>1. CASE OPageFree \/ OCheckGood \/ OClear
      BY <1>2, <3>1 DEF IInv, OwnerLocals, FoundPageHasBlock, OPageFree, OCheckGood,
           OClear
    <3>2. CASE OCollectLoad \/ OCollectSkip \/ OCollectTake \/ ODelayedFree
      BY <1>2, <3>2 DEF IInv, OwnerLocals, FoundPageHasBlock, OCollectLoad,
           OCollectSkip,
         OCollectTake, ODelayedFree, FreeLocal
    <3>3. CASE OFirst \/ OLookFound
      BY <3>3 DEF FoundPageHasBlock, OFirst, OLookFound, pageVars
    <3>. QED BY <2>3, <2>4, <2>5, <3>1, <3>2, <3>3 DEF OwnerStep, FoundPageHasBlock,
         OTakeSwap, OPop, OPopDone, OTryYield, OTryGiveUp, OTryLoad, OTryCas, OTryFail,
         OReinsertLoad, OReinsertPush, OReinsertFail, OFind, OFindNone, OWalk, OToFull,
         ONoPage, OAlloc
  <2>6. CASE Aborted \/ UNCHANGED vars
    BY <1>2, <2>6 DEF Aborted, vars, pageVars, ownerVars, FoundPageHasBlock
  <2>. QED BY <1>2, <2>1, <2>2, <2>5, <2>6 DEF Next
<1>. QED BY <1>1, <1>2, Invariance, PTL DEF Spec

\* Nothing moves in or out of Returning as long as its lists stay put.
LEMMA ReturningFrame ==
  ASSUME UNCHANGED <<tfree, dfree, pend, oblk, rblk>>
  PROVE  Returning' = Returning
  BY DEF Returning

\* Every step of the protocol is a step of the abstract allocator.
LEMMA StepRefines == IInv /\ [Next]_vars => [Abstract!ANext]_(Abstract!avars)
<1>. SUFFICES ASSUME IInv, [Next]_vars
             PROVE  Abstract!ANext \/ (user' = user /\ Returning' = Returning)
  BY DEF Abstract!avars
<1>1. ASSUME NEW t \in Remote, NEW b \in Block, RFree(t, b) PROVE Abstract!FreeElsewhere(b)
  <2>1. Returning' = Returning \cup {b}
    BY <1>1, BlockAssumption DEF IInv, TypeOK, RemoteLocals, RFree, sharedVars,
         ownerVars,
       Returning
  <2>. QED BY <1>1, <2>1 DEF RFree, Abstract!FreeElsewhere
<1>2. ASSUME NEW b \in Block, OFree(b) PROVE Abstract!FreeHere(b)
  BY <1>2, ReturningFrame DEF OFree, Abstract!FreeHere, sharedVars, remoteVars
<1>3. ASSUME NEW b \in Block, NEW p \in Page, p = PageOf[b], b \in free[p], user' = user \cup {b},
             UNCHANGED <<tfree, dfree, pend, oblk, rblk>>
      PROVE  Abstract!Malloc(b)
  <2>1. Places(b) = 1
    BY DEF IInv, OnePlace
  <2>2. b \notin user /\ b \notin Returning
    BY <1>3, <2>1 DEF Places, One, Returning
  <2>. QED BY <1>3, <2>2, ReturningFrame DEF Abstract!Malloc
<1>4. ASSUME NEW p \in Page, NEW b \in Block, OMallocFast(p, b) PROVE Abstract!Malloc(b)
  <2>1. p = PageOf[b]
    BY <1>4 DEF IInv, OnePlace, BlocksOf, OMallocFast
  <2>. QED BY <1>3, <1>4, <2>1 DEF OMallocFast, sharedVars, remoteVars, ownerVars
<1>5. ASSUME NEW b \in Block, OAlloc(b) PROVE Abstract!Malloc(b)
  <2>1. opage \in Page /\ opage = PageOf[b]
    BY <1>5 DEF IInv, OwnerLocals, OnePlace, BlocksOf, OAlloc
  <2>. QED BY <1>3, <1>5, <2>1 DEF OAlloc, sharedVars, remoteVars
<1>6. ASSUME OCollectTake PROVE \E S \in SUBSET Returning : Abstract!Deliver(S)
  <2>1. opage \in Page
    BY <1>6 DEF IInv, OwnerLocals, OCollectTake
  <2>2. tfree[opage] \in SUBSET Returning
    BY <2>1 DEF IInv, TypeOK, OnePlace, BlocksOf, Returning
  <2>3. Returning' = Returning \ tfree[opage]
    <3>1. ASSUME NEW b \in tfree[opage]
          PROVE  /\ b \notin dfree /\ b \notin pend /\ b # oblk
                 /\ ~ \E t \in Remote : rblk[t] = b
      <4>1. b \in Block /\ PageOf[b] = opage /\ Places(b) = 1
        BY <2>1 DEF IInv, TypeOK, OnePlace, BlocksOf
      <4>. QED BY <4>1 DEF Places, One
    <3>. QED BY <1>6, <2>1, <3>1, PageOfAssumption DEF IInv, TypeOK, OnePlace,
         BlocksOf, OCollectTake,
         remoteVars, Returning
  <2>4. Abstract!Deliver(tfree[opage])
    BY <1>6, <2>3 DEF OCollectTake, Abstract!Deliver
  <2>. QED BY <2>2, <2>4
<1>7. ASSUME ODelayedFree PROVE \E S \in SUBSET Returning : Abstract!Deliver(S)
  <2>1. oblk \in Block /\ {oblk} \in SUBSET Returning
    BY <1>7 DEF IInv, OwnerLocals, HoldsDelayed, ODelayedFree, Returning
  <2>2. Returning' = Returning \ {oblk}
    <3>1. Places(oblk) = 1
      BY <2>1 DEF IInv, OnePlace
    <3>2. oblk \notin tfree[PageOf[oblk]] /\ oblk \notin dfree /\ oblk \notin pend
          /\ ~ \E t \in Remote : rblk[t] = oblk
      BY <3>1 DEF Places, One
    <3>. QED BY <1>7, <2>1, <3>2, BlockAssumption DEF ODelayedFree, sharedVars,
         remoteVars, Returning
  <2>3. Abstract!Deliver({oblk})
    BY <1>7, <2>2 DEF ODelayedFree, Abstract!Deliver
  <2>. QED BY <2>1, <2>3
<1>8. ASSUME NEW t \in Remote, RCasPush(t) \/ RDelayedPush(t)
      PROVE  user' = user /\ Returning' = Returning
  <2>1. rblk[t] \in Block /\ rpage[t] = PageOf[rblk[t]] /\ rpage[t] \in Page
    BY <1>8, PageOfAssumption DEF IInv, RemoteLocals, RCasPush, RDelayedPush
  <2>2. ASSUME NEW u \in Remote, u # t PROVE rblk'[u] = rblk[u] /\ rblk[u] # rblk[t]
    BY <1>8, <2>1, <2>2, BlockAssumption DEF IInv, TypeOK, OnePlace, RCasPush,
         RDelayedPush
  <2>3. CASE RCasPush(t)
    BY <2>1, <2>2, <2>3, BlockAssumption, PageOfAssumption DEF IInv, TypeOK, RCasPush,
         ownerVars, Returning
  <2>4. CASE RDelayedPush(t)
    BY <2>1, <2>2, <2>4, BlockAssumption DEF IInv, TypeOK, RDelayedPush, ownerVars,
         Returning
  <2>. QED BY <1>8, <2>3, <2>4
<1>9. ASSUME OTakeSwap PROVE user' = user /\ Returning' = Returning
  BY <1>9 DEF IInv, OwnerLocals, HoldsDelayed, Draining, OTakeSwap, remoteVars,
       Returning
<1>10. ASSUME NEW b \in Block, OPop(b) PROVE user' = user /\ Returning' = Returning
  BY <1>10, BlockAssumption DEF IInv, OwnerLocals, HoldsDelayed, OPop, sharedVars,
       remoteVars, Returning
<1>11. ASSUME OReinsertPush PROVE user' = user /\ Returning' = Returning
  BY <1>11, BlockAssumption DEF OReinsertPush, remoteVars, Returning
<1>12. ASSUME OClear PROVE user' = user /\ Returning' = Returning
  <2>1. opage \in Page /\ tfree[opage] = {}
    BY <1>12, QuietLemma DEF IInv, OwnerLocals, OClear, ClearIsQuiet
  <2>2. tfree' = tfree
    BY <1>12, <2>1 DEF IInv, TypeOK, OClear
  <2>. QED BY <1>12, <2>2, ReturningFrame DEF OClear, remoteVars
<1>13. CASE \E t \in Remote : RemoteStep(t)
  BY <1>8, <1>13, ReturningFrame DEF RemoteStep, RLoad, RCasFreeing, RCasFail,
       RDelayedLoad,
     RDelayedFail, RXor, sharedVars, remoteVars, ownerVars
<1>14. CASE OwnerStep
  <2>1. CASE OPageFree \/ OCheckGood \/ OPopDone \/ OTryYield \/ OTryGiveUp \/ OTryLoad
             \/ OTryCas \/ OTryFail \/ OReinsertLoad \/ OReinsertFail
    BY <2>1, ReturningFrame DEF OPageFree, OCheckGood, OPopDone, OTryYield, OTryGiveUp,
       OTryLoad, OTryCas, OTryFail, OReinsertLoad, OReinsertFail, sharedVars, remoteVars
  <2>2. CASE OCollectLoad \/ OCollectSkip \/ OFindNone \/ OFirst \/ OLookFound \/ OToFull
             \/ ONoPage \/ (\E p \in Page : OFind(p)) \/ (\E p \in Page : OWalk(p))
             \/ (\E E \in SUBSET Block : OLookExtend(E))
             \/ (\E p \in Page, E \in SUBSET Block : OFresh(p, E))
    BY <2>2, ReturningFrame DEF OCollectLoad, OCollectSkip, OFindNone, OFirst,
         OLookFound,
       OToFull, ONoPage, OFind, OWalk, OLookExtend, OFresh, sharedVars, remoteVars
  <2>3. CASE OCollectTake \/ ODelayedFree \/ \E b \in Block : OAlloc(b)
    BY <2>3, <1>5, <1>6, <1>7 DEF Abstract!ANext
  <2>. QED BY <1>9, <1>10, <1>11, <1>12, <1>14, <2>1, <2>2, <2>3 DEF OwnerStep
<1>15. CASE Client
  <2>1. CASE OTakeLoad
    BY <2>1, ReturningFrame DEF OTakeLoad, sharedVars, remoteVars
  <2>. QED BY <1>1, <1>2, <1>4, <1>15, <2>1 DEF Client, Abstract!ANext
<1>16. CASE Aborted \/ UNCHANGED vars
  BY <1>16, ReturningFrame DEF Aborted, vars, sharedVars, remoteVars, ownerVars
<1>. QED BY <1>13, <1>14, <1>15, <1>16 DEF Next

\* The protocol implements the abstract allocator, for any number of threads,
\* pages and blocks.
THEOREM KeepsPromise == Spec => Promise
<1>1. Init => Abstract!AInit
  BY BlockAssumption, PageOfAssumption DEF Init, Abstract!AInit, Returning
<1>2. Spec => Init /\ [][Next]_vars
  BY DEF Spec
<1>. QED BY <1>1, <1>2, StepRefines, Invariance, PTL DEF Promise, Abstract!ASpec

-----------------------------------------------------------------------------
(* The code keeps to the protocol of Mim                                    *)

\* the parts of Tokens, by name
InUse    == {p \in Page : state[p] # "unused"}
Nums     == [p \in InUse |-> Cardinality(BlocksOf(p) \ raw[p])]
Blocks   == UNION {BlocksOf(p) \ raw[p] : p \in InUse}
Delays   == [p \in InUse |-> delay[p]]
Actors   == {p \in Page : Window(p) # {}}
Checked  == {p \in Page : state[p] = "unused" \/ (opc = "clear" /\ opage = p)}

\* a state of Mim from its parts
Rec(pg, en, ac, nu, bl, de, at, ch) ==
  [pages |-> pg, enabled |-> en, access |-> ac, num |-> nu, block |-> bl,
   delay |-> de, actor |-> at, checked |-> ch]

\* Tokens is made of those parts.
LEMMA TokensAre == Tokens = Rec(InUse, InUse, InUse, Nums, Blocks, Delays, Actors, Checked)
  BY DEF Tokens, Rec, InUse, Nums, Blocks, Delays, Actors, Checked

\* Mim counts the way this module does.
LEMMA SameCount == \A S : Mim!Cardinality(S) = Cardinality(S)
  BY DEF Mim!Cardinality, Cardinality, Mim!IsFiniteSet, IsFiniteSet

\* The parts of a state of Mim.
LEMMA RecParts ==
  ASSUME NEW pg, NEW en, NEW ac, NEW nu, NEW bl, NEW de, NEW at, NEW ch
  PROVE  \A m : m = Rec(pg, en, ac, nu, bl, de, at, ch) =>
    /\ m.pages = pg /\ m.enabled = en /\ m.access = ac /\ m.num = nu
    /\ m.block = bl /\ m.delay = de /\ m.actor = at /\ m.checked = ch
  BY DEF Rec

\* What each transition of Mim does to the parts of a state.
LEMMA SetUseIs ==
  ASSUME NEW pg, NEW en, NEW ac, NEW nu, NEW bl, NEW de, NEW at, NEW ch, NEW p
  PROVE  Mim!set_use_delayed_free(Rec(pg, en, ac, nu, bl, de, at, ch), p)
           = Rec(pg, en, ac, nu, bl, Mim!Over(de, p, 0), at, ch)
<1>1. PICK m : m = Rec(pg, en, ac, nu, bl, de, at, ch)
  OBVIOUS
<1>2. m.delay = de
  BY <1>1, RecParts
<1>3. PICK x : x = Mim!Over(de, p, 0)
  OBVIOUS
<1>4. PICK m1 : m1 = [m EXCEPT !.delay = x]
  OBVIOUS
<1>5. m1 = Rec(pg, en, ac, nu, bl, x, at, ch)
  BY <1>1, <1>4 DEF Rec
<1>6. Mim!set_use_delayed_free(m, p) = m1
  BY <1>2, <1>3, <1>4 DEF Mim!set_use_delayed_free
<1>. QED BY <1>1, <1>3, <1>5, <1>6

LEMMA EnterIs ==
  ASSUME NEW pg, NEW en, NEW ac, NEW nu, NEW bl, NEW de, NEW at, NEW ch, NEW p
  PROVE  Mim!delay_enter_freeing(Rec(pg, en, ac, nu, bl, de, at, ch), p)
           = Rec(pg, en, ac, nu, bl, Mim!Over(de, p, 1), at \cup {p}, ch)
<1>1. PICK m : m = Rec(pg, en, ac, nu, bl, de, at, ch)
  OBVIOUS
<1>2. m.delay = de /\ m.actor = at
  BY <1>1, RecParts
<1>3. PICK x, y : x = Mim!Over(de, p, 1) /\ y = at \cup {p}
  OBVIOUS
<1>4. PICK m1 : m1 = [m EXCEPT !.delay = x]
  OBVIOUS
<1>5. m1 = Rec(pg, en, ac, nu, bl, x, at, ch)
  BY <1>1, <1>4 DEF Rec
<1>6. PICK m2 : m2 = [m1 EXCEPT !.actor = y]
  OBVIOUS
<1>7. m2 = Rec(pg, en, ac, nu, bl, x, y, ch)
  BY <1>5, <1>6 DEF Rec
<1>8. Mim!delay_enter_freeing(m, p) = m2
  BY <1>2, <1>3, <1>4, <1>6 DEF Mim!delay_enter_freeing
<1>. QED BY <1>1, <1>3, <1>7, <1>8

LEMMA LeaveIs ==
  ASSUME NEW pg, NEW en, NEW ac, NEW nu, NEW bl, NEW de, NEW at, NEW ch, NEW p
  PROVE  Mim!delay_leave_freeing(Rec(pg, en, ac, nu, bl, de, at, ch), p)
           = Rec(pg, en, ac, nu, bl, Mim!Over(de, p, 2), at \ {p}, ch)
<1>1. PICK m : m = Rec(pg, en, ac, nu, bl, de, at, ch)
  OBVIOUS
<1>2. m.delay = de /\ m.actor = at
  BY <1>1, RecParts
<1>3. PICK x, y : x = Mim!Over(de, p, 2) /\ y = at \ {p}
  OBVIOUS
<1>4. PICK m1 : m1 = [m EXCEPT !.delay = x]
  OBVIOUS
<1>5. m1 = Rec(pg, en, ac, nu, bl, x, at, ch)
  BY <1>1, <1>4 DEF Rec
<1>6. PICK m2 : m2 = [m1 EXCEPT !.actor = y]
  OBVIOUS
<1>7. m2 = Rec(pg, en, ac, nu, bl, x, y, ch)
  BY <1>5, <1>6 DEF Rec
<1>8. Mim!delay_leave_freeing(m, p) = m2
  BY <1>2, <1>3, <1>4, <1>6 DEF Mim!delay_leave_freeing
<1>. QED BY <1>1, <1>3, <1>7, <1>8

LEMMA CreateIs ==
  ASSUME NEW pg, NEW en, NEW ac, NEW nu, NEW bl, NEW de, NEW at, NEW ch, NEW p
  PROVE  Mim!create_page_mk_tokens(Rec(pg, en, ac, nu, bl, de, at, ch), p)
           = Rec(pg \cup {p}, en, ac, Mim!Over(nu, p, 0), bl, Mim!Over(de, p, 0), at, ch)
<1>1. PICK m : m = Rec(pg, en, ac, nu, bl, de, at, ch)
  OBVIOUS
<1>2. m.pages = pg /\ m.num = nu /\ m.delay = de
  BY <1>1, RecParts
<1>3. PICK x, y, z : x = pg \cup {p} /\ y = Mim!Over(nu, p, 0) /\ z = Mim!Over(de, p, 0)
  OBVIOUS
<1>4. PICK m1 : m1 = [m EXCEPT !.pages = x]
  OBVIOUS
<1>5. m1 = Rec(x, en, ac, nu, bl, de, at, ch)
  BY <1>1, <1>4 DEF Rec
<1>6. PICK m2 : m2 = [m1 EXCEPT !.num = y]
  OBVIOUS
<1>7. m2 = Rec(x, en, ac, y, bl, de, at, ch)
  BY <1>5, <1>6 DEF Rec
<1>8. PICK m3 : m3 = [m2 EXCEPT !.delay = z]
  OBVIOUS
<1>9. m3 = Rec(x, en, ac, y, bl, z, at, ch)
  BY <1>7, <1>8 DEF Rec
<1>10. Mim!create_page_mk_tokens(m, p) = m3
  BY <1>2, <1>3, <1>4, <1>6, <1>8 DEF Mim!create_page_mk_tokens
<1>. QED BY <1>1, <1>3, <1>9, <1>10

LEMMA EnableIs ==
  ASSUME NEW pg, NEW en, NEW ac, NEW nu, NEW bl, NEW de, NEW at, NEW ch, NEW p
  PROVE  Mim!page_enable(Rec(pg, en, ac, nu, bl, de, at, ch), p)
           = Rec(pg, en \cup {p}, ac \cup {p}, nu, bl, de, at, ch)
<1>1. PICK m : m = Rec(pg, en, ac, nu, bl, de, at, ch)
  OBVIOUS
<1>2. m.enabled = en /\ m.access = ac
  BY <1>1, RecParts
<1>3. PICK x, y : x = en \cup {p} /\ y = ac \cup {p}
  OBVIOUS
<1>4. PICK m1 : m1 = [m EXCEPT !.enabled = x]
  OBVIOUS
<1>5. m1 = Rec(pg, x, ac, nu, bl, de, at, ch)
  BY <1>1, <1>4 DEF Rec
<1>6. PICK m2 : m2 = [m1 EXCEPT !.access = y]
  OBVIOUS
<1>7. m2 = Rec(pg, x, y, nu, bl, de, at, ch)
  BY <1>5, <1>6 DEF Rec
<1>8. Mim!page_enable(m, p) = m2
  BY <1>2, <1>3, <1>4, <1>6 DEF Mim!page_enable
<1>. QED BY <1>1, <1>3, <1>7, <1>8

LEMMA MakeBlocksIs ==
  ASSUME NEW pg, NEW en, NEW ac, NEW nu, NEW bl, NEW de, NEW at, NEW ch, NEW p, NEW S,
         NEW c \in Nat, c = nu[p] + Cardinality(S), nu[p] \in Nat, Cardinality(S) \in Nat,
         NEW nu2, nu2 = Mim!Over(nu, p, c)
  PROVE  Mim!page_mk_block_tokens(Rec(pg, en, ac, nu, bl, de, at, ch), p, S)
           = Rec(pg, en, ac, nu2, bl \cup S, de, at, ch \ {p})
<1>1. PICK m : m = Rec(pg, en, ac, nu, bl, de, at, ch)
  OBVIOUS
<1>2. m.block = bl /\ m.num = nu /\ m.checked = ch
  BY <1>1, RecParts
<1>3. PICK x, y, z : x = bl \cup S /\ y = nu2 /\ z = ch \ {p}
  OBVIOUS
<1>4. PICK m1 : m1 = [m EXCEPT !.block = x]
  OBVIOUS
<1>5. m1 = Rec(pg, en, ac, nu, x, de, at, ch)
  BY <1>1, <1>4 DEF Rec
<1>6. PICK m2 : m2 = [m1 EXCEPT !.num = y]
  OBVIOUS
<1>7. m2 = Rec(pg, en, ac, y, x, de, at, ch)
  BY <1>5, <1>6 DEF Rec
<1>8. PICK m3 : m3 = [m2 EXCEPT !.checked = z]
  OBVIOUS
<1>9. m3 = Rec(pg, en, ac, y, x, de, at, z)
  BY <1>7, <1>8 DEF Rec
<1>10. Mim!page_mk_block_tokens(m, p, S)
         = [m EXCEPT !.block = x, !.num = y, !.checked = z]
  <2>1. m.block \cup S = x /\ m.checked \ {p} = z
    BY <1>2, <1>3
  <2>2. Mim!Over(m.num, p, m.num[p] + Cardinality(S)) = y
    BY <1>2, <1>3
  <2>3. Mim!page_mk_block_tokens(m, p, S)
          = [m EXCEPT !.block = m.block \cup S,
                      !.num = Mim!Over(m.num, p, m.num[p] + Cardinality(S)),
                      !.checked = m.checked \ {p}]
    BY SameCount DEF Mim!page_mk_block_tokens
  <2>. QED BY <2>1, <2>2, <2>3
<1>11. [m EXCEPT !.block = x, !.num = y, !.checked = z] = m3
  BY <1>4, <1>6, <1>8
<1>. QED BY <1>1, <1>3, <1>9, <1>10, <1>11

LEMMA DestroyBlocksIs ==
  ASSUME NEW pg, NEW en, NEW ac, NEW nu, NEW bl, NEW de, NEW at, NEW ch, NEW p, NEW S
  PROVE  Mim!page_destroy_block_tokens(Rec(pg, en, ac, nu, bl, de, at, ch), p, S)
           = Rec(pg, en, ac, Mim!Over(nu, p, 0), bl \ S, de, at, ch)
<1>1. PICK m : m = Rec(pg, en, ac, nu, bl, de, at, ch)
  OBVIOUS
<1>2. m.block = bl /\ m.num = nu
  BY <1>1, RecParts
<1>3. PICK x, y : x = bl \ S /\ y = Mim!Over(nu, p, 0)
  OBVIOUS
<1>4. PICK m1 : m1 = [m EXCEPT !.block = x]
  OBVIOUS
<1>5. m1 = Rec(pg, en, ac, nu, x, de, at, ch)
  BY <1>1, <1>4 DEF Rec
<1>6. PICK m2 : m2 = [m1 EXCEPT !.num = y]
  OBVIOUS
<1>7. m2 = Rec(pg, en, ac, y, x, de, at, ch)
  BY <1>5, <1>6 DEF Rec
<1>8. Mim!page_destroy_block_tokens(m, p, S) = m2
  BY <1>2, <1>3, <1>4, <1>6 DEF Mim!page_destroy_block_tokens
<1>. QED BY <1>1, <1>3, <1>7, <1>8

LEMMA CheckIs ==
  ASSUME NEW pg, NEW en, NEW ac, NEW nu, NEW bl, NEW de, NEW at, NEW ch, NEW p
  PROVE  Mim!page_check_delay_state(Rec(pg, en, ac, nu, bl, de, at, ch), p)
           = Rec(pg, en, ac, nu, bl, de, at, ch \cup {p})
<1>1. PICK m : m = Rec(pg, en, ac, nu, bl, de, at, ch)
  OBVIOUS
<1>2. m.checked = ch
  BY <1>1, RecParts
<1>3. PICK x : x = ch \cup {p}
  OBVIOUS
<1>4. PICK m1 : m1 = [m EXCEPT !.checked = x]
  OBVIOUS
<1>5. m1 = Rec(pg, en, ac, nu, bl, de, at, x)
  BY <1>1, <1>4 DEF Rec
<1>6. Mim!page_check_delay_state(m, p) = m1
  BY <1>2, <1>3, <1>4 DEF Mim!page_check_delay_state
<1>. QED BY <1>1, <1>3, <1>5, <1>6

LEMMA DisableIs ==
  ASSUME NEW pg, NEW en, NEW ac, NEW nu, NEW bl, NEW de, NEW at, NEW ch, NEW p
  PROVE  Mim!page_disable(Rec(pg, en, ac, nu, bl, de, at, ch), p)
           = Rec(pg, en \ {p}, ac \ {p}, nu, bl, de, at, ch)
<1>1. PICK m : m = Rec(pg, en, ac, nu, bl, de, at, ch)
  OBVIOUS
<1>2. m.enabled = en /\ m.access = ac
  BY <1>1, RecParts
<1>3. PICK x, y : x = en \ {p} /\ y = ac \ {p}
  OBVIOUS
<1>4. PICK m1 : m1 = [m EXCEPT !.enabled = x]
  OBVIOUS
<1>5. m1 = Rec(pg, x, ac, nu, bl, de, at, ch)
  BY <1>1, <1>4 DEF Rec
<1>6. PICK m2 : m2 = [m1 EXCEPT !.access = y]
  OBVIOUS
<1>7. m2 = Rec(pg, x, y, nu, bl, de, at, ch)
  BY <1>5, <1>6 DEF Rec
<1>8. Mim!page_disable(m, p) = m2
  BY <1>2, <1>3, <1>4, <1>6 DEF Mim!page_disable
<1>. QED BY <1>1, <1>3, <1>7, <1>8

LEMMA DestroyIs ==
  ASSUME NEW pg, NEW en, NEW ac, NEW nu, NEW bl, NEW de, NEW at, NEW ch, NEW p
  PROVE  Mim!page_destroy_tokens(Rec(pg, en, ac, nu, bl, de, at, ch), p)
           = Rec(pg \ {p}, en, ac, Mim!Without(nu, p), bl, Mim!Without(de, p), at, ch)
<1>1. PICK m : m = Rec(pg, en, ac, nu, bl, de, at, ch)
  OBVIOUS
<1>2. m.pages = pg /\ m.num = nu /\ m.delay = de
  BY <1>1, RecParts
<1>3. PICK x, y, z : x = pg \ {p} /\ y = Mim!Without(nu, p) /\ z = Mim!Without(de, p)
  OBVIOUS
<1>4. PICK m1 : m1 = [m EXCEPT !.pages = x]
  OBVIOUS
<1>5. m1 = Rec(x, en, ac, nu, bl, de, at, ch)
  BY <1>1, <1>4 DEF Rec
<1>6. PICK m2 : m2 = [m1 EXCEPT !.num = y]
  OBVIOUS
<1>7. m2 = Rec(x, en, ac, y, bl, de, at, ch)
  BY <1>5, <1>6 DEF Rec
<1>8. PICK m3 : m3 = [m2 EXCEPT !.delay = z]
  OBVIOUS
<1>9. m3 = Rec(x, en, ac, y, bl, z, at, ch)
  BY <1>7, <1>8 DEF Rec
<1>10. Mim!page_destroy_tokens(m, p) = m3
  BY <1>2, <1>3, <1>4, <1>6, <1>8 DEF Mim!page_destroy_tokens
<1>. QED BY <1>1, <1>3, <1>9, <1>10

\* A page out of use has a quiet word.
LEMMA QuietPage ==
  ASSUME IInv, NEW p \in Page, state[p] \in {"unused", "popped"}
  PROVE  delay[p] = UseDelayedFree /\ Window(p) = {}
<1>1. ASSUME NEW b \in Pending(p) PROVE FALSE
  <2>1. b \in Block /\ PageOf[b] = p /\ (b \in dfree \/ b \in pend \/ b = oblk)
    BY DEF Pending, BlocksOf
  <2>. QED BY <2>1, InTransit
<1>2. ASSUME NEW t \in Window(p) PROVE FALSE
  <2>1. rpc[t] # "xor"
    BY <1>1 DEF IInv, DelayExact
  <2>2. rblk[t] \in Block /\ PageOf[rblk[t]] = p
    BY <2>1 DEF IInv, RemoteLocals, Window
  <2>. QED BY <2>2, InTransit DEF Window
<1>. QED BY <1>1, <1>2 DEF IInv, TypeOK, DelayState, DelayExact, UseDelayedFree,
     Freeing, NoDelayedFree, NeverDelayedFree

\* A thread with a delay_actor, or with a block, works on a page in use.
LEMMA GuardsHold == IInv => Mim!MimGuards(Tokens)
<1>. SUFFICES ASSUME IInv PROVE Mim!MimGuards(Tokens)
  OBVIOUS
<1>1. Tokens.actor = Actors /\ Tokens.block = Blocks /\ Tokens.access = InUse
  BY TokensAre, RecParts
<1>2. Actors \subseteq InUse
  BY QuietPage DEF Actors, InUse
<1>3. ASSUME NEW b \in Blocks PROVE PageOf[b] \in InUse
  BY DEF Blocks, BlocksOf
<1>. QED BY <1>1, <1>2, <1>3 DEF Mim!MimGuards
\* So are the tokens of the next state.
LEMMA TokensWillBe ==
  Tokens' = Rec(InUse', InUse', InUse', Nums', Blocks', Delays', Actors', Checked')
  BY DEF Tokens, Rec, InUse, Nums, Blocks, Delays, Actors, Checked

\* the blocks the owner has in its hands
Held == [p \in Page |-> free[p] \cup local_free[p]]

\* One transition of Mim is a step of Mim.
LEMMA Transitions ==
  ASSUME NEW m, NEW n, NEW held, NEW p \in Page, NEW new,
         \/ Mim!CanSetUseDelayedFree(m, p) /\ n = Mim!set_use_delayed_free(m, p)
         \/ /\ \E b \in Block : Mim!CanEnterFreeing(m, p, b)
            /\ n = Mim!delay_enter_freeing(m, p)
         \/ Mim!CanLeaveFreeing(m, p) /\ n = Mim!delay_leave_freeing(m, p)
         \/ /\ new = n.block \ m.block
            /\ Mim!CanMakeBlocks(m, p, new) /\ n = Mim!page_mk_block_tokens(m, p, new)
         \/ /\ new = held[p]
            /\ Mim!CanDestroyBlocks(m, p, new) /\ n = Mim!page_destroy_block_tokens(m, p, new)
         \/ Mim!CanCheckDelay(m, p) /\ n = Mim!page_check_delay_state(m, p)
         \/ /\ new = n.block \ m.block
            /\ Mim!CanFresh(m, p, new) /\ n = Mim!MimFresh(m, p, new)
         \/ Mim!CanClear(m, p) /\ n = Mim!MimClear(m, p)
  PROVE  Mim!MimStep(m, n, held)
  BY DEF Mim!MimStep, Mim!MimTransition

\* The DelayState of one page in use changes.
LEMMA DelayOver ==
  ASSUME IInv, NEW p \in InUse, NEW d, delay' = [delay EXCEPT ![p] = d], state' = state
  PROVE  /\ InUse' = InUse /\ DOMAIN Delays = InUse
         /\ Delays' = Mim!Over(Delays, p, d) /\ Delays[p] = delay[p]
<1>1. InUse' = InUse /\ DOMAIN Delays = InUse /\ InUse \in SUBSET Page /\ p \in Page
  BY DEF InUse, Delays
<1>2. DOMAIN Delays \cup {p} = InUse
  BY <1>1
<1>3. \A q \in InUse : delay'[q] = IF q = p THEN d ELSE Delays[q]
  BY <1>1 DEF IInv, TypeOK, Delays
<1>. QED BY <1>1, <1>2, <1>3 DEF Mim!Over, Delays

\* The Freeing exchange is delay_enter_freeing.
LEMMA RCasFreeingMim ==
  ASSUME IInv, NEW t \in Remote, RCasFreeing(t)
  PROVE  Mim!MimStep(Tokens, Tokens', Held)
<1>p. PICK p : p = rpage[t]
  OBVIOUS
<1>1. /\ p \in Page /\ rblk[t] \in Block /\ PageOf[rblk[t]] = p
      /\ delay[p] = 0 /\ state[p] \in {"bin", "full"} /\ rblk[t] \in Outside(p)
  <2>1. rblk[t] \in Block /\ PageOf[rblk[t]] = p
    BY <1>p DEF IInv, RemoteLocals, RCasFreeing
  <2>. QED BY <1>p, <2>1, InTransit DEF RCasFreeing, RMaskUnchanged, UseDelayedFree
<1>2. p \in InUse /\ rblk[t] \in Blocks
  BY <1>p, <1>1 DEF InUse, Blocks, BlocksOf, Outside
<1>3. /\ InUse' = InUse /\ DOMAIN Delays = InUse
      /\ Delays' = Mim!Over(Delays, p, 1) /\ Delays[p] = 0
  BY <1>p, <1>1, <1>2, DelayOver DEF RCasFreeing, pageVars, Freeing
<1>4. Nums' = Nums /\ Blocks' = Blocks /\ Checked' = Checked
  BY <1>p, <1>3 DEF RCasFreeing, pageVars, ownerVars, Nums, Blocks, BlocksOf, Checked
<1>5. Actors' = Actors \cup {p} /\ p \notin Actors
  <2>1. Window(p) = {}
    BY <1>p, <1>1 DEF IInv, DelayExact, Freeing
  <2>2. Window(p)' = {t} /\ \A q \in Page \ {p} : Window(q)' = Window(q)
    BY <1>p, <1>1, <2>1 DEF IInv, TypeOK, RCasFreeing, Window
  <2>. QED BY <1>p, <1>1, <2>1, <2>2 DEF Actors
<1>6. PICK m : m = Tokens
  OBVIOUS
<1>7. PICK n : n = Tokens'
  OBVIOUS
<1>8. /\ m = Rec(InUse, InUse, InUse, Nums, Blocks, Delays, Actors, Checked)
      /\ n = Rec(InUse, InUse, InUse, Nums, Blocks, Mim!Over(Delays, p, 1),
                 Actors \cup {p}, Checked)
  BY <1>3, <1>4, <1>5, <1>6, <1>7, TokensAre, TokensWillBe
<1>9. n = Mim!delay_enter_freeing(m, p)
  BY <1>8, EnterIs
<1>10. Mim!CanEnterFreeing(m, p, rblk[t])
  <2>1. m.delay = Delays /\ m.block = Blocks /\ m.actor = Actors
    BY <1>8, RecParts
  <2>. QED BY <1>p, <1>1, <1>2, <1>3, <1>5, <2>1 DEF Mim!CanEnterFreeing
<1>. QED BY <1>1, <1>6, <1>7, <1>9, <1>10, Transitions

\* fetch_xor(3) is delay_leave_freeing.
LEMMA RXorMim ==
  ASSUME IInv, NEW t \in Remote, RXor(t)
  PROVE  Mim!MimStep(Tokens, Tokens', Held)
<1>p. PICK p : p = rpage[t]
  OBVIOUS
<1>1. p \in Page /\ Window(p) = {t} /\ delay[p] = 1
  BY <1>p DEF IInv, RemoteLocals, DelayExact, Window, Freeing, RXor
<1>2. p \in InUse
  BY <1>p, <1>1, QuietPage DEF InUse
<1>3. /\ InUse' = InUse /\ DOMAIN Delays = InUse
      /\ Delays' = Mim!Over(Delays, p, 2) /\ Delays[p] = 1
  <2>1. delay' = [delay EXCEPT ![p] = 2]
    BY <1>p, <1>1 DEF RXor, Xor3
  <2>. QED BY <1>p, <1>1, <1>2, <2>1, DelayOver DEF RXor, pageVars
<1>4. Nums' = Nums /\ Blocks' = Blocks /\ Checked' = Checked
  BY <1>p, <1>3 DEF RXor, pageVars, ownerVars, Nums, Blocks, BlocksOf, Checked
<1>5. Actors' = Actors \ {p} /\ p \in Actors
  <2>1. Window(p)' = {} /\ \A q \in Page \ {p} : Window(q)' = Window(q)
    BY <1>p, <1>1 DEF IInv, TypeOK, RXor, Window
  <2>. QED BY <1>p, <1>1, <2>1 DEF Actors
<1>6. PICK m : m = Tokens
  OBVIOUS
<1>7. PICK n : n = Tokens'
  OBVIOUS
<1>8. /\ m = Rec(InUse, InUse, InUse, Nums, Blocks, Delays, Actors, Checked)
      /\ n = Rec(InUse, InUse, InUse, Nums, Blocks, Mim!Over(Delays, p, 2),
                 Actors \ {p}, Checked)
  BY <1>3, <1>4, <1>5, <1>6, <1>7, TokensAre, TokensWillBe
<1>9. n = Mim!delay_leave_freeing(m, p)
  BY <1>8, LeaveIs
<1>10. Mim!CanLeaveFreeing(m, p)
  <2>1. m.delay = Delays /\ m.actor = Actors
    BY <1>8, RecParts
  <2>. QED BY <1>p, <1>2, <1>3, <1>5, <2>1 DEF Mim!CanLeaveFreeing
<1>. QED BY <1>1, <1>6, <1>7, <1>9, <1>10, Transitions

\* The owner's exchange in try_use_delayed_free is set_use_delayed_free.
LEMMA OTryCasMim ==
  ASSUME IInv, OTryCas
  PROVE  Mim!MimStep(Tokens, Tokens', Held)
<1>p. PICK p : p = opage
  OBVIOUS
<1>1. p \in Page /\ delay[p] = 2 /\ state[p] \in {"bin", "full"}
  <2>1. oblk \in Block /\ PageOf[oblk] = p /\ odelay = 2
    BY <1>p DEF IInv, OwnerLocals, HoldsDelayed, OTryCas, NoDelayedFree
  <2>. QED BY <1>p, <2>1, InTransit DEF OTryCas
<1>2. p \in InUse
  BY <1>p, <1>1 DEF InUse
<1>3. /\ InUse' = InUse /\ DOMAIN Delays = InUse
      /\ Delays' = Mim!Over(Delays, p, 0) /\ Delays[p] = 2
  BY <1>p, <1>1, <1>2, DelayOver DEF OTryCas, pageVars, UseDelayedFree
<1>4. Nums' = Nums /\ Blocks' = Blocks /\ Checked' = Checked
  BY <1>p, <1>3 DEF OTryCas, pageVars, Nums, Blocks, BlocksOf, Checked
<1>5. Actors' = Actors
  BY <1>p DEF OTryCas, remoteVars, Actors, Window
<1>6. PICK m : m = Tokens
  OBVIOUS
<1>7. PICK n : n = Tokens'
  OBVIOUS
<1>8. /\ m = Rec(InUse, InUse, InUse, Nums, Blocks, Delays, Actors, Checked)
      /\ n = Rec(InUse, InUse, InUse, Nums, Blocks, Mim!Over(Delays, p, 0),
                 Actors, Checked)
  BY <1>3, <1>4, <1>5, <1>6, <1>7, TokensAre, TokensWillBe
<1>9. n = Mim!set_use_delayed_free(m, p)
  BY <1>8, SetUseIs
<1>10. Mim!CanSetUseDelayedFree(m, p)
  <2>1. m.delay = Delays
    BY <1>8, RecParts
  <2>. QED BY <1>p, <1>2, <1>3, <2>1 DEF Mim!CanSetUseDelayedFree
<1>. QED BY <1>1, <1>6, <1>7, <1>9, <1>10, Transitions

\* The raw blocks of one page in use change.
LEMMA RawOver ==
  ASSUME IInv, NEW p \in InUse, NEW R, raw' = [raw EXCEPT ![p] = R], InUse' = InUse
  PROVE  /\ DOMAIN Nums = InUse
         /\ Nums[p] = Cardinality(BlocksOf(p) \ raw[p])
         /\ Nums' = Mim!Over(Nums, p, Cardinality(BlocksOf(p) \ R))
         /\ Blocks' = (Blocks \ BlocksOf(p)) \cup (BlocksOf(p) \ R)
<1>1. DOMAIN Nums = InUse /\ InUse \in SUBSET Page /\ p \in Page
  BY DEF InUse, Nums
<1>2. DOMAIN Nums \cup {p} = InUse
  BY <1>1
<1>3. \A q \in InUse : raw'[q] = IF q = p THEN R ELSE raw[q]
  BY <1>1 DEF IInv, TypeOK
<1>4. \A q \in InUse : Cardinality(BlocksOf(q) \ raw'[q])
         = IF q = p THEN Cardinality(BlocksOf(p) \ R) ELSE Nums[q]
  BY <1>3 DEF Nums
<1>5. Nums' = Mim!Over(Nums, p, Cardinality(BlocksOf(p) \ R))
  <2>1. Nums' = [q \in InUse |-> Cardinality(BlocksOf(q) \ raw'[q])]
    BY DEF Nums, BlocksOf
  <2>. QED BY <1>2, <1>4, <2>1 DEF Mim!Over
<1>6. Blocks' = (Blocks \ BlocksOf(p)) \cup (BlocksOf(p) \ R)
  <2>1. Blocks' = UNION {BlocksOf(q) \ raw'[q] : q \in InUse}
    BY DEF Blocks, BlocksOf
  <2>2. \A b \in Block : b \in Blocks' <=> PageOf[b] \in InUse /\ b \notin raw'[PageOf[b]]
    BY <2>1 DEF BlocksOf
  <2>3. \A b \in Block : b \in Blocks <=> PageOf[b] \in InUse /\ b \notin raw[PageOf[b]]
    BY DEF Blocks, BlocksOf
  <2>4. Blocks \in SUBSET Block /\ Blocks' \in SUBSET Block
    BY <2>1 DEF Blocks, BlocksOf
  <2>. QED BY <1>3, <2>2, <2>3, <2>4 DEF BlocksOf
<1>. QED BY <1>1, <1>5, <1>6 DEF Nums

\* segment_page_clear begins with page_destroy_block_tokens for the blocks on the
\* page's two lists: those are all of them.
LEMMA OPageFreeMim ==
  ASSUME IInv, OPageFree
  PROVE  Mim!MimStep(Tokens, Tokens', Held)
<1>1. PICK p : p = opage
  OBVIOUS
<1>2. p \in Page /\ used[p] = 0 /\ state[p] \in {"bin", "full"} /\ p \in InUse
  BY <1>1 DEF IInv, OwnerLocals, OPageFree, InUse
<1>3. PICK H : H = free[p] \cup local_free[p]
  OBVIOUS
<1>4. H = BlocksOf(p) \ raw[p] /\ H = Held[p]
  <2>1. Outside(p) = {}
    BY <1>2, OutsideFinite, FS_EmptySet DEF IInv, UsedCount
  <2>2. H \subseteq BlocksOf(p)
    BY <1>2, <1>3 DEF IInv, OnePlace
  <2>3. ASSUME NEW b \in H PROVE b \notin raw[p]
    <3>1. b \in Block /\ PageOf[b] = p /\ Places(b) = 1
      BY <2>2 DEF IInv, OnePlace, BlocksOf
    <3>. QED BY <1>3, <3>1 DEF Places, One
  <2>. QED BY <1>2, <1>3, <2>1, <2>2, <2>3 DEF Outside, Held
<1>5. InUse' = InUse
  BY <1>1, <1>2 DEF IInv, TypeOK, OPageFree, InUse
<1>6. /\ DOMAIN Nums = InUse /\ Nums[p] = Cardinality(H)
      /\ Nums' = Mim!Over(Nums, p, 0)
      /\ Blocks' = Blocks \ H /\ H \subseteq Blocks
  <2>1. PICK R : R = BlocksOf(p)
    OBVIOUS
  <2>2. raw' = [raw EXCEPT ![p] = R]
    BY <1>1, <2>1 DEF OPageFree
  <2>3. /\ DOMAIN Nums = InUse /\ Nums[p] = Cardinality(H)
        /\ Nums' = Mim!Over(Nums, p, 0) /\ Blocks' = Blocks \ BlocksOf(p)
    <3>1. /\ DOMAIN Nums = InUse /\ Nums[p] = Cardinality(H)
          /\ Nums' = Mim!Over(Nums, p, Cardinality(BlocksOf(p) \ R))
          /\ Blocks' = (Blocks \ BlocksOf(p)) \cup (BlocksOf(p) \ R)
      BY <1>2, <1>4, <1>5, <2>2, RawOver
    <3>2. BlocksOf(p) \ R = {} /\ Cardinality({}) = 0
      BY <2>1, FS_EmptySet
    <3>. QED BY <3>1, <3>2
  <2>4. H = Blocks \cap BlocksOf(p)
    BY <1>2, <1>4 DEF Blocks, BlocksOf
  <2>. QED BY <2>3, <2>4
<1>7. Delays' = Delays /\ Actors' = Actors /\ Checked' = Checked
  BY <1>1, <1>2, <1>5 DEF IInv, TypeOK, OPageFree, sharedVars, remoteVars, Delays, Actors,
     Window, Checked
<1>8. PICK m : m = Tokens
  OBVIOUS
<1>9. PICK n : n = Tokens'
  OBVIOUS
<1>10. /\ m = Rec(InUse, InUse, InUse, Nums, Blocks, Delays, Actors, Checked)
       /\ n = Rec(InUse, InUse, InUse, Mim!Over(Nums, p, 0), Blocks \ H, Delays, Actors,
                  Checked)
  BY <1>5, <1>6, <1>7, <1>8, <1>9, TokensAre, TokensWillBe
<1>11. n = Mim!page_destroy_block_tokens(m, p, H)
  BY <1>10, DestroyBlocksIs
<1>12. Mim!CanDestroyBlocks(m, p, H)
  <2>1. m.pages = InUse /\ m.num = Nums /\ m.block = Blocks
    BY <1>10, RecParts
  <2>2. \A b \in H : PageOf[b] = p
    BY <1>4 DEF BlocksOf
  <2>. QED BY <1>2, <1>6, <2>1, <2>2, SameCount DEF Mim!CanDestroyBlocks
<1>. QED BY <1>2, <1>4, <1>8, <1>9, <1>11, <1>12, Transitions

\* check_is_good is page_check_delay_state.
LEMMA OCheckGoodMim ==
  ASSUME IInv, OCheckGood
  PROVE  Mim!MimStep(Tokens, Tokens', Held)
<1>1. PICK p : p = opage
  OBVIOUS
<1>2. /\ p \in Page /\ state[p] = "popped" /\ p \in InUse /\ delay[p] # 1
      /\ raw[p] = BlocksOf(p)
  BY <1>1 DEF IInv, OwnerLocals, OCheckGood, InUse, Freeing, Vacated
<1>3. /\ InUse' = InUse /\ Nums' = Nums /\ Blocks' = Blocks /\ Delays' = Delays
      /\ Actors' = Actors
  BY DEF OCheckGood, pageVars, sharedVars, remoteVars, InUse, Nums, Blocks, BlocksOf, Delays,
     Actors, Window
<1>4. Checked' = Checked \cup {p}
  BY <1>1, <1>2 DEF OCheckGood, pageVars, Checked
<1>5. PICK m : m = Tokens
  OBVIOUS
<1>6. PICK n : n = Tokens'
  OBVIOUS
<1>7. /\ m = Rec(InUse, InUse, InUse, Nums, Blocks, Delays, Actors, Checked)
      /\ n = Rec(InUse, InUse, InUse, Nums, Blocks, Delays, Actors, Checked \cup {p})
  BY <1>3, <1>4, <1>5, <1>6, TokensAre, TokensWillBe
<1>8. n = Mim!page_check_delay_state(m, p)
  BY <1>7, CheckIs
<1>9. Mim!CanCheckDelay(m, p)
  <2>1. m.pages = InUse /\ m.num = Nums /\ m.delay = Delays
    BY <1>7, RecParts
  <2>2. BlocksOf(p) \ raw[p] = {} /\ Cardinality({}) = 0
    BY <1>2, FS_EmptySet
  <2>3. Nums[p] = 0 /\ DOMAIN Delays = InUse /\ Delays[p] = delay[p]
    BY <1>2, <2>2 DEF Nums, Delays
  <2>. QED BY <1>2, <2>1, <2>3 DEF Mim!CanCheckDelay
<1>. QED BY <1>2, <1>5, <1>6, <1>8, <1>9, Transitions

\* disable() and giving the slices back are page_disable and page_destroy_tokens.
LEMMA OClearMim ==
  ASSUME IInv, OClear
  PROVE  Mim!MimStep(Tokens, Tokens', Held)
<1>1. PICK p : p = opage
  OBVIOUS
<1>2. /\ p \in Page /\ state[p] = "popped" /\ p \in InUse /\ raw[p] = BlocksOf(p)
      /\ opc = "clear" /\ delay' = delay
  <2>1. p \in Page /\ state[p] = "popped" /\ opc = "clear"
    BY <1>1 DEF IInv, OwnerLocals, OClear
  <2>2. delay[p] = UseDelayedFree
    BY <1>1, <2>1, QuietPage
  <2>. QED BY <1>1, <2>1, <2>2 DEF IInv, TypeOK, Vacated, OClear, InUse
<1>3. opc' # "clear"
  BY DEF IInv, OwnerLocals, OClear
<1>4. InUse' = InUse \ {p} /\ Checked' = Checked /\ p \in Checked /\ Actors' = Actors
  BY <1>1, <1>2, <1>3 DEF IInv, TypeOK, OClear, remoteVars, InUse, Checked, Actors, Window
<1>5. /\ Nums' = Mim!Without(Nums, p) /\ Delays' = Mim!Without(Delays, p)
      /\ DOMAIN Nums = InUse /\ DOMAIN Delays = InUse
  <2>1. raw' = raw
    BY DEF OClear
  <2>2. /\ Nums' = [q \in InUse \ {p} |-> Cardinality(BlocksOf(q) \ raw[q])]
        /\ Delays' = [q \in InUse \ {p} |-> delay[q]]
    BY <1>2, <1>4, <2>1 DEF Nums, Delays, BlocksOf
  <2>. QED BY <2>2 DEF Mim!Without, Nums, Delays
<1>6. BlocksOf(p) \ raw[p] = {} /\ Nums[p] = 0
  <2>1. BlocksOf(p) \ raw[p] = {} /\ Cardinality({}) = 0
    BY <1>2, FS_EmptySet
  <2>. QED BY <1>2, <2>1 DEF Nums
<1>7. Blocks' = Blocks
  <2>1. Blocks' = UNION {BlocksOf(q) \ raw[q] : q \in InUse \ {p}}
    BY <1>4 DEF Blocks, BlocksOf, OClear
  <2>. QED BY <1>6, <2>1 DEF Blocks
<1>8. PICK m : m = Tokens
  OBVIOUS
<1>9. PICK n : n = Tokens'
  OBVIOUS
<1>10. PICK k : k = Mim!page_disable(m, p)
  OBVIOUS
<1>11. /\ m = Rec(InUse, InUse, InUse, Nums, Blocks, Delays, Actors, Checked)
       /\ n = Rec(InUse \ {p}, InUse \ {p}, InUse \ {p}, Mim!Without(Nums, p), Blocks,
                  Mim!Without(Delays, p), Actors, Checked)
  BY <1>4, <1>5, <1>7, <1>8, <1>9, TokensAre, TokensWillBe
<1>12. k = Rec(InUse, InUse \ {p}, InUse \ {p}, Nums, Blocks, Delays, Actors, Checked)
  BY <1>10, <1>11, DisableIs
<1>13. n = Mim!page_destroy_tokens(k, p)
  BY <1>11, <1>12, DestroyIs
<1>14. Mim!CanDisablePage(m, p)
  <2>1. m.enabled = InUse /\ m.checked = Checked /\ m.num = Nums
    BY <1>11, RecParts
  <2>. QED BY <1>2, <1>4, <1>6, <2>1 DEF Mim!CanDisablePage
<1>15. Mim!CanDestroyPage(k, p)
  <2>1. k.pages = InUse /\ k.enabled = InUse \ {p} /\ k.delay = Delays
    BY <1>12, RecParts
  <2>. QED BY <1>2, <1>5, <2>1 DEF Mim!CanDestroyPage
<1>16. Mim!CanClear(m, p) /\ n = Mim!MimClear(m, p)
  BY <1>10, <1>13, <1>14, <1>15 DEF Mim!CanClear, Mim!MimClear
<1>. QED BY <1>2, <1>8, <1>9, <1>16, Transitions

\* page_extend_free is page_mk_block_tokens.
LEMMA OLookExtendMim ==
  ASSUME IInv, NEW E \in SUBSET Block, OLookExtend(E)
  PROVE  Mim!MimStep(Tokens, Tokens', Held)
<1>1. PICK p : p = opage
  OBVIOUS
<1>2. /\ p \in Page /\ state[p] = "bin" /\ p \in InUse
      /\ E \subseteq raw[p] /\ raw[p] \subseteq BlocksOf(p)
  BY <1>1 DEF IInv, OwnerLocals, OnePlace, OLookExtend, InUse, Extensions
<1>3. PICK R : R = raw[p] \ E
  OBVIOUS
<1>4. InUse' = InUse /\ raw' = [raw EXCEPT ![p] = R]
  BY <1>1, <1>3 DEF OLookExtend, InUse
<1>5. /\ DOMAIN Nums = InUse /\ Nums[p] = Cardinality(BlocksOf(p) \ raw[p])
      /\ Nums' = Mim!Over(Nums, p, Cardinality(BlocksOf(p) \ R))
      /\ Blocks' = (Blocks \ BlocksOf(p)) \cup (BlocksOf(p) \ R)
  BY <1>2, <1>4, RawOver
<1>6. /\ Cardinality(BlocksOf(p) \ R) = Nums[p] + Cardinality(E)
      /\ Nums[p] \in Nat /\ Cardinality(E) \in Nat
  <2>1. PICK B : B = BlocksOf(p) \ raw[p]
    OBVIOUS
  <2>2. BlocksOf(p) \ R = B \cup E /\ B \cap E = {}
    BY <1>2, <1>3, <2>1
  <2>3. IsFiniteSet(B) /\ IsFiniteSet(E)
    BY <1>2, <2>1, BlockAssumption, FS_Subset DEF BlocksOf
  <2>4. /\ Cardinality(B \cup E) = Cardinality(B) + Cardinality(E) - Cardinality(B \cap E)
        /\ Cardinality(B) \in Nat /\ Cardinality(E) \in Nat /\ Cardinality({}) = 0
    BY <2>3, FS_Union, FS_CardinalityType, FS_EmptySet
  <2>5. Cardinality(B \cup E) = Cardinality(B) + Cardinality(E)
    <3>1. Cardinality(B \cap E) = 0
      BY <2>2, <2>4
    <3>. HIDE <2>2
    <3>. QED BY <2>4, <3>1
  <2>. QED BY <1>5, <2>1, <2>2, <2>4, <2>5
<1>c. PICK c : c = Cardinality(BlocksOf(p) \ R)
  OBVIOUS
<1>n. PICK nu2 : nu2 = Mim!Over(Nums, p, c)
  OBVIOUS
<1>7. Blocks' = Blocks \cup E /\ Blocks' \ Blocks = E /\ E \cap Blocks = {}
  <2>1. Blocks \cap BlocksOf(p) = BlocksOf(p) \ raw[p]
    BY <1>2 DEF Blocks, BlocksOf
  <2>. QED BY <1>2, <1>3, <1>5, <2>1
<1>8. Delays' = Delays /\ Actors' = Actors /\ Checked' = Checked \ {p}
  BY <1>1, <1>2, <1>4 DEF OLookExtend, sharedVars, remoteVars, Delays, Actors, Window, Checked
<1>9. PICK m : m = Tokens
  OBVIOUS
<1>10. PICK n : n = Tokens'
  OBVIOUS
<1>11. /\ m = Rec(InUse, InUse, InUse, Nums, Blocks, Delays, Actors, Checked)
       /\ n = Rec(InUse, InUse, InUse, nu2, Blocks \cup E, Delays, Actors, Checked \ {p})
  BY <1>c, <1>n, <1>4, <1>5, <1>7, <1>8, <1>9, <1>10, TokensAre, TokensWillBe
<1>12. n = Mim!page_mk_block_tokens(m, p, E)
  <2>1. c \in Nat /\ c = Nums[p] + Cardinality(E)
    BY <1>c, <1>6
  <2>. QED BY <1>n, <1>6, <1>11, <2>1, MakeBlocksIs
<1>13. Mim!CanMakeBlocks(m, p, E) /\ E = n.block \ m.block
  <2>1. m.enabled = InUse /\ m.block = Blocks /\ n.block = Blocks \cup E
    BY <1>11, RecParts
  <2>2. \A b \in E : PageOf[b] = p
    BY <1>2 DEF BlocksOf
  <2>. QED BY <1>2, <1>7, <2>1, <2>2 DEF Mim!CanMakeBlocks
<1>. QED BY <1>2, <1>9, <1>10, <1>12, <1>13, Transitions

\* page_fresh is create_page_mk_tokens, page_enable and page_mk_block_tokens.
LEMMA OFreshMim ==
  ASSUME IInv, NEW p \in Page, NEW E \in SUBSET Block, OFresh(p, E)
  PROVE  Mim!MimStep(Tokens, Tokens', Held)
<1>1. /\ state[p] = "unused" /\ p \notin InUse /\ raw[p] = BlocksOf(p)
      /\ E \subseteq BlocksOf(p) /\ delay[p] = 0
  BY QuietPage DEF IInv, Vacated, OFresh, InUse, Extensions, UseDelayedFree
<1>2. InUse' = InUse \cup {p} /\ Actors' = Actors /\ Checked' = Checked \ {p}
  BY <1>1 DEF IInv, TypeOK, OFresh, remoteVars, InUse, Actors, Window, Checked
<1>3. \A q \in Page : BlocksOf(q) \ raw'[q] = IF q = p THEN E ELSE BlocksOf(q) \ raw[q]
  BY <1>1 DEF IInv, TypeOK, OFresh, BlocksOf
<1>4. PICK nu0 : nu0 = Mim!Over(Nums, p, 0)
  OBVIOUS
<1>c. PICK c : c = nu0[p] + Cardinality(E)
  OBVIOUS
<1>n. PICK nu2 : nu2 = Mim!Over(nu0, p, c)
  OBVIOUS
<1>5. nu0[p] = 0 /\ Nums' = nu2
  <2>1. /\ DOMAIN Nums = InUse /\ DOMAIN nu0 = InUse \cup {p} /\ nu0[p] = 0
        /\ \A q \in InUse : nu0[q] = Nums[q]
    BY <1>1, <1>4 DEF Nums, Mim!Over
  <2>2. Nums' = [q \in InUse \cup {p} |-> Cardinality(BlocksOf(q) \ raw'[q])]
    BY <1>2 DEF Nums, BlocksOf
  <2>3. Cardinality(E) \in Nat
    BY BlockAssumption, FS_Subset, FS_CardinalityType
  <2>4. \A q \in InUse \cup {p} : Cardinality(BlocksOf(q) \ raw'[q])
            = IF q = p THEN nu0[p] + Cardinality(E) ELSE nu0[q]
    <3>1. nu0[p] + Cardinality(E) = Cardinality(E) /\ BlocksOf(p) \ raw'[p] = E
      BY <1>3, <2>1, <2>3
    <3>2. ASSUME NEW q \in InUse, q # p PROVE Cardinality(BlocksOf(q) \ raw'[q]) = nu0[q]
      BY <1>3, <2>1, <3>2 DEF Nums, InUse
    <3>. QED BY <3>1, <3>2
  <2>. QED BY <1>c, <1>n, <2>1, <2>2, <2>4 DEF Mim!Over
<1>6. Delays' = Mim!Over(Delays, p, 0) /\ DOMAIN Delays = InUse
  <2>1. Delays' = [q \in InUse \cup {p} |-> delay[q]]
    BY <1>2 DEF Delays, OFresh, sharedVars
  <2>2. DOMAIN Delays = InUse /\ \A q \in InUse : Delays[q] = delay[q]
    BY DEF Delays
  <2>. QED BY <1>1, <2>1, <2>2 DEF Mim!Over
<1>7. Blocks' = Blocks \cup E /\ E \cap Blocks = {} /\ Blocks' \ Blocks = E
  <2>1. Blocks' = UNION {BlocksOf(q) \ raw'[q] : q \in InUse \cup {p}}
    BY <1>2 DEF Blocks, BlocksOf
  <2>2. Blocks' = Blocks \cup E
    BY <1>1, <1>3, <2>1 DEF Blocks, InUse
  <2>3. E \cap Blocks = {}
    BY <1>1 DEF Blocks, BlocksOf
  <2>. QED BY <2>2, <2>3
<1>8. PICK m : m = Tokens
  OBVIOUS
<1>9. PICK n : n = Tokens'
  OBVIOUS
<1>10. PICK k : k = Mim!create_page_mk_tokens(m, p)
  OBVIOUS
<1>11. PICK l : l = Mim!page_enable(k, p)
  OBVIOUS
<1>12. PICK de : de = Mim!Over(Delays, p, 0)
  OBVIOUS
<1>13. /\ m = Rec(InUse, InUse, InUse, Nums, Blocks, Delays, Actors, Checked)
       /\ n = Rec(InUse \cup {p}, InUse \cup {p}, InUse \cup {p},
                  nu2, Blocks \cup E, de, Actors,
                  Checked \ {p})
  BY <1>2, <1>5, <1>6, <1>7, <1>8, <1>9, <1>12, TokensAre, TokensWillBe
<1>14. k = Rec(InUse \cup {p}, InUse, InUse, nu0, Blocks, de, Actors, Checked)
  BY <1>4, <1>10, <1>12, <1>13, CreateIs
<1>15. l = Rec(InUse \cup {p}, InUse \cup {p}, InUse \cup {p}, nu0, Blocks, de, Actors,
               Checked)
  BY <1>11, <1>14, EnableIs
<1>16. n = Mim!page_mk_block_tokens(l, p, E)
  <2>1. nu0[p] \in Nat /\ Cardinality(E) \in Nat
    BY <1>5, BlockAssumption, FS_Subset, FS_CardinalityType
  <2>2. c \in Nat
    BY <1>c, <2>1
  <2>. QED BY <1>c, <1>n, <1>13, <1>15, <2>1, <2>2, MakeBlocksIs
<1>17. Mim!CanCreatePage(m, p)
  <2>1. m.pages = InUse /\ m.delay = Delays
    BY <1>13, RecParts
  <2>. QED BY <1>1, <1>6, <2>1 DEF Mim!CanCreatePage
<1>18. Mim!CanEnablePage(k, p)
  <2>1. k.pages = InUse \cup {p} /\ k.enabled = InUse /\ k.access = InUse
    BY <1>14, RecParts
  <2>. QED BY <1>1, <2>1 DEF Mim!CanEnablePage
<1>19. Mim!CanMakeBlocks(l, p, E) /\ E = n.block \ m.block
  <2>1. /\ l.enabled = InUse \cup {p} /\ l.block = Blocks
        /\ m.block = Blocks /\ n.block = Blocks \cup E
    BY <1>13, <1>15, RecParts
  <2>2. \A b \in E : PageOf[b] = p
    BY <1>1 DEF BlocksOf
  <2>. QED BY <1>7, <2>1, <2>2 DEF Mim!CanMakeBlocks
<1>20. Mim!CanFresh(m, p, E) /\ n = Mim!MimFresh(m, p, E)
  BY <1>10, <1>11, <1>16, <1>17, <1>18, <1>19 DEF Mim!CanFresh, Mim!MimFresh
<1>. QED BY <1>8, <1>9, <1>19, <1>20, Transitions

\* Every step of the code changes the tokens the way Mim allows, or not at all.
LEMMA StepFollows ==
  ASSUME IInv, [Next]_vars
  PROVE  Mim!MimStep(Tokens, Tokens', Held) \/ UNCHANGED TokenParts
<1>1. CASE Client
  <2>1. ASSUME NEW t \in Remote, NEW b \in Block, RFree(t, b) PROVE UNCHANGED TokenParts
    BY <2>1 DEF IInv, TypeOK, RFree, pageVars, sharedVars, ownerVars, TokenParts
  <2>2. ASSUME NEW b \in Block, OFree(b) PROVE UNCHANGED TokenParts
    <3>1. PageOf[b] \in Page /\ state[PageOf[b]] # "unused"
      BY <2>2, InTransit DEF OFree
    <3>. QED BY <2>2, <3>1 DEF IInv, TypeOK, OFree, FreeLocal, sharedVars, remoteVars, TokenParts
  <2>3. ASSUME NEW p \in Page, NEW b \in Block, OMallocFast(p, b) PROVE UNCHANGED TokenParts
    BY <2>3 DEF OMallocFast, sharedVars, remoteVars, ownerVars, TokenParts
  <2>4. CASE OTakeLoad
    BY <2>4 DEF OTakeLoad, pageVars, sharedVars, remoteVars, TokenParts
  <2>. QED BY <1>1, <2>1, <2>2, <2>3, <2>4 DEF Client
<1>2. CASE \E t \in Remote : RemoteStep(t)
  <2>1. ASSUME NEW t \in Remote,
               RLoad(t) \/ RCasPush(t) \/ RCasFail(t) \/ RDelayedLoad(t) \/ RDelayedPush(t)
               \/ RDelayedFail(t)
        PROVE  UNCHANGED TokenParts
    <3>1. /\ pageVars' = pageVars /\ delay' = delay /\ ownerVars' = ownerVars
      BY <2>1 DEF RLoad, RCasPush, RCasFail, RDelayedLoad, RDelayedPush, RDelayedFail, sharedVars
    <3>2. /\ \A u \in Remote : rpc'[u] \in {"dload", "dcas", "xor"}
                                  <=> rpc[u] \in {"dload", "dcas", "xor"}
          /\ \A u \in Remote : rpc[u] \in {"dload", "dcas", "xor"} => rpage'[u] = rpage[u]
      BY <2>1 DEF IInv, TypeOK, RLoad, RCasPush, RCasFail, RDelayedLoad, RDelayedPush,
         RDelayedFail
    <3>. QED BY <3>1, <3>2 DEF pageVars, ownerVars, TokenParts
  <2>. QED BY <1>2, <2>1, RCasFreeingMim, RXorMim DEF RemoteStep
<1>3. CASE OwnerStep
  <2>1. CASE OTakeSwap \/ (\E b \in Block : OPop(b)) \/ OPopDone \/ OTryYield \/ OTryGiveUp
             \/ OTryLoad \/ OTryFail \/ OReinsertLoad \/ OReinsertPush \/ OReinsertFail
    BY <2>1 DEF OTakeSwap, OPop, OPopDone, OTryYield, OTryGiveUp, OTryLoad, OTryFail,
       OReinsertLoad, OReinsertPush, OReinsertFail, pageVars, sharedVars, remoteVars, TokenParts
  <2>2. CASE OCollectLoad \/ OCollectSkip \/ OCollectTake
    BY <2>2 DEF IInv, OwnerLocals, OCollectLoad, OCollectSkip, OCollectTake, pageVars,
       sharedVars, remoteVars, TokenParts
  <2>3. CASE OFindNone \/ OFirst \/ OLookFound \/ ONoPage \/ (\E p \in Page : OFind(p))
             \/ (\E p \in Page : OWalk(p)) \/ (\E b \in Block : OAlloc(b))
    BY <2>3 DEF OFindNone, OFirst, OLookFound, ONoPage, OFind, OWalk, OAlloc, pageVars,
       sharedVars, remoteVars, TokenParts
  <2>4. CASE OToFull
    BY <2>4 DEF IInv, TypeOK, OwnerLocals, OToFull, sharedVars, remoteVars, TokenParts
  <2>5. CASE ODelayedFree
    <3>1. oblk \in Block
      BY <2>5 DEF IInv, OwnerLocals, HoldsDelayed, ODelayedFree
    <3>2. PageOf[oblk] \in Page /\ state[PageOf[oblk]] # "unused"
      BY <3>1, InTransit
    <3>. QED BY <2>5, <3>2 DEF IInv, TypeOK, ODelayedFree, FreeLocal, sharedVars, remoteVars,
         TokenParts
  <2>. QED BY <1>3, <2>1, <2>2, <2>3, <2>4, <2>5, OTryCasMim, OPageFreeMim, OCheckGoodMim,
       OClearMim, OLookExtendMim, OFreshMim DEF OwnerStep
<1>4. CASE Aborted \/ UNCHANGED vars
  BY <1>4 DEF Aborted, vars, pageVars, sharedVars, remoteVars, ownerVars, TokenParts
<1>. QED BY <1>1, <1>2, <1>3, <1>4 DEF Next

\* The multi-threaded code keeps to the token protocol, for any number of threads,
\* pages and blocks: every change of an xthread_free word, of the carved blocks and
\* of the pages in use is a transition of Mim that is allowed at that moment, and
\* whoever holds a block or a delay_actor may use the page.
THEOREM CodeFollowsMim == Spec => FollowsMim
<1>1. IInv' => Mim!MimGuards(Tokens)'
  BY GuardsHold, PTL
<1>2. IInv /\ IInv' /\ [Next]_vars =>
        [\E m \in {Tokens}, n \in {Tokens'} :
           /\ n = m \/ Mim!MimStep(m, n, [p \in Page |-> free[p] \cup local_free[p]])
           /\ Mim!MimGuards(n)]_TokenParts
  <2>. SUFFICES ASSUME IInv, IInv', [Next]_vars, TokenParts' # TokenParts
               PROVE  \E m \in {Tokens}, n \in {Tokens'} :
                        /\ n = m
                           \/ Mim!MimStep(m, n, [p \in Page |-> free[p] \cup local_free[p]])
                        /\ Mim!MimGuards(n)
    OBVIOUS
  <2>1. Mim!MimStep(Tokens, Tokens', Held)
    BY StepFollows
  <2>2. Mim!MimGuards(Tokens')
    BY <1>1 DEF Mim!MimGuards
  <2>. QED BY <2>1, <2>2 DEF Held
<1>3. Spec => [][Next]_vars
  BY DEF Spec
<1>. QED BY <1>2, <1>3, Invariance, PTL DEF FollowsMim
=============================================================================

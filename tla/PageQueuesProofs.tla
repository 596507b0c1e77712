-------------------------- MODULE PageQueuesProofs --------------------------
(***************************************************************************)
(* The theorems about PageQueues.  QInv is inductive.                      *)
(*                                                                         *)
(* That the links of a queue fit together (LinksExact) is not inductive: a *)
(* ring of pages beside the list that starts at first would satisfy it, and *)
(* the last page of the list could be removed while the ring is there.     *)
(* QInv says that some sequence of all the pages of a queue has exactly    *)
(* these links.                                                            *)
(***************************************************************************)
EXTENDS PageQueues, Sequences, SequenceTheorems, FiniteSetTheorems,
        NaturalsInduction, WellFoundedInduction, TLAPS

-----------------------------------------------------------------------------
(* Induction over numbers, for sets                                         *)

LEMMA LeastNat ==
  ASSUME NEW T, T \subseteq Nat, T # {}
  PROVE  \E x \in T : \A y \in T : x <= y
<1> DEFINE R == {ss \in Nat \X Nat : ss[1] < ss[2]}
<1>1. \A S : S \subseteq Nat /\ S # {} => \E x \in S : \A y \in S : ~(<<y, x>> \in R)
  BY NatLessThanWellFounded, WFMin DEF OpToRel
<1>2. PICK x \in T : \A y \in T : ~(<<y, x>> \in R)
  BY <1>1
<1>3. ASSUME NEW y \in T PROVE x <= y
  <2>1. ~(<<y, x>> \in R)
    BY <1>2
  <2>2. ~(y < x)
    BY <2>1
  <2> QED BY <2>2
<1> QED BY <1>3

LEMMA SetInduction ==
  ASSUME NEW G, 0 \in G, \A n \in Nat : n \in G => n + 1 \in G
  PROVE  Nat \subseteq G
<1> SUFFICES ASSUME Nat \ G # {} PROVE FALSE
  OBVIOUS
<1>1. PICK x \in Nat \ G : \A y \in Nat \ G : x <= y
  BY LeastNat
<1>2. x # 0 /\ x - 1 \in Nat
  BY <1>1
<1>3. x - 1 \notin G
  BY <1>2
<1>4. x - 1 \in Nat \ G /\ ~(x <= x-1)
  BY <1>2, <1>3
<1> QED BY <1>1, <1>4

-----------------------------------------------------------------------------
(* One queue                                                                *)

Link == [Page -> Page \cup {NULL}]

\* the list from f to l consists of the pages of s in this order
Chain(f, l, next, prev, s) ==
  /\ f = IF Len(s) = 0 THEN NULL ELSE s[1]
  /\ l = IF Len(s) = 0 THEN NULL ELSE s[Len(s)]
  /\ \A k \in 1 .. Len(s) :
       /\ prev[s[k]] = IF k = 1 THEN NULL ELSE s[k - 1]
       /\ next[s[k]] = IF k = Len(s) THEN NULL ELSE s[k + 1]
  /\ \A j, k \in 1 .. Len(s) : s[j] = s[k] => j = k

Occurs(p, s) == \E k \in 1 .. Len(s) : s[k] = p

\* The links of other pages do not matter.
LEMMA ChainFrame ==
  ASSUME NEW f, NEW l, NEW next, NEW prev, NEW next2, NEW prev2, NEW s \in Seq(Page),
         Chain(f, l, next, prev, s),
         \A k \in 1 .. Len(s) : next2[s[k]] = next[s[k]] /\ prev2[s[k]] = prev[s[k]]
  PROVE  Chain(f, l, next2, prev2, s)
BY DEF Chain

LEMMA ChainPush ==
  ASSUME NEW f, NEW l, NEW next \in Link, NEW prev \in Link, NEW s \in Seq(Page),
         Chain(f, l, next, prev, s),
         NEW p \in Page, ~Occurs(p, s)
  PROVE  Chain(p, IF f = NULL THEN p ELSE l, [next EXCEPT ![p] = f],
               set_prev(set_prev(prev, p, NULL), f, p), <<p>> \o s)
<1> DEFINE t == <<p>> \o s
           next2 == [next EXCEPT ![p] = f]
           prev2 == set_prev(set_prev(prev, p, NULL), f, p)
<1>1. <<p>> \in Seq(Page) /\ Len(<<p>>) = 1 /\ <<p>>[1] = p
  OBVIOUS
<1>2. /\ t \in Seq(Page) /\ Len(s) \in Nat /\ Len(t) = Len(s) + 1
      /\ \A i \in 1 .. Len(s) + 1 : t[i] = IF i = 1 THEN p ELSE s[i - 1]
  BY <1>1, ConcatProperties, LenProperties
<1>3. \A k \in 1 .. Len(s) : s[k] \in Page /\ s[k] # p /\ t[k + 1] = s[k]
  BY <1>2, ElementOfSeq DEF Occurs
<1>4. \A j, k \in 1 .. Len(t) : t[j] = t[k] => j = k
  BY <1>2, <1>3 DEF Chain
<1>5. f = (IF Len(s) = 0 THEN NULL ELSE s[1]) /\ (f = NULL <=> Len(s) = 0)
  BY <1>2, <1>3, PageAssumption DEF Chain
<1>6. next2[p] = f /\ prev2[p] = NULL /\ (f # NULL => f # p /\ prev2[f] = p)
  <2>1. f \in Page \cup {NULL} /\ f # p
    BY <1>2, <1>3, <1>5, PageAssumption
  <2> QED BY <2>1, PageAssumption DEF set_prev, Link
<1>7. \A k \in 1 .. Len(s) : /\ next2[s[k]] = next[s[k]]
                             /\ k # 1 => prev2[s[k]] = prev[s[k]]
  <2>1. \A k \in 1 .. Len(s) : k # 1 => s[k] # f
    BY <1>2, <1>3, <1>5, PageAssumption DEF Chain
  <2> QED BY <1>3, <2>1, <1>2 DEF set_prev, Link
<1>8. ASSUME NEW k \in 1 .. Len(t)
      PROVE  /\ prev2[t[k]] = IF k = 1 THEN NULL ELSE t[k - 1]
             /\ next2[t[k]] = IF k = Len(t) THEN NULL ELSE t[k + 1]
  <2>1. CASE k = 1
    BY <1>2, <1>3, <1>5, <1>6, <2>1
  <2>2. CASE k = 2
    <3>1. t[2] = s[1] /\ t[1] = p /\ f = s[1] /\ f # NULL
      BY <1>2, <1>5, <2>2
    <3>2. prev2[t[2]] = t[1]
      BY <1>6, <3>1
    <3>3. next2[s[1]] = next[s[1]] /\ next[s[1]] = IF Len(s) = 1 THEN NULL ELSE s[2]
      BY <1>2, <1>7, <2>2 DEF Chain
    <3> QED BY <1>2, <2>2, <3>1, <3>2, <3>3
  <2>3. CASE k > 2
    <3>1. k - 1 \in 1 .. Len(s) /\ t[k] = s[k - 1] /\ t[k - 1] = s[k - 2] /\ k - 1 # 1
      BY <1>2, <2>3
    <3>2. prev2[s[k - 1]] = s[k - 2]
      BY <1>7, <2>3, <3>1, <1>2 DEF Chain
    <3>3. next2[s[k - 1]] = IF k - 1 = Len(s) THEN NULL ELSE s[k]
      BY <1>7, <2>3, <3>1, <1>2 DEF Chain
    <3> QED BY <1>2, <2>3, <3>1, <3>2, <3>3
  <2> QED BY <1>2, <2>1, <2>2, <2>3
<1>9. (IF f = NULL THEN p ELSE l) = t[Len(t)] /\ Len(t) # 0 /\ t[1] = p
  BY <1>2, <1>3, <1>5 DEF Chain
<1> HIDE DEF t, next2, prev2
<1>10. Chain(p, IF f = NULL THEN p ELSE l, next2, prev2, t)
  BY <1>4, <1>8, <1>9 DEF Chain
<1> QED BY <1>10 DEF t, next2, prev2

LEMMA ChainPushBack ==
  ASSUME NEW f, NEW l, NEW next \in Link, NEW prev \in Link, NEW s \in Seq(Page),
         Chain(f, l, next, prev, s),
         NEW p \in Page, ~Occurs(p, s)
  PROVE  Chain(IF l = NULL THEN p ELSE f, p, set_next(set_next(next, p, NULL), l, p),
               [prev EXCEPT ![p] = l], Append(s, p))
<1> DEFINE t == Append(s, p)
           next2 == set_next(set_next(next, p, NULL), l, p)
           prev2 == [prev EXCEPT ![p] = l]
           n == Len(s)
<1>1. /\ t \in Seq(Page) /\ n \in Nat /\ Len(t) = n + 1
      /\ \A i \in 1 .. n : t[i] = s[i]
      /\ t[n + 1] = p
  BY AppendProperties, LenProperties
<1>2. \A k \in 1 .. n : s[k] \in Page /\ s[k] # p
  BY <1>1, ElementOfSeq DEF Occurs
<1>3. \A j, k \in 1 .. Len(t) : t[j] = t[k] => j = k
  BY <1>1, <1>2 DEF Chain
<1>4. l = (IF n = 0 THEN NULL ELSE s[n]) /\ (l = NULL <=> n = 0)
  BY <1>1, <1>2, PageAssumption DEF Chain
<1>5. prev2[p] = l /\ next2[p] = NULL /\ (l # NULL => l # p /\ next2[l] = p)
  <2>1. l \in Page \cup {NULL} /\ l # p
    BY <1>1, <1>2, <1>4, PageAssumption
  <2> QED BY <2>1, PageAssumption DEF set_next, Link
<1>6. \A k \in 1 .. n : /\ prev2[s[k]] = prev[s[k]]
                        /\ k # n => next2[s[k]] = next[s[k]]
  <2>1. \A k \in 1 .. n : k # n => s[k] # l
    BY <1>1, <1>2, <1>4, PageAssumption DEF Chain
  <2> QED BY <1>2, <2>1, <1>1 DEF set_next, Link
<1>7. ASSUME NEW k \in 1 .. Len(t)
      PROVE  /\ prev2[t[k]] = IF k = 1 THEN NULL ELSE t[k - 1]
             /\ next2[t[k]] = IF k = Len(t) THEN NULL ELSE t[k + 1]
  <2>1. CASE k = n + 1
    BY <1>1, <1>4, <1>5, <2>1
  <2>2. CASE k = n
    <3>1. t[k] = s[n] /\ t[k + 1] = p /\ l = s[n] /\ l # NULL /\ n # 0
      BY <1>1, <1>4, <2>2
    <3>2. next2[t[k]] = t[k + 1]
      BY <1>5, <3>1
    <3>3. prev2[s[n]] = prev[s[n]] /\ prev[s[n]] = IF n = 1 THEN NULL ELSE s[n - 1]
      <4>1. n \in 1 .. n
        BY <1>1, <3>1
      <4> QED BY <1>6, <4>1 DEF Chain
    <3>4. n # 1 => t[k - 1] = s[n - 1]
      BY <1>1, <2>2, <3>1
    <3> QED BY <1>1, <2>2, <3>1, <3>2, <3>3, <3>4
  <2>3. CASE k < n
    <3>1. k \in 1 .. n /\ k + 1 \in 1 .. n /\ t[k] = s[k] /\ t[k + 1] = s[k + 1]
      BY <1>1, <2>3
    <3>2. next2[s[k]] = s[k + 1]
      BY <1>6, <2>3, <3>1, <1>1 DEF Chain
    <3>3. prev2[s[k]] = IF k = 1 THEN NULL ELSE s[k - 1]
      BY <1>6, <2>3, <3>1, <1>1 DEF Chain
    <3>4. k # 1 => t[k - 1] = s[k - 1]
      BY <1>1, <3>1
    <3> QED BY <1>1, <2>3, <3>1, <3>2, <3>3, <3>4
  <2> QED BY <1>1, <2>1, <2>2, <2>3
<1>8. (IF l = NULL THEN p ELSE f) = t[1] /\ Len(t) # 0 /\ t[Len(t)] = p
  BY <1>1, <1>2, <1>4 DEF Chain
<1> HIDE DEF t, next2, prev2
<1>9. Chain(IF l = NULL THEN p ELSE f, p, next2, prev2, t)
  BY <1>3, <1>7, <1>8 DEF Chain
<1> QED BY <1>9 DEF t, next2, prev2

\* what is left of a sequence without its k-th page
LEMMA WithoutProperties ==
  ASSUME NEW s \in Seq(Page), \A i, j \in 1 .. Len(s) : s[i] = s[j] => i = j,
         NEW k \in 1 .. Len(s)
  PROVE  /\ Q!Without(s, s[k]) \in Seq(Page)
         /\ Len(Q!Without(s, s[k])) = Len(s) - 1
         /\ \A i \in 1 .. Len(s) - 1 :
              Q!Without(s, s[k])[i] = IF i < k THEN s[i] ELSE s[i + 1]
         /\ \A p \in Page : Occurs(p, Q!Without(s, s[k])) <=> Occurs(p, s) /\ p # s[k]
<1>1. Len(s) \in Nat /\ DOMAIN s = 1 .. Len(s) /\ \A i \in 1 .. Len(s) : s[i] \in Page
  BY LenProperties, ElementOfSeq
<1>2. (CHOOSE i \in DOMAIN s : s[i] = s[k]) = k
  BY <1>1
<1> DEFINE n == Len(s) - 1
           t == [i \in 1 .. n |-> IF i < k THEN s[i] ELSE s[i + 1]]
<1>3. Q!Without(s, s[k]) = t
  BY <1>2 DEF Q!Without
<1>4. n \in Nat /\ \A i \in 1 .. n : t[i] \in Page
  BY <1>1
<1>5. t \in Seq(Page) /\ Len(t) = n
  <2>1. t \in [1 .. n -> Page]
    BY <1>4
  <2>2. t \in Seq(Page)
    BY <2>1, <1>4, SeqDef
  <2> QED BY <2>1, <2>2, <1>4, LenProperties
<1>6. ASSUME NEW p \in Page, Occurs(p, s), p # s[k] PROVE \E i \in 1 .. n : t[i] = p
  <2>1. PICK j \in 1 .. Len(s) : s[j] = p
    BY <1>6 DEF Occurs
  <2>2. CASE j < k
    <3>1. j \in 1 .. n
      BY <1>1, <2>2
    <3> QED BY <2>1, <2>2, <3>1
  <2>3. CASE j > k
    <3>1. j - 1 \in 1 .. n /\ ~(j - 1 < k) /\ (j - 1) + 1 = j
      BY <1>1, <2>3
    <3> QED BY <2>1, <3>1
  <2> QED BY <1>6, <2>1, <2>2, <2>3, <1>1
<1>7. ASSUME NEW i \in 1 .. n PROVE Occurs(t[i], s) /\ t[i] # s[k]
  <2>1. i \in 1 .. Len(s) /\ i + 1 \in 1 .. Len(s)
    BY <1>1
  <2> QED BY <2>1, <1>1 DEF Occurs
<1>8. \A p \in Page : (\E i \in 1 .. n : t[i] = p) <=> Occurs(p, s) /\ p # s[k]
  BY <1>6, <1>7
<1>9. \A i \in 1 .. n : t[i] = IF i < k THEN s[i] ELSE s[i + 1]
  OBVIOUS
<1> HIDE DEF t
<1> QED BY <1>3, <1>5, <1>8, <1>9 DEF Occurs

LEMMA ChainWithout ==
  ASSUME NEW f, NEW l, NEW next \in Link, NEW prev \in Link, NEW s \in Seq(Page),
         Chain(f, l, next, prev, s),
         NEW k \in 1 .. Len(s), NEW before, NEW after,
         before = prev[s[k]], after = next[s[k]]
  PROVE  Chain(IF before = NULL THEN after ELSE f, IF after = NULL THEN before ELSE l,
               set_next(next, before, after), set_prev(prev, after, before),
               Q!Without(s, s[k]))
<1> DEFINE t == Q!Without(s, s[k])
           next2 == set_next(next, before, after)
           prev2 == set_prev(prev, after, before)
           n == Len(s)
<1>0. n \in Nat /\ k \in Nat /\ 1 <= k /\ k <= n
  BY LenProperties
<1>1. n \in Nat /\ k \in Nat /\ 1 <= k /\ k <= n /\ \A i \in 1 .. n : s[i] \in Page /\ s[i] # NULL
  BY LenProperties, ElementOfSeq, PageAssumption
<1>2. \A i, j \in 1 .. n : s[i] = s[j] => i = j
  BY DEF Chain
<1>3. /\ Len(t) = n - 1
      /\ \A i \in 1 .. n - 1 : t[i] = IF i < k THEN s[i] ELSE s[i + 1]
  BY <1>2, WithoutProperties
<1>4. /\ before = IF k = 1 THEN NULL ELSE s[k - 1]
      /\ after = IF k = n THEN NULL ELSE s[k + 1]
  BY DEF Chain
<1>5. (before = NULL <=> k = 1) /\ (after = NULL <=> k = n)
  BY <1>1, <1>4
<1>6. ASSUME NEW i \in 1 .. n
      PROVE  /\ prev2[s[i]] = IF i = k + 1 THEN before ELSE prev[s[i]]
             /\ next2[s[i]] = IF i = k - 1 THEN after ELSE next[s[i]]
  <2>1. s[i] \in Page /\ (i = k + 1 <=> s[i] = after) /\ (i = k - 1 <=> s[i] = before)
    BY <1>1, <1>2, <1>4
  <2>2. prev2[s[i]] = IF s[i] = after THEN before ELSE prev[s[i]]
    BY <2>1, PageAssumption DEF set_prev, Link
  <2>3. next2[s[i]] = IF s[i] = before THEN after ELSE next[s[i]]
    BY <2>1, PageAssumption DEF set_next, Link
  <2> QED BY <2>1, <2>2, <2>3
<1>7. \A i \in 1 .. n : /\ prev[s[i]] = IF i = 1 THEN NULL ELSE s[i - 1]
                        /\ next[s[i]] = IF i = n THEN NULL ELSE s[i + 1]
  BY DEF Chain
<1>8. ASSUME NEW i \in 1 .. n - 1
      PROVE  /\ prev2[t[i]] = IF i = 1 THEN NULL ELSE t[i - 1]
             /\ next2[t[i]] = IF i = n - 1 THEN NULL ELSE t[i + 1]
  <2>1. CASE i < k
    <3>1. i \in 1 .. n /\ t[i] = s[i] /\ (i # 1 => t[i - 1] = s[i - 1])
      <4>1. i \in 1 .. n /\ (i # 1 => i - 1 \in 1 .. n - 1 /\ i - 1 < k)
        BY <1>1, <2>1
      <4> QED BY <1>3, <2>1, <4>1
    <3>2. prev2[t[i]] = IF i = 1 THEN NULL ELSE t[i - 1]
      BY <1>1, <1>6, <1>7, <2>1, <3>1
    <3>3. CASE i = k - 1
      <4>1. next2[t[i]] = IF k = n THEN NULL ELSE s[k + 1]
        BY <1>4, <1>6, <3>1, <3>3
      <4>2. k # n => t[i + 1] = s[k + 1]
        <5>1. k # n => i + 1 \in 1 .. n - 1 /\ ~(i + 1 < k) /\ i + 1 + 1 = k + 1
          BY <1>1, <3>3
        <5> QED BY <1>3, <5>1
      <4> QED BY <1>1, <3>2, <3>3, <4>1, <4>2
    <3>4. CASE i < k - 1
      <4>1. next2[t[i]] = s[i + 1] /\ i + 1 \in 1 .. n - 1 /\ i + 1 < k
        BY <1>1, <1>6, <1>7, <3>1, <3>4
      <4>2. t[i + 1] = s[i + 1] /\ i # n - 1
        BY <1>1, <1>3, <4>1
      <4> QED BY <3>2, <4>1, <4>2
    <3> QED BY <1>1, <2>1, <3>3, <3>4
  <2>2. CASE i >= k
    <3>1. i + 1 \in 1 .. n /\ t[i] = s[i + 1]
      BY <1>1, <1>3, <2>2
    <3>2. next2[t[i]] = IF i + 1 = n THEN NULL ELSE s[i + 2]
      BY <1>1, <1>6, <1>7, <2>2, <3>1
    <3>3. i # n - 1 => t[i + 1] = s[i + 2]
      BY <1>1, <1>3, <2>2
    <3>4. CASE i = k
      <4>1. prev2[t[i]] = IF k = 1 THEN NULL ELSE s[k - 1]
        BY <1>4, <1>6, <3>1, <3>4
      <4>2. i # 1 => t[i - 1] = s[k - 1]
        BY <1>1, <1>3, <3>4
      <4> QED BY <1>1, <3>2, <3>3, <3>4, <4>1, <4>2
    <3>5. CASE i > k
      <4>1. prev2[t[i]] = s[i] /\ i - 1 \in 1 .. n - 1 /\ i # 1
        <5>1. i + 1 # 1 /\ (i + 1) - 1 = i /\ i + 1 # k + 1 /\ i - 1 \in 1 .. n - 1 /\ i # 1
          BY <1>1, <3>5
        <5> QED BY <1>6, <1>7, <3>1, <5>1
      <4>2. t[i - 1] = s[i]
        BY <1>1, <1>3, <3>5, <4>1
      <4> QED BY <1>1, <3>2, <3>3, <4>1, <4>2
    <3> QED BY <1>1, <2>2, <3>4, <3>5
  <2> QED BY <1>1, <2>1, <2>2
<1>9. \A i, j \in 1 .. n - 1 : t[i] = t[j] => i = j
  <2>1. \A i \in 1 .. n - 1 : i \in 1 .. n /\ i + 1 \in 1 .. n
    BY <1>1
  <2> QED BY <1>1, <1>2, <1>3, <2>1
<1>10. (IF before = NULL THEN after ELSE f) = IF n - 1 = 0 THEN NULL ELSE t[1]
  <2>1. f = s[1]
    BY <1>1 DEF Chain
  <2>2. CASE n = 1
    BY <1>1, <1>4, <2>2
  <2>3. CASE n > 1
    <3>1. 1 \in 1 .. n - 1
      BY <1>0, <2>3
    <3>2. t[1] = IF 1 < k THEN s[1] ELSE s[1 + 1]
      BY <1>3, <3>1
    <3> QED BY <1>0, <1>4, <1>5, <2>1, <2>3, <3>2
  <2> HIDE DEF n
  <2>4. n = 1 \/ n > 1
    BY <1>0
  <2> QED BY <2>2, <2>3, <2>4
<1>11. (IF after = NULL THEN before ELSE l) = IF n - 1 = 0 THEN NULL ELSE t[n - 1]
  <2>1. l = s[n]
    BY <1>1 DEF Chain
  <2>2. CASE n = 1
    BY <1>1, <1>4, <2>2
  <2>3. CASE n > 1
    <3>1. n - 1 \in 1 .. n - 1 /\ (n - 1) + 1 = n
      BY <1>0, <2>3
    <3>2. t[n - 1] = IF n - 1 < k THEN s[n - 1] ELSE s[n]
      BY <1>3, <3>1
    <3> QED BY <1>0, <1>4, <1>5, <2>1, <2>3, <3>2
  <2> HIDE DEF n
  <2>4. n = 1 \/ n > 1
    BY <1>0
  <2> QED BY <2>2, <2>3, <2>4
<1> HIDE DEF t, next2, prev2
<1>12. Chain(IF before = NULL THEN after ELSE f, IF after = NULL THEN before ELSE l, next2, prev2, t)
  BY <1>3, <1>8, <1>9, <1>10, <1>11 DEF Chain
<1> QED BY <1>12 DEF t, next2, prev2

-----------------------------------------------------------------------------
(* The heap                                                                 *)

Heap == [first : [Queue -> Page \cup {NULL}], last : [Queue -> Page \cup {NULL}],
         next : Link, prev : Link, in_full : [Page -> BOOLEAN],
         direct : [Entry -> Page \cup {EMPTY}], page_count : Int]

\* at[p] is the queue of the page p, 0 for none, and ord[q] is the queue q
Linked(g, at, ord) ==
  /\ \A q \in Queue : Chain(g.first[q], g.last[q], g.next, g.prev, ord[q])
  /\ \A q \in Queue, p \in Page : at[p] = q <=> Occurs(p, ord[q])

\* what pages_free_direct should hold for a queue
Front(g, q) == IF g.first[q] = NULL THEN EMPTY ELSE g.first[q]

Entries(q) == Start(q) .. Words[q]

DirectOK(g) == \A q \in Class : Small(q) => \A e \in Entries(q) : g.direct[e] = Front(g, q)

\* g2 differs from g in pages_free_direct only
SameLinks(g, g2) ==
  /\ g2.first = g.first /\ g2.last = g.last /\ g2.next = g.next /\ g2.prev = g.prev
  /\ g2.in_full = g.in_full /\ g2.page_count = g.page_count

LEMMA QueueFacts ==
  /\ ClassCount \in Nat /\ Class = 1 .. ClassCount /\ Full = ClassCount + 1 /\ Full \notin Class
  /\ Queue = 1 .. ClassCount + 1 /\ 0 \notin Queue
BY ClassAssumption DEF Class, Full, Queue

\* The entries of two queues are different, and each entry of a queue exists.
LEMMA EntriesDisjoint ==
  ASSUME NEW q \in Class, Small(q)
  PROVE  /\ Words[q] \in Entries(q) /\ Entries(q) \subseteq Entry
         /\ \A r \in Class : r # q => Entries(q) \cap Entries(r) = {}
<1>1. \A c \in Class : Words[c] \in Nat /\ Words[c] # 0 /\ c \in Nat /\ c >= 1
  BY WordsAssumption, QueueFacts
<1>2. \A c \in Class : c > 1 => c - 1 \in Class /\ Words[c] > 1
  BY <1>1, WordsAssumption, QueueFacts
<1>3. \A c \in Class : Start(c) = IF c = 1 THEN 0 ELSE 1 + Words[c - 1]
  BY <1>1, <1>2, WordsAssumption DEF Start
<1>4. \A c, d \in Class : c < d => Words[c] < Start(d)
  <2> SUFFICES ASSUME NEW c \in Class, NEW d \in Class, c < d PROVE Words[c] < Start(d)
    OBVIOUS
  <2>1. d > 1 /\ d - 1 \in Class /\ c <= d - 1
    BY <1>1, <1>2
  <2>2. Words[c] <= Words[d - 1]
    BY <1>1, <2>1, WordsAssumption
  <2> QED BY <1>1, <1>3, <2>1, <2>2
<1>5. \A c \in Class : Start(c) \in Nat /\ Start(c) <= Words[c]
  BY <1>1, <1>2, <1>3, WordsAssumption
<1>6. Words[q] \in Entries(q) /\ Entries(q) \subseteq Entry
  BY <1>1, <1>5, ClassAssumption DEF Entries, Entry, Small
<1>7. ASSUME NEW r \in Class, r # q PROVE Entries(q) \cap Entries(r) = {}
  BY <1>1, <1>4, <1>5, <1>7 DEF Entries
<1> QED BY <1>6, <1>7

\* heap_queue_first_update writes pages_free_direct only, and only for its queue.
LEMMA FirstUpdateProperties ==
  ASSUME NEW g \in Heap, NEW q \in Queue
  PROVE  /\ FirstUpdate(g, q) \in Heap /\ SameLinks(g, FirstUpdate(g, q))
         /\ (\A r \in Class : Small(r) => \A e \in Entries(r) :
               g.direct[e] = IF r = q THEN g.direct[Words[q]] ELSE Front(g, r))
            => DirectOK(FirstUpdate(g, q))
<1> DEFINE page == Front(g, q)
           u == FirstUpdate(g, q)
<1>1. page \in Page \cup {EMPTY}
  BY DEF Heap, Front
<1>2. CASE ~Small(q) \/ g.direct[Words[q]] = page
  <2>1. u = g
    BY <1>2 DEF FirstUpdate, Front
  <2>2. ASSUME \A r \in Class : Small(r) => \A e \in Entries(r) :
                  g.direct[e] = IF r = q THEN g.direct[Words[q]] ELSE Front(g, r)
        PROVE  DirectOK(g)
    BY <1>2, <2>2 DEF DirectOK
  <2> QED BY <2>1, <2>2 DEF SameLinks
<1>3. CASE Small(q) /\ g.direct[Words[q]] # page
  <2>1. u = [g EXCEPT !.direct = WriteEntries(g.direct, q, page)]
    BY <1>3 DEF FirstUpdate, Front
  <2>2. WriteEntries(g.direct, q, page) \in [Entry -> Page \cup {EMPTY}]
    BY <1>1 DEF WriteEntries, Heap
  <2>3. u \in Heap /\ SameLinks(g, u) /\ u.direct = WriteEntries(g.direct, q, page)
    BY <2>1, <2>2 DEF Heap, SameLinks
  <2>4. ASSUME \A r \in Class : Small(r) => \A e \in Entries(r) :
                  g.direct[e] = IF r = q THEN g.direct[Words[q]] ELSE Front(g, r),
               NEW r \in Class, Small(r), NEW e \in Entries(r)
        PROVE  u.direct[e] = Front(u, r)
    <3>1. Front(u, r) = Front(g, r)
      BY <2>3 DEF Front, SameLinks
    <3>2. q \in Class /\ e \in Entry
      BY <1>3, <2>4, EntriesDisjoint DEF Small
    <3>3. u.direct[e] = IF e \in Entries(q) THEN page ELSE g.direct[e]
      BY <2>3, <3>2 DEF WriteEntries, Entries
    <3>4. CASE r = q
      BY <2>4, <3>1, <3>3, <3>4
    <3>5. CASE r # q
      <4>1. e \notin Entries(q)
        BY <1>3, <2>4, <3>2, <3>5, EntriesDisjoint
      <4> QED BY <2>4, <3>1, <3>3, <3>5, <4>1
    <3> QED BY <3>4, <3>5
  <2> QED BY <2>3, <2>4 DEF DirectOK
<1> QED BY <1>2, <1>3

\* If only the first page of q has changed, the update makes the entries right.
LEMMA FirstUpdateRight ==
  ASSUME NEW g \in Heap, DirectOK(g), NEW g2 \in Heap, NEW q \in Queue,
         g2.direct = g.direct, \A r \in Queue : r # q => g2.first[r] = g.first[r]
  PROVE  /\ DirectOK(FirstUpdate(g2, q))
         /\ g2.first[q] = g.first[q] => DirectOK(g2)
<1>1. Class \subseteq Queue
  BY DEF Queue
<1>2. ASSUME NEW r \in Class, Small(r), NEW e \in Entries(r)
      PROVE  g2.direct[e] = IF r = q THEN g2.direct[Words[q]] ELSE Front(g2, r)
  <2>1. CASE r = q
    <3>1. Words[q] \in Entries(q)
      BY <1>2, <2>1, EntriesDisjoint
    <3>2. g.direct[e] = Front(g, q) /\ g.direct[Words[q]] = Front(g, q)
      BY <1>2, <2>1, <3>1 DEF DirectOK
    <3> QED BY <2>1, <3>2
  <2>2. CASE r # q
    BY <1>1, <1>2, <2>2 DEF DirectOK, Front
  <2> QED BY <2>1, <2>2
<1>3. g2.first[q] = g.first[q] => DirectOK(g2)
  BY <1>1 DEF DirectOK, Front
<1> QED BY <1>2, <1>3, FirstUpdateProperties

At == [Page -> Queue \cup {0}]
Order == [Queue -> Seq(Page)]

\* A change of the links of one queue leaves the others as they are.
LEMMA OtherQueues ==
  ASSUME NEW g \in Heap, NEW at \in At, NEW ord \in Order, Linked(g, at, ord),
         NEW g2 \in Heap, NEW at2 \in At, NEW q \in Queue, NEW s \in Seq(Page), NEW p \in Page,
         Chain(g2.first[q], g2.last[q], g2.next, g2.prev, s),
         \A x \in Page : at2[x] = q <=> Occurs(x, s),
         \A o \in Queue : o # q => g2.first[o] = g.first[o] /\ g2.last[o] = g.last[o],
         \A x \in Page : /\ at[x] # q /\ x # p => g2.next[x] = g.next[x] /\ g2.prev[x] = g.prev[x]
                         /\ x # p => at2[x] = at[x],
         at[p] \in {q, 0}, at2[p] \in {q, 0}
  PROVE  Linked(g2, at2, [ord EXCEPT ![q] = s])
<1> DEFINE ord2 == [ord EXCEPT ![q] = s]
<1>1. ord2 \in Order /\ ord2[q] = s /\ \A o \in Queue : o # q => ord2[o] = ord[o]
  BY DEF Order
<1>2. 0 \notin Queue
  BY QueueFacts
<1>3. ASSUME NEW o \in Queue, o # q
      PROVE  /\ Chain(g2.first[o], g2.last[o], g2.next, g2.prev, ord2[o])
             /\ \A x \in Page : at2[x] = o <=> Occurs(x, ord2[o])
  <2>1. \A k \in 1 .. Len(ord[o]) : ord[o][k] \in Page
    BY ElementOfSeq DEF Order
  <2>2. \A k \in 1 .. Len(ord[o]) : at[ord[o][k]] = o
    BY <2>1 DEF Linked, Occurs
  <2>3. \A k \in 1 .. Len(ord[o]) : at[ord[o][k]] # q /\ ord[o][k] # p
    BY <1>2, <1>3, <2>2
  <2>4. Chain(g2.first[o], g2.last[o], g.next, g.prev, ord[o])
    BY <1>3 DEF Linked
  <2>5. Chain(g2.first[o], g2.last[o], g2.next, g2.prev, ord[o])
    BY <2>1, <2>3, <2>4, ChainFrame DEF Order
  <2>6. \A x \in Page : at2[x] = o <=> at[x] = o
    BY <1>2, <1>3
  <2> QED BY <1>1, <1>3, <2>5, <2>6 DEF Linked
<1> HIDE DEF ord2
<1>4. \A o \in Queue : Chain(g2.first[o], g2.last[o], g2.next, g2.prev, ord2[o])
  BY <1>1, <1>3
<1>5. \A o \in Queue, x \in Page : at2[x] = o <=> Occurs(x, ord2[o])
  BY <1>1, <1>3
<1>6. Linked(g2, at2, ord2)
  BY <1>4, <1>5 DEF Linked
<1> QED BY <1>6 DEF ord2

LEMMA SameLinksLinked ==
  ASSUME NEW g, NEW g2, NEW at, NEW ord, SameLinks(g, g2), Linked(g, at, ord)
  PROVE  Linked(g2, at, ord)
BY DEF SameLinks, Linked

\* page_queue_remove
LEMMA RemoveProperties ==
  ASSUME NEW g \in Heap, DirectOK(g), NEW at \in At, NEW ord \in Order, Linked(g, at, ord),
         NEW q \in Queue, NEW p \in Page, at[p] = q,
         NEW g2, g2 = Remove(g, q, p)
  PROVE  /\ g2 \in Heap /\ DirectOK(g2)
         /\ [ord EXCEPT ![q] = Q!Without(ord[q], p)] \in Order
         /\ Linked(g2, [at EXCEPT ![p] = 0], [ord EXCEPT ![q] = Q!Without(ord[q], p)])
         /\ g2.in_full = g.in_full /\ g2.page_count = g.page_count - 1
         /\ g2.first[q] = IF g.prev[p] = NULL THEN g.next[p] ELSE g.first[q]
<1> DEFINE u == Unlink(g, q, p)
           before == g.prev[p]
           after == g.next[p]
           at2 == [at EXCEPT ![p] = 0]
           s == ord[q]
           t == Q!Without(s, p)
<1>1. before \in Page \cup {NULL} /\ after \in Page \cup {NULL}
  BY DEF Heap, Link
<1>2. /\ u \in Heap
      /\ u.next = set_next(g.next, before, after) /\ u.prev = set_prev(g.prev, after, before)
      /\ u.first = [g.first EXCEPT ![q] = IF before = NULL THEN after ELSE @]
      /\ u.last = [g.last EXCEPT ![q] = IF after = NULL THEN before ELSE @]
      /\ u.in_full = g.in_full /\ u.direct = g.direct /\ u.page_count = g.page_count - 1
  <2>1. /\ set_next(g.next, before, after) \in Link /\ set_prev(g.prev, after, before) \in Link
    BY <1>1 DEF Heap, Link, set_next, set_prev
  <2> DEFINE nx == set_next(g.next, before, after)
             pv == set_prev(g.prev, after, before)
             fs == [g.first EXCEPT ![q] = IF before = NULL THEN after ELSE @]
             ls == [g.last EXCEPT ![q] = IF after = NULL THEN before ELSE @]
  <2>2. u = [g EXCEPT !.next = nx, !.prev = pv, !.last = ls, !.first = fs,
                      !.page_count = g.page_count - 1]
    BY DEF Unlink, get_prev, get_next, Heap
  <2>3. nx \in Link /\ pv \in Link
    BY <2>1
  <2>7. fs \in [Queue -> Page \cup {NULL}] /\ ls \in [Queue -> Page \cup {NULL}]
    BY <1>1 DEF Heap
  <2>4. g.page_count - 1 \in Int
    BY DEF Heap
  <2> HIDE DEF nx, pv, fs, ls, u
  <2>5. u \in Heap
    BY <2>7, <2>2, <2>3, <2>4 DEF Heap
  <2>6. /\ u.next = nx /\ u.prev = pv /\ u.last = ls /\ u.first = fs
        /\ u.in_full = g.in_full /\ u.direct = g.direct /\ u.page_count = g.page_count - 1
    BY <2>2 DEF Heap
  <2> QED BY <2>5, <2>6 DEF nx, pv, fs, ls
<1>3. PICK k \in 1 .. Len(s) : s[k] = p
  BY DEF Linked, Occurs
<1>4. s \in Seq(Page) /\ Chain(g.first[q], g.last[q], g.next, g.prev, s)
  BY DEF Linked, Order
<1>5. g.next \in Link /\ g.prev \in Link
  BY DEF Heap
<1>6. /\ u.first[q] = (IF before = NULL THEN after ELSE g.first[q])
      /\ u.last[q] = (IF after = NULL THEN before ELSE g.last[q])
      /\ \A o \in Queue : o # q => u.first[o] = g.first[o] /\ u.last[o] = g.last[o]
  BY <1>2 DEF Heap
<1>7. Chain(u.first[q], u.last[q], u.next, u.prev, t)
  <2>1. Chain(IF before = NULL THEN after ELSE g.first[q],
              IF after = NULL THEN before ELSE g.last[q],
              set_next(g.next, before, after), set_prev(g.prev, after, before), t)
    <3>1. before = g.prev[s[k]] /\ after = g.next[s[k]]
      BY <1>3
    <3> HIDE DEF before, after, s
    <3>2. Chain(IF before = NULL THEN after ELSE g.first[q],
                IF after = NULL THEN before ELSE g.last[q],
                set_next(g.next, before, after), set_prev(g.prev, after, before),
                Q!Without(s, s[k]))
      BY <1>4, <1>5, <3>1, ChainWithout
    <3> QED BY <1>3, <3>2
  <2> HIDE DEF t, u
  <2> QED BY <1>2, <1>6, <2>1
<1>8. t \in Seq(Page) /\ \A x \in Page : Occurs(x, t) <=> Occurs(x, s) /\ x # p
  <2>1. \A i, j \in 1 .. Len(s) : s[i] = s[j] => i = j
    BY <1>4 DEF Chain
  <2> QED BY <1>3, <1>4, <2>1, WithoutProperties
<1>9. at2 \in At /\ at2[p] = 0 /\ \A x \in Page : x # p => at2[x] = at[x]
  BY DEF At
<1>10. 0 # q
  BY QueueFacts
<1>11. \A x \in Page : at2[x] = q <=> Occurs(x, t)
  BY <1>8, <1>9, <1>10 DEF Linked
<1>12. \A x \in {before, after} : x # NULL => x \in Page /\ at[x] = q
  <2>1. \A i \in 1 .. Len(s) : s[i] \in Page /\ at[s[i]] = q
    BY <1>4, ElementOfSeq DEF Linked, Occurs
  <2>2. /\ before = IF k = 1 THEN NULL ELSE s[k - 1]
        /\ after = IF k = Len(s) THEN NULL ELSE s[k + 1]
    BY <1>3, <1>4 DEF Chain
  <2>3. Len(s) \in Nat
    BY <1>4, LenProperties
  <2>4. (k # 1 => k - 1 \in 1 .. Len(s)) /\ (k # Len(s) => k + 1 \in 1 .. Len(s))
    BY <2>3
  <2> QED BY <2>1, <2>2, <2>4
<1>13. \A x \in Page : at[x] # q => u.next[x] = g.next[x] /\ u.prev[x] = g.prev[x]
  BY <1>2, <1>5, <1>12 DEF set_next, set_prev, Link
<1> HIDE DEF t, at2, u
<1>14. Linked(u, at2, [ord EXCEPT ![q] = t])
  <2>1. at[p] \in {q, 0} /\ at2[p] \in {q, 0}
    BY <1>9
  <2>2. \A x \in Page : /\ at[x] # q /\ x # p => u.next[x] = g.next[x] /\ u.prev[x] = g.prev[x]
                        /\ x # p => at2[x] = at[x]
    BY <1>9, <1>13
  <2>3. u \in Heap /\ at2 \in At /\ t \in Seq(Page)
    BY <1>2, <1>8, <1>9
  <2>4. \A o \in Queue : o # q => u.first[o] = g.first[o] /\ u.last[o] = g.last[o]
    BY <1>6
  <2> QED BY <1>7, <1>11, <2>1, <2>2, <2>3, <2>4, OtherQueues
<1>15. [ord EXCEPT ![q] = t] \in Order
  BY <1>8 DEF Order
<1>16. g2 = IF before = NULL THEN FirstUpdate(u, q) ELSE u
  BY DEF Remove, u
<1>19. u \in Heap /\ u.direct = g.direct /\ \A r \in Queue : r # q => u.first[r] = g.first[r]
  BY <1>2, <1>6
<1>17. CASE before = NULL
  <2>1. g2 = FirstUpdate(u, q)
    BY <1>16, <1>17
  <2>2. g2 \in Heap /\ SameLinks(u, g2)
    BY <1>2, <2>1, FirstUpdateProperties
  <2>3. DirectOK(g2)
    BY <1>19, <2>1, FirstUpdateRight
  <2>4. Linked(g2, at2, [ord EXCEPT ![q] = t])
    BY <1>14, <2>2, SameLinksLinked
  <2> QED BY <1>2, <1>6, <1>15, <2>2, <2>3, <2>4 DEF SameLinks, t, at2
<1>18. CASE before # NULL
  <2>1. g2 = u /\ u.first[q] = g.first[q]
    BY <1>6, <1>16, <1>18
  <2>2. DirectOK(u)
    BY <1>19, <2>1, FirstUpdateRight
  <2> QED BY <1>2, <1>6, <1>14, <1>15, <2>1, <2>2 DEF t, at2
<1> QED BY <1>17, <1>18

\* page_queue_push
LEMMA PushProperties ==
  ASSUME NEW g \in Heap, DirectOK(g), NEW at \in At, NEW ord \in Order, Linked(g, at, ord),
         NEW q \in Queue, NEW p \in Page, at[p] = 0,
         NEW g2, g2 = Push(g, q, p)
  PROVE  /\ g2 \in Heap /\ DirectOK(g2)
         /\ [ord EXCEPT ![q] = <<p>> \o ord[q]] \in Order
         /\ Linked(g2, [at EXCEPT ![p] = q], [ord EXCEPT ![q] = <<p>> \o ord[q]])
         /\ g2.in_full = [g.in_full EXCEPT ![p] = (q = Full)]
         /\ g2.page_count = g.page_count + 1
         /\ \A o \in Queue : o # q => g2.first[o] = g.first[o]
<1> DEFINE old == g.first[q]
           nx == [g.next EXCEPT ![p] = old]
           pv == set_prev(set_prev(g.prev, p, NULL), old, p)
           fs == [g.first EXCEPT ![q] = p]
           ls == [g.last EXCEPT ![q] = IF old = NULL THEN p ELSE @]
           fl == [g.in_full EXCEPT ![p] = (q = Full)]
           u == [g EXCEPT !.in_full = fl, !.first = fs, !.last = ls, !.prev = pv, !.next = nx,
                          !.page_count = g.page_count + 1]
           at2 == [at EXCEPT ![p] = q]
           t == <<p>> \o ord[q]
<1>1. old \in Page \cup {NULL} /\ ord[q] \in Seq(Page) /\ g.next \in Link /\ g.prev \in Link
  BY DEF Heap, Order
<1>2. g2 = FirstUpdate(u, q)
  BY DEF Push, Heap
<1>3. ~Occurs(p, ord[q]) /\ Chain(g.first[q], g.last[q], g.next, g.prev, ord[q])
  BY QueueFacts DEF Linked
<1>4. Chain(p, (IF old = NULL THEN p ELSE g.last[q]), nx, pv, t)
  BY <1>1, <1>3, ChainPush
<1>5. /\ nx \in Link /\ pv \in Link
      /\ fs \in [Queue -> Page \cup {NULL}] /\ ls \in [Queue -> Page \cup {NULL}]
  BY <1>1 DEF Heap, Link, set_next, set_prev
<1>6. fl \in [Page -> BOOLEAN] /\ g.page_count + 1 \in Int
  BY DEF Heap
<1>7. /\ fs[q] = p /\ ls[q] = (IF old = NULL THEN p ELSE g.last[q])
      /\ \A o \in Queue : o # q => fs[o] = g.first[o] /\ ls[o] = g.last[o]
  BY DEF Heap
<1>8. /\ t \in Seq(Page) /\ \A x \in Page : Occurs(x, t) <=> Occurs(x, ord[q]) \/ x = p
  <2>1. /\ t \in Seq(Page) /\ Len(ord[q]) \in Nat /\ Len(t) = Len(ord[q]) + 1
        /\ \A i \in 1 .. Len(ord[q]) + 1 : t[i] = IF i = 1 THEN p ELSE ord[q][i - 1]
    <3>1. <<p>> \in Seq(Page) /\ Len(<<p>>) = 1 /\ <<p>>[1] = p
      OBVIOUS
    <3> QED BY <1>1, <3>1, ConcatProperties, LenProperties
  <2>2. \A i \in 1 .. Len(ord[q]) : i + 1 \in 1 .. Len(t) /\ t[i + 1] = ord[q][i]
    BY <2>1
  <2>3. 1 \in 1 .. Len(t) /\ t[1] = p
    BY <2>1
  <2> HIDE DEF t
  <2>4. ASSUME NEW i \in 1 .. Len(t), i # 1 PROVE Occurs(t[i], ord[q])
    <3>1. i - 1 \in 1 .. Len(ord[q]) /\ t[i] = ord[q][i - 1]
      BY <2>1, <2>4
    <3> QED BY <3>1 DEF Occurs
  <2>5. ASSUME NEW x \in Page PROVE Occurs(x, t) => Occurs(x, ord[q]) \/ x = p
    BY <2>3, <2>4 DEF Occurs
  <2>6. ASSUME NEW x \in Page, Occurs(x, ord[q]) \/ x = p PROVE Occurs(x, t)
    BY <2>2, <2>3, <2>6 DEF Occurs
  <2> QED BY <2>1, <2>5, <2>6
<1>9. at2 \in At /\ at2[p] = q /\ \A x \in Page : x # p => at2[x] = at[x]
  BY DEF At
<1>10. \A x \in Page : at2[x] = q <=> Occurs(x, t)
  BY <1>8, <1>9 DEF Linked
<1>11. \A x \in Page : at[x] # q /\ x # p => nx[x] = g.next[x] /\ pv[x] = g.prev[x]
  <2>1. old # NULL => at[old] = q
    <3>1. Len(ord[q]) \in Nat /\ \A i \in 1 .. Len(ord[q]) : ord[q][i] \in Page
      BY <1>1, LenProperties, ElementOfSeq
    <3>2. old # NULL => Len(ord[q]) \in 1 .. Len(ord[q]) /\ 1 \in 1 .. Len(ord[q])
      BY <1>3, <3>1 DEF Chain
    <3>3. old # NULL => Occurs(old, ord[q]) /\ old \in Page
      BY <1>3, <3>1, <3>2 DEF Chain, Occurs
    <3> QED BY <3>3 DEF Linked
  <2> QED BY <1>1, <2>1 DEF set_prev, set_next, Link
<1> HIDE DEF nx, pv, fs, ls, fl, t, at2
<1>12. u \in Heap
  BY <1>5, <1>6 DEF Heap
<1>13. /\ u.next = nx /\ u.prev = pv /\ u.first = fs /\ u.last = ls /\ u.in_full = fl
       /\ u.direct = g.direct /\ u.page_count = g.page_count + 1
  BY DEF Heap
<1> HIDE DEF u
<1>14. Linked(u, at2, [ord EXCEPT ![q] = t])
  <2>1. Chain(u.first[q], u.last[q], u.next, u.prev, t)
    BY <1>4, <1>7, <1>13
  <2>2. \A o \in Queue : o # q => u.first[o] = g.first[o] /\ u.last[o] = g.last[o]
    BY <1>7, <1>13
  <2>3. \A x \in Page : /\ at[x] # q /\ x # p => u.next[x] = g.next[x] /\ u.prev[x] = g.prev[x]
                        /\ x # p => at2[x] = at[x]
    BY <1>9, <1>11, <1>13
  <2>4. at[p] \in {q, 0} /\ at2[p] \in {q, 0} /\ at2 \in At /\ t \in Seq(Page)
    BY <1>8, <1>9
  <2> QED BY <1>10, <1>12, <2>1, <2>2, <2>3, <2>4, OtherQueues
<1>15. [ord EXCEPT ![q] = t] \in Order
  BY <1>8 DEF Order
<1>16. u \in Heap /\ u.direct = g.direct /\ \A r \in Queue : r # q => u.first[r] = g.first[r]
  BY <1>7, <1>12, <1>13
<1>17. DirectOK(g2)
  BY <1>2, <1>16, FirstUpdateRight
<1>18. g2 \in Heap /\ SameLinks(u, g2)
  BY <1>2, <1>12, FirstUpdateProperties
<1>19. Linked(g2, at2, [ord EXCEPT ![q] = t])
  BY <1>14, <1>18, SameLinksLinked
<1>20. /\ g2.in_full = fl /\ g2.page_count = g.page_count + 1
       /\ \A o \in Queue : o # q => g2.first[o] = g.first[o]
  BY <1>13, <1>16, <1>18 DEF SameLinks
<1> QED BY <1>15, <1>17, <1>18, <1>19, <1>20 DEF t, at2, fl

\* page_queue_push_back
LEMMA PushBackProperties ==
  ASSUME NEW g \in Heap, DirectOK(g), NEW at \in At, NEW ord \in Order, Linked(g, at, ord),
         NEW q \in Queue, NEW p \in Page, at[p] = 0,
         NEW g2, g2 = PushBack(g, q, p)
  PROVE  /\ g2 \in Heap /\ DirectOK(g2)
         /\ [ord EXCEPT ![q] = Append(ord[q], p)] \in Order
         /\ Linked(g2, [at EXCEPT ![p] = q], [ord EXCEPT ![q] = Append(ord[q], p)])
         /\ g2.in_full = [g.in_full EXCEPT ![p] = (q = Full)]
         /\ g2.page_count = g.page_count + 1
         /\ \A o \in Queue : o # q => g2.first[o] = g.first[o]
<1> DEFINE old == g.last[q]
           nx == set_next(set_next(g.next, p, NULL), old, p)
           pv == [g.prev EXCEPT ![p] = old]
           fs == [g.first EXCEPT ![q] = IF old = NULL THEN p ELSE @]
           ls == [g.last EXCEPT ![q] = p]
           fl == [g.in_full EXCEPT ![p] = (q = Full)]
           u == [g EXCEPT !.in_full = fl, !.first = fs, !.last = ls, !.prev = pv, !.next = nx,
                          !.page_count = g.page_count + 1]
           at2 == [at EXCEPT ![p] = q]
           t == Append(ord[q], p)
<1>1. old \in Page \cup {NULL} /\ ord[q] \in Seq(Page) /\ g.next \in Link /\ g.prev \in Link
  BY DEF Heap, Order
<1>2. g2 = IF old = NULL THEN FirstUpdate(u, q) ELSE u
  BY DEF PushBack, Heap
<1>3. ~Occurs(p, ord[q]) /\ Chain(g.first[q], g.last[q], g.next, g.prev, ord[q])
  BY QueueFacts DEF Linked
<1>4. Chain((IF old = NULL THEN p ELSE g.first[q]), p, nx, pv, t)
  BY <1>1, <1>3, ChainPushBack
<1>5. /\ nx \in Link /\ pv \in Link
      /\ fs \in [Queue -> Page \cup {NULL}] /\ ls \in [Queue -> Page \cup {NULL}]
  BY <1>1 DEF Heap, Link, set_next, set_prev
<1>6. fl \in [Page -> BOOLEAN] /\ g.page_count + 1 \in Int
  BY DEF Heap
<1>7. /\ fs[q] = (IF old = NULL THEN p ELSE g.first[q]) /\ ls[q] = p
      /\ \A o \in Queue : o # q => fs[o] = g.first[o] /\ ls[o] = g.last[o]
  BY DEF Heap
<1>8. /\ t \in Seq(Page) /\ \A x \in Page : Occurs(x, t) <=> Occurs(x, ord[q]) \/ x = p
  <2>1. /\ t \in Seq(Page) /\ Len(ord[q]) \in Nat /\ Len(t) = Len(ord[q]) + 1
        /\ \A i \in 1 .. Len(ord[q]) : t[i] = ord[q][i]
        /\ t[Len(ord[q]) + 1] = p
    BY <1>1, AppendProperties, LenProperties
  <2>2. \A i \in 1 .. Len(ord[q]) : i \in 1 .. Len(t) /\ t[i] = ord[q][i]
    BY <2>1
  <2>3. Len(t) \in 1 .. Len(t) /\ t[Len(t)] = p
    BY <2>1
  <2>4. \A i \in 1 .. Len(t) : i # Len(t) => i \in 1 .. Len(ord[q]) /\ t[i] = ord[q][i]
    BY <2>1
  <2> HIDE DEF t
  <2> QED BY <2>1, <2>2, <2>3, <2>4 DEF Occurs
<1>9. at2 \in At /\ at2[p] = q /\ \A x \in Page : x # p => at2[x] = at[x]
  BY DEF At
<1>10. \A x \in Page : at2[x] = q <=> Occurs(x, t)
  BY <1>8, <1>9 DEF Linked
<1>11. \A x \in Page : at[x] # q /\ x # p => nx[x] = g.next[x] /\ pv[x] = g.prev[x]
  <2>1. old # NULL => at[old] = q
    <3>1. Len(ord[q]) \in Nat /\ \A i \in 1 .. Len(ord[q]) : ord[q][i] \in Page
      BY <1>1, LenProperties, ElementOfSeq
    <3>2. old # NULL => Len(ord[q]) \in 1 .. Len(ord[q]) /\ 1 \in 1 .. Len(ord[q])
      BY <1>3, <3>1 DEF Chain
    <3>3. old # NULL => Occurs(old, ord[q]) /\ old \in Page
      BY <1>3, <3>1, <3>2 DEF Chain, Occurs
    <3> QED BY <3>3 DEF Linked
  <2> QED BY <1>1, <2>1 DEF set_prev, set_next, Link
<1> HIDE DEF nx, pv, fs, ls, fl, t, at2
<1>12. u \in Heap
  BY <1>5, <1>6 DEF Heap
<1>13. /\ u.next = nx /\ u.prev = pv /\ u.first = fs /\ u.last = ls /\ u.in_full = fl
       /\ u.direct = g.direct /\ u.page_count = g.page_count + 1
  BY DEF Heap
<1> HIDE DEF u
<1>14. Linked(u, at2, [ord EXCEPT ![q] = t])
  <2>1. Chain(u.first[q], u.last[q], u.next, u.prev, t)
    BY <1>4, <1>7, <1>13
  <2>2. \A o \in Queue : o # q => u.first[o] = g.first[o] /\ u.last[o] = g.last[o]
    BY <1>7, <1>13
  <2>3. \A x \in Page : /\ at[x] # q /\ x # p => u.next[x] = g.next[x] /\ u.prev[x] = g.prev[x]
                        /\ x # p => at2[x] = at[x]
    BY <1>9, <1>11, <1>13
  <2>4. at[p] \in {q, 0} /\ at2[p] \in {q, 0} /\ at2 \in At /\ t \in Seq(Page)
    BY <1>8, <1>9
  <2> QED BY <1>10, <1>12, <2>1, <2>2, <2>3, <2>4, OtherQueues
<1>15. [ord EXCEPT ![q] = t] \in Order
  BY <1>8 DEF Order
<1>16. u \in Heap /\ u.direct = g.direct /\ \A r \in Queue : r # q => u.first[r] = g.first[r]
  BY <1>7, <1>12, <1>13
<1>17. DirectOK(g2)
  <2>1. DirectOK(FirstUpdate(u, q)) /\ (u.first[q] = g.first[q] => DirectOK(u))
    BY <1>16, FirstUpdateRight
  <2>2. old # NULL => u.first[q] = g.first[q]
    BY <1>7, <1>13
  <2> QED BY <1>2, <2>1, <2>2
<1>18. g2 \in Heap /\ SameLinks(u, g2)
  <2>1. FirstUpdate(u, q) \in Heap /\ SameLinks(u, FirstUpdate(u, q)) /\ SameLinks(u, u)
    BY <1>12, FirstUpdateProperties DEF SameLinks
  <2> QED BY <1>2, <1>12, <2>1
<1>19. Linked(g2, at2, [ord EXCEPT ![q] = t])
  BY <1>14, <1>18, SameLinksLinked
<1>20. /\ g2.in_full = fl /\ g2.page_count = g.page_count + 1
       /\ \A o \in Queue : o # q => g2.first[o] = g.first[o]
  BY <1>13, <1>16, <1>18 DEF SameLinks
<1> QED BY <1>15, <1>17, <1>18, <1>19, <1>20 DEF t, at2, fl

-----------------------------------------------------------------------------
(* The inductive invariant                                                  *)

AtOf == [p \in Page |-> IF class[p] = 0 THEN 0 ELSE QueueOf(p)]

TypeOK ==
  /\ h \in Heap
  /\ class \in [Page -> 0 .. ClassCount]
  /\ pc \in {"idle", "walk", "abort"}
  /\ wq \in Class /\ cursor \in Page \cup {NULL} /\ first_try \in BOOLEAN

InUse == {p \in Page : class[p] # 0}

CountRight == h.page_count = Cardinality(InUse)

\* ord is the order of the queues
InOrder(ord) == ord \in Order /\ Linked(h, AtOf, ord)

QInv ==
  /\ TypeOK
  /\ DirectOK(h)
  /\ CountRight
  /\ WalkAtFront
  /\ \E ord \in Order : Linked(h, AtOf, ord)

\* the steps of QueueSpec, from the queues o to the queues o2
QueueStep(o, o2) ==
  \E p \in Page :
    \/ \E c \in Class :
         \/ /\ \A r \in Queue : ~Occurs(p, o[r])
            /\ o2 = [o EXCEPT ![c] = <<p>> \o @]
         \/ /\ Occurs(p, o[c])
            /\ o2 = [o EXCEPT ![c] = Q!Without(@, p), ![Full] = Append(@, p)]
         \/ /\ Occurs(p, o[Full])
            /\ o2 = [o EXCEPT ![Full] = Q!Without(@, p), ![c] = Append(@, p)]
    \/ \E q \in Queue :
         /\ Occurs(p, o[q])
         /\ q = Full \/ Len(o[q]) > 1
         /\ o2 = [o EXCEPT ![q] = Q!Without(@, p)]

LEMMA AtType ==
  ASSUME TypeOK
  PROVE  /\ AtOf \in At
         /\ \A p \in Page : AtOf[p] = 0 <=> class[p] = 0
         /\ \A p \in Page : class[p] # 0 => class[p] \in Class /\ AtOf[p] = QueueOf(p)
         /\ \A q \in Queue : Members(q) = {p \in Page : AtOf[p] = q}
<1>1. \A p \in Page : class[p] # 0 => class[p] \in Class /\ QueueOf(p) \in Queue /\ QueueOf(p) # 0
  BY QueueFacts DEF TypeOK, QueueOf
<1>2. \A p \in Page : AtOf[p] = IF class[p] = 0 THEN 0 ELSE QueueOf(p)
  BY DEF AtOf
<1>3. AtOf \in At
  BY <1>1 DEF AtOf, At
<1>4. \A p \in Page : AtOf[p] = 0 <=> class[p] = 0
  BY <1>1, <1>2
<1>5. \A q \in Queue : Members(q) = {p \in Page : AtOf[p] = q}
  BY <1>2, QueueFacts DEF Members
<1> QED BY <1>1, <1>2, <1>3, <1>4, <1>5

\* A page enters an order in a list of one queue, and changes it, as EnqueueFrom does.
LEMMA EnqueueProperties ==
  ASSUME NEW g \in Heap, DirectOK(g), NEW at \in At, NEW ord \in Order, Linked(g, at, ord),
         NEW from \in Queue, NEW to \in Queue, from # to, NEW p \in Page, at[p] = from,
         NEW g2, g2 = EnqueueFrom(g, to, from, p)
  PROVE  /\ g2 \in Heap /\ DirectOK(g2)
         /\ [ord EXCEPT ![from] = Q!Without(@, p), ![to] = Append(@, p)] \in Order
         /\ Linked(g2, [at EXCEPT ![p] = to],
                   [ord EXCEPT ![from] = Q!Without(@, p), ![to] = Append(@, p)])
         /\ g2.in_full = [g.in_full EXCEPT ![p] = (to = Full)]
         /\ g2.page_count = g.page_count
         /\ g2.first[from] = IF g.prev[p] = NULL THEN g.next[p] ELSE g.first[from]
<1>0. PICK m : m = Remove(g, from, p)
  OBVIOUS
<1> DEFINE ord2 == [ord EXCEPT ![from] = Q!Without(@, p), ![to] = Append(@, p)]
           at1 == [at EXCEPT ![p] = 0]
           ord1 == [ord EXCEPT ![from] = Q!Without(ord[from], p)]
<1>1. /\ m \in Heap /\ DirectOK(m) /\ ord1 \in Order /\ Linked(m, at1, ord1)
      /\ m.in_full = g.in_full /\ m.page_count = g.page_count - 1
      /\ m.first[from] = IF g.prev[p] = NULL THEN g.next[p] ELSE g.first[from]
  BY <1>0, RemoveProperties
<1>2. at1 \in At /\ at1[p] = 0 /\ [at1 EXCEPT ![p] = to] = [at EXCEPT ![p] = to]
  BY DEF At
<1>3. ord2 = [ord1 EXCEPT ![to] = Append(ord1[to], p)]
  BY DEF Order
<1>4. g2 = PushBack(m, to, p)
  BY <1>0 DEF EnqueueFrom
<1>5. g.page_count \in Int
  BY DEF Heap
<1> HIDE DEF at1, ord1, ord2
<1>6. /\ g2 \in Heap /\ DirectOK(g2)
      /\ [ord1 EXCEPT ![to] = Append(ord1[to], p)] \in Order
      /\ Linked(g2, [at1 EXCEPT ![p] = to], [ord1 EXCEPT ![to] = Append(ord1[to], p)])
      /\ g2.in_full = [m.in_full EXCEPT ![p] = (to = Full)]
      /\ g2.page_count = m.page_count + 1
      /\ \A o \in Queue : o # to => g2.first[o] = m.first[o]
  BY <1>1, <1>2, <1>4, PushBackProperties
<1>7. g2.page_count = g.page_count
  BY <1>1, <1>5, <1>6
<1>8. g2.first[from] = m.first[from] /\ g2.in_full = [g.in_full EXCEPT ![p] = (to = Full)]
  BY <1>1, <1>6
<1>9. ord2 \in Order /\ Linked(g2, [at EXCEPT ![p] = to], ord2)
  BY <1>2, <1>3, <1>6
<1> QED BY <1>1, <1>6, <1>7, <1>8, <1>9 DEF ord2

LEMMA NthIsOrder ==
  ASSUME TypeOK, NEW ord \in Order, Linked(h, AtOf, ord)
  PROVE  [q \in Queue |-> Nth(q)] = ord
<1> SUFFICES ASSUME NEW q \in Queue PROVE Nth(q) = ord[q]
  BY DEF Order
<1> DEFINE s == ord[q]
           N == Cardinality(Page)
           M == Cardinality(Members(q))
           Is(f, n) == f = [k \in 1 .. n |-> IF k = 1 THEN h.first[q] ELSE h.next[f[k - 1]]]
           f == CHOOSE f : Is(f, N)
<1>1. Nth(q) = [k \in 1 .. M |-> f[k]]
  BY DEF Nth
<1>2. s \in Seq(Page) /\ Len(s) \in Nat /\ DOMAIN s = 1 .. Len(s) /\ s = [k \in 1 .. Len(s) |-> s[k]]
  <2>1. s \in Seq(Page)
    BY DEF Order
  <2>2. Len(s) \in Nat /\ s \in [1 .. Len(s) -> Page]
    BY <2>1, LenProperties
  <2> QED BY <2>1, <2>2
<1>3. Chain(h.first[q], h.last[q], h.next, h.prev, s)
  BY DEF Linked
<1>4. \A k \in 1 .. Len(s) : s[k] \in Members(q)
  <2>1. \A k \in 1 .. Len(s) : s[k] \in Page /\ Occurs(s[k], s)
    BY <1>2, ElementOfSeq DEF Occurs
  <2> QED BY <2>1, AtType DEF Linked
<1>5. \A p \in Members(q) : \E k \in 1 .. Len(s) : s[k] = p
  BY AtType DEF Linked, Occurs
<1>6. IsFiniteSet(Members(q)) /\ M = Len(s)
  <2>1. s \in Bijection(1 .. Len(s), Members(q))
    <3>1. s \in [1 .. Len(s) -> Members(q)]
      BY <1>2, <1>4
    <3>2. \A i, j \in 1 .. Len(s) : s[i] = s[j] => i = j
      BY <1>3 DEF Chain
    <3> QED BY <1>5, <3>1, <3>2 DEF Bijection, Injection, Surjection, IsInjective
  <2>2. IsFiniteSet(1 .. Len(s)) /\ Cardinality(1 .. Len(s)) = Len(s)
    BY <1>2, FS_Interval
  <2> QED BY <2>1, <2>2, FS_Bijection DEF ExistsBijection
<1>7. N \in Nat /\ Len(s) <= N
  <2>1. Members(q) \in SUBSET Page
    BY DEF Members
  <2> QED BY <1>6, <2>1, PageAssumption, FS_Subset, FS_CardinalityType
<1>8. \A n \in Nat : \E e : Is(e, n)
  <2> DEFINE G == {n \in Nat : \E e : Is(e, n)}
  <2>1. 0 \in G
    <3>1. Is([k \in 1 .. 0 |-> 0], 0)
      OBVIOUS
    <3> QED BY <3>1
  <2>2. ASSUME NEW n \in Nat, n \in G PROVE n + 1 \in G
    <3>1. PICK e : Is(e, n)
      BY <2>2
    <3> DEFINE e2 == [k \in 1 .. n + 1 |-> IF k = 1 THEN h.first[q] ELSE h.next[e[k - 1]]]
    <3>2. \A k \in 1 .. n : e2[k] = e[k]
      BY <3>1
    <3>3. \A k \in 1 .. n + 1 : k # 1 => k - 1 \in 1 .. n
      OBVIOUS
    <3>4. \A k \in 1 .. n + 1 : k # 1 => e2[k - 1] = e[k - 1]
      BY <3>2, <3>3
    <3>5. Is(e2, n + 1)
      BY <3>4
    <3> HIDE DEF e2, Is
    <3> QED BY <3>5
  <2> HIDE DEF G
  <2>3. Nat \subseteq G
    BY <2>1, <2>2, SetInduction
  <2> QED BY <2>3 DEF G
<1>9. Is(f, N)
  BY <1>7, <1>8
<1>10. \A k \in 1 .. N : f[k] = IF k = 1 THEN h.first[q] ELSE h.next[f[k - 1]]
  BY <1>9
<1>11. \A k \in 1 .. Len(s) : f[k] = s[k]
  <2> DEFINE G == {n \in Nat : \A k \in 1 .. n : k <= Len(s) => f[k] = s[k]}
  <2> HIDE DEF f
  <2>1. 0 \in G
    OBVIOUS
  <2>2. ASSUME NEW n \in Nat, n \in G PROVE n + 1 \in G
    <3>1. SUFFICES ASSUME n + 1 <= Len(s) PROVE f[n + 1] = s[n + 1]
      BY <2>2
    <3>2. n + 1 \in 1 .. N /\ n + 1 \in 1 .. Len(s)
      BY <1>2, <1>7, <3>1
    <3>3. CASE n = 0
      BY <1>3, <1>10, <3>1, <3>2, <3>3, <1>2 DEF Chain
    <3>4. CASE n > 0
      <4>1. f[n + 1] = h.next[f[n]] /\ f[n] = s[n] /\ n \in 1 .. Len(s) /\ n # Len(s)
        BY <1>10, <1>2, <2>2, <3>1, <3>2, <3>4
      <4>2. h.next[s[n]] = s[n + 1]
        BY <1>3, <4>1 DEF Chain
      <4> QED BY <4>1, <4>2
    <3> QED BY <3>3, <3>4
  <2> HIDE DEF G
  <2>3. Nat \subseteq G
    BY <2>1, <2>2, SetInduction
  <2> QED BY <1>2, <2>3 DEF G
<1> HIDE DEF f, s
<1> QED BY <1>1, <1>2, <1>6, <1>11 DEF s

\* the first page of a queue is in it, and no page is before it
LEMMA FirstOfQueue ==
  ASSUME NEW g \in Heap, NEW at \in At, NEW ord \in Order, Linked(g, at, ord),
         NEW q \in Queue, g.first[q] # NULL
  PROVE  /\ g.first[q] \in Page /\ at[g.first[q]] = q /\ g.prev[g.first[q]] = NULL
         /\ Occurs(g.first[q], ord[q])
<1> DEFINE s == ord[q]
<1>1. s \in Seq(Page) /\ Chain(g.first[q], g.last[q], g.next, g.prev, s)
  BY DEF Order, Linked
<1>2. Len(s) \in Nat /\ Len(s) # 0 /\ g.first[q] = s[1]
  BY <1>1, LenProperties DEF Chain
<1>3. 1 \in 1 .. Len(s) /\ s[1] \in Page
  BY <1>1, <1>2, ElementOfSeq
<1>4. Occurs(s[1], s) /\ g.prev[s[1]] = NULL
  BY <1>1, <1>3 DEF Occurs, Chain
<1> QED BY <1>2, <1>3, <1>4 DEF Linked

Parts == TypeOK /\ DirectOK(h) /\ CountRight /\ WalkAtFront

\* what a step that may change the queues must show
Moves(ord) ==
  \E ord2 \in Order : Linked(h', AtOf', ord2) /\ (ord2 = ord \/ QueueStep(ord, ord2))

LEMMA UnchangedStep ==
  ASSUME Parts, NEW ord \in Order, Linked(h, AtOf, ord), UNCHANGED <<h, class>>
  PROVE  DirectOK(h') /\ CountRight' /\ Moves(ord) /\ h' \in Heap /\ class' = class
<1>1. AtOf' = AtOf /\ InUse' = InUse
  BY DEF AtOf, QueueOf, InUse
<1> QED BY <1>1 DEF Parts, CountRight, Moves, TypeOK

LEMMA WalkFullStep ==
  ASSUME Parts, NEW ord \in Order, Linked(h, AtOf, ord), WalkFull
  PROVE  Parts' /\ Moves(ord)
<1> DEFINE p == cursor
<1>1. /\ pc = "walk" /\ p # NULL /\ p = h.first[wq] /\ wq \in Class /\ wq \in Queue /\ Full \in Queue
      /\ wq # Full /\ h \in Heap
  BY QueueFacts DEF WalkFull, Parts, WalkAtFront, TypeOK, Queue
<1>2. AtOf \in At /\ \A x \in Page : AtOf[x] = 0 <=> class[x] = 0
  BY AtType DEF Parts
<1>3. p \in Page /\ AtOf[p] = wq /\ h.prev[p] = NULL /\ Occurs(p, ord[wq])
  BY <1>1, <1>2, FirstOfQueue
<1>4. class[p] # 0
  BY <1>1, <1>2, <1>3, QueueFacts
<1> DEFINE ord2 == [ord EXCEPT ![wq] = Q!Without(@, p), ![Full] = Append(@, p)]
<1>5. h' = EnqueueFrom(h, Full, wq, p)
  BY DEF WalkFull
<1>6. /\ h' \in Heap /\ DirectOK(h')
      /\ ord2 \in Order /\ Linked(h', [AtOf EXCEPT ![p] = Full], ord2)
      /\ h'.in_full = [h.in_full EXCEPT ![p] = (Full = Full)]
      /\ h'.page_count = h.page_count
      /\ h'.first[wq] = IF h.prev[p] = NULL THEN h.next[p] ELSE h.first[wq]
  <2>1. /\ DirectOK(h) /\ h \in Heap /\ AtOf \in At /\ wq \in Queue /\ Full \in Queue /\ wq # Full
        /\ p \in Page /\ AtOf[p] = wq
    BY <1>1, <1>2, <1>3 DEF Parts
  <2> QED BY <1>5, <2>1, EnqueueProperties
<1>7. AtOf' = [AtOf EXCEPT ![p] = Full]
  <2>1. class' = class /\ h'.in_full[p] = TRUE /\ \A x \in Page : x # p => h'.in_full[x] = h.in_full[x]
    BY <1>1, <1>3, <1>6 DEF WalkFull, Heap
  <2> QED BY <1>3, <1>4, <2>1 DEF AtOf, QueueOf
<1>8. cursor' = h'.first[wq'] /\ cursor' \in Page \cup {NULL}
  <2>1. cursor' = h.next[p] /\ wq' = wq
    BY DEF WalkFull, NextOf, get_next
  <2> QED BY <1>1, <1>3, <1>6, <2>1 DEF Heap, Link
<1>9. TypeOK'
  BY <1>6, <1>8 DEF WalkFull, Parts, TypeOK
<1>10. CountRight'
  BY <1>6 DEF CountRight, InUse, WalkFull, Parts
<1>11. WalkAtFront'
  BY <1>8 DEF WalkAtFront
<1>12. QueueStep(ord, ord2)
  BY <1>1, <1>3 DEF QueueStep
<1> HIDE DEF ord2
<1>13. Moves(ord)
  BY <1>6, <1>7, <1>12 DEF Moves
<1> QED BY <1>6, <1>9, <1>10, <1>11, <1>13 DEF Parts

LEMMA UnfullStep ==
  ASSUME Parts, NEW ord \in Order, Linked(h, AtOf, ord), NEW p \in Page, Unfull(p)
  PROVE  Parts' /\ Moves(ord)
<1>0. PICK c : c = class[p]
  OBVIOUS
<1>1. AtOf \in At /\ c \in Class /\ AtOf[p] = Full /\ c # 0
  BY <1>0, AtType DEF Parts, Unfull, QueueOf
<1>2. c \in Queue /\ Full \in Queue /\ c # Full /\ h \in Heap
  BY <1>1, QueueFacts DEF Queue, Parts, TypeOK
<1>3. Occurs(p, ord[Full])
  BY <1>1, <1>2 DEF Linked
<1> DEFINE ord2 == [ord EXCEPT ![Full] = Q!Without(@, p), ![c] = Append(@, p)]
<1>5. h' = EnqueueFrom(h, c, Full, p)
  BY <1>0 DEF Unfull
<1>6. /\ h' \in Heap /\ DirectOK(h')
      /\ ord2 \in Order /\ Linked(h', [AtOf EXCEPT ![p] = c], ord2)
      /\ h'.in_full = [h.in_full EXCEPT ![p] = (c = Full)]
      /\ h'.page_count = h.page_count
  <2>1. /\ DirectOK(h) /\ h \in Heap /\ AtOf \in At /\ c \in Queue /\ Full \in Queue /\ Full # c
        /\ p \in Page /\ AtOf[p] = Full
    BY <1>1, <1>2 DEF Parts
  <2> QED BY <1>5, <2>1, EnqueueProperties
<1>7. AtOf' = [AtOf EXCEPT ![p] = c]
  <2>1. class' = class /\ h'.in_full[p] = FALSE /\ \A x \in Page : x # p => h'.in_full[x] = h.in_full[x]
    BY <1>2, <1>6 DEF Unfull, Heap
  <2> QED BY <1>0, <1>1, <2>1 DEF AtOf, QueueOf
<1>9. TypeOK'
  BY <1>6 DEF Unfull, Parts, TypeOK
<1>10. CountRight'
  BY <1>6 DEF CountRight, InUse, Unfull, Parts
<1>11. WalkAtFront'
  BY DEF WalkAtFront, Unfull
<1>12. QueueStep(ord, ord2)
  BY <1>1, <1>3 DEF QueueStep
<1> HIDE DEF ord2
<1>13. Moves(ord)
  BY <1>6, <1>7, <1>12 DEF Moves
<1> QED BY <1>6, <1>9, <1>10, <1>11, <1>13 DEF Parts

LEMMA WalkFreshStep ==
  ASSUME Parts, NEW ord \in Order, Linked(h, AtOf, ord), NEW p \in Page, WalkFresh(p)
  PROVE  Parts' /\ Moves(ord)
<1>1. AtOf \in At /\ AtOf[p] = 0 /\ wq \in Class /\ wq \in Queue /\ wq # Full /\ wq # 0 /\ h \in Heap
  BY AtType, QueueFacts DEF Parts, WalkFresh, TypeOK, Queue
<1>2. \A r \in Queue : ~Occurs(p, ord[r])
  BY <1>1, QueueFacts DEF Linked
<1> DEFINE ord2 == [ord EXCEPT ![wq] = <<p>> \o ord[wq]]
<1>5. h' = Push(h, wq, p)
  BY DEF WalkFresh
<1>6. /\ h' \in Heap /\ DirectOK(h')
      /\ ord2 \in Order /\ Linked(h', [AtOf EXCEPT ![p] = wq], ord2)
      /\ h'.in_full = [h.in_full EXCEPT ![p] = (wq = Full)]
      /\ h'.page_count = h.page_count + 1
  <2>1. /\ DirectOK(h) /\ h \in Heap /\ AtOf \in At /\ wq \in Queue
        /\ p \in Page /\ AtOf[p] = 0
    BY <1>1 DEF Parts
  <2> QED BY <1>5, <2>1, PushProperties
<1>7. AtOf' = [AtOf EXCEPT ![p] = wq]
  <2>1. /\ class' = [class EXCEPT ![p] = wq] /\ h'.in_full[p] = FALSE
        /\ \A x \in Page : x # p => h'.in_full[x] = h.in_full[x]
    BY <1>1, <1>6 DEF WalkFresh, Heap
  <2>2. class'[p] = wq /\ \A x \in Page : x # p => class'[x] = class[x]
    BY <2>1 DEF Parts, TypeOK
  <2> QED BY <1>1, <2>1, <2>2 DEF AtOf, QueueOf
<1>9. TypeOK'
  BY <1>1, <1>6, QueueFacts DEF WalkFresh, Parts, TypeOK
<1>10. CountRight'
  <2>1. InUse' = InUse \cup {p} /\ p \notin InUse
    BY <1>1 DEF InUse, WalkFresh, Parts, TypeOK
  <2>2. IsFiniteSet(InUse)
    BY PageAssumption, FS_Subset DEF InUse
  <2>3. Cardinality(InUse \cup {p}) = Cardinality(InUse) + 1
    BY <2>1, <2>2, FS_AddElement
  <2> QED BY <1>6, <2>1, <2>3 DEF CountRight, Parts
<1>11. WalkAtFront'
  BY DEF WalkAtFront, WalkFresh
<1>12. QueueStep(ord, ord2)
  BY <1>1, <1>2 DEF QueueStep
<1> HIDE DEF ord2
<1>13. Moves(ord)
  BY <1>6, <1>7, <1>12 DEF Moves
<1> QED BY <1>6, <1>9, <1>10, <1>11, <1>13 DEF Parts

LEMMA RetireStep ==
  ASSUME Parts, NEW ord \in Order, Linked(h, AtOf, ord), NEW p \in Page, Retire(p)
  PROVE  Parts' /\ Moves(ord)
<1>0. PICK q, m : q = QueueOf(p) /\ m = Remove(h, q, p)
  OBVIOUS
<1>1. AtOf \in At /\ AtOf[p] = q /\ class[p] # 0 /\ h \in Heap /\ q \in Queue
  <2>1. AtOf[p] = q /\ class[p] # 0 /\ AtOf[p] # 0
    BY <1>0, AtType DEF Parts, Retire
  <2>2. AtOf \in At
    BY AtType DEF Parts
  <2> QED BY <2>1, <2>2 DEF At, Parts, TypeOK
<1>2. Occurs(p, ord[q])
  BY <1>1 DEF Linked
<1> DEFINE ord2 == [ord EXCEPT ![q] = Q!Without(ord[q], p)]
<1>3. /\ m \in Heap /\ DirectOK(m)
      /\ ord2 \in Order /\ Linked(m, [AtOf EXCEPT ![p] = 0], ord2)
      /\ m.in_full = h.in_full /\ m.page_count = h.page_count - 1
  <2>1. DirectOK(h) /\ h \in Heap /\ AtOf \in At /\ q \in Queue /\ AtOf[p] = q
    BY <1>1 DEF Parts
  <2> QED BY <1>0, <2>1, RemoveProperties
<1>4. h' = [m EXCEPT !.in_full = [m.in_full EXCEPT ![p] = FALSE]]
  BY <1>0, <1>3 DEF Retire, Heap
<1>5. /\ h' \in Heap /\ h'.in_full = [m.in_full EXCEPT ![p] = FALSE]
      /\ h'.first = m.first /\ h'.last = m.last /\ h'.next = m.next /\ h'.prev = m.prev
      /\ h'.direct = m.direct /\ h'.page_count = m.page_count
  <2>1. [m.in_full EXCEPT ![p] = FALSE] \in [Page -> BOOLEAN]
    BY <1>3 DEF Heap
  <2> QED BY <1>3, <1>4, <2>1 DEF Heap
<1> HIDE DEF ord2
<1>6. DirectOK(h') /\ Linked(h', [AtOf EXCEPT ![p] = 0], ord2)
  BY <1>3, <1>5 DEF DirectOK, Front, Linked
<1>7. AtOf' = [AtOf EXCEPT ![p] = 0]
  <2>1. class'[p] = 0 /\ \A x \in Page : x # p => class'[x] = class[x]
    BY DEF Retire, Parts, TypeOK
  <2>2. \A x \in Page : x # p => h'.in_full[x] = h.in_full[x]
    BY <1>1, <1>3, <1>5 DEF Heap
  <2> QED BY <2>1, <2>2 DEF AtOf, QueueOf
<1>8. TypeOK'
  BY <1>5, QueueFacts DEF Retire, Parts, TypeOK
<1>9. CountRight'
  <2>1. InUse' = InUse \ {p} /\ p \in InUse
    BY <1>1 DEF InUse, Retire, Parts, TypeOK
  <2>2. IsFiniteSet(InUse)
    BY PageAssumption, FS_Subset DEF InUse
  <2>3. Cardinality(InUse \ {p}) = Cardinality(InUse) - 1
    BY <2>1, <2>2, FS_RemoveElement
  <2> QED BY <1>3, <1>5, <2>1, <2>3 DEF CountRight, Parts
<1>10. WalkAtFront'
  BY DEF WalkAtFront, Retire
<1>11. q = Full \/ Len(ord[q]) > 1
  <2> SUFFICES ASSUME q # Full PROVE Len(ord[q]) > 1
    OBVIOUS
  <2>1. ord[q] \in Seq(Page) /\ Chain(h.first[q], h.last[q], h.next, h.prev, ord[q])
    BY <1>1 DEF Order, Linked
  <2>2. PICK k \in 1 .. Len(ord[q]) : ord[q][k] = p
    BY <1>2 DEF Occurs
  <2>3. ~(h.first[q] = p /\ h.last[q] = p)
    BY <1>0 DEF Retire, OnlyPage
  <2>4. PICK n : n = Len(ord[q])
    OBVIOUS
  <2>5. n \in Nat /\ 1 <= k /\ k <= n /\ k \in Int
    BY <2>1, <2>2, <2>4, LenProperties
  <2>6. h.first[q] = (IF n = 0 THEN NULL ELSE ord[q][1]) /\ h.last[q] = (IF n = 0 THEN NULL ELSE ord[q][n])
    BY <2>1, <2>4 DEF Chain
  <2>7. n # 1
    <3> SUFFICES ASSUME n = 1 PROVE FALSE
      OBVIOUS
    <3>1. k = 1
      BY <2>5
    <3> QED BY <2>2, <2>3, <2>6, <3>1
  <2>8. n > 1
    BY <2>5, <2>7
  <2> QED BY <2>4, <2>8
<1>12. QueueStep(ord, ord2)
  BY <1>1, <1>2, <1>11 DEF QueueStep, ord2
<1>13. Moves(ord)
  BY <1>3, <1>6, <1>7, <1>12 DEF Moves
<1> QED BY <1>6, <1>8, <1>9, <1>10, <1>13 DEF Parts

LEMMA NextStep ==
  ASSUME Parts, NEW ord \in Order, Linked(h, AtOf, ord), [Next]_vars
  PROVE  Parts' /\ Moves(ord)
<1>1. ASSUME NEW c \in Class, FindFree(c) PROVE Parts' /\ Moves(ord)
  <2>1. UNCHANGED <<h, class>>
    BY <1>1 DEF FindFree
  <2>2. WalkAtFront'
    BY <1>1 DEF FindFree, WalkAtFront
  <2>3. h.first[c] \in Page \cup {NULL}
    BY QueueFacts DEF Parts, TypeOK, Heap, Queue
  <2>4. TypeOK'
    BY <1>1, <2>3 DEF FindFree, Parts, TypeOK
  <2> QED BY <2>1, <2>2, <2>4, UnchangedStep DEF Parts
<1>2. ASSUME WalkFound \/ WalkFails \/ Aborted \/ UNCHANGED vars PROVE Parts' /\ Moves(ord)
  <2>1. UNCHANGED <<h, class>>
    BY <1>2 DEF WalkFound, WalkFails, Aborted, vars
  <2>2. WalkAtFront'
    BY <1>2 DEF WalkFound, WalkFails, Aborted, vars, WalkAtFront, Parts
  <2>4. TypeOK'
    BY <1>2 DEF WalkFound, WalkFails, Aborted, vars, Parts, TypeOK
  <2> QED BY <2>1, <2>2, <2>4, UnchangedStep DEF Parts
<1>3. ASSUME WalkAgain PROVE Parts' /\ Moves(ord)
  <2>1. UNCHANGED <<h, class>>
    BY <1>3 DEF WalkAgain
  <2>2. WalkAtFront'
    BY <1>3 DEF WalkAgain, WalkAtFront
  <2>3. h.first[wq] \in Page \cup {NULL}
    BY QueueFacts DEF Parts, TypeOK, Heap, Queue
  <2>4. TypeOK'
    BY <1>3, <2>3 DEF WalkAgain, Parts, TypeOK
  <2> QED BY <2>1, <2>2, <2>4, UnchangedStep DEF Parts
<1> QED
  BY <1>1, <1>2, <1>3, WalkFullStep, WalkFreshStep, UnfullStep, RetireStep DEF Next, Walk

LEMMA InitQInv == Init => QInv /\ [q \in Queue |-> Nth(q)] = [q \in Queue |-> <<>>]
<1> SUFFICES ASSUME Init PROVE QInv /\ [q \in Queue |-> Nth(q)] = [q \in Queue |-> <<>>]
  OBVIOUS
<1> DEFINE ord == [q \in Queue |-> <<>>]
<1>1. h \in Heap
  BY DEF Init, heap_init, EmptyEnds, Heap, Link, PointToEmpty, pages_free_direct_tmp
<1>2. TypeOK
  BY <1>1, QueueFacts, ClassAssumption DEF Init, TypeOK
<1>3. DirectOK(h)
  <2>1. \A e \in Entry : h.direct[e] = EMPTY
    BY DEF Init, heap_init, PointToEmpty, pages_free_direct_tmp
  <2>2. \A q \in Class : h.first[q] = NULL
    BY DEF Init, heap_init, EmptyEnds, Queue
  <2> QED BY <2>1, <2>2, EntriesDisjoint DEF DirectOK, Front
<1>4. CountRight
  <2>1. InUse = {} /\ h.page_count = 0
    BY DEF InUse, Init, heap_init
  <2> QED BY <2>1, FS_EmptySet DEF CountRight
<1>5. WalkAtFront
  BY DEF WalkAtFront, Init
<1>6. ord \in Order
  BY EmptySeq DEF Order
<1>7. Linked(h, AtOf, ord)
  <2>1. \A q \in Queue : h.first[q] = NULL /\ h.last[q] = NULL /\ ord[q] = <<>>
    BY DEF Init, heap_init, EmptyEnds
  <2>2. Len(<<>>) = 0
    BY EmptySeq
  <2>3. \A q \in Queue, p \in Page : AtOf[p] # q
    BY QueueFacts DEF AtOf, Init
  <2> HIDE DEF ord
  <2>4. \A q \in Queue : Len(ord[q]) = 0 /\ 1 .. Len(ord[q]) = {}
    BY <2>1, <2>2
  <2> QED BY <2>1, <2>3, <2>4 DEF Linked, Chain, Occurs
<1>8. [q \in Queue |-> Nth(q)] = ord
  BY <1>2, <1>6, <1>7, NthIsOrder
<1> HIDE DEF ord
<1>9. QInv
  BY <1>2, <1>3, <1>4, <1>5, <1>6, <1>7 DEF QInv
<1> QED BY <1>8, <1>9 DEF ord

LEMMA NextQInv == QInv /\ [Next]_vars => QInv'
<1> SUFFICES ASSUME QInv, [Next]_vars PROVE QInv'
  OBVIOUS
<1>1. PICK ord \in Order : Linked(h, AtOf, ord)
  BY DEF QInv
<1>2. Parts' /\ Moves(ord)
  BY <1>1, NextStep DEF QInv, Parts
<1> QED BY <1>2 DEF QInv, Parts, Moves

-----------------------------------------------------------------------------
(* What the invariant says                                                  *)

LEMMA LinksFromOrder == QInv => LinksExact
<1> SUFFICES ASSUME QInv PROVE LinksExact
  OBVIOUS
<1>1. PICK ord \in Order : Linked(h, AtOf, ord)
  BY DEF QInv
<1>2. h.page_count = Cardinality({p \in Page : class[p] # 0})
  BY DEF QInv, CountRight, InUse
<1>3. ASSUME NEW q \in Queue
      PROVE  /\ h.first[q] = NULL <=> Members(q) = {}
             /\ h.last[q] = NULL <=> Members(q) = {}
             /\ Members(q) # {} =>
                  h.first[q] \in Members(q) /\ h.last[q] \in Members(q)
             /\ \A p \in Members(q) :
                  /\ h.prev[p] = NULL <=> p = h.first[q]
                  /\ h.next[p] = NULL <=> p = h.last[q]
                  /\ h.next[p] # NULL => h.next[p] \in Members(q) /\ h.prev[h.next[p]] = p
                  /\ h.prev[p] # NULL => h.prev[p] \in Members(q) /\ h.next[h.prev[p]] = p
  <2>1. PICK s, n : s = ord[q] /\ n = Len(s)
    OBVIOUS
  <2>2. /\ s \in Seq(Page) /\ n \in Nat
        /\ Chain(h.first[q], h.last[q], h.next, h.prev, s)
    BY <1>1, <2>1, LenProperties DEF Order, Linked
  <2>3. \A p : p \in Members(q) <=> \E k \in 1 .. n : s[k] = p
    <3>1. \A k \in 1 .. n : s[k] \in Page
      BY <2>1, <2>2, ElementOfSeq
    <3>2. Members(q) = {p \in Page : Occurs(p, s)}
      BY <1>1, <2>1, AtType DEF Linked, QInv
    <3> QED BY <2>1, <3>1, <3>2 DEF Occurs
  <2>4. \A p \in Members(q) : p # NULL
    BY PageAssumption DEF Members
  <2>5. /\ h.first[q] = IF n = 0 THEN NULL ELSE s[1]
        /\ h.last[q] = IF n = 0 THEN NULL ELSE s[n]
        /\ \A k \in 1 .. n :
             /\ h.prev[s[k]] = IF k = 1 THEN NULL ELSE s[k - 1]
             /\ h.next[s[k]] = IF k = n THEN NULL ELSE s[k + 1]
        /\ \A j, k \in 1 .. n : s[j] = s[k] => j = k
    BY <2>1, <2>2 DEF Chain
  <2>6. \A k \in 1 .. n : s[k] \in Members(q) /\ s[k] # NULL
    BY <2>3, <2>4
  <2>7. CASE n = 0
    <3>1. Members(q) = {}
      BY <2>3, <2>7
    <3> QED BY <2>5, <2>7, <3>1
  <2>8. CASE n > 0
    <3>1. 1 \in 1 .. n /\ n \in 1 .. n /\ n # 0
      BY <2>2, <2>8
    <3>2. h.first[q] = s[1] /\ h.last[q] = s[n]
      BY <2>5, <3>1
    <3>3. s[1] \in Members(q) /\ s[n] \in Members(q) /\ s[1] # NULL /\ s[n] # NULL
      BY <2>6, <3>1
    <3>4. ASSUME NEW p \in Members(q)
          PROVE  /\ h.prev[p] = NULL <=> p = s[1]
                 /\ h.next[p] = NULL <=> p = s[n]
                 /\ h.next[p] # NULL => h.next[p] \in Members(q) /\ h.prev[h.next[p]] = p
                 /\ h.prev[p] # NULL => h.prev[p] \in Members(q) /\ h.next[h.prev[p]] = p
      <4>1. PICK k \in 1 .. n : s[k] = p
        BY <2>3
      <4>2. k # 1 => k - 1 \in 1 .. n /\ (k - 1) + 1 = k /\ k - 1 # n
        BY <2>2
      <4>3. k # n => k + 1 \in 1 .. n /\ (k + 1) - 1 = k /\ k + 1 # 1
        BY <2>2
      <4>4. h.prev[p] = IF k = 1 THEN NULL ELSE s[k - 1]
        BY <2>5, <4>1
      <4>5. h.next[p] = IF k = n THEN NULL ELSE s[k + 1]
        BY <2>5, <4>1
      <4>6. k # 1 => h.prev[p] # NULL /\ h.prev[p] \in Members(q) /\ h.next[h.prev[p]] = p /\ p # s[1]
        BY <2>5, <2>6, <3>1, <4>1, <4>2, <4>4
      <4>7. k # n => h.next[p] # NULL /\ h.next[p] \in Members(q) /\ h.prev[h.next[p]] = p /\ p # s[n]
        BY <2>5, <2>6, <3>1, <4>1, <4>3, <4>5
      <4>8. (k = 1 => h.prev[p] = NULL /\ p = s[1]) /\ (k = n => h.next[p] = NULL /\ p = s[n])
        BY <4>1, <4>4, <4>5
      <4> QED BY <4>6, <4>7, <4>8
    <3>5. Members(q) # {}
      BY <3>3
    <3> QED BY <3>2, <3>3, <3>4, <3>5
  <2> QED BY <2>2, <2>7, <2>8
<1> QED BY <1>2, <1>3 DEF LinksExact

\* The class of a small size, and its entry.
LEMMA BestQueueEntry ==
  ASSUME NEW size \in 0 .. 8 * SmallMax
  PROVE  /\ BestQueue(size) \in Class /\ Small(BestQueue(size))
         /\ (size + 7) \div 8 \in Entries(BestQueue(size))
<1> DEFINE e == (size + 7) \div 8
           T == {c \in Class : 8 * Words[c] >= size}
<1>1. size \in Nat /\ size <= 8 * SmallMax /\ SmallMax \in Nat
  BY ClassAssumption
<1>2. e \in Nat /\ e <= SmallMax /\ \A w \in Nat : 8 * w >= size <=> w >= e
  BY <1>1
<1>3. \A c \in Class : Words[c] \in Nat /\ Words[c] # 0 /\ c \in Nat /\ c >= 1
  BY WordsAssumption, QueueFacts
<1>4. PICK m \in Class : Words[m] = SmallMax
  BY SmallAssumption
<1>5. m \in T /\ T \subseteq Nat
  BY <1>1, <1>3, <1>4
<1>6. PICK c \in T : \A d \in T : c <= d
  BY <1>5, LeastNat
<1>7. BestQueue(size) = c
  <2>1. c \in Class /\ 8 * Words[c] >= size /\ \A d \in Class : 8 * Words[d] >= size => c <= d
    BY <1>6
  <2>2. ASSUME NEW b \in Class, 8 * Words[b] >= size,
               \A d \in Class : 8 * Words[d] >= size => b <= d
        PROVE  b = c
    BY <1>3, <2>1, <2>2
  <2> QED BY <2>1, <2>2 DEF BestQueue
<1>8. Words[c] >= e /\ c <= m
  BY <1>2, <1>3, <1>5, <1>6
<1>9. Words[c] <= SmallMax
  BY <1>3, <1>4, <1>8, WordsAssumption
<1>10. Start(c) <= e
  <2>1. CASE c = 1
    <3>1. Start(c) = 0
      BY <2>1, WordsAssumption DEF Start
    <3> QED BY <1>2, <3>1
  <2>2. CASE c > 1
    <3>1. c - 1 \in Class /\ Words[1] < Words[c] /\ ~(c <= c - 1)
      BY <1>3, <2>2, WordsAssumption, QueueFacts
    <3>2. Start(c) = 1 + Words[c - 1]
      BY <1>3, <3>1, WordsAssumption DEF Start
    <3>3. c - 1 \notin T
      BY <1>6, <3>1
    <3>4. ~(Words[c - 1] >= e)
      BY <1>2, <1>3, <3>1, <3>3
    <3> QED BY <1>2, <1>3, <3>1, <3>2, <3>4
  <2> QED BY <1>3, <2>1, <2>2
<1>11. Start(c) \in Int
  BY <1>3, WordsAssumption, QueueFacts DEF Start
<1> HIDE DEF e
<1>12. e \in Entries(c)
  BY <1>2, <1>3, <1>8, <1>10, <1>11 DEF Entries
<1> QED BY <1>7, <1>9, <1>12 DEF Small, e

LEMMA DirectFromEntries == QInv => DirectExact
BY BestQueueEntry DEF QInv, DirectOK, Front, DirectExact, heap_get_free_small_page

-----------------------------------------------------------------------------
(* The theorems                                                             *)

\* In every state the pages of each queue form a sequence with exactly the links,
\* ends and flags of the headers; pages_free_direct, page_count and the place of
\* the search agree with these sequences.
THEOREM QueuesInvariant == Spec => []QInv
<1>1. Init => QInv
  BY InitQInv
<1>2. QInv /\ [Next]_vars => QInv'
  BY NextQInv
<1> QED BY <1>1, <1>2, PTL DEF Spec

\* The links of every queue fit together, in any order of the owner's operations
\* and for any number of pages and classes.
THEOREM QueuesLinked == Spec => []LinksExact
BY QueuesInvariant, LinksFromOrder, PTL

\* The page malloc takes a block from unseen is the first of its queue.
THEOREM FastPathRight == Spec => []DirectExact
BY QueuesInvariant, DirectFromEntries, PTL

\* The search for a free block always goes on at the front of its queue.
THEOREM SearchAtFront == Spec => []WalkAtFront
<1>1. QInv => WalkAtFront
  BY DEF QInv
<1> QED BY QueuesInvariant, <1>1, PTL

\* The linked queues implement the sequences of QueueSpec.
THEOREM QueuesAreSequences == Spec => KeepsOrder
<1> DEFINE order == [q \in Queue |-> Nth(q)]
<1>1. Init => Q!Init
  BY InitQInv DEF Q!Init, Q!Queue, Queue
<1> DEFINE Always == \A o \in Order : TypeOK /\ Linked(h, AtOf, o) => order = o
<1>3. Always
  BY NthIsOrder
<1> HIDE DEF Always
<1>4. Always'
  BY <1>3, PTL
<1>2. QInv /\ [Next]_vars => [Q!Next]_order
  <2> SUFFICES ASSUME QInv, [Next]_vars PROVE [Q!Next]_order
    OBVIOUS
  <2>1. PICK o \in Order : Linked(h, AtOf, o)
    BY DEF QInv
  <2>2. Parts' /\ Moves(o)
    BY <2>1, NextStep DEF QInv, Parts
  <2>3. PICK o2 \in Order : Linked(h', AtOf', o2) /\ (o2 = o \/ QueueStep(o, o2))
    BY <2>2 DEF Moves
  <2>4. order = o
    BY <2>1, NthIsOrder DEF QInv
  <2>5. order' = o2
    BY <2>2, <2>3, <1>4 DEF Parts, Always
  <2> HIDE DEF order
  <2>6. \A q \in Queue : o[q] \in Seq(Page) /\ DOMAIN o[q] = 1 .. Len(o[q])
    BY LenProperties DEF Order
  <2>7. \A q \in Queue : Q!Pages(q) = {o[q][k] : k \in 1 .. Len(o[q])}
    BY <2>4, <2>6 DEF Q!Pages, order
  <2>8. \A q \in Queue, p \in Page : p \in Q!Pages(q) <=> Occurs(p, o[q])
    BY <2>7 DEF Occurs
  <2>9. CASE QueueStep(o, o2)
    <3>1. PICK p \in Page :
            \/ \E c \in Class :
                 \/ /\ \A r \in Queue : ~Occurs(p, o[r])
                    /\ o2 = [o EXCEPT ![c] = <<p>> \o @]
                 \/ /\ Occurs(p, o[c])
                    /\ o2 = [o EXCEPT ![c] = Q!Without(@, p), ![Full] = Append(@, p)]
                 \/ /\ Occurs(p, o[Full])
                    /\ o2 = [o EXCEPT ![Full] = Q!Without(@, p), ![c] = Append(@, p)]
            \/ \E q \in Queue :
                 /\ Occurs(p, o[q])
                 /\ q = Full \/ Len(o[q]) > 1
                 /\ o2 = [o EXCEPT ![q] = Q!Without(@, p)]
      BY <2>9 DEF QueueStep
    <3>2. Q!Queue = Queue /\ Class \subseteq Queue /\ Full \in Queue
      BY DEF Q!Queue, Queue
    <3>3. ASSUME NEW c \in Class, \A r \in Queue : ~Occurs(p, o[r]),
                 o2 = [o EXCEPT ![c] = <<p>> \o @]
          PROVE  Q!Add(c, p)
      BY <2>4, <2>5, <2>8, <3>2, <3>3 DEF Q!Add, order
    <3>4. ASSUME NEW from \in Queue, NEW to \in Queue, Occurs(p, o[from]),
                 o2 = [o EXCEPT ![from] = Q!Without(@, p), ![to] = Append(@, p)]
          PROVE  Q!Move(p, from, to)
      BY <2>4, <2>5, <2>8, <3>2, <3>4 DEF Q!Move, order
    <3>5. ASSUME NEW q \in Queue, Occurs(p, o[q]), q = Full \/ Len(o[q]) > 1,
                 o2 = [o EXCEPT ![q] = Q!Without(@, p)]
          PROVE  Q!Drop(p, q)
      BY <2>4, <2>5, <2>8, <3>2, <3>5 DEF Q!Drop, order
    <3> QED BY <3>1, <3>2, <3>3, <3>4, <3>5 DEF Q!Next
  <2> QED BY <2>3, <2>4, <2>5, <2>9
<1> QED BY QueuesInvariant, <1>1, <1>2, PTL DEF Spec, KeepsOrder, Q!Spec
=============================================================================

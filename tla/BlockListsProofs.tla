-------------------------- MODULE BlockListsProofs --------------------------
(***************************************************************************)
(* The theorems about BlockLists.  IInv is inductive.                      *)
(*                                                                         *)
(* That the words and links are lists (Config) is the heart of it.  What a *)
(* compare-and-exchange relies on is that the block to be pushed is still  *)
(* linked to what was loaded (RemoteAt): then it does not matter how   *)
(* often the head has changed and come back in between.                    *)
(***************************************************************************)
EXTENDS BlockLists, SequenceTheorems, FiniteSetTheorems,
        NaturalsInduction, WellFoundedInduction, TLAPS

ListName == {"free", "local_free", "thread_free", "delayed_free", "taken", "popping"}

Block == 1 .. RESERVED

\* the address of a block
Adr(b) == BSIZE * b

Link == Address \cup {NULL}
Memory == [Address -> Link \cup {JUNK}]

-----------------------------------------------------------------------------
(* Induction over numbers, for sets                                         *)

LEMMA LeastNat ==
  ASSUME NEW T, T \subseteq Nat, T # {}
  PROVE  \E x \in T : \A y \in T : x <= y
<1> DEFINE R == {ss \in Nat \X Nat : ss[1] < ss[2]}
<1>1. \A S : S \subseteq Nat /\ S # {} => \E x \in S : \A y \in S : ~(<<y, x>> \in R)
  BY NatLessThanWellFounded, WFMin DEF OpToRel
<1>2. PICK x \in T : \A y \in T : ~(<<y, x>> \in R)
  BY <1>1
<1>3. ASSUME NEW y \in T PROVE x <= y
  <2>1. ~(<<y, x>> \in R)
    BY <1>2
  <2>2. ~(y < x)
    BY <2>1
  <2> QED BY <2>2
<1> QED BY <1>3

LEMMA SetInduction ==
  ASSUME NEW G, 0 \in G, \A n \in Nat : n \in G => n + 1 \in G
  PROVE  Nat \subseteq G
<1> SUFFICES ASSUME Nat \ G # {} PROVE FALSE
  OBVIOUS
<1>1. PICK x \in Nat \ G : \A y \in Nat \ G : x <= y
  BY LeastNat
<1>2. x # 0 /\ x - 1 \in Nat
  BY <1>1
<1>3. x - 1 \notin G
  BY <1>2
<1>4. x - 1 \in Nat \ G /\ ~(x <= x - 1)
  BY <1>2, <1>3
<1> QED BY <1>1, <1>4

-----------------------------------------------------------------------------
(* Addresses and words                                                      *)

LEMMA Addresses ==
  /\ \A b \in Block : Adr(b) \in Address /\ Adr(b) # NULL /\ Adr(b) # JUNK
  /\ \A b, c \in Block : Adr(b) = Adr(c) => b = c
  /\ \A b, c \in Block : b < c => Adr(b) < Adr(c)
  /\ \A a \in Address : \E b \in Block : a = Adr(b)
  /\ NULL \notin Address /\ NULL # JUNK
<1>1. \A b, c \in Nat : b < c => BSIZE * b < BSIZE * c
  BY AlignAssumption
<1>2. \A b \in Block : BSIZE * b \in Nat /\ BSIZE * b # 0
  BY AlignAssumption, ReservedAssumption DEF Block
<1>3. Block \subseteq Nat
  BY ReservedAssumption DEF Block
<1>4. \A b \in Block : Adr(b) \in Nat /\ Adr(b) # 0 /\ Adr(b) \in Address
  BY <1>2 DEF Adr, Address, Block
<1>5. \A b, c \in Block : b < c => Adr(b) < Adr(c)
  BY <1>1, <1>3 DEF Adr
<1>6. ASSUME NEW b \in Block, NEW c \in Block, Adr(b) = Adr(c) PROVE b = c
  BY <1>3, <1>4, <1>5, <1>6
<1>7. \A a \in Address : \E b \in Block : a = Adr(b)
  BY DEF Adr, Address, Block
<1> QED BY <1>4, <1>5, <1>6, <1>7, JunkAssumption DEF NULL

LEMMA Aligned ==
  ASSUME NEW a \in Link
  PROVE  a \in Nat /\ a % 4 = 0
<1>1. CASE a = NULL
  BY <1>1 DEF NULL
<1>2. CASE a \in Address
  <2>1. PICK b \in 1 .. RESERVED : a = BSIZE * b
    BY <1>2 DEF Address
  <2>2. BSIZE \div 4 \in Nat /\ BSIZE = 4 * (BSIZE \div 4)
    BY AlignAssumption
  <2>3. PICK q \in Nat : BSIZE = 4 * q
    BY <2>2
  <2>4. b \in Nat
    BY <2>1, ReservedAssumption
  <2>5. PICK x \in Nat : x = q * b
    BY <2>4
  <2>6. a = 4 * x
    BY <2>1, <2>3, <2>4, <2>5
  <2> QED BY <2>6
<1> QED BY <1>1, <1>2 DEF Link

\* the number of a block, from its address
LEMMA Numbered ==
  ASSUME NEW b \in Block
  PROVE  Adr(b) \div BSIZE = b
<1>1. b \in Nat
  BY ReservedAssumption DEF Block
<1>2. (BSIZE * b) \div BSIZE = b
  BY <1>1, AlignAssumption, Z3
<1> QED BY <1>2 DEF Adr

\* a word is an address and a state
Word == {a + d : a \in Link, d \in 0 .. 3}

LEMMA Words ==
  ASSUME NEW w \in Word
  PROVE  /\ w \in Nat /\ get_ptr(w) \in Link /\ get_delay(w) \in 0 .. 3
         /\ w = get_ptr(w) + get_delay(w)
<1>1. PICK a \in Link, d \in 0 .. 3 : w = a + d
  BY DEF Word
<1>2. a \in Nat /\ a % 4 = 0
  BY Aligned
<1>3. w % 4 = d
  BY <1>1, <1>2
<1> QED BY <1>1, <1>2, <1>3 DEF get_ptr, get_delay

LEMMA WordOf ==
  ASSUME NEW a \in Link, NEW d \in 0 .. 3
  PROVE  a + d \in Word /\ get_ptr(a + d) = a /\ get_delay(a + d) = d
<1>1. a \in Nat /\ a % 4 = 0
  BY Aligned
<1>2. (a + d) % 4 = d
  BY <1>1
<1> QED BY <1>1, <1>2 DEF get_ptr, get_delay, Word

\* what the operations on a word do to its address
LEMMA Masks ==
  ASSUME NEW w \in Word
  PROVE  /\ set_freeing(w) \in Word /\ get_ptr(set_freeing(w)) = get_ptr(w)
         /\ xor3(w) \in Word /\ get_ptr(xor3(w)) = get_ptr(w)
         /\ \A d \in 0 .. 3 : set_delay(w, d) \in Word /\ get_ptr(set_delay(w, d)) = get_ptr(w)
         /\ \A a \in Link : set_ptr(w, a) \in Word /\ get_ptr(set_ptr(w, a)) = a
         /\ get_delay(w) \in Word /\ get_ptr(get_delay(w)) = NULL
<1>1. get_ptr(w) \in Link /\ get_delay(w) \in 0 .. 3
  BY Words
<1>2. set_freeing(w) \in Word /\ get_ptr(set_freeing(w)) = get_ptr(w)
  <2>1. PICK d : d = 1
    OBVIOUS
  <2> QED BY <1>1, <2>1, WordOf DEF set_freeing
<1>3. xor3(w) \in Word /\ get_ptr(xor3(w)) = get_ptr(w)
  <2>1. PICK d \in 0 .. 3 : d = 3 - get_delay(w)
    BY <1>1
  <2> QED BY <1>1, <2>1, WordOf DEF xor3
<1>4. \A d \in 0 .. 3 : set_delay(w, d) \in Word /\ get_ptr(set_delay(w, d)) = get_ptr(w)
  BY <1>1, WordOf DEF set_delay
<1>5. \A a \in Link : set_ptr(w, a) \in Word /\ get_ptr(set_ptr(w, a)) = a
  <2>1. PICK d \in 0 .. 3 : d = get_delay(w)
    BY <1>1
  <2> QED BY <2>1, WordOf DEF set_ptr, get_delay
<1>6. get_delay(w) \in Word /\ get_ptr(get_delay(w)) = NULL
  <2>1. PICK d \in 0 .. 3 : d = get_delay(w)
    BY <1>1
  <2>2. NULL \in Link /\ NULL + d = d
    BY DEF Link, NULL
  <2> QED BY <2>1, <2>2, WordOf
<1> QED BY <1>2, <1>3, <1>4, <1>5, <1>6
-----------------------------------------------------------------------------
(* Lists in memory                                                          *)

At(s, k) == IF k \in 1 .. Len(s) THEN Adr(s[k]) ELSE NULL

\* from h on, memory m holds the list of the blocks s
Leads(m, h, s) ==
  /\ h = At(s, 1)
  /\ \A k \in 1 .. Len(s) : m[Adr(s[k])] = At(s, k + 1)

Apart(S) ==
  \A n, q \in ListName : \A j \in 1 .. Len(S[n]), k \in 1 .. Len(S[q]) :
    S[n][j] = S[q][k] => n = q /\ j = k

Away(S, L) == \A n \in ListName : \A k \in 1 .. Len(S[n]) : S[n][k] \notin L

OnSome(S, b) == \E n \in ListName : \E k \in 1 .. Len(S[n]) : S[n][k] = b

\* With the heads H, memory m holds the lists S; these and L are the blocks up
\* to number c, each of them once.
Config(m, H, S, L, c) ==
  /\ S \in [ListName -> Seq(Block)]
  /\ H \in [ListName -> Link]
  /\ \A n \in ListName : Leads(m, H[n], S[n])
  /\ Apart(S)
  /\ L \in SUBSET Block
  /\ Away(S, L)
  /\ c \in 0 .. RESERVED
  /\ \A b \in Block : b <= c <=> (b \in L \/ OnSome(S, b))

LEMMA ConfigSeq ==
  ASSUME NEW S \in [ListName -> Seq(Block)], NEW n \in ListName
  PROVE  /\ S[n] \in Seq(Block) /\ Len(S[n]) \in Nat
         /\ \A k \in 1 .. Len(S[n]) : S[n][k] \in Block
         /\ S[n] # <<>> <=> Len(S[n]) # 0
<1>1. S[n] \in Seq(Block)
  OBVIOUS
<1>2. Len(S[n]) \in Nat /\ \A k \in 1 .. Len(S[n]) : S[n][k] \in Block
  BY <1>1, LenProperties, ElementOfSeq
<1> QED BY <1>1, <1>2, EmptySeq

LEMMA ConfigHead ==
  ASSUME NEW m, NEW H, NEW S, NEW L, NEW c, Config(m, H, S, L, c), NEW n \in ListName
  PROVE  /\ H[n] = NULL <=> S[n] = <<>>
         /\ S[n] # <<>> => /\ H[n] = Adr(S[n][1])
                           /\ m[H[n]] = At(S[n], 2)
<1>1. /\ S[n] \in Seq(Block) /\ Len(S[n]) \in Nat
      /\ \A k \in 1 .. Len(S[n]) : S[n][k] \in Block
      /\ S[n] # <<>> <=> Len(S[n]) # 0
  BY ConfigSeq DEF Config
<1>2. Leads(m, H[n], S[n])
  BY DEF Config
<1>3. CASE Len(S[n]) = 0
  BY <1>1, <1>2, <1>3 DEF Leads, At
<1>4. CASE Len(S[n]) # 0
  <2>1. 1 \in 1 .. Len(S[n])
    BY <1>1, <1>4
  <2>2. H[n] = Adr(S[n][1]) /\ H[n] # NULL
    BY <1>1, <1>2, <2>1, Addresses DEF Leads, At
  <2>3. m[H[n]] = At(S[n], 2)
    BY <1>2, <2>1, <2>2 DEF Leads
  <2> QED BY <1>1, <1>4, <2>2, <2>3
<1> QED BY <1>3, <1>4

\* A loose block may be written, and so may memory past the capacity.
LEMMA ConfigFrame ==
  ASSUME NEW m, NEW H, NEW S, NEW L, NEW c, Config(m, H, S, L, c),
         NEW m2, \A n \in ListName : \A k \in 1 .. Len(S[n]) : m2[Adr(S[n][k])] = m[Adr(S[n][k])]
  PROVE  Config(m2, H, S, L, c)
BY DEF Config, Leads

LEMMA ConfigWrite ==
  ASSUME NEW m \in Memory, NEW H, NEW S, NEW L, NEW c, Config(m, H, S, L, c),
         NEW b \in L, NEW v
  PROVE  Config([m EXCEPT ![Adr(b)] = v], H, S, L, c)
<1>1. PICK m2 : m2 = [m EXCEPT ![Adr(b)] = v]
  OBVIOUS
<1>2. b \in Block
  BY DEF Config
<1>3. ASSUME NEW n \in ListName, NEW k \in 1 .. Len(S[n])
      PROVE  m2[Adr(S[n][k])] = m[Adr(S[n][k])]
  <2>1. S[n][k] \in Block /\ S[n][k] # b
    BY ConfigSeq DEF Config, Away
  <2>2. Adr(S[n][k]) # Adr(b) /\ Adr(S[n][k]) \in Address
    BY <1>2, <2>1, Addresses
  <2> QED BY <1>1, <2>2 DEF Memory
<1>4. Config(m2, H, S, L, c)
  BY <1>3, ConfigFrame
<1> QED BY <1>1, <1>4

\* A loose block that is linked to the head becomes the head.
LEMMA ConfigPush ==
  ASSUME NEW m, NEW H, NEW S, NEW L, NEW c, Config(m, H, S, L, c),
         NEW n \in ListName, NEW b \in L, m[Adr(b)] = H[n]
  PROVE  Config(m, [H EXCEPT ![n] = Adr(b)], [S EXCEPT ![n] = <<b>> \o @], L \ {b}, c)
<1>1. PICK s : s = <<b>> \o S[n]
  OBVIOUS
<1>2. PICK S2 : S2 = [S EXCEPT ![n] = s]
  OBVIOUS
<1>3. PICK H2 : H2 = [H EXCEPT ![n] = Adr(b)]
  OBVIOUS
<1>4. b \in Block /\ S \in [ListName -> Seq(Block)] /\ H \in [ListName -> Link]
  BY DEF Config
<1>5. Adr(b) \in Link
  BY <1>4, Addresses DEF Link
<1>6. /\ S[n] \in Seq(Block) /\ Len(S[n]) \in Nat
      /\ \A k \in 1 .. Len(S[n]) : S[n][k] \in Block
  BY <1>4, ConfigSeq
<1>7. /\ s \in Seq(Block) /\ Len(s) = Len(S[n]) + 1
      /\ \A i \in 1 .. Len(S[n]) + 1 : s[i] = IF i = 1 THEN b ELSE S[n][i - 1]
  <2>1. <<b>> \in Seq(Block) /\ Len(<<b>>) = 1 /\ <<b>>[1] = b
    BY <1>4
  <2> QED BY <1>1, <1>6, <2>1, ConcatProperties
<1>8. S2 \in [ListName -> Seq(Block)] /\ H2 \in [ListName -> Link]
  BY <1>2, <1>3, <1>4, <1>5, <1>7
<1>9. S2[n] = s /\ H2[n] = Adr(b) /\ \A q \in ListName : q # n => S2[q] = S[q] /\ H2[q] = H[q]
  BY <1>2, <1>3, <1>4
<1>10. Leads(m, Adr(b), s)
  <2>1. Leads(m, H[n], S[n])
    BY DEF Config
  <2>2. \A k \in 1 .. Len(S[n]) + 1 : At(s, k + 1) = At(S[n], k)
    BY <1>6, <1>7 DEF At
  <2>3. At(s, 1) = Adr(b)
    BY <1>6, <1>7 DEF At
  <2>4. ASSUME NEW k \in 1 .. Len(s) PROVE m[Adr(s[k])] = At(s, k + 1)
    <3>1. CASE k = 1
      <4>1. s[1] = b /\ At(s, 2) = At(S[n], 1)
        BY <1>6, <1>7, <2>2
      <4> QED BY <2>1, <3>1, <4>1 DEF Leads
    <3>2. CASE k # 1
      <4>1. k - 1 \in 1 .. Len(S[n]) /\ s[k] = S[n][k - 1] /\ k \in 1 .. Len(S[n]) + 1
        BY <1>6, <1>7, <3>2
      <4>2. m[Adr(S[n][k - 1])] = At(S[n], k - 1 + 1)
        BY <2>1, <4>1 DEF Leads
      <4>3. k - 1 + 1 = k
        BY <4>1, <1>6
      <4> QED BY <2>2, <4>1, <4>2, <4>3
    <3> QED BY <3>1, <3>2
  <2> QED BY <2>3, <2>4 DEF Leads
<1>11. \A q \in ListName : Leads(m, H2[q], S2[q])
  BY <1>9, <1>10 DEF Config
<1>12. \A q \in ListName : \A k \in 1 .. Len(S[q]) : S[q][k] # b
  BY DEF Config, Away
<1>19. \A i \in 1 .. Len(s) : \/ (i = 1 /\ s[i] = b)
                               \/ /\ i # 1 /\ i - 1 \in 1 .. Len(S[n])
                                  /\ s[i] = S[n][i - 1]
  BY <1>6, <1>7
<1>13. Apart(S2)
  <2>1. Apart(S)
    BY DEF Config
  <2> SUFFICES ASSUME NEW p \in ListName, NEW q \in ListName,
                      NEW j \in 1 .. Len(S2[p]), NEW k \in 1 .. Len(S2[q]), S2[p][j] = S2[q][k]
               PROVE  p = q /\ j = k
    BY DEF Apart
  <2>2. CASE p = n /\ q = n
    <3>1. j \in 1 .. Len(s) /\ k \in 1 .. Len(s) /\ s[j] = s[k]
      BY <1>9, <2>2
    <3>2. CASE j = 1 \/ k = 1
      BY <1>12, <1>19, <2>2, <3>1, <3>2
    <3>3. CASE j # 1 /\ k # 1
      <4>2. /\ j - 1 \in 1 .. Len(S[n]) /\ k - 1 \in 1 .. Len(S[n])
            /\ S[n][j - 1] = S[n][k - 1]
        BY <1>19, <3>1, <3>3
      <4>1. j - 1 = k - 1
        BY <2>1, <4>2 DEF Apart
      <4> QED BY <2>2, <3>1, <4>1, <1>6, <1>7
    <3> QED BY <3>2, <3>3
  <2>3. CASE p = n /\ q # n
    <3>1. j \in 1 .. Len(s) /\ k \in 1 .. Len(S[q]) /\ s[j] = S[q][k]
      BY <1>9, <2>3
    <3> QED BY <1>12, <1>19, <2>1, <2>3, <3>1 DEF Apart
  <2>4. CASE p # n /\ q = n
    <3>1. k \in 1 .. Len(s) /\ j \in 1 .. Len(S[p]) /\ s[k] = S[p][j]
      BY <1>9, <2>4
    <3> QED BY <1>12, <1>19, <2>1, <2>4, <3>1 DEF Apart
  <2>5. CASE p # n /\ q # n
    BY <1>9, <2>1, <2>5 DEF Apart
  <2> QED BY <2>2, <2>3, <2>4, <2>5
<1>14. Away(S2, L \ {b})
  <2>1. Away(S, L)
    BY DEF Config
  <2>2. \A k \in 1 .. Len(s) : s[k] \notin L \ {b}
    BY <1>6, <1>7, <2>1 DEF Away
  <2> QED BY <1>9, <2>1, <2>2 DEF Away
<1>15. ASSUME NEW a \in Block PROVE (a \in L \ {b} \/ OnSome(S2, a)) <=> (a \in L \/ OnSome(S, a))
  <2>1. OnSome(S2, a) => a = b \/ OnSome(S, a)
    BY <1>9, <1>19 DEF OnSome
  <2>2. OnSome(S2, b)
    <3>1. 1 \in 1 .. Len(s) /\ s[1] = b
      BY <1>6, <1>7
    <3> QED BY <1>9, <3>1 DEF OnSome
  <2>3. OnSome(S, a) => OnSome(S2, a)
    <3>1. \A k \in 1 .. Len(S[n]) : k + 1 \in 1 .. Len(s) /\ s[k + 1] = S[n][k]
      BY <1>6, <1>7
    <3> QED BY <1>9, <3>1 DEF OnSome
  <2> QED BY <2>1, <2>2, <2>3
<1>16. L \ {b} \in SUBSET Block /\ c \in 0 .. RESERVED
  BY DEF Config
<1>17. \A a \in Block : a <= c <=> (a \in L \ {b} \/ OnSome(S2, a))
  BY <1>15 DEF Config
<1>18. Config(m, H2, S2, L \ {b}, c)
  BY <1>8, <1>11, <1>13, <1>14, <1>16, <1>17 DEF Config
<1> QED BY <1>1, <1>2, <1>3, <1>18

\* The head of a list becomes loose, whatever is written into it.
LEMMA ConfigPop ==
  ASSUME NEW m \in Memory, NEW H, NEW S, NEW L, NEW c, Config(m, H, S, L, c),
         NEW n \in ListName, H[n] # NULL
  PROVE  /\ S[n] # <<>> /\ H[n] = Adr(Head(S[n])) /\ Head(S[n]) \in Block \ L
         /\ Config([m EXCEPT ![H[n]] = JUNK], [H EXCEPT ![n] = m[H[n]]],
                   [S EXCEPT ![n] = Tail(@)], L \cup {Head(S[n])}, c)
<1>1. PICK s : s = Tail(S[n])
  OBVIOUS
<1>2. PICK S2 : S2 = [S EXCEPT ![n] = s]
  OBVIOUS
<1>3. PICK b : b = Head(S[n])
  OBVIOUS
<1>4. S \in [ListName -> Seq(Block)] /\ H \in [ListName -> Link] /\ Apart(S) /\ Away(S, L)
  BY DEF Config
<1>5. /\ S[n] # <<>> /\ S[n] \in Seq(Block) /\ Len(S[n]) \in Nat /\ Len(S[n]) # 0
      /\ \A k \in 1 .. Len(S[n]) : S[n][k] \in Block
      /\ H[n] = Adr(S[n][1]) /\ m[H[n]] = At(S[n], 2)
  BY <1>4, ConfigSeq, ConfigHead
<1>6. b = S[n][1] /\ b \in Block /\ 1 \in 1 .. Len(S[n]) /\ b \notin L
  BY <1>3, <1>4, <1>5 DEF Away
<1>7. /\ s \in Seq(Block) /\ Len(s) = Len(S[n]) - 1
      /\ \A i \in 1 .. Len(s) : s[i] = S[n][i + 1] /\ i + 1 \in 1 .. Len(S[n]) /\ i + 1 # 1
  BY <1>1, <1>5, HeadTailProperties
<1>8. \A k \in 1 .. Len(s) + 1 : At(s, k) = At(S[n], k + 1)
  BY <1>5, <1>7 DEF At
<1>9. PICK H2 : H2 = [H EXCEPT ![n] = At(s, 1)]
  OBVIOUS
<1>10. m[H[n]] = At(s, 1)
  BY <1>5, <1>7, <1>8
<1>11. At(s, 1) \in Link
  <2>1. \A k \in 1 .. Len(s) : s[k] \in Block
    BY <1>5, <1>7
  <2> QED BY <2>1, Addresses DEF At, Link
<1>12. S2 \in [ListName -> Seq(Block)] /\ H2 \in [ListName -> Link]
  BY <1>2, <1>4, <1>7, <1>9, <1>11
<1>13. S2[n] = s /\ H2[n] = At(s, 1) /\ \A q \in ListName : q # n => S2[q] = S[q] /\ H2[q] = H[q]
  BY <1>2, <1>4, <1>9
<1>14. \A q \in ListName : \A k \in 1 .. Len(S2[q]) : S2[q][k] # b /\ S2[q][k] \in Block
  <2>1. ASSUME NEW q \in ListName, q # n, NEW k \in 1 .. Len(S[q]) PROVE S[q][k] # b
    BY <1>4, <1>6, <2>1 DEF Apart
  <2>2. ASSUME NEW k \in 1 .. Len(s) PROVE s[k] # b
    BY <1>4, <1>6, <1>7 DEF Apart
  <2>3. \A q \in ListName : \A k \in 1 .. Len(S2[q]) : S2[q][k] \in Block
    BY <1>12, ConfigSeq
  <2> QED BY <1>13, <2>1, <2>2, <2>3
<1>15. PICK m2 : m2 = [m EXCEPT ![Adr(b)] = JUNK]
  OBVIOUS
<1>16. \A q \in ListName : \A k \in 1 .. Len(S2[q]) : m2[Adr(S2[q][k])] = m[Adr(S2[q][k])]
  BY <1>6, <1>14, <1>15, Addresses DEF Memory
<1>17. \A q \in ListName : Leads(m2, H2[q], S2[q])
  <2>1. \A q \in ListName : Leads(m, H[q], S[q])
    BY DEF Config
  <2>2. \A q \in ListName : q # n => Leads(m2, H2[q], S2[q])
    BY <1>13, <1>16, <2>1 DEF Leads
  <2>3. ASSUME NEW k \in 1 .. Len(s) PROVE m2[Adr(s[k])] = At(s, k + 1)
    <3>1. m2[Adr(s[k])] = m[Adr(s[k])] /\ s[k] = S[n][k + 1] /\ k + 1 \in 1 .. Len(S[n])
      BY <1>7, <1>13, <1>16
    <3>2. m[Adr(S[n][k + 1])] = At(S[n], k + 1 + 1)
      BY <2>1, <3>1 DEF Leads
    <3>3. k + 1 \in 1 .. Len(s) + 1
      BY <1>5, <1>7
    <3>4. At(s, k + 1) = At(S[n], k + 1 + 1)
      BY <1>8, <3>3
    <3> QED BY <3>1, <3>2, <3>4
  <2>4. Leads(m2, H2[n], S2[n])
    BY <1>13, <2>3 DEF Leads
  <2> QED BY <2>2, <2>4
<1>18. Apart(S2)
  <2> SUFFICES ASSUME NEW p \in ListName, NEW q \in ListName,
                      NEW j \in 1 .. Len(S2[p]), NEW k \in 1 .. Len(S2[q]), S2[p][j] = S2[q][k]
               PROVE  p = q /\ j = k
    BY DEF Apart
  <2>2. CASE p = n /\ q = n
    <3>1. /\ j + 1 \in 1 .. Len(S[n]) /\ k + 1 \in 1 .. Len(S[n])
          /\ S[n][j + 1] = S[n][k + 1]
      BY <1>7, <1>13, <2>2
    <3>2. j + 1 = k + 1
      BY <1>4, <3>1 DEF Apart
    <3> QED BY <1>5, <1>7, <1>13, <2>2, <3>2
  <2>3. CASE p = n /\ q # n
    <3>1. j + 1 \in 1 .. Len(S[n]) /\ k \in 1 .. Len(S[q]) /\ S[n][j + 1] = S[q][k]
      BY <1>7, <1>13, <2>3
    <3> QED BY <1>4, <2>3, <3>1 DEF Apart
  <2>4. CASE p # n /\ q = n
    <3>1. k + 1 \in 1 .. Len(S[n]) /\ j \in 1 .. Len(S[p]) /\ S[n][k + 1] = S[p][j]
      BY <1>7, <1>13, <2>4
    <3> QED BY <1>4, <2>4, <3>1 DEF Apart
  <2>5. CASE p # n /\ q # n
    <3>1. j \in 1 .. Len(S[p]) /\ k \in 1 .. Len(S[q]) /\ S[p][j] = S[q][k]
      BY <1>13, <2>5
    <3> QED BY <1>4, <3>1 DEF Apart
  <2> QED BY <2>2, <2>3, <2>4, <2>5
<1>19. Away(S2, L \cup {b})
  <2>1. \A k \in 1 .. Len(s) : s[k] \notin L
    BY <1>4, <1>7 DEF Away
  <2> QED BY <1>4, <1>13, <1>14, <2>1 DEF Away
<1>20. ASSUME NEW a \in Block
       PROVE  (a \in L \cup {b} \/ OnSome(S2, a)) <=> (a \in L \/ OnSome(S, a))
  <2>1. OnSome(S2, a) => OnSome(S, a)
    BY <1>7, <1>13 DEF OnSome
  <2>2. OnSome(S, b)
    BY <1>6 DEF OnSome
  <2>3. OnSome(S, a) => a = b \/ OnSome(S2, a)
    <3> SUFFICES ASSUME NEW q \in ListName, NEW k \in 1 .. Len(S[q]), S[q][k] = a, a # b
                 PROVE  OnSome(S2, a)
      BY DEF OnSome
    <3>1. CASE q # n
      BY <1>13, <3>1 DEF OnSome
    <3>2. CASE q = n
      <4>1. k # 1
        BY <1>6, <3>2
      <4>2. k - 1 \in 1 .. Len(s) /\ s[k - 1] = S[n][k - 1 + 1] /\ k - 1 + 1 = k
        BY <1>5, <1>7, <3>2, <4>1
      <4> QED BY <1>13, <3>2, <4>2 DEF OnSome
    <3> QED BY <3>1, <3>2
  <2> QED BY <2>1, <2>2, <2>3
<1>21. L \cup {b} \in SUBSET Block /\ c \in 0 .. RESERVED
  BY <1>6 DEF Config
<1>22. \A a \in Block : a <= c <=> (a \in L \cup {b} \/ OnSome(S2, a))
  BY <1>20 DEF Config
<1>23. Config(m2, H2, S2, L \cup {b}, c)
  BY <1>12, <1>17, <1>18, <1>19, <1>21, <1>22 DEF Config
<1>24. H[n] = Adr(b)
  BY <1>5, <1>6
<1>25. Config([m EXCEPT ![H[n]] = JUNK], [H EXCEPT ![n] = m[H[n]]],
              [S EXCEPT ![n] = Tail(@)], L \cup {b}, c)
  BY <1>1, <1>2, <1>9, <1>10, <1>15, <1>23, <1>24
<1> QED BY <1>3, <1>5, <1>6, <1>24, <1>25

\* the memory, the heads and the lists after list f has gone in front of list t
MemMoved(m, H, S, f, t) == [m EXCEPT ![Adr(S[f][Len(S[f])])] = H[t]]
HeadsMoved(H, f, t) ==
  [n \in ListName |-> IF n = f THEN NULL ELSE IF n = t THEN H[f] ELSE H[n]]
ListsMoved(S, f, t) == [S EXCEPT ![f] = <<>>, ![t] = S[f] \o @]

\* All of a list goes in front of another: its last block is linked to the head
\* of the other.
LEMMA ConfigMove ==
  ASSUME NEW m \in Memory, NEW H, NEW S, NEW L, NEW c, Config(m, H, S, L, c),
         NEW f \in ListName, NEW t \in ListName, f # t, S[f] # <<>>
  PROVE  Config(MemMoved(m, H, S, f, t), HeadsMoved(H, f, t), ListsMoved(S, f, t), L, c)
<1>1. PICK s : s = S[f] \o S[t]
  OBVIOUS
<1>2. PICK S2 : S2 = [n \in ListName |-> IF n = f THEN <<>> ELSE IF n = t THEN s ELSE S[n]]
  OBVIOUS
<1>3. PICK H2 : H2 = [n \in ListName |-> IF n = f THEN NULL ELSE IF n = t THEN H[f] ELSE H[n]]
  OBVIOUS
<1>4. /\ S \in [ListName -> Seq(Block)] /\ H \in [ListName -> Link] /\ Apart(S) /\ Away(S, L)
      /\ \A n \in ListName : Leads(m, H[n], S[n])
  BY DEF Config
<1>5. PICK F : F = S[f]
  OBVIOUS
<1>6. PICK T : T = S[t]
  OBVIOUS
<1>7. /\ F \in Seq(Block) /\ Len(F) \in Nat /\ Len(F) # 0
      /\ \A k \in 1 .. Len(F) : F[k] \in Block
  BY <1>4, <1>5, ConfigSeq
<1>8. /\ T \in Seq(Block) /\ Len(T) \in Nat
      /\ \A k \in 1 .. Len(T) : T[k] \in Block
  BY <1>4, <1>6, ConfigSeq
<1>9. /\ s \in Seq(Block) /\ Len(s) = Len(F) + Len(T)
      /\ \A i \in 1 .. Len(F) + Len(T) : s[i] = IF i <= Len(F) THEN F[i] ELSE T[i - Len(F)]
  BY <1>1, <1>5, <1>6, <1>7, <1>8, ConcatProperties
<1>10. \A i \in 1 .. Len(s) : \/ i \in 1 .. Len(F) /\ s[i] = F[i]
                              \/ /\ i > Len(F) /\ i - Len(F) \in 1 .. Len(T)
                                 /\ s[i] = T[i - Len(F)]
  BY <1>7, <1>8, <1>9
<1>11. /\ \A i \in 1 .. Len(F) : i \in 1 .. Len(s) /\ s[i] = F[i]
       /\ \A i \in 1 .. Len(T) : i + Len(F) \in 1 .. Len(s) /\ s[i + Len(F)] = T[i]
  <2>1. ASSUME NEW i \in 1 .. Len(T) PROVE i + Len(F) \in 1 .. Len(s) /\ s[i + Len(F)] = T[i]
    <3>1. i + Len(F) \in 1 .. Len(F) + Len(T) /\ ~(i + Len(F) <= Len(F)) /\ i + Len(F) - Len(F) = i
      BY <1>7, <1>8
    <3> QED BY <1>9, <3>1
  <2> QED BY <1>7, <1>8, <1>9, <2>1
<1>12. <<>> \in Seq(Block) /\ Len(<<>>) = 0 /\ NULL \in Link
  BY EmptySeq DEF Link
<1>13. S2 \in [ListName -> Seq(Block)] /\ H2 \in [ListName -> Link]
  BY <1>2, <1>3, <1>4, <1>9, <1>12
<1>14. /\ S2[f] = <<>> /\ S2[t] = s /\ H2[f] = NULL /\ H2[t] = H[f]
       /\ \A n \in ListName : n # f /\ n # t => S2[n] = S[n] /\ H2[n] = H[n]
  BY <1>2, <1>3
<1>15. PICK z : z = F[Len(F)]
  OBVIOUS
<1>16. Len(F) \in 1 .. Len(F) /\ z \in Block /\ Adr(z) \in Address
  <2>1. Len(F) \in 1 .. Len(F)
    BY <1>7
  <2> QED BY <1>7, <1>15, <2>1, Addresses
<1>17. PICK m2 : m2 = [m EXCEPT ![Adr(z)] = H[t]]
  OBVIOUS
<1>18. m2[Adr(z)] = H[t] /\ \A b \in Block : b # z => m2[Adr(b)] = m[Adr(b)]
  BY <1>16, <1>17, Addresses DEF Memory
<1>19. /\ \A k \in 1 .. Len(F) : k # Len(F) => F[k] # z
       /\ \A n \in ListName : n # f => \A k \in 1 .. Len(S[n]) : S[n][k] # z /\ S[n][k] \in Block
  <2>1. ASSUME NEW k \in 1 .. Len(F), F[k] = z PROVE k = Len(F)
    BY <1>4, <1>5, <1>15, <1>16, <2>1 DEF Apart
  <2>2. ASSUME NEW n \in ListName, n # f, NEW k \in 1 .. Len(S[n]) PROVE S[n][k] # z
    BY <1>4, <1>5, <1>15, <1>16, <2>2 DEF Apart
  <2>3. \A n \in ListName : \A k \in 1 .. Len(S[n]) : S[n][k] \in Block
    BY <1>4, ConfigSeq
  <2> QED BY <2>1, <2>2, <2>3
<1>20. Leads(m2, H[f], s)
  <2>1. Leads(m, H[f], F) /\ Leads(m, H[t], T)
    BY <1>4, <1>5, <1>6
  <2>2. At(s, 1) = At(F, 1)
    <3>1. 1 \in 1 .. Len(F)
      BY <1>7
    <3> QED BY <1>11, <3>1 DEF At
  <2>3. ASSUME NEW k \in 1 .. Len(s) PROVE m2[Adr(s[k])] = At(s, k + 1)
    <3>1. CASE k \in 1 .. Len(F) /\ k # Len(F)
      <4>1. s[k] = F[k] /\ F[k] # z /\ F[k] \in Block /\ m[Adr(F[k])] = At(F, k + 1)
        BY <1>7, <1>11, <1>19, <2>1, <3>1 DEF Leads
      <4>2. k + 1 \in 1 .. Len(F) /\ k + 1 \in 1 .. Len(s) /\ s[k + 1] = F[k + 1]
        BY <1>7, <1>11, <3>1
      <4>3. At(s, k + 1) = At(F, k + 1)
        BY <4>2 DEF At
      <4> QED BY <1>18, <4>1, <4>3
    <3>2. CASE k = Len(F)
      <4>1. s[k] = z
        BY <1>11, <1>15, <1>16, <3>2
      <4>2. At(s, Len(F) + 1) = At(T, 1)
        <5>1. CASE Len(T) = 0
          <6>1. 1 \notin 1 .. Len(T) /\ Len(F) + 1 \notin 1 .. Len(s)
            BY <1>7, <1>8, <1>9, <5>1
          <6> QED BY <6>1 DEF At
        <5>2. CASE Len(T) # 0
          <6>1. 1 \in 1 .. Len(T)
            BY <1>8, <5>2
          <6>2. 1 + Len(F) \in 1 .. Len(s) /\ s[1 + Len(F)] = T[1] /\ 1 + Len(F) = Len(F) + 1
            BY <1>7, <1>11, <6>1
          <6> QED BY <6>1, <6>2 DEF At
        <5> QED BY <5>1, <5>2
      <4> QED BY <1>18, <2>1, <3>2, <4>1, <4>2 DEF Leads
    <3>3. CASE k > Len(F)
      <4>1. PICK i \in 1 .. Len(T) : i = k - Len(F)
        BY <1>7, <1>8, <1>9, <3>3
      <4>2. s[k] = T[i] /\ T[i] \in Block /\ T[i] # z /\ m[Adr(T[i])] = At(T, i + 1)
        <5>1. s[k] = T[i]
          BY <1>7, <1>10, <3>3, <4>1
        <5>2. T[i] \in Block /\ T[i] # z
          BY <1>6, <1>19
        <5> QED BY <2>1, <5>1, <5>2 DEF Leads
      <4>3. At(s, k + 1) = At(T, i + 1)
        <5>1. CASE i = Len(T)
          <6>1. i + 1 \notin 1 .. Len(T) /\ k + 1 \notin 1 .. Len(s)
            BY <1>7, <1>8, <1>9, <4>1, <5>1
          <6> QED BY <6>1 DEF At
        <5>2. CASE i # Len(T)
          <6>1. i + 1 \in 1 .. Len(T)
            BY <1>8, <5>2
          <6>2. i + 1 + Len(F) = k + 1
            BY <1>7, <4>1
          <6>3. k + 1 \in 1 .. Len(s) /\ s[k + 1] = T[i + 1]
            BY <1>11, <6>1, <6>2
          <6> QED BY <6>1, <6>3 DEF At
        <5> QED BY <5>1, <5>2
      <4> QED BY <1>18, <4>2, <4>3
    <3> QED BY <1>7, <1>9, <3>1, <3>2, <3>3
  <2> QED BY <2>1, <2>2, <2>3 DEF Leads
<1>21. \A n \in ListName : Leads(m2, H2[n], S2[n])
  <2>1. Leads(m2, H2[f], S2[f])
    BY <1>12, <1>14 DEF Leads, At
  <2>2. \A n \in ListName : n # f /\ n # t => Leads(m2, H2[n], S2[n])
    BY <1>4, <1>14, <1>18, <1>19 DEF Leads
  <2> QED BY <1>14, <1>20, <2>1, <2>2
\* where the j-th block of list n was before
<1>22. \A n \in ListName : \A j \in 1 .. Len(S2[n]) :
         \E p \in ListName : \E i \in 1 .. Len(S[p]) :
           /\ S2[n][j] = S[p][i]
           /\ n # t => p = n /\ i = j
           /\ n = t => \/ p = f /\ i = j
                       \/ p = t /\ i = j - Len(F)
  <2> SUFFICES ASSUME NEW n \in ListName, NEW j \in 1 .. Len(S2[n])
               PROVE  \E p \in ListName : \E i \in 1 .. Len(S[p]) :
                        /\ S2[n][j] = S[p][i]
                        /\ n # t => p = n /\ i = j
                        /\ n = t => \/ p = f /\ i = j
                                    \/ p = t /\ i = j - Len(F)
    OBVIOUS
  <2>1. n # f
    BY <1>12, <1>14
  <2>2. CASE n # t
    BY <1>14, <2>1, <2>2
  <2>3. CASE n = t
    <3>1. j \in 1 .. Len(s) /\ S2[n][j] = s[j]
      BY <1>14, <2>3
    <3>2. CASE j \in 1 .. Len(F) /\ s[j] = F[j]
      BY <1>5, <2>3, <3>1, <3>2
    <3>3. CASE j - Len(F) \in 1 .. Len(T) /\ s[j] = T[j - Len(F)]
      BY <1>6, <2>3, <3>1, <3>3
    <3> QED BY <1>10, <3>1, <3>2, <3>3
  <2> QED BY <2>2, <2>3
<1>23. Apart(S2)
  <2> SUFFICES ASSUME NEW n \in ListName, NEW q \in ListName,
                      NEW j \in 1 .. Len(S2[n]), NEW k \in 1 .. Len(S2[q]), S2[n][j] = S2[q][k]
               PROVE  n = q /\ j = k
    BY DEF Apart
  <2>6. PICK n0 \in ListName : \E i \in 1 .. Len(S[n0]) :
           /\ S2[n][j] = S[n0][i]
           /\ n # t => n0 = n /\ i = j
           /\ n = t => \/ n0 = f /\ i = j
                       \/ n0 = t /\ i = j - Len(F)
    BY <1>22
  <2>1. PICK j0 \in 1 .. Len(S[n0]) :
           /\ S2[n][j] = S[n0][j0]
           /\ n # t => n0 = n /\ j0 = j
           /\ n = t => \/ n0 = f /\ j0 = j
                       \/ n0 = t /\ j0 = j - Len(F)
    BY <2>6
  <2>7. PICK q0 \in ListName : \E i \in 1 .. Len(S[q0]) :
           /\ S2[q][k] = S[q0][i]
           /\ q # t => q0 = q /\ i = k
           /\ q = t => \/ q0 = f /\ i = k
                       \/ q0 = t /\ i = k - Len(F)
    BY <1>22
  <2>2. PICK k0 \in 1 .. Len(S[q0]) :
           /\ S2[q][k] = S[q0][k0]
           /\ q # t => q0 = q /\ k0 = k
           /\ q = t => \/ q0 = f /\ k0 = k
                       \/ q0 = t /\ k0 = k - Len(F)
    BY <2>7
  <2>8. S[n0][j0] = S[q0][k0]
    BY <2>1, <2>2
  <2>3. n0 = q0 /\ j0 = k0
    BY <1>4, <2>8 DEF Apart
  <2>4. n # f /\ q # f
    BY <1>12, <1>14
  <2>5. j \in Int /\ k \in Int /\ Len(F) \in Int
    BY <1>7
  <2> QED BY <2>1, <2>2, <2>3, <2>4, <2>5
<1>30. \A n \in ListName : \A j \in 1 .. Len(S2[n]) : OnSome(S, S2[n][j])
  <2> SUFFICES ASSUME NEW n \in ListName, NEW j \in 1 .. Len(S2[n]) PROVE OnSome(S, S2[n][j])
    OBVIOUS
  <2>1. PICK p \in ListName : \E i \in 1 .. Len(S[p]) :
           /\ S2[n][j] = S[p][i]
           /\ n # t => p = n /\ i = j
           /\ n = t => \/ p = f /\ i = j
                       \/ p = t /\ i = j - Len(F)
    BY <1>22
  <2>2. PICK i \in 1 .. Len(S[p]) : S2[n][j] = S[p][i]
    BY <2>1
  <2> QED BY <2>2 DEF OnSome
<1>24. Away(S2, L)
  <2> SUFFICES ASSUME NEW n \in ListName, NEW j \in 1 .. Len(S2[n]) PROVE S2[n][j] \notin L
    BY DEF Away
  <2>1. PICK p \in ListName : \E i \in 1 .. Len(S[p]) : S[p][i] = S2[n][j]
    BY <1>30 DEF OnSome
  <2>2. Away(S, L)
    BY <1>4
  <2> QED BY <2>1, <2>2 DEF Away
<1>25. ASSUME NEW a \in Block PROVE OnSome(S2, a) <=> OnSome(S, a)
  <2>1. OnSome(S2, a) => OnSome(S, a)
    <3> SUFFICES ASSUME OnSome(S2, a) PROVE OnSome(S, a)
      OBVIOUS
    <3>1. PICK n \in ListName : \E j \in 1 .. Len(S2[n]) : S2[n][j] = a
      BY DEF OnSome
    <3>2. PICK j \in 1 .. Len(S2[n]) : S2[n][j] = a
      BY <3>1
    <3>3. OnSome(S, S2[n][j])
      BY <1>30
    <3> QED BY <3>2, <3>3
  <2>2. ASSUME NEW q \in ListName, NEW k \in 1 .. Len(S[q]), S[q][k] = a PROVE OnSome(S2, a)
    <3>1. CASE q = f
      BY <1>5, <1>11, <1>14, <2>2, <3>1 DEF OnSome
    <3>2. CASE q = t
      BY <1>6, <1>11, <1>14, <2>2, <3>2 DEF OnSome
    <3>3. CASE q # f /\ q # t
      BY <1>14, <2>2, <3>3 DEF OnSome
    <3> QED BY <3>1, <3>2, <3>3
  <2>3. OnSome(S, a) => OnSome(S2, a)
    BY <2>2 DEF OnSome
  <2> QED BY <2>1, <2>3
<1>26. L \in SUBSET Block /\ c \in 0 .. RESERVED
  BY DEF Config
<1>27. \A a \in Block : a <= c <=> (a \in L \/ OnSome(S2, a))
  BY <1>25 DEF Config
<1>28. Config(m2, H2, S2, L, c)
  BY <1>13, <1>21, <1>23, <1>24, <1>26, <1>27 DEF Config
<1>29. S2 = ListsMoved(S, f, t)
  BY <1>1, <1>2, <1>4 DEF ListsMoved
<1> QED BY <1>3, <1>5, <1>15, <1>17, <1>28, <1>29 DEF MemMoved, HeadsMoved

\* The next e blocks, linked in the order of their addresses, are the free list
\* if there was none.
LEMMA ConfigExtend ==
  ASSUME NEW m, NEW H, NEW S, NEW L, NEW c, Config(m, H, S, L, c), S["free"] = <<>>,
         NEW e \in 1 .. RESERVED - c,
         NEW m2, \A b \in Block : b <= c => m2[Adr(b)] = m[Adr(b)],
         \A b \in c + 1 .. c + e : m2[Adr(b)] = IF b < c + e THEN Adr(b + 1) ELSE NULL
  PROVE  Config(m2, [H EXCEPT !["free"] = Adr(c + 1)],
                [S EXCEPT !["free"] = [k \in 1 .. e |-> c + k] \o @], L, c + e)
<1>1. PICK s : s = [k \in 1 .. e |-> c + k]
  OBVIOUS
<1>2. PICK S2 : S2 = [S EXCEPT !["free"] = s]
  OBVIOUS
<1>3. PICK H2 : H2 = [H EXCEPT !["free"] = Adr(c + 1)]
  OBVIOUS
<1>4. /\ S \in [ListName -> Seq(Block)] /\ H \in [ListName -> Link] /\ Apart(S) /\ Away(S, L)
      /\ \A n \in ListName : Leads(m, H[n], S[n])
      /\ c \in 0 .. RESERVED /\ L \in SUBSET Block
      /\ \A b \in Block : b <= c <=> (b \in L \/ OnSome(S, b))
  BY DEF Config
<1>5. c \in Nat /\ RESERVED \in Nat /\ e \in Nat /\ c + e <= RESERVED /\ c + e \in 0 .. RESERVED
  BY <1>4, ReservedAssumption
<1>6. \A k \in 1 .. e : s[k] = c + k /\ c + k \in Block /\ c + k \in c + 1 .. c + e
  BY <1>1, <1>5 DEF Block
<1>7. s \in Seq(Block) /\ Len(s) = e
  <2>1. s \in [1 .. e -> Block]
    BY <1>1, <1>6
  <2>2. s \in Seq(Block)
    BY <1>5, <2>1, SeqDef
  <2>3. Len(s) \in Nat /\ 1 .. Len(s) = 1 .. e
    BY <2>1, <2>2, LenProperties
  <2>4. Len(s) = e
    BY <1>5, <2>3
  <2> QED BY <2>2, <2>4
<1>8. S2 = [S EXCEPT !["free"] = s \o @]
  BY <1>2, <1>4, <1>7, ConcatEmptySeq DEF ListName
<1>9. "free" \in ListName
  BY DEF ListName
<1>10. c + 1 \in Block /\ Adr(c + 1) \in Link
  <2>1. c + 1 \in Block
    BY <1>5 DEF Block
  <2> QED BY <2>1, Addresses DEF Link
<1>11. S2 \in [ListName -> Seq(Block)] /\ H2 \in [ListName -> Link]
  BY <1>2, <1>3, <1>4, <1>7, <1>10
<1>12. /\ S2["free"] = s /\ H2["free"] = Adr(c + 1)
       /\ \A n \in ListName : n # "free" => S2[n] = S[n] /\ H2[n] = H[n]
  BY <1>2, <1>3, <1>4, <1>9
<1>13. Leads(m2, Adr(c + 1), s)
  <2>1. At(s, 1) = Adr(c + 1)
    <3>1. 1 \in 1 .. Len(s) /\ 1 \in 1 .. e
      BY <1>5, <1>7
    <3> QED BY <1>6, <3>1 DEF At
  <2>2. ASSUME NEW k \in 1 .. Len(s) PROVE m2[Adr(s[k])] = At(s, k + 1)
    <3>1. PICK b \in c + 1 .. c + e : b = c + k
      BY <1>6, <1>7
    <3>2. s[k] = b
      BY <1>6, <1>7, <3>1
    <3>3. CASE k = e
      <4>1. ~(b < c + e) /\ k + 1 \notin 1 .. Len(s)
        BY <1>5, <1>7, <3>1, <3>3
      <4> QED BY <3>2, <4>1 DEF At
    <3>4. CASE k # e
      <4>1. b < c + e /\ k + 1 \in 1 .. Len(s) /\ k + 1 \in 1 .. e /\ b + 1 = c + (k + 1)
        BY <1>5, <1>7, <3>1, <3>4
      <4>2. s[k + 1] = b + 1
        BY <1>6, <4>1
      <4> QED BY <3>2, <4>1, <4>2 DEF At
    <3> QED BY <3>3, <3>4
  <2> QED BY <2>1, <2>2 DEF Leads
<1>14. \A n \in ListName : \A k \in 1 .. Len(S[n]) : S[n][k] \in Block /\ S[n][k] <= c
  <2>1. \A n \in ListName : \A k \in 1 .. Len(S[n]) : S[n][k] \in Block
    BY <1>4, ConfigSeq
  <2> QED BY <1>4, <2>1 DEF OnSome
<1>15. \A n \in ListName : Leads(m2, H2[n], S2[n])
  <2>1. \A n \in ListName : n # "free" => Leads(m2, H2[n], S2[n])
    BY <1>4, <1>12, <1>14 DEF Leads
  <2> QED BY <1>12, <1>13, <2>1
<1>16. \A k \in 1 .. e : ~(s[k] <= c)
  BY <1>5, <1>6
<1>17. Apart(S2)
  <2> SUFFICES ASSUME NEW n \in ListName, NEW q \in ListName,
                      NEW j \in 1 .. Len(S2[n]), NEW k \in 1 .. Len(S2[q]), S2[n][j] = S2[q][k]
               PROVE  n = q /\ j = k
    BY DEF Apart
  <2>1. CASE n = "free" /\ q = "free"
    <3>1. j \in 1 .. e /\ k \in 1 .. e /\ s[j] = s[k]
      BY <1>7, <1>12, <2>1
    <3>2. c + j = c + k
      BY <1>6, <3>1
    <3> QED BY <1>5, <2>1, <3>1, <3>2
  <2>2. CASE n = "free" /\ q # "free"
    BY <1>7, <1>12, <1>14, <1>16, <2>2
  <2>3. CASE n # "free" /\ q = "free"
    BY <1>7, <1>12, <1>14, <1>16, <2>3
  <2>4. CASE n # "free" /\ q # "free"
    <3>1. j \in 1 .. Len(S[n]) /\ k \in 1 .. Len(S[q]) /\ S[n][j] = S[q][k]
      BY <1>12, <2>4
    <3> QED BY <1>4, <3>1 DEF Apart
  <2> QED BY <2>1, <2>2, <2>3, <2>4
<1>18. Away(S2, L)
  <2>1. ASSUME NEW k \in 1 .. Len(s) PROVE s[k] \notin L
    <3>1. k \in 1 .. e /\ s[k] \in Block
      BY <1>6, <1>7
    <3> QED BY <1>4, <1>16, <3>1
  <2> QED BY <1>4, <1>12, <2>1 DEF Away
<1>19. ASSUME NEW b \in Block PROVE b <= c + e <=> (b \in L \/ OnSome(S2, b))
  <2>1. CASE b <= c
    <3>1. ASSUME OnSome(S, b) PROVE OnSome(S2, b)
      <4>1. PICK n \in ListName : \E k \in 1 .. Len(S[n]) : S[n][k] = b
        BY <3>1 DEF OnSome
      <4>2. n # "free"
        BY <4>1, EmptySeq
      <4> QED BY <1>12, <4>1, <4>2 DEF OnSome
    <3>2. b <= c + e
      BY <1>5, <2>1 DEF Block
    <3> QED BY <1>4, <2>1, <3>1, <3>2
  <2>2. CASE b > c /\ b <= c + e
    <3>1. PICK k \in 1 .. e : k = b - c
      BY <1>5, <2>2 DEF Block
    <3>2. s[k] = b
      BY <1>5, <1>6, <3>1 DEF Block
    <3> QED BY <1>7, <1>9, <1>12, <2>2, <3>2 DEF OnSome
  <2>3. CASE b > c + e
    <3>1. ~(b <= c) /\ ~(b <= c + e)
      BY <1>5, <2>3 DEF Block
    <3>2. \A k \in 1 .. Len(s) : s[k] # b
      BY <1>5, <1>6, <1>7, <2>3 DEF Block
    <3>3. ~OnSome(S2, b)
      BY <1>12, <1>14, <3>1, <3>2 DEF OnSome
    <3> QED BY <1>4, <3>1, <3>3
  <2> QED BY <1>5, <2>1, <2>2, <2>3 DEF Block
<1>20. Config(m2, H2, S2, L, c + e)
  BY <1>4, <1>5, <1>11, <1>15, <1>17, <1>18, <1>19 DEF Config
<1> QED BY <1>1, <1>3, <1>8, <1>20

\* The blocks of a list that has none twice are as many as it is long.
LEMMA ListCount ==
  ASSUME NEW s \in Seq(Block), \A j, k \in 1 .. Len(s) : s[j] = s[k] => j = k
  PROVE  /\ IsFiniteSet({s[k] : k \in 1 .. Len(s)})
         /\ Cardinality({s[k] : k \in 1 .. Len(s)}) = Len(s)
         /\ Len(s) \in 0 .. RESERVED
<1>1. PICK T : T = {s[k] : k \in 1 .. Len(s)}
  OBVIOUS
<1>2. Len(s) \in Nat /\ s \in [1 .. Len(s) -> Block]
  BY LenProperties
<1>3. PICK I : I = 1 .. Len(s)
  OBVIOUS
<1>4. IsFiniteSet(I) /\ Cardinality(I) = Len(s)
  <2>1. IsFiniteSet(I) /\ Cardinality(I) = IF 1 > Len(s) THEN 0 ELSE Len(s) - 1 + 1
    BY <1>2, <1>3, FS_Interval
  <2> QED BY <1>2, <2>1
<1>5. s \in Bijection(I, T)
  BY <1>1, <1>2, <1>3 DEF Bijection, Injection, Surjection, IsInjective
<1>6. ExistsBijection(I, T)
  BY <1>5 DEF ExistsBijection
<1>7. IsFiniteSet(T) /\ Cardinality(T) = Len(s)
  BY <1>4, <1>6, FS_Bijection
<1>8. s \in Injection(I, Block)
  BY <1>2, <1>3 DEF Injection, IsInjective
<1>9. IsFiniteSet(Block) /\ Cardinality(Block) = RESERVED
  <2>1. IsFiniteSet(Block) /\ Cardinality(Block) = IF 1 > RESERVED THEN 0 ELSE RESERVED - 1 + 1
    BY ReservedAssumption, FS_Interval DEF Block
  <2> QED BY <2>1, ReservedAssumption
<1>10. Cardinality(I) <= Cardinality(Block)
  BY <1>8, <1>9, FS_Injection
<1>11. Len(s) \in 0 .. RESERVED
  <2>1. Len(s) <= RESERVED
    BY <1>4, <1>9, <1>10
  <2> QED BY <1>2, <2>1, ReservedAssumption
<1> QED BY <1>1, <1>7, <1>11

Home(S, b) == \/ \E k \in 1 .. Len(S["free"]) : S["free"][k] = b
              \/ \E k \in 1 .. Len(S["local_free"]) : S["local_free"][k] = b

AllHome(S, L, c) ==
  /\ L = {}
  /\ \A n \in ListName \ {"free", "local_free"} : S[n] = <<>>
  /\ \A b \in Block : b <= c => Home(S, b)

\* A page that has all its blocks on its own two lists has nothing elsewhere.
LEMMA ConfigCount ==
  ASSUME NEW m, NEW H, NEW S, NEW L, NEW c, Config(m, H, S, L, c),
         Len(S["free"]) + Len(S["local_free"]) = c
  PROVE  AllHome(S, L, c)
<1>1. PICK F : F = S["free"]
  OBVIOUS
<1>2. PICK T : T = S["local_free"]
  OBVIOUS
<1>3. "free" \in ListName /\ "local_free" \in ListName
  BY DEF ListName
<1>4. /\ S \in [ListName -> Seq(Block)] /\ Apart(S) /\ Away(S, L)
      /\ c \in 0 .. RESERVED /\ L \in SUBSET Block
      /\ \A b \in Block : b <= c <=> (b \in L \/ OnSome(S, b))
  BY DEF Config
<1>5. F \in Seq(Block) /\ T \in Seq(Block) /\ Len(F) \in Nat /\ Len(T) \in Nat
  BY <1>1, <1>2, <1>3, <1>4, ConfigSeq
<1>6. /\ \A j, k \in 1 .. Len(F) : F[j] = F[k] => j = k
      /\ \A j, k \in 1 .. Len(T) : T[j] = T[k] => j = k
      /\ \A j \in 1 .. Len(F), k \in 1 .. Len(T) : F[j] # T[k]
  BY <1>1, <1>2, <1>3, <1>4 DEF Apart
<1>7. PICK A : A = {F[k] : k \in 1 .. Len(F)}
  OBVIOUS
<1>8. PICK B : B = {T[k] : k \in 1 .. Len(T)}
  OBVIOUS
<1>9. /\ IsFiniteSet(A) /\ Cardinality(A) = Len(F)
      /\ IsFiniteSet(B) /\ Cardinality(B) = Len(T)
  BY <1>5, <1>6, <1>7, <1>8, ListCount
<1>10. A \cap B = {}
  BY <1>6, <1>7, <1>8
<1>11. IsFiniteSet(A \cup B) /\ Cardinality(A \cup B) = c
  <2>1. Cardinality(A \cap B) = 0
    BY <1>10, FS_EmptySet
  <2>2. IsFiniteSet(A \cup B) /\ Cardinality(A \cup B) = Len(F) + Len(T) - 0
    BY <1>9, <2>1, FS_Union
  <2>3. Len(F) + Len(T) = c
    BY <1>1, <1>2
  <2>4. Len(F) + Len(T) - 0 = Len(F) + Len(T)
    BY <1>5
  <2> QED BY <2>2, <2>3, <2>4
<1>12. \A b \in A \cup B : b \in Block /\ OnSome(S, b)
  <2>1. \A k \in 1 .. Len(F) : F[k] \in Block /\ OnSome(S, F[k])
    BY <1>1, <1>3, <1>4, ConfigSeq DEF OnSome
  <2>2. \A k \in 1 .. Len(T) : T[k] \in Block /\ OnSome(S, T[k])
    BY <1>2, <1>3, <1>4, ConfigSeq DEF OnSome
  <2> QED BY <1>7, <1>8, <2>1, <2>2
<1>13. A \cup B \subseteq 1 .. c
  BY <1>4, <1>12 DEF Block
<1>14. IsFiniteSet(1 .. c) /\ Cardinality(1 .. c) = c
  <2>1. c \in Nat
    BY <1>4
  <2>2. IsFiniteSet(1 .. c) /\ Cardinality(1 .. c) = IF 1 > c THEN 0 ELSE c - 1 + 1
    BY <2>1, FS_Interval
  <2> QED BY <2>1, <2>2
<1>15. A \cup B = 1 .. c
  <2>1. PICK C : C = 1 .. c
    OBVIOUS
  <2>2. A \cup B \in SUBSET C /\ Cardinality(C) = Cardinality(A \cup B) /\ IsFiniteSet(C)
    BY <1>11, <1>13, <1>14, <2>1
  <2> QED BY <2>1, <2>2, FS_Subset
<1>16. \A b \in Block : b <= c => b \in A \cup B
  BY <1>4, <1>15 DEF Block
<1>17. L = {}
  <2> SUFFICES ASSUME NEW b \in L PROVE FALSE
    OBVIOUS
  <2>1. b \in A \cup B
    BY <1>4, <1>16
  <2> QED BY <1>1, <1>2, <1>3, <1>4, <1>7, <1>8, <2>1 DEF Away
<1>18. ASSUME NEW n \in ListName \ {"free", "local_free"} PROVE S[n] = <<>>
  <2> SUFFICES ASSUME S[n] # <<>> PROVE FALSE
    OBVIOUS
  <2>1. Len(S[n]) \in Nat /\ Len(S[n]) # 0 /\ 1 \in 1 .. Len(S[n]) /\ S[n][1] \in Block
    BY <1>4, ConfigSeq
  <2>2. S[n][1] <= c
    BY <1>4, <2>1 DEF OnSome
  <2>3. S[n][1] \in A \cup B
    BY <1>16, <2>1, <2>2
  <2> QED BY <1>1, <1>2, <1>3, <1>4, <1>7, <1>8, <2>1, <2>3 DEF Apart
<1>19. \A b \in Block : b <= c => Home(S, b)
  BY <1>1, <1>2, <1>7, <1>8, <1>16 DEF Home
<1> QED BY <1>17, <1>18, <1>19 DEF AllHome

-----------------------------------------------------------------------------
(* The lists of the specification                                           *)

\* what the definition of Blocks walks along
Walk(head) ==
  CHOOSE f : f = [n \in 0 .. RESERVED + 1 |->
                    IF n = 0 THEN head ELSE IF f[n - 1] \in Address THEN mem[f[n - 1]] ELSE NULL]

LEMMA BlocksAre ==
  ASSUME NEW s \in Seq(Block), \A j, k \in 1 .. Len(s) : s[j] = s[k] => j = k,
         NEW h, Leads(mem, h, s)
  PROVE  Blocks(h) = s
<1> DEFINE D == 0 .. RESERVED + 1
           Step(f, n) == IF n = 0 THEN h ELSE IF f[n - 1] \in Address THEN mem[f[n - 1]] ELSE NULL
<1>1. Len(s) \in 0 .. RESERVED /\ Len(s) \in Nat /\ RESERVED \in Nat
  BY ListCount, LenProperties, ReservedAssumption
<1>2. \A k \in 1 .. Len(s) : s[k] \in Block /\ Adr(s[k]) \in Address
  BY ElementOfSeq, Addresses
<1>3. \A k \in Nat : k >= 1 => mem[At(s, k)] = At(s, k + 1) \/ (At(s, k) \notin Address /\ At(s, k + 1) = NULL)
  <2> SUFFICES ASSUME NEW k \in Nat, k >= 1
               PROVE  mem[At(s, k)] = At(s, k + 1) \/ (At(s, k) \notin Address /\ At(s, k + 1) = NULL)
    OBVIOUS
  <2>1. CASE k \in 1 .. Len(s)
    BY <2>1 DEF Leads, At
  <2>2. CASE k \notin 1 .. Len(s)
    <3>1. k + 1 \notin 1 .. Len(s)
      BY <1>1, <2>2
    <3> QED BY <2>2, <3>1, Addresses DEF At
  <2> QED BY <2>1, <2>2
<1>4. \A k \in Nat : At(s, k) \in Address <=> k \in 1 .. Len(s)
  BY <1>2, Addresses DEF At
<1>5. PICK g : g = [n \in D |-> At(s, n + 1)]
  OBVIOUS
<1>6. ASSUME NEW n \in D PROVE g[n] = Step(g, n)
  <2>1. CASE n = 0
    BY <1>5, <2>1 DEF Leads
  <2>2. CASE n # 0
    <3>1. n - 1 \in D /\ n \in Nat /\ n >= 1 /\ n - 1 + 1 = n
      BY <1>1, <2>2
    <3>2. g[n - 1] = At(s, n) /\ g[n] = At(s, n + 1)
      BY <1>5, <3>1
    <3>3. CASE At(s, n) \in Address
      BY <1>3, <2>2, <3>1, <3>2, <3>3
    <3>4. CASE At(s, n) \notin Address
      <4>1. n + 1 \notin 1 .. Len(s)
        BY <1>1, <1>4, <3>1, <3>4
      <4>2. At(s, n + 1) = NULL
        BY <4>1 DEF At
      <4> QED BY <2>2, <3>2, <3>4, <4>2
    <3> QED BY <3>3, <3>4
  <2> QED BY <2>1, <2>2
<1>7. g = [n \in D |-> Step(g, n)]
  BY <1>5, <1>6
<1>8. PICK at : at = Walk(h)
  OBVIOUS
<1>9. at = [n \in D |-> Step(at, n)]
  BY <1>7, <1>8 DEF Walk
<1>10. \A n \in D : at[n] = At(s, n + 1)
  <2> DEFINE G == {n \in Nat : n \in D => at[n] = At(s, n + 1)}
  <2>1. 0 \in G
    <3>1. 0 \in D
      BY <1>1
    <3>2. at[0] = h
      BY <1>9, <3>1
    <3> QED BY <3>2 DEF Leads
  <2>2. ASSUME NEW n \in Nat, n \in G PROVE n + 1 \in G
    <3> SUFFICES ASSUME n + 1 \in D PROVE at[n + 1] = At(s, n + 1 + 1)
      OBVIOUS
    <3>1. n \in D /\ n + 1 # 0 /\ n + 1 - 1 = n
      BY <1>1
    <3>2. at[n] = At(s, n + 1)
      BY <2>2, <3>1
    <3>3. at[n + 1] = Step(at, n + 1)
      BY <1>9
    <3>4. at[n + 1] = IF At(s, n + 1) \in Address THEN mem[At(s, n + 1)] ELSE NULL
      BY <3>1, <3>2, <3>3
    <3>5. n + 1 \in Nat /\ n + 1 >= 1 /\ n + 1 + 1 \in Nat
      OBVIOUS
    <3>6. CASE At(s, n + 1) \in Address
      BY <1>3, <3>4, <3>5, <3>6
    <3>7. CASE At(s, n + 1) \notin Address
      <4>1. n + 1 + 1 \notin 1 .. Len(s)
        BY <1>1, <1>4, <3>5, <3>7
      <4>2. At(s, n + 1 + 1) = NULL
        BY <4>1 DEF At
      <4> QED BY <3>4, <3>7, <4>2
    <3> QED BY <3>6, <3>7
  <2>3. Nat \subseteq G
    <3> HIDE DEF G
    <3> QED BY <2>1, <2>2, SetInduction
  <2> QED BY <1>1, <2>3
<1>11. {n \in D : at[n] \in Address} = 0 .. Len(s) - 1
  <2>1. ASSUME NEW n \in D PROVE at[n] \in Address <=> n \in 0 .. Len(s) - 1
    <3>1. n + 1 \in Nat /\ n \in Nat /\ (n + 1 \in 1 .. Len(s) <=> n \in 0 .. Len(s) - 1)
      BY <1>1
    <3> QED BY <1>4, <1>10, <3>1
  <2>2. 0 .. Len(s) - 1 \subseteq D
    BY <1>1
  <2> QED BY <2>1, <2>2
<1>12. Cardinality(0 .. Len(s) - 1) = Len(s)
  <2>1. PICK lo \in Int, hi \in Int : lo = 0 /\ hi = Len(s) - 1
    BY <1>1
  <2>2. Cardinality(lo .. hi) = IF lo > hi THEN 0 ELSE hi - lo + 1
    BY FS_Interval
  <2>3. Cardinality(lo .. hi) = Len(s)
    BY <1>1, <2>1, <2>2
  <2> QED BY <2>1, <2>3
<1>13. Blocks(h) = [n \in 1 .. Cardinality({k \in D : at[k] \in Address}) |-> at[n - 1] \div BSIZE]
  BY <1>8 DEF Blocks, Walk
<1>14. Blocks(h) = [n \in 1 .. Len(s) |-> at[n - 1] \div BSIZE]
  BY <1>11, <1>12, <1>13
<1>15. ASSUME NEW n \in 1 .. Len(s) PROVE at[n - 1] \div BSIZE = s[n]
  <2>1. n - 1 \in D /\ n - 1 + 1 = n
    BY <1>1
  <2>2. at[n - 1] = Adr(s[n])
    BY <1>10, <2>1 DEF At
  <2> QED BY <1>2, <2>2, Numbered
<1>16. s = [n \in 1 .. Len(s) |-> s[n]]
  BY LenProperties
<1> QED BY <1>14, <1>15, <1>16

-----------------------------------------------------------------------------
(* The inductive invariant                                                  *)

RPc == {"idle", "load", "cas", "dload", "dcas", "xor"}
OPc == {"idle", "clear", "check", "disable", "find", "swap", "pop", "try", "trycas", "rload",
        "rcas", "delayed", "collect", "take", "append", "refill", "found"}

Value == Link \cup {JUNK}
PageType == [free : Value, local_free : Value, used : Int, capacity : 0 .. RESERVED,
             in_full : BOOLEAN]
RemoteType == [pc : RPc, blk : Link, word : Word]
OwnerType == [pc : OPc, ret : {"idle", "delayed", "found"}, back : {"idle", "pop"}, ll : Value,
              taken : Value, at : Value, count : Nat, blk : Link, word : Word]

TypeOK ==
  /\ mem \in Memory
  /\ page \in PageType
  /\ xfree \in Word
  /\ dfree \in Link
  /\ held \in SUBSET Address
  /\ r \in [Remote -> RemoteType]
  /\ o \in OwnerType

\* the words and links are lists, and the counter is right
Core ==
  /\ Config(mem, Heads, lists, loose, page.capacity)
  /\ UsedExact

\* a block that is loose is so in one place
Ownership ==
  /\ \A t \in Remote : r[t].blk # NULL =>
       /\ r[t].blk \notin held /\ r[t].blk # o.blk
       /\ \A u \in Remote : u # t => r[u].blk # r[t].blk
  /\ o.blk \notin held

\* A thread between its load and its exchange has linked its block to what it
\* loaded.
RemoteAt(t) ==
  /\ r[t].blk # NULL <=> r[t].pc \in {"load", "cas", "dload", "dcas"}
  /\ r[t].pc = "cas" /\ ~get_is_use_delayed(r[t].word) => mem[r[t].blk] = get_ptr(r[t].word)
  /\ r[t].pc = "dcas" => mem[r[t].blk] = r[t].word

Collecting(y) == y.pc \in {"collect", "take", "append", "refill"}
Freeing(y) == y.pc \in {"clear", "check", "disable"}
HasBlock(y) == \/ y.pc \in {"try", "trycas", "rload", "rcas", "delayed"}
               \/ Collecting(y) /\ y.ret = "delayed"

\* What the owner y has at each point, with memory m, header p and the blocks s
\* on the list it has taken: a walk is at the block it has counted, and only a
\* page without a block in use is cleared.
OwnerFits(y, m, p, s) ==
  /\ ~Collecting(y) => y.ret = "idle"
  /\ ~Freeing(y) => y.back = "idle"
  /\ y.blk # NULL <=> HasBlock(y)
  /\ y.ll # NULL => HasBlock(y) \/ y.pc = "pop" \/ (Freeing(y) /\ y.back = "pop")
  /\ y.pc # "append" => y.taken = NULL
  /\ y.pc = "append" => y.count \in 1 .. Len(s) /\ y.at = Adr(s[y.count])
  /\ y.pc = "rcas" => m[y.blk] = y.word
  /\ y.pc = "clear" => p.used = 0
  /\ y.pc \in {"check", "disable"} => p.capacity = 0

OwnerAt == OwnerFits(o, mem, page, lists["taken"])

IInv ==
  /\ TypeOK
  /\ Core
  /\ Ownership
  /\ \A t \in Remote : RemoteAt(t)
  /\ OwnerAt

-----------------------------------------------------------------------------
(* The state functions of the refinement                                    *)

LEMMA HeadsAre ==
  /\ DOMAIN Heads = ListName
  /\ Heads = [n \in ListName |-> Heads[n]]
  /\ Heads["free"] = page.free
  /\ Heads["local_free"] = page.local_free
  /\ Heads["thread_free"] = get_ptr(xfree)
  /\ Heads["delayed_free"] = dfree
  /\ Heads["taken"] = o.taken
  /\ Heads["popping"] = o.ll
BY DEF Heads, ListName

LEMMA HeadsWillBe ==
  /\ DOMAIN Heads' = ListName
  /\ Heads' = [n \in ListName |-> Heads'[n]]
  /\ Heads'["free"] = page'.free
  /\ Heads'["local_free"] = page'.local_free
  /\ Heads'["thread_free"] = get_ptr(xfree')
  /\ Heads'["delayed_free"] = dfree'
  /\ Heads'["taken"] = o'.taken
  /\ Heads'["popping"] = o'.ll
BY DEF Heads, ListName

LEMMA ListsAre ==
  ASSUME NEW S, NEW L, NEW c, Config(mem, Heads, S, L, c)
  PROVE  lists = S
<1>1. /\ S \in [ListName -> Seq(Block)] /\ Apart(S)
      /\ \A n \in ListName : Leads(mem, Heads[n], S[n])
  BY DEF Config
<1>2. ASSUME NEW n \in ListName PROVE Blocks(Heads[n]) = S[n]
  <2>1. S[n] \in Seq(Block) /\ \A j, k \in 1 .. Len(S[n]) : S[n][j] = S[n][k] => j = k
    BY <1>1 DEF Apart
  <2> QED BY <1>1, <2>1, BlocksAre
<1>3. lists = [n \in ListName |-> Blocks(Heads[n])]
  BY HeadsAre DEF lists
<1> QED BY <1>1, <1>2, <1>3

ListsRight == \A S, L, c : Config(mem, Heads, S, L, c) => lists = S

LEMMA ListsHold == ListsRight
BY ListsAre DEF ListsRight

LEMMA ListsWillBe ==
  ASSUME NEW S, NEW L, NEW c, Config(mem', Heads', S, L, c)
  PROVE  lists' = S
<1>1. ListsRight'
  BY ListsHold, PTL
<1> QED BY <1>1 DEF ListsRight

\* What is loose, by address.
LEMMA LooseAre ==
  ASSUME TypeOK
  PROVE  /\ loose \subseteq Block
         /\ \A b \in Block : b \in loose <=> \/ Adr(b) \in held
                                             \/ Adr(b) = o.blk
                                             \/ \E t \in Remote : Adr(b) = r[t].blk
<1>1. PICK A : A = (held \cup {o.blk} \cup {r[t].blk : t \in Remote}) \ {NULL}
  OBVIOUS
<1>2. A \subseteq Address
  <2>1. o.blk \in Link /\ \A t \in Remote : r[t].blk \in Link
    BY DEF TypeOK, OwnerType, RemoteType
  <2> QED BY <1>1, <2>1 DEF TypeOK, Link
<1>3. loose = {a \div BSIZE : a \in A}
  BY <1>1 DEF loose
<1>4. ASSUME NEW b \in loose PROVE b \in Block /\ Adr(b) \in A
  <2>1. PICK a \in A : b = a \div BSIZE
    BY <1>3
  <2>2. PICK c \in Block : a = Adr(c)
    BY <1>2, Addresses
  <2>3. b = c
    BY <2>1, <2>2, Numbered
  <2> QED BY <2>2, <2>3
<1>5. ASSUME NEW b \in Block, Adr(b) \in A PROVE b \in loose
  BY <1>3, <1>5, Numbered
<1>6. \A b \in Block : Adr(b) \in A <=> \/ Adr(b) \in held
                                        \/ Adr(b) = o.blk
                                        \/ \E t \in Remote : Adr(b) = r[t].blk
  BY <1>1, Addresses
<1> QED BY <1>4, <1>5, <1>6

LooseRight ==
  /\ loose \subseteq Block
  /\ \A b \in Block : b \in loose <=> \/ Adr(b) \in held
                                      \/ Adr(b) = o.blk
                                      \/ \E t \in Remote : Adr(b) = r[t].blk

LEMMA LooseHolds == TypeOK => LooseRight
BY LooseAre DEF LooseRight

LEMMA LooseWillBe ==
  ASSUME TypeOK'
  PROVE  /\ loose' \subseteq Block
         /\ \A b \in Block : b \in loose' <=> \/ Adr(b) \in held'
                                              \/ Adr(b) = o'.blk
                                              \/ \E t \in Remote : Adr(b) = r'[t].blk
<1>1. (TypeOK => LooseRight)'
  BY LooseHolds, PTL
<1>2. LooseRight'
  BY <1>1
<1> QED BY <1>2 DEF LooseRight

\* Addresses of blocks that are loose.
LEMMA LooseAdr ==
  ASSUME TypeOK
  PROVE  /\ \A a \in held : \E b \in loose : a = Adr(b)
         /\ o.blk # NULL => \E b \in loose : o.blk = Adr(b)
         /\ \A t \in Remote : r[t].blk # NULL => \E b \in loose : r[t].blk = Adr(b)
<1>1. held \subseteq Address /\ o.blk \in Address \cup {NULL}
      /\ \A t \in Remote : r[t].blk \in Address \cup {NULL}
  BY DEF TypeOK, OwnerType, RemoteType, Link
<1>2. \A a \in Address : \E b \in Block : a = Adr(b)
  BY Addresses
<1> QED BY <1>1, <1>2, LooseAre

-----------------------------------------------------------------------------
(* The steps of ListSpec                                                    *)

LEMMA CoreLists ==
  ASSUME Core
  PROVE  /\ lists \in [ListName -> Seq(Block)] /\ loose \in SUBSET Block
         /\ page.capacity \in 0 .. RESERVED /\ page.capacity \in Int
         /\ \A n \in ListName : Len(lists[n]) \in Nat
         /\ "free" \in ListName /\ "local_free" \in ListName /\ "thread_free" \in ListName
         /\ "delayed_free" \in ListName /\ "taken" \in ListName /\ "popping" \in ListName
<1>1. lists \in [ListName -> Seq(Block)] /\ loose \in SUBSET Block /\ page.capacity \in 0 .. RESERVED
  BY DEF Core, Config
<1>2. \A n \in ListName : Len(lists[n]) \in Nat
  BY <1>1, ConfigSeq
<1> QED BY <1>1, <1>2, ReservedAssumption DEF ListName

\* Nothing that the lists are made of changes.
LEMMA CoreStays ==
  ASSUME Core, mem' = mem, Heads' = Heads, loose' = loose,
         page'.capacity = page.capacity, page'.used = page.used
  PROVE  Core' /\ lists' = lists
<1>1. Config(mem', Heads', lists, loose', page'.capacity)
  BY DEF Core
<1>2. lists' = lists
  BY <1>1, ListsWillBe
<1>3. Config(mem', Heads', lists', loose', page'.capacity)
  BY <1>1, <1>2
<1>4. UsedExact'
  BY <1>2 DEF Core, UsedExact
<1> QED BY <1>2, <1>3, <1>4 DEF Core

\* The holder of a block writes into it.
LEMMA CoreWrite ==
  ASSUME TypeOK, Core, NEW b \in loose, NEW v, mem' = [mem EXCEPT ![Adr(b)] = v], Heads' = Heads,
         loose' = loose, page'.capacity = page.capacity, page'.used = page.used
  PROVE  Core' /\ lists' = lists
<1>1. Config(mem', Heads', lists, loose', page'.capacity)
  <2>1. mem \in Memory
    BY DEF TypeOK
  <2>2. Config([mem EXCEPT ![Adr(b)] = v], Heads, lists, loose, page.capacity)
    BY <2>1, ConfigWrite DEF Core
  <2> QED BY <2>2
<1>2. lists' = lists
  BY <1>1, ListsWillBe
<1>3. Config(mem', Heads', lists', loose', page'.capacity)
  BY <1>1, <1>2
<1>4. UsedExact'
  BY <1>2 DEF Core, UsedExact
<1> QED BY <1>2, <1>3, <1>4 DEF Core

LEMMA CorePush ==
  ASSUME TypeOK, Core, NEW n \in {"free", "thread_free", "delayed_free"}, NEW b \in loose,
         mem' = [mem EXCEPT ![Adr(b)] = Heads[n]], Heads' = [Heads EXCEPT ![n] = Adr(b)],
         loose' = loose \ {b}, page'.capacity = page.capacity,
         page'.used = page.used - (IF n = "free" THEN 1 ELSE 0)
  PROVE  Core' /\ Lists!Push(n, b) /\ lists'["taken"] = lists["taken"]
<1>1. n \in ListName /\ "taken" \in ListName /\ "taken" # n
  BY DEF ListName
<1>2. PICK S : S = [lists EXCEPT ![n] = <<b>> \o @]
  OBVIOUS
<1>3. mem \in Memory /\ b \in Block
  BY CoreLists DEF TypeOK
<1>4. Config(mem', Heads, lists, loose, page.capacity)
  BY <1>3, ConfigWrite DEF Core
<1>5. mem'[Adr(b)] = Heads[n]
  BY <1>3, Addresses DEF Memory
<1>6. Config(mem', Heads', S, loose', page'.capacity)
  <2>1. Config(mem', [Heads EXCEPT ![n] = Adr(b)], [lists EXCEPT ![n] = <<b>> \o @],
               loose \ {b}, page.capacity)
    BY <1>1, <1>4, <1>5, ConfigPush
  <2> QED BY <1>2, <2>1
<1>7. lists' = S
  BY <1>6, ListsWillBe
<1>8. /\ \A q \in ListName : q # n => lists'[q] = lists[q]
      /\ lists'[n] = <<b>> \o lists[n]
  BY <1>1, <1>2, <1>7, CoreLists
<1>9. Len(lists'[n]) = Len(lists[n]) + 1
  <2>1. <<b>> \in Seq(Block) /\ Len(<<b>>) = 1 /\ lists[n] \in Seq(Block)
    BY <1>1, <1>3, CoreLists
  <2>2. Len(<<b>> \o lists[n]) = 1 + Len(lists[n])
    BY <2>1, ConcatProperties
  <2> QED BY <1>1, <1>8, <2>2, CoreLists
<1>10. UsedExact'
  <2>1. page.used = page.capacity - Len(lists["free"]) - Len(lists["local_free"])
    BY DEF Core, UsedExact
  <2>2. page.used \in Int /\ Len(lists["free"]) \in Nat /\ Len(lists["local_free"]) \in Nat
        /\ page.capacity \in Int
    BY CoreLists DEF TypeOK, PageType
  <2>3. lists'["local_free"] = lists["local_free"]
    BY <1>8, CoreLists
  <2>4. CASE n = "free"
    <3>1. page'.used = page.used - 1 /\ Len(lists'["free"]) = Len(lists["free"]) + 1
      BY <1>9, <2>4
    <3> QED BY <2>1, <2>2, <2>3, <3>1 DEF UsedExact
  <2>5. CASE n # "free"
    <3>1. page'.used = page.used /\ lists'["free"] = lists["free"]
      BY <1>8, <2>2, <2>5, CoreLists
    <3> QED BY <2>1, <2>2, <2>3, <3>1 DEF UsedExact
  <2> QED BY <2>4, <2>5
<1>11. Core'
  BY <1>6, <1>7, <1>10 DEF Core
<1>12. Lists!Push(n, b)
  BY <1>2, <1>7 DEF Lists!Push
<1> QED BY <1>1, <1>8, <1>11, <1>12

LEMMA CorePop ==
  ASSUME TypeOK, Core, NEW n \in {"free", "popping"}, Heads[n] # NULL,
         mem' = [mem EXCEPT ![Heads[n]] = JUNK], Heads' = [Heads EXCEPT ![n] = mem[Heads[n]]],
         loose' \subseteq Block,
         \A b \in Block : b \in loose' <=> (b \in loose \/ Adr(b) = Heads[n]),
         page'.capacity = page.capacity,
         page'.used = page.used + (IF n = "free" THEN 1 ELSE 0)
  PROVE  Core' /\ Lists!Pop(n) /\ lists'["taken"] = lists["taken"]
<1>1. n \in ListName /\ "taken" \in ListName /\ "taken" # n
  BY DEF ListName
<1>2. PICK S : S = [lists EXCEPT ![n] = Tail(@)]
  OBVIOUS
<1>3. PICK b : b = Head(lists[n])
  OBVIOUS
<1>4. mem \in Memory /\ Config(mem, Heads, lists, loose, page.capacity)
  BY DEF TypeOK, Core
<1>5. /\ lists[n] # <<>> /\ Heads[n] = Adr(b) /\ b \in Block \ loose
      /\ Config([mem EXCEPT ![Heads[n]] = JUNK], [Heads EXCEPT ![n] = mem[Heads[n]]],
                S, loose \cup {b}, page.capacity)
  <2>1. /\ lists[n] # <<>> /\ Heads[n] = Adr(Head(lists[n])) /\ Head(lists[n]) \in Block \ loose
        /\ Config([mem EXCEPT ![Heads[n]] = JUNK], [Heads EXCEPT ![n] = mem[Heads[n]]],
                  [lists EXCEPT ![n] = Tail(@)], loose \cup {Head(lists[n])}, page.capacity)
    <3>1. PICK m0, H0, S0, L0, c0 :
            m0 \in Memory /\ m0 = mem /\ H0 = Heads /\ S0 = lists /\ L0 = loose /\ c0 = page.capacity
      BY <1>4
    <3>2. m0 \in Memory /\ Config(m0, H0, S0, L0, c0) /\ H0[n] # NULL
      BY <1>4, <3>1
    <3>3. /\ S0[n] # <<>> /\ H0[n] = Adr(Head(S0[n])) /\ Head(S0[n]) \in Block \ L0
          /\ Config([m0 EXCEPT ![H0[n]] = JUNK], [H0 EXCEPT ![n] = m0[H0[n]]],
                    [S0 EXCEPT ![n] = Tail(@)], L0 \cup {Head(S0[n])}, c0)
      BY <1>1, <3>2, ConfigPop
    <3> QED BY <3>1, <3>3
  <2> QED BY <1>2, <1>3, <2>1
<1>6. loose' = loose \cup {b}
  BY <1>5, Addresses, CoreLists
<1>7. Config(mem', Heads', S, loose', page'.capacity)
  BY <1>5, <1>6
<1>8. lists' = S
  BY <1>7, ListsWillBe
<1>9. /\ \A q \in ListName : q # n => lists'[q] = lists[q]
      /\ lists'[n] = Tail(lists[n])
  BY <1>1, <1>2, <1>8, CoreLists
<1>10. Len(lists'[n]) = Len(lists[n]) - 1
  <2>1. lists[n] \in Seq(Block)
    BY <1>1, CoreLists
  <2> QED BY <1>5, <1>9, <2>1, HeadTailProperties
<1>11. UsedExact'
  <2>1. page.used = page.capacity - Len(lists["free"]) - Len(lists["local_free"])
    BY DEF Core, UsedExact
  <2>2. page.used \in Int /\ Len(lists["free"]) \in Nat /\ Len(lists["local_free"]) \in Nat
        /\ page.capacity \in Int
    BY CoreLists DEF TypeOK, PageType
  <2>3. lists'["local_free"] = lists["local_free"]
    BY <1>9, CoreLists
  <2>4. CASE n = "free"
    <3>1. page'.used = page.used + 1 /\ Len(lists'["free"]) = Len(lists["free"]) - 1
      BY <1>10, <2>4
    <3> QED BY <2>1, <2>2, <2>3, <3>1 DEF UsedExact
  <2>5. CASE n # "free"
    <3>1. page'.used = page.used /\ lists'["free"] = lists["free"]
      BY <1>9, <2>2, <2>5, CoreLists
    <3> QED BY <2>1, <2>2, <2>3, <3>1 DEF UsedExact
  <2> QED BY <2>4, <2>5
<1>12. Core'
  BY <1>7, <1>8, <1>11 DEF Core
<1>13. Lists!Pop(n)
  BY <1>2, <1>3, <1>5, <1>6, <1>8 DEF Lists!Pop
<1> QED BY <1>1, <1>9, <1>12, <1>13

LEMMA CoreMove ==
  ASSUME TypeOK, Core, NEW f \in ListName, NEW t \in ListName, f # t,
         <<f, t>> \in Lists!Moves, lists[f] # <<>>,
         mem' = MemMoved(mem, Heads, lists, f, t), Heads' = HeadsMoved(Heads, f, t),
         loose' = loose, page'.capacity = page.capacity,
         t = "local_free" => page'.used = page.used - Len(lists[f]),
         t # "local_free" => page'.used = page.used
  PROVE  Core' /\ Lists!Move(f, t)
<1>1. PICK S : S = ListsMoved(lists, f, t)
  OBVIOUS
<1>2. mem \in Memory /\ Config(mem, Heads, lists, loose, page.capacity)
  BY DEF TypeOK, Core
<1>3. Config(mem', Heads', S, loose', page'.capacity)
  <2>1. Config(MemMoved(mem, Heads, lists, f, t), HeadsMoved(Heads, f, t),
               ListsMoved(lists, f, t), loose, page.capacity)
    BY <1>2, ConfigMove
  <2> QED BY <1>1, <2>1
<1>4. lists' = S
  BY <1>3, ListsWillBe
<1>5. /\ lists'[f] = <<>> /\ lists'[t] = lists[f] \o lists[t]
      /\ \A q \in ListName : q # f /\ q # t => lists'[q] = lists[q]
  BY <1>1, <1>4, CoreLists DEF ListsMoved
<1>6. Len(lists'[f]) = 0 /\ Len(lists'[t]) = Len(lists[f]) + Len(lists[t])
  <2>1. lists[f] \in Seq(Block) /\ lists[t] \in Seq(Block)
    BY CoreLists
  <2> QED BY <1>5, <2>1, ConcatProperties, EmptySeq
<1>7. UsedExact'
  <2>1. page.used = page.capacity - Len(lists["free"]) - Len(lists["local_free"])
    BY DEF Core, UsedExact
  <2>2. /\ page.used \in Int /\ Len(lists["free"]) \in Nat /\ Len(lists["local_free"]) \in Nat
        /\ page.capacity \in Int /\ Len(lists[f]) \in Nat
    BY CoreLists DEF TypeOK, PageType
  <2>3. \/ f = "thread_free" /\ t = "taken"
        \/ f = "taken" /\ t = "local_free"
        \/ f = "local_free" /\ t = "free"
        \/ f = "delayed_free" /\ t = "popping"
    BY DEF Lists!Moves
  <2>7. PICK u \in Int : u = page.used
    BY <2>2
  <2>8. PICK c \in Int : c = page.capacity
    BY <2>2
  <2>9. PICK x \in Nat, a \in Nat, b \in Nat :
          x = Len(lists[f]) /\ a = Len(lists["free"]) /\ b = Len(lists["local_free"])
    BY <2>2
  <2>10. u - x = c - a - (x + b) /\ u = c - (b + a) - 0
    <3>1. u = c - a - b
      BY <2>1, <2>7, <2>8, <2>9
    <3> QED BY <3>1
  <2>4. CASE f = "taken" /\ t = "local_free"
    <3>1. /\ page'.used = page.used - Len(lists[f]) /\ lists'["free"] = lists["free"]
          /\ Len(lists'["local_free"]) = Len(lists[f]) + Len(lists["local_free"])
      BY <1>5, <1>6, <2>4, CoreLists
    <3>2. page.used - Len(lists[f])
          = page.capacity - Len(lists["free"]) - (Len(lists[f]) + Len(lists["local_free"]))
      BY <2>7, <2>8, <2>9, <2>10
    <3> QED BY <3>1, <3>2 DEF UsedExact
  <2>5. CASE f = "local_free" /\ t = "free"
    <3>1. /\ page'.used = page.used /\ Len(lists'["local_free"]) = 0
          /\ Len(lists'["free"]) = Len(lists["local_free"]) + Len(lists["free"])
      BY <1>6, <2>5
    <3>2. page.used = page.capacity - (Len(lists["local_free"]) + Len(lists["free"])) - 0
      BY <2>7, <2>8, <2>9, <2>10
    <3> QED BY <3>1, <3>2 DEF UsedExact
  <2>6. CASE (f = "thread_free" /\ t = "taken") \/ (f = "delayed_free" /\ t = "popping")
    <3>1. /\ page'.used = page.used /\ lists'["local_free"] = lists["local_free"]
          /\ lists'["free"] = lists["free"]
      BY <1>5, <2>6, CoreLists
    <3> QED BY <2>1, <3>1 DEF UsedExact
  <2> QED BY <2>3, <2>4, <2>5, <2>6
<1>8. Core'
  BY <1>3, <1>4, <1>7 DEF Core
<1>9. Lists!Move(f, t)
  BY <1>1, <1>4 DEF Lists!Move, ListsMoved
<1> QED BY <1>8, <1>9

\* In front of an empty list nothing need be written.
LEMMA NothingToLink ==
  ASSUME TypeOK, Core, NEW f \in ListName, NEW t \in ListName, lists[f] # <<>>, Heads[t] = NULL
  PROVE  mem = MemMoved(mem, Heads, lists, f, t)
<1>1. PICK s : s = lists[f]
  OBVIOUS
<1>2. s \in Seq(Block) /\ Len(s) \in Nat /\ Len(s) # 0 /\ \A k \in 1 .. Len(s) : s[k] \in Block
  BY <1>1, ConfigSeq, CoreLists
<1>3. Len(s) \in 1 .. Len(s) /\ Len(s) + 1 \notin 1 .. Len(s)
  BY <1>2
<1>4. Leads(mem, Heads[f], s)
  BY <1>1 DEF Core, Config
<1>5. mem[Adr(s[Len(s)])] = NULL
  BY <1>3, <1>4 DEF Leads, At
<1> QED BY <1>1, <1>5 DEF TypeOK, Memory, MemMoved

\* The carved blocks are those up to the capacity.
LEMMA CarvedIs ==
  ASSUME Core
  PROVE  Lists!Carved = 1 .. page.capacity
<1>1. /\ loose \in SUBSET Block /\ page.capacity \in 0 .. RESERVED
      /\ \A b \in Block : b <= page.capacity <=> (b \in loose \/ OnSome(lists, b))
      /\ lists \in [ListName -> Seq(Block)]
  BY DEF Core, Config
<1>2. ASSUME NEW n \in ListName PROVE \A b : b \in Lists!On(n) <=> \E k \in 1 .. Len(lists[n]) : lists[n][k] = b
  <2>1. DOMAIN lists[n] = 1 .. Len(lists[n])
    BY <1>1, LenProperties
  <2> QED BY <2>1 DEF Lists!On
<1>3. Lists!List = ListName
  BY DEF Lists!List, ListName
<1>4. \A b : b \in Lists!Carved <=> (b \in loose \/ OnSome(lists, b))
  <2>1. \A b : b \in Lists!Carved <=> (b \in loose \/ \E n \in ListName : b \in Lists!On(n))
    BY <1>3 DEF Lists!Carved
  <2> QED BY <1>2, <2>1 DEF OnSome
<1>5. \A b : OnSome(lists, b) => b \in Block
  BY <1>1, ConfigSeq DEF OnSome
<1>6. \A b : b \in 1 .. page.capacity <=> (b \in Block /\ b <= page.capacity)
  BY <1>1, ReservedAssumption DEF Block
<1> QED BY <1>1, <1>4, <1>5, <1>6

LEMMA CoreExtend ==
  ASSUME TypeOK, Core, Heads["free"] = NULL, NEW e \in 1 .. RESERVED - page.capacity,
         \A b \in Block : b <= page.capacity => mem'[Adr(b)] = mem[Adr(b)],
         \A b \in page.capacity + 1 .. page.capacity + e :
           mem'[Adr(b)] = IF b < page.capacity + e THEN Adr(b + 1) ELSE NULL,
         Heads' = [Heads EXCEPT !["free"] = Adr(page.capacity + 1)], loose' = loose,
         page'.capacity = page.capacity + e, page'.used = page.used
  PROVE  Core' /\ (\E last \in 1 .. RESERVED : Lists!Extend(last)) /\ lists'["taken"] = lists["taken"]
<1>1. PICK s : s = [k \in 1 .. e |-> page.capacity + k]
  OBVIOUS
<1>2. PICK S : S = [lists EXCEPT !["free"] = s \o @]
  OBVIOUS
<1>3. PICK c : c = page.capacity
  OBVIOUS
<1>4. Config(mem, Heads, lists, loose, c)
  BY <1>3 DEF Core
<1>5. lists["free"] = <<>> /\ c \in 0 .. RESERVED /\ c \in Nat /\ e \in Nat /\ RESERVED \in Nat
      /\ c + e <= RESERVED
  BY <1>3, <1>4, ConfigHead, CoreLists, ReservedAssumption
<1>6. Config(mem', Heads', S, loose', page'.capacity)
  <2>1. PICK H0, S0, L0, m0, m2 : H0 = Heads /\ S0 = lists /\ L0 = loose /\ m0 = mem /\ m2 = mem'
    OBVIOUS
  <2>2. /\ Config(m0, H0, S0, L0, c) /\ S0["free"] = <<>>
        /\ \A b \in Block : b <= c => m2[Adr(b)] = m0[Adr(b)]
        /\ \A b \in c + 1 .. c + e : m2[Adr(b)] = IF b < c + e THEN Adr(b + 1) ELSE NULL
        /\ e \in 1 .. RESERVED - c
    BY <1>3, <1>4, <1>5, <2>1
  <2>3. Config(m2, [H0 EXCEPT !["free"] = Adr(c + 1)],
               [S0 EXCEPT !["free"] = [k \in 1 .. e |-> c + k] \o @], L0, c + e)
    BY <2>2, ConfigExtend
  <2> QED BY <1>1, <1>2, <1>3, <2>1, <2>3
<1>7. lists' = S
  BY <1>6, ListsWillBe
<1>8. /\ lists'["free"] = s \o lists["free"]
      /\ \A n \in ListName : n # "free" => lists'[n] = lists[n]
  BY <1>2, <1>7, CoreLists
<1>9. Len(lists'["free"]) = e
  <2>1. \A k \in 1 .. e : c + k \in Block
    BY <1>5 DEF Block
  <2>2. s \in [1 .. e -> Block]
    BY <1>1, <1>3, <2>1
  <2>3. s \in Seq(Block)
    BY <1>5, <2>2, SeqDef
  <2>4. Len(s) \in Nat /\ 1 .. Len(s) = 1 .. e
    BY <2>2, <2>3, LenProperties
  <2>5. Len(s) = e
    BY <1>5, <2>4
  <2> QED BY <1>5, <1>8, <2>3, <2>5, ConcatEmptySeq
<1>10. UsedExact'
  <2>1. page.used = page.capacity - Len(lists["free"]) - Len(lists["local_free"])
    BY DEF Core, UsedExact
  <2>2. PICK u \in Int, l \in Nat : u = page.used /\ l = Len(lists["local_free"])
    BY CoreLists DEF TypeOK, PageType
  <2>3. u = c - 0 - l
    BY <1>3, <1>5, <2>1, <2>2, EmptySeq
  <2>4. u = (c + e) - e - l
    BY <1>5, <2>3
  <2>5. lists'["local_free"] = lists["local_free"]
    BY <1>8, CoreLists
  <2> QED BY <1>3, <1>9, <2>2, <2>4, <2>5 DEF UsedExact
<1>11. Core'
  BY <1>6, <1>7, <1>10 DEF Core
<1>12. Lists!Extend(c + e)
  <2>1. Lists!Carved = 1 .. c
    BY <1>3, CarvedIs
  <2>2. PICK last : last = c + e
    OBVIOUS
  <2>3. c \in 0 .. last - 1 /\ last - c = e
    BY <1>5, <2>2
  <2>4. [k \in 1 .. last - c |-> c + k] = s
    BY <1>1, <1>3, <2>3
  <2>5. lists' = [lists EXCEPT !["free"] = [k \in 1 .. last - c |-> c + k] \o @]
    BY <1>2, <1>7, <2>4
  <2>6. \E capacity \in 0 .. last - 1 :
          /\ Lists!Carved = 1 .. capacity
          /\ lists' = [lists EXCEPT !["free"] = [k \in 1 .. last - capacity |-> capacity + k] \o @]
          /\ UNCHANGED loose
    BY <2>1, <2>3, <2>5
  <2>7. Lists!Extend(last)
    BY <2>6 DEF Lists!Extend
  <2> QED BY <2>2, <2>7
<1>13. c + e \in 1 .. RESERVED
  BY <1>5
<1> QED BY <1>8, <1>11, <1>12, <1>13, CoreLists

LEMMA CoreDrop ==
  ASSUME TypeOK, Core, page.used = 0,
         page'.free = NULL, page'.local_free = NULL, page'.capacity = 0, page'.used = 0,
         xfree' = xfree, dfree' = dfree, o'.taken = o.taken, o'.ll = o.ll, loose' = loose
  PROVE  Core' /\ Lists!Drop /\ loose = {}
<1>1. Config(mem, Heads, lists, loose, page.capacity)
  BY DEF Core
<1>2. /\ loose = {} /\ \A n \in ListName \ {"free", "local_free"} : lists[n] = <<>>
      /\ \A b \in Block : b <= page.capacity =>
            \/ \E k \in 1 .. Len(lists["free"]) : lists["free"][k] = b
            \/ \E k \in 1 .. Len(lists["local_free"]) : lists["local_free"][k] = b
  <2>1. page.used = page.capacity - Len(lists["free"]) - Len(lists["local_free"])
    BY DEF Core, UsedExact
  <2>2. PICK a \in Nat, b \in Nat, c \in Int :
          a = Len(lists["free"]) /\ b = Len(lists["local_free"]) /\ c = page.capacity
    BY CoreLists
  <2>3. a + b = c
    <3>1. 0 = c - a - b
      BY <2>1, <2>2
    <3> QED BY <3>1
  <2>4. PICK m0, H0, S0, L0 : m0 = mem /\ H0 = Heads /\ S0 = lists /\ L0 = loose
    OBVIOUS
  <2>5. Config(m0, H0, S0, L0, c) /\ Len(S0["free"]) + Len(S0["local_free"]) = c
    BY <1>1, <2>2, <2>3, <2>4
  <2>6. AllHome(S0, L0, c)
    BY <2>5, ConfigCount
  <2> QED BY <2>2, <2>4, <2>6 DEF AllHome, Home
<1>3. \A n \in ListName \ {"free", "local_free"} : Heads[n] = NULL
  BY <1>1, <1>2, ConfigHead
<1>4. Heads' = [n \in ListName |-> NULL]
  <2>1. \A n \in ListName : Heads'[n] = NULL
    BY <1>3, HeadsAre, HeadsWillBe DEF ListName
  <2> QED BY <2>1, HeadsWillBe
<1>5. PICK S : S = [n \in ListName |-> <<>>]
  OBVIOUS
<1>6. Config(mem', Heads', S, loose', page'.capacity)
  <2>1. <<>> \in Seq(Block) /\ Len(<<>>) = 0 /\ NULL \in Link
    BY EmptySeq DEF Link
  <2>2. S \in [ListName -> Seq(Block)] /\ Heads' \in [ListName -> Link]
    BY <1>4, <1>5, <2>1
  <2>3. \A n \in ListName : S[n] = <<>> /\ Len(S[n]) = 0 /\ Heads'[n] = NULL
    BY <1>4, <1>5, <2>1
  <2>4. \A n \in ListName : Leads(mem', Heads'[n], S[n])
    BY <2>3 DEF Leads, At
  <2>5. Apart(S) /\ Away(S, {}) /\ \A b : ~OnSome(S, b)
    BY <2>3 DEF Apart, Away, OnSome
  <2>6. \A b \in Block : ~(b <= 0)
    BY ReservedAssumption DEF Block
  <2>7. 0 \in 0 .. RESERVED
    BY ReservedAssumption
  <2> QED BY <1>2, <2>2, <2>4, <2>5, <2>6, <2>7 DEF Config
<1>7. lists' = S
  BY <1>6, ListsWillBe
<1>8. UsedExact'
  <2>1. Len(lists'["free"]) = 0 /\ Len(lists'["local_free"]) = 0
    BY <1>5, <1>7, EmptySeq DEF ListName
  <2> QED BY <2>1 DEF UsedExact
<1>9. Lists!Drop
  <2>1. Lists!List = ListName
    BY DEF Lists!List, ListName
  <2>2. ASSUME NEW n \in ListName PROVE \A b : b \in Lists!On(n) <=> \E k \in 1 .. Len(lists[n]) : lists[n][k] = b
    <3>1. DOMAIN lists[n] = 1 .. Len(lists[n])
      BY CoreLists, LenProperties
    <3> QED BY <3>1 DEF Lists!On
  <2>3. "free" \in ListName /\ "local_free" \in ListName
    BY DEF ListName
  <2>4. Lists!Carved \subseteq Lists!On("free") \cup Lists!On("local_free")
    <3>1. Lists!Carved = 1 .. page.capacity
      BY CarvedIs
    <3>2. \A b \in 1 .. page.capacity : b \in Block /\ b <= page.capacity
      BY CoreLists, ReservedAssumption DEF Block
    <3> QED BY <1>2, <2>2, <2>3, <3>1, <3>2
  <2>5. Lists!On("free") \cup Lists!On("local_free") \subseteq Lists!Carved
    BY <2>1, <2>3 DEF Lists!Carved
  <2>6. lists' = [n \in Lists!List |-> <<>>]
    BY <1>5, <1>7, <2>1
  <2> QED BY <2>4, <2>5, <2>6 DEF Lists!Drop
<1>10. Core'
  BY <1>6, <1>7, <1>8 DEF Core
<1> QED BY <1>2, <1>9, <1>10

\* A page without capacity has nothing anywhere.
LEMMA NoCapacity ==
  ASSUME Core, page.capacity = 0
  PROVE  loose = {} /\ \A n \in ListName : lists[n] = <<>> /\ Heads[n] = NULL
<1>1. Config(mem, Heads, lists, loose, 0)
  BY DEF Core
<1>2. \A b \in Block : ~(b <= 0)
  BY ReservedAssumption DEF Block
<1>3. loose = {} /\ \A b \in Block : ~OnSome(lists, b)
  BY <1>1, <1>2 DEF Config
<1>4. ASSUME NEW n \in ListName PROVE lists[n] = <<>>
  <2>1. /\ lists[n] \in Seq(Block) /\ Len(lists[n]) \in Nat
        /\ \A k \in 1 .. Len(lists[n]) : lists[n][k] \in Block
        /\ lists[n] # <<>> <=> Len(lists[n]) # 0
    BY CoreLists, ConfigSeq
  <2>2. Len(lists[n]) # 0 => 1 \in 1 .. Len(lists[n])
    BY <2>1
  <2> QED BY <1>3, <2>1, <2>2 DEF OnSome
<1> QED BY <1>1, <1>3, <1>4, ConfigHead

-----------------------------------------------------------------------------
(* Steps of the other threads                                               *)

Abstract == Lists!Next \/ UNCHANGED <<lists, loose>>

RemoteIs(pc, blk, word) == [pc |-> pc, blk |-> blk, word |-> word]

LEMMA RemotePc ==
  ASSUME NEW x \in RemoteType, NEW p
  PROVE  [x EXCEPT !.pc = p] = RemoteIs(p, x.blk, x.word)
BY DEF RemoteType, RemoteIs

LEMMA RemotePcBlk ==
  ASSUME NEW x \in RemoteType, NEW p, NEW b
  PROVE  [x EXCEPT !.pc = p, !.blk = b] = RemoteIs(p, b, x.word)
<1>1. PICK y : y = [x EXCEPT !.pc = p]
  OBVIOUS
<1>2. y = RemoteIs(p, x.blk, x.word)
  BY <1>1, RemotePc
<1>3. [y EXCEPT !.blk = b] = RemoteIs(p, b, x.word)
  BY <1>2 DEF RemoteIs
<1> QED BY <1>1, <1>3, Zenon

LEMMA RemotePcWord ==
  ASSUME NEW x \in RemoteType, NEW p, NEW w
  PROVE  [x EXCEPT !.pc = p, !.word = w] = RemoteIs(p, x.blk, w)
<1>1. PICK y : y = [x EXCEPT !.pc = p]
  OBVIOUS
<1>2. y = RemoteIs(p, x.blk, x.word)
  BY <1>1, RemotePc
<1>3. [y EXCEPT !.word = w] = RemoteIs(p, x.blk, w)
  BY <1>2 DEF RemoteIs
<1> QED BY <1>1, <1>3, Zenon

LEMMA RemoteMade ==
  ASSUME NEW p \in RPc, NEW b \in Link, NEW w \in Word
  PROVE  /\ RemoteIs(p, b, w) \in RemoteType
         /\ RemoteIs(p, b, w).pc = p /\ RemoteIs(p, b, w).blk = b /\ RemoteIs(p, b, w).word = w
BY DEF RemoteIs, RemoteType

\* What the other threads have after a step of thread t.
RemoteStays(t) ==
  /\ r' \in [Remote -> RemoteType]
  /\ \A u \in Remote : u # t => r'[u] = r[u]

LEMMA RemoteSet ==
  ASSUME TypeOK, NEW t \in Remote, NEW y \in RemoteType, r' = [r EXCEPT ![t] = y]
  PROVE  RemoteStays(t) /\ r'[t] = y
BY DEF TypeOK, RemoteStays

\* What a thread's step leaves to the others.
LEMMA RemoteLeaves ==
  ASSUME IInv, TypeOK', NEW t \in Remote,
         RemoteStays(t),
         o' = o, page' = page, lists'["taken"] = lists["taken"],
         held' \subseteq held,
         \A a \in Address : a # r[t].blk => mem'[a] = mem[a],
         r'[t].blk # NULL => r'[t].blk \notin held' /\ (r'[t].blk = r[t].blk \/ r'[t].blk \in held),
         RemoteAt(t)'
  PROVE  Ownership' /\ (\A u \in Remote : RemoteAt(u)') /\ OwnerAt'
<1>1. /\ TypeOK /\ Ownership /\ OwnerAt /\ \A u \in Remote : RemoteAt(u)
      /\ \A u \in Remote : u # t => r'[u] = r[u]
  BY DEF IInv, RemoteStays
<1>2. o.blk \in Link /\ \A u \in Remote : r[u].blk \in Link
  BY <1>1 DEF TypeOK, OwnerType, RemoteType
<1>3. Ownership'
  <2>1. o'.blk \notin held'
    BY <1>1 DEF Ownership
  <2>2. ASSUME NEW u \in Remote, r'[u].blk # NULL
        PROVE  r'[u].blk \notin held' /\ r'[u].blk # o'.blk
    <3>1. CASE u = t
      BY <1>1, <2>2, <3>1 DEF Ownership
    <3>2. CASE u # t
      BY <1>1, <2>2, <3>2 DEF Ownership
    <3> QED BY <3>1, <3>2
  <2>3. ASSUME NEW u \in Remote, r'[u].blk # NULL, NEW v \in Remote, v # u
        PROVE  r'[v].blk # r'[u].blk
    <3>1. CASE u = t
      <4>1. r'[v] = r[v]
        BY <1>1, <2>3, <3>1
      <4> QED BY <1>1, <2>3, <3>1, <4>1 DEF Ownership
    <3>2. CASE v = t
      <4>1. r'[u] = r[u]
        BY <1>1, <2>3, <3>2
      <4> QED BY <1>1, <2>3, <3>2, <4>1 DEF Ownership
    <3>3. CASE u # t /\ v # t
      BY <1>1, <2>3, <3>3 DEF Ownership
    <3> QED BY <3>1, <3>2, <3>3
  <2> QED BY <2>1, <2>2, <2>3 DEF Ownership
<1>4. ASSUME NEW u \in Remote PROVE RemoteAt(u)'
  <2>1. CASE u = t
    BY <2>1
  <2>2. CASE u # t
    <3>1. r'[u] = r[u] /\ RemoteAt(u)
      BY <1>1, <2>2
    <3>2. r[u].blk # NULL => r[u].blk \in Address /\ r[u].blk # r[t].blk
      BY <1>1, <1>2, <2>2 DEF Ownership, Link
    <3>3. r[u].blk # NULL => mem'[r[u].blk] = mem[r[u].blk]
      BY <3>2
    <3> QED BY <3>1, <3>3 DEF RemoteAt
  <2> QED BY <2>1, <2>2
<1>5. OwnerAt'
  <2>1. o.blk # NULL => mem'[o.blk] = mem[o.blk]
    <3>1. ASSUME o.blk # NULL PROVE o.blk \in Address /\ o.blk # r[t].blk
      BY <1>1, <1>2, <3>1 DEF Ownership, Link
    <3> QED BY <3>1
  <2>2. o.pc = "rcas" => o.blk # NULL
    BY <1>1 DEF OwnerAt, OwnerFits, HasBlock
  <2> QED BY <1>1, <2>1, <2>2 DEF OwnerAt, OwnerFits
<1> QED BY <1>3, <1>4, <1>5

\* A thread's block stays its own.
LEMMA RemoteKeeps ==
  ASSUME TypeOK, TypeOK', NEW t \in Remote, RemoteStays(t),
         o' = o, held' = held, r'[t].blk = r[t].blk
  PROVE  loose' = loose
<1>1. \A u \in Remote : r'[u].blk = r[u].blk
  BY DEF RemoteStays
<1> QED BY <1>1 DEF loose

LEMMA StepRFree ==
  ASSUME IInv, NEW t \in Remote, NEW a \in Address, RFree(t, a)
  PROVE  IInv' /\ Abstract
<1>1. /\ r[t].pc = "idle" /\ a \in held /\ held' = held \ {a}
      /\ UNCHANGED <<mem, page, xfree, dfree, o>>
  BY DEF RFree
<1>2. TypeOK /\ Core /\ RemoteAt(t) /\ Ownership
  BY DEF IInv
<1>3. r[t] \in RemoteType /\ r[t].word \in Word /\ a \in Link
  BY <1>2 DEF TypeOK, RemoteType, Link
<1>4. PICK y : y = RemoteIs("load", a, r[t].word)
  OBVIOUS
<1>5. r' = [r EXCEPT ![t] = y] /\ y \in RemoteType /\ y.pc = "load" /\ y.blk = a
  <2>1. r' = [r EXCEPT ![t] = y]
    BY <1>3, <1>4, RemotePcBlk, Zenon DEF RFree
  <2> QED BY <1>3, <1>4, <2>1, RemoteMade DEF RPc
<1>6. /\ RemoteStays(t) /\ r'[t] = y
      /\ r' \in [Remote -> RemoteType] /\ \A u \in Remote : u # t => r'[u] = r[u]
  BY <1>2, <1>5, RemoteSet DEF RemoteStays
<1>7. TypeOK'
  BY <1>1, <1>2, <1>6 DEF TypeOK
<1>8. loose' = loose
  <2>1. r[t].blk = NULL
    BY <1>1, <1>2 DEF RemoteAt
  <2>2. \A b \in Block : b \in loose' <=> b \in loose
    BY <1>1, <1>2, <1>5, <1>6, <1>7, <2>1, LooseAre, LooseWillBe, Addresses
  <2>3. loose \subseteq Block /\ loose' \subseteq Block
    BY <1>2, <1>7, LooseAre, LooseWillBe
  <2> QED BY <2>2, <2>3
<1>9. Heads' = Heads
  BY <1>1 DEF Heads
<1>10. Core' /\ lists' = lists
  BY <1>1, <1>2, <1>8, <1>9, CoreStays
<1>11. RemoteAt(t)'
  BY <1>3, <1>5, <1>6, Addresses DEF RemoteAt
<1>12. Ownership' /\ (\A u \in Remote : RemoteAt(u)') /\ OwnerAt'
  BY <1>1, <1>5, <1>6, <1>7, <1>10, <1>11, RemoteLeaves
<1> QED BY <1>7, <1>8, <1>10, <1>12 DEF IInv, Abstract

\* A thread goes on with the block it has.
LEMMA RemoteQuiet ==
  ASSUME IInv, NEW t \in Remote, NEW y \in RemoteType, r' = [r EXCEPT ![t] = y],
         y.blk = r[t].blk, y.blk # NULL <=> y.pc \in {"load", "cas", "dload", "dcas"},
         y.pc = "cas" => get_is_use_delayed(y.word), y.pc # "dcas",
         xfree' \in Word, get_ptr(xfree') = get_ptr(xfree),
         UNCHANGED <<mem, page, dfree, held, o>>
  PROVE  IInv' /\ Abstract
<1>1. TypeOK /\ Core /\ Ownership
  BY DEF IInv
<1>2. /\ RemoteStays(t) /\ r'[t] = y
      /\ r' \in [Remote -> RemoteType] /\ \A u \in Remote : u # t => r'[u] = r[u]
  BY <1>1, RemoteSet DEF RemoteStays
<1>3. TypeOK'
  BY <1>1, <1>2 DEF TypeOK
<1>4. loose' = loose
  BY <1>1, <1>2, <1>3, RemoteKeeps
<1>5. Heads' = Heads
  BY DEF Heads
<1>6. Core' /\ lists' = lists
  BY <1>1, <1>4, <1>5, CoreStays
<1>7. RemoteAt(t)'
  BY <1>2 DEF RemoteAt
<1>8. r'[t].blk # NULL => r'[t].blk \notin held'
  BY <1>1, <1>2 DEF Ownership
<1>9. Ownership' /\ (\A u \in Remote : RemoteAt(u)') /\ OwnerAt'
  BY <1>2, <1>3, <1>6, <1>7, <1>8, RemoteLeaves
<1> QED BY <1>3, <1>4, <1>6, <1>9 DEF IInv, Abstract

\* A thread links its block to what it has loaded.
LEMMA RemoteLinks ==
  ASSUME IInv, NEW t \in Remote, NEW y \in RemoteType, r' = [r EXCEPT ![t] = y],
         y.blk = r[t].blk, r[t].blk # NULL, NEW v \in Link, mem' = [mem EXCEPT ![r[t].blk] = v],
         \/ y.pc = "cas" /\ v = get_ptr(y.word)
         \/ y.pc = "dcas" /\ v = y.word,
         UNCHANGED <<page, xfree, dfree, held, o>>
  PROVE  IInv' /\ Abstract
<1>1. TypeOK /\ Core /\ Ownership
  BY DEF IInv
<1>2. /\ RemoteStays(t) /\ r'[t] = y
      /\ r' \in [Remote -> RemoteType] /\ \A u \in Remote : u # t => r'[u] = r[u]
  BY <1>1, RemoteSet DEF RemoteStays
<1>3. PICK b \in loose : r[t].blk = Adr(b)
  BY <1>1, LooseAdr
<1>4. mem \in Memory /\ Adr(b) \in Address
  BY <1>1, <1>3, CoreLists, Addresses DEF TypeOK
<1>5. mem' \in Memory /\ mem'[Adr(b)] = v /\ \A a \in Address : a # Adr(b) => mem'[a] = mem[a]
  BY <1>3, <1>4 DEF Memory
<1>6. TypeOK'
  BY <1>1, <1>2, <1>5 DEF TypeOK
<1>7. loose' = loose
  BY <1>1, <1>2, <1>6, RemoteKeeps
<1>8. Heads' = Heads
  BY DEF Heads
<1>9. Core' /\ lists' = lists
  BY <1>1, <1>3, <1>7, <1>8, CoreWrite
<1>10. RemoteAt(t)'
  BY <1>2, <1>3, <1>5 DEF RemoteAt
<1>11. r'[t].blk # NULL => r'[t].blk \notin held'
  BY <1>1, <1>2 DEF Ownership
<1>12. Ownership' /\ (\A u \in Remote : RemoteAt(u)') /\ OwnerAt'
  BY <1>2, <1>3, <1>5, <1>6, <1>9, <1>10, <1>11, RemoteLeaves
<1> QED BY <1>6, <1>7, <1>9, <1>12 DEF IInv, Abstract

\* A thread's block becomes the head of list n.
LEMMA RemotePushes ==
  ASSUME IInv, NEW t \in Remote, NEW y \in RemoteType, r' = [r EXCEPT ![t] = y],
         y.blk = NULL, y.pc \in {"idle", "xor"},
         r[t].blk # NULL, NEW n \in {"thread_free", "delayed_free"}, mem[r[t].blk] = Heads[n],
         Heads' = [Heads EXCEPT ![n] = r[t].blk],
         xfree' \in Word, dfree' \in Link,
         UNCHANGED <<mem, page, held, o>>
  PROVE  IInv' /\ Abstract
<1>1. TypeOK /\ Core /\ Ownership
  BY DEF IInv
<1>2. /\ RemoteStays(t) /\ r'[t] = y
      /\ r' \in [Remote -> RemoteType] /\ \A u \in Remote : u # t => r'[u] = r[u]
  BY <1>1, RemoteSet DEF RemoteStays
<1>3. PICK b \in loose : r[t].blk = Adr(b)
  BY <1>1, LooseAdr
<1>4. mem \in Memory /\ b \in Block /\ Adr(b) \in Address
  BY <1>1, <1>3, CoreLists, Addresses DEF TypeOK
<1>5. mem' = [mem EXCEPT ![Adr(b)] = Heads[n]]
  BY <1>3, <1>4 DEF Memory
<1>6. TypeOK'
  BY <1>1, <1>2 DEF TypeOK
<1>7. loose' = loose \ {b}
  <2>1. loose \subseteq Block /\ loose' \subseteq Block
    BY <1>1, <1>6, LooseAre, LooseWillBe
  <2>2. Adr(b) \notin held /\ Adr(b) # o.blk /\ \A u \in Remote : u # t => r[u].blk # Adr(b)
    BY <1>1, <1>3 DEF Ownership
  <2>3. ASSUME NEW d \in Block PROVE d \in loose' <=> d \in loose /\ d # b
    <3>1. d \in loose' <=> \/ Adr(d) \in held \/ Adr(d) = o.blk
                           \/ \E u \in Remote : u # t /\ Adr(d) = r[u].blk
      <4>1. Adr(d) # NULL
        BY Addresses
      <4> QED BY <1>2, <1>6, <4>1, LooseWillBe
    <3>2. d \in loose <=> \/ Adr(d) \in held \/ Adr(d) = o.blk
                          \/ \E u \in Remote : Adr(d) = r[u].blk
      BY <1>1, LooseAre
    <3>3. Adr(d) = Adr(b) <=> d = b
      BY <1>4, Addresses
    <3> QED BY <1>3, <2>2, <3>1, <3>2, <3>3
  <2> QED BY <2>1, <2>3
<1>8. n # "free" /\ n \in {"free", "thread_free", "delayed_free"} /\ page'.used = page.used
  OBVIOUS
<1>9. page.used \in Int
  BY <1>1 DEF TypeOK, PageType
<1>10. page'.used = page.used - (IF n = "free" THEN 1 ELSE 0)
  BY <1>8, <1>9
<1>11. Heads' = [Heads EXCEPT ![n] = Adr(b)]
  BY <1>3
<1>12. Core' /\ Lists!Push(n, b) /\ lists'["taken"] = lists["taken"]
  BY <1>1, <1>3, <1>5, <1>7, <1>8, <1>10, <1>11, CorePush
<1>13. RemoteAt(t)'
  BY <1>2 DEF RemoteAt
<1>14. Ownership' /\ (\A u \in Remote : RemoteAt(u)') /\ OwnerAt'
  BY <1>2, <1>6, <1>12, <1>13, RemoteLeaves
<1>15. Abstract
  BY <1>4, <1>8, <1>12 DEF Abstract, Lists!Next, Block
<1> QED BY <1>6, <1>12, <1>14, <1>15 DEF IInv

LEMMA LinksAreWords == Link \subseteq Word
<1>1. \A a \in Link : a \in Nat /\ a + 0 = a /\ 0 \in 0 .. 3
  BY Aligned
<1> QED BY <1>1 DEF Word

LEMMA RemoteTypes ==
  ASSUME IInv, NEW t \in Remote
  PROVE  /\ TypeOK /\ RemoteAt(t) /\ r[t] \in RemoteType
         /\ r[t].word \in Word /\ r[t].blk \in Link
         /\ xfree \in Word /\ dfree \in Link /\ dfree \in Word /\ NULL \in Word /\ NULL \in Link
<1>1. TypeOK /\ RemoteAt(t) /\ r[t] \in RemoteType /\ xfree \in Word /\ dfree \in Link
  BY DEF IInv, TypeOK
<1>2. NULL \in Link
  BY DEF Link
<1> QED BY <1>1, <1>2, LinksAreWords DEF RemoteType

LEMMA StepRLoad ==
  ASSUME IInv, NEW t \in Remote, RLoad(t)
  PROVE  IInv' /\ Abstract
<1>1. /\ TypeOK /\ RemoteAt(t) /\ r[t] \in RemoteType /\ r[t].word \in Word /\ r[t].blk \in Link
      /\ xfree \in Word /\ dfree \in Link /\ dfree \in Word /\ NULL \in Word /\ NULL \in Link
  BY RemoteTypes DEF IInv
<1>2. PICK y : y = RemoteIs("cas", r[t].blk, xfree)
  OBVIOUS
<1>3. r' = [r EXCEPT ![t] = y]
  <2>1. y = [r[t] EXCEPT !.pc = "cas", !.word = xfree]
    BY <1>1, <1>2, RemotePcWord, Zenon
  <2> QED BY <2>1, Zenon DEF RLoad
<1>4. /\ y \in RemoteType /\ y.pc = "cas" /\ y.blk = r[t].blk /\ y.word = xfree
  BY <1>1, <1>2, RemoteMade DEF RPc
<1>5. r[t].pc = "load" /\ UNCHANGED <<page, xfree, dfree, held, o>> /\ r[t].blk # NULL
  BY <1>1 DEF RLoad, RemoteAt
<1>6. CASE get_is_use_delayed(xfree)
  <2>1. mem' = mem
    BY <1>6 DEF RLoad
  <2> QED BY <1>1, <1>3, <1>4, <1>5, <1>6, <2>1, RemoteQuiet
<1>7. CASE ~get_is_use_delayed(xfree)
  <2>1. PICK v \in Link : v = get_ptr(xfree)
    BY <1>1, Words
  <2>2. mem' = [mem EXCEPT ![r[t].blk] = v]
    BY <1>7, <2>1 DEF RLoad, block_write_ptr
  <2> QED BY <1>3, <1>4, <1>5, <2>1, <2>2, RemoteLinks
<1> QED BY <1>6, <1>7

LEMMA StepRCasFreeing ==
  ASSUME IInv, NEW t \in Remote, RCasFreeing(t)
  PROVE  IInv' /\ Abstract
<1>1. /\ TypeOK /\ RemoteAt(t) /\ r[t] \in RemoteType /\ r[t].word \in Word /\ r[t].blk \in Link
      /\ xfree \in Word /\ dfree \in Link /\ dfree \in Word /\ NULL \in Word /\ NULL \in Link
  BY RemoteTypes DEF IInv
<1>2. PICK y : y = RemoteIs("dload", r[t].blk, NULL)
  OBVIOUS
<1>3. r' = [r EXCEPT ![t] = y]
  <2>1. y = [r[t] EXCEPT !.pc = "dload", !.word = NULL]
    BY <1>1, <1>2, RemotePcWord, Zenon
  <2> QED BY <2>1, Zenon DEF RCasFreeing
<1>4. /\ y \in RemoteType /\ y.pc = "dload" /\ y.blk = r[t].blk /\ y.word = NULL
  BY <1>1, <1>2, RemoteMade DEF RPc
<1>5. /\ r[t].pc = "cas" /\ xfree = r[t].word /\ xfree' = set_freeing(xfree)
      /\ UNCHANGED <<mem, page, dfree, held, o>> /\ r[t].blk # NULL
  BY <1>1 DEF RCasFreeing, RemoteAt
<1>6. xfree' \in Word /\ get_ptr(xfree') = get_ptr(xfree)
  BY <1>1, <1>5, Masks
<1> QED BY <1>3, <1>4, <1>5, <1>6, RemoteQuiet

LEMMA StepRCasPush ==
  ASSUME IInv, NEW t \in Remote, RCasPush(t)
  PROVE  IInv' /\ Abstract
<1>1. /\ TypeOK /\ RemoteAt(t) /\ r[t] \in RemoteType /\ r[t].word \in Word /\ r[t].blk \in Link
      /\ xfree \in Word /\ dfree \in Link /\ dfree \in Word /\ NULL \in Word /\ NULL \in Link
  BY RemoteTypes DEF IInv
<1>2. PICK y : y = RemoteIs("idle", NULL, NULL)
  OBVIOUS
<1>3. r' = [r EXCEPT ![t] = y]
  BY <1>2, Zenon DEF RCasPush, RemoteIs
<1>4. /\ y \in RemoteType /\ y.pc = "idle" /\ y.blk = NULL /\ y.word = NULL
  BY <1>1, <1>2, RemoteMade DEF RPc
<1>5. /\ r[t].pc = "cas" /\ ~get_is_use_delayed(r[t].word)
      /\ xfree = r[t].word /\ xfree' = set_ptr(xfree, r[t].blk)
      /\ UNCHANGED <<mem, page, dfree, held, o>> /\ r[t].blk # NULL
  BY <1>1 DEF RCasPush, RemoteAt
<1>6. xfree' \in Word /\ get_ptr(xfree') = r[t].blk
  BY <1>1, <1>5, Masks
<1>7. PICK n \in {"thread_free", "delayed_free"} : n = "thread_free"
  OBVIOUS
<1>8. mem[r[t].blk] = Heads[n]
  BY <1>1, <1>5, <1>7, HeadsAre DEF RemoteAt
<1>9. Heads' = [Heads EXCEPT ![n] = r[t].blk]
  BY <1>5, <1>6, <1>7 DEF Heads
<1> QED BY <1>1, <1>3, <1>4, <1>5, <1>6, <1>8, <1>9, RemotePushes

LEMMA StepRCasFail ==
  ASSUME IInv, NEW t \in Remote, RCasFail(t)
  PROVE  IInv' /\ Abstract
<1>1. /\ TypeOK /\ RemoteAt(t) /\ r[t] \in RemoteType /\ r[t].word \in Word /\ r[t].blk \in Link
      /\ xfree \in Word /\ dfree \in Link /\ dfree \in Word /\ NULL \in Word /\ NULL \in Link
  BY RemoteTypes DEF IInv
<1>2. PICK y : y = RemoteIs("load", r[t].blk, NULL)
  OBVIOUS
<1>3. r' = [r EXCEPT ![t] = y]
  <2>1. y = [r[t] EXCEPT !.pc = "load", !.word = NULL]
    BY <1>1, <1>2, RemotePcWord, Zenon
  <2> QED BY <2>1, Zenon DEF RCasFail
<1>4. /\ y \in RemoteType /\ y.pc = "load" /\ y.blk = r[t].blk /\ y.word = NULL
  BY <1>1, <1>2, RemoteMade DEF RPc
<1>5. r[t].pc = "cas" /\ UNCHANGED <<mem, page, xfree, dfree, held, o>> /\ r[t].blk # NULL
  BY <1>1 DEF RCasFail, RemoteAt
<1> QED BY <1>1, <1>3, <1>4, <1>5, RemoteQuiet

LEMMA StepRDelayedLoad ==
  ASSUME IInv, NEW t \in Remote, RDelayedLoad(t)
  PROVE  IInv' /\ Abstract
<1>1. /\ TypeOK /\ RemoteAt(t) /\ r[t] \in RemoteType /\ r[t].word \in Word /\ r[t].blk \in Link
      /\ xfree \in Word /\ dfree \in Link /\ dfree \in Word /\ NULL \in Word /\ NULL \in Link
  BY RemoteTypes DEF IInv
<1>2. PICK y : y = RemoteIs("dcas", r[t].blk, dfree)
  OBVIOUS
<1>3. r' = [r EXCEPT ![t] = y]
  <2>1. y = [r[t] EXCEPT !.pc = "dcas", !.word = dfree]
    BY <1>1, <1>2, RemotePcWord, Zenon
  <2> QED BY <2>1, Zenon DEF RDelayedLoad
<1>4. /\ y \in RemoteType /\ y.pc = "dcas" /\ y.blk = r[t].blk /\ y.word = dfree
  BY <1>1, <1>2, RemoteMade DEF RPc
<1>5. /\ r[t].pc = "dload" /\ mem' = [mem EXCEPT ![r[t].blk] = dfree]
      /\ UNCHANGED <<page, xfree, dfree, held, o>> /\ r[t].blk # NULL
  BY <1>1 DEF RDelayedLoad, RemoteAt, block_write_ptr
<1>6. PICK v \in Link : v = dfree
  BY <1>1
<1>7. mem' = [mem EXCEPT ![r[t].blk] = v]
  BY <1>5, <1>6
<1> QED BY <1>3, <1>4, <1>5, <1>6, <1>7, RemoteLinks

LEMMA StepRDelayedPush ==
  ASSUME IInv, NEW t \in Remote, RDelayedPush(t)
  PROVE  IInv' /\ Abstract
<1>1. /\ TypeOK /\ RemoteAt(t) /\ r[t] \in RemoteType /\ r[t].word \in Word /\ r[t].blk \in Link
      /\ xfree \in Word /\ dfree \in Link /\ dfree \in Word /\ NULL \in Word /\ NULL \in Link
  BY RemoteTypes DEF IInv
<1>2. PICK y : y = RemoteIs("xor", NULL, NULL)
  OBVIOUS
<1>3. r' = [r EXCEPT ![t] = y]
  BY <1>2, Zenon DEF RDelayedPush, RemoteIs
<1>4. /\ y \in RemoteType /\ y.pc = "xor" /\ y.blk = NULL /\ y.word = NULL
  BY <1>1, <1>2, RemoteMade DEF RPc
<1>5. /\ r[t].pc = "dcas" /\ dfree = r[t].word /\ dfree' = r[t].blk
      /\ UNCHANGED <<mem, page, xfree, held, o>> /\ r[t].blk # NULL
  BY <1>1 DEF RDelayedPush, RemoteAt
<1>6. PICK n \in {"thread_free", "delayed_free"} : n = "delayed_free"
  OBVIOUS
<1>7. mem[r[t].blk] = Heads[n]
  BY <1>1, <1>5, <1>6, HeadsAre DEF RemoteAt
<1>8. Heads' = [Heads EXCEPT ![n] = r[t].blk]
  BY <1>5, <1>6 DEF Heads
<1> QED BY <1>1, <1>3, <1>4, <1>5, <1>7, <1>8, RemotePushes

LEMMA StepRDelayedFail ==
  ASSUME IInv, NEW t \in Remote, RDelayedFail(t)
  PROVE  IInv' /\ Abstract
<1>1. /\ TypeOK /\ RemoteAt(t) /\ r[t] \in RemoteType /\ r[t].word \in Word /\ r[t].blk \in Link
      /\ xfree \in Word /\ dfree \in Link /\ dfree \in Word /\ NULL \in Word /\ NULL \in Link
  BY RemoteTypes DEF IInv
<1>2. PICK y : y = RemoteIs("dload", r[t].blk, NULL)
  OBVIOUS
<1>3. r' = [r EXCEPT ![t] = y]
  <2>1. y = [r[t] EXCEPT !.pc = "dload", !.word = NULL]
    BY <1>1, <1>2, RemotePcWord, Zenon
  <2> QED BY <2>1, Zenon DEF RDelayedFail
<1>4. /\ y \in RemoteType /\ y.pc = "dload" /\ y.blk = r[t].blk /\ y.word = NULL
  BY <1>1, <1>2, RemoteMade DEF RPc
<1>5. r[t].pc = "dcas" /\ UNCHANGED <<mem, page, xfree, dfree, held, o>> /\ r[t].blk # NULL
  BY <1>1 DEF RDelayedFail, RemoteAt
<1> QED BY <1>1, <1>3, <1>4, <1>5, RemoteQuiet

LEMMA StepRXor ==
  ASSUME IInv, NEW t \in Remote, RXor(t)
  PROVE  IInv' /\ Abstract
<1>1. /\ TypeOK /\ RemoteAt(t) /\ r[t] \in RemoteType /\ r[t].word \in Word /\ r[t].blk \in Link
      /\ xfree \in Word /\ dfree \in Link /\ dfree \in Word /\ NULL \in Word /\ NULL \in Link
  BY RemoteTypes DEF IInv
<1>2. PICK y : y = RemoteIs("idle", r[t].blk, r[t].word)
  OBVIOUS
<1>3. r' = [r EXCEPT ![t] = y]
  BY <1>1, <1>2, RemotePc, Zenon DEF RXor
<1>4. /\ y \in RemoteType /\ y.pc = "idle" /\ y.blk = r[t].blk /\ y.word = r[t].word
  BY <1>1, <1>2, RemoteMade DEF RPc
<1>5. /\ r[t].pc = "xor" /\ xfree' = xor3(xfree) /\ UNCHANGED <<mem, page, dfree, held, o>>
      /\ r[t].blk = NULL
  BY <1>1 DEF RXor, RemoteAt
<1>6. xfree' \in Word /\ get_ptr(xfree') = get_ptr(xfree)
  BY <1>1, <1>5, Masks
<1> QED BY <1>1, <1>3, <1>4, <1>5, <1>6, RemoteQuiet

-----------------------------------------------------------------------------
(* The owner's records                                                      *)

OwnerIs(p, e, k, l, t, a, c, b, w) ==
  [pc |-> p, ret |-> e, back |-> k, ll |-> l, taken |-> t, at |-> a, count |-> c, blk |-> b,
   word |-> w]

LEMMA OwnerMade ==
  ASSUME NEW p, NEW e, NEW k, NEW l, NEW t, NEW a, NEW c, NEW b, NEW w
  PROVE  /\ OwnerIs(p, e, k, l, t, a, c, b, w).pc = p
         /\ OwnerIs(p, e, k, l, t, a, c, b, w).ret = e
         /\ OwnerIs(p, e, k, l, t, a, c, b, w).back = k
         /\ OwnerIs(p, e, k, l, t, a, c, b, w).ll = l
         /\ OwnerIs(p, e, k, l, t, a, c, b, w).taken = t
         /\ OwnerIs(p, e, k, l, t, a, c, b, w).at = a
         /\ OwnerIs(p, e, k, l, t, a, c, b, w).count = c
         /\ OwnerIs(p, e, k, l, t, a, c, b, w).blk = b
         /\ OwnerIs(p, e, k, l, t, a, c, b, w).word = w
         /\ /\ p \in OPc /\ e \in {"idle", "delayed", "found"} /\ k \in {"idle", "pop"}
            /\ l \in Value /\ t \in Value /\ a \in Value /\ c \in Nat /\ b \in Link /\ w \in Word
            => OwnerIs(p, e, k, l, t, a, c, b, w) \in OwnerType
BY DEF OwnerIs, OwnerType

LEMMA OwnerPc ==
  ASSUME NEW x \in OwnerType, NEW p
  PROVE  [x EXCEPT !.pc = p]
           = OwnerIs(p, x.ret, x.back, x.ll, x.taken, x.at, x.count, x.blk, x.word)
BY DEF OwnerType, OwnerIs

LEMMA OwnerPcRet ==
  ASSUME NEW x \in OwnerType, NEW p, NEW e
  PROVE  [x EXCEPT !.pc = p, !.ret = e]
           = OwnerIs(p, e, x.back, x.ll, x.taken, x.at, x.count, x.blk, x.word)
<1>1. PICK y : y = [x EXCEPT !.pc = p]
  OBVIOUS
<1>2. y = OwnerIs(p, x.ret, x.back, x.ll, x.taken, x.at, x.count, x.blk, x.word)
  BY <1>1 DEF OwnerType, OwnerIs
<1>3. [y EXCEPT !.ret = e] = OwnerIs(p, e, x.back, x.ll, x.taken, x.at, x.count, x.blk, x.word)
  BY <1>2 DEF OwnerIs
<1> QED BY <1>1, <1>3, Zenon

LEMMA OwnerPcWord ==
  ASSUME NEW x \in OwnerType, NEW p, NEW w
  PROVE  [x EXCEPT !.pc = p, !.word = w]
           = OwnerIs(p, x.ret, x.back, x.ll, x.taken, x.at, x.count, x.blk, w)
<1>1. PICK y : y = [x EXCEPT !.pc = p]
  OBVIOUS
<1>2. y = OwnerIs(p, x.ret, x.back, x.ll, x.taken, x.at, x.count, x.blk, x.word)
  BY <1>1 DEF OwnerType, OwnerIs
<1>3. [y EXCEPT !.word = w] = OwnerIs(p, x.ret, x.back, x.ll, x.taken, x.at, x.count, x.blk, w)
  BY <1>2 DEF OwnerIs
<1> QED BY <1>1, <1>3, Zenon

LEMMA OwnerPcLl ==
  ASSUME NEW x \in OwnerType, NEW p, NEW l
  PROVE  [x EXCEPT !.pc = p, !.ll = l]
           = OwnerIs(p, x.ret, x.back, l, x.taken, x.at, x.count, x.blk, x.word)
<1>1. PICK y : y = [x EXCEPT !.pc = p]
  OBVIOUS
<1>2. y = OwnerIs(p, x.ret, x.back, x.ll, x.taken, x.at, x.count, x.blk, x.word)
  BY <1>1 DEF OwnerType, OwnerIs
<1>3. [y EXCEPT !.ll = l] = OwnerIs(p, x.ret, x.back, l, x.taken, x.at, x.count, x.blk, x.word)
  BY <1>2 DEF OwnerIs
<1> QED BY <1>1, <1>3, Zenon

LEMMA OwnerPcBack ==
  ASSUME NEW x \in OwnerType, NEW p, NEW k
  PROVE  [x EXCEPT !.pc = p, !.back = k]
           = OwnerIs(p, x.ret, k, x.ll, x.taken, x.at, x.count, x.blk, x.word)
<1>1. PICK y : y = [x EXCEPT !.pc = p]
  OBVIOUS
<1>2. y = OwnerIs(p, x.ret, x.back, x.ll, x.taken, x.at, x.count, x.blk, x.word)
  BY <1>1 DEF OwnerType, OwnerIs
<1>3. [y EXCEPT !.back = k] = OwnerIs(p, x.ret, k, x.ll, x.taken, x.at, x.count, x.blk, x.word)
  BY <1>2 DEF OwnerIs
<1> QED BY <1>1, <1>3, Zenon

LEMMA OwnerPcBlk ==
  ASSUME NEW x \in OwnerType, NEW p, NEW b
  PROVE  [x EXCEPT !.pc = p, !.blk = b]
           = OwnerIs(p, x.ret, x.back, x.ll, x.taken, x.at, x.count, b, x.word)
<1>1. PICK y : y = [x EXCEPT !.pc = p]
  OBVIOUS
<1>2. y = OwnerIs(p, x.ret, x.back, x.ll, x.taken, x.at, x.count, x.blk, x.word)
  BY <1>1 DEF OwnerType, OwnerIs
<1>3. [y EXCEPT !.blk = b] = OwnerIs(p, x.ret, x.back, x.ll, x.taken, x.at, x.count, b, x.word)
  BY <1>2 DEF OwnerIs
<1> QED BY <1>1, <1>3, Zenon

LEMMA OwnerPcTaken ==
  ASSUME NEW x \in OwnerType, NEW p, NEW t
  PROVE  [x EXCEPT !.pc = p, !.taken = t]
           = OwnerIs(p, x.ret, x.back, x.ll, t, x.at, x.count, x.blk, x.word)
<1>1. PICK y : y = [x EXCEPT !.pc = p]
  OBVIOUS
<1>2. y = OwnerIs(p, x.ret, x.back, x.ll, x.taken, x.at, x.count, x.blk, x.word)
  BY <1>1 DEF OwnerType, OwnerIs
<1>3. [y EXCEPT !.taken = t] = OwnerIs(p, x.ret, x.back, x.ll, t, x.at, x.count, x.blk, x.word)
  BY <1>2 DEF OwnerIs
<1> QED BY <1>1, <1>3, Zenon

LEMMA OwnerAtCount ==
  ASSUME NEW x \in OwnerType, NEW a, NEW c
  PROVE  [x EXCEPT !.at = a, !.count = c]
           = OwnerIs(x.pc, x.ret, x.back, x.ll, x.taken, a, c, x.blk, x.word)
<1>1. PICK y : y = [x EXCEPT !.at = a]
  OBVIOUS
<1>2. y = OwnerIs(x.pc, x.ret, x.back, x.ll, x.taken, a, x.count, x.blk, x.word)
  BY <1>1 DEF OwnerType, OwnerIs
<1>3. [y EXCEPT !.count = c] = OwnerIs(x.pc, x.ret, x.back, x.ll, x.taken, a, c, x.blk, x.word)
  BY <1>2 DEF OwnerIs
<1> QED BY <1>1, <1>3, Zenon

-----------------------------------------------------------------------------
(* Steps of the owner                                                       *)

LEMMA OwnerTypes ==
  ASSUME IInv
  PROVE  /\ TypeOK /\ Core /\ Ownership /\ OwnerFits(o, mem, page, lists["taken"])
         /\ \A t \in Remote : RemoteAt(t)
         /\ o \in OwnerType /\ page \in PageType /\ mem \in Memory
         /\ o.pc \in OPc /\ o.ret \in {"idle", "delayed", "found"} /\ o.back \in {"idle", "pop"}
         /\ o.ll \in Value /\ o.taken \in Value /\ o.at \in Value /\ o.count \in Nat
         /\ o.blk \in Link /\ o.word \in Word
         /\ xfree \in Word /\ dfree \in Link /\ dfree \in Word
         /\ NULL \in Word /\ NULL \in Link /\ NULL \in Value /\ dfree \in Value
<1>1. /\ TypeOK /\ Core /\ Ownership /\ OwnerFits(o, mem, page, lists["taken"])
      /\ \A t \in Remote : RemoteAt(t)
  BY DEF IInv, OwnerAt
<1>2. /\ o \in OwnerType /\ page \in PageType /\ mem \in Memory
      /\ xfree \in Word /\ dfree \in Link
  BY <1>1 DEF TypeOK
<1>3. /\ o.pc \in OPc /\ o.ret \in {"idle", "delayed", "found"} /\ o.back \in {"idle", "pop"}
      /\ o.ll \in Value /\ o.taken \in Value /\ o.at \in Value /\ o.count \in Nat
      /\ o.blk \in Link /\ o.word \in Word
  BY <1>2 DEF OwnerType
<1>4. NULL \in Link /\ Link \subseteq Value
  BY DEF Link, Value
<1> QED BY <1>1, <1>2, <1>3, <1>4, LinksAreWords

\* What the owner leaves to the other threads.
LEMMA OwnerLeaves ==
  ASSUME IInv, TypeOK', Core', Ownership', OwnerFits(o', mem', page', lists'["taken"]), r' = r,
         \A t \in Remote : r[t].blk # NULL => mem'[r[t].blk] = mem[r[t].blk]
  PROVE  IInv'
<1>1. ASSUME NEW t \in Remote PROVE RemoteAt(t)'
  <2>1. RemoteAt(t)
    BY DEF IInv
  <2> QED BY <2>1 DEF RemoteAt
<1> QED BY <1>1 DEF IInv, OwnerAt

LEMMA OwnershipKept ==
  ASSUME TypeOK, Ownership, r' = r, o'.blk = o.blk \/ o'.blk = NULL, held' \subseteq held
  PROVE  Ownership'
<1>1. NULL \notin held
  BY Addresses DEF TypeOK
<1> QED BY <1>1 DEF Ownership

\* A step that leaves the lists as they are.
LEMMA OwnerQuiet ==
  ASSUME IInv, NEW y \in OwnerType, o' = y, y.blk = o.blk, y.ll = o.ll, y.taken = o.taken,
         page' \in PageType, page'.free = page.free, page'.local_free = page.local_free,
         page'.used = page.used, page'.capacity = page.capacity,
         xfree' \in Word, get_ptr(xfree') = get_ptr(xfree),
         UNCHANGED <<mem, dfree, held, r>>,
         OwnerFits(y, mem, page, lists["taken"])
  PROVE  IInv' /\ Abstract
<1>1. TypeOK /\ Core /\ Ownership
  BY DEF IInv
<1>2. TypeOK'
  BY <1>1 DEF TypeOK
<1>3. loose' = loose
  BY DEF loose
<1>4. Heads' = Heads
  BY DEF Heads
<1>5. Core' /\ lists' = lists
  BY <1>1, <1>3, <1>4, CoreStays
<1>6. Ownership'
  BY <1>1, OwnershipKept
<1>7. OwnerFits(o', mem', page', lists'["taken"])
  BY <1>5 DEF OwnerFits
<1>8. IInv'
  BY <1>2, <1>5, <1>6, <1>7, OwnerLeaves
<1> QED BY <1>3, <1>5, <1>8 DEF Abstract

LEMMA StepOCheckGood ==
  ASSUME IInv, OCheckGood
  PROVE  IInv' /\ Abstract
<1>1. o.pc = "check" /\ UNCHANGED <<mem, page, xfree, dfree, held, r>>
  BY DEF OCheckGood
<1>2. PICK y : y = OwnerIs("disable", o.ret, o.back, o.ll, o.taken, o.at, o.count, o.blk, o.word)
  OBVIOUS
<1>3. o' = y
  <2>1. o \in OwnerType
    BY OwnerTypes
  <2>2. y = [o EXCEPT !.pc = "disable"]
    BY <1>2, <2>1, OwnerPc, Zenon
  <2> QED BY <2>2, Zenon DEF OCheckGood
<1>4. y \in OwnerType /\ y.pc = "disable" /\ y.ret = o.ret /\ y.back = o.back
      /\ y.ll = o.ll /\ y.taken = o.taken /\ y.at = o.at
      /\ y.count = o.count /\ y.blk = o.blk /\ y.word = o.word
  BY <1>2, OwnerTypes, OwnerMade DEF OPc
<1>5. OwnerFits(y, mem, page, lists["taken"])
  BY <1>1, <1>4, OwnerTypes DEF OwnerFits, Collecting, Freeing, HasBlock
<1> QED BY <1>1, <1>3, <1>4, <1>5, OwnerTypes, OwnerQuiet

LEMMA StepOPopDone ==
  ASSUME IInv, OPopDone
  PROVE  IInv' /\ Abstract
<1>1. o.pc = "pop" /\ o.ll = NULL /\ UNCHANGED <<mem, page, xfree, dfree, held, r>>
  BY DEF OPopDone
<1>2. PICK y : y = OwnerIs("find", o.ret, o.back, o.ll, o.taken, o.at, o.count, o.blk, o.word)
  OBVIOUS
<1>3. o' = y
  <2>1. o \in OwnerType
    BY OwnerTypes
  <2>2. y = [o EXCEPT !.pc = "find"]
    BY <1>2, <2>1, OwnerPc, Zenon
  <2> QED BY <2>2, Zenon DEF OPopDone
<1>4. y \in OwnerType /\ y.pc = "find" /\ y.ret = o.ret /\ y.back = o.back
      /\ y.ll = o.ll /\ y.taken = o.taken /\ y.at = o.at
      /\ y.count = o.count /\ y.blk = o.blk /\ y.word = o.word
  BY <1>2, OwnerTypes, OwnerMade DEF OPc
<1>5. OwnerFits(y, mem, page, lists["taken"])
  BY <1>1, <1>4, OwnerTypes DEF OwnerFits, Collecting, Freeing, HasBlock
<1> QED BY <1>1, <1>3, <1>4, <1>5, OwnerTypes, OwnerQuiet

LEMMA StepOTryGiveUp ==
  ASSUME IInv, OTryGiveUp
  PROVE  IInv' /\ Abstract
<1>1. o.pc = "try" /\ UNCHANGED <<mem, page, xfree, dfree, held, r>>
  BY DEF OTryGiveUp
<1>2. PICK y : y = OwnerIs("rload", o.ret, o.back, o.ll, o.taken, o.at, o.count, o.blk, o.word)
  OBVIOUS
<1>3. o' = y
  <2>1. o \in OwnerType
    BY OwnerTypes
  <2>2. y = [o EXCEPT !.pc = "rload"]
    BY <1>2, <2>1, OwnerPc, Zenon
  <2> QED BY <2>2, Zenon DEF OTryGiveUp
<1>4. y \in OwnerType /\ y.pc = "rload" /\ y.ret = o.ret /\ y.back = o.back
      /\ y.ll = o.ll /\ y.taken = o.taken /\ y.at = o.at
      /\ y.count = o.count /\ y.blk = o.blk /\ y.word = o.word
  BY <1>2, OwnerTypes, OwnerMade DEF OPc
<1>5. OwnerFits(y, mem, page, lists["taken"])
  BY <1>1, <1>4, OwnerTypes DEF OwnerFits, Collecting, Freeing, HasBlock
<1> QED BY <1>1, <1>3, <1>4, <1>5, OwnerTypes, OwnerQuiet

LEMMA StepOTryFail ==
  ASSUME IInv, OTryFail
  PROVE  IInv' /\ Abstract
<1>1. o.pc = "trycas" /\ UNCHANGED <<mem, page, xfree, dfree, held, r>>
  BY DEF OTryFail
<1>2. PICK y : y = OwnerIs("try", o.ret, o.back, o.ll, o.taken, o.at, o.count, o.blk, NULL)
  OBVIOUS
<1>3. o' = y
  <2>1. o \in OwnerType
    BY OwnerTypes
  <2>2. y = [o EXCEPT !.pc = "try", !.word = NULL]
    BY <1>2, <2>1, OwnerPcWord, Zenon
  <2> QED BY <2>2, Zenon DEF OTryFail
<1>4. y \in OwnerType /\ y.pc = "try" /\ y.ret = o.ret /\ y.back = o.back
      /\ y.ll = o.ll /\ y.taken = o.taken /\ y.at = o.at
      /\ y.count = o.count /\ y.blk = o.blk /\ y.word = NULL
  BY <1>2, OwnerTypes, OwnerMade DEF OPc
<1>5. OwnerFits(y, mem, page, lists["taken"])
  BY <1>1, <1>4, OwnerTypes DEF OwnerFits, Collecting, Freeing, HasBlock
<1> QED BY <1>1, <1>3, <1>4, <1>5, OwnerTypes, OwnerQuiet

LEMMA StepOReinsertFail ==
  ASSUME IInv, OReinsertFail
  PROVE  IInv' /\ Abstract
<1>1. o.pc = "rcas" /\ UNCHANGED <<mem, page, xfree, dfree, held, r>>
  BY DEF OReinsertFail
<1>2. PICK y : y = OwnerIs("rload", o.ret, o.back, o.ll, o.taken, o.at, o.count, o.blk, NULL)
  OBVIOUS
<1>3. o' = y
  <2>1. o \in OwnerType
    BY OwnerTypes
  <2>2. y = [o EXCEPT !.pc = "rload", !.word = NULL]
    BY <1>2, <2>1, OwnerPcWord, Zenon
  <2> QED BY <2>2, Zenon DEF OReinsertFail
<1>4. y \in OwnerType /\ y.pc = "rload" /\ y.ret = o.ret /\ y.back = o.back
      /\ y.ll = o.ll /\ y.taken = o.taken /\ y.at = o.at
      /\ y.count = o.count /\ y.blk = o.blk /\ y.word = NULL
  BY <1>2, OwnerTypes, OwnerMade DEF OPc
<1>5. OwnerFits(y, mem, page, lists["taken"])
  BY <1>1, <1>4, OwnerTypes DEF OwnerFits, Collecting, Freeing, HasBlock
<1> QED BY <1>1, <1>3, <1>4, <1>5, OwnerTypes, OwnerQuiet

LEMMA StepOFind ==
  ASSUME IInv, OFind
  PROVE  IInv' /\ Abstract
<1>1. o.pc = "find" /\ UNCHANGED <<mem, page, xfree, dfree, held, r>>
  BY DEF OFind
<1>2. PICK y : y = OwnerIs("collect", "found", o.back, o.ll, o.taken, o.at, o.count, o.blk, o.word)
  OBVIOUS
<1>3. o' = y
  <2>1. o \in OwnerType
    BY OwnerTypes
  <2>2. y = [o EXCEPT !.pc = "collect", !.ret = "found"]
    BY <1>2, <2>1, OwnerPcRet, Zenon
  <2> QED BY <2>2, Zenon DEF OFind
<1>4. y \in OwnerType /\ y.pc = "collect" /\ y.ret = "found" /\ y.back = o.back
      /\ y.ll = o.ll /\ y.taken = o.taken /\ y.at = o.at
      /\ y.count = o.count /\ y.blk = o.blk /\ y.word = o.word
  BY <1>2, OwnerTypes, OwnerMade DEF OPc
<1>5. OwnerFits(y, mem, page, lists["taken"])
  BY <1>1, <1>4, OwnerTypes DEF OwnerFits, Collecting, Freeing, HasBlock
<1> QED BY <1>1, <1>3, <1>4, <1>5, OwnerTypes, OwnerQuiet

LEMMA StepOFindOther ==
  ASSUME IInv, OFindOther
  PROVE  IInv' /\ Abstract
<1>1. o.pc = "find" /\ UNCHANGED <<mem, page, xfree, dfree, held, r>>
  BY DEF OFindOther
<1>2. PICK y : y = OwnerIs("idle", o.ret, o.back, o.ll, o.taken, o.at, o.count, o.blk, o.word)
  OBVIOUS
<1>3. o' = y
  <2>1. o \in OwnerType
    BY OwnerTypes
  <2>2. y = [o EXCEPT !.pc = "idle"]
    BY <1>2, <2>1, OwnerPc, Zenon
  <2> QED BY <2>2, Zenon DEF OFindOther
<1>4. y \in OwnerType /\ y.pc = "idle" /\ y.ret = o.ret /\ y.back = o.back
      /\ y.ll = o.ll /\ y.taken = o.taken /\ y.at = o.at
      /\ y.count = o.count /\ y.blk = o.blk /\ y.word = o.word
  BY <1>2, OwnerTypes, OwnerMade DEF OPc
<1>5. OwnerFits(y, mem, page, lists["taken"])
  BY <1>1, <1>4, OwnerTypes DEF OwnerFits, Collecting, Freeing, HasBlock
<1> QED BY <1>1, <1>3, <1>4, <1>5, OwnerTypes, OwnerQuiet

LEMMA StepOTakeLoad ==
  ASSUME IInv, OTakeLoad
  PROVE  IInv' /\ Abstract
<1>1. o.pc = "idle" /\ UNCHANGED <<mem, page, xfree, dfree, held, r>>
  BY DEF OTakeLoad
<1>2. PICK p : p = IF dfree = NULL THEN "find" ELSE "swap"
  OBVIOUS
<1>3. PICK y : y = OwnerIs(p, o.ret, o.back, o.ll, o.taken, o.at, o.count, o.blk, o.word)
  OBVIOUS
<1>4. o' = y
  <2>1. o \in OwnerType
    BY OwnerTypes
  <2>2. y = [o EXCEPT !.pc = p]
    BY <1>3, <2>1, OwnerPc, Zenon
  <2> QED BY <1>2, <2>2, Zenon DEF OTakeLoad
<1>5. p = "find" \/ p = "swap"
  BY <1>2
<1>6. y \in OwnerType /\ y.pc = p /\ y.ret = o.ret /\ y.back = o.back
      /\ y.ll = o.ll /\ y.taken = o.taken /\ y.at = o.at
      /\ y.count = o.count /\ y.blk = o.blk /\ y.word = o.word
  BY <1>3, <1>5, OwnerTypes, OwnerMade DEF OPc
<1>7. OwnerFits(y, mem, page, lists["taken"])
  BY <1>1, <1>6, <1>5, OwnerTypes DEF OwnerFits, Collecting, Freeing, HasBlock
<1> QED BY <1>1, <1>4, <1>6, <1>7, OwnerTypes, OwnerQuiet

LEMMA StepOCollectLoad ==
  ASSUME IInv, OCollectLoad
  PROVE  IInv' /\ Abstract
<1>1. o.pc = "collect" /\ UNCHANGED <<mem, page, xfree, dfree, held, r>>
  BY DEF OCollectLoad
<1>2. PICK p : p = IF xfree # NULL THEN "take" ELSE "refill"
  OBVIOUS
<1>3. PICK y : y = OwnerIs(p, o.ret, o.back, o.ll, o.taken, o.at, o.count, o.blk, o.word)
  OBVIOUS
<1>4. o' = y
  <2>1. o \in OwnerType
    BY OwnerTypes
  <2>2. y = [o EXCEPT !.pc = p]
    BY <1>3, <2>1, OwnerPc, Zenon
  <2> QED BY <1>2, <2>2, Zenon DEF OCollectLoad
<1>5. p = "take" \/ p = "refill"
  BY <1>2
<1>6. y \in OwnerType /\ y.pc = p /\ y.ret = o.ret /\ y.back = o.back
      /\ y.ll = o.ll /\ y.taken = o.taken /\ y.at = o.at
      /\ y.count = o.count /\ y.blk = o.blk /\ y.word = o.word
  BY <1>3, <1>5, OwnerTypes, OwnerMade DEF OPc
<1>7. OwnerFits(y, mem, page, lists["taken"])
  BY <1>1, <1>6, <1>5, OwnerTypes DEF OwnerFits, Collecting, Freeing, HasBlock
<1> QED BY <1>1, <1>4, <1>6, <1>7, OwnerTypes, OwnerQuiet

LEMMA StepOTryLoad ==
  ASSUME IInv, OTryLoad
  PROVE  IInv' /\ Abstract
<1>1. o.pc = "try" /\ UNCHANGED <<mem, page, xfree, dfree, held, r>>
  BY DEF OTryLoad
<1>2. CASE get_delay(xfree) = 0
  <2>1. PICK y : y = OwnerIs("collect", "delayed", o.back, o.ll, o.taken, o.at, o.count, o.blk, o.word)
    OBVIOUS
  <2>2. o' = y
    <3>1. o \in OwnerType
      BY OwnerTypes
    <3>2. y = [o EXCEPT !.pc = "collect", !.ret = "delayed"]
      BY <2>1, <3>1, OwnerPcRet, Zenon
    <3> QED BY <1>2, <3>2, Zenon DEF OTryLoad
  <2>3. y \in OwnerType /\ y.pc = "collect" /\ y.ret = "delayed" /\ y.back = o.back
        /\ y.ll = o.ll /\ y.taken = o.taken /\ y.at = o.at
        /\ y.count = o.count /\ y.blk = o.blk /\ y.word = o.word
    BY <2>1, OwnerTypes, OwnerMade DEF OPc
  <2>4. OwnerFits(y, mem, page, lists["taken"])
    BY <1>1, <2>3, OwnerTypes DEF OwnerFits, Collecting, Freeing, HasBlock
  <2> QED BY <1>1, <2>2, <2>3, <2>4, OwnerTypes, OwnerQuiet
<1>3. CASE get_delay(xfree) # 0
  <2>1. PICK y : y = OwnerIs("trycas", o.ret, o.back, o.ll, o.taken, o.at, o.count, o.blk, xfree)
    OBVIOUS
  <2>2. o' = y
    <3>1. o \in OwnerType
      BY OwnerTypes
    <3>2. y = [o EXCEPT !.pc = "trycas", !.word = xfree]
      BY <2>1, <3>1, OwnerPcWord, Zenon
    <3> QED BY <1>3, <3>2, Zenon DEF OTryLoad
  <2>3. y \in OwnerType /\ y.pc = "trycas" /\ y.ret = o.ret /\ y.back = o.back
        /\ y.ll = o.ll /\ y.taken = o.taken /\ y.at = o.at
        /\ y.count = o.count /\ y.blk = o.blk /\ y.word = xfree
    BY <2>1, OwnerTypes, OwnerMade DEF OPc
  <2>4. OwnerFits(y, mem, page, lists["taken"])
    BY <1>1, <2>3, OwnerTypes DEF OwnerFits, Collecting, Freeing, HasBlock
  <2> QED BY <1>1, <2>2, <2>3, <2>4, OwnerTypes, OwnerQuiet
<1> QED BY <1>2, <1>3

LEMMA StepOTryCas ==
  ASSUME IInv, OTryCas
  PROVE  IInv' /\ Abstract
<1>1. /\ o.pc = "trycas" /\ xfree = o.word /\ xfree' = set_delay(xfree, 0)
      /\ UNCHANGED <<mem, page, dfree, held, r>>
  BY DEF OTryCas
<1>2. PICK y : y = OwnerIs("collect", "delayed", o.back, o.ll, o.taken, o.at, o.count, o.blk, NULL)
  OBVIOUS
<1>3. o' = y
  <2>1. o \in OwnerType
    BY OwnerTypes
  <2>2. PICK z : z = OwnerIs("collect", "delayed", o.back, o.ll, o.taken, o.at, o.count, o.blk, o.word)
    OBVIOUS
  <2>3. z = [o EXCEPT !.pc = "collect", !.ret = "delayed"]
    BY <2>1, <2>2, OwnerPcRet, Zenon
  <2>4. y = [z EXCEPT !.word = NULL]
    BY <1>2, <2>2 DEF OwnerIs
  <2> QED BY <2>3, <2>4, Zenon DEF OTryCas
<1>4. y \in OwnerType /\ y.pc = "collect" /\ y.ret = "delayed" /\ y.back = o.back
      /\ y.ll = o.ll /\ y.taken = o.taken /\ y.at = o.at
      /\ y.count = o.count /\ y.blk = o.blk /\ y.word = NULL
  BY <1>2, OwnerTypes, OwnerMade DEF OPc
<1>5. OwnerFits(y, mem, page, lists["taken"])
  BY <1>1, <1>4, OwnerTypes DEF OwnerFits, Collecting, Freeing, HasBlock
<1>6. xfree' \in Word /\ get_ptr(xfree') = get_ptr(xfree)
  <2>1. PICK d \in 0 .. 3 : d = 0
    OBVIOUS
  <2> QED BY <1>1, <2>1, OwnerTypes, Masks
<1> QED BY <1>1, <1>3, <1>4, <1>5, <1>6, OwnerTypes, OwnerQuiet

LEMMA StepODisable ==
  ASSUME IInv, ODisable
  PROVE  IInv' /\ Abstract
<1>1. o.pc = "disable" /\ xfree' = NULL /\ UNCHANGED <<mem, page, dfree, held, r>>
  BY DEF ODisable
<1>2. PICK y : y = OwnerIs(o.back, o.ret, "idle", o.ll, o.taken, o.at, o.count, o.blk, o.word)
  OBVIOUS
<1>3. o' = y
  <2>1. o \in OwnerType
    BY OwnerTypes
  <2>2. y = [o EXCEPT !.pc = o.back, !.back = "idle"]
    BY <1>2, <2>1, OwnerPcBack, Zenon
  <2> QED BY <2>2, Zenon DEF ODisable
<1>4. y \in OwnerType /\ y.pc = o.back /\ y.ret = o.ret /\ y.back = "idle"
      /\ y.ll = o.ll /\ y.taken = o.taken /\ y.at = o.at
      /\ y.count = o.count /\ y.blk = o.blk /\ y.word = o.word
  BY <1>2, OwnerTypes, OwnerMade DEF OPc
<1>5. OwnerFits(y, mem, page, lists["taken"])
  BY <1>1, <1>4, OwnerTypes DEF OwnerFits, Collecting, Freeing, HasBlock
<1>6. xfree' \in Word /\ get_ptr(xfree') = get_ptr(xfree)
  <2>1. page.capacity = 0
    BY <1>1, OwnerTypes DEF OwnerFits
  <2>2. get_ptr(xfree) = NULL
    BY <2>1, OwnerTypes, NoCapacity, HeadsAre, CoreLists
  <2>3. get_ptr(NULL) = NULL
    BY DEF get_ptr, NULL
  <2> QED BY <1>1, <2>2, <2>3, OwnerTypes
<1> QED BY <1>1, <1>3, <1>4, <1>5, <1>6, OwnerTypes, OwnerQuiet

LEMMA StepOAppendWalk ==
  ASSUME IInv, OAppendWalk
  PROVE  IInv' /\ Abstract
<1>1. o.pc = "append" /\ mem[o.at] # NULL /\ UNCHANGED <<mem, page, xfree, dfree, held, r>>
  BY DEF OAppendWalk
<1>2. PICK a, c : a = mem[o.at] /\ c = o.count + 1
  OBVIOUS
<1>3. PICK s : s = lists["taken"]
  OBVIOUS
<1>4. /\ Len(s) \in Nat /\ o.count \in 1 .. Len(s) /\ o.at = Adr(s[o.count])
      /\ \A k \in 1 .. Len(s) : s[k] \in Block
  BY <1>1, <1>3, OwnerTypes, CoreLists, ConfigSeq DEF OwnerFits
<1>5. a = At(s, c)
  BY <1>2, <1>3, <1>4, OwnerTypes, CoreLists DEF Core, Config, Leads
<1>6. c \in 1 .. Len(s) /\ a = Adr(s[c]) /\ c \in Nat
  BY <1>1, <1>2, <1>4, <1>5 DEF At
<1>7. a \in Value
  BY <1>4, <1>6, Addresses DEF Value, Link
<1>8. PICK y : y = OwnerIs(o.pc, o.ret, o.back, o.ll, o.taken, a, c, o.blk, o.word)
  OBVIOUS
<1>9. o' = y
  <2>1. o \in OwnerType
    BY OwnerTypes
  <2>2. y = [o EXCEPT !.at = a, !.count = c]
    BY <1>8, <2>1, OwnerAtCount, Zenon
  <2> QED BY <1>2, <2>2, Zenon DEF OAppendWalk
<1>10. y \in OwnerType /\ y.pc = o.pc /\ y.ret = o.ret /\ y.back = o.back
      /\ y.ll = o.ll /\ y.taken = o.taken /\ y.at = a
      /\ y.count = c /\ y.blk = o.blk /\ y.word = o.word
  BY <1>6, <1>7, <1>8, OwnerTypes, OwnerMade
<1>11. OwnerFits(y, mem, page, s)
  BY <1>1, <1>3, <1>6, <1>10, OwnerTypes DEF OwnerFits, Collecting, Freeing, HasBlock
<1> QED BY <1>1, <1>3, <1>9, <1>10, <1>11, OwnerTypes, OwnerQuiet

-----------------------------------------------------------------------------
(* The page's headers                                                       *)

PageIs(f, l, u, c, i) ==
  [free |-> f, local_free |-> l, used |-> u, capacity |-> c, in_full |-> i]

LEMMA PageMade ==
  ASSUME NEW f, NEW l, NEW u, NEW c, NEW i
  PROVE  /\ PageIs(f, l, u, c, i).free = f
         /\ PageIs(f, l, u, c, i).local_free = l
         /\ PageIs(f, l, u, c, i).used = u
         /\ PageIs(f, l, u, c, i).capacity = c
         /\ PageIs(f, l, u, c, i).in_full = i
         /\ /\ f \in Value /\ l \in Value /\ u \in Int /\ c \in 0 .. RESERVED /\ i \in BOOLEAN
            => PageIs(f, l, u, c, i) \in PageType
BY DEF PageIs, PageType

LEMMA PageFree ==
  ASSUME NEW x \in PageType, NEW f
  PROVE  [x EXCEPT !.free = f] = PageIs(f, x.local_free, x.used, x.capacity, x.in_full)
BY DEF PageType, PageIs

LEMMA PageFreeUsed ==
  ASSUME NEW x \in PageType, NEW f, NEW u
  PROVE  [x EXCEPT !.free = f, !.used = u] = PageIs(f, x.local_free, u, x.capacity, x.in_full)
<1>1. PICK y : y = [x EXCEPT !.free = f]
  OBVIOUS
<1>2. y = PageIs(f, x.local_free, x.used, x.capacity, x.in_full)
  BY <1>1, PageFree
<1>3. [y EXCEPT !.used = u] = PageIs(f, x.local_free, u, x.capacity, x.in_full)
  BY <1>2 DEF PageIs
<1> QED BY <1>1, <1>3, Zenon

LEMMA PageFreeLocal ==
  ASSUME NEW x \in PageType, NEW f, NEW l
  PROVE  [x EXCEPT !.free = f, !.local_free = l] = PageIs(f, l, x.used, x.capacity, x.in_full)
<1>1. PICK y : y = [x EXCEPT !.free = f]
  OBVIOUS
<1>2. y = PageIs(f, x.local_free, x.used, x.capacity, x.in_full)
  BY <1>1, PageFree
<1>3. [y EXCEPT !.local_free = l] = PageIs(f, l, x.used, x.capacity, x.in_full)
  BY <1>2 DEF PageIs
<1> QED BY <1>1, <1>3, Zenon

LEMMA PageFreeCapacity ==
  ASSUME NEW x \in PageType, NEW f, NEW c
  PROVE  [x EXCEPT !.free = f, !.capacity = c] = PageIs(f, x.local_free, x.used, c, x.in_full)
<1>1. PICK y : y = [x EXCEPT !.free = f]
  OBVIOUS
<1>2. y = PageIs(f, x.local_free, x.used, x.capacity, x.in_full)
  BY <1>1, PageFree
<1>3. [y EXCEPT !.capacity = c] = PageIs(f, x.local_free, x.used, c, x.in_full)
  BY <1>2 DEF PageIs
<1> QED BY <1>1, <1>3, Zenon

LEMMA PageLocalUsed ==
  ASSUME NEW x \in PageType, NEW l, NEW u
  PROVE  [x EXCEPT !.local_free = l, !.used = u] = PageIs(x.free, l, u, x.capacity, x.in_full)
<1>1. PICK y : y = [x EXCEPT !.local_free = l]
  OBVIOUS
<1>2. y = PageIs(x.free, l, x.used, x.capacity, x.in_full)
  BY <1>1 DEF PageIs, PageType
<1>3. [y EXCEPT !.used = u] = PageIs(x.free, l, u, x.capacity, x.in_full)
  BY <1>2 DEF PageIs
<1> QED BY <1>1, <1>3, Zenon

LEMMA PageTypes ==
  ASSUME IInv
  PROVE  /\ page \in PageType /\ page.free \in Value /\ page.local_free \in Value
         /\ page.used \in Int /\ page.capacity \in 0 .. RESERVED /\ page.in_full \in BOOLEAN
BY OwnerTypes DEF PageType

\* The first block of a list is with nobody.
LEMMA HeadApart ==
  ASSUME IInv, NEW n \in ListName, Heads[n] # NULL
  PROVE  /\ Heads[n] \in Address /\ Heads[n] \in Link /\ mem[Heads[n]] \in Value
         /\ Heads[n] \notin held /\ Heads[n] # o.blk /\ \A t \in Remote : r[t].blk # Heads[n]
<1>1. TypeOK /\ Config(mem, Heads, lists, loose, page.capacity) /\ mem \in Memory
  BY OwnerTypes DEF Core
<1>2. lists[n] # <<>> /\ Heads[n] = Adr(lists[n][1])
  BY <1>1, ConfigHead
<1>3. PICK b : b = lists[n][1]
  OBVIOUS
<1>4. b \in Block /\ b \notin loose
  <2>1. lists \in [ListName -> Seq(Block)] /\ Away(lists, loose)
    BY <1>1 DEF Config
  <2>2. Len(lists[n]) \in Nat /\ Len(lists[n]) # 0
    BY <1>2, <2>1, ConfigSeq
  <2>3. 1 \in 1 .. Len(lists[n])
    BY <2>2
  <2> QED BY <1>3, <2>1, <2>3, ConfigSeq DEF Away
<1>5. Adr(b) \notin held /\ Adr(b) # o.blk /\ \A t \in Remote : r[t].blk # Adr(b)
  BY <1>1, <1>4, LooseAre
<1>6. Heads[n] = Adr(b) /\ Adr(b) \in Address
  BY <1>2, <1>3, <1>4, Addresses
<1> QED BY <1>1, <1>5, <1>6 DEF Memory, Value, Link

-----------------------------------------------------------------------------
(* free and malloc                                                          *)

LEMMA StepFreeLocal ==
  ASSUME IInv, NEW a \in Address, NEW k \in {"idle", "pop"}, FreeLocal(a, k),
         \/ o.pc = "idle" /\ k = "idle" /\ a \in held /\ held' = held \ {a}
         \/ o.pc = "delayed" /\ k = "pop" /\ a = o.blk /\ held' = held,
         UNCHANGED <<xfree, dfree, r>>
  PROVE  IInv' /\ Abstract
<1>1. TypeOK /\ Core /\ Ownership /\ OwnerFits(o, mem, page, lists["taken"]) /\ mem \in Memory
  BY OwnerTypes
<1>2. mem' = [mem EXCEPT ![a] = page.free]
  BY DEF FreeLocal, insert_block
<1>3. PICK i : i = (page.in_full /\ page.used = 1)
  OBVIOUS
<1>4. PICK g : g = PageIs(a, page.local_free, page.used - 1, page.capacity, i)
  OBVIOUS
<1>5. page' = g
  <2>1. page \in PageType
    BY OwnerTypes
  <2>2. PICK z : z = PageIs(a, page.local_free, page.used - 1, page.capacity, page.in_full)
    OBVIOUS
  <2>3. z = [page EXCEPT !.free = a, !.used = page.used - 1]
    BY <2>1, <2>2, PageFreeUsed, Zenon
  <2>4. g = [z EXCEPT !.in_full = i]
    BY <1>4, <2>2 DEF PageIs
  <2>5. z.in_full = page.in_full
    BY <2>2, PageMade
  <2>6. PageInserted(a) = z
    BY <2>3, Zenon DEF PageInserted, insert_block
  <2>7. page' = [z EXCEPT !.in_full = z.in_full /\ page.used = 1]
    BY <2>6, Zenon DEF FreeLocal
  <2> QED BY <1>3, <2>4, <2>5, <2>7
<1>6. /\ g \in PageType /\ g.free = a /\ g.local_free = page.local_free /\ g.used = page.used - 1
      /\ g.capacity = page.capacity
  <2>1. a \in Value /\ i \in BOOLEAN /\ page.used - 1 \in Int
    BY <1>3, PageTypes DEF Value, Link
  <2> QED BY <1>4, <2>1, PageTypes, PageMade
<1>p. PICK pc \in (IF page.used = 1 THEN {k, "clear"} ELSE {k}) :
        o' = [o EXCEPT !.pc = pc, !.blk = NULL, !.back = IF pc = "clear" THEN k ELSE "idle"]
  BY Zenon DEF FreeLocal
<1>v. PICK v : v = IF pc = "clear" THEN k ELSE "idle"
  OBVIOUS
<1>7. /\ pc \in {k, "clear"}
      /\ o' = [o EXCEPT !.pc = pc, !.blk = NULL, !.back = v]
      /\ pc = "clear" => page.used = 1
      /\ v = IF pc = "clear" THEN k ELSE "idle"
  <2>1. pc \in {k, "clear"} /\ (pc = "clear" => page.used = 1)
    BY <1>p
  <2>2. o' = [o EXCEPT !.pc = pc, !.blk = NULL, !.back = v]
    BY <1>p, <1>v, Zenon
  <2> QED BY <1>v, <2>1, <2>2, Zenon
<1>8. PICK y : y = OwnerIs(pc, o.ret, v, o.ll, o.taken, o.at, o.count, NULL, o.word)
  OBVIOUS
<1>9. o' = y
  <2>1. o \in OwnerType
    BY OwnerTypes
  <2>2. PICK z : z = OwnerIs(pc, o.ret, o.back, o.ll, o.taken, o.at, o.count, NULL, o.word)
    OBVIOUS
  <2>3. z = [o EXCEPT !.pc = pc, !.blk = NULL]
    BY <2>1, <2>2, OwnerPcBlk, Zenon
  <2>4. y = [z EXCEPT !.back = v]
    BY <1>8, <2>2 DEF OwnerIs
  <2> QED BY <1>7, <2>3, <2>4, Zenon
<1>10. y \in OwnerType /\ y.pc = pc /\ y.ret = o.ret /\ y.back = v
       /\ y.ll = o.ll /\ y.taken = o.taken /\ y.blk = NULL
  <2>1. pc \in OPc /\ v \in {"idle", "pop"}
    BY <1>7 DEF OPc
  <2> QED BY <1>8, <2>1, OwnerTypes, OwnerMade
<1>11. PICK b \in loose : a = Adr(b)
  BY <1>1, LooseAdr, Addresses
<1>12. b \in Block /\ mem' \in Memory /\ \A d \in Address : d # a => mem'[d] = mem[d]
  <2>1. b \in Block
    BY <1>1, CoreLists
  <2> QED BY <1>1, <1>2, <2>1, PageTypes DEF Memory, Value
<1>13. TypeOK'
  BY <1>1, <1>5, <1>6, <1>9, <1>10, <1>12 DEF TypeOK
<1>14. o.pc = "idle" => o.blk = NULL
  BY <1>1 DEF OwnerFits, HasBlock, Collecting
<1>15. \A t \in Remote : r[t].blk # NULL => r[t].blk # a
  BY <1>1 DEF Ownership
<1>16. loose' = loose \ {b}
  <2>1. loose \subseteq Block /\ loose' \subseteq Block
    BY <1>1, <1>13, LooseAre, LooseWillBe
  <2>2. ASSUME NEW d \in Block PROVE d \in loose' <=> d \in loose /\ d # b
    <3>1. d \in loose' <=> Adr(d) \in held' \/ \E t \in Remote : Adr(d) = r[t].blk
      <4>1. Adr(d) # NULL
        BY Addresses
      <4> QED BY <1>9, <1>10, <1>13, <4>1, LooseWillBe
    <3>2. d \in loose <=> \/ Adr(d) \in held \/ Adr(d) = o.blk
                          \/ \E t \in Remote : Adr(d) = r[t].blk
      BY <1>1, LooseAre
    <3>3. (Adr(d) = a <=> d = b) /\ Adr(d) # NULL
      BY <1>11, <1>12, Addresses
    <3>4. (Adr(d) \in held \/ Adr(d) = o.blk) /\ d # b <=> Adr(d) \in held'
      <4>1. o.blk \notin held
        BY <1>1 DEF Ownership
      <4>2. CASE o.pc = "idle"
        BY <1>14, <3>3, <4>2
      <4>3. CASE o.pc = "delayed"
        BY <3>3, <4>1, <4>3
      <4> QED BY <4>2, <4>3
    <3> QED BY <1>15, <3>1, <3>2, <3>3, <3>4
  <2> QED BY <2>1, <2>2
<1>17. PICK n \in {"free", "thread_free", "delayed_free"} : n = "free"
  OBVIOUS
<1>18. mem' = [mem EXCEPT ![Adr(b)] = Heads[n]]
  BY <1>2, <1>11, <1>17, HeadsAre
<1>19. Heads' = [Heads EXCEPT ![n] = Adr(b)]
  BY <1>5, <1>6, <1>9, <1>10, <1>11, <1>17 DEF Heads
<1>20. page'.capacity = page.capacity /\ page'.used = page.used - (IF n = "free" THEN 1 ELSE 0)
  BY <1>5, <1>6, <1>17
<1>21. Core' /\ Lists!Push(n, b) /\ lists'["taken"] = lists["taken"]
  BY <1>1, <1>16, <1>18, <1>19, <1>20, CorePush
<1>22. Ownership'
  BY <1>1, <1>9, <1>10, OwnershipKept
<1>23. OwnerFits(o', mem', page', lists'["taken"])
  <2>1. pc = "clear" => g.used = 0
    BY <1>6, <1>7
  <2> QED BY <1>1, <1>5, <1>7, <1>9, <1>10, <2>1 DEF OwnerFits, Collecting, Freeing, HasBlock
<1>24. \A t \in Remote : r[t].blk # NULL => mem'[r[t].blk] = mem[r[t].blk]
  <2>1. \A t \in Remote : r[t].blk # NULL => r[t].blk \in Address
    BY <1>1 DEF TypeOK, RemoteType, Link
  <2> QED BY <1>12, <1>15, <2>1
<1>25. IInv'
  BY <1>13, <1>21, <1>22, <1>23, <1>24, OwnerLeaves
<1>26. Abstract
  BY <1>12, <1>21 DEF Abstract, Lists!Next, Block
<1> QED BY <1>25, <1>26

LEMMA StepOFree ==
  ASSUME IInv, NEW a \in Address, OFree(a)
  PROVE  IInv' /\ Abstract
<1>1. o.pc = "idle" /\ a \in held /\ held' = held \ {a} /\ UNCHANGED <<xfree, dfree, r>>
  BY DEF OFree
<1>2. PICK k \in {"idle", "pop"} : k = "idle"
  OBVIOUS
<1>3. FreeLocal(a, k)
  BY <1>2 DEF OFree
<1> QED BY <1>1, <1>2, <1>3, StepFreeLocal

LEMMA StepODelayedFree ==
  ASSUME IInv, ODelayedFree
  PROVE  IInv' /\ Abstract
<1>1. o.pc = "delayed" /\ held' = held /\ UNCHANGED <<xfree, dfree, r>>
  BY DEF ODelayedFree
<1>2. PICK a : a = o.blk
  OBVIOUS
<1>3. a \in Address
  BY <1>1, <1>2, OwnerTypes DEF OwnerFits, HasBlock, Link
<1>4. PICK k \in {"idle", "pop"} : k = "pop"
  OBVIOUS
<1>5. FreeLocal(a, k)
  BY <1>2, <1>4 DEF ODelayedFree
<1> QED BY <1>1, <1>2, <1>3, <1>4, <1>5, StepFreeLocal

\* The first block of a list leaves it, for the program or for the owner.
LEMMA OwnerPops ==
  ASSUME IInv, NEW n \in {"free", "popping"}, Heads[n] # NULL,
         mem' = [mem EXCEPT ![Heads[n]] = JUNK], Heads' = [Heads EXCEPT ![n] = mem[Heads[n]]],
         page'.capacity = page.capacity,
         page'.used = page.used + (IF n = "free" THEN 1 ELSE 0),
         page' \in PageType, o' \in OwnerType, held' \subseteq Address,
         \/ held' = held \cup {Heads[n]} /\ o'.blk = o.blk
         \/ held' = held /\ o.blk = NULL /\ o'.blk = Heads[n],
         UNCHANGED <<xfree, dfree, r>>,
         o'.pc # "append", OwnerFits(o', mem', page', lists["taken"])
  PROVE  IInv' /\ Abstract
<1>1. TypeOK /\ Core /\ Ownership /\ mem \in Memory /\ n \in ListName
  BY OwnerTypes DEF ListName
<1>2. /\ Heads[n] \in Address /\ Heads[n] \notin held /\ Heads[n] # o.blk
      /\ \A t \in Remote : r[t].blk # Heads[n]
  BY <1>1, HeadApart
<1>3. mem' \in Memory /\ \A d \in Address : d # Heads[n] => mem'[d] = mem[d]
  BY <1>1 DEF Memory
<1>4. TypeOK'
  BY <1>1, <1>3 DEF TypeOK
<1>5. loose' \subseteq Block /\ \A b \in Block : b \in loose' <=> (b \in loose \/ Adr(b) = Heads[n])
  <2>1. loose' \subseteq Block
    BY <1>4, LooseWillBe
  <2>2. ASSUME NEW b \in Block PROVE b \in loose' <=> (b \in loose \/ Adr(b) = Heads[n])
    <3>1. b \in loose' <=> \/ Adr(b) \in held' \/ Adr(b) = o'.blk
                           \/ \E t \in Remote : Adr(b) = r[t].blk
      BY <1>4, LooseWillBe
    <3>2. b \in loose <=> \/ Adr(b) \in held \/ Adr(b) = o.blk
                          \/ \E t \in Remote : Adr(b) = r[t].blk
      BY <1>1, LooseAre
    <3>3. Adr(b) # NULL
      BY Addresses
    <3> QED BY <3>1, <3>2, <3>3
  <2> QED BY <2>1, <2>2
<1>6. Core' /\ Lists!Pop(n) /\ lists'["taken"] = lists["taken"]
  BY <1>1, <1>5, CorePop
<1>7. Ownership'
  <2>1. /\ o.blk \notin held
        /\ \A t \in Remote : r[t].blk # NULL =>
             /\ r[t].blk \notin held /\ r[t].blk # o.blk
             /\ \A u \in Remote : u # t => r[u].blk # r[t].blk
    BY <1>1 DEF Ownership
  <2>2. o'.blk \notin held' /\ \A t \in Remote : r[t].blk # NULL =>
           r[t].blk \notin held' /\ r[t].blk # o'.blk
    BY <1>2, <2>1
  <2> QED BY <2>1, <2>2 DEF Ownership
<1>8. OwnerFits(o', mem', page', lists'["taken"])
  BY <1>6
<1>9. \A t \in Remote : r[t].blk # NULL => mem'[r[t].blk] = mem[r[t].blk]
  <2>1. \A t \in Remote : r[t].blk # NULL => r[t].blk \in Address
    BY <1>1 DEF TypeOK, RemoteType, Link
  <2> QED BY <1>2, <1>3, <2>1
<1>10. IInv'
  BY <1>4, <1>6, <1>7, <1>8, <1>9, OwnerLeaves
<1>11. Abstract
  BY <1>6 DEF Abstract, Lists!Next
<1> QED BY <1>10, <1>11

LEMMA StepPageMalloc ==
  ASSUME IInv, o.pc \in {"idle", "found"}, PageMalloc
  PROVE  IInv' /\ Abstract
<1>1. /\ page.free # NULL /\ held' = held \cup {page.free} /\ mem' = [mem EXCEPT ![page.free] = JUNK]
      /\ UNCHANGED <<xfree, dfree, r>>
  BY DEF PageMalloc, pop_block
<1>2. PICK n \in {"free", "popping"} : n = "free"
  OBVIOUS
<1>3. n \in ListName /\ Heads[n] = page.free /\ Heads[n] # NULL
  BY <1>1, <1>2, HeadsAre DEF ListName
<1>4. /\ page.free \in Address /\ mem[page.free] \in Value
  BY <1>3, HeadApart
<1>5. PICK g : g = PageIs(mem[page.free], page.local_free, page.used + 1, page.capacity, page.in_full)
  OBVIOUS
<1>6. page' = g
  <2>1. page \in PageType
    BY OwnerTypes
  <2>2. g = [page EXCEPT !.free = mem[page.free], !.used = page.used + 1]
    BY <1>5, <2>1, PageFreeUsed, Zenon
  <2>3. pop_block(page.free).first = mem[page.free]
    BY DEF pop_block
  <2> QED BY <2>2, <2>3, Zenon DEF PageMalloc, PagePopped
<1>7. /\ g \in PageType /\ g.free = mem[page.free] /\ g.local_free = page.local_free
      /\ g.used = page.used + 1 /\ g.capacity = page.capacity
  <2>1. page.used + 1 \in Int
    BY PageTypes
  <2> QED BY <1>4, <1>5, <2>1, PageTypes, PageMade
<1>8. PICK y : y = OwnerIs("idle", o.ret, o.back, o.ll, o.taken, o.at, o.count, o.blk, o.word)
  OBVIOUS
<1>9. o' = y
  <2>1. o \in OwnerType
    BY OwnerTypes
  <2>2. y = [o EXCEPT !.pc = "idle"]
    BY <1>8, <2>1, OwnerPc, Zenon
  <2> QED BY <2>2, Zenon DEF PageMalloc
<1>10. y \in OwnerType /\ y.pc = "idle" /\ y.ret = o.ret /\ y.back = o.back
       /\ y.ll = o.ll /\ y.taken = o.taken /\ y.blk = o.blk
  BY <1>8, OwnerTypes, OwnerMade DEF OPc
<1>11. mem' = [mem EXCEPT ![Heads[n]] = JUNK] /\ held' = held \cup {Heads[n]} /\ held' \subseteq Address
  BY <1>1, <1>3, <1>4, OwnerTypes DEF TypeOK
<1>12. Heads' = [Heads EXCEPT ![n] = mem[Heads[n]]]
  <2>1. Heads' = [Heads EXCEPT !["free"] = mem[page.free]]
    BY <1>1, <1>6, <1>7, <1>9, <1>10 DEF Heads
  <2> QED BY <1>2, <1>3, <2>1
<1>13. page'.capacity = page.capacity /\ page'.used = page.used + (IF n = "free" THEN 1 ELSE 0)
  BY <1>2, <1>6, <1>7
<1>14. OwnerFits(o', mem', page', lists["taken"]) /\ o'.pc # "append" /\ o'.blk = o.blk /\ o' \in OwnerType
  BY <1>9, <1>10, OwnerTypes DEF OwnerFits, Collecting, Freeing, HasBlock
<1> QED BY <1>1, <1>3, <1>6, <1>7, <1>11, <1>12, <1>13, <1>14, OwnerPops

LEMMA StepOPop ==
  ASSUME IInv, OPop
  PROVE  IInv' /\ Abstract
<1>1. /\ o.pc = "pop" /\ o.ll # NULL /\ mem' = [mem EXCEPT ![o.ll] = JUNK]
      /\ UNCHANGED <<page, xfree, dfree, held, r>>
  BY DEF OPop, pop_block
<1>2. PICK n \in {"free", "popping"} : n = "popping"
  OBVIOUS
<1>3. n \in ListName /\ Heads[n] = o.ll /\ Heads[n] # NULL
  BY <1>1, <1>2, HeadsAre DEF ListName
<1>4. o.ll \in Address /\ o.ll \in Link /\ mem[o.ll] \in Value
  BY <1>3, HeadApart
<1>5. PICK y : y = OwnerIs("try", o.ret, o.back, mem[o.ll], o.taken, o.at, o.count, o.ll, o.word)
  OBVIOUS
<1>6. o' = y
  <2>1. o \in OwnerType
    BY OwnerTypes
  <2>2. PICK z : z = OwnerIs("try", o.ret, o.back, o.ll, o.taken, o.at, o.count, o.ll, o.word)
    OBVIOUS
  <2>3. z = [o EXCEPT !.pc = "try", !.blk = o.ll]
    BY <2>1, <2>2, OwnerPcBlk, Zenon
  <2>4. y = [z EXCEPT !.ll = mem[o.ll]]
    BY <1>5, <2>2 DEF OwnerIs
  <2>5. pop_block(o.ll).first = mem[o.ll]
    BY DEF pop_block
  <2> QED BY <2>3, <2>4, <2>5, Zenon DEF OPop
<1>7. y \in OwnerType /\ y.pc = "try" /\ y.ret = o.ret /\ y.back = o.back
      /\ y.ll = mem[o.ll] /\ y.taken = o.taken /\ y.blk = o.ll
  BY <1>4, <1>5, OwnerTypes, OwnerMade DEF OPc
<1>8. o.blk = NULL
  BY <1>1, OwnerTypes DEF OwnerFits, HasBlock, Collecting
<1>9. mem' = [mem EXCEPT ![Heads[n]] = JUNK] /\ held' = held /\ held' \subseteq Address /\ o'.blk = Heads[n]
  BY <1>1, <1>3, <1>6, <1>7, OwnerTypes DEF TypeOK
<1>10. Heads' = [Heads EXCEPT ![n] = mem[Heads[n]]]
  <2>1. Heads' = [Heads EXCEPT !["popping"] = mem[o.ll]]
    BY <1>1, <1>6, <1>7 DEF Heads
  <2> QED BY <1>2, <1>3, <2>1
<1>11. page'.capacity = page.capacity /\ page'.used = page.used + (IF n = "free" THEN 1 ELSE 0)
       /\ page' \in PageType
  BY <1>1, <1>2, PageTypes
<1>12. OwnerFits(o', mem', page', lists["taken"]) /\ o'.pc # "append" /\ o' \in OwnerType
  BY <1>1, <1>4, <1>6, <1>7, OwnerTypes, Addresses DEF OwnerFits, Collecting, Freeing, HasBlock
<1> QED BY <1>1, <1>3, <1>8, <1>9, <1>10, <1>11, <1>12, OwnerPops

-----------------------------------------------------------------------------
(* The page is cleared                                                      *)

LEMMA StepOClear ==
  ASSUME IInv, OClear
  PROVE  IInv' /\ Abstract
<1>1. /\ o.pc = "clear" /\ page' = make_empty /\ mem' = [a \in Address |-> JUNK]
      /\ UNCHANGED <<xfree, dfree, held, r>>
  BY DEF OClear
<1>2. PICK y : y = OwnerIs("check", o.ret, o.back, o.ll, o.taken, o.at, o.count, o.blk, o.word)
  OBVIOUS
<1>3. o' = y
  <2>1. o \in OwnerType
    BY OwnerTypes
  <2>2. y = [o EXCEPT !.pc = "check"]
    BY <1>2, <2>1, OwnerPc, Zenon
  <2> QED BY <2>2, Zenon DEF OClear
<1>4. y \in OwnerType /\ y.pc = "check" /\ y.ret = o.ret /\ y.back = o.back
      /\ y.ll = o.ll /\ y.taken = o.taken /\ y.blk = o.blk
  BY <1>2, OwnerTypes, OwnerMade DEF OPc
<1>5. /\ page'.free = NULL /\ page'.local_free = NULL /\ page'.capacity = 0 /\ page'.used = 0
      /\ page' \in PageType
  BY <1>1, OwnerTypes, ReservedAssumption DEF make_empty, PageType
<1>6. loose' = loose
  BY <1>1, <1>3, <1>4 DEF loose
<1>7. page.used = 0 /\ TypeOK /\ Core /\ Ownership
  BY <1>1, OwnerTypes DEF OwnerFits
<1>8. Core' /\ Lists!Drop /\ loose = {}
  BY <1>1, <1>3, <1>4, <1>5, <1>6, <1>7, CoreDrop
<1>9. mem' \in Memory
  BY <1>1 DEF Memory
<1>10. TypeOK'
  BY <1>1, <1>3, <1>4, <1>5, <1>7, <1>9 DEF TypeOK
<1>11. \A t \in Remote : r[t].blk = NULL
  BY <1>7, <1>8, LooseAdr
<1>12. Ownership'
  BY <1>1, <1>3, <1>4, <1>7, OwnershipKept
<1>13. OwnerFits(o', mem', page', lists'["taken"])
  BY <1>1, <1>3, <1>4, <1>5, OwnerTypes DEF OwnerFits, Collecting, Freeing, HasBlock
<1>14. IInv'
  BY <1>1, <1>8, <1>10, <1>11, <1>12, <1>13, OwnerLeaves
<1>15. Abstract
  BY <1>8 DEF Abstract, Lists!Next
<1> QED BY <1>14, <1>15

-----------------------------------------------------------------------------
(* A whole list is moved                                                    *)

LEMMA OwnerMoves ==
  ASSUME IInv, NEW f \in ListName, NEW t \in ListName, f # t,
         <<f, t>> \in Lists!Moves, lists[f] # <<>>,
         mem' = MemMoved(mem, Heads, lists, f, t), Heads' = HeadsMoved(Heads, f, t),
         page'.capacity = page.capacity,
         t = "local_free" => page'.used = page.used - Len(lists[f]),
         t # "local_free" => page'.used = page.used,
         page' \in PageType, o' \in OwnerType, o'.blk = o.blk, xfree' \in Word, dfree' \in Link,
         UNCHANGED <<held, r>>,
         Core' => OwnerFits(o', mem', page', lists'["taken"])
  PROVE  IInv' /\ Abstract
<1>1. TypeOK /\ Core /\ Ownership /\ mem \in Memory /\ Config(mem, Heads, lists, loose, page.capacity)
  BY OwnerTypes DEF Core
<1>2. PICK b : b = lists[f][Len(lists[f])]
  OBVIOUS
<1>3. b \in Block /\ b \notin loose
  <2>1. /\ lists[f] \in Seq(Block) /\ Len(lists[f]) \in Nat /\ Len(lists[f]) # 0
        /\ \A k \in 1 .. Len(lists[f]) : lists[f][k] \in Block
    BY <1>1, CoreLists, ConfigSeq
  <2>2. Len(lists[f]) \in 1 .. Len(lists[f])
    BY <2>1
  <2> QED BY <1>1, <1>2, <2>1, <2>2 DEF Config, Away
<1>4. mem' = [mem EXCEPT ![Adr(b)] = Heads[t]] /\ Heads[t] \in Link /\ Adr(b) \in Address
  BY <1>1, <1>2, <1>3, Addresses DEF MemMoved, Config
<1>5. mem' \in Memory /\ \A d \in Address : d # Adr(b) => mem'[d] = mem[d]
  BY <1>1, <1>4 DEF Memory
<1>6. TypeOK'
  BY <1>1, <1>5 DEF TypeOK
<1>7. loose' = loose
  BY DEF loose
<1>8. Core' /\ Lists!Move(f, t)
  BY <1>1, <1>7, CoreMove
<1>9. Ownership'
  BY <1>1, OwnershipKept
<1>10. ASSUME NEW u \in Remote, r[u].blk # NULL PROVE mem'[r[u].blk] = mem[r[u].blk]
  <2>1. r[u].blk \in Address
    BY <1>1, <1>10 DEF TypeOK, RemoteType, Link
  <2>2. r[u].blk # Adr(b)
    BY <1>1, <1>3, LooseAre
  <2> QED BY <1>5, <2>1, <2>2
<1>11. OwnerFits(o', mem', page', lists'["taken"])
  BY <1>8
<1>12. IInv'
  BY <1>6, <1>8, <1>9, <1>10, <1>11, OwnerLeaves
<1>13. Abstract
  <2>1. PICK m \in Lists!Moves : m = <<f, t>>
    OBVIOUS
  <2>2. Lists!Move(m[1], m[2])
    BY <1>8, <2>1
  <2> QED BY <2>1, <2>2 DEF Abstract, Lists!Next
<1> QED BY <1>12, <1>13

LEMMA StepOTakeSwap ==
  ASSUME IInv, OTakeSwap
  PROVE  IInv' /\ Abstract
<1>1. o.pc = "swap" /\ dfree' = NULL /\ UNCHANGED <<mem, page, xfree, held, r>>
  BY DEF OTakeSwap
<1>2. PICK y : y = OwnerIs("pop", o.ret, o.back, dfree, o.taken, o.at, o.count, o.blk, o.word)
  OBVIOUS
<1>3. o' = y
  <2>1. o \in OwnerType
    BY OwnerTypes
  <2>2. y = [o EXCEPT !.pc = "pop", !.ll = dfree]
    BY <1>2, <2>1, OwnerPcLl, Zenon
  <2> QED BY <2>2, Zenon DEF OTakeSwap
<1>4. y \in OwnerType /\ y.pc = "pop" /\ y.ret = o.ret /\ y.back = o.back
      /\ y.ll = dfree /\ y.taken = o.taken /\ y.blk = o.blk
  BY <1>2, OwnerTypes, OwnerMade DEF OPc
<1>5. \A s : OwnerFits(y, mem, page, s)
  BY <1>1, <1>4, OwnerTypes DEF OwnerFits, Collecting, Freeing, HasBlock
<1>6. o.ll = NULL
  BY <1>1, OwnerTypes DEF OwnerFits, HasBlock, Collecting, Freeing
<1>7. CASE dfree = NULL
  BY <1>1, <1>3, <1>4, <1>5, <1>6, <1>7, OwnerTypes, OwnerQuiet
<1>8. CASE dfree # NULL
  <2>1. PICK f \in ListName, t \in ListName : f = "delayed_free" /\ t = "popping"
    BY DEF ListName
  <2>2. f # t /\ <<f, t>> \in Lists!Moves
    BY <2>1 DEF Lists!Moves
  <2>3. Heads[f] # NULL /\ Heads[t] = NULL
    BY <1>6, <1>8, <2>1, HeadsAre
  <2>4. lists[f] # <<>>
    BY <2>3, OwnerTypes, ConfigHead DEF Core
  <2>5. mem' = MemMoved(mem, Heads, lists, f, t)
    BY <1>1, <2>3, <2>4, OwnerTypes, NothingToLink
  <2>6. Heads' = HeadsMoved(Heads, f, t)
    <3>1. Heads' = [n \in ListName |-> IF n = "delayed_free" THEN NULL
                                       ELSE IF n = "popping" THEN dfree ELSE Heads[n]]
      BY <1>1, <1>3, <1>4 DEF Heads, ListName
    <3> QED BY <2>1, <3>1, HeadsAre DEF HeadsMoved
  <2>7. t # "local_free"
    BY <2>1
  <2>8. OwnerFits(o', mem', page', lists'["taken"]) /\ o' \in OwnerType /\ o'.blk = o.blk
    BY <1>1, <1>3, <1>4, <1>5 DEF OwnerFits
  <2>9. page' \in PageType /\ xfree' \in Word /\ dfree' \in Link
    BY <1>1, OwnerTypes
  <2> QED BY <1>1, <2>2, <2>4, <2>5, <2>6, <2>7, <2>8, <2>9, OwnerMoves
<1> QED BY <1>7, <1>8

LEMMA StepOCollectTake ==
  ASSUME IInv, OCollectTake
  PROVE  IInv' /\ Abstract
<1>1. o.pc = "take" /\ xfree' = get_delay(xfree) /\ UNCHANGED <<mem, page, dfree, held, r>>
  BY DEF OCollectTake
<1>2. xfree' \in Word /\ get_ptr(xfree') = NULL /\ get_ptr(xfree) \in Link
  BY <1>1, OwnerTypes, Masks, Words
<1>3. CASE get_ptr(xfree) = NULL
  <2>1. PICK y : y = OwnerIs("refill", o.ret, o.back, o.ll, o.taken, o.at, o.count, o.blk, o.word)
    OBVIOUS
  <2>2. o' = y
    <3>1. o \in OwnerType
      BY OwnerTypes
    <3>2. y = [o EXCEPT !.pc = "refill"]
      BY <2>1, <3>1, OwnerPc, Zenon
    <3> QED BY <1>3, <3>2, Zenon DEF OCollectTake
  <2>3. y \in OwnerType /\ y.pc = "refill" /\ y.ret = o.ret /\ y.back = o.back
        /\ y.ll = o.ll /\ y.taken = o.taken /\ y.blk = o.blk
    BY <2>1, OwnerTypes, OwnerMade DEF OPc
  <2>4. OwnerFits(y, mem, page, lists["taken"])
    BY <1>1, <2>3, OwnerTypes DEF OwnerFits, Collecting, Freeing, HasBlock
  <2> QED BY <1>1, <1>2, <1>3, <2>2, <2>3, <2>4, OwnerTypes, OwnerQuiet
<1>4. CASE get_ptr(xfree) # NULL
  <2>1. PICK h : h = get_ptr(xfree)
    OBVIOUS
  <2>2. PICK y : y = OwnerIs("append", o.ret, o.back, o.ll, h, h, 1, o.blk, o.word)
    OBVIOUS
  <2>3. o' = y
    <3>1. o \in OwnerType
      BY OwnerTypes
    <3>2. PICK z : z = OwnerIs("append", o.ret, o.back, o.ll, h, o.at, o.count, o.blk, o.word)
      OBVIOUS
    <3>3. PICK q : q = OwnerIs("append", o.ret, o.back, o.ll, h, h, o.count, o.blk, o.word)
      OBVIOUS
    <3>4. z = [o EXCEPT !.pc = "append", !.taken = h]
      BY <3>1, <3>2, OwnerPcTaken, Zenon
    <3>5. q = [z EXCEPT !.at = h]
      BY <3>2, <3>3 DEF OwnerIs
    <3>6. y = [q EXCEPT !.count = 1]
      BY <2>2, <3>3 DEF OwnerIs
    <3> QED BY <1>4, <2>1, <3>4, <3>5, <3>6, Zenon DEF OCollectTake
  <2>4. y \in OwnerType /\ y.pc = "append" /\ y.ret = o.ret /\ y.back = o.back
        /\ y.ll = o.ll /\ y.taken = h /\ y.at = h /\ y.count = 1 /\ y.blk = o.blk
    <3>1. h \in Value /\ 1 \in Nat
      BY <1>2, <2>1 DEF Value
    <3> QED BY <2>2, <3>1, OwnerTypes, OwnerMade DEF OPc
  <2>5. PICK f \in ListName, t \in ListName : f = "thread_free" /\ t = "taken"
    BY DEF ListName
  <2>6. f # t /\ <<f, t>> \in Lists!Moves
    BY <2>5 DEF Lists!Moves
  <2>7. Heads[f] # NULL /\ Heads[t] = NULL
    BY <1>1, <1>4, <2>5, OwnerTypes, HeadsAre DEF OwnerFits
  <2>8. lists[f] # <<>>
    BY <2>7, OwnerTypes, ConfigHead DEF Core
  <2>9. mem' = MemMoved(mem, Heads, lists, f, t)
    BY <1>1, <2>7, <2>8, OwnerTypes, NothingToLink
  <2>10. Heads' = HeadsMoved(Heads, f, t)
    <3>1. Heads' = [n \in ListName |-> IF n = "thread_free" THEN NULL
                                       ELSE IF n = "taken" THEN h ELSE Heads[n]]
      BY <1>1, <1>2, <2>3, <2>4 DEF Heads, ListName
    <3> QED BY <2>1, <2>5, <3>1, HeadsAre DEF HeadsMoved
  <2>11. t # "local_free"
    BY <2>5
  <2>12. ASSUME Core' PROVE OwnerFits(o', mem', page', lists'["taken"])
    <3>1. PICK s : s = lists'["taken"]
      OBVIOUS
    <3>2. 1 \in 1 .. Len(s) /\ h = Adr(s[1])
      <4>1. Config(mem', Heads', lists', loose', page'.capacity)
        BY <2>12 DEF Core
      <4>2. Heads'["taken"] = h /\ h # NULL /\ "taken" \in ListName
        BY <1>4, <2>1, <2>3, <2>4, HeadsWillBe DEF ListName
      <4>3. lists'["taken"] # <<>> /\ h = Adr(lists'["taken"][1])
        BY <4>1, <4>2, ConfigHead
      <4>4. Len(s) \in Nat /\ Len(s) # 0
        BY <3>1, <4>1, <4>2, <4>3, ConfigSeq DEF Config
      <4> QED BY <3>1, <4>3, <4>4
    <3>3. OwnerFits(y, mem, page, s)
      BY <1>1, <2>4, <3>2, OwnerTypes DEF OwnerFits, Collecting, Freeing, HasBlock
    <3> QED BY <1>1, <2>3, <3>1, <3>3
  <2>13. page' \in PageType /\ dfree' \in Link /\ o' \in OwnerType /\ o'.blk = o.blk
    BY <1>1, <2>3, <2>4, OwnerTypes
  <2> QED BY <1>1, <1>2, <2>6, <2>8, <2>9, <2>10, <2>11, <2>12, <2>13, OwnerMoves
<1> QED BY <1>3, <1>4

LEMMA StepOAppendEnd ==
  ASSUME IInv, OAppendEnd
  PROVE  IInv' /\ Abstract
<1>1. /\ o.pc = "append" /\ mem[o.at] = NULL /\ mem' = [mem EXCEPT ![o.at] = page.local_free]
      /\ UNCHANGED <<xfree, dfree, held, r>>
  BY DEF OAppendEnd
<1>2. PICK s : s = lists["taken"]
  OBVIOUS
<1>3. /\ Len(s) \in Nat /\ o.count \in 1 .. Len(s) /\ o.at = Adr(s[o.count])
      /\ \A k \in 1 .. Len(s) : s[k] \in Block
  BY <1>1, <1>2, OwnerTypes, CoreLists, ConfigSeq DEF OwnerFits
<1>4. o.count = Len(s)
  <2>1. At(s, o.count + 1) = NULL
    BY <1>1, <1>2, <1>3, OwnerTypes, CoreLists DEF Core, Config, Leads
  <2> QED BY <1>3, <2>1, Addresses DEF At
<1>5. PICK g : g = PageIs(page.free, o.taken, page.used - o.count, page.capacity, page.in_full)
  OBVIOUS
<1>6. page' = g
  <2>1. page \in PageType
    BY OwnerTypes
  <2>2. g = [page EXCEPT !.local_free = o.taken, !.used = page.used - o.count]
    BY <1>5, <2>1, PageLocalUsed, Zenon
  <2> QED BY <2>2, Zenon DEF OAppendEnd, PageAppended
<1>7. /\ g \in PageType /\ g.free = page.free /\ g.local_free = o.taken
      /\ g.used = page.used - o.count /\ g.capacity = page.capacity
  <2>1. page.used - o.count \in Int
    BY PageTypes, OwnerTypes
  <2> QED BY <1>5, <2>1, PageTypes, OwnerTypes, PageMade
<1>8. PICK y : y = OwnerIs("refill", o.ret, o.back, o.ll, NULL, NULL, 0, o.blk, o.word)
  OBVIOUS
<1>9. o' = y
  <2>1. o \in OwnerType
    BY OwnerTypes
  <2>2. PICK z : z = OwnerIs("refill", o.ret, o.back, o.ll, NULL, o.at, o.count, o.blk, o.word)
    OBVIOUS
  <2>3. PICK q : q = OwnerIs("refill", o.ret, o.back, o.ll, NULL, NULL, o.count, o.blk, o.word)
    OBVIOUS
  <2>4. z = [o EXCEPT !.pc = "refill", !.taken = NULL]
    BY <2>1, <2>2, OwnerPcTaken, Zenon
  <2>5. q = [z EXCEPT !.at = NULL]
    BY <2>2, <2>3 DEF OwnerIs
  <2>6. y = [q EXCEPT !.count = 0]
    BY <1>8, <2>3 DEF OwnerIs
  <2> QED BY <2>4, <2>5, <2>6, Zenon DEF OAppendEnd
<1>10. y \in OwnerType /\ y.pc = "refill" /\ y.ret = o.ret /\ y.back = o.back
       /\ y.ll = o.ll /\ y.taken = NULL /\ y.blk = o.blk
  <2>1. 0 \in Nat
    OBVIOUS
  <2> QED BY <1>8, <2>1, OwnerTypes, OwnerMade DEF OPc
<1>11. PICK f \in ListName, t \in ListName : f = "taken" /\ t = "local_free"
  BY DEF ListName
<1>12. f # t /\ <<f, t>> \in Lists!Moves
  BY <1>11 DEF Lists!Moves
<1>13. lists[f] # <<>>
  <2>1. Len(lists[f]) # 0
    BY <1>2, <1>3, <1>11
  <2> QED BY <2>1, OwnerTypes, CoreLists, ConfigSeq
<1>14. mem' = MemMoved(mem, Heads, lists, f, t)
  BY <1>1, <1>2, <1>3, <1>4, <1>11, HeadsAre DEF MemMoved
<1>15. Heads' = HeadsMoved(Heads, f, t)
  <2>1. Heads' = [n \in ListName |-> IF n = "taken" THEN NULL
                                     ELSE IF n = "local_free" THEN o.taken ELSE Heads[n]]
    BY <1>1, <1>6, <1>7, <1>9, <1>10 DEF Heads, ListName
  <2> QED BY <1>11, <2>1, HeadsAre DEF HeadsMoved
<1>16. page'.used = page.used - Len(lists[f]) /\ page'.capacity = page.capacity /\ t = "local_free"
  BY <1>2, <1>4, <1>6, <1>7, <1>11
<1>17. \A q : OwnerFits(o', mem', page', q)
  BY <1>1, <1>9, <1>10, OwnerTypes DEF OwnerFits, Collecting, Freeing, HasBlock
<1>18. page' \in PageType /\ dfree' \in Link /\ xfree' \in Word /\ o' \in OwnerType /\ o'.blk = o.blk
  BY <1>1, <1>6, <1>7, <1>9, <1>10, OwnerTypes
<1> QED BY <1>1, <1>12, <1>13, <1>14, <1>15, <1>16, <1>17, <1>18, OwnerMoves

LEMMA StepORefill ==
  ASSUME IInv, ORefill
  PROVE  IInv' /\ Abstract
<1>1. o.pc = "refill" /\ page' = PageRefilled /\ UNCHANGED <<mem, xfree, dfree, held, r>>
  BY DEF ORefill
<1>2. PICK p : p = o.ret
  OBVIOUS
<1>3. PICK y : y = OwnerIs(p, "idle", o.back, o.ll, o.taken, o.at, o.count, o.blk, o.word)
  OBVIOUS
<1>4. o' = y
  <2>1. o \in OwnerType
    BY OwnerTypes
  <2>2. y = [o EXCEPT !.pc = p, !.ret = "idle"]
    BY <1>3, <2>1, OwnerPcRet, Zenon
  <2> QED BY <1>2, <2>2, Zenon DEF ORefill
<1>5. p \in {"idle", "delayed", "found"}
  BY <1>2, OwnerTypes
<1>6. y \in OwnerType /\ y.pc = p /\ y.ret = "idle" /\ y.back = o.back
      /\ y.ll = o.ll /\ y.taken = o.taken /\ y.blk = o.blk
  BY <1>3, <1>5, OwnerTypes, OwnerMade DEF OPc
<1>7. \A s : OwnerFits(y, mem, page, s)
  BY <1>1, <1>2, <1>5, <1>6, OwnerTypes DEF OwnerFits, Collecting, Freeing, HasBlock
<1>8. CASE ~(page.local_free # NULL /\ page.free = NULL)
  <2>1. page' = page
    BY <1>1, <1>8 DEF PageRefilled
  <2> QED BY <1>1, <1>4, <1>6, <1>7, <2>1, OwnerTypes, OwnerQuiet
<1>9. CASE page.local_free # NULL /\ page.free = NULL
  <2>1. PICK g : g = PageIs(page.local_free, NULL, page.used, page.capacity, page.in_full)
    OBVIOUS
  <2>2. page' = g
    <3>1. page \in PageType
      BY OwnerTypes
    <3>2. g = [page EXCEPT !.free = page.local_free, !.local_free = NULL]
      BY <2>1, <3>1, PageFreeLocal, Zenon
    <3> QED BY <1>1, <1>9, <3>2, Zenon DEF PageRefilled
  <2>3. /\ g \in PageType /\ g.free = page.local_free /\ g.local_free = NULL
        /\ g.used = page.used /\ g.capacity = page.capacity
    BY <2>1, PageTypes, OwnerTypes, PageMade
  <2>4. PICK f \in ListName, t \in ListName : f = "local_free" /\ t = "free"
    BY DEF ListName
  <2>5. f # t /\ <<f, t>> \in Lists!Moves
    BY <2>4 DEF Lists!Moves
  <2>6. Heads[f] # NULL /\ Heads[t] = NULL
    BY <1>9, <2>4, HeadsAre
  <2>7. lists[f] # <<>>
    BY <2>6, OwnerTypes, ConfigHead DEF Core
  <2>8. mem' = MemMoved(mem, Heads, lists, f, t)
    BY <1>1, <2>6, <2>7, OwnerTypes, NothingToLink
  <2>9. Heads' = HeadsMoved(Heads, f, t)
    <3>1. Heads' = [n \in ListName |-> IF n = "local_free" THEN NULL
                                       ELSE IF n = "free" THEN page.local_free ELSE Heads[n]]
      BY <1>1, <1>4, <1>6, <2>2, <2>3 DEF Heads, ListName
    <3> QED BY <2>4, <3>1, HeadsAre DEF HeadsMoved
  <2>10. t # "local_free" /\ page'.used = page.used /\ page'.capacity = page.capacity
    BY <2>2, <2>3, <2>4
  <2>11. \A s : OwnerFits(o', mem', page', s)
    BY <1>1, <1>4, <1>7, <2>2, <2>3 DEF OwnerFits
  <2>12. page' \in PageType /\ dfree' \in Link /\ xfree' \in Word /\ o' \in OwnerType /\ o'.blk = o.blk
    BY <1>1, <1>4, <1>6, <2>2, <2>3, OwnerTypes
  <2> QED BY <1>1, <2>5, <2>7, <2>8, <2>9, <2>10, <2>11, <2>12, OwnerMoves
<1> QED BY <1>8, <1>9

-----------------------------------------------------------------------------
(* The owner gives a block back to the heap's list                          *)

LEMMA StepOReinsertLoad ==
  ASSUME IInv, OReinsertLoad
  PROVE  IInv' /\ Abstract
<1>1. o.pc = "rload" /\ mem' = [mem EXCEPT ![o.blk] = dfree] /\ UNCHANGED <<page, xfree, dfree, held, r>>
  BY DEF OReinsertLoad, block_write_ptr
<1>2. PICK y : y = OwnerIs("rcas", o.ret, o.back, o.ll, o.taken, o.at, o.count, o.blk, dfree)
  OBVIOUS
<1>3. o' = y
  <2>1. o \in OwnerType
    BY OwnerTypes
  <2>2. y = [o EXCEPT !.pc = "rcas", !.word = dfree]
    BY <1>2, <2>1, OwnerPcWord, Zenon
  <2> QED BY <2>2, Zenon DEF OReinsertLoad
<1>4. y \in OwnerType /\ y.pc = "rcas" /\ y.ret = o.ret /\ y.back = o.back
      /\ y.ll = o.ll /\ y.taken = o.taken /\ y.blk = o.blk /\ y.word = dfree
  BY <1>2, OwnerTypes, OwnerMade DEF OPc
<1>5. TypeOK /\ Core /\ Ownership /\ mem \in Memory /\ o.blk # NULL
  BY <1>1, OwnerTypes DEF OwnerFits, HasBlock
<1>6. PICK b \in loose : o.blk = Adr(b)
  BY <1>5, LooseAdr
<1>7. Adr(b) \in Address
  BY <1>5, CoreLists, Addresses
<1>8. mem' \in Memory /\ mem'[Adr(b)] = dfree /\ \A d \in Address : d # Adr(b) => mem'[d] = mem[d]
  BY <1>1, <1>5, <1>6, <1>7, OwnerTypes DEF Memory
<1>9. TypeOK'
  BY <1>1, <1>3, <1>4, <1>5, <1>8 DEF TypeOK
<1>10. loose' = loose
  BY <1>1, <1>3, <1>4 DEF loose
<1>11. Heads' = Heads
  BY <1>1, <1>3, <1>4 DEF Heads
<1>12. Core' /\ lists' = lists
  BY <1>1, <1>5, <1>6, <1>10, <1>11, CoreWrite
<1>13. Ownership'
  BY <1>1, <1>3, <1>4, <1>5, OwnershipKept
<1>14. OwnerFits(o', mem', page', lists'["taken"])
  BY <1>1, <1>3, <1>4, <1>6, <1>8, OwnerTypes DEF OwnerFits, Collecting, Freeing, HasBlock
<1>15. ASSUME NEW t \in Remote, r[t].blk # NULL PROVE mem'[r[t].blk] = mem[r[t].blk]
  <2>1. r[t].blk \in Address /\ r[t].blk # Adr(b)
    BY <1>5, <1>6, <1>15 DEF TypeOK, RemoteType, Link, Ownership
  <2> QED BY <1>8, <2>1
<1>16. IInv'
  BY <1>1, <1>9, <1>12, <1>13, <1>14, <1>15, OwnerLeaves
<1> QED BY <1>10, <1>12, <1>16 DEF Abstract

LEMMA StepOReinsertPush ==
  ASSUME IInv, OReinsertPush
  PROVE  IInv' /\ Abstract
<1>1. o.pc = "rcas" /\ dfree = o.word /\ dfree' = o.blk /\ UNCHANGED <<mem, page, xfree, held, r>>
  BY DEF OReinsertPush
<1>2. PICK y : y = OwnerIs("pop", o.ret, o.back, o.ll, o.taken, o.at, o.count, NULL, NULL)
  OBVIOUS
<1>3. o' = y
  <2>1. o \in OwnerType
    BY OwnerTypes
  <2>2. PICK z : z = OwnerIs("pop", o.ret, o.back, o.ll, o.taken, o.at, o.count, NULL, o.word)
    OBVIOUS
  <2>3. z = [o EXCEPT !.pc = "pop", !.blk = NULL]
    BY <2>1, <2>2, OwnerPcBlk, Zenon
  <2>4. y = [z EXCEPT !.word = NULL]
    BY <1>2, <2>2 DEF OwnerIs
  <2> QED BY <2>3, <2>4, Zenon DEF OReinsertPush
<1>4. y \in OwnerType /\ y.pc = "pop" /\ y.ret = o.ret /\ y.back = o.back
      /\ y.ll = o.ll /\ y.taken = o.taken /\ y.blk = NULL
  BY <1>2, OwnerTypes, OwnerMade DEF OPc
<1>5. /\ TypeOK /\ Core /\ Ownership /\ mem \in Memory /\ o.blk # NULL
      /\ mem[o.blk] = dfree
  BY <1>1, OwnerTypes DEF OwnerFits, HasBlock
<1>6. PICK b \in loose : o.blk = Adr(b)
  BY <1>5, LooseAdr
<1>7. b \in Block /\ Adr(b) \in Address /\ Adr(b) \in Link
  BY <1>5, CoreLists, Addresses DEF Link
<1>8. TypeOK'
  BY <1>1, <1>3, <1>4, <1>5, <1>6, <1>7 DEF TypeOK
<1>9. loose' = loose \ {b}
  <2>1. loose \subseteq Block /\ loose' \subseteq Block
    BY <1>5, <1>8, LooseAre, LooseWillBe
  <2>2. ASSUME NEW d \in Block PROVE d \in loose' <=> d \in loose /\ d # b
    <3>1. d \in loose' <=> Adr(d) \in held \/ \E t \in Remote : Adr(d) = r[t].blk
      <4>1. Adr(d) # NULL
        BY Addresses
      <4> QED BY <1>1, <1>3, <1>4, <1>8, <4>1, LooseWillBe
    <3>2. d \in loose <=> \/ Adr(d) \in held \/ Adr(d) = o.blk
                          \/ \E t \in Remote : Adr(d) = r[t].blk
      BY <1>5, LooseAre
    <3>3. (Adr(d) = o.blk <=> d = b) /\ Adr(d) # NULL
      BY <1>6, <1>7, Addresses
    <3>4. o.blk \notin held /\ \A t \in Remote : r[t].blk # o.blk
      BY <1>5 DEF Ownership
    <3> QED BY <3>1, <3>2, <3>3, <3>4
  <2> QED BY <2>1, <2>2
<1>10. PICK n \in {"free", "thread_free", "delayed_free"} : n = "delayed_free"
  OBVIOUS
<1>11. mem' = [mem EXCEPT ![Adr(b)] = Heads[n]]
  BY <1>1, <1>5, <1>6, <1>10, HeadsAre DEF Memory
<1>12. Heads' = [Heads EXCEPT ![n] = Adr(b)]
  <2>1. Heads' = [Heads EXCEPT !["delayed_free"] = o.blk]
    BY <1>1, <1>3, <1>4 DEF Heads
  <2> QED BY <1>6, <1>10, <2>1
<1>13. page'.capacity = page.capacity /\ page'.used = page.used - (IF n = "free" THEN 1 ELSE 0)
  BY <1>1, <1>10, PageTypes
<1>14. Core' /\ Lists!Push(n, b) /\ lists'["taken"] = lists["taken"]
  BY <1>5, <1>9, <1>11, <1>12, <1>13, CorePush
<1>15. Ownership'
  BY <1>1, <1>3, <1>4, <1>5, OwnershipKept
<1>16. OwnerFits(o', mem', page', lists'["taken"])
  BY <1>1, <1>3, <1>4, OwnerTypes DEF OwnerFits, Collecting, Freeing, HasBlock
<1>17. IInv'
  BY <1>1, <1>8, <1>14, <1>15, <1>16, OwnerLeaves
<1>18. Abstract
  BY <1>7, <1>14 DEF Abstract, Lists!Next, Block
<1> QED BY <1>17, <1>18

-----------------------------------------------------------------------------
(* New blocks                                                               *)

LEMMA Multiples ==
  ASSUME NEW j \in Nat, NEW k \in Nat
  PROVE  /\ j < k <=> BSIZE * j < BSIZE * k
         /\ BSIZE * (j + 1) = BSIZE * j + BSIZE
<1>1. BSIZE \in Nat \ {0}
  BY AlignAssumption
<1>2. \A x, y \in Nat : x < y => BSIZE * x < BSIZE * y
  BY <1>1
<1> QED BY <1>1, <1>2

\* memory with blocks c + 1 .. c + e linked in front of the list free
Fresh(c, e) == prepend_contiguous_blocks(BSIZE * (c + 1), BSIZE * (c + e))

LEMMA Prepended ==
  ASSUME IInv, page.free = NULL, NEW c \in Nat, NEW e \in Nat \ {0}, c + e <= RESERVED
  PROVE  /\ Fresh(c, e) \in Memory
         /\ \A b \in Block : b <= c => Fresh(c, e)[Adr(b)] = mem[Adr(b)]
         /\ \A b \in c + 1 .. c + e :
              Fresh(c, e)[Adr(b)] = IF b < c + e THEN Adr(b + 1) ELSE NULL
<1> PICK m : m = Fresh(c, e)
  OBVIOUS
<1>1. \A b \in Block : Adr(b) \in Address /\ b \in Nat
  BY Addresses, ReservedAssumption DEF Block
<1>2. ASSUME NEW b \in Block
      PROVE  m[Adr(b)] = IF b < c + 1 \/ b > c + e THEN mem[Adr(b)]
                         ELSE IF b < c + e THEN Adr(b) + BSIZE ELSE NULL
  <2>1. /\ b < c + 1 <=> Adr(b) < BSIZE * (c + 1)
        /\ b > c + e <=> Adr(b) > BSIZE * (c + e)
        /\ b < c + e <=> Adr(b) < BSIZE * (c + e)
    <3>1. b \in Nat /\ c + 1 \in Nat /\ c + e \in Nat
      BY <1>1
    <3>2. PICK h \in Nat, k \in Nat : h = c + 1 /\ k = c + e
      BY <3>1
    <3>3. /\ b < h <=> BSIZE * b < BSIZE * h
          /\ k < b <=> BSIZE * k < BSIZE * b
          /\ b < k <=> BSIZE * b < BSIZE * k
      BY <3>1, Multiples
    <3>4. b > k <=> k < b
      BY <3>1
    <3>5. BSIZE * b > BSIZE * k <=> BSIZE * k < BSIZE * b
      BY <3>1, AlignAssumption
    <3> QED BY <3>2, <3>3, <3>4, <3>5 DEF Adr
  <2>2. PICK a, h, k : a = Adr(b) /\ h = BSIZE * (c + 1) /\ k = BSIZE * (c + e)
    OBVIOUS
  <2>3. m = [x \in Address |-> IF x < h \/ x > k THEN mem[x]
                               ELSE IF x < k THEN x + BSIZE ELSE NULL]
    BY <2>2 DEF Fresh, prepend_contiguous_blocks
  <2>4. m[a] = IF a < h \/ a > k THEN mem[a] ELSE IF a < k THEN a + BSIZE ELSE NULL
    BY <1>1, <2>2, <2>3
  <2> QED BY <2>1, <2>2, <2>4
<1>3. \A b \in Block : b <= c => m[Adr(b)] = mem[Adr(b)]
  BY <1>1, <1>2
<1>4. ASSUME NEW b \in c + 1 .. c + e PROVE m[Adr(b)] = IF b < c + e THEN Adr(b + 1) ELSE NULL
  <2>1. b \in Block /\ b \in Nat
    BY ReservedAssumption DEF Block
  <2>2. Adr(b + 1) = Adr(b) + BSIZE
    BY <2>1, Multiples DEF Adr
  <2> QED BY <1>2, <2>1, <2>2
<1>5. m \in Memory
  <2>1. m = [x \in Address |-> m[x]]
    BY DEF Fresh, prepend_contiguous_blocks
  <2>2. ASSUME NEW x \in Address PROVE m[x] \in Link \cup {JUNK}
    <3>1. PICK b \in Block : x = Adr(b)
      BY Addresses
    <3>2. CASE b < c + 1 \/ b > c + e
      BY <1>1, <1>2, <3>1, <3>2, OwnerTypes DEF Memory
    <3>3. CASE ~(b < c + 1 \/ b > c + e)
      <4>1. b \in c + 1 .. c + e
        BY <1>1, <3>3
      <4>2. b < c + e => b + 1 \in Block
        BY <1>1, <4>1, ReservedAssumption DEF Block
      <4> QED BY <1>4, <3>1, <4>1, <4>2, Addresses DEF Link
    <3> QED BY <3>2, <3>3
  <2> QED BY <2>1, <2>2 DEF Memory
<1> QED BY <1>3, <1>4, <1>5

LEMMA StepOExtend ==
  ASSUME IInv, OExtend
  PROVE  IInv' /\ Abstract
<1>1. PICK c : c = page.capacity
  OBVIOUS
<1>2. PICK e : e = extend_count
  OBVIOUS
<1>3. /\ (o.pc = "found" /\ page.free = NULL) \/ (o.pc = "find" /\ c = 0)
      /\ c < RESERVED /\ UNCHANGED <<xfree, dfree, held, r>>
      /\ mem' = prepend_contiguous_blocks(BSIZE * (c + 1), BSIZE * (c + e))
  BY <1>1, <1>2 DEF OExtend
<1>4. c \in Nat /\ e \in Nat \ {0} /\ c + e <= RESERVED /\ e \in 1 .. RESERVED - c
      /\ c + e \in 0 .. RESERVED /\ RESERVED \in Nat
  <2>1. c \in 0 .. RESERVED /\ RESERVED \in Nat /\ MAX_EXTEND \in Nat \ {0}
    BY <1>1, PageTypes, ReservedAssumption
  <2>2. e = IF RESERVED - c > MAX_EXTEND THEN MAX_EXTEND ELSE RESERVED - c
    BY <1>1, <1>2 DEF extend_count
  <2> QED BY <1>3, <2>1, <2>2
<1>5. page.free = NULL /\ Heads["free"] = NULL
  <2>1. c = 0 => Heads["free"] = NULL
    BY <1>1, OwnerTypes, CoreLists, NoCapacity
  <2> QED BY <1>3, <2>1, HeadsAre
<1>6. PICK g : g = PageIs(BSIZE * (c + 1), page.local_free, page.used, c + e, page.in_full)
  OBVIOUS
<1>7. page' = g
  <2>1. page \in PageType
    BY OwnerTypes
  <2>2. PICK f, d : f = BSIZE * (c + 1) /\ d = c + e
    OBVIOUS
  <2>3. g = PageIs(f, page.local_free, page.used, d, page.in_full)
    BY <1>6, <2>2
  <2>4. g = [page EXCEPT !.free = f, !.capacity = d]
    BY <2>1, <2>3, PageFreeCapacity, Zenon
  <2>5. page' = [page EXCEPT !.free = BSIZE * (page.capacity + 1),
                             !.capacity = page.capacity + extend_count]
    BY Zenon DEF OExtend
  <2> QED BY <1>1, <1>2, <2>2, <2>4, <2>5, Zenon
<1>8. c + 1 \in Block /\ BSIZE * (c + 1) = Adr(c + 1)
  BY <1>3, <1>4 DEF Block, Adr
<1>9. /\ g \in PageType /\ g.free = Adr(c + 1) /\ g.local_free = page.local_free
      /\ g.used = page.used /\ g.capacity = c + e
  <2>1. Adr(c + 1) \in Value
    BY <1>8, Addresses DEF Value, Link
  <2> QED BY <1>4, <1>6, <1>8, <2>1, PageTypes, PageMade
<1>10. PICK y : y = OwnerIs("found", o.ret, o.back, o.ll, o.taken, o.at, o.count, o.blk, o.word)
  OBVIOUS
<1>11. o' = y
  <2>1. o \in OwnerType
    BY OwnerTypes
  <2>2. y = [o EXCEPT !.pc = "found"]
    BY <1>10, <2>1, OwnerPc, Zenon
  <2> QED BY <2>2, Zenon DEF OExtend
<1>12. y \in OwnerType /\ y.pc = "found" /\ y.ret = o.ret /\ y.back = o.back
       /\ y.ll = o.ll /\ y.taken = o.taken /\ y.blk = o.blk
  BY <1>10, OwnerTypes, OwnerMade DEF OPc
<1>13. /\ mem' \in Memory
       /\ \A b \in Block : b <= c => mem'[Adr(b)] = mem[Adr(b)]
       /\ \A b \in c + 1 .. c + e : mem'[Adr(b)] = IF b < c + e THEN Adr(b + 1) ELSE NULL
  <2>1. mem' = Fresh(c, e)
    BY <1>3 DEF Fresh
  <2> QED BY <1>4, <1>5, <2>1, Prepended
<1>14. TypeOK /\ Core /\ Ownership
  BY OwnerTypes
<1>15. TypeOK'
  BY <1>3, <1>7, <1>9, <1>11, <1>12, <1>13, <1>14 DEF TypeOK
<1>16. loose' = loose
  BY <1>3, <1>11, <1>12 DEF loose
<1>17. Heads' = [Heads EXCEPT !["free"] = Adr(c + 1)]
  BY <1>3, <1>7, <1>9, <1>11, <1>12 DEF Heads
<1>18. /\ Core' /\ (\E last \in 1 .. RESERVED : Lists!Extend(last))
       /\ lists'["taken"] = lists["taken"]
  BY <1>1, <1>4, <1>5, <1>7, <1>9, <1>13, <1>14, <1>16, <1>17, CoreExtend
<1>19. Ownership'
  BY <1>3, <1>11, <1>12, <1>14, OwnershipKept
<1>20. OwnerFits(o', mem', page', lists'["taken"])
  BY <1>3, <1>11, <1>12, OwnerTypes DEF OwnerFits, Collecting, Freeing, HasBlock
<1>21. ASSUME NEW t \in Remote, r[t].blk # NULL PROVE mem'[r[t].blk] = mem[r[t].blk]
  <2>1. PICK b \in loose : r[t].blk = Adr(b)
    BY <1>14, <1>21, LooseAdr
  <2>2. b \in Block /\ b <= c
    BY <1>1, <1>14 DEF Core, Config
  <2> QED BY <1>13, <2>1, <2>2
<1>22. IInv'
  BY <1>3, <1>15, <1>18, <1>19, <1>20, <1>21, OwnerLeaves
<1>23. Abstract
  BY <1>18 DEF Abstract, Lists!Next
<1> QED BY <1>22, <1>23

LEMMA StepOToFull ==
  ASSUME IInv, OToFull
  PROVE  IInv' /\ Abstract
<1>1. /\ o.pc = "found" /\ page' = [page EXCEPT !.in_full = TRUE]
      /\ UNCHANGED <<mem, xfree, dfree, held, r>>
  BY DEF OToFull
<1>2. PICK y : y = OwnerIs("collect", "idle", o.back, o.ll, o.taken, o.at, o.count, o.blk, o.word)
  OBVIOUS
<1>3. o' = y
  <2>1. o \in OwnerType
    BY OwnerTypes
  <2>2. y = [o EXCEPT !.pc = "collect", !.ret = "idle"]
    BY <1>2, <2>1, OwnerPcRet, Zenon
  <2> QED BY <2>2, Zenon DEF OToFull
<1>4. y \in OwnerType /\ y.pc = "collect" /\ y.ret = "idle" /\ y.back = o.back
      /\ y.ll = o.ll /\ y.taken = o.taken /\ y.blk = o.blk
  BY <1>2, OwnerTypes, OwnerMade DEF OPc
<1>5. OwnerFits(y, mem, page, lists["taken"])
  BY <1>1, <1>4, OwnerTypes DEF OwnerFits, Collecting, Freeing, HasBlock
<1>6. /\ page' \in PageType /\ page'.free = page.free /\ page'.local_free = page.local_free
      /\ page'.used = page.used /\ page'.capacity = page.capacity
  BY <1>1, OwnerTypes DEF PageType
<1> QED BY <1>1, <1>3, <1>4, <1>5, <1>6, OwnerTypes, OwnerQuiet

-----------------------------------------------------------------------------
(* The theorems                                                             *)

LEMMA InitHolds == Init => IInv /\ Lists!Init
<1> SUFFICES ASSUME Init PROVE IInv /\ Lists!Init
  OBVIOUS
<1>1. /\ mem = [a \in Address |-> JUNK] /\ page = make_empty /\ xfree = NULL /\ dfree = NULL
      /\ held = {} /\ \A t \in Remote : r[t].pc = "idle" /\ r[t].blk = NULL /\ r[t].word = NULL
      /\ o.pc = "idle" /\ o.ret = "idle" /\ o.back = "idle" /\ o.ll = NULL /\ o.taken = NULL
      /\ o.blk = NULL
  BY DEF Init
<1>2. NULL \in Link /\ NULL \in Word /\ NULL \in Value
  BY LinksAreWords DEF Link, Value
<1>3. TypeOK
  <2>1. mem \in Memory
    BY <1>1 DEF Memory
  <2>2. page \in PageType
    BY <1>1, <1>2, ReservedAssumption DEF make_empty, PageType
  <2>3. r \in [Remote -> RemoteType]
    BY <1>2 DEF Init, RemoteType, RPc
  <2>4. o \in OwnerType
    BY <1>2 DEF Init, OwnerType, OPc
  <2> QED BY <1>1, <1>2, <2>1, <2>2, <2>3, <2>4 DEF TypeOK
<1>4. loose = {}
  BY <1>1 DEF loose
<1>5. Heads = [n \in ListName |-> NULL]
  <2>1. get_ptr(NULL) = NULL
    BY DEF get_ptr, NULL
  <2> QED BY <1>1, <2>1 DEF Heads, ListName, make_empty
<1>6. PICK S : S = [n \in ListName |-> <<>>]
  OBVIOUS
<1>7. Config(mem, Heads, S, loose, 0)
  <2>1. S \in [ListName -> Seq(Block)] /\ \A n \in ListName : S[n] = <<>> /\ Len(S[n]) = 0
    BY <1>6
  <2>2. \A n \in ListName : Leads(mem, Heads[n], S[n])
    BY <1>5, <2>1 DEF Leads, At
  <2>3. Apart(S) /\ Away(S, loose)
    BY <2>1 DEF Apart, Away
  <2>4. \A b \in Block : ~(b <= 0)
    BY ReservedAssumption DEF Block
  <2>5. \A b \in Block : ~OnSome(S, b)
    BY <2>1 DEF OnSome
  <2> QED BY <1>2, <1>4, <1>5, <2>1, <2>2, <2>3, <2>4, <2>5, ReservedAssumption DEF Config
<1>8. lists = S
  BY <1>7, ListsAre
<1>9. Core
  <2>1. page.capacity = 0 /\ page.used = 0
    BY <1>1 DEF make_empty
  <2>2. Len(lists["free"]) = 0 /\ Len(lists["local_free"]) = 0
    BY <1>6, <1>8 DEF ListName
  <2> QED BY <1>7, <1>8, <2>1, <2>2 DEF Core, UsedExact
<1>10. Ownership /\ \A t \in Remote : RemoteAt(t)
  BY <1>1 DEF Ownership, RemoteAt
<1>11. OwnerAt
  BY <1>1 DEF OwnerAt, OwnerFits, Collecting, Freeing, HasBlock
<1>12. Lists!Init
  BY <1>4, <1>6, <1>8 DEF Lists!Init, Lists!List, ListName
<1> QED BY <1>3, <1>9, <1>10, <1>11, <1>12 DEF IInv

LEMMA StepHolds == IInv /\ [Next]_vars => IInv' /\ Abstract
<1> SUFFICES ASSUME IInv, [Next]_vars PROVE IInv' /\ Abstract
  OBVIOUS
<1>1. CASE UNCHANGED vars
  <2>1. UNCHANGED <<mem, page, xfree, dfree, held, r>> /\ o' = o
    BY <1>1 DEF vars
  <2>2. OwnerFits(o, mem, page, lists["taken"])
    BY OwnerTypes
  <2> QED BY <2>1, <2>2, OwnerTypes, OwnerQuiet
<1>2. CASE OwnerStep
  BY <1>2, StepOClear, StepOCheckGood, StepODisable, StepOTakeSwap, StepOPop, StepOPopDone,
     StepOTryGiveUp, StepOTryLoad, StepOTryCas, StepOTryFail, StepOReinsertLoad,
     StepOReinsertPush, StepOReinsertFail, StepODelayedFree, StepOCollectLoad,
     StepOCollectTake, StepOAppendWalk, StepOAppendEnd, StepORefill, StepOFind,
     StepOFindOther, StepOExtend, StepOToFull, StepPageMalloc
     DEF OwnerStep, OFound
<1>3. CASE Call
  BY <1>3, StepOTakeLoad, StepOFree, StepRFree, StepPageMalloc DEF Call, OMallocFast
<1>4. CASE \E t \in Remote : RemoteStep(t)
  BY <1>4, StepRLoad, StepRCasFreeing, StepRCasPush, StepRCasFail, StepRDelayedLoad,
     StepRDelayedPush, StepRDelayedFail, StepRXor DEF RemoteStep
<1> QED BY <1>1, <1>2, <1>3, <1>4 DEF Next

\* In every state the words and links of the page's lists lead to sequences of
\* blocks, no block is on two lists or on one and loose, and together they are
\* the blocks page_extend_free has carved.  The names of the steps of
\* free_block_mt and of the owner say which link is already written.
THEOREM ListsInvariant == Spec => []IInv
BY InitHolds, StepHolds, PTL DEF Spec

\* page.used is the number of carved blocks that are on neither of the page's
\* own lists: the owner counts a block that other threads gave back only when
\* page_free_collect has walked to it.
THEOREM CounterRight == Spec => []UsedExact
<1>1. IInv => UsedExact
  BY DEF IInv, Core
<1> QED BY <1>1, ListsInvariant, PTL

\* linked_list.rs implements the lists of ListSpec: under every interleaving of
\* the threads in free_block_mt with the owner's collect, delayed free, malloc
\* and free, each step pushes or pops one block, moves all of one list in front
\* of another, carves the next blocks, drops a page whose blocks are all home,
\* or changes no list.
THEOREM WordsAreLists == Spec => KeepsLists
<1>1. Init => Lists!Init
  BY InitHolds
<1>2. IInv /\ [Next]_vars => [Lists!Next]_<<lists, loose>>
  BY StepHolds DEF Abstract
<1> QED BY <1>1, <1>2, ListsInvariant, PTL DEF Spec, KeepsLists, Lists!Spec
=============================================================================

------------------------ MODULE SocketAddressTheorems ------------------------
(***************************************************************************)
(* What searching and inserting by SocketAddressComparator can rely on.     *)
(***************************************************************************)
EXTENDS SocketAddresses, SequenceTheorems, WellFoundedInduction, TLAPS

\* Nodes of a map: records whose field "key" is an address.
Keyed(s) == \A i \in 1 .. Len(s) : s[i].key \in Address

(***************************************************************************)
(* The comparator (manager.hpp:15-23) never orders an address below itself  *)
(* and is transitive, so it is a strict partial order.                      *)
(***************************************************************************)
THEOREM LessIsStrict ==
  ASSUME NEW a \in Address, NEW b \in Address, NEW c \in Address
  PROVE  /\ ~Less(a, a)
         /\ Less(a, b) => ~Less(b, a)
         /\ Less(a, b) /\ Less(b, c) => Less(a, c)
<1>1. \A x \in {a, b, c} : x.ip \in Nat /\ x.port \in Nat
  BY AddressAssumption DEF Address
<1>2. QED
  BY <1>1 DEF Less

(***************************************************************************)
(* But with two IP addresses and two ports it is not the strict weak order  *)
(* std::map requires: being equivalent is not transitive.                   *)
(***************************************************************************)
THEOREM EquivalentIsNotTransitive ==
  ASSUME NEW i \in IpAddress, NEW j \in IpAddress, i < j,
         NEW p \in Port, NEW q \in Port, p < q
  PROVE  \E a, b, c \in Address :
           Equivalent(a, b) /\ Equivalent(b, c) /\ ~Equivalent(a, c)
<1> DEFINE a == [ip |-> i, port |-> p]
           b == [ip |-> i, port |-> q]
           c == [ip |-> j, port |-> q]
<1>1. a \in Address /\ b \in Address /\ c \in Address
  BY DEF Address
<1>2. Equivalent(a, b) /\ Equivalent(b, c) /\ ~Equivalent(a, c)
  BY AddressAssumption DEF Equivalent, Less
<1>3. QED
  BY <1>1, <1>2

\* c is s with e inserted before its element p.
IsInsertion(c, s, p, e) ==
  /\ Len(c) = Len(s) + 1
  /\ \A i \in 1 .. Len(s) + 1 : c[i] = IF i < p THEN s[i] ELSE IF i = p THEN e ELSE s[i - 1]

\* What InsertAt returns.
LEMMA InsertAtInserts ==
  ASSUME NEW S, NEW s \in Seq(S), NEW p \in 1 .. Len(s) + 1, NEW e \in S
  PROVE  InsertAt(s, p, e) \in Seq(S) /\ IsInsertion(InsertAt(s, p, e), s, p, e)
<1> DEFINE front == SubSeq(s, 1, p - 1)
           back  == SubSeq(s, p, Len(s))
           mid   == front \o <<e>>
<1>1. Len(s) \in Nat /\ \A i \in 1 .. Len(s) : s[i] \in S
  BY LenProperties, ElementOfSeq
<1>2. /\ front \in Seq(S) /\ Len(front) = p - 1
      /\ \A i \in 1 .. p - 1 : front[i] = s[i]
  <2>1. \A i \in 1 .. p - 1 : s[i] \in S
    BY <1>1
  <2>2. QED
    BY <1>1, <2>1, SubSeqProperties
<1>3. /\ back \in Seq(S) /\ Len(back) = Len(s) - p + 1
      /\ \A i \in 1 .. Len(s) - p + 1 : back[i] = s[p + i - 1]
  <2>1. \A i \in p .. Len(s) : s[i] \in S
    BY <1>1
  <2>2. QED
    BY <1>1, <2>1, SubSeqProperties
<1>4. <<e>> \in Seq(S) /\ Len(<<e>>) = 1 /\ <<e>>[1] = e
  OBVIOUS
<1>5. /\ mid \in Seq(S) /\ Len(mid) = p
      /\ \A i \in 1 .. p : mid[i] = IF i < p THEN s[i] ELSE e
  <2> HIDE DEF front
  <2>1. /\ mid \in Seq(S)
        /\ Len(mid) = Len(front) + 1
        /\ \A i \in 1 .. Len(front) + 1 :
             mid[i] = IF i <= Len(front) THEN front[i] ELSE <<e>>[i - Len(front)]
    BY <1>2, <1>4, ConcatProperties
  <2>2. Len(front) = p - 1 /\ p \in Nat
    BY <1>1, <1>2
  <2>3. Len(mid) = p
    BY <2>1, <2>2
  <2>4. ASSUME NEW i \in 1 .. p PROVE mid[i] = IF i < p THEN s[i] ELSE e
    <3>1. CASE i < p
      BY <1>1, <1>2, <2>1, <2>2, <3>1
    <3>2. CASE i = p
      <4>1. mid[i] = <<e>>[i - Len(front)] /\ i - Len(front) = 1
        BY <2>1, <2>2, <3>2
      <4>2. QED
        BY <1>4, <3>2, <4>1
    <3>3. QED
      BY <2>2, <3>1, <3>2
  <2>5. QED
    BY <2>1, <2>3, <2>4
<1>6. /\ mid \o back \in Seq(S)
      /\ Len(mid \o back) = Len(s) + 1
      /\ \A i \in 1 .. Len(s) + 1 :
           (mid \o back)[i] = IF i <= p THEN mid[i] ELSE back[i - p]
  <2> HIDE DEF mid, back
  <2>1. /\ mid \o back \in Seq(S)
        /\ Len(mid \o back) = Len(mid) + Len(back)
        /\ \A i \in 1 .. Len(mid) + Len(back) :
             (mid \o back)[i] = IF i <= Len(mid) THEN mid[i] ELSE back[i - Len(mid)]
    BY <1>3, <1>5, ConcatProperties
  <2>2. Len(mid) = p /\ Len(mid) + Len(back) = Len(s) + 1
    BY <1>1, <1>3, <1>5
  <2>3. QED
    BY <2>1, <2>2
<1>7. InsertAt(s, p, e) = mid \o back
  BY DEF InsertAt
<1>8. QED
  <2> HIDE DEF mid, back, front
  <2>1. ASSUME NEW i \in 1 .. Len(s) + 1
        PROVE  (mid \o back)[i] = IF i < p THEN s[i] ELSE IF i = p THEN e ELSE s[i - 1]
    <3>1. CASE i <= p
      BY <1>1, <1>5, <1>6, <3>1
    <3>2. CASE p < i
      <4>1. i - p \in 1 .. Len(s) - p + 1 /\ p + (i - p) - 1 = i - 1
        BY <1>1, <3>2
      <4>2. back[i - p] = s[i - 1]
        BY <1>3, <4>1
      <4>3. QED
        BY <1>1, <1>6, <3>2, <4>2
    <3>3. i <= p \/ p < i
      BY <1>1
    <3>4. QED
      BY <3>1, <3>2, <3>3
  <2>2. IsInsertion(mid \o back, s, p, e)
    BY <1>6, <2>1 DEF IsInsertion
  <2>3. QED
    BY <1>6, <1>7, <2>2

\* The elements of a sequence after an insertion...
LEMMA InsertAtElements ==
  ASSUME NEW S, NEW s \in Seq(S), NEW p \in 1 .. Len(s) + 1, NEW e \in S
  PROVE  /\ InsertAt(s, p, e) \in Seq(S)
         /\ Len(InsertAt(s, p, e)) = Len(s) + 1
         /\ \A i \in 1 .. Len(s) + 1 :
              InsertAt(s, p, e)[i] = IF i < p THEN s[i] ELSE IF i = p THEN e ELSE s[i - 1]
<1>1. InsertAt(s, p, e) \in Seq(S) /\ IsInsertion(InsertAt(s, p, e), s, p, e)
  BY InsertAtInserts
<1>2. QED
  BY <1>1 DEF IsInsertion

\* ... are those of s and the one inserted.
LEMMA InsertAtContents ==
  ASSUME NEW S, NEW s \in Seq(S), NEW p \in 1 .. Len(s) + 1, NEW e \in S
  PROVE  /\ \A i \in DOMAIN InsertAt(s, p, e) :
              InsertAt(s, p, e)[i] = e \/ \E k \in DOMAIN s : InsertAt(s, p, e)[i] = s[k]
         /\ \E i \in DOMAIN InsertAt(s, p, e) : InsertAt(s, p, e)[i] = e
         /\ \A k \in DOMAIN s : \E i \in DOMAIN InsertAt(s, p, e) : InsertAt(s, p, e)[i] = s[k]
<1> DEFINE c == InsertAt(s, p, e)
           n == Len(s)
<1>1. n \in Nat /\ DOMAIN s = 1 .. n
  BY LenProperties
<1>2. c \in Seq(S) /\ Len(c) = n + 1
  BY InsertAtElements
<1>3. \A i \in 1 .. n + 1 : c[i] = IF i < p THEN s[i] ELSE IF i = p THEN e ELSE s[i - 1]
  BY InsertAtElements
<1>4. DOMAIN c = 1 .. n + 1
  BY <1>2, LenProperties
<1>5. p \in 1 .. n + 1
  OBVIOUS
<1> HIDE DEF c, n
<1>6. ASSUME NEW i \in 1 .. n + 1 PROVE c[i] = e \/ \E k \in 1 .. n : c[i] = s[k]
  <2>1. CASE i < p
    BY <1>1, <1>3, <1>5, <2>1
  <2>2. CASE i = p
    BY <1>3, <1>5, <2>2
  <2>3. CASE p < i
    <3>1. i - 1 \in 1 .. n /\ c[i] = s[i - 1]
      BY <1>1, <1>3, <1>5, <2>3
    <3>2. QED
      BY <3>1
  <2>4. QED
    BY <1>1, <1>5, <2>1, <2>2, <2>3
<1>7. c[p] = e
  BY <1>3, <1>5
<1>8. ASSUME NEW k \in 1 .. n PROVE \E i \in 1 .. n + 1 : c[i] = s[k]
  <2>1. CASE k < p
    BY <1>1, <1>3, <1>5, <2>1
  <2>2. CASE p <= k
    <3>1. k + 1 \in 1 .. n + 1 /\ p < k + 1 /\ (k + 1) - 1 = k
      BY <1>1, <1>5, <2>2
    <3>2. c[k + 1] = s[(k + 1) - 1]
      BY <1>3, <1>5, <3>1
    <3>3. QED
      BY <3>1, <3>2
  <2>3. QED
    BY <1>1, <1>5, <2>1, <2>2
<1>9. QED
  BY <1>1, <1>4, <1>5, <1>6, <1>7, <1>8 DEF c

(***************************************************************************)
(* In a chain a search ends at the same two neighbours however the tree is  *)
(* shaped, although the comparator is no weak order.                        *)
(***************************************************************************)
THEOREM ChainHasOneGap ==
  ASSUME NEW s, Len(s) \in Nat, Keyed(s), IsChain(s), NEW k \in Address,
         NEW g \in Gaps(s, k), NEW h \in Gaps(s, k)
  PROVE  g = h
<1>1. \A x, y \in Gaps(s, k) : ~(x[2] < y[2])
  <2>1. SUFFICES ASSUME NEW x \in Gaps(s, k), NEW y \in Gaps(s, k), x[2] < y[2]
                 PROVE FALSE
    OBVIOUS
  <2>2. /\ x[2] \in 1 .. Len(s) /\ ~Less(s[x[2]].key, k)
        /\ y[1] \in 1 .. Len(s) /\ Less(s[y[1]].key, k)
        /\ x[2] <= y[1]
    BY <2>1 DEF Gaps, Descents
  <2>3. x[2] = y[1] \/ Less(s[x[2]].key, s[y[1]].key)
    BY <2>2 DEF IsChain
  <2>4. Less(s[x[2]].key, k)
    BY <2>2, <2>3, LessIsStrict DEF Keyed
  <2>5. QED
    BY <2>2, <2>4
<1>2. g[2] = h[2]
  BY <1>1 DEF Gaps, Descents
<1>3. QED
  BY <1>2 DEF Gaps, Descents

\* A search of any map for any address ends somewhere.
THEOREM GapExists ==
  ASSUME NEW s, Len(s) \in Nat, NEW k
  PROVE  Gaps(s, k) # {}
<1> DEFINE T == {r \in 1 .. Len(s) + 1 : r = Len(s) + 1 \/ ~Less(s[r].key, k)}
<1>1. T \subseteq Nat /\ T # {}
  <2>1. Len(s) + 1 \in T
    OBVIOUS
  <2>2. QED
    BY <2>1
<1>2. PICK m \in T : \A x \in T : ~(<<x, m>> \in OpToRel(<, Nat))
  BY <1>1, NatLessThanWellFounded, WFMin, Zenon
<1>3. \A x \in T : ~(x < m)
  BY <1>1, <1>2, Zenon DEF OpToRel
<1>4. m - 1 # 0 => Less(s[m - 1].key, k)
  BY <1>3
<1>5. <<m - 1, m>> \in Gaps(s, k)
  BY <1>4 DEF Gaps, Descents
<1>6. QED
  BY <1>5

\* A search of a chain for a key in it ends at that key's own node.
THEOREM ChainFindsItsKeys ==
  ASSUME NEW s, Len(s) \in Nat, Keyed(s), IsChain(s), NEW i \in 1 .. Len(s)
  PROVE  Gaps(s, s[i].key) = {<<i - 1, i>>} /\ Hit(s, s[i].key, <<i - 1, i>>)
<1>1. s[i].key \in Address
  BY DEF Keyed
<1>2. ~Less(s[i].key, s[i].key)
  BY <1>1, LessIsStrict
<1>3. i - 1 # 0 => Less(s[i - 1].key, s[i].key)
  BY DEF IsChain
<1>4. <<i - 1, i>> \in Gaps(s, s[i].key)
  BY <1>2, <1>3 DEF Gaps, Descents
<1>5. QED
  BY <1>1, <1>2, <1>4, ChainHasOneGap DEF Hit

(***************************************************************************)
(* A search of a chain misses only a key that is the same as none in it:    *)
(* the neighbours it ends between relate the key to all the others.         *)
(***************************************************************************)
THEOREM MissesAreGenuine ==
  ASSUME NEW s, Len(s) \in Nat, Keyed(s), IsChain(s), NEW k \in Address,
         NEW g \in Gaps(s, k), ~Hit(s, k, g), NEW i \in 1 .. Len(s)
  PROVE  ~Equivalent(k, s[i].key)
<1>1. /\ g[1] \in 0 .. Len(s) /\ g[2] \in 1 .. Len(s) + 1 /\ g[2] = g[1] + 1
      /\ g[1] # 0 => Less(s[g[1]].key, k)
      /\ g[2] # Len(s) + 1 => Less(k, s[g[2]].key)
  BY DEF Gaps, Descents, Hit
<1>2. CASE i <= g[1]
  <2>1. g[1] \in 1 .. Len(s) /\ Less(s[g[1]].key, k)
    BY <1>1, <1>2
  <2>2. i = g[1] \/ Less(s[i].key, s[g[1]].key)
    BY <1>2, <2>1 DEF IsChain
  <2>3. s[i].key \in Address /\ s[g[1]].key \in Address
    BY <2>1 DEF Keyed
  <2>4. Less(s[i].key, k)
    BY <2>1, <2>2, <2>3, LessIsStrict
  <2>5. QED
    BY <2>4 DEF Equivalent
<1>3. CASE g[2] <= i
  <2>1. g[2] \in 1 .. Len(s) /\ Less(k, s[g[2]].key)
    BY <1>1, <1>3
  <2>2. i = g[2] \/ Less(s[g[2]].key, s[i].key)
    BY <1>3, <2>1 DEF IsChain
  <2>3. s[i].key \in Address /\ s[g[2]].key \in Address
    BY <2>1 DEF Keyed
  <2>4. Less(k, s[i].key)
    BY <2>1, <2>2, <2>3, LessIsStrict
  <2>5. QED
    BY <2>4 DEF Equivalent
<1>4. QED
  BY <1>1, <1>2, <1>3

\* No two nodes of a chain have one key, or keys that are the same to the comparator.
LEMMA ChainKeysDiffer ==
  ASSUME NEW s, Len(s) \in Nat, Keyed(s), IsChain(s),
         NEW i \in 1 .. Len(s), NEW j \in 1 .. Len(s), i # j
  PROVE  s[i].key # s[j].key /\ ~Equivalent(s[i].key, s[j].key)
<1>1. Less(s[i].key, s[j].key) \/ Less(s[j].key, s[i].key)
  BY DEF IsChain
<1>2. s[i].key \in Address /\ ~Less(s[i].key, s[i].key)
  BY LessIsStrict DEF Keyed
<1>3. QED
  BY <1>1, <1>2 DEF Equivalent

(***************************************************************************)
(* A key inserted between a neighbour below and a neighbour above it leaves *)
(* a chain: the two relate it to every other node.                          *)
(***************************************************************************)
THEOREM InsertKeepsChain ==
  ASSUME NEW S, NEW s \in Seq(S), Keyed(s), IsChain(s),
         NEW e \in S, e.key \in Address, NEW p \in 1 .. Len(s) + 1,
         p # 1 => Less(s[p - 1].key, e.key),
         p # Len(s) + 1 => Less(e.key, s[p].key)
  PROVE  IsChain(InsertAt(s, p, e))
<1> DEFINE t == InsertAt(s, p, e)
<1>1. /\ Len(s) \in Nat /\ Len(t) = Len(s) + 1
      /\ \A i \in 1 .. Len(s) + 1 :
           t[i] = IF i < p THEN s[i] ELSE IF i = p THEN e ELSE s[i - 1]
  BY InsertAtElements, LenProperties
<1>2. \A i \in 1 .. Len(s) : i < p => Less(s[i].key, e.key)
  <2>1. SUFFICES ASSUME NEW i \in 1 .. Len(s), i < p PROVE Less(s[i].key, e.key)
    OBVIOUS
  <2>2. i = p - 1 \/ Less(s[i].key, s[p - 1].key)
    BY <1>1, <2>1 DEF IsChain
  <2>3. s[i].key \in Address /\ s[p - 1].key \in Address /\ Less(s[p - 1].key, e.key)
    BY <1>1, <2>1 DEF Keyed
  <2>4. QED
    BY <2>2, <2>3, LessIsStrict
<1>3. \A i \in 1 .. Len(s) : p <= i => Less(e.key, s[i].key)
  <2>1. SUFFICES ASSUME NEW i \in 1 .. Len(s), p <= i PROVE Less(e.key, s[i].key)
    OBVIOUS
  <2>2. i = p \/ Less(s[p].key, s[i].key)
    BY <1>1, <2>1 DEF IsChain
  <2>3. s[i].key \in Address /\ s[p].key \in Address /\ Less(e.key, s[p].key)
    BY <1>1, <2>1 DEF Keyed
  <2>4. QED
    BY <2>2, <2>3, LessIsStrict
<1>4. SUFFICES ASSUME NEW i \in 1 .. Len(s) + 1, NEW j \in 1 .. Len(s) + 1, i < j
               PROVE Less(t[i].key, t[j].key)
  BY <1>1 DEF IsChain
<1> HIDE DEF t
<1>5. CASE i = p
  BY <1>1, <1>3, <1>4, <1>5
<1>6. CASE j = p
  BY <1>1, <1>2, <1>4, <1>6
<1>7. CASE i # p /\ j # p
  <2> DEFINE old(x) == IF x < p THEN x ELSE x - 1
  <2>1. /\ old(i) \in 1 .. Len(s) /\ old(j) \in 1 .. Len(s) /\ old(i) < old(j)
        /\ i \in Int /\ j \in Int /\ p \in Int
    BY <1>1, <1>4, <1>7
  <2>2. t[i] = s[old(i)] /\ t[j] = s[old(j)]
    BY <1>1, <1>7
  <2> HIDE DEF old
  <2>3. Less(s[old(i)].key, s[old(j)].key)
    BY <2>1 DEF IsChain
  <2>4. QED
    BY <2>2, <2>3
<1>8. QED
  BY <1>5, <1>6, <1>7
=============================================================================

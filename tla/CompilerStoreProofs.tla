------------------------ MODULE CompilerStoreProofs ------------------------
(***************************************************************************)
(* Proofs about CompilerStore: the regions of the store stay apart, for    *)
(* every program and stores, shifts and lists of every size.               *)
(***************************************************************************)
EXTENDS CompilerStore, WellFoundedInduction, TLAPS

-----------------------------------------------------------------------------
(***************************************************************************)
(* Induction over the natural numbers, and the function LinkAddress.       *)
(***************************************************************************)
LEMMA LessOnNat == OpToRel(<, Nat) = {ss \in Nat \X Nat : ss[1] < ss[2]}
BY DEF OpToRel

LEMMA Least ==
  ASSUME NEW S \in SUBSET Nat, S # {}
  PROVE  \E m \in S : \A k \in S : m <= k
<1> DEFINE R == {ss \in Nat \X Nat : ss[1] < ss[2]}
<1>1. IsWellFoundedOn(R, Nat)
  BY LessOnNat, NatLessThanWellFounded
<1>2. \E x \in S : \A y \in S : <<y, x>> \notin R
  <2> HIDE DEF R
  <2> QED BY <1>1, WFMin
<1>3. PICK x \in S : \A y \in S : <<y, x>> \notin R
  BY <1>2
<1>4. \A k \in S : ~ (k < x)
  BY <1>3
<1> QED BY <1>4

LEMMA Induction ==
  ASSUME NEW S \in SUBSET Nat, 0 \in S, \A n \in S : n + 1 \in S
  PROVE  S = Nat
<1>1. SUFFICES ASSUME Nat \ S # {} PROVE FALSE
  OBVIOUS
<1>2. PICK m \in Nat \ S : \A k \in Nat \ S : m <= k
  BY <1>1, Least
<1>3. m # 0 /\ m - 1 \in Nat /\ m - 1 \in S
  BY <1>2
<1> QED BY <1>2, <1>3

(* The first n links of the chain that begins at p in st. *)
Follows(f, n, st, p) == f = [s \in 0 .. n |-> IF s = 0 THEN p ELSE st[f[s - 1]][2]]

LEMMA FollowsTo ==
  ASSUME NEW st, NEW p, NEW n \in Nat
  PROVE  \E f : Follows(f, n, st, p)
<1> DEFINE S == {k \in Nat : \E f : Follows(f, k, st, p)}
<1>1. 0 \in S
  <2>1. Follows([s \in 0 .. 0 |-> p], 0, st, p)
    BY DEF Follows
  <2> QED BY <2>1
<1>2. ASSUME NEW k \in S PROVE k + 1 \in S
  <2>1. PICK f : Follows(f, k, st, p)
    OBVIOUS
  <2> DEFINE g == [s \in 0 .. k + 1 |-> IF s = k + 1 THEN st[f[k]][2] ELSE f[s]]
  <2>2. \A s \in 0 .. k : f[s] = IF s = 0 THEN p ELSE st[f[s - 1]][2]
    BY <2>1 DEF Follows
  <2>3. \A s \in 0 .. k + 1 : g[s] = IF s = 0 THEN p ELSE st[g[s - 1]][2]
    <3> SUFFICES ASSUME NEW s \in 0 .. k + 1 PROVE g[s] = IF s = 0 THEN p ELSE st[g[s - 1]][2]
      OBVIOUS
    <3>1. CASE s = 0
      BY <3>1, <2>2
    <3>2. CASE s = k + 1
      <4>1. s - 1 = k /\ s # 0 /\ k \in 0 .. k + 1 /\ k # k + 1
        BY <3>2
      <4> QED BY <3>2, <4>1
    <3>3. CASE s # 0 /\ s # k + 1
      <4>1. s \in 0 .. k /\ s - 1 \in 0 .. k + 1 /\ s - 1 # k + 1
        BY <3>3
      <4> QED BY <3>3, <4>1, <2>2
    <3> QED BY <3>1, <3>2, <3>3
  <2>4. Follows(g, k + 1, st, p)
    <3> HIDE DEF g
    <3>1. g = [s \in 0 .. k + 1 |-> g[s]]
      BY DEF g
    <3> QED BY <2>3, <3>1 DEF Follows
  <2> QED BY <2>4
<1>3. S = Nat
  <2>1. S \in SUBSET Nat
    OBVIOUS
  <2> HIDE DEF S
  <2> QED BY <1>1, <1>2, <2>1, Induction
<1> QED BY <1>3

LEMMA FollowsOnce ==
  ASSUME NEW st, NEW p, NEW n \in Nat, NEW m \in Nat, n <= m,
         NEW f, Follows(f, n, st, p), NEW g, Follows(g, m, st, p)
  PROVE  \A s \in 0 .. n : f[s] = g[s]
<1> DEFINE S == {k \in Nat : k <= n => f[k] = g[k]}
<1>1. \A s \in 0 .. n : f[s] = IF s = 0 THEN p ELSE st[f[s - 1]][2]
  BY DEF Follows
<1>2. \A s \in 0 .. m : g[s] = IF s = 0 THEN p ELSE st[g[s - 1]][2]
  BY DEF Follows
<1>3. 0 \in S
  BY <1>1, <1>2
<1>4. ASSUME NEW k \in S PROVE k + 1 \in S
  <2> SUFFICES ASSUME k + 1 <= n PROVE f[k + 1] = g[k + 1]
    OBVIOUS
  <2>1. k + 1 \in 0 .. n /\ k + 1 \in 0 .. m /\ (k + 1) - 1 = k /\ k + 1 # 0
    OBVIOUS
  <2>2. f[k] = g[k]
    OBVIOUS
  <2>3. f[k + 1] = st[f[(k + 1) - 1]][2] /\ g[k + 1] = st[g[(k + 1) - 1]][2]
    BY <2>1, <1>1, <1>2
  <2> QED BY <2>1, <2>2, <2>3
<1>5. S = Nat
  <2>1. S \in SUBSET Nat
    OBVIOUS
  <2> HIDE DEF S
  <2> QED BY <1>3, <1>4, <2>1, Induction
<1> QED BY <1>5

Linked(f, st, p) == f = [s \in Nat |-> IF s = 0 THEN p ELSE st[f[s - 1]][2]]

LEMMA ChainExists ==
  ASSUME NEW st, NEW p
  PROVE  \E f : Linked(f, st, p)
<1> DEFINE G(n) == CHOOSE g : Follows(g, n, st, p)
           f == [s \in Nat |-> G(s)[s]]
<1>1. \A n \in Nat : Follows(G(n), n, st, p)
  BY FollowsTo
<1>2. \A s \in Nat : f[s] = IF s = 0 THEN p ELSE st[f[s - 1]][2]
  <2> SUFFICES ASSUME NEW s \in Nat PROVE f[s] = IF s = 0 THEN p ELSE st[f[s - 1]][2]
    OBVIOUS
  <2>1. Follows(G(s), s, st, p)
    BY <1>1
  <2> HIDE DEF G
  <2>2. G(s)[s] = IF s = 0 THEN p ELSE st[G(s)[s - 1]][2]
    BY <2>1 DEF Follows
  <2>3. CASE s = 0
    BY <2>2, <2>3
  <2>4. CASE s # 0
    <3>1. s - 1 \in Nat /\ s - 1 <= s /\ s - 1 \in 0 .. s - 1
      BY <2>4
    <3>2. Follows(G(s - 1), s - 1, st, p)
      BY <3>1, <1>1
    <3>3. \A t \in 0 .. s - 1 : G(s - 1)[t] = G(s)[t]
      BY <3>1, <3>2, <2>1, FollowsOnce
    <3>4. f[s - 1] = G(s)[s - 1] /\ f[s] = G(s)[s]
      BY <3>1, <3>3
    <3> QED BY <2>2, <2>4, <3>4
  <2> QED BY <2>3, <2>4
<1>3. f = [s \in Nat |-> IF s = 0 THEN p ELSE st[f[s - 1]][2]]
  <2>1. f = [s \in Nat |-> f[s]]
    OBVIOUS
  <2> HIDE DEF f
  <2> QED BY <1>2, <2>1
<1>4. Linked(f, st, p)
  BY <1>3, Zenon DEF Linked
<1> QED BY <1>4

LEMMA LinkAddressDef ==
  LinkAddress = [s \in Nat |-> IF s = 0 THEN plib ELSE store[LinkAddress[s - 1]][2]]
<1>1. \A st, p : \E f : Linked(f, st, p)
  BY ChainExists
<1>2. \E f : Linked(f, store, plib)
  BY <1>1
<1>3. \E f : f = [s \in Nat |-> IF s = 0 THEN plib ELSE store[f[s - 1]][2]]
  BY <1>2, Zenon DEF Linked
<1> QED BY <1>3, Zenon DEF LinkAddress

-----------------------------------------------------------------------------
(***************************************************************************)
(* The invariant.                                                          *)
(***************************************************************************)
Kinds  == {"block", "begin", "for", "procedure"}
Tokens(m) == {Open} \cup {Marker(b) : b \in 0 .. m}
Pass   == [pass : 0 .. 2, rlab : Int, rlaa : Int]

SourceTypeOK ==
  /\ rnsa \in 1 .. 3 /\ mbc \in Nat /\ bc \in 0 .. mbc
  /\ tlist \in Seq(Tokens(mbc))

TypeOK ==
  /\ SourceTypeOK /\ toCome \in Seq(Kinds)
  /\ store = [a \in Address |-> store[a]]
  /\ rnsb \in Int /\ plib \in Int
  /\ phase \in {"prescan", "intro", "scan", "walk"} /\ stopped \in BOOLEAN
  /\ rnsd \in Int /\ flib \in Int /\ klib \in Int /\ nlib \in Int
  /\ flsc \in Nat /\ klsc \in Nat /\ nlsc \in Nat
  /\ open \subseteq Int
  /\ scopes \in Seq([names : Nat, place : Int])
  /\ intro \in [i : Int, part : {0, 1}] /\ walk \in Pass

(* In the prescan: how far the prescan list can come down before the       *)
(* reader looks again at the room there is.                                *)
Unchecked == IF rnsa = 3 \/ (rnsa = 2 /\ closed = "for") THEN 6 ELSE 4

PrescanRoom ==
  phase = "prescan" =>
    /\ Bim + Room <= rnsb /\ rnsb < plib
    /\ mbc = Len(toCome) /\ scopes = << >> /\ klsc = 0
    /\ ~ stopped => /\ rnsb + Slack - Unchecked <= plib
                    /\ tlist # << >> /\ tlist[1] = Open

(* The chain: the addresses L[0] to L[m] of the links, the last at Plie.   *)
IsChain(L, m, st, p) ==
  /\ L \in [0 .. m -> Int]
  /\ L[0] = p /\ L[m] = Plie
  /\ \A s, t \in 0 .. m : s < t => L[s] < L[t]
  /\ \A s \in 0 .. m - 1 : st[L[s]] = Link(L[s + 1])
  /\ st[Plie] = Link(Plie - 1)

(* The words from low on: links, and names that do not run into a link.    *)
HoldsNames(L, m, st, low) ==
  \A a \in low .. Plie :
    /\ st[a][1] \in {"link", "inw", "fnw"}
    /\ IsLong(st[a]) => \A s \in 0 .. m : L[s] # a + 1

(* Two sublists for each block that has still to be entered. *)
Sublists ==
  IF phase = "prescan" THEN 2 * Len(toCome) + 2
  ELSE 2 * Len(toCome) + (IF phase = "intro" /\ intro.part = 0 THEN 1 ELSE 0)

Lowest == IF phase = "intro" THEN intro.i ELSE plib

Listing(L) == IsChain(L, Sublists, store, plib) /\ HoldsNames(L, Sublists, store, Lowest)

ListInPlace == \E L : Listing(L)

(* The lengths the name list goes back to, and the walk over its entries.  *)
BlocksInside ==
  /\ \A i \in DOMAIN scopes : scopes[i].names <= nlsc
  /\ \A i, j \in DOMAIN scopes : i <= j => scopes[i].names <= scopes[j].names
  /\ vlam => scopes # << >>

WalkBelowEnd == phase = "walk" => walk.rlab <= NameListEnd

-----------------------------------------------------------------------------
(***************************************************************************)
(* The chain of the prescan list, in the main scan.                        *)
(***************************************************************************)
LEMMA ChainWithin ==
  ASSUME NEW L, NEW m \in Nat, NEW st, NEW p, IsChain(L, m, st, p)
  PROVE  /\ \A s \in 0 .. m : L[s] \in Int /\ p <= L[s] /\ L[s] <= Plie
         /\ p \in Int /\ p <= Plie
<1>1. \A s \in 0 .. m : L[s] \in Int
  BY DEF IsChain
<1>2. 0 \in 0 .. m /\ m \in 0 .. m
  OBVIOUS
<1>3. ASSUME NEW s \in 0 .. m PROVE p <= L[s] /\ L[s] <= Plie
  <2>1. (0 < s => L[0] < L[s]) /\ (s < m => L[s] < L[m])
    BY <1>2 DEF IsChain
  <2> QED BY <1>1, <1>2, <2>1, StoreAssumption DEF IsChain
<1>4. p = L[0] /\ Plie = L[m]
  BY DEF IsChain
<1>5. p \in Int /\ p <= Plie
  BY <1>1, <1>2, <1>3, <1>4
<1> QED BY <1>1, <1>3, <1>5

LEMMA Undisturbed ==
  ASSUME NEW L, NEW m \in Nat, NEW st, NEW p, NEW low \in Int,
         IsChain(L, m, st, p), HoldsNames(L, m, st, low),
         NEW st2, NEW low2 \in Int, low <= low2, low2 <= p,
         \A a \in low2 .. Plie : st2[a] = st[a]
  PROVE  IsChain(L, m, st2, p) /\ HoldsNames(L, m, st2, low2)
<1>1. \A s \in 0 .. m : L[s] \in low2 .. Plie
  <2>1. p \in Int /\ \A s \in 0 .. m : L[s] \in p .. Plie
    BY ChainWithin
  <2> QED BY <2>1, StoreAssumption
<1>2. Plie \in low2 .. Plie
  <2>1. p \in Int /\ p <= Plie
    BY ChainWithin
  <2> QED BY <2>1, StoreAssumption
<1>3. IsChain(L, m, st2, p)
  BY <1>1, <1>2 DEF IsChain
<1>4. HoldsNames(L, m, st2, low2)
  BY StoreAssumption DEF HoldsNames
<1> QED BY <1>3, <1>4

LEMMA NextLink ==
  ASSUME NEW L, NEW m \in Nat, m >= 1, NEW st, NEW p, IsChain(L, m, st, p), HoldsNames(L, m, st, p)
  PROVE  /\ st[p][2] \in Int /\ p < st[p][2] /\ st[p][2] <= Plie
         /\ \E K : IsChain(K, m - 1, st, st[p][2]) /\ HoldsNames(K, m - 1, st, p + 1)
<1> DEFINE K == [s \in 0 .. m - 1 |-> L[s + 1]]
<1>1. 0 \in 0 .. m /\ 1 \in 0 .. m /\ 0 \in 0 .. m - 1 /\ m - 1 \in 0 .. m - 1 /\ (m - 1) + 1 = m
  OBVIOUS
<1>2. st[p] = Link(L[1]) /\ L[0] = p /\ L[1] \in Int /\ L[0] < L[1]
  <2>1. st[L[0]] = Link(L[0 + 1])
    BY <1>1 DEF IsChain
  <2> QED BY <2>1, <1>1 DEF IsChain
<1>3. st[p][2] = L[1] /\ p \in Int /\ L[1] <= Plie
  BY <1>1, <1>2, ChainWithin DEF Link
<1>4. \A s \in 0 .. m - 1 : s + 1 \in 0 .. m /\ K[s] = L[s + 1]
  OBVIOUS
<1>5. IsChain(K, m - 1, st, L[1])
  <2>1. K \in [0 .. m - 1 -> Int]
    BY <1>4 DEF IsChain
  <2>2. K[0] = L[1] /\ K[m - 1] = Plie
    BY <1>1, <1>4 DEF IsChain
  <2>3. \A s, t \in 0 .. m - 1 : s < t => K[s] < K[t]
    BY <1>4 DEF IsChain
  <2>4. ASSUME NEW s \in 0 .. (m - 1) - 1 PROVE st[K[s]] = Link(K[s + 1])
    <3>1. s \in 0 .. m - 1 /\ s + 1 \in 0 .. m - 1 /\ K[s] = L[s + 1] /\ K[s + 1] = L[(s + 1) + 1]
      OBVIOUS
    <3> QED BY <3>1 DEF IsChain
  <2>5. st[Plie] = Link(Plie - 1)
    BY DEF IsChain
  <2> HIDE DEF K
  <2> QED BY <2>1, <2>2, <2>3, <2>4, <2>5 DEF IsChain
<1>6. HoldsNames(K, m - 1, st, p + 1)
  <2> SUFFICES ASSUME NEW a \in p + 1 .. Plie
               PROVE  /\ st[a][1] \in {"link", "inw", "fnw"}
                      /\ IsLong(st[a]) => \A s \in 0 .. m - 1 : K[s] # a + 1
    BY DEF HoldsNames
  <2>1. a \in p .. Plie
    BY <1>3, StoreAssumption
  <2>2. st[a][1] \in {"link", "inw", "fnw"} /\ (IsLong(st[a]) => \A s \in 0 .. m : L[s] # a + 1)
    BY <2>1 DEF HoldsNames
  <2> QED BY <2>2, <1>4
<1> QED BY <1>2, <1>3, <1>5, <1>6

LEMMA KeepsList ==
  ASSUME TypeOK, ListInPlace, plib' = plib, Sublists' = Sublists,
         Lowest' \in Int, Lowest <= Lowest', Lowest' <= plib,
         \A a \in Lowest' .. Plie : store'[a] = store[a]
  PROVE  ListInPlace'
<1>1. PICK L : Listing(L)
  BY DEF ListInPlace
<1>2. Sublists \in Nat /\ Lowest \in Int
  <2>1. Len(toCome) \in Nat
    BY DEF TypeOK
  <2>2. intro.i \in Int /\ plib \in Int
    BY DEF TypeOK
  <2> QED BY <2>1, <2>2 DEF Sublists, Lowest
<1>3. IsChain(L, Sublists, store', plib) /\ HoldsNames(L, Sublists, store', Lowest')
  BY <1>1, <1>2, Undisturbed DEF Listing
<1>4. Listing(L)'
  BY <1>3 DEF Listing
<1> QED BY <1>4 DEF ListInPlace

-----------------------------------------------------------------------------
(***************************************************************************)
(* The main scan.  What its operations write lies below the prescan list.  *)
(***************************************************************************)
ScanInv == TypeOK /\ ListInPlace /\ RegionsApart /\ BlocksInside /\ WalkBelowEnd

(* st2 is a store that agrees with st from address b on. *)
Agrees(st2, st, b) ==
  /\ st2 = [a \in Address |-> st2[a]]
  /\ \A a \in Address : a >= b => st2[a] = st[a]

LEMMA WithAgrees ==
  ASSUME NEW st, NEW a \in Int, NEW ws, NEW b \in Int, Len(ws) \in Nat, a + Len(ws) <= b
  PROVE  Agrees(With(st, a, ws), st, b)
<1>1. \A x \in Address : x \in Int
  BY StoreAssumption DEF Address
<1>2. \A x \in Int : x >= b => x \notin a .. a + Len(ws) - 1
  OBVIOUS
<1>3. \A x \in Address : x >= b => With(st, a, ws)[x] = st[x]
  BY <1>1, <1>2 DEF With
<1>4. With(st, a, ws) = [x \in Address |-> With(st, a, ws)[x]]
  BY DEF With
<1> QED BY <1>3, <1>4 DEF Agrees

LEMMA MovedAgrees ==
  ASSUME NEW st, NEW from \in Int, NEW to \in Int, NEW d \in Int, NEW b \in Int, to + d < b
  PROVE  Agrees(Moved(st, from, to, d), st, b)
BY StoreAssumption DEF Agrees, Moved, Address

LEMMA SetAgrees ==
  ASSUME NEW st, st = [a \in Address |-> st[a]], NEW x \in Int, NEW w, NEW b \in Int, x < b
  PROVE  Agrees([st EXCEPT ![x] = w], st, b)
<1>1. DOMAIN st = Address
  OBVIOUS
<1>2. [st EXCEPT ![x] = w] = [a \in Address |-> IF a = x THEN w ELSE st[a]]
  BY <1>1
<1>3. \A a \in Address : a \in Int
  BY StoreAssumption DEF Address
<1> QED BY <1>2, <1>3 DEF Agrees

LEMMA AgreesTwice ==
  ASSUME NEW st, NEW st1, NEW st2, NEW b \in Int, Agrees(st1, st, b), Agrees(st2, st1, b)
  PROVE  Agrees(st2, st, b)
BY DEF Agrees

LEMMA SameAgrees ==
  ASSUME NEW b, TypeOK
  PROVE  Agrees(store, store, b)
BY DEF Agrees, TypeOK

LEMMA ScanNumbers ==
  ASSUME ScanInv, phase # "prescan"
  PROVE  /\ rnsb \in Int /\ rnsd \in Int /\ flib \in Int /\ klib \in Int /\ nlib \in Int
         /\ plib \in Int /\ klsc \in Nat /\ nlsc \in Nat /\ flsc \in Nat
         /\ Bim <= rnsb /\ rnsb < rnsd /\ rnsd <= flib /\ flib < klib
         /\ klib + klsc <= nlib /\ nlib + nlsc <= Lowest /\ Lowest <= plib /\ plib <= Plie
         /\ Bim <= plib
<1>1. /\ rnsb \in Int /\ rnsd \in Int /\ flib \in Int /\ klib \in Int /\ nlib \in Int
      /\ plib \in Int /\ klsc \in Nat /\ nlsc \in Nat /\ flsc \in Nat /\ intro.i \in Int
  BY DEF ScanInv, TypeOK
<1>2. /\ Bim <= rnsb /\ rnsb < rnsd /\ rnsd <= flib /\ flib < klib
      /\ klib + klsc <= nlib /\ nlib + nlsc <= Lowest /\ Lowest <= plib /\ plib <= Plie
  BY <1>1 DEF ScanInv, RegionsApart, NameListEnd, Lowest
<1>3. Lowest \in Int
  BY <1>1 DEF Lowest
<1> QED BY <1>1, <1>2, <1>3, StoreAssumption

(* An operation that leaves the prescan list alone. *)
LEMMA ScanKeepsList ==
  ASSUME ScanInv, phase \in {"scan", "walk"}, phase' \in {"scan", "walk"},
         UNCHANGED <<plib, toCome>>, Agrees(store', store, plib)
  PROVE  ListInPlace'
<1>1. plib \in Int /\ Bim <= plib
  BY ScanNumbers
<1>2. Sublists' = Sublists /\ Lowest = plib /\ Lowest' = plib
  BY DEF Sublists, Lowest
<1>3. \A a \in plib .. Plie : a \in Address /\ store'[a] = store[a]
  BY <1>1, StoreAssumption DEF Agrees, Address
<1> QED BY <1>1, <1>2, <1>3, KeepsList DEF ScanInv

LEMMA SourceUnchanged ==
  ASSUME TypeOK, UNCHANGED prescanVars
  PROVE  SourceTypeOK'
BY DEF TypeOK, SourceTypeOK, prescanVars

LEMMA TakeTextStep ==
  ASSUME ScanInv, TakeText
  PROVE  ScanInv'
<1> USE DEF TakeText, Scanning, source, lists
<1>1. TypeOK'
  BY SourceUnchanged DEF ScanInv, TypeOK, Pass
<1>2. ListInPlace'
  BY SameAgrees, ScanKeepsList, ScanNumbers DEF ScanInv
<1>3. RegionsApart'
  BY ScanNumbers DEF RegionsApart, NameListEnd, Lowest
<1>4. BlocksInside' /\ WalkBelowEnd'
  BY DEF ScanInv, BlocksInside, WalkBelowEnd
<1> QED BY <1>1, <1>2, <1>3, <1>4 DEF ScanInv

(* bit_string_maker moves nothing to where the prescan list is. *)
LEMMA StreamAgrees ==
  ASSUME ScanInv, phase \in {"scan", "walk"}, StreamWord
  PROVE  Agrees(WithStream(store), store, plib)
<1> DEFINE st1 == [store EXCEPT ![rnsb] = Stream(rnsb - Bim)]
<1>1. /\ rnsb \in Int /\ rnsd \in Int /\ NameListEnd \in Int /\ plib \in Int
      /\ rnsb < plib /\ NameListEnd <= plib
  BY ScanNumbers DEF NameListEnd, Lowest
<1>2. Agrees(st1, store, plib)
  BY <1>1, SetAgrees DEF ScanInv, TypeOK
<1>3. CASE ~ Overtakes
  BY <1>2, <1>3 DEF WithStream
<1>4. CASE Overtakes
  <2>1. (NameListEnd - 1) + StreamShift < plib
    BY <1>1, <1>4, ShiftAssumption DEF StreamWord, StreamOverflow, NoRoom
  <2>2. Agrees(Moved(st1, rnsd, NameListEnd - 1, StreamShift), st1, plib)
    <3> HIDE DEF st1
    <3> QED BY <1>1, <2>1, MovedAgrees, ShiftAssumption
  <2>3. Agrees(Moved(st1, rnsd, NameListEnd - 1, StreamShift), store, plib)
    <3> HIDE DEF st1
    <3> QED BY <1>1, <1>2, <2>2, AgreesTwice
  <2> QED BY <1>4, <2>3 DEF WithStream
<1> QED BY <1>3, <1>4

(* What becomes of the regions when a word of the stream is full. *)
LEMMA StreamRegions ==
  ASSUME ScanInv, phase \in {"scan", "walk"}, StreamWord, UNCHANGED <<plib, klsc, nlsc>>
  PROVE  /\ rnsb' \in Int /\ rnsd' \in Int /\ flib' \in Int /\ klib' \in Int /\ nlib' \in Int
         /\ Bim <= rnsb' /\ rnsb' < rnsd' /\ rnsd' <= flib' /\ flib' < klib'
         /\ klib' + klsc' <= nlib' /\ nlib <= nlib' /\ NameListEnd' <= plib' /\ plib' <= Plie
<1>1. /\ rnsb \in Int /\ rnsd \in Int /\ flib \in Int /\ klib \in Int /\ nlib \in Int
      /\ plib \in Int /\ klsc \in Nat /\ nlsc \in Nat
      /\ Bim <= rnsb /\ rnsb < rnsd /\ rnsd <= flib /\ flib < klib
      /\ klib + klsc <= nlib /\ nlib + nlsc <= plib /\ plib <= Plie
  BY ScanNumbers DEF Lowest
<1>2. CASE Overtakes
  <2>1. nlib + nlsc + StreamShift < plib
    BY <1>1, <1>2, ShiftAssumption DEF StreamWord, StreamOverflow, NoRoom, NameListEnd
  <2>2. /\ rnsb' = rnsb + 1 /\ rnsd' = rnsd + StreamShift /\ flib' = flib + StreamShift
        /\ klib' = klib + StreamShift /\ nlib' = nlib + StreamShift /\ rnsb + 1 = rnsd
    BY <1>2 DEF StreamWord, Overtakes
  <2> QED BY <1>1, <2>1, <2>2, ShiftAssumption, StoreAssumption DEF NameListEnd
<1>3. CASE ~ Overtakes
  <2>1. rnsb' = rnsb + 1 /\ UNCHANGED <<rnsd, flib, klib, nlib>> /\ rnsb + 1 # rnsd
    BY <1>3 DEF StreamWord, Overtakes
  <2> QED BY <1>1, <2>1, StoreAssumption DEF NameListEnd
<1> QED BY <1>2, <1>3

LEMMA BitStringMakerStep ==
  ASSUME ScanInv, BitStringMaker
  PROVE  ScanInv'
<1> USE DEF BitStringMaker, Scanning, source
<1>1. Agrees(store', store, plib)
  BY StreamAgrees
<1>2. TypeOK'
  <2>1. store' = [a \in Address |-> store'[a]]
    BY <1>1 DEF Agrees
  <2> QED BY <2>1, StreamRegions, SourceUnchanged DEF ScanInv, TypeOK, Pass
<1>3. ListInPlace'
  BY <1>1, ScanKeepsList
<1>4. RegionsApart'
  BY StreamRegions DEF RegionsApart
<1>5. BlocksInside' /\ WalkBelowEnd'
  BY DEF ScanInv, BlocksInside, WalkBelowEnd
<1> QED BY <1>2, <1>3, <1>4, <1>5 DEF ScanInv

(* fill_future_list writes below the constants and moves what lies below   *)
(* end; neither reaches the prescan list.                                  *)
LEMMA FutureAgrees ==
  ASSUME LateFutures = FALSE, ScanInv, phase \in {"scan", "walk"},
         NEW p \in Int, NEW end \in Int, nlib <= end, end <= NameListEnd, FillFutureList(p, end)
  PROVE  Agrees(WithFuture(p, end), store, plib)
<1>1. /\ flib \in Int /\ klib \in Int /\ nlib \in Int /\ nlsc \in Nat /\ klsc \in Nat
      /\ plib \in Int /\ klib <= nlib /\ NameListEnd \in Int /\ NameListEnd <= plib
  BY ScanNumbers DEF Lowest, NameListEnd
<1> DEFINE st == IF Displaces(p) THEN Moved(store, klib, end - 1, ListShift) ELSE store
<1>2. Agrees(st, store, plib)
  <2>1. CASE Displaces(p)
    <3>1. (end - 1) + ListShift < plib
      BY <1>1, <2>1, ShiftAssumption DEF FillFutureList, FutureRoom
    <3>2. Agrees(Moved(store, klib, end - 1, ListShift), store, plib)
      BY <1>1, <3>1, MovedAgrees, ShiftAssumption
    <3> QED BY <2>1, <3>2
  <2>2. CASE ~ Displaces(p)
    BY <2>2, SameAgrees DEF ScanInv
  <2> QED BY <2>1, <2>2
<1>3. flib + p < plib
  <2>1. CASE Displaces(p)
    <3>1. end + ListShift < plib /\ flib + p < klib + ListShift
      BY <2>1 DEF FillFutureList, FutureRoom
    <3> QED BY <1>1, <3>1, ShiftAssumption
  <2>2. CASE ~ Displaces(p)
    BY <1>1, <2>2 DEF Displaces
  <2> QED BY <2>1, <2>2
<1>4. st = [a \in Address |-> st[a]]
  BY <1>2 DEF Agrees
<1>5. flib + p \in Int
  BY <1>1
<1>6. Agrees([st EXCEPT ![flib + p] = Future(p)], st, plib)
  <2> HIDE DEF st
  <2> QED BY <1>1, <1>3, <1>4, <1>5, SetAgrees
<1>7. Agrees([st EXCEPT ![flib + p] = Future(p)], store, plib)
  <2> HIDE DEF st
  <2> QED BY <1>1, <1>2, <1>6, AgreesTwice
<1> QED BY <1>7 DEF WithFuture

LEMMA FutureRegions ==
  ASSUME ScanInv, phase \in {"scan", "walk"},
         NEW p \in Int, NEW end \in Int, nlib <= end, end <= NameListEnd, FillFutureList(p, end),
         UNCHANGED <<rnsb, rnsd, flib, plib, klsc>>, nlsc' \in Nat, nlsc' = end - nlib
  PROVE  /\ klib' \in Int /\ nlib' \in Int
         /\ Bim <= rnsb' /\ rnsb' < rnsd' /\ rnsd' <= flib' /\ flib' < klib'
         /\ klib' + klsc' <= nlib' /\ NameListEnd' <= plib' /\ plib' <= Plie
<1>1. /\ rnsb \in Int /\ rnsd \in Int /\ flib \in Int /\ klib \in Int /\ nlib \in Int
      /\ plib \in Int /\ klsc \in Nat /\ nlsc \in Nat
      /\ Bim <= rnsb /\ rnsb < rnsd /\ rnsd <= flib /\ flib < klib
      /\ klib + klsc <= nlib /\ nlib + nlsc <= plib /\ plib <= Plie
  BY ScanNumbers DEF Lowest
<1>2. CASE Displaces(p)
  <2>1. end + ListShift < plib /\ klib' = klib + ListShift /\ nlib' = nlib + ListShift
    BY <1>2 DEF FillFutureList, FutureRoom
  <2>2. NameListEnd' = end + ListShift
    <3>1. NameListEnd' = nlib' + nlsc'
      BY DEF NameListEnd
    <3> QED BY <1>1, <2>1, <3>1, ShiftAssumption
  <2>3. ListShift \in Nat
    BY ShiftAssumption
  <2>4. flib' < klib' /\ klib' + klsc' <= nlib' /\ klib' \in Int /\ nlib' \in Int
    BY <1>1, <2>1, <2>3
  <2> QED BY <1>1, <2>1, <2>2, <2>4
<1>3. CASE ~ Displaces(p)
  <2>1. klib' = klib /\ nlib' = nlib
    BY <1>3 DEF FillFutureList
  <2>2. NameListEnd' = end
    BY <1>1, <2>1 DEF NameListEnd
  <2>3. NameListEnd' <= plib'
    <3>1. NameListEnd \in Int /\ NameListEnd <= plib
      BY <1>1 DEF NameListEnd
    <3> QED BY <1>1, <2>2, <3>1
  <2> QED BY <1>1, <2>1, <2>3
<1> QED BY <1>2, <1>3

LEMMA ReserveFutureStep ==
  ASSUME ScanInv, ReserveFuture
  PROVE  ScanInv'
<1> USE DEF ReserveFuture, Scanning, source
<1>1. TypeOK'
  BY SourceUnchanged DEF ScanInv, TypeOK, Pass
<1>2. ListInPlace'
  BY SameAgrees, ScanKeepsList, ScanNumbers DEF ScanInv
<1>3. RegionsApart'
  BY ScanNumbers DEF RegionsApart, NameListEnd, Lowest
<1>4. BlocksInside' /\ WalkBelowEnd'
  BY DEF ScanInv, BlocksInside, WalkBelowEnd
<1> QED BY <1>1, <1>2, <1>3, <1>4 DEF ScanInv

LEMMA ResolveFutureStep ==
  ASSUME LateFutures = FALSE, ScanInv, NEW p \in open, ResolveFuture(p)
  PROVE  ScanInv'
<1> USE DEF ResolveFuture, Scanning, source
<1>1. p \in Int /\ NameListEnd \in Int /\ nlib <= NameListEnd /\ nlsc' \in Nat
  BY ScanNumbers DEF ScanInv, TypeOK, NameListEnd
<1>2. Agrees(store', store, plib)
  <2>1. FillFutureList(p, NameListEnd) /\ store' = WithFuture(p, NameListEnd)
    OBVIOUS
  <2>2. Agrees(WithFuture(p, NameListEnd), store, plib)
    <3>1. phase \in {"scan", "walk"} /\ NameListEnd <= NameListEnd
      BY <1>1
    <3> QED BY <1>1, <2>1, <3>1, FutureAgrees
  <2> QED BY <2>1, <2>2
<1>3. nlsc' = NameListEnd - nlib
  BY ScanNumbers DEF NameListEnd
<1>4. /\ klib' \in Int /\ nlib' \in Int
      /\ Bim <= rnsb' /\ rnsb' < rnsd' /\ rnsd' <= flib' /\ flib' < klib'
      /\ klib' + klsc' <= nlib' /\ NameListEnd' <= plib' /\ plib' <= Plie
  BY <1>1, <1>3, FutureRegions
<1>5. TypeOK'
  <2>1. store' = [a \in Address |-> store'[a]]
    BY <1>2 DEF Agrees
  <2> QED BY <1>4, <2>1, SourceUnchanged DEF ScanInv, TypeOK, Pass
<1>6. ListInPlace'
  BY <1>2, ScanKeepsList
<1>7. RegionsApart'
  BY <1>4 DEF RegionsApart
<1>8. BlocksInside' /\ WalkBelowEnd'
  BY DEF ScanInv, BlocksInside, WalkBelowEnd
<1> QED BY <1>5, <1>6, <1>7, <1>8 DEF ScanInv

(* A search downwards: f[a] is given by f at an address below a, or by a   *)
(* alone when a is not above n0.                                           *)
Searches(f, n0, b, g, below) ==
  f = [a \in Int |-> IF a <= n0 THEN b[a] ELSE g[a][f[below[a]]]]

LEMMA Downwards ==
  ASSUME NEW n0 \in Int, NEW V, NEW b \in [Int -> V], NEW g \in [Int -> [V -> V]],
         NEW below \in [Int -> Int], \A a \in Int : below[a] < a
  PROVE  \E f \in [Int -> V] : Searches(f, n0, b, g, below)
<1> DEFINE Step(x) == [a \in Int |-> IF a <= n0 THEN b[a] ELSE g[a][x[below[a]]]]
           st == [x \in [Int -> V] |-> <<x, Step(x)>>]
           K(a) == IF a <= n0 THEN 0 ELSE a - n0
<1>1. PICK c : Linked(c, st, b)
  BY ChainExists
<1>2. \A x \in [Int -> V] : Step(x) \in [Int -> V] /\ st[x][2] = Step(x)
  OBVIOUS
<1>3. c[0] = b /\ \A s \in Nat : c[s + 1] = st[c[s]][2]
  <2>1. \A s \in Nat : c[s] = IF s = 0 THEN b ELSE st[c[s - 1]][2]
    <3> HIDE DEF st
    <3> QED BY <1>1 DEF Linked
  <2>2. \A s \in Nat : s + 1 \in Nat /\ s + 1 # 0 /\ (s + 1) - 1 = s
    OBVIOUS
  <2> HIDE DEF st
  <2> QED BY <2>1, <2>2
<1>4. \A s \in Nat : c[s] \in [Int -> V]
  <2> DEFINE S == {s \in Nat : c[s] \in [Int -> V]}
  <2>1. 0 \in S /\ S \in SUBSET Nat
    BY <1>3
  <2>2. ASSUME NEW s \in S PROVE s + 1 \in S
    <3>1. s \in Nat /\ c[s] \in [Int -> V]
      OBVIOUS
    <3> HIDE DEF st, Step, S
    <3>2. c[s + 1] = Step(c[s]) /\ Step(c[s]) \in [Int -> V]
      BY <1>2, <1>3, <3>1
    <3> QED BY <3>1, <3>2 DEF S
  <2>3. S = Nat
    <3> HIDE DEF S
    <3> QED BY <2>1, <2>2, Induction
  <2> QED BY <2>3
<1>5. \A s \in Nat : c[s + 1] = Step(c[s])
  <2> HIDE DEF st, Step
  <2> QED BY <1>2, <1>3, <1>4
<1>6. \A s \in Nat, a \in Int : c[s + 1][a] = IF a <= n0 THEN b[a] ELSE g[a][c[s][below[a]]]
  <2> SUFFICES ASSUME NEW s \in Nat, NEW a \in Int
               PROVE  c[s + 1][a] = IF a <= n0 THEN b[a] ELSE g[a][c[s][below[a]]]
    OBVIOUS
  <2>1. Step(c[s])[a] = IF a <= n0 THEN b[a] ELSE g[a][c[s][below[a]]]
    OBVIOUS
  <2> HIDE DEF st, Step
  <2> QED BY <1>5, <2>1
<1> HIDE DEF st, Step
<1>7. \A a \in Int : below[a] \in Int /\ K(a) \in Nat
  OBVIOUS
<1>8. \A s \in Nat : \A a \in Int : a <= n0 + s => c[s + 1][a] = c[s][a]
  <2> DEFINE S == {s \in Nat : \A a \in Int : a <= n0 + s => c[s + 1][a] = c[s][a]}
  <2>1. 0 \in S /\ S \in SUBSET Nat
    BY <1>3, <1>6
  <2>2. ASSUME NEW s \in S PROVE s + 1 \in S
    <3> SUFFICES ASSUME NEW a \in Int, a <= n0 + (s + 1)
                 PROVE  c[(s + 1) + 1][a] = c[s + 1][a]
      OBVIOUS
    <3>1. c[s + 1][below[a]] = c[s][below[a]]
      <4>1. below[a] \in Int /\ below[a] <= n0 + s
        BY <1>7
      <4> QED BY <4>1
    <3>2. c[(s + 1) + 1][a] = IF a <= n0 THEN b[a] ELSE g[a][c[s + 1][below[a]]]
      BY <1>6
    <3>3. c[s + 1][a] = IF a <= n0 THEN b[a] ELSE g[a][c[s][below[a]]]
      BY <1>6
    <3> QED BY <3>1, <3>2, <3>3
  <2>3. S = Nat
    <3> HIDE DEF S
    <3> QED BY <2>1, <2>2, Induction
  <2> QED BY <2>3
<1>9. \A s \in Nat : \A a \in Int : K(a) <= s => c[s][a] = c[K(a)][a]
  <2> DEFINE S == {s \in Nat : \A a \in Int : K(a) <= s => c[s][a] = c[K(a)][a]}
  <2>1. 0 \in S /\ S \in SUBSET Nat
    BY <1>7
  <2>2. ASSUME NEW s \in S PROVE s + 1 \in S
    <3> SUFFICES ASSUME NEW a \in Int, K(a) <= s + 1
                 PROVE  c[s + 1][a] = c[K(a)][a]
      OBVIOUS
    <3>1. CASE K(a) = s + 1
      BY <3>1
    <3>2. CASE K(a) <= s
      <4>1. c[s][a] = c[K(a)][a] /\ a <= n0 + s
        BY <3>2
      <4> QED BY <4>1, <1>8
    <3> QED BY <3>1, <3>2, <1>7
  <2>3. S = Nat
    <3> HIDE DEF S
    <3> QED BY <2>1, <2>2, Induction
  <2> QED BY <2>3
<1> DEFINE f == [a \in Int |-> c[K(a)][a]]
<1>10. \A a \in Int : f[a] = IF a <= n0 THEN b[a] ELSE g[a][f[below[a]]]
  <2> SUFFICES ASSUME NEW a \in Int PROVE f[a] = IF a <= n0 THEN b[a] ELSE g[a][f[below[a]]]
    OBVIOUS
  <2>1. CASE a <= n0
    BY <2>1, <1>3
  <2>2. CASE ~ (a <= n0)
    <3>1. K(a) - 1 \in Nat /\ K(below[a]) <= K(a) - 1 /\ (K(a) - 1) + 1 = K(a) /\ below[a] \in Int
      BY <2>2
    <3>2. c[K(a) - 1][below[a]] = f[below[a]]
      BY <3>1, <1>9
    <3>3. f[a] = g[a][c[K(a) - 1][below[a]]]
      <4>1. c[(K(a) - 1) + 1][a] = IF a <= n0 THEN b[a] ELSE g[a][c[K(a) - 1][below[a]]]
        BY <3>1, <1>6
      <4> QED BY <2>2, <3>1, <4>1
    <3> HIDE DEF f
    <3> QED BY <2>2, <3>2, <3>3
  <2> QED BY <2>1, <2>2
<1>11. f \in [Int -> V] /\ f = [a \in Int |-> f[a]]
  BY <1>4, <1>7
<1> HIDE DEF f
<1>12. Searches(f, n0, b, g, below)
  BY <1>10, <1>11 DEF Searches
<1> QED BY <1>11, <1>12

(* look_for_name finds a name in the list, or none. *)
LEMMA LookForNameInside ==
  ASSUME NEW nm, nlib \in Int, nlsc \in Nat
  PROVE  LookForName(nm) \in -1 .. nlsc - 1
<1> DEFINE Here(a) == store[a - 2] = Inw(nm) /\ (nm \in Long => store[a - 3] = Fnw(nm))
           below == [a \in Int |-> BelowEntry(store, a)]
           b == [a \in Int |-> -1]
           g == [a \in Int |-> [v \in Int |-> IF Here(a) THEN a - nlib - 1 ELSE v]]
           Search(f) ==
             f = [a \in Int |-> IF a <= nlib THEN -1
                                ELSE IF store[a - 2] = Inw(nm)
                                        /\ (nm \in Long => store[a - 3] = Fnw(nm))
                                     THEN a - nlib - 1
                                     ELSE f[BelowEntry(store, a)]]
<1>1. /\ b \in [Int -> Int] /\ g \in [Int -> [Int -> Int]] /\ below \in [Int -> Int]
      /\ \A a \in Int : below[a] < a
  <2>1. \A a \in Int : a - 3 \in Int /\ a - 2 \in Int /\ a - 3 < a /\ a - 2 < a
    OBVIOUS
  <2> QED BY <2>1 DEF BelowEntry
<1>2. PICK f \in [Int -> Int] : f = [a \in Int |-> IF a <= nlib THEN b[a] ELSE g[a][f[below[a]]]]
  <2> HIDE DEF b, g, below
  <2>1. \E f \in [Int -> Int] : Searches(f, nlib, b, g, below)
    BY <1>1, Downwards
  <2> QED BY <2>1, Zenon DEF Searches
<1>3. \A a \in Int : /\ b[a] = -1 /\ below[a] = BelowEntry(store, a) /\ below[a] \in Int
                     /\ g[a][f[below[a]]] = IF Here(a) THEN a - nlib - 1 ELSE f[below[a]]
  BY <1>1
<1>4. Search(f)
  <2>1. \A a \in Int : f[a] = IF a <= nlib THEN -1
                              ELSE IF Here(a) THEN a - nlib - 1 ELSE f[BelowEntry(store, a)]
    <3> HIDE DEF b, g, below, Here
    <3> QED BY <1>2, <1>3
  <2>2. f = [a \in Int |-> f[a]]
    OBVIOUS
  <2> QED BY <2>1, <2>2
<1> DEFINE found == CHOOSE h : Search(h)
<1>5. Search(found)
  <2> HIDE DEF Search
  <2> QED BY <1>4
<1>6. LookForName(nm) = found[NameListEnd]
  BY Zenon DEF LookForName
<1>7. \A a \in Int : found[a] = IF a <= nlib THEN -1
                                ELSE IF Here(a) THEN a - nlib - 1 ELSE found[BelowEntry(store, a)]
  <2> HIDE DEF found
  <2> QED BY <1>5
<1>8. \A a \in Int : BelowEntry(store, a) \in Int /\ BelowEntry(store, a) < a
  BY <1>1
<1> HIDE DEF found, Here, Search
<1> DEFINE S == {k \in Nat : \A a \in Int : a <= nlib + k => found[a] \in -1 .. k - 1}
<1>9. 0 \in S /\ S \in SUBSET Nat
  BY <1>7
<1>10. ASSUME NEW k \in S PROVE k + 1 \in S
  <2> SUFFICES ASSUME NEW a \in Int, a <= nlib + (k + 1) PROVE found[a] \in -1 .. (k + 1) - 1
    OBVIOUS
  <2>1. found[BelowEntry(store, a)] \in -1 .. k - 1
    BY <1>8
  <2>2. CASE a <= nlib
    BY <1>7, <2>2
  <2>3. CASE ~ (a <= nlib) /\ Here(a)
    BY <1>7, <2>3
  <2>4. CASE ~ (a <= nlib) /\ ~ Here(a)
    BY <1>7, <2>1, <2>4
  <2> QED BY <2>2, <2>3, <2>4
<1>11. S = Nat
  <2> HIDE DEF S
  <2> QED BY <1>9, <1>10, Induction
<1>12. found[NameListEnd] \in -1 .. nlsc - 1
  <2>1. NameListEnd \in Int /\ NameListEnd <= nlib + nlsc
    BY DEF NameListEnd
  <2>2. nlsc \in S
    BY <1>11
  <2> QED BY <2>1, <2>2
<1> QED BY <1>6, <1>12

(* What the operations on the constants do to the store and the regions.   *)
LEMMA ConstantAgrees ==
  ASSUME ScanInv, phase = "scan", NEW d \in {0, ListShift}, NEW n \in 1 .. ListShift,
         d = ListShift => ~ NoRoom(ListShift), d = 0 => klib + klsc + n <= nlib,
         NEW ws, Len(ws) = n
  PROVE  Agrees(With(NamesMoved(d), klib + klsc, ws), store, plib)
<1>1. /\ klib \in Int /\ nlib \in Int /\ klsc \in Nat /\ nlsc \in Nat /\ plib \in Int
      /\ klib + klsc <= nlib /\ NameListEnd \in Int /\ nlib <= NameListEnd /\ NameListEnd <= plib
  BY ScanNumbers DEF Lowest, NameListEnd
<1>2. d \in Nat /\ n \in Nat /\ ListShift \in Nat
  BY ShiftAssumption
<1>3. NameListEnd + d <= plib /\ (d = 0 \/ NameListEnd + d < plib)
  BY <1>1, <1>2 DEF NoRoom
<1>4. Agrees(NamesMoved(d), store, plib)
  <2>1. (NameListEnd - 1) + d < plib
    BY <1>1, <1>2, <1>3
  <2> QED BY <1>1, <1>2, <2>1, MovedAgrees DEF NamesMoved
<1>5. klib + klsc + n <= plib
  BY <1>1, <1>2, <1>3
<1>6. Agrees(With(NamesMoved(d), klib + klsc, ws), NamesMoved(d), plib)
  <2>1. klib + klsc \in Int /\ Len(ws) \in Nat
    BY <1>1, <1>2
  <2> QED BY <1>1, <1>2, <1>5, <2>1, WithAgrees
<1> QED BY <1>1, <1>4, <1>6, AgreesTwice

LEMMA ConstantRegions ==
  ASSUME ScanInv, phase = "scan", NEW d \in {0, ListShift}, NEW n \in 1 .. ListShift,
         d = ListShift => ~ NoRoom(ListShift), d = 0 => klib + klsc + n <= nlib,
         UNCHANGED <<rnsb, rnsd, flib, klib, plib, nlsc>>, nlib' = nlib + d,
         klsc' = klsc \/ klsc' = klsc + n
  PROVE  /\ nlib' \in Int /\ klsc' \in Nat
         /\ Bim <= rnsb' /\ rnsb' < rnsd' /\ rnsd' <= flib' /\ flib' < klib'
         /\ klib' + klsc' <= nlib' /\ NameListEnd' <= plib' /\ plib' <= Plie
<1>1. /\ rnsb \in Int /\ rnsd \in Int /\ flib \in Int /\ klib \in Int /\ nlib \in Int
      /\ plib \in Int /\ klsc \in Nat /\ nlsc \in Nat
      /\ Bim <= rnsb /\ rnsb < rnsd /\ rnsd <= flib /\ flib < klib
      /\ klib + klsc <= nlib /\ nlib + nlsc <= plib /\ plib <= Plie
  BY ScanNumbers DEF Lowest
<1>2. d \in Nat /\ n \in Nat /\ ListShift \in Nat
  BY ShiftAssumption
<1>3. NameListEnd' <= plib'
  BY <1>1, <1>2 DEF NoRoom, NameListEnd
<1>4. klib' + klsc' <= nlib' /\ nlib' \in Int /\ klsc' \in Nat
  BY <1>1, <1>2
<1> QED BY <1>1, <1>3, <1>4
LEMMA LookForConstantStep ==
  ASSUME ScanInv, NEW c \in Constant, LookForConstant(c)
  PROVE  ScanInv'
<1> DEFINE d  == IF ConstantRoom(c) THEN 0 ELSE ListShift
           ws == [k \in DOMAIN c |-> Value(c[k])]
           n  == Len(c)
<1>1. /\ phase = "scan" /\ nlib' = nlib + d /\ store' = With(NamesMoved(d), klib + klsc, ws)
      /\ klsc' = klsc \/ klsc' = klsc + n
      /\ ConstantRoom(c) \/ ~ NoRoom(ListShift)
      /\ UNCHANGED <<rnsb, plib, phase, stopped, source, rnsd, flib, klib, flsc,
                    nlsc, open, scopes, vlam, intro, walk>>
  BY DEF LookForConstant, Scanning
<1>2. n \in 1 .. ListShift /\ Len(ws) = n /\ d \in {0, ListShift}
  <2>1. n \in {1, 2} /\ DOMAIN c = 1 .. n
    BY ConstantAssumption
  <2>2. n \in 1 .. ListShift /\ n \in Nat
    BY <2>1, ShiftAssumption
  <2>3. Len(ws) = n
    <3>1. ws = [k \in 1 .. n |-> Value(c[k])]
      BY <2>1
    <3> HIDE DEF n, ws
    <3> QED BY <2>2, <3>1
  <2> QED BY <2>2, <2>3
<1>3. /\ d = ListShift => ~ NoRoom(ListShift)
      /\ d = 0 => klib + klsc + n <= nlib
  <2>1. ListShift # 0 /\ n \in Nat
    BY <1>2, ShiftAssumption
  <2> QED BY <1>1, <2>1, ScanNumbers DEF ConstantRoom
<1> HIDE DEF d, ws, n
<1>4. Agrees(store', store, plib)
  BY <1>1, <1>2, <1>3, ConstantAgrees
<1>5. /\ nlib' \in Int /\ klsc' \in Nat
      /\ Bim <= rnsb' /\ rnsb' < rnsd' /\ rnsd' <= flib' /\ flib' < klib'
      /\ klib' + klsc' <= nlib' /\ NameListEnd' <= plib' /\ plib' <= Plie
  BY <1>1, <1>2, <1>3, ConstantRegions
<1>6. TypeOK'
  <2>1. store' = [a \in Address |-> store'[a]]
    BY <1>4 DEF Agrees
  <2> QED BY <1>1, <1>5, <2>1, SourceUnchanged DEF ScanInv, TypeOK, Pass, source
<1>7. ListInPlace'
  BY <1>1, <1>4, ScanKeepsList DEF source
<1>8. RegionsApart'
  BY <1>1, <1>5 DEF RegionsApart
<1>9. BlocksInside' /\ WalkBelowEnd'
  BY <1>1 DEF ScanInv, BlocksInside, WalkBelowEnd
<1> QED BY <1>6, <1>7, <1>8, <1>9 DEF ScanInv

LEMMA SetIsWith ==
  ASSUME NEW st, st = [a \in Address |-> st[a]], NEW x \in Int, NEW w
  PROVE  [st EXCEPT ![x] = w] = With(st, x, <<w>>)
<1>1. DOMAIN st = Address /\ \A a \in Address : a \in Int
  BY StoreAssumption DEF Address
<1>2. [st EXCEPT ![x] = w] = [a \in Address |-> IF a = x THEN w ELSE st[a]]
  BY <1>1
<1>3. Len(<<w>>) = 1 /\ <<w>>[1] = w
  OBVIOUS
<1>4. \A b \in Address : b \in x .. x + Len(<<w>>) - 1 <=> b = x
  BY <1>1, <1>3
<1> QED BY <1>2, <1>3, <1>4 DEF With

LEMMA FillConstantListStep ==
  ASSUME ScanInv, NEW n, FillConstantList(n)
  PROVE  ScanInv'
<1> DEFINE d  == IF klib + klsc = nlib THEN ListShift ELSE 0
           ws == <<Value(n)>>
<1>1. /\ phase = "scan" /\ nlib' = nlib + d /\ klsc' = klsc + 1
      /\ store' = [NamesMoved(d) EXCEPT ![klib + klsc] = Value(n)]
      /\ klib + klsc = nlib => ~ NoRoom(ListShift)
      /\ UNCHANGED <<rnsb, plib, phase, stopped, source, rnsd, flib, klib, flsc,
                    nlsc, open, scopes, vlam, intro, walk>>
  BY DEF FillConstantList, Scanning
<1>2. 1 \in 1 .. ListShift /\ Len(ws) = 1 /\ d \in {0, ListShift}
  BY ShiftAssumption
<1>3. /\ d = ListShift => ~ NoRoom(ListShift)
      /\ d = 0 => klib + klsc + 1 <= nlib
  <2>1. ListShift # 0
    BY ShiftAssumption
  <2> QED BY <1>1, <2>1, ScanNumbers
<1>4. store' = With(NamesMoved(d), klib + klsc, ws)
  <2>1. NamesMoved(d) = [a \in Address |-> NamesMoved(d)[a]]
    BY DEF NamesMoved, Moved
  <2>2. klib + klsc \in Int
    BY ScanNumbers, <1>1
  <2> HIDE DEF d
  <2> QED BY <1>1, <2>1, <2>2, SetIsWith
<1> HIDE DEF d, ws
<1>5. Agrees(store', store, plib)
  BY <1>1, <1>2, <1>3, <1>4, ConstantAgrees
<1>6. /\ nlib' \in Int /\ klsc' \in Nat
      /\ Bim <= rnsb' /\ rnsb' < rnsd' /\ rnsd' <= flib' /\ flib' < klib'
      /\ klib' + klsc' <= nlib' /\ NameListEnd' <= plib' /\ plib' <= Plie
  BY <1>1, <1>2, <1>3, ConstantRegions
<1>7. TypeOK'
  <2>1. store' = [a \in Address |-> store'[a]]
    BY <1>5 DEF Agrees
  <2> QED BY <1>1, <1>6, <2>1, SourceUnchanged DEF ScanInv, TypeOK, Pass, source
<1>8. ListInPlace'
  BY <1>1, <1>5, ScanKeepsList DEF source
<1>9. RegionsApart'
  BY <1>1, <1>6 DEF RegionsApart
<1>10. BlocksInside' /\ WalkBelowEnd'
  BY <1>1 DEF ScanInv, BlocksInside, WalkBelowEnd
<1> QED BY <1>7, <1>8, <1>9, <1>10 DEF ScanInv

LEMMA Elements ==
  ASSUME NEW S, NEW q \in Seq(S)
  PROVE  DOMAIN q = 1 .. Len(q) /\ Len(q) \in Nat /\ \A i \in DOMAIN q : q[i] \in S
OBVIOUS

Front(q, n) == SubSeq(q, 1, n)

LEMMA Fronts ==
  ASSUME NEW S, NEW q \in Seq(S), NEW n \in Int, 0 <= n, n <= Len(q)
  PROVE  /\ Front(q, n) \in Seq(S) /\ Len(Front(q, n)) = n /\ DOMAIN Front(q, n) = 1 .. n
         /\ \A i \in 1 .. n : Front(q, n)[i] = q[i]
BY DEF Front

LEMMA EntrySize ==
  ASSUME NEW nm, NEW w
  PROVE  Size(nm) \in {2, 3} /\ Len(Entry(nm, w)) = Size(nm)
BY DEF Size, Entry

LEMMA FillNameListStep ==
  ASSUME ScanInv, NEW nm, NEW kind, FillNameList(nm, kind)
  PROVE  ScanInv'
<1>1. /\ phase = "scan" /\ nlsc' = nlsc + Size(nm) /\ NameListEnd + Size(nm) <= plib
      /\ store' = With(store, NameListEnd, Entry(nm, Id(kind, 0)))
      /\ UNCHANGED <<rnsb, plib, phase, stopped, source, rnsd, flib, klib, nlib, flsc, klsc,
                    open, scopes, vlam, intro, walk>>
  BY DEF FillNameList, Scanning
<1>2. Size(nm) \in Nat /\ Len(Entry(nm, Id(kind, 0))) = Size(nm)
  BY EntrySize
<1>3. NameListEnd \in Int /\ plib \in Int /\ nlsc \in Nat
  BY <1>1, ScanNumbers DEF NameListEnd
<1>4. Agrees(store', store, plib)
  BY <1>1, <1>2, <1>3, WithAgrees
<1>5. TypeOK'
  <2>1. store' = [a \in Address |-> store'[a]] /\ nlsc' \in Nat
    BY <1>1, <1>2, <1>3, <1>4 DEF Agrees
  <2> QED BY <1>1, <2>1, SourceUnchanged DEF ScanInv, TypeOK, Pass, source
<1>6. ListInPlace'
  BY <1>1, <1>4, ScanKeepsList DEF source
<1>7. RegionsApart'
  <2>1. NameListEnd' <= plib
    BY <1>1, <1>2, ScanNumbers DEF NameListEnd
  <2> QED BY <1>1, <2>1, ScanNumbers DEF RegionsApart
<1>8. BlocksInside' /\ WalkBelowEnd'
  <2>1. \A i \in DOMAIN scopes : scopes[i].names \in Nat
    <3>1. scopes \in Seq([names : Nat, place : Int])
      BY DEF ScanInv, TypeOK
    <3>2. \A i \in DOMAIN scopes : scopes[i] \in [names : Nat, place : Int]
      BY <3>1, Elements
    <3> QED BY <3>2
  <2> QED BY <1>1, <1>2, <1>3, <2>1 DEF ScanInv, BlocksInside, WalkBelowEnd
<1> QED BY <1>5, <1>6, <1>7, <1>8 DEF ScanInv

LEMMA TestFirstOccurrenceStep ==
  ASSUME LateFutures = FALSE, ScanInv, NEW nm, TestFirstOccurrence(nm)
  PROVE  ScanInv'
<1> DEFINE nid == LookForName(nm)
           mcp == nid <= Len(Prefill)
           st  == IF mcp THEN WithFuture(flsc, NameListEnd) ELSE store
<1>1. /\ phase = "scan" /\ nid >= 0
      /\ IF mcp THEN FillFutureList(flsc, NameListEnd) /\ UNCHANGED open
                ELSE open' = open \cup {flsc} /\ UNCHANGED <<klib, nlib>>
      /\ store' = [st EXCEPT ![nlib' + nid] = Id("future", flsc)]
      /\ flsc' = flsc + 1
      /\ UNCHANGED <<rnsb, plib, phase, stopped, source, rnsd, flib, klsc, nlsc,
                    place, scopes, vlam, intro, walk>>
  BY DEF TestFirstOccurrence, Scanning
<1>2. /\ nid \in 0 .. nlsc - 1 /\ nlsc \in Nat /\ nlib \in Int /\ flsc \in Int /\ plib \in Int
      /\ NameListEnd \in Int /\ nlib <= NameListEnd /\ nlsc = NameListEnd - nlib
  <2>1. nlsc \in Nat /\ nlib \in Int /\ flsc \in Int /\ plib \in Int
    BY <1>1, ScanNumbers
  <2>2. nid \in -1 .. nlsc - 1
    BY <2>1, LookForNameInside
  <2> QED BY <1>1, <2>1, <2>2 DEF NameListEnd
<1>3. /\ klib' \in Int /\ nlib' \in Int
      /\ Bim <= rnsb' /\ rnsb' < rnsd' /\ rnsd' <= flib' /\ flib' < klib'
      /\ klib' + klsc' <= nlib' /\ NameListEnd' <= plib' /\ plib' <= Plie
  <2>1. CASE mcp
    <3>1. nlsc' = NameListEnd - nlib /\ nlsc' \in Nat
      BY <1>1, <1>2
    <3>2. FillFutureList(flsc, NameListEnd) /\ NameListEnd <= NameListEnd
      BY <1>1, <1>2, <2>1
    <3>3. UNCHANGED <<rnsb, rnsd, flib, plib, klsc>> /\ phase \in {"scan", "walk"}
      BY <1>1
    <3> QED BY <1>2, <3>1, <3>2, <3>3, FutureRegions
  <2>2. CASE ~ mcp
    BY <1>1, <2>2, ScanNumbers DEF NameListEnd, Lowest
  <2> QED BY <2>1, <2>2
<1>4. Agrees(st, store, plib)
  <2>1. CASE mcp
    <3>1. FillFutureList(flsc, NameListEnd) /\ NameListEnd <= NameListEnd
      BY <1>1, <1>2, <2>1
    <3>2. Agrees(WithFuture(flsc, NameListEnd), store, plib)
      BY <1>1, <1>2, <3>1, FutureAgrees
    <3> QED BY <2>1, <3>2
  <2>2. CASE ~ mcp
    BY <2>2, SameAgrees DEF ScanInv
  <2> QED BY <2>1, <2>2
<1>5. nlib' + nid \in Int /\ nlib' + nid < plib
  <2>1. nlsc' = nlsc /\ plib' = plib
    BY <1>1
  <2>2. nlib' + nlsc <= plib
    BY <1>3, <2>1 DEF NameListEnd
  <2>3. nid < nlsc /\ {nid, nlib', nlsc, plib} \subseteq Int
    BY <1>2, <1>3
  <2> QED BY <2>2, <2>3
<1>6. st = [a \in Address |-> st[a]]
  BY <1>4 DEF Agrees
<1> HIDE DEF st, mcp
<1>7. Agrees(store', st, plib)
  BY <1>1, <1>2, <1>5, <1>6, SetAgrees
<1>8. Agrees(store', store, plib)
  BY <1>2, <1>4, <1>7, AgreesTwice
<1>9. TypeOK'
  <2>1. store' = [a \in Address |-> store'[a]]
    BY <1>8 DEF Agrees
  <2>2. open' \subseteq Int /\ flsc' \in Nat
    <3>1. flsc \in Nat /\ open \subseteq Int
      BY DEF ScanInv, TypeOK
    <3>2. open' \in {open, open \cup {flsc}}
      BY <1>1
    <3>3. flsc' = flsc + 1
      BY <1>1
    <3>4. open' \subseteq Int
      BY <3>1, <3>2
    <3> QED BY <3>1, <3>3, <3>4
  <2> QED BY <1>1, <1>3, <2>1, <2>2, SourceUnchanged DEF ScanInv, TypeOK, Pass, source
<1>10. ListInPlace'
  BY <1>1, <1>8, ScanKeepsList DEF source
<1>11. RegionsApart'
  BY <1>1, <1>3 DEF RegionsApart
<1>12. BlocksInside' /\ WalkBelowEnd'
  BY <1>1 DEF ScanInv, BlocksInside, WalkBelowEnd
<1> QED BY <1>9, <1>10, <1>11, <1>12 DEF ScanInv

LEMMA LabelDeclarationStep ==
  ASSUME LateFutures = FALSE, ScanInv, NEW nm, LabelDeclaration(nm)
  PROVE  ScanInv'
<1> DEFINE nid == LookForName(nm)
           id  == store[nlib + nid]
<1>1. /\ phase = "scan"
      /\ UNCHANGED <<rnsb, plib, phase, stopped, source, rnsd, flib, flsc, klsc, nlsc,
                    place, scopes, vlam, intro, walk>>
  BY DEF LabelDeclaration, Scanning
<1>2. \/ /\ store' = [store EXCEPT ![nlib + nid] = Id("address", 0)]
         /\ UNCHANGED <<klib, nlib, open>>
      \/ /\ id[3] \in open /\ FillFutureList(id[3], NameListEnd)
         /\ store' = WithFuture(id[3], NameListEnd) /\ open' = open \ {id[3]}
  BY DEF LabelDeclaration
<1>3. /\ nid \in -1 .. nlsc - 1 /\ nlsc \in Nat /\ nlib \in Int /\ plib \in Int
      /\ NameListEnd \in Int /\ nlib <= NameListEnd /\ nlsc = NameListEnd - nlib
      /\ NameListEnd <= plib
  <2>1. nlsc \in Nat /\ nlib \in Int /\ plib \in Int /\ nlib + nlsc <= plib
    BY <1>1, ScanNumbers DEF Lowest
  <2>2. nid \in -1 .. nlsc - 1
    BY <2>1, LookForNameInside
  <2> HIDE DEF nid
  <2> QED BY <2>1, <2>2 DEF NameListEnd
<1> HIDE DEF nid, id
<1>4. /\ klib' \in Int /\ nlib' \in Int
      /\ Bim <= rnsb' /\ rnsb' < rnsd' /\ rnsd' <= flib' /\ flib' < klib'
      /\ klib' + klsc' <= nlib' /\ NameListEnd' <= plib' /\ plib' <= Plie
      /\ Agrees(store', store, plib) /\ open' \subseteq Int
  <2>1. CASE store' = [store EXCEPT ![nlib + nid] = Id("address", 0)] /\ UNCHANGED <<klib, nlib, open>>
    <3>1. nlib + nid \in Int /\ nlib + nid < plib
      BY <1>3
    <3>2. Agrees(store', store, plib)
      BY <1>3, <2>1, <3>1, SetAgrees DEF ScanInv, TypeOK
    <3> QED BY <1>1, <2>1, <3>2, ScanNumbers DEF NameListEnd, Lowest, ScanInv, TypeOK
  <2>2. CASE /\ id[3] \in open /\ FillFutureList(id[3], NameListEnd)
             /\ store' = WithFuture(id[3], NameListEnd) /\ open' = open \ {id[3]}
    <3>1. id[3] \in Int /\ open' \subseteq Int
      BY <2>2 DEF ScanInv, TypeOK
    <3>2. FillFutureList(id[3], NameListEnd) /\ NameListEnd <= NameListEnd
          /\ phase \in {"scan", "walk"} /\ nlsc' = NameListEnd - nlib /\ nlsc' \in Nat
      BY <1>1, <1>3, <2>2
    <3>3. UNCHANGED <<rnsb, rnsd, flib, plib, klsc>>
      BY <1>1
    <3>4. Agrees(WithFuture(id[3], NameListEnd), store, plib)
      BY <1>3, <3>1, <3>2, FutureAgrees
    <3>5. /\ klib' \in Int /\ nlib' \in Int
          /\ Bim <= rnsb' /\ rnsb' < rnsd' /\ rnsd' <= flib' /\ flib' < klib'
          /\ klib' + klsc' <= nlib' /\ NameListEnd' <= plib' /\ plib' <= Plie
      BY <1>3, <3>1, <3>2, <3>3, FutureRegions
    <3> QED BY <2>2, <3>1, <3>4, <3>5
  <2> QED BY <1>2, <2>1, <2>2
<1>5. TypeOK'
  <2>1. store' = [a \in Address |-> store'[a]]
    BY <1>4 DEF Agrees
  <2> QED BY <1>1, <1>4, <2>1, SourceUnchanged DEF ScanInv, TypeOK, Pass, source
<1>6. ListInPlace'
  BY <1>1, <1>4, ScanKeepsList DEF source
<1>7. RegionsApart'
  BY <1>1, <1>4 DEF RegionsApart
<1>8. BlocksInside' /\ WalkBelowEnd'
  BY <1>1 DEF ScanInv, BlocksInside, WalkBelowEnd
<1> QED BY <1>5, <1>6, <1>7, <1>8 DEF ScanInv

(* The first name of a block stands above the link of its sublist. *)
LEMMA NextSublist ==
  ASSUME ScanInv, Sublists \in Nat \ {0}, Lowest = plib, Sublists' = Sublists - 1,
         plib' = store[plib][2], Lowest' = plib + 1, store' = store
  PROVE  plib' \in Int /\ Lowest' <= plib' /\ plib' <= Plie /\ ListInPlace'
<1>1. PICK L : Listing(L)
  BY DEF ScanInv, ListInPlace
<1>2. IsChain(L, Sublists, store, plib) /\ HoldsNames(L, Sublists, store, plib)
  BY <1>1 DEF Listing
<1>3. Sublists \in Nat /\ Sublists >= 1
  OBVIOUS
<1>4. /\ store[plib][2] \in Int /\ plib < store[plib][2] /\ store[plib][2] <= Plie
      /\ \E K : IsChain(K, Sublists - 1, store, store[plib][2])
                /\ HoldsNames(K, Sublists - 1, store, plib + 1)
  BY <1>2, <1>3, NextLink
<1>5. PICK K : IsChain(K, Sublists - 1, store, store[plib][2])
               /\ HoldsNames(K, Sublists - 1, store, plib + 1)
  BY <1>4
<1>6. Listing(K)'
  BY <1>5 DEF Listing
<1>7. plib \in Int
  BY DEF ScanInv, TypeOK
<1> QED BY <1>4, <1>6, <1>7 DEF ListInPlace

LEMMA EnterBlockStep ==
  ASSUME ScanInv, EnterBlock
  PROVE  ScanInv'
<1>1. /\ phase = "scan" /\ phase' = "intro"
      /\ toCome # << >> /\ toCome' = Tail(toCome)
      /\ open' = open \cup {flsc} /\ flsc' = flsc + 1
      /\ scopes' = Append(scopes, [names |-> nlsc, place |-> flsc])
      /\ intro' = [i |-> plib + 1, part |-> 0]
      /\ plib' = store[plib][2]
      /\ UNCHANGED <<store, rnsb, stopped, prescanVars, rnsd, flib, klib, nlib, klsc, nlsc, walk>>
  BY DEF EnterBlock, Scanning
<1>2. toCome \in Seq(Kinds) /\ Len(toCome) \in Nat \ {0} /\ toCome' \in Seq(Kinds)
      /\ Len(toCome') = Len(toCome) - 1
  BY <1>1 DEF ScanInv, TypeOK
<1>3. /\ Sublists \in Nat \ {0} /\ Sublists' = Sublists - 1
      /\ Lowest = plib /\ Lowest' = plib + 1
  BY <1>1, <1>2 DEF Sublists, Lowest
<1>4. plib' \in Int /\ Lowest' <= plib' /\ plib' <= Plie /\ ListInPlace'
  BY <1>1, <1>3, NextSublist
<1>5. nlsc \in Nat /\ flsc \in Nat /\ plib \in Int
  BY <1>1, ScanNumbers
<1>6. TypeOK'
  <2>1. scopes' \in Seq([names : Nat, place : Int])
    BY <1>1, <1>5 DEF ScanInv, TypeOK
  <2>2. open' \subseteq Int /\ flsc' \in Nat
    <3>1. open \subseteq Int
      BY DEF ScanInv, TypeOK
    <3> QED BY <1>1, <1>5, <3>1
  <2>3. intro' \in [i : Int, part : {0, 1}]
    BY <1>1, <1>5
  <2> QED BY <1>1, <1>2, <1>4, <2>1, <2>2, <2>3, SourceUnchanged DEF ScanInv, TypeOK, Pass
<1>7. RegionsApart'
  <2>1. NameListEnd' <= plib + 1
    <3>1. NameListEnd <= plib /\ NameListEnd \in Int /\ NameListEnd' = NameListEnd
      BY <1>1, ScanNumbers DEF NameListEnd, Lowest
    <3> QED BY <1>5, <3>1
  <2>2. intro'.i = plib + 1 /\ Lowest' = plib + 1
    BY <1>1, <1>3
  <2> QED BY <1>1, <1>4, <2>1, <2>2, ScanNumbers DEF RegionsApart
<1>8. BlocksInside' /\ WalkBelowEnd'
  <2>1. scopes \in Seq([names : Nat, place : Int])
    BY DEF ScanInv, TypeOK
  <2>2. DOMAIN scopes = 1 .. Len(scopes) /\ Len(scopes) \in Nat
    BY <2>1, Elements
  <2>3. /\ DOMAIN scopes' = 1 .. Len(scopes) + 1
        /\ \A i \in 1 .. Len(scopes) : scopes'[i] = scopes[i]
        /\ scopes'[Len(scopes) + 1].names = nlsc
    BY <1>1, <2>1, <2>2
  <2>4. /\ \A i \in DOMAIN scopes : scopes[i].names <= nlsc
        /\ \A i, j \in DOMAIN scopes : i <= j => scopes[i].names <= scopes[j].names
    BY DEF ScanInv, BlocksInside
  <2>5. \A i \in DOMAIN scopes' : scopes'[i].names <= nlsc
    BY <1>5, <2>2, <2>3, <2>4
  <2>6. \A i, j \in DOMAIN scopes' : i <= j => scopes'[i].names <= scopes'[j].names
    <3> SUFFICES ASSUME NEW i \in 1 .. Len(scopes) + 1, NEW j \in 1 .. Len(scopes) + 1, i <= j
                 PROVE  scopes'[i].names <= scopes'[j].names
      BY <2>3
    <3>1. CASE j = Len(scopes) + 1
      BY <2>3, <2>5, <3>1
    <3>2. CASE j # Len(scopes) + 1
      <4>1. i \in DOMAIN scopes /\ j \in DOMAIN scopes
        BY <2>2, <3>2
      <4> QED BY <2>2, <2>3, <2>4, <4>1
    <3> QED BY <3>1, <3>2
  <2> QED BY <1>1, <2>5, <2>6 DEF BlocksInside, WalkBelowEnd
<1> QED BY <1>4, <1>6, <1>7, <1>8 DEF ScanInv

LEMMA IntroSublistStep ==
  ASSUME ScanInv, IntroSublist
  PROVE  ScanInv'
<1>1. /\ phase = "intro" /\ intro.i = plib
      /\ IF intro.part = 0
         THEN /\ intro' = [i |-> plib + 1, part |-> 1]
              /\ plib' = store[plib][2] /\ UNCHANGED phase
         ELSE /\ phase' = "scan" /\ intro' = [i |-> 0, part |-> 0] /\ UNCHANGED plib
      /\ UNCHANGED <<store, rnsb, stopped, source, rnsd, lists, open, place, scopes, vlam, walk>>
  BY DEF IntroSublist
<1>2. Len(toCome) \in Nat /\ toCome' = toCome /\ plib \in Int
      /\ intro \in [i : Int, part : {0, 1}]
  BY <1>1 DEF ScanInv, TypeOK, source
<1>3. ListInPlace' /\ plib' \in Int /\ plib' <= Plie /\ Lowest' <= plib' /\ NameListEnd' <= Lowest'
      /\ intro' \in [i : Int, part : {0, 1}]
  <2>0. NameListEnd' = NameListEnd /\ NameListEnd <= plib /\ NameListEnd \in Int /\ plib <= Plie
    BY <1>1, ScanNumbers DEF NameListEnd, Lowest, lists
  <2>1. CASE intro.part = 0
    <3>1. intro' = [i |-> plib + 1, part |-> 1] /\ phase' = "intro" /\ plib' = store[plib][2]
          /\ intro'.i = plib + 1 /\ intro'.part = 1
      BY <1>1, <2>1
    <3>2. /\ Sublists \in Nat \ {0} /\ Sublists' = Sublists - 1
          /\ Lowest = plib /\ Lowest' = plib + 1
      BY <1>1, <1>2, <2>1, <3>1 DEF Sublists, Lowest
    <3>3. plib' \in Int /\ Lowest' <= plib' /\ plib' <= Plie /\ ListInPlace'
      BY <1>1, <3>1, <3>2, NextSublist
    <3> QED BY <1>2, <2>0, <3>1, <3>2, <3>3
  <2>2. CASE intro.part # 0
    <3>1. phase' = "scan" /\ intro' = [i |-> 0, part |-> 0] /\ plib' = plib /\ store' = store
      BY <1>1, <2>2
    <3>2. Sublists' = Sublists /\ Lowest = plib /\ Lowest' = plib
      BY <1>1, <1>2, <2>2, <3>1 DEF Sublists, Lowest
    <3>3. ListInPlace'
      BY <1>2, <3>1, <3>2, KeepsList DEF ScanInv
    <3> QED BY <1>2, <2>0, <3>1, <3>2, <3>3
  <2> QED BY <2>1, <2>2
<1>4. TypeOK'
  <2>1. phase' \in {"intro", "scan"}
    BY <1>1
  <2> QED BY <1>1, <1>3, <2>1, SourceUnchanged DEF ScanInv, TypeOK, Pass, source, lists
<1>5. RegionsApart'
  <2>1. phase' \in {"intro", "scan"}
    BY <1>1
  <2>2. Bim <= rnsb' /\ rnsb' < rnsd' /\ rnsd' <= flib' /\ flib' < klib' /\ klib' + klsc' <= nlib'
    BY <1>1, ScanNumbers DEF lists
  <2> QED BY <1>3, <2>1, <2>2 DEF RegionsApart, Lowest
<1>6. BlocksInside' /\ WalkBelowEnd'
  BY <1>1 DEF ScanInv, BlocksInside, WalkBelowEnd, lists
<1> QED BY <1>3, <1>4, <1>5, <1>6 DEF ScanInv

LEMMA StopStep ==
  ASSUME ScanInv, Stop
  PROVE  ScanInv'
<1> USE DEF Stop, source, scanVars, lists
<1>1. TypeOK'
  BY SourceUnchanged DEF ScanInv, TypeOK, Pass
<1>2. ListInPlace'
  BY DEF ScanInv, ListInPlace, Listing, Sublists, Lowest
<1>3. RegionsApart' /\ BlocksInside' /\ WalkBelowEnd'
  BY DEF ScanInv, RegionsApart, BlocksInside, WalkBelowEnd, NameListEnd
<1> QED BY <1>1, <1>2, <1>3 DEF ScanInv

(* A name is entered below the next name, and its second word, if it has   *)
(* one, is not the link.                                                   *)
LEMMA IntroNameStep ==
  ASSUME ScanInv, IntroName
  PROVE  ScanInv'
<1> DEFINE w == store[intro.i]
           long == IsLong(w)
           ws == (IF long THEN <<store[intro.i + 1]>> ELSE << >>) \o <<w, Id("label", 0)>>
           next == intro.i + (IF long THEN 2 ELSE 1)
<1>1. phase = "intro" /\ ~ stopped /\ intro.i # plib
  BY DEF IntroName
<1>2. CASE Stop
  BY <1>2, StopStep
<1>3. CASE /\ ~ (NameListEnd + Len(ws) > next)
           /\ store' = With(store, NameListEnd, ws)
           /\ nlsc' = nlsc + Len(ws) /\ intro' = [intro EXCEPT !.i = next]
           /\ UNCHANGED <<rnsb, plib, phase, stopped, source, rnsd, flib, klib, nlib,
                          flsc, klsc, open, place, scopes, vlam, walk>>
  <2>1. /\ intro \in [i : Int, part : {0, 1}] /\ plib \in Int /\ NameListEnd \in Int
        /\ Len(toCome) \in Nat
    BY <1>1, ScanNumbers DEF ScanInv, TypeOK, NameListEnd
  <2>2. Len(ws) \in Nat /\ next \in Int /\ intro.i < next
    BY <2>1
  <2>3. intro.i < plib /\ Bim <= intro.i /\ plib <= Plie /\ Lowest = intro.i
    <3>1. Lowest = intro.i /\ NameListEnd <= Lowest /\ Lowest <= plib /\ plib <= Plie
          /\ Bim <= NameListEnd
      BY <1>1, ScanNumbers, StoreAssumption DEF NameListEnd, Lowest
    <3> QED BY <1>1, <2>1, <3>1, StoreAssumption
  <2>4. next <= plib
    <3>1. PICK L : Listing(L)
      BY DEF ScanInv, ListInPlace
    <3>2. Sublists \in Nat
      BY <2>1 DEF Sublists
    <3>3. L[0] = plib /\ 0 \in 0 .. Sublists
      BY <3>1, <3>2 DEF Listing, IsChain
    <3>4. long => L[0] # intro.i + 1
      <4>1. intro.i \in Lowest .. Plie
        BY <2>1, <2>3, StoreAssumption
      <4> QED BY <3>1, <3>3, <4>1 DEF Listing, HoldsNames
    <3> HIDE DEF long
    <3> QED BY <2>1, <2>3, <3>3, <3>4
  <2> HIDE DEF ws, next
  <2>5. NameListEnd + Len(ws) <= next
    BY <1>3, <2>1, <2>2
  <2>6. Agrees(store', store, next)
    BY <1>3, <2>1, <2>2, <2>5, WithAgrees
  <2>7. intro'.i = next /\ intro' \in [i : Int, part : {0, 1}] /\ intro'.part = intro.part
        /\ phase' = "intro"
    BY <1>1, <1>3, <2>1, <2>2
  <2>8. TypeOK'
    <3>1. store' = [a \in Address |-> store'[a]]
      BY <2>6 DEF Agrees
    <3>2. nlsc' \in Nat
      BY <1>1, <1>3, <2>2, ScanNumbers
    <3> QED BY <1>3, <2>7, <3>1, <3>2, SourceUnchanged DEF ScanInv, TypeOK, Pass, source
  <2>9. ListInPlace'
    <3>1. Lowest' = next /\ Sublists' = Sublists
      BY <1>1, <1>3, <2>7 DEF Lowest, Sublists, source
    <3>2. \A a \in next .. Plie : a \in Address /\ store'[a] = store[a]
      BY <2>1, <2>2, <2>3, <2>6, StoreAssumption DEF Agrees, Address
    <3>3. plib' = plib
      BY <1>3
    <3>4. /\ Lowest' \in Int /\ Lowest <= Lowest' /\ Lowest' <= plib
          /\ \A a \in Lowest' .. Plie : store'[a] = store[a]
      BY <2>1, <2>2, <2>3, <2>4, <3>1, <3>2
    <3> QED BY <3>1, <3>3, <3>4, KeepsList DEF ScanInv
  <2>10. RegionsApart'
    <3>1. NameListEnd' = NameListEnd + Len(ws)
      BY <1>1, <1>3, <2>2, ScanNumbers DEF NameListEnd
    <3> QED BY <1>1, <1>3, <2>3, <2>4, <2>5, <2>7, <3>1, ScanNumbers DEF RegionsApart
  <2>11. BlocksInside' /\ WalkBelowEnd'
    <3>1. \A i \in DOMAIN scopes : scopes[i].names \in Nat
      <4>1. scopes \in Seq([names : Nat, place : Int])
        BY DEF ScanInv, TypeOK
      <4>2. \A i \in DOMAIN scopes : scopes[i] \in [names : Nat, place : Int]
        BY <4>1, Elements
      <4> QED BY <4>2
    <3>2. nlsc \in Nat
      BY DEF ScanInv, TypeOK
    <3> QED BY <1>3, <2>2, <2>7, <3>1, <3>2 DEF ScanInv, BlocksInside, WalkBelowEnd
  <2> QED BY <2>8, <2>9, <2>10, <2>11 DEF ScanInv
<1> QED
  <2>1. IF NameListEnd + Len(ws) > next
        THEN Stop
        ELSE /\ store' = With(store, NameListEnd, ws)
             /\ nlsc' = nlsc + Len(ws) /\ intro' = [intro EXCEPT !.i = next]
             /\ UNCHANGED <<rnsb, plib, phase, stopped, source, rnsd, flib, klib, nlib,
                          flsc, klsc, open, place, scopes, vlam, walk>>
    BY DEF IntroName
  <2> HIDE DEF ws, next
  <2> QED BY <1>2, <1>3, <2>1

LEMMA ExitBlockStep ==
  ASSUME LateFutures = FALSE, ScanInv, ExitBlock
  PROVE  ScanInv'
<1> DEFINE scope == scopes[Len(scopes)]
           end   == nlib + scope.names
           p     == scope.place
<1>1. /\ phase = "scan" /\ scopes # << >> /\ ~ vlam
      /\ nlsc' = scope.names /\ scopes' = SubSeq(scopes, 1, Len(scopes) - 1)
      /\ FillFutureList(p, end) /\ store' = WithFuture(p, end)
      /\ open' = open \ {p}
      /\ UNCHANGED <<rnsb, plib, phase, stopped, source, rnsd, flib, flsc, klsc, place, vlam,
                     intro, walk>>
  BY DEF ExitBlock, Scanning
<1>2. scopes \in Seq([names : Nat, place : Int])
  BY DEF ScanInv, TypeOK
<1>3. /\ DOMAIN scopes = 1 .. Len(scopes) /\ Len(scopes) \in Nat \ {0}
      /\ \A i \in DOMAIN scopes : scopes[i] \in [names : Nat, place : Int]
  <2>1. Len(scopes) # 0
    BY <1>1, <1>2
  <2>2. /\ DOMAIN scopes = 1 .. Len(scopes) /\ Len(scopes) \in Nat
        /\ \A i \in DOMAIN scopes : scopes[i] \in [names : Nat, place : Int]
    BY <1>2, Elements
  <2> QED BY <2>1, <2>2
<1>4. /\ scope.names \in Nat /\ scope.names <= nlsc /\ p \in Int
      /\ \A i \in DOMAIN scopes : scopes[i].names <= scope.names
  <2>1. Len(scopes) \in DOMAIN scopes /\ \A i \in DOMAIN scopes : i <= Len(scopes)
    BY <1>3
  <2>2. scope \in [names : Nat, place : Int]
    BY <1>3, <2>1
  <2>3. \A i \in DOMAIN scopes : scopes[i].names <= scopes[Len(scopes)].names
    BY <2>1 DEF ScanInv, BlocksInside
  <2> QED BY <2>1, <2>2, <2>3 DEF ScanInv, BlocksInside
<1> HIDE DEF scope, p
<1>5. /\ nlib \in Int /\ nlsc \in Nat /\ end \in Int /\ nlib <= end /\ end <= NameListEnd
      /\ nlsc' = end - nlib /\ nlsc' \in Nat
  <2>1. nlib \in Int /\ nlsc \in Nat
    BY <1>1, ScanNumbers
  <2>2. scope.names \in Int /\ 0 <= scope.names /\ scope.names <= nlsc
    BY <1>4
  <2>3. scope.names = end - nlib
    BY <2>1, <2>2
  <2> QED BY <1>1, <1>4, <2>1, <2>2, <2>3 DEF NameListEnd
<1> HIDE DEF end
<1>6. Agrees(store', store, plib)
  <2>1. phase \in {"scan", "walk"}
    BY <1>1
  <2>2. Agrees(WithFuture(p, end), store, plib)
    BY <1>1, <1>4, <1>5, <2>1, FutureAgrees
  <2> QED BY <1>1, <2>2
<1>7. /\ klib' \in Int /\ nlib' \in Int
      /\ Bim <= rnsb' /\ rnsb' < rnsd' /\ rnsd' <= flib' /\ flib' < klib'
      /\ klib' + klsc' <= nlib' /\ NameListEnd' <= plib' /\ plib' <= Plie
  <2>1. UNCHANGED <<rnsb, rnsd, flib, plib, klsc>> /\ phase \in {"scan", "walk"}
    BY <1>1
  <2> QED BY <1>1, <1>4, <1>5, <2>1, FutureRegions
<1>8. scopes' \in Seq([names : Nat, place : Int]) /\ DOMAIN scopes' = 1 .. Len(scopes) - 1
      /\ \A i \in 1 .. Len(scopes) - 1 : scopes'[i] = scopes[i]
  <2>1. /\ Front(scopes, Len(scopes) - 1) \in Seq([names : Nat, place : Int])
        /\ DOMAIN Front(scopes, Len(scopes) - 1) = 1 .. Len(scopes) - 1
        /\ \A i \in 1 .. Len(scopes) - 1 : Front(scopes, Len(scopes) - 1)[i] = scopes[i]
    <3>1. Len(scopes) - 1 \in Int /\ 0 <= Len(scopes) - 1 /\ Len(scopes) - 1 <= Len(scopes)
      BY <1>3
    <3> QED BY <1>2, <3>1, Fronts
  <2> QED BY <1>1, <2>1 DEF Front
<1>9. TypeOK'
  <2>1. store' = [a \in Address |-> store'[a]]
    BY <1>6 DEF Agrees
  <2>2. open' \subseteq Int
    BY <1>1 DEF ScanInv, TypeOK
  <2> QED BY <1>1, <1>5, <1>7, <1>8, <2>1, <2>2, SourceUnchanged DEF ScanInv, TypeOK, Pass, source
<1>10. ListInPlace'
  BY <1>1, <1>6, ScanKeepsList DEF source
<1>11. RegionsApart'
  BY <1>1, <1>7 DEF RegionsApart
<1>12. BlocksInside' /\ WalkBelowEnd'
  <2>1. \A i \in DOMAIN scopes' : i \in DOMAIN scopes /\ scopes'[i] = scopes[i]
    BY <1>3, <1>8
  <2> QED BY <1>1, <1>4, <2>1 DEF ScanInv, BlocksInside, WalkBelowEnd
<1> QED BY <1>9, <1>10, <1>11, <1>12 DEF ScanInv

(* The walk begins at the end of the name list and only goes down. *)
LEMMA ReservationOfArraysStep ==
  ASSUME ScanInv, ReservationOfArrays
  PROVE  ScanInv'
<1> DEFINE scope == scopes[Len(scopes)]
<1>1. /\ phase = "scan" /\ phase' = "walk" /\ vlam /\ vlam' = FALSE
      /\ walk' = [pass |-> 1, rlab |-> NameListEnd, rlaa |-> nlib + scope.names]
      /\ UNCHANGED <<store, rnsb, plib, stopped, source, rnsd, lists, open, place, scopes, intro>>
  BY DEF ReservationOfArrays, Scanning
<1>2. NameListEnd \in Int /\ NameListEnd' = NameListEnd /\ nlib \in Int
  BY <1>1, ScanNumbers DEF NameListEnd, lists
<1>3. scope.names \in Nat
  <2>1. scopes \in Seq([names : Nat, place : Int]) /\ scopes # << >>
    BY <1>1 DEF ScanInv, TypeOK, BlocksInside
  <2>2. Len(scopes) \in DOMAIN scopes /\ \A i \in DOMAIN scopes : scopes[i] \in [names : Nat, place : Int]
    <3>1. Len(scopes) # 0
      BY <2>1
    <3>2. /\ DOMAIN scopes = 1 .. Len(scopes) /\ Len(scopes) \in Nat
          /\ \A i \in DOMAIN scopes : scopes[i] \in [names : Nat, place : Int]
      BY <2>1, Elements
    <3> QED BY <3>1, <3>2
  <2>3. scope \in [names : Nat, place : Int]
    BY <2>2
  <2> QED BY <2>3
<1>4. walk' \in Pass /\ walk'.rlab = NameListEnd
  BY <1>1, <1>2, <1>3 DEF Pass
<1>5. TypeOK'
  BY <1>1, <1>4, SourceUnchanged DEF ScanInv, TypeOK, source, lists
<1>6. ListInPlace'
  <2>1. Agrees(store', store, plib)
    BY <1>1, SameAgrees DEF ScanInv
  <2> QED BY <1>1, <2>1, ScanKeepsList DEF source
<1>7. RegionsApart'
  BY <1>1, <1>2, ScanNumbers DEF RegionsApart, NameListEnd, Lowest, lists
<1>8. BlocksInside' /\ WalkBelowEnd'
  BY <1>1, <1>2, <1>4 DEF ScanInv, BlocksInside, WalkBelowEnd, lists
<1> QED BY <1>5, <1>6, <1>7, <1>8 DEF ScanInv

LEMMA WalkPassStep ==
  ASSUME ScanInv, WalkPass
  PROVE  ScanInv'
<1>1. /\ phase = "walk"
      /\ \/ walk' = [walk EXCEPT !.pass = 2, !.rlab = NameListEnd] /\ phase' = "walk"
         \/ walk' = NoWalk /\ phase' = "scan"
      /\ UNCHANGED <<store, rnsb, plib, stopped, source, rnsd, lists, open, place, scopes,
                     vlam, intro>>
  BY DEF WalkPass
<1>2. NameListEnd \in Int /\ NameListEnd' = NameListEnd
  BY <1>1, ScanNumbers DEF NameListEnd, lists
<1>3. walk' \in Pass /\ (phase' = "walk" => walk'.rlab = NameListEnd) /\ phase' \in {"scan", "walk"}
  <2>1. walk \in Pass
    BY DEF ScanInv, TypeOK
  <2>2. CASE walk' = [walk EXCEPT !.pass = 2, !.rlab = NameListEnd] /\ phase' = "walk"
    <3>1. walk' \in Pass /\ walk'.rlab = NameListEnd
      <4>1. walk = [pass |-> walk.pass, rlab |-> walk.rlab, rlaa |-> walk.rlaa]
            /\ walk.rlaa \in Int
        BY <2>1 DEF Pass
      <4>2. walk' = [pass |-> 2, rlab |-> NameListEnd, rlaa |-> walk.rlaa]
        BY <2>2, <4>1
      <4> QED BY <1>2, <4>1, <4>2 DEF Pass
    <3> QED BY <2>2, <3>1
  <2>3. CASE walk' = NoWalk /\ phase' = "scan"
    <3>1. NoWalk \in Pass
      BY DEF Pass, NoWalk
    <3> QED BY <2>3, <3>1
  <2> QED BY <1>1, <2>2, <2>3
<1>4. TypeOK'
  BY <1>1, <1>3, SourceUnchanged DEF ScanInv, TypeOK, source, lists
<1>5. ListInPlace'
  <2>1. Agrees(store', store, plib)
    BY <1>1, SameAgrees DEF ScanInv
  <2> QED BY <1>1, <1>3, <2>1, ScanKeepsList DEF source
<1>6. RegionsApart'
  BY <1>1, <1>2, <1>3, ScanNumbers DEF RegionsApart, NameListEnd, Lowest, lists
<1>7. BlocksInside' /\ WalkBelowEnd'
  BY <1>1, <1>2, <1>3 DEF ScanInv, BlocksInside, WalkBelowEnd, lists
<1> QED BY <1>4, <1>5, <1>6, <1>7 DEF ScanInv

LEMMA WalkEntryStep ==
  ASSUME ScanInv, WalkEntry
  PROVE  ScanInv'
<1>1. phase = "walk" /\ UNCHANGED <<plib, phase, stopped, source, flsc, klsc, nlsc, open, place,
                                    scopes, vlam, intro>>
  BY DEF WalkEntry
<1>2. PICK array \in MayBeArray(store[walk.rlab - 1], walk.pass), full \in BOOLEAN :
        LET st1 == IF full THEN WithStream(store) ELSE store
            st2 == IF array /\ walk.pass = 1
                   THEN [st1 EXCEPT ![walk.rlab - 1] = Id("value array", 1)] ELSE st1
        IN /\ IF full THEN StreamWord ELSE UNCHANGED <<rnsb, rnsd, flib, klib, nlib>>
           /\ store' = st2
           /\ walk' = [walk EXCEPT !.rlab = BelowEntry(st2, @)]
  BY DEF WalkEntry
<1> DEFINE st1 == IF full THEN WithStream(store) ELSE store
           st2 == IF array /\ walk.pass = 1
                  THEN [st1 EXCEPT ![walk.rlab - 1] = Id("value array", 1)] ELSE st1
<1>3. /\ IF full THEN StreamWord ELSE UNCHANGED <<rnsb, rnsd, flib, klib, nlib>>
      /\ store' = st2 /\ walk' = [walk EXCEPT !.rlab = BelowEntry(st2, @)]
  BY <1>2
<1>4. /\ walk \in Pass /\ walk.rlab \in Int /\ walk.rlab <= NameListEnd /\ NameListEnd <= plib
      /\ plib \in Int /\ NameListEnd \in Int
  <2>1. walk \in Pass
    BY DEF ScanInv, TypeOK
  <2>2. walk.rlab \in Int
    BY <2>1 DEF Pass
  <2>3. walk.rlab <= NameListEnd
    BY <1>1 DEF ScanInv, WalkBelowEnd
  <2>4. NameListEnd <= plib /\ plib \in Int /\ NameListEnd \in Int
    BY <1>1, ScanNumbers DEF NameListEnd, Lowest
  <2> QED BY <2>1, <2>2, <2>3, <2>4
<1>5. /\ rnsb' \in Int /\ rnsd' \in Int /\ flib' \in Int /\ klib' \in Int /\ nlib' \in Int
      /\ Bim <= rnsb' /\ rnsb' < rnsd' /\ rnsd' <= flib' /\ flib' < klib'
      /\ klib' + klsc' <= nlib' /\ nlib <= nlib' /\ NameListEnd' <= plib' /\ plib' <= Plie
  <2>1. CASE full
    BY <1>1, <1>3, <2>1, StreamRegions
  <2>2. CASE ~ full
    <3>1. UNCHANGED <<rnsb, rnsd, flib, klib, nlib, plib, klsc, nlsc>>
      BY <1>1, <1>3, <2>2
    <3>2. NameListEnd' = NameListEnd
      BY <3>1 DEF NameListEnd
    <3> QED BY <1>1, <1>4, <3>1, <3>2, ScanNumbers
  <2> QED BY <2>1, <2>2
<1>6. Agrees(st1, store, plib)
  <2>1. CASE full
    BY <1>1, <1>3, <2>1, StreamAgrees
  <2>2. CASE ~ full
    BY <2>2, SameAgrees DEF ScanInv
  <2> QED BY <2>1, <2>2
<1>7. Agrees(st2, st1, plib)
  <2>1. st1 = [a \in Address |-> st1[a]]
    BY <1>6 DEF Agrees
  <2> HIDE DEF st1
  <2>2. Agrees(st1, st1, plib)
    BY <2>1 DEF Agrees
  <2>3. Agrees([st1 EXCEPT ![walk.rlab - 1] = Id("value array", 1)], st1, plib)
    <3>1. walk.rlab - 1 \in Int /\ walk.rlab - 1 < plib
      BY <1>4
    <3> QED BY <1>4, <2>1, <3>1, SetAgrees
  <2> QED BY <2>2, <2>3
<1> HIDE DEF st1, st2
<1>8. Agrees(store', store, plib)
  BY <1>3, <1>4, <1>6, <1>7, AgreesTwice
<1>9. walk' \in Pass /\ walk'.rlab <= walk.rlab
  <2>1. BelowEntry(st2, walk.rlab) \in Int /\ BelowEntry(st2, walk.rlab) <= walk.rlab
    BY <1>4 DEF BelowEntry
  <2>2. walk' \in Pass /\ walk'.rlab = BelowEntry(st2, walk.rlab)
    BY <1>3, <1>4, <2>1 DEF Pass
  <2> QED BY <2>1, <2>2
<1>10. TypeOK'
  <2>1. store' = [a \in Address |-> store'[a]]
    BY <1>8 DEF Agrees
  <2> QED BY <1>1, <1>5, <1>9, <2>1, SourceUnchanged DEF ScanInv, TypeOK, source
<1>11. ListInPlace'
  BY <1>1, <1>8, ScanKeepsList DEF source
<1>12. RegionsApart'
  BY <1>1, <1>5 DEF RegionsApart
<1>13. BlocksInside' /\ WalkBelowEnd'
  <2>1. walk'.rlab <= NameListEnd'
    <3>1. {nlib, nlsc, nlib'} \subseteq Int /\ nlib <= nlib' /\ nlsc' = nlsc
      BY <1>1, <1>5, ScanNumbers
    <3>2. NameListEnd <= NameListEnd' /\ NameListEnd' \in Int
      BY <3>1 DEF NameListEnd
    <3>3. walk'.rlab \in Int
      BY <1>9 DEF Pass
    <3> QED BY <1>4, <1>9, <3>2, <3>3
  <2> QED BY <1>1, <2>1 DEF ScanInv, BlocksInside, WalkBelowEnd
<1> QED BY <1>10, <1>11, <1>12, <1>13 DEF ScanInv

-----------------------------------------------------------------------------
(***************************************************************************)
(* The prescan.  fill_prescan_list keeps the chain: what lies below the    *)
(* new words moves down, with what the links there point to.               *)
(***************************************************************************)
LEMMA LinkAddresses ==
  ASSUME NEW L, NEW m \in Nat, IsChain(L, m, store, plib)
  PROVE  \A s \in 0 .. m : LinkAddress[s] = L[s]
<1> DEFINE S == {s \in Nat : s <= m => LinkAddress[s] = L[s]}
<1>1. \A s \in Nat : LinkAddress[s] = IF s = 0 THEN plib ELSE store[LinkAddress[s - 1]][2]
  BY LinkAddressDef
<1>2. 0 \in S /\ S \in SUBSET Nat
  BY <1>1 DEF IsChain
<1>3. ASSUME NEW s \in S PROVE s + 1 \in S
  <2> SUFFICES ASSUME s + 1 <= m PROVE LinkAddress[s + 1] = L[s + 1]
    OBVIOUS
  <2>1. s \in 0 .. m - 1 /\ LinkAddress[s] = L[s] /\ s + 1 \in Nat /\ s + 1 # 0 /\ (s + 1) - 1 = s
    OBVIOUS
  <2>2. store[L[s]] = Link(L[s + 1])
    BY <2>1 DEF IsChain
  <2>3. LinkAddress[s + 1] = store[LinkAddress[s]][2]
    BY <1>1, <2>1
  <2> QED BY <2>1, <2>2, <2>3 DEF Link
<1>4. S = Nat
  <2> HIDE DEF S
  <2> QED BY <1>2, <1>3, Induction
<1> QED BY <1>4

(* F is st with the links L[0] to L[s], and what lies between, moved d     *)
(* words down to make room for the words ws.                               *)
Filled(F, L, st, p, s, ws, d) ==
  /\ F = [a \in Address |-> F[a]]
  /\ \A t \in 0 .. s - 1 : F[L[t] - d] = Link(L[t + 1] - d)
  /\ F[L[s] - d] = st[L[s]]
  /\ \A a \in p - d .. L[s] - d : F[a] = st[a + d] \/ F[a][1] = "link"
  /\ \A a \in L[s] - d + 1 .. L[s] : F[a] = ws[a - L[s] + d]
  /\ \A a \in L[s] + 1 .. Plie : F[a] = st[a]

LEMMA FillPrescanListParts ==
  ASSUME NEW L, NEW m \in Nat, NEW st, NEW p, IsChain(L, m, st, p),
         NEW at, \A t \in 0 .. m : at[t] = L[t], NEW s \in 0 .. m,
         NEW ws, NEW d \in Nat \ {0}, Len(ws) = d, p - d >= Bim
  PROVE  Filled(FillPrescanList(st, at, s, ws), L, st, p, s, ws, d)
<1> DEFINE F == FillPrescanList(st, at, s, ws)
           j == L[s]
           chain == {at[t] : t \in 0 .. s - 1}
           down(a) == IF a + Len(ws) \in chain THEN Link(st[a + Len(ws)][2] - Len(ws))
                      ELSE st[a + Len(ws)]
<1>1. /\ \A t \in 0 .. m : L[t] \in Int /\ p <= L[t] /\ L[t] <= Plie
      /\ p \in Int /\ p <= Plie
  BY ChainWithin
<1>2. at[0] = p /\ at[s] = j /\ \A t \in 0 .. s - 1 : at[t] = L[t]
  BY DEF IsChain
<1>3. F = [a \in Address |->
             CASE a \in at[0] - Len(ws) .. at[s] - Len(ws) -> down(a)
               [] a \in at[s] - Len(ws) + 1 .. at[s] -> ws[a - at[s] + Len(ws)]
               [] OTHER -> st[a]]
  BY Zenon DEF FillPrescanList
<1> HIDE DEF F, down
<1>4. j \in Int /\ p <= j /\ j <= Plie /\ p \in Int
  BY <1>1
<1>5. \A a \in p - d .. Plie : a \in Address /\ a \in Int
  BY <1>1, StoreAssumption DEF Address
<1>6. \A a \in p - d .. j - d : F[a] = IF a + d \in chain THEN Link(st[a + d][2] - d) ELSE st[a + d]
  <2> SUFFICES ASSUME NEW a \in p - d .. j - d
               PROVE  F[a] = IF a + d \in chain THEN Link(st[a + d][2] - d) ELSE st[a + d]
    OBVIOUS
  <2> HIDE DEF chain, j
  <2>1. a \in p - d .. Plie
    BY <1>4, StoreAssumption
  <2>2. F[a] = down(a)
    <3>1. a \in Address /\ a \in at[0] - Len(ws) .. at[s] - Len(ws)
          /\ a \notin at[s] - Len(ws) + 1 .. at[s]
      BY <1>2, <1>4, <1>5, <2>1
    <3> QED BY <1>3, <3>1, Zenon
  <2> QED BY <2>2, Zenon DEF down
<1>7. \A a \in j - d + 1 .. j : F[a] = ws[a - j + d]
  <2> HIDE DEF chain, j
  <2> SUFFICES ASSUME NEW a \in j - d + 1 .. j PROVE F[a] = ws[a - j + d]
    OBVIOUS
  <2>1. a \in p - d .. Plie /\ a \notin p - d .. j - d
    BY <1>4, StoreAssumption
  <2> QED BY <1>2, <1>3, <1>5, <2>1
<1>8. \A a \in j + 1 .. Plie : F[a] = st[a]
  <2> HIDE DEF chain, j
  <2> SUFFICES ASSUME NEW a \in j + 1 .. Plie PROVE F[a] = st[a]
    OBVIOUS
  <2>1. a \in p - d .. Plie /\ a \notin p - d .. j - d /\ a \notin j - d + 1 .. j
    BY <1>4, StoreAssumption
  <2> QED BY <1>2, <1>3, <1>5, <2>1
<1>9. \A t \in 0 .. s - 1 : F[L[t] - d] = Link(L[t + 1] - d)
  <2> SUFFICES ASSUME NEW t \in 0 .. s - 1 PROVE F[L[t] - d] = Link(L[t + 1] - d)
    OBVIOUS
  <2>1. at[t] \in chain /\ at[t] = L[t] /\ t \in 0 .. m /\ t \in 0 .. m - 1 /\ t < s
    OBVIOUS
  <2>2. L[t] \in Int /\ p <= L[t] /\ L[t] < j
    BY <1>1, <2>1 DEF IsChain
  <2>3. L[t] - d \in p - d .. j - d /\ (L[t] - d) + d = L[t]
    BY <1>4, <2>2
  <2>4. st[L[t]] = Link(L[t + 1])
    BY <2>1 DEF IsChain
  <2> HIDE DEF chain, j
  <2>5. F[L[t] - d] = Link(st[L[t]][2] - d)
    BY <1>6, <2>1, <2>3
  <2> QED BY <2>4, <2>5 DEF Link
<1>10. F[j - d] = st[j]
  <2>1. j \notin chain
    <3> SUFFICES ASSUME NEW t \in 0 .. s - 1, j = L[t] PROVE FALSE
      BY <1>2
    <3>1. t \in 0 .. m /\ t < s
      OBVIOUS
    <3> QED BY <1>1, <3>1 DEF IsChain
  <2>2. j - d \in p - d .. j - d /\ (j - d) + d = j
    BY <1>4
  <2> HIDE DEF chain, j
  <2> QED BY <1>6, <2>1, <2>2
<1>11. \A a \in p - d .. j - d : F[a] = st[a + d] \/ F[a][1] = "link"
  <2>1. \A x : Link(x)[1] = "link"
    BY DEF Link
  <2> HIDE DEF chain, j
  <2> QED BY <1>6, <2>1
<1>12. F = [a \in Address |-> F[a]]
  BY <1>3
<1>13. Filled(F, L, st, p, s, ws, d)
  BY <1>7, <1>8, <1>9, <1>10, <1>11, <1>12 DEF Filled
<1> QED BY <1>13 DEF F

LEMMA WordsOfName ==
  ASSUME NEW nm
  PROVE  LET ws == Words(nm)
             d  == Len(ws)
         IN /\ d \in {1, 2}
            /\ \A i \in 1 .. d : ws[i][1] \in {"inw", "fnw"} /\ (IsLong(ws[i]) => d = 2 /\ i = 1)
<1>1. \A n : IsLong(Inw(n)) => n \in Long
  BY DEF IsLong, Inw
<1>2. \A n : ~ IsLong(Fnw(n))
  BY DEF IsLong, Fnw
<1>3. \A n : Inw(n)[1] = "inw" /\ Fnw(n)[1] = "fnw"
  BY DEF Inw, Fnw
<1>4. CASE nm \in Long
  <2>1. Words(nm) = <<Inw(nm), Fnw(nm)>>
    BY <1>4 DEF Words
  <2>2. Len(Words(nm)) = 2 /\ Words(nm)[1] = Inw(nm) /\ Words(nm)[2] = Fnw(nm)
    BY <2>1
  <2>3. \A i \in 1 .. 2 : i = 1 \/ i = 2
    OBVIOUS
  <2> QED BY <1>2, <1>3, <2>2, <2>3
<1>5. CASE nm \notin Long
  <2>1. Words(nm) = <<Inw(nm)>>
    BY <1>5 DEF Words
  <2>2. Len(Words(nm)) = 1 /\ Words(nm)[1] = Inw(nm)
    BY <2>1
  <2>3. \A i \in 1 .. 1 : i = 1
    OBVIOUS
  <2> QED BY <1>1, <1>3, <1>5, <2>2, <2>3
<1> QED BY <1>4, <1>5

(* K is the chain L with the links from 0 to s moved d words down. *)
Lowered(K, L, m, s, d) ==
  K = [t \in 0 .. m |-> IF t <= s THEN L[t] - d ELSE L[t]]

LEMMA FillNames ==
  ASSUME NEW L, NEW m \in Nat, NEW st, NEW p, IsChain(L, m, st, p), HoldsNames(L, m, st, p),
         NEW at, \A t \in 0 .. m : at[t] = L[t], NEW s \in 0 .. m - 1, NEW nm,
         p - Len(Words(nm)) >= Bim
  PROVE  LET F == FillPrescanList(st, at, s, Words(nm))
             d == Len(Words(nm))
         IN /\ F = [a \in Address |-> F[a]]
            /\ \E K : Lowered(K, L, m, s, d) /\ IsChain(K, m, F, p - d) /\ HoldsNames(K, m, F, p - d)
<1> DEFINE ws == Words(nm)
           d == Len(ws)
           F == FillPrescanList(st, at, s, ws)
           K == [t \in 0 .. m |-> IF t <= s THEN L[t] - d ELSE L[t]]
<1>0. d \in Nat \ {0} /\ d \in {1, 2} /\ Len(ws) = d
      /\ \A i \in 1 .. d : ws[i][1] \in {"inw", "fnw"} /\ (IsLong(ws[i]) => d = 2 /\ i = 1)
  BY WordsOfName
<1>1. /\ F = [a \in Address |-> F[a]]
      /\ \A t \in 0 .. s - 1 : F[L[t] - d] = Link(L[t + 1] - d)
      /\ F[L[s] - d] = st[L[s]]
      /\ \A a \in p - d .. L[s] - d : F[a] = st[a + d] \/ F[a][1] = "link"
      /\ \A a \in L[s] - d + 1 .. L[s] : F[a] = ws[a - L[s] + d]
      /\ \A a \in L[s] + 1 .. Plie : F[a] = st[a]
  <2>1. s \in 0 .. m /\ p - d >= Bim
    OBVIOUS
  <2>2. Filled(F, L, st, p, s, ws, d)
    <3> HIDE DEF ws, d
    <3> QED BY <1>0, <2>1, FillPrescanListParts
  <2> HIDE DEF ws, d, F
  <2> QED BY <2>2 DEF Filled
<1> HIDE DEF ws, d, F
<1>2. /\ \A t \in 0 .. m : L[t] \in Int /\ p <= L[t] /\ L[t] <= Plie
      /\ p \in Int /\ p <= Plie
  BY ChainWithin
<1>3. /\ L[0] = p /\ L[m] = Plie /\ \A t, u \in 0 .. m : t < u => L[t] < L[u]
      /\ \A t \in 0 .. m - 1 : st[L[t]] = Link(L[t + 1])
      /\ st[Plie] = Link(Plie - 1)
  BY DEF IsChain
<1>4. \A t \in 0 .. m : /\ K[t] = IF t <= s THEN L[t] - d ELSE L[t]
                        /\ t <= s => L[t] <= L[s]
                        /\ t > s => L[s] < L[t]
  <2> SUFFICES ASSUME NEW t \in 0 .. m
               PROVE  (t <= s => L[t] <= L[s]) /\ (t > s => L[s] < L[t])
    OBVIOUS
  <2>1. s \in 0 .. m /\ (t <= s => t < s \/ t = s)
    OBVIOUS
  <2> QED BY <1>2, <1>3, <2>1
<1>5. IsChain(K, m, F, p - d)
  <2>1. K \in [0 .. m -> Int]
    BY <1>0, <1>2
  <2>2. K[0] = p - d /\ K[m] = Plie
    <3>1. 0 \in 0 .. m /\ m \in 0 .. m /\ 0 <= s /\ ~ (m <= s)
      OBVIOUS
    <3> QED BY <1>3, <3>1
  <2>3. \A t, u \in 0 .. m : t < u => K[t] < K[u]
    <3> SUFFICES ASSUME NEW t \in 0 .. m, NEW u \in 0 .. m, t < u PROVE K[t] < K[u]
      OBVIOUS
    <3>1. L[t] < L[u] /\ L[t] \in Int /\ L[u] \in Int
      BY <1>2, <1>3
    <3>2. K[t] = (IF t <= s THEN L[t] - d ELSE L[t]) /\ K[u] = IF u <= s THEN L[u] - d ELSE L[u]
      BY <1>4
    <3> HIDE DEF K
    <3> QED BY <1>0, <3>1, <3>2
  <2>4. \A t \in 0 .. m - 1 : F[K[t]] = Link(K[t + 1])
    <3> SUFFICES ASSUME NEW t \in 0 .. m - 1 PROVE F[K[t]] = Link(K[t + 1])
      OBVIOUS
    <3>1. t \in 0 .. m /\ t + 1 \in 0 .. m /\ st[L[t]] = Link(L[t + 1])
      BY <1>3
    <3>2. CASE t < s
      <4>1. t \in 0 .. s - 1 /\ t + 1 <= s /\ t <= s
        BY <3>2
      <4>2. K[t] = L[t] - d /\ K[t + 1] = L[t + 1] - d
        BY <1>4, <3>1, <4>1
      <4> QED BY <1>1, <4>1, <4>2
    <3>3. CASE t = s
      <4>1. K[t] = L[s] - d /\ K[t + 1] = L[t + 1]
        BY <1>4, <3>1, <3>3
      <4> QED BY <1>1, <3>1, <3>3, <4>1
    <3>4. CASE t > s
      <4>1. K[t] = L[t] /\ K[t + 1] = L[t + 1] /\ L[t] \in L[s] + 1 .. Plie
        <5>1. L[s] < L[t] /\ L[t] \in Int /\ L[t] <= Plie /\ L[s] \in Int
          BY <1>2, <1>4, <3>1, <3>4
        <5>2. ~ (t <= s) /\ ~ (t + 1 <= s)
          BY <3>4
        <5> QED BY <1>4, <3>1, <5>1, <5>2, StoreAssumption
      <4> QED BY <1>1, <3>1, <4>1
    <3> HIDE DEF K
    <3> QED BY <3>2, <3>3, <3>4
  <2>5. F[Plie] = Link(Plie - 1)
    <3>1. L[s] < Plie /\ L[s] \in Int
      <4>1. s \in 0 .. m /\ m \in 0 .. m /\ s < m
        OBVIOUS
      <4> QED BY <1>2, <1>3, <4>1
    <3>2. Plie \in L[s] + 1 .. Plie
      BY <3>1, StoreAssumption
    <3> QED BY <1>1, <1>3, <3>2
  <2> HIDE DEF K
  <2> QED BY <2>1, <2>2, <2>3, <2>4, <2>5 DEF IsChain
<1>6. HoldsNames(K, m, F, p - d)
  <2> SUFFICES ASSUME NEW a \in p - d .. Plie
               PROVE  /\ F[a][1] \in {"link", "inw", "fnw"}
                      /\ IsLong(F[a]) => \A t \in 0 .. m : K[t] # a + 1
    BY DEF HoldsNames
  <2>1. a \in Int /\ d \in Nat /\ L[s] \in Int /\ p <= L[s] /\ L[s] <= Plie /\ p \in Int
    BY <1>0, <1>2, StoreAssumption
  <2>2. \A b \in p .. Plie : /\ st[b][1] \in {"link", "inw", "fnw"}
                             /\ IsLong(st[b]) => \A t \in 0 .. m : L[t] # b + 1
    BY DEF HoldsNames
  <2>3. \A t \in 0 .. m : \/ t <= s /\ K[t] = L[t] - d /\ L[t] <= L[s]
                          \/ t > s /\ K[t] = L[t] /\ L[s] < L[t]
    BY <1>4
  <2> HIDE DEF K
  <2>4. CASE a \in p - d .. L[s] - d
    <3>1. a + d \in p .. Plie
      BY <2>1, <2>4, StoreAssumption
    <3>2. CASE F[a] = st[a + d]
      <4>1. ASSUME IsLong(st[a + d]), NEW t \in 0 .. m PROVE K[t] # a + 1
        <5>1. L[t] # (a + d) + 1 /\ L[t] \in Int
          BY <1>2, <2>2, <3>1, <4>1
        <5>2. a + d <= L[s]
          BY <2>1, <2>4
        <5>3. CASE t <= s /\ K[t] = L[t] - d /\ L[t] <= L[s]
          <6>1. \A x \in Int : x # (a + d) + 1 => x - d # a + 1
            BY <2>1
          <6>2. K[t] = L[t] - d /\ L[t] \in Int /\ L[t] # (a + d) + 1
            BY <5>1, <5>3
          <6> QED BY <6>1, <6>2
        <5>4. CASE t > s /\ K[t] = L[t] /\ L[s] < L[t]
          <6>1. a + 1 <= L[s]
            BY <1>0, <2>1, <5>2
          <6> QED BY <2>1, <5>1, <5>4, <6>1
        <5> QED BY <2>3, <5>3, <5>4
      <4> QED BY <2>2, <3>1, <3>2, <4>1
    <3>3. CASE F[a][1] = "link"
      BY <3>3 DEF IsLong
    <3> QED BY <1>1, <2>4, <3>2, <3>3
  <2>5. CASE a \in L[s] - d + 1 .. L[s]
    <3> DEFINE i == a - L[s] + d
    <3>1. i \in 1 .. d /\ F[a] = ws[i]
      <4>1. i \in 1 .. d
        BY <2>1, <2>5
      <4>2. F[a] = ws[a - L[s] + d]
        BY <1>1, <2>5
      <4> QED BY <4>1, <4>2
    <3>2. ASSUME IsLong(ws[i]), NEW t \in 0 .. m PROVE K[t] # a + 1
      <4>1. d = 2 /\ i = 1
        <5> HIDE DEF i
        <5> QED BY <1>0, <3>1, <3>2
      <4>2. a + 1 = L[s]
        BY <2>1, <4>1
      <4>3. L[t] \in Int
        BY <1>2
      <4>4. CASE t <= s /\ K[t] = L[t] - d /\ L[t] <= L[s]
        BY <2>1, <4>1, <4>2, <4>3, <4>4
      <4>5. CASE t > s /\ K[t] = L[t] /\ L[s] < L[t]
        BY <2>1, <4>2, <4>3, <4>5
      <4> QED BY <2>3, <4>4, <4>5
    <3> HIDE DEF i
    <3> QED BY <1>0, <3>1, <3>2
  <2>6. CASE a \in L[s] + 1 .. Plie
    <3>1. F[a] = st[a] /\ a \in p .. Plie
      <4>1. F[a] = st[a]
        BY <1>1, <2>6
      <4>2. a \in p .. Plie
        BY <2>1, <2>6, StoreAssumption
      <4> QED BY <4>1, <4>2
    <3>2. ASSUME IsLong(st[a]), NEW t \in 0 .. m PROVE K[t] # a + 1
      <4>1. L[t] # a + 1 /\ L[t] \in Int
        BY <1>2, <2>2, <3>1, <3>2
      <4> QED BY <1>0, <2>1, <2>3, <2>6, <4>1
    <3> QED BY <2>2, <3>1, <3>2
  <2>7. a \in p - d .. L[s] - d \/ a \in L[s] - d + 1 .. L[s] \/ a \in L[s] + 1 .. Plie
    BY <2>1, StoreAssumption
  <2> QED BY <2>4, <2>5, <2>6, <2>7
<1>7. Lowered(K, L, m, s, d)
  BY DEF Lowered
<1> HIDE DEF K
<1> QED BY <1>1, <1>5, <1>6, <1>7 DEF F, d, ws

LEMMA FillLinks ==
  ASSUME NEW L, NEW m \in Nat, NEW st, NEW p, IsChain(L, m, st, p), HoldsNames(L, m, st, p),
         NEW at, \A t \in 0 .. m : at[t] = L[t], p - 2 >= Bim
  PROVE  LET F == FillPrescanList(st, at, m, NewLinks)
         IN /\ F = [a \in Address |-> F[a]]
            /\ \E K : IsChain(K, m + 2, F, p - 2) /\ HoldsNames(K, m + 2, F, p - 2)
<1> DEFINE ws == NewLinks
           F == FillPrescanList(st, at, m, ws)
           K == [t \in 0 .. m + 2 |-> IF t <= m THEN L[t] - 2 ELSE Plie - (m + 2 - t)]
<1>0. Len(ws) = 2 /\ ws[1] = Link(Plie) /\ ws[2] = Link(Plie - 1)
  BY DEF NewLinks
<1>1. /\ F = [a \in Address |-> F[a]]
      /\ \A t \in 0 .. m - 1 : F[L[t] - 2] = Link(L[t + 1] - 2)
      /\ F[L[m] - 2] = st[L[m]]
      /\ \A a \in p - 2 .. L[m] - 2 : F[a] = st[a + 2] \/ F[a][1] = "link"
      /\ \A a \in L[m] - 2 + 1 .. L[m] : F[a] = ws[a - L[m] + 2]
  <2>1. m \in 0 .. m /\ p - 2 >= Bim /\ 2 \in Nat \ {0}
    OBVIOUS
  <2>2. Filled(F, L, st, p, m, ws, 2)
    <3> HIDE DEF ws
    <3> QED BY <1>0, <2>1, FillPrescanListParts
  <2> HIDE DEF ws, F
  <2> QED BY <2>2 DEF Filled
<1> HIDE DEF ws, F
<1>2. /\ \A t \in 0 .. m : L[t] \in Int /\ p <= L[t] /\ L[t] <= Plie
      /\ p \in Int /\ p <= Plie
  BY ChainWithin
<1>3. /\ L[0] = p /\ L[m] = Plie /\ \A t, u \in 0 .. m : t < u => L[t] < L[u]
      /\ \A t \in 0 .. m - 1 : st[L[t]] = Link(L[t + 1])
      /\ st[Plie] = Link(Plie - 1)
  BY DEF IsChain
<1>4. /\ \A t \in 0 .. m : t \in 0 .. m + 2 /\ K[t] = L[t] - 2
      /\ m + 1 \in 0 .. m + 2 /\ K[m + 1] = Plie - 1
      /\ m + 2 \in 0 .. m + 2 /\ K[m + 2] = Plie
  <2>1. \A t \in 0 .. m : t \in 0 .. m + 2 /\ t <= m
    OBVIOUS
  <2>2. m + 1 \in 0 .. m + 2 /\ ~ (m + 1 <= m) /\ Plie - (m + 2 - (m + 1)) = Plie - 1
    BY StoreAssumption
  <2>3. m + 2 \in 0 .. m + 2 /\ ~ (m + 2 <= m) /\ Plie - (m + 2 - (m + 2)) = Plie
    BY StoreAssumption
  <2> QED BY <2>1, <2>2, <2>3
<1>5. F[Plie - 1] = Link(Plie) /\ F[Plie] = Link(Plie - 1) /\ F[Plie - 2] = Link(Plie - 1)
  <2>1. /\ Plie - 1 \in L[m] - 2 + 1 .. L[m] /\ (Plie - 1) - L[m] + 2 = 1
        /\ Plie \in L[m] - 2 + 1 .. L[m] /\ Plie - L[m] + 2 = 2
        /\ L[m] - 2 = Plie - 2
    BY <1>3, StoreAssumption
  <2> QED BY <1>0, <1>1, <1>3, <2>1
<1>6. \A t \in 0 .. m + 2 : t \in 0 .. m \/ t = m + 1 \/ t = m + 2
  OBVIOUS
<1>7. IsChain(K, m + 2, F, p - 2)
  <2>1. K \in [0 .. m + 2 -> Int]
    BY <1>2, StoreAssumption
  <2>2. K[0] = p - 2
    BY <1>3, <1>4
  <2> HIDE DEF K
  <2>3. \A t, u \in 0 .. m + 2 : t < u => K[t] < K[u]
    <3> SUFFICES ASSUME NEW t \in 0 .. m + 2, NEW u \in 0 .. m + 2, t < u PROVE K[t] < K[u]
      OBVIOUS
    <3>1. CASE t \in 0 .. m /\ u \in 0 .. m
      <4>1. L[t] < L[u] /\ L[t] \in Int /\ L[u] \in Int
        BY <1>2, <1>3, <3>1
      <4> QED BY <1>4, <3>1, <4>1
    <3>2. CASE t \in 0 .. m /\ u \notin 0 .. m
      <4>1. K[t] <= Plie - 2 /\ K[t] \in Int
        BY <1>2, <1>4, <3>2, StoreAssumption
      <4>2. K[u] = Plie - 1 \/ K[u] = Plie
        BY <1>4, <1>6, <3>2
      <4> QED BY <4>1, <4>2, StoreAssumption
    <3>3. CASE t \notin 0 .. m
      <4>1. t = m + 1 /\ u = m + 2
        BY <1>6, <3>3
      <4> QED BY <1>4, <4>1, StoreAssumption
    <3> QED BY <3>1, <3>2, <3>3
  <2>4. \A t \in 0 .. (m + 2) - 1 : F[K[t]] = Link(K[t + 1])
    <3> SUFFICES ASSUME NEW t \in 0 .. (m + 2) - 1 PROVE F[K[t]] = Link(K[t + 1])
      OBVIOUS
    <3>1. CASE t < m
      <4>1. t \in 0 .. m - 1 /\ t \in 0 .. m /\ t + 1 \in 0 .. m
        BY <3>1
      <4> QED BY <1>1, <1>4, <4>1
    <3>2. CASE t = m
      <4>1. K[t] = Plie - 2 /\ K[t + 1] = Plie - 1
        BY <1>3, <1>4, <3>2
      <4> QED BY <1>5, <4>1
    <3>3. CASE t = m + 1
      <4>1. K[t] = Plie - 1 /\ K[t + 1] = Plie
        <5>1. t + 1 = m + 2
          BY <3>3
        <5> QED BY <1>4, <3>3, <5>1
      <4> QED BY <1>5, <4>1
    <3>4. t < m \/ t = m \/ t = m + 1
      OBVIOUS
    <3> QED BY <3>1, <3>2, <3>3, <3>4
  <2> QED BY <1>4, <1>5, <2>1, <2>2, <2>3, <2>4 DEF IsChain
<1>8. HoldsNames(K, m + 2, F, p - 2)
  <2> SUFFICES ASSUME NEW a \in p - 2 .. Plie
               PROVE  /\ F[a][1] \in {"link", "inw", "fnw"}
                      /\ IsLong(F[a]) => \A t \in 0 .. m + 2 : K[t] # a + 1
    BY DEF HoldsNames
  <2>1. a \in Int /\ p <= Plie /\ p \in Int
    BY <1>2, StoreAssumption
  <2>2. \A b \in p .. Plie : /\ st[b][1] \in {"link", "inw", "fnw"}
                             /\ IsLong(st[b]) => \A t \in 0 .. m : L[t] # b + 1
    BY DEF HoldsNames
  <2> HIDE DEF K
  <2>3. \A x : Link(x)[1] = "link"
    BY DEF Link
  <2>4. \A w : w[1] = "link" => ~ IsLong(w)
    BY DEF IsLong
  <2>5. CASE a \in p - 2 .. Plie - 2
    <3>1. a + 2 \in p .. Plie
      BY <2>1, <2>5, StoreAssumption
    <3>2. CASE F[a] = st[a + 2]
      <4>1. ASSUME IsLong(st[a + 2]), NEW t \in 0 .. m + 2 PROVE K[t] # a + 1
        <5>1. CASE t \in 0 .. m
          <6>1. L[t] # (a + 2) + 1 /\ L[t] \in Int
            BY <1>2, <2>2, <3>1, <4>1, <5>1
          <6> QED BY <1>4, <2>1, <5>1, <6>1
        <5>2. CASE t \notin 0 .. m
          <6>1. K[t] = Plie - 1 \/ K[t] = Plie
            BY <1>4, <1>6, <5>2
          <6>2. a # Plie - 2
            <7>1. Plie \in p .. Plie /\ ~ IsLong(st[Plie])
              BY <1>2, <1>3, <2>3, <2>4, StoreAssumption
            <7>2. a = Plie - 2 => a + 2 = Plie
              BY StoreAssumption
            <7> QED BY <4>1, <7>1, <7>2
          <6> QED BY <2>1, <2>5, <6>1, <6>2, StoreAssumption
        <5> QED BY <5>1, <5>2
      <4> QED BY <2>2, <3>1, <3>2, <4>1
    <3>3. CASE F[a][1] = "link"
      BY <2>4, <3>3
    <3> QED BY <1>1, <1>3, <2>5, <3>2, <3>3
  <2>6. CASE a = Plie - 1 \/ a = Plie
    BY <1>5, <2>3, <2>4, <2>6
  <2>7. a \in p - 2 .. Plie - 2 \/ a = Plie - 1 \/ a = Plie
    BY <2>1, StoreAssumption
  <2> QED BY <2>5, <2>6, <2>7
<1> HIDE DEF K
<1> QED BY <1>1, <1>7, <1>8 DEF F, ws

(* The reader looks at the room there is only when it needs a new word;    *)
(* before it does, one declaration at most is entered.                     *)
LEMMA WordsRead ==
  ASSUME NEW r \in 1 .. 3, NEW n \in 1 .. 7
  PROVE  LET w == (r + n - 1) \div 3
         IN /\ w \in 0 .. 3 /\ (w = 0 <=> r + n <= 3)
            /\ ((r + n - 1) % 3) + 1 \in 1 .. 3
            /\ r + n <= 3 => ((r + n - 1) % 3) + 1 = r + n
<1> DEFINE x == r + n - 1
<1>1. x \in 1 .. 9
  OBVIOUS
<1>2. x \div 3 \in 0 .. 3 /\ (x \div 3 = 0 <=> x <= 2) /\ x % 3 \in 0 .. 2 /\ (x <= 2 => x % 3 = x)
  <2> HIDE DEF x
  <2> QED BY <1>1
<1> QED BY <1>2

LEMMA Allowance ==
  ASSUME NEW x \in Int, NEW y \in Int, NEW d \in Int, NEW s \in Int
  PROVE  \A v, u \in Int : x + s - v <= y /\ v + d <= u => x + s - u <= y - d
OBVIOUS

LEMMA ReadRoom ==
  ASSUME TypeOK, PrescanRoom, Prescanning, NEW n \in 1 .. 7, Reads(n), rnsb' = LastWord(n),
         NEW D \in 0 .. 4, plib' = plib - D, n <= 2 => D <= 2,
         n = 1 => D = 0 \/ (closed = "nothing" /\ closed' = "for")
  PROVE  /\ rnsb' \in Int /\ plib' \in Int /\ rnsa' \in 1 .. 3
         /\ Bim <= rnsb' /\ rnsb <= rnsb' /\ rnsb' < plib'
         /\ rnsb' + Slack - Unchecked' <= plib'
<1> DEFINE w == (rnsa + n - 1) \div 3
<1>1. /\ rnsa \in 1 .. 3 /\ rnsb \in Int /\ plib \in Int /\ Bim <= rnsb
      /\ rnsb + Slack - Unchecked <= plib
  <2>1. /\ rnsa \in 1 .. 3 /\ rnsb \in Int /\ plib \in Int /\ Bim + Room <= rnsb
        /\ rnsb + Slack - Unchecked <= plib
    BY DEF TypeOK, SourceTypeOK, PrescanRoom, Prescanning
  <2> QED BY <2>1, StoreAssumption
<1>2. /\ w \in 0 .. 3 /\ (w = 0 <=> rnsa + n <= 3)
      /\ rnsa' \in 1 .. 3 /\ (rnsa + n <= 3 => rnsa' = rnsa + n)
  <2>1. rnsa' = ((rnsa + n - 1) % 3) + 1
    BY DEF Reads
  <2> QED BY <1>1, <2>1, WordsRead
<1>3. rnsb' = rnsb + w /\ (w = 0 \/ rnsb + w + Slack <= plib)
  <2>1. LastWord(n) = rnsb + w
    BY DEF LastWord
  <2> HIDE DEF w
  <2>2. ~ (rnsb + w > rnsb /\ rnsb + w + Slack > plib)
    BY <2>1 DEF Reads, OutOfStore
  <2> QED BY <1>1, <1>2, <2>1, <2>2, StoreAssumption
<1> HIDE DEF w
<1>4. Slack \in Nat /\ Slack > 6 /\ Bim \in Nat /\ D \in Nat /\ D <= 4
  BY StoreAssumption
<1>5. rnsb' \in Int /\ plib' \in Int /\ Bim <= rnsb' /\ rnsb <= rnsb'
  BY <1>1, <1>2, <1>3, <1>4
<1>6. Unchecked \in {4, 6} /\ Unchecked' \in {4, 6}
  BY DEF Unchecked
<1>7. rnsb' + Slack - Unchecked' <= plib'
  <2>1. CASE w # 0
    <3>1. rnsb' + Slack <= plib
      BY <1>3, <2>1
    <3> QED BY <1>1, <1>4, <1>5, <1>6, <3>1
  <2>2. CASE w = 0
    <3>1. rnsb' = rnsb /\ rnsa + n <= 3 /\ rnsa' = rnsa + n /\ n \in {1, 2} /\ rnsa \in {1, 2}
      BY <1>1, <1>2, <1>3, <2>2
    <3>2. Unchecked + D <= Unchecked'
      <4>1. CASE n = 2
        <5>1. rnsa = 1 /\ rnsa' = 3 /\ D <= 2
          BY <3>1, <4>1
        <5> QED BY <1>4, <5>1 DEF Unchecked
      <4>2. CASE n = 1 /\ D = 0
        BY <3>1, <4>2 DEF Unchecked
      <4>3. CASE n = 1 /\ D # 0
        <5>1. closed = "nothing" /\ closed' = "for" /\ D <= 2
          BY <4>3
        <5> QED BY <1>4, <3>1, <4>3, <5>1 DEF Unchecked
      <4> QED BY <3>1, <4>1, <4>2, <4>3
    <3>3. \A v, u \in Int : rnsb + Slack - v <= plib /\ v + D <= u => rnsb + Slack - u <= plib - D
      BY <1>1, <1>4, Allowance
    <3>4. Unchecked \in Int /\ Unchecked' \in Int
      BY <1>6
    <3>5. rnsb + Slack - Unchecked' <= plib - D
      BY <1>1, <3>2, <3>3, <3>4, Zenon
    <3> QED BY <3>1, <3>5, Zenon
  <2> QED BY <2>1, <2>2
<1>8. rnsb' < plib'
  BY <1>4, <1>5, <1>6, <1>7
<1> QED BY <1>2, <1>5, <1>7, <1>8

StoreInv == ScanInv /\ PrescanRoom

LEMMA PrescanKeeps ==
  ASSUME StoreInv, Prescanning, UNCHANGED <<phase, stopped, scanVars>>,
         SourceTypeOK', tlist' # << >>, tlist'[1] = Open,
         toCome' \in Seq(Kinds), mbc' = Len(toCome'),
         store' = [a \in Address |-> store'[a]], rnsb' \in Int, plib' \in Int,
         rnsb <= rnsb', rnsb' < plib', rnsb' + Slack - Unchecked' <= plib', ListInPlace'
  PROVE  StoreInv'
<1> USE DEF StoreInv, scanVars, lists, Prescanning
<1>1. TypeOK'
  BY DEF ScanInv, TypeOK, Pass
<1>2. RegionsApart'
  BY DEF RegionsApart
<1>3. BlocksInside' /\ WalkBelowEnd'
  BY DEF ScanInv, BlocksInside, WalkBelowEnd
<1>4. PrescanRoom'
  <2>1. Bim + Room <= rnsb /\ {Bim + Room, rnsb, rnsb'} \subseteq Int
    BY StoreAssumption DEF PrescanRoom, ScanInv, TypeOK
  <2>2. Bim + Room <= rnsb'
    BY <2>1
  <2> QED BY <2>2 DEF PrescanRoom
<1> QED BY <1>1, <1>2, <1>3, <1>4 DEF ScanInv

LEMMA TextAgrees ==
  ASSUME TypeOK, NEW n, NEW b \in Int, LastWord(n) \in Int, LastWord(n) < b
  PROVE  Agrees(WithText(n), store, b)
<1>1. \A a \in Address : a \in Int
  BY StoreAssumption DEF Address
<1>2. store = [a \in Address |-> store[a]]
  BY DEF TypeOK
<1> QED BY <1>1, <1>2 DEF Agrees, WithText

(* The prescan list before the words of a symbol are entered in it. *)
LEMMA ListBefore ==
  ASSUME StoreInv, Prescanning, NEW n, LastWord(n) \in Int, LastWord(n) < plib
  PROVE  /\ WithText(n) = [a \in Address |-> WithText(n)[a]]
         /\ Sublists = 2 * mbc + 2 /\ Sublists \in Nat
         /\ \E L : /\ IsChain(L, Sublists, WithText(n), plib)
                   /\ HoldsNames(L, Sublists, WithText(n), plib)
                   /\ \A t \in 0 .. Sublists : LinkAddress[t] = L[t]
<1>1. TypeOK /\ phase = "prescan" /\ plib \in Int /\ mbc = Len(toCome) /\ mbc \in Nat
      /\ Bim <= plib
  <2>1. TypeOK /\ phase = "prescan" /\ plib \in Int /\ mbc = Len(toCome) /\ mbc \in Nat
        /\ rnsb \in Int /\ Bim + Room <= rnsb /\ rnsb < plib
    BY DEF StoreInv, ScanInv, TypeOK, SourceTypeOK, PrescanRoom, Prescanning
  <2> QED BY <2>1, StoreAssumption
<1>2. Agrees(WithText(n), store, plib)
  BY <1>1, TextAgrees
<1>3. Sublists = 2 * mbc + 2 /\ Sublists \in Nat /\ Lowest = plib
  BY <1>1 DEF Sublists, Lowest
<1>4. PICK L : IsChain(L, Sublists, store, plib) /\ HoldsNames(L, Sublists, store, plib)
  <2>1. \E L : Listing(L)
    BY DEF StoreInv, ScanInv, ListInPlace
  <2> QED BY <1>3, <2>1 DEF Listing
<1>5. \A a \in plib .. Plie : WithText(n)[a] = store[a]
  BY <1>1, <1>2, StoreAssumption DEF Agrees, Address
<1>6. IsChain(L, Sublists, WithText(n), plib) /\ HoldsNames(L, Sublists, WithText(n), plib)
  <2>1. plib \in Int /\ plib <= plib
    BY <1>1
  <2> QED BY <1>3, <1>4, <1>5, <2>1, Undisturbed
<1>7. \A t \in 0 .. Sublists : LinkAddress[t] = L[t]
  BY <1>3, <1>4, LinkAddresses
<1> QED BY <1>2, <1>3, <1>6, <1>7 DEF Agrees

(* A symbol that declares nothing. *)
LEMMA PlainSymbol ==
  ASSUME StoreInv, Prescanning, Reads(1), rnsb' = LastWord(1), store' = WithText(1),
         UNCHANGED <<plib, mbc, toCome, phase, stopped, scanVars>>, bc' \in 0 .. mbc,
         tlist' \in Seq(Tokens(mbc)), tlist' # << >>, tlist'[1] = Open
  PROVE  StoreInv'
<1>1. /\ rnsb' \in Int /\ plib' \in Int /\ rnsa' \in 1 .. 3
      /\ Bim <= rnsb' /\ rnsb <= rnsb' /\ rnsb' < plib'
      /\ rnsb' + Slack - Unchecked' <= plib'
  <2>1. plib' = plib - 0 /\ 0 \in 0 .. 4 /\ 1 \in 1 .. 7 /\ 0 <= 2
    BY DEF StoreInv, ScanInv, TypeOK
  <2> QED BY <2>1, ReadRoom DEF StoreInv, ScanInv
<1>2. LastWord(1) \in Int /\ LastWord(1) < plib
  BY <1>1
<1>3. /\ WithText(1) = [a \in Address |-> WithText(1)[a]]
      /\ \E L : IsChain(L, Sublists, WithText(1), plib) /\ HoldsNames(L, Sublists, WithText(1), plib)
  BY <1>2, ListBefore
<1>4. ListInPlace'
  <2>1. Sublists' = Sublists /\ Lowest' = plib
    BY DEF Sublists, Lowest, Prescanning
  <2>2. PICK L : IsChain(L, Sublists, WithText(1), plib) /\ HoldsNames(L, Sublists, WithText(1), plib)
    BY <1>3
  <2>3. Listing(L)'
    BY <2>1, <2>2 DEF Listing
  <2> QED BY <2>3 DEF ListInPlace
<1>5. SourceTypeOK' /\ toCome' \in Seq(Kinds) /\ mbc' = Len(toCome')
  BY <1>1 DEF StoreInv, ScanInv, TypeOK, SourceTypeOK, PrescanRoom, Prescanning
<1> QED BY <1>1, <1>3, <1>4, <1>5, PrescanKeeps

LEMMA Greatest ==
  ASSUME NEW n \in Nat, NEW S \in SUBSET (1 .. n), S # {}
  PROVE  Max(S) \in S /\ \A k \in S : k <= Max(S)
<1> DEFINE R == {n - k : k \in S}
<1>0. \A k \in S : k \in 1 .. n /\ k \in Int /\ n - k \in Nat
  <2> SUFFICES ASSUME NEW k \in S PROVE k \in 1 .. n /\ k \in Int /\ n - k \in Nat
    OBVIOUS
  <2>1. k \in 1 .. n
    OBVIOUS
  <2> QED BY <2>1
<1>1. R \in SUBSET Nat /\ R # {}
  <2>1. \A k \in S : n - k \in Nat
    BY <1>0
  <2>2. PICK k \in S : TRUE
    OBVIOUS
  <2>3. n - k \in R
    BY <2>2
  <2> QED BY <2>1, <2>3
<1>2. PICK r \in R : \A k \in R : r <= k
  <2> HIDE DEF R
  <2> QED BY <1>1, Least
<1>3. PICK x \in S : r = n - x
  OBVIOUS
<1>4. \A k \in S : k <= x
  <2> SUFFICES ASSUME NEW k \in S PROVE k <= x
    OBVIOUS
  <2>1. n - k \in R /\ k \in Int /\ x \in Int
    <3>1. n - k \in R
      OBVIOUS
    <3> QED BY <1>0, <3>1
  <2>2. r <= n - k
    BY <1>2, <2>1
  <2> QED BY <1>3, <2>1, <2>2
<1>5. \A y \in S : y \in Int
  OBVIOUS
<1>6. \E y \in S : \A k \in S : y >= k
  BY <1>4, <1>5
<1> DEFINE P(y) == y \in S /\ \A k \in S : y >= k
<1>7. P(CHOOSE y : P(y))
  <2>1. \E y : P(y)
    BY <1>6
  <2> HIDE DEF P
  <2> QED BY <2>1
<1>8. Max(S) = CHOOSE y \in S : \A k \in S : y >= k
  BY Zenon DEF Max
<1>9. Max(S) \in S /\ \A k \in S : Max(S) >= k
  BY <1>6, <1>8, Zenon
<1> QED BY <1>5, <1>9

(* The last begin on the T-list, and the number the markers above it give. *)
LEMMA LastBeginFound ==
  ASSUME NEW T, tlist \in Seq(T), tlist # << >>, tlist[1] = Open
  PROVE  /\ LastBegin \in 1 .. Len(tlist) /\ tlist[LastBegin] = Open
         /\ \A i \in LastBegin + 1 .. Len(tlist) : tlist[i] # Open
<1> DEFINE S == {i \in DOMAIN tlist : tlist[i] = Open}
<1>1. Len(tlist) \in Nat \ {0} /\ DOMAIN tlist = 1 .. Len(tlist)
  <2>1. Len(tlist) # 0
    OBVIOUS
  <2> QED BY <2>1, Elements
<1>2. S \in SUBSET (1 .. Len(tlist)) /\ S # {}
  BY <1>1
<1>3. Max(S) \in S /\ \A k \in S : k <= Max(S)
  <2> HIDE DEF S
  <2> QED BY <1>1, <1>2, Greatest
<1>4. LastBegin = Max(S)
  BY Zenon DEF LastBegin
<1>5. LastBegin \in S /\ \A k \in S : k <= LastBegin
  <2> HIDE DEF S
  <2> QED BY <1>3, <1>4
<1>6. LastBegin \in 1 .. Len(tlist) /\ tlist[LastBegin] = Open
  BY <1>1, <1>5
<1>7. \A i \in LastBegin + 1 .. Len(tlist) : tlist[i] # Open
  <2> SUFFICES ASSUME NEW i \in LastBegin + 1 .. Len(tlist), tlist[i] = Open PROVE FALSE
    OBVIOUS
  <2>1. LastBegin \in Int /\ 1 <= LastBegin /\ i \in Int
    BY <1>1, <1>6
  <2>2. i \in 1 .. Len(tlist) /\ ~ (i <= LastBegin)
    BY <1>1, <2>1
  <2>3. i \in S
    BY <1>1, <2>2
  <2> HIDE DEF S
  <2> QED BY <1>5, <2>2, <2>3
<1> QED BY <1>6, <1>7

LEMMA LastBeginIs ==
  ASSUME mbc \in Nat, bc \in 0 .. mbc, tlist \in Seq(Tokens(mbc)), tlist # << >>, tlist[1] = Open
  PROVE  LastBegin \in 1 .. Len(tlist) /\ OuterBlock \in 0 .. mbc
<1>1. Len(tlist) \in Nat /\ \A i \in 1 .. Len(tlist) : tlist[i] \in Tokens(mbc)
  BY Elements
<1>2. /\ LastBegin \in 1 .. Len(tlist)
      /\ \A i \in LastBegin + 1 .. Len(tlist) : tlist[i] # Open
  BY LastBeginFound
<1>3. CASE LastBegin = Len(tlist)
  BY <1>2, <1>3 DEF OuterBlock
<1>4. CASE LastBegin # Len(tlist)
  <2>1. LastBegin + 1 \in 1 .. Len(tlist) /\ LastBegin + 1 \in LastBegin + 1 .. Len(tlist)
    <3>1. \A x, y \in Int : 1 <= x /\ x <= y /\ x # y
                               => x + 1 \in 1 .. y /\ x + 1 \in x + 1 .. y
      OBVIOUS
    <3>2. {LastBegin, Len(tlist)} \subseteq Int /\ 1 <= LastBegin /\ LastBegin <= Len(tlist)
      BY <1>1, <1>2
    <3> QED BY <1>4, <3>1, <3>2, Zenon
  <2>2. tlist[LastBegin + 1] \in Tokens(mbc) /\ tlist[LastBegin + 1] # Open
    BY <1>1, <1>2, <2>1
  <2>3. PICK b \in 0 .. mbc : tlist[LastBegin + 1] = Marker(b)
    BY <2>2 DEF Tokens
  <2> QED BY <1>2, <1>4, <2>3 DEF OuterBlock, Marker
<1> QED BY <1>3, <1>4

LEMMA PrescanTypes ==
  ASSUME StoreInv, Prescanning
  PROVE  /\ TypeOK /\ phase = "prescan" /\ mbc \in Nat /\ bc \in 0 .. mbc /\ mbc = Len(toCome)
         /\ tlist \in Seq(Tokens(mbc)) /\ tlist # << >> /\ tlist[1] = Open
         /\ toCome \in Seq(Kinds) /\ rnsb \in Int /\ plib \in Int
BY DEF StoreInv, ScanInv, TypeOK, SourceTypeOK, PrescanRoom, Prescanning

LEMMA SymbolStep ==
  ASSUME StoreInv, Prescanning, Symbol, UNCHANGED scanVars
  PROVE  StoreInv'
BY PlainSymbol, PrescanTypes DEF Symbol, Read

LEMMA ElseStep ==
  ASSUME StoreInv, Prescanning, Else, UNCHANGED scanVars
  PROVE  StoreInv'
BY PlainSymbol, PrescanTypes DEF Else, Read

LEMMA BeginStep ==
  ASSUME StoreInv, Prescanning, Begin, UNCHANGED scanVars
  PROVE  StoreInv'
<1>1. /\ Reads(1) /\ rnsb' = LastWord(1) /\ store' = WithText(1)
      /\ tlist' = Append(tlist, Open)
      /\ UNCHANGED <<plib, bc, mbc, toCome, phase, stopped>>
  BY DEF Begin, Read, InStatement
<1>2. Open \in Tokens(mbc)
  BY DEF Tokens
<1>3. tlist' \in Seq(Tokens(mbc)) /\ tlist' # << >> /\ tlist'[1] = Open
  <2>1. Len(tlist) # 0 /\ Len(tlist) \in Nat
    BY PrescanTypes
  <2> QED BY <1>1, <1>2, <2>1, PrescanTypes
<1> QED BY <1>1, <1>3, PlainSymbol, PrescanTypes

LEMMA SemicolonStep ==
  ASSUME StoreInv, Prescanning, Semicolon, UNCHANGED scanVars
  PROVE  StoreInv'
<1>1. /\ Reads(1) /\ rnsb' = LastWord(1) /\ store' = WithText(1)
      /\ tlist' = Front(tlist, LastBegin) /\ bc' = OuterBlock
      /\ UNCHANGED <<plib, mbc, toCome, phase, stopped>>
  BY DEF Semicolon, Read, Front
<1>2. LastBegin \in 1 .. Len(tlist) /\ OuterBlock \in 0 .. mbc /\ Len(tlist) \in Nat
  BY LastBeginIs, PrescanTypes
<1>3. tlist' \in Seq(Tokens(mbc)) /\ tlist' # << >> /\ tlist'[1] = Open
  <2>1. /\ Front(tlist, LastBegin) \in Seq(Tokens(mbc)) /\ Len(Front(tlist, LastBegin)) = LastBegin
        /\ \A i \in 1 .. LastBegin : Front(tlist, LastBegin)[i] = tlist[i]
    <3>1. LastBegin \in Int /\ 0 <= LastBegin /\ LastBegin <= Len(tlist)
      BY <1>2
    <3> QED BY <3>1, Fronts, PrescanTypes
  <2>2. 1 \in 1 .. LastBegin /\ LastBegin # 0
    BY <1>2
  <2> QED BY <1>1, <2>1, <2>2, PrescanTypes
<1> QED BY <1>1, <1>2, <1>3, PlainSymbol

LEMMA EndStep ==
  ASSUME StoreInv, Prescanning, End, UNCHANGED scanVars
  PROVE  StoreInv'
<1>1. /\ Reads(1) /\ rnsb' = LastWord(1) /\ store' = WithText(1)
      /\ tlist' = Front(tlist, LastBegin - 1) /\ bc' = OuterBlock
      /\ UNCHANGED <<plib, mbc, toCome, phase, stopped>> /\ LastBegin > 1
  BY DEF End, ReadEnd, Front
<1>2. LastBegin \in 1 .. Len(tlist) /\ OuterBlock \in 0 .. mbc /\ Len(tlist) \in Nat
  BY LastBeginIs, PrescanTypes
<1>3. tlist' \in Seq(Tokens(mbc)) /\ tlist' # << >> /\ tlist'[1] = Open
  <2> DEFINE n == LastBegin - 1
  <2>1. n \in Int /\ 0 <= n /\ n <= Len(tlist) /\ 1 \in 1 .. n /\ n # 0
    BY <1>1, <1>2
  <2> HIDE DEF n
  <2>2. /\ Front(tlist, n) \in Seq(Tokens(mbc)) /\ Len(Front(tlist, n)) = n
        /\ \A i \in 1 .. n : Front(tlist, n)[i] = tlist[i]
    BY <2>1, Fronts, PrescanTypes
  <2>3. tlist' = Front(tlist, n)
    BY <1>1 DEF n
  <2> QED BY <2>1, <2>2, <2>3, PrescanTypes
<1> QED BY <1>1, <1>2, <1>3, PlainSymbol

LEMMA MoreTokens ==
  ASSUME NEW m \in Nat, NEW q \in Seq(Tokens(m)), q # << >>, q[1] = Open, NEW b \in 0 .. m
  PROVE  /\ q \in Seq(Tokens(m + 1))
         /\ LET r == Append(q, Marker(b))
            IN /\ r \in Seq(Tokens(m + 1)) /\ r # << >> /\ r[1] = Open
               /\ Append(r, Open) \in Seq(Tokens(m + 1))
               /\ Append(r, Open) # << >> /\ Append(r, Open)[1] = Open
<1> DEFINE T == Tokens(m + 1)
<1>1. Tokens(m) \subseteq T /\ Marker(b) \in T /\ Open \in T
  <2>1. b \in 0 .. m + 1 /\ \A c \in 0 .. m : c \in 0 .. m + 1
    OBVIOUS
  <2> QED BY <2>1 DEF Tokens
<1> HIDE DEF T
<1>2. q \in Seq(T)
  BY <1>1
<1>3. Len(q) \in Nat /\ Len(q) # 0
  OBVIOUS
<1> DEFINE r == Append(q, Marker(b))
<1>4. r \in Seq(T) /\ Len(r) = Len(q) + 1 /\ r[1] = Open
  BY <1>1, <1>2, <1>3
<1> HIDE DEF r
<1>5. r # << >> /\ Append(r, Open) \in Seq(T) /\ Append(r, Open)[1] = Open
      /\ Len(Append(r, Open)) = Len(r) + 1
  BY <1>1, <1>3, <1>4
<1>6. Append(r, Open) # << >>
  BY <1>3, <1>4, <1>5
<1> QED BY <1>2, <1>4, <1>5, <1>6 DEF T, r

(* A block adds two links at the end of the chain. *)
LEMMA BlockIntroductionStep ==
  ASSUME StoreInv, Prescanning, NEW n \in 1 .. 2, NEW kind \in Kinds, BlockIntroduction(n, kind),
         n = 1 => closed = "nothing" /\ closed' = "for",
         tlist' \in Seq(Tokens(mbc + 1)), tlist' # << >>, tlist'[1] = Open,
         UNCHANGED <<phase, stopped, scanVars>>
  PROVE  StoreInv'
<1>1. /\ Reads(n) /\ rnsb' = LastWord(n) /\ plib' = plib - 2
      /\ store' = FillPrescanList(WithText(n), LinkAddress, Labels(mbc + 1), NewLinks)
      /\ mbc' = mbc + 1 /\ bc' = mbc + 1 /\ toCome' = Append(toCome, kind)
  BY DEF BlockIntroduction, Read, NewBlock
<1>2. /\ TypeOK /\ phase = "prescan" /\ mbc \in Nat /\ mbc = Len(toCome)
      /\ toCome \in Seq(Kinds) /\ plib \in Int
  BY PrescanTypes
<1>3. /\ rnsb' \in Int /\ plib' \in Int /\ rnsa' \in 1 .. 3
      /\ Bim <= rnsb' /\ rnsb <= rnsb' /\ rnsb' < plib'
      /\ rnsb' + Slack - Unchecked' <= plib'
  <2>1. n \in 1 .. 7 /\ 2 \in 0 .. 4 /\ 2 <= 2
    OBVIOUS
  <2> QED BY <1>1, <2>1, ReadRoom DEF StoreInv, ScanInv
<1>4. LastWord(n) \in Int /\ LastWord(n) < plib /\ plib - 2 >= Bim
  <2>1. LastWord(n) \in Int /\ LastWord(n) < plib - 2 /\ Bim <= LastWord(n)
    BY <1>1, <1>3
  <2> QED BY <1>2, <2>1, StoreAssumption
<1>5. Sublists = Labels(mbc + 1) /\ Sublists = 2 * mbc + 2 /\ Sublists \in Nat
  <2>1. Sublists = 2 * mbc + 2 /\ Sublists \in Nat
    BY <1>4, ListBefore
  <2> QED BY <1>2, <2>1 DEF Labels
<1>6. PICK L : /\ IsChain(L, Sublists, WithText(n), plib)
               /\ HoldsNames(L, Sublists, WithText(n), plib)
               /\ \A t \in 0 .. Sublists : LinkAddress[t] = L[t]
  BY <1>4, ListBefore
<1>7. /\ store' = [a \in Address |-> store'[a]]
      /\ \E K : IsChain(K, Sublists + 2, store', plib - 2)
                /\ HoldsNames(K, Sublists + 2, store', plib - 2)
  <2>1. store' = FillPrescanList(WithText(n), LinkAddress, Sublists, NewLinks)
    BY <1>1, <1>5
  <2> QED BY <1>4, <1>5, <1>6, <2>1, FillLinks
<1>8. toCome' \in Seq(Kinds) /\ mbc' = Len(toCome')
  BY <1>1, <1>2
<1>9. ListInPlace'
  <2>1. phase' = "prescan" /\ Sublists' = 2 * Len(toCome') + 2 /\ Lowest' = plib'
    BY <1>2 DEF Sublists, Lowest
  <2>2. Sublists' = Sublists + 2
    BY <1>1, <1>2, <1>5, <1>8, <2>1
  <2>3. PICK K : IsChain(K, Sublists + 2, store', plib - 2)
                 /\ HoldsNames(K, Sublists + 2, store', plib - 2)
    BY <1>7
  <2>4. Listing(K)'
    BY <1>1, <2>1, <2>2, <2>3 DEF Listing
  <2> QED BY <2>4 DEF ListInPlace
<1>10. SourceTypeOK'
  BY <1>1, <1>2, <1>3 DEF SourceTypeOK
<1> QED BY <1>3, <1>7, <1>8, <1>9, <1>10, PrescanKeeps

LEMMA ForStep ==
  ASSUME StoreInv, Prescanning, For, UNCHANGED scanVars
  PROVE  StoreInv'
<1>1. /\ BlockIntroduction(1, "for") /\ closed = "nothing" /\ closed' = "for"
      /\ tlist' = Append(tlist, Marker(bc)) /\ UNCHANGED <<phase, stopped>>
  BY DEF For
<1>2. tlist' \in Seq(Tokens(mbc + 1)) /\ tlist' # << >> /\ tlist'[1] = Open
  BY <1>1, MoreTokens, PrescanTypes
<1>3. 1 \in 1 .. 2 /\ "for" \in Kinds
  BY DEF Kinds
<1> QED BY <1>1, <1>2, <1>3, BlockIntroductionStep

LEMMA BeginBlockStep ==
  ASSUME StoreInv, Prescanning, BeginBlock, UNCHANGED scanVars
  PROVE  StoreInv'
<1>1. /\ BlockIntroduction(2, "block") /\ UNCHANGED <<phase, stopped>>
      /\ tlist' = tlist \o <<Marker(bc), Open>>
  BY DEF BeginBlock, InStatement
<1>2. tlist' = Append(Append(tlist, Marker(bc)), Open)
  <2>1. tlist \in Seq(Tokens(mbc))
    BY PrescanTypes
  <2>2. \A x, y : \A q \in Seq(Tokens(mbc)) : q \o <<x, y>> = Append(Append(q, x), y)
    OBVIOUS
  <2> QED BY <1>1, <2>1, <2>2
<1>3. tlist' \in Seq(Tokens(mbc + 1)) /\ tlist' # << >> /\ tlist'[1] = Open
  BY <1>2, MoreTokens, PrescanTypes
<1>4. 2 \in 1 .. 2 /\ "block" \in Kinds /\ 2 # 1
  BY DEF Kinds
<1> QED BY <1>1, <1>3, <1>4, BlockIntroductionStep

(* A label or a switch goes into the first sublist of its block. *)
LEMMA DeclareStep ==
  ASSUME StoreInv, Prescanning, NEW nm, NEW n \in 2 .. 7, n = 2 => nm \notin Long,
         Declare(n, nm, Labels(bc)),
         UNCHANGED <<bc, mbc, tlist, toCome, phase, stopped, scanVars>>
  PROVE  StoreInv'
<1> DEFINE d == Len(Words(nm))
<1>1. /\ Reads(n) /\ rnsb' = LastWord(n) /\ plib' = plib - d
      /\ store' = FillPrescanList(WithText(n), LinkAddress, Labels(bc), Words(nm))
  BY DEF Declare, Read
<1>2. /\ TypeOK /\ phase = "prescan" /\ mbc \in Nat /\ bc \in 0 .. mbc /\ mbc = Len(toCome)
      /\ toCome \in Seq(Kinds) /\ plib \in Int
  BY PrescanTypes
<1>3. d \in {1, 2}
  BY WordsOfName
<1>4. /\ rnsb' \in Int /\ plib' \in Int /\ rnsa' \in 1 .. 3
      /\ Bim <= rnsb' /\ rnsb <= rnsb' /\ rnsb' < plib'
      /\ rnsb' + Slack - Unchecked' <= plib'
  <2> HIDE DEF d
  <2>1. n \in 1 .. 7 /\ n # 1
    OBVIOUS
  <2>2. d \in 0 .. 4 /\ d <= 2
    BY <1>3
  <2> QED BY <1>1, <2>1, <2>2, ReadRoom DEF StoreInv, ScanInv
<1>5. LastWord(n) \in Int /\ LastWord(n) < plib /\ plib - d >= Bim
  <2> HIDE DEF d
  <2>1. LastWord(n) \in Int /\ LastWord(n) < plib - d /\ Bim <= LastWord(n)
    BY <1>1, <1>4
  <2> QED BY <1>2, <1>3, <2>1, StoreAssumption
<1>6. Sublists = 2 * mbc + 2 /\ Sublists \in Nat /\ Labels(bc) \in 0 .. Sublists - 1
  <2>1. Sublists = 2 * mbc + 2 /\ Sublists \in Nat
    BY <1>5, ListBefore
  <2> QED BY <1>2, <2>1 DEF Labels
<1>7. PICK L : /\ IsChain(L, Sublists, WithText(n), plib)
               /\ HoldsNames(L, Sublists, WithText(n), plib)
               /\ \A t \in 0 .. Sublists : LinkAddress[t] = L[t]
  BY <1>5, ListBefore
<1>8. /\ store' = [a \in Address |-> store'[a]]
      /\ \E K : IsChain(K, Sublists, store', plib - d) /\ HoldsNames(K, Sublists, store', plib - d)
  BY <1>1, <1>5, <1>6, <1>7, FillNames
<1>9. ListInPlace'
  <2> HIDE DEF d
  <2>1. Sublists' = Sublists /\ Lowest' = plib'
    BY <1>2 DEF Sublists, Lowest
  <2>2. PICK K : IsChain(K, Sublists, store', plib - d) /\ HoldsNames(K, Sublists, store', plib - d)
    BY <1>8
  <2>3. Listing(K)'
    BY <1>1, <2>1, <2>2 DEF Listing
  <2> QED BY <2>3 DEF ListInPlace
<1>10. SourceTypeOK'
  BY <1>2, <1>4 DEF SourceTypeOK, TypeOK
<1>11. tlist' # << >> /\ tlist'[1] = Open /\ toCome' \in Seq(Kinds) /\ mbc' = Len(toCome')
  BY PrescanTypes
<1> QED BY <1>4, <1>8, <1>9, <1>10, <1>11, PrescanKeeps

LEMMA LabelStep ==
  ASSUME StoreInv, Prescanning, NEW nm, Label(nm), UNCHANGED scanVars
  PROVE  StoreInv'
<1>1. /\ Declare(Symbols(nm) + 1, nm, Labels(bc))
      /\ UNCHANGED <<bc, mbc, tlist, toCome, phase, stopped>>
  BY DEF Label, InStatement
<1>2. Symbols(nm) + 1 \in 2 .. 7 /\ (Symbols(nm) + 1 = 2 => nm \notin Long)
  BY DEF Symbols
<1> QED BY <1>1, <1>2, DeclareStep

LEMMA SwitchStep ==
  ASSUME StoreInv, Prescanning, NEW nm, Switch(nm), UNCHANGED scanVars
  PROVE  StoreInv'
<1>1. /\ Declare(Symbols(nm) + 2, nm, Labels(bc))
      /\ UNCHANGED <<bc, mbc, tlist, toCome, phase, stopped>>
  BY DEF Switch, InStatement
<1>2. Symbols(nm) + 2 \in 2 .. 7 /\ Symbols(nm) + 2 # 2
  BY DEF Symbols
<1> QED BY <1>1, <1>2, DeclareStep

LEMMA StoreExhaustedStep ==
  ASSUME StoreInv, Prescanning, StoreExhausted, UNCHANGED scanVars
  PROVE  StoreInv'
<1> USE DEF StoreExhausted, StoreInv, prescanVars, scanVars, lists
<1>1. TypeOK'
  BY DEF ScanInv, TypeOK, SourceTypeOK
<1>2. Sublists' = Sublists /\ Lowest' = Lowest
  BY DEF Sublists, Lowest
<1>3. ListInPlace'
  <2>1. PICK L : Listing(L)
    BY DEF ScanInv, ListInPlace
  <2>2. Listing(L)'
    BY <1>2, <2>1 DEF Listing
  <2> QED BY <2>2 DEF ListInPlace
<1>4. RegionsApart' /\ BlocksInside' /\ WalkBelowEnd'
  BY DEF ScanInv, RegionsApart, BlocksInside, WalkBelowEnd, NameListEnd
<1>5. PrescanRoom'
  BY DEF PrescanRoom
<1> QED BY <1>1, <1>3, <1>4, <1>5 DEF ScanInv

(* A procedure goes into the second sublist of its block, and then the     *)
(* block of its parameters is introduced.                                  *)
LEMMA ProcedureStep ==
  ASSUME StoreInv, Prescanning, NEW nm, Procedure(nm), UNCHANGED scanVars
  PROVE  StoreInv'
<1> DEFINE n == Symbols(nm) + 2
           d == Len(Words(nm))
           st == FillPrescanList(WithText(n), LinkAddress, Procedures(bc), Words(nm))
           moved == [s \in 0 .. Labels(mbc + 1) |->
                       IF s <= Procedures(bc) THEN LinkAddress[s] - d ELSE LinkAddress[s]]
<1>1. /\ Reads(n) /\ rnsb' = LastWord(n) /\ plib' = plib - d - 2
      /\ store' = FillPrescanList(st, moved, Labels(mbc + 1), NewLinks)
      /\ mbc' = mbc + 1 /\ bc' = mbc + 1 /\ toCome' = Append(toCome, "procedure")
      /\ tlist' = Append(tlist, Marker(bc)) /\ UNCHANGED <<phase, stopped>>
  BY DEF Procedure, Read, NewBlock, InStatement
<1>2. /\ TypeOK /\ phase = "prescan" /\ mbc \in Nat /\ bc \in 0 .. mbc /\ mbc = Len(toCome)
      /\ toCome \in Seq(Kinds) /\ plib \in Int
  BY PrescanTypes
<1>3. d \in {1, 2}
  BY WordsOfName
<1>4. n \in 1 .. 7 /\ ~ (n <= 2) /\ n # 1
  BY DEF Symbols
<1> HIDE DEF n
<1>5. /\ rnsb' \in Int /\ plib' \in Int /\ rnsa' \in 1 .. 3
      /\ Bim <= rnsb' /\ rnsb <= rnsb' /\ rnsb' < plib'
      /\ rnsb' + Slack - Unchecked' <= plib'
  <2> DEFINE D == d + 2
  <2> HIDE DEF d, D
  <2>1. D \in 0 .. 4
    BY <1>3 DEF D
  <2>2. plib' = plib - D
    BY <1>1, <1>2, <1>3 DEF D
  <2> QED BY <1>1, <1>4, <2>1, <2>2, ReadRoom DEF StoreInv, ScanInv
<1>6. LastWord(n) \in Int /\ LastWord(n) < plib /\ plib - d >= Bim /\ (plib - d) - 2 >= Bim
  <2> HIDE DEF d
  <2>1. LastWord(n) \in Int /\ LastWord(n) < plib - d - 2 /\ Bim <= LastWord(n)
    BY <1>1, <1>5
  <2> QED BY <1>2, <1>3, <2>1, StoreAssumption
<1>7. /\ Sublists = Labels(mbc + 1) /\ Sublists = 2 * mbc + 2 /\ Sublists \in Nat
      /\ Procedures(bc) \in 0 .. Sublists - 1
  <2>1. Sublists = 2 * mbc + 2 /\ Sublists \in Nat
    BY <1>6, ListBefore
  <2> QED BY <1>2, <2>1 DEF Labels, Procedures
<1>8. PICK L : /\ IsChain(L, Sublists, WithText(n), plib)
               /\ HoldsNames(L, Sublists, WithText(n), plib)
               /\ \A t \in 0 .. Sublists : LinkAddress[t] = L[t]
  BY <1>6, ListBefore
<1>9. PICK K : /\ Lowered(K, L, Sublists, Procedures(bc), d)
               /\ IsChain(K, Sublists, st, plib - d) /\ HoldsNames(K, Sublists, st, plib - d)
  BY <1>6, <1>7, <1>8, FillNames
<1>10. \A t \in 0 .. Sublists : moved[t] = K[t]
  <2> HIDE DEF d
  <2> QED BY <1>7, <1>8, <1>9 DEF Lowered
<1> HIDE DEF st, moved, d
<1>11. /\ store' = [a \in Address |-> store'[a]]
       /\ \E M : IsChain(M, Sublists + 2, store', (plib - d) - 2)
                 /\ HoldsNames(M, Sublists + 2, store', (plib - d) - 2)
  <2>1. store' = FillPrescanList(st, moved, Sublists, NewLinks)
    BY <1>1, <1>7
  <2> QED BY <1>6, <1>7, <1>9, <1>10, <2>1, FillLinks
<1>12. toCome' \in Seq(Kinds) /\ mbc' = Len(toCome')
  BY <1>1, <1>2 DEF Kinds
<1>13. ListInPlace'
  <2>1. phase' = "prescan" /\ Sublists' = 2 * Len(toCome') + 2 /\ Lowest' = plib'
    BY <1>1, <1>2 DEF Sublists, Lowest
  <2>2. Sublists' = Sublists + 2
    BY <1>1, <1>2, <1>7, <1>12, <2>1
  <2>3. PICK M : IsChain(M, Sublists + 2, store', (plib - d) - 2)
                 /\ HoldsNames(M, Sublists + 2, store', (plib - d) - 2)
    BY <1>11
  <2>4. Listing(M)'
    BY <1>1, <2>1, <2>2, <2>3 DEF Listing
  <2> QED BY <2>4 DEF ListInPlace
<1>14. tlist' \in Seq(Tokens(mbc + 1)) /\ tlist' # << >> /\ tlist'[1] = Open
  BY <1>1, MoreTokens, PrescanTypes
<1>15. SourceTypeOK'
  BY <1>1, <1>2, <1>5, <1>14 DEF SourceTypeOK
<1> QED BY <1>1, <1>5, <1>11, <1>12, <1>13, <1>14, <1>15, PrescanKeeps

-----------------------------------------------------------------------------
(***************************************************************************)
(* The entries of the name list: of two words or of three, back to back,   *)
(* the word before the last of each telling its length.                    *)
(***************************************************************************)
EntryLength(w) == IF IsLong(w) THEN 3 ELSE 2

(* E is the set of the lengths the name list had between two entries.      *)
Entries(E, st, base, n) ==
  /\ E \subseteq 0 .. n /\ 0 \in E /\ n \in E
  /\ \A e \in E \ {0} :
       LET w == st[base + e - 2]
           s == e - EntryLength(w)
       IN w[1] # "id" /\ s \in E /\ \A f \in E : f < e => f <= s

LEMMA EntriesKept ==
  ASSUME NEW E, NEW st, NEW base \in Int, NEW n \in Nat, Entries(E, st, base, n),
         NEW st2, NEW base2 \in Int,
         \A k \in 0 .. n - 1 : st[base + k][1] # "id" => st2[base2 + k] = st[base + k]
  PROVE  Entries(E, st2, base2, n)
<1>1. \A e \in E \ {0} : st2[base2 + e - 2] = st[base + e - 2]
  <2> SUFFICES ASSUME NEW e \in E \ {0} PROVE st2[base2 + e - 2] = st[base + e - 2]
    OBVIOUS
  <2>1. e \in 0 .. n /\ EntryLength(st[base + e - 2]) \in {2, 3}
        /\ e - EntryLength(st[base + e - 2]) \in 0 .. n /\ st[base + e - 2][1] # "id"
    BY DEF Entries, EntryLength
  <2>2. e - 2 \in 0 .. n - 1 /\ base + (e - 2) = base + e - 2 /\ base2 + (e - 2) = base2 + e - 2
    BY <2>1
  <2> QED BY <2>1, <2>2
<1> QED BY <1>1 DEF Entries

LEMMA EntriesLonger ==
  ASSUME NEW E, NEW st, NEW base \in Int, NEW n \in Nat, Entries(E, st, base, n),
         NEW st2, \A k \in 0 .. n - 1 : st2[base + k] = st[base + k],
         NEW m \in Nat, st2[base + m - 2][1] # "id", m = n + EntryLength(st2[base + m - 2])
  PROVE  Entries(E \cup {m}, st2, base, m)
<1>1. Entries(E, st2, base, n)
  BY EntriesKept
<1>2. E \subseteq 0 .. n /\ 0 \in E /\ n \in E /\ EntryLength(st2[base + m - 2]) \in {2, 3}
  BY DEF Entries, EntryLength
<1>3. n < m /\ m - EntryLength(st2[base + m - 2]) = n
  BY <1>2
<1>4. E \cup {m} \subseteq 0 .. m /\ 0 \in E \cup {m} /\ m \in E \cup {m}
  BY <1>2, <1>3
<1>5. ASSUME NEW e \in (E \cup {m}) \ {0}
      PROVE  LET w == st2[base + e - 2]
                 s == e - EntryLength(w)
             IN w[1] # "id" /\ s \in E \cup {m} /\ \A f \in E \cup {m} : f < e => f <= s
  <2> DEFINE w == st2[base + e - 2]
             s == e - EntryLength(w)
  <2>1. CASE e = m
    BY <1>2, <1>3, <2>1
  <2>2. CASE e \in E \ {0}
    <3>1. w[1] # "id" /\ s \in E /\ \A f \in E : f < e => f <= s
      BY <1>1, <2>2 DEF Entries
    <3>2. ~ (m < e)
      <4>1. e \in 0 .. n
        BY <1>2, <2>2
      <4> QED BY <1>3, <4>1
    <3> QED BY <3>1, <3>2
  <2> QED BY <2>1, <2>2
<1> QED BY <1>4, <1>5 DEF Entries

LEMMA EntryWord ==
  ASSUME NEW nm, NEW w
  PROVE  /\ Size(nm) \in {2, 3} /\ Len(Entry(nm, w)) = Size(nm)
         /\ Entry(nm, w)[Size(nm) - 1] = Inw(nm)
         /\ Inw(nm)[1] # "id" /\ EntryLength(Inw(nm)) = Size(nm)
<1>1. Inw(nm)[1] = "inw" /\ Inw(nm)[2] = nm
  BY DEF Inw
<1>2. CASE nm \in Long
  <2>1. Size(nm) = 3 /\ Entry(nm, w) = <<Fnw(nm), Inw(nm), w>>
    BY <1>2 DEF Size, Entry
  <2> QED BY <1>1, <1>2, <2>1 DEF EntryLength, IsLong
<1>3. CASE nm \notin Long
  <2>1. Size(nm) = 2 /\ Entry(nm, w) = <<Inw(nm), w>>
    BY <1>3 DEF Size, Entry
  <2> QED BY <1>1, <1>3, <2>1 DEF EntryLength, IsLong
<1> QED BY <1>2, <1>3

LEMMA Concatenated ==
  ASSUME NEW S, NEW p \in Seq(S), NEW q \in Seq(S)
  PROVE  /\ p \o q \in Seq(S) /\ Len(p) \in Nat /\ Len(q) \in Nat /\ Len(p \o q) = Len(p) + Len(q)
         /\ \A k \in 1 .. Len(p) : (p \o q)[k] = p[k]
         /\ \A k \in 1 .. Len(q) : (p \o q)[Len(p) + k] = q[k]
<1>1. /\ p \o q \in Seq(S) /\ Len(p) \in Nat /\ Len(q) \in Nat
      /\ Len(p \o q) = Len(p) + Len(q)
  OBVIOUS
<1>2. \A i \in 1 .. Len(p) + Len(q) : (p \o q)[i] = IF i <= Len(p) THEN p[i] ELSE q[i - Len(p)]
  OBVIOUS
<1>3. ASSUME NEW k \in 1 .. Len(q) PROVE (p \o q)[Len(p) + k] = q[k]
  <2>1. Len(p) + k \in 1 .. Len(p) + Len(q) /\ ~ (Len(p) + k <= Len(p)) /\ (Len(p) + k) - Len(p) = k
    BY <1>1
  <2> QED BY <1>2, <2>1
<1>4. ASSUME NEW k \in 1 .. Len(p) PROVE (p \o q)[k] = p[k]
  <2>1. k \in 1 .. Len(p) + Len(q) /\ k <= Len(p)
    BY <1>1
  <2> QED BY <1>2, <2>1
<1> QED BY <1>1, <1>3, <1>4

(* The names that are known before the scan. *)
LEMMA PrefillEntries ==
  /\ \E W : Prefill \in Seq(W)
  /\ \E E : Entries(E, Prefill, 1, Len(Prefill))
<1> DEFINE n  == Len(Prefilled)
           W  == {Inw(nm) : nm \in Name} \cup {Fnw(nm) : nm \in Name} \cup {Id("label", 0)}
           V  == Seq(W)
           en(a) == Entry(Prefilled[a], Id("label", 0))
           b  == [a \in Int |-> << >>]
           g  == [a \in Int |-> [v \in V |-> IF a \in 1 .. n THEN v \o en(a) ELSE v]]
           below == [a \in Int |-> a - 1]
           Builds(h) == h = [i \in 0 .. n |-> IF i = 0 THEN << >> ELSE h[i - 1] \o en(i)]
<1>1. n \in Nat /\ \A a \in 1 .. n : Prefilled[a] \in Name
  BY PrefilledAssumption
<1> HIDE DEF n
<1>2. \A nm \in Name : Entry(nm, Id("label", 0)) \in V
  <2> SUFFICES ASSUME NEW nm \in Name PROVE Entry(nm, Id("label", 0)) \in V
    OBVIOUS
  <2>1. Inw(nm) \in W /\ Fnw(nm) \in W /\ Id("label", 0) \in W
    OBVIOUS
  <2> HIDE DEF W
  <2> QED BY <2>1 DEF Entry
<1>3. \A a \in 1 .. n : en(a) \in V
  BY <1>1, <1>2
<1> HIDE DEF W
<1>4. /\ b \in [Int -> V] /\ g \in [Int -> [V -> V]] /\ below \in [Int -> Int]
      /\ \A a \in Int : below[a] < a
  <2>1. << >> \in V
    OBVIOUS
  <2>2. \A a \in Int, v \in V : (IF a \in 1 .. n THEN v \o en(a) ELSE v) \in V
    <3> SUFFICES ASSUME NEW a \in 1 .. n, NEW v \in V PROVE v \o en(a) \in V
      OBVIOUS
    <3>1. en(a) \in V
      BY <1>3
    <3> HIDE DEF en
    <3> QED BY <3>1
  <2> HIDE DEF V, en
  <2> QED BY <2>1, <2>2
<1>5. PICK f \in [Int -> V] : f = [a \in Int |-> IF a <= 0 THEN b[a] ELSE g[a][f[below[a]]]]
  <2> HIDE DEF b, g, below, V
  <2>1. \E f \in [Int -> V] : Searches(f, 0, b, g, below)
    <3>1. 0 \in Int
      OBVIOUS
    <3> QED BY <1>4, <3>1, Downwards, Zenon
  <2> QED BY <2>1, Zenon DEF Searches
<1> DEFINE h == [i \in 0 .. n |-> f[i]]
<1>6. Builds(h)
  <2>1. \A i \in 0 .. n : h[i] = IF i = 0 THEN << >> ELSE h[i - 1] \o en(i)
    <3> SUFFICES ASSUME NEW i \in 0 .. n PROVE h[i] = IF i = 0 THEN << >> ELSE h[i - 1] \o en(i)
      OBVIOUS
    <3>1. i \in Int /\ f[i] = IF i <= 0 THEN b[i] ELSE g[i][f[below[i]]]
      <4>1. i \in Int
        BY <1>1
      <4> HIDE DEF b, g, below, V
      <4> QED BY <1>5, <4>1
    <3>2. CASE i = 0
      BY <3>1, <3>2
    <3>3. CASE i # 0
      <4>1. i \in 1 .. n /\ i - 1 \in 0 .. n /\ i - 1 \in Int /\ below[i] = i - 1 /\ ~ (i <= 0)
        BY <1>1, <3>3
      <4>2. f[i - 1] \in V
        <5> HIDE DEF V
        <5> QED BY <1>5, <4>1
      <4>3. g[i][f[i - 1]] = f[i - 1] \o en(i)
        <5> HIDE DEF V, en
        <5> QED BY <4>1, <4>2
      <4>4. h[i] = f[i] /\ h[i - 1] = f[i - 1]
        BY <4>1
      <4> HIDE DEF g, b, below, h, en
      <4> QED BY <3>1, <3>3, <4>1, <4>3, <4>4
    <3> QED BY <3>2, <3>3
  <2>2. h = [i \in 0 .. n |-> h[i]]
    OBVIOUS
  <2> HIDE DEF h, en
  <2> QED BY <2>1, <2>2
<1> DEFINE words == CHOOSE w : Builds(w)
<1>7. Builds(words)
  <2> HIDE DEF Builds
  <2> QED BY <1>6
<1>8. Prefill = words[n]
  BY Zenon DEF Prefill, n
<1>9. \A i \in 0 .. n : words[i] = IF i = 0 THEN << >> ELSE words[i - 1] \o en(i)
  <2> HIDE DEF words, en
  <2> QED BY <1>7
<1> HIDE DEF words, Builds
<1> DEFINE Good(i) == words[i] \in V /\ \E E : Entries(E, words[i], 1, Len(words[i]))
           S == {i \in Nat : i <= n => Good(i)}
<1>10. 0 \in S /\ S \in SUBSET Nat
  <2>1. words[0] = << >>
    BY <1>1, <1>9
  <2>2. Entries({0}, << >>, 1, 0)
    BY DEF Entries
  <2>3. Good(0)
    BY <2>1, <2>2
  <2> HIDE DEF Good
  <2> QED BY <2>3
<1>11. ASSUME NEW i \in S PROVE i + 1 \in S
  <2> SUFFICES ASSUME i + 1 <= n PROVE Good(i + 1)
    OBVIOUS
  <2>1. i \in Nat /\ i + 1 \in 1 .. n /\ i + 1 \in 0 .. n /\ (i + 1) - 1 = i /\ i <= n
    BY <1>1
  <2>2. PICK E : words[i] \in V /\ Entries(E, words[i], 1, Len(words[i]))
    BY <2>1
  <2> DEFINE e  == en(i + 1)
             nm == Prefilled[i + 1]
             v  == words[i]
             v2 == words[i + 1]
  <2>3. v2 = v \o e /\ e \in V /\ v \in V
    <3>1. words[i + 1] = IF i + 1 = 0 THEN << >> ELSE words[(i + 1) - 1] \o en(i + 1)
      <4> HIDE DEF en
      <4> QED BY <1>9, <2>1
    <3>2. i + 1 # 0 /\ en(i + 1) \in V
      <4> HIDE DEF en
      <4> QED BY <1>3, <2>1
    <3> HIDE DEF en
    <3> QED BY <2>1, <2>2, <3>1, <3>2
  <2>4. /\ Size(nm) \in {2, 3} /\ Len(e) = Size(nm) /\ e[Size(nm) - 1] = Inw(nm)
        /\ Inw(nm)[1] # "id" /\ EntryLength(Inw(nm)) = Size(nm)
    BY EntryWord
  <2> HIDE DEF e, nm, v, v2
  <2>5. /\ v2 \in V /\ Len(v) \in Nat /\ Len(v2) = Len(v) + Len(e)
        /\ \A k \in 1 .. Len(v) : v2[k] = v[k]
        /\ \A k \in 1 .. Len(e) : v2[Len(v) + k] = e[k]
    <3>1. \A p, q \in V :
            /\ p \o q \in V /\ Len(p) \in Nat /\ Len(q) \in Nat /\ Len(p \o q) = Len(p) + Len(q)
            /\ \A k \in 1 .. Len(p) : (p \o q)[k] = p[k]
            /\ \A k \in 1 .. Len(q) : (p \o q)[Len(p) + k] = q[k]
      <4> SUFFICES ASSUME NEW p \in Seq(W), NEW q \in Seq(W)
                   PROVE  /\ p \o q \in V /\ Len(p) \in Nat /\ Len(q) \in Nat
                          /\ Len(p \o q) = Len(p) + Len(q)
                          /\ \A k \in 1 .. Len(p) : (p \o q)[k] = p[k]
                          /\ \A k \in 1 .. Len(q) : (p \o q)[Len(p) + k] = q[k]
        OBVIOUS
      <4> HIDE DEF b, g, below, h, S, en
      <4> QED BY Concatenated
    <3> HIDE DEF V
    <3> QED BY <2>3, <3>1, Zenon
  <2> HIDE DEF V
  <2>6. Len(v2) \in Nat /\ v2[1 + Len(v2) - 2] = Inw(nm)
    <3>1. Size(nm) - 1 \in 1 .. Len(e) /\ 1 + Len(v2) - 2 = Len(v) + (Size(nm) - 1)
      BY <2>4, <2>5
    <3>2. v2[Len(v) + (Size(nm) - 1)] = e[Size(nm) - 1]
      BY <2>5, <3>1
    <3>3. Len(v2) \in Nat
      BY <2>4, <2>5
    <3> QED BY <2>4, <3>1, <3>2, <3>3
  <2>7. \A k \in 0 .. Len(v) - 1 : v2[1 + k] = v[1 + k]
    BY <2>5
  <2>8. Entries(E \cup {Len(v2)}, v2, 1, Len(v2))
    <3>1. v2[1 + Len(v2) - 2][1] # "id" /\ Len(v2) = Len(v) + EntryLength(v2[1 + Len(v2) - 2])
      BY <2>4, <2>5, <2>6
    <3>2. Entries(E, v, 1, Len(v)) /\ Len(v) \in Nat /\ 1 \in Int /\ Len(v2) \in Nat
      BY <2>2, <2>5, <2>6 DEF v
    <3> QED BY <2>7, <3>1, <3>2, EntriesLonger
  <2> QED BY <2>5, <2>8 DEF v2
<1>12. S = Nat
  <2> HIDE DEF S
  <2> QED BY <1>10, <1>11, Induction
<1>13. Good(n)
  <2>1. n \in S /\ n <= n
    <3> HIDE DEF S
    <3> QED BY <1>1, <1>12
  <2> HIDE DEF Good
  <2> QED BY <2>1
<1> QED BY <1>8, <1>13

(* The last end: the chain is followed to its second link. *)
LEMMA MainScanStep ==
  ASSUME StoreInv, MainScan
  PROVE  StoreInv'
<1>0. Prescanning /\ LastBegin = 1 /\ ReadEnd /\ Reads(1) /\ UNCHANGED <<toCome, mbc>>
      /\ bc' = OuterBlock /\ tlist' = Front(tlist, 0)
  <2>1. LastBegin - 1 = 0
    BY DEF MainScan
  <2> QED BY <2>1 DEF MainScan, ReadEnd, Front
<1>1. /\ TypeOK /\ phase = "prescan" /\ mbc \in Nat /\ mbc = Len(toCome)
      /\ toCome \in Seq(Kinds) /\ plib \in Int /\ rnsb \in Int
  BY <1>0, PrescanTypes
<1>2. SourceTypeOK'
  <2>1. OuterBlock \in 0 .. mbc
    BY <1>0, LastBeginIs, PrescanTypes
  <2>2. Front(tlist, 0) \in Seq(Tokens(mbc))
    <3>1. 0 \in Int /\ 0 <= 0 /\ 0 <= Len(tlist)
      BY <1>0, PrescanTypes
    <3> QED BY <1>0, <3>1, Fronts, PrescanTypes
  <2>3. rnsa' \in 1 .. 3
    <3>1. rnsa' = ((rnsa + 1 - 1) % 3) + 1
      BY <1>0 DEF Reads
    <3>2. rnsa \in 1 .. 3 /\ 1 \in 1 .. 7
      BY <1>1 DEF TypeOK, SourceTypeOK
    <3> QED BY <3>1, <3>2, WordsRead
  <2> QED BY <1>0, <1>1, <2>1, <2>2, <2>3 DEF SourceTypeOK
<1>3. \E L : IsChain(L, Sublists, store, plib) /\ HoldsNames(L, Sublists, store, plib)
  <2>1. Lowest = plib
    BY <1>1 DEF Lowest
  <2> QED BY <2>1 DEF StoreInv, ScanInv, ListInPlace, Listing
<1>4. /\ Sublists = 2 * mbc + 2 /\ Bim + Room <= rnsb /\ rnsb < plib
      /\ scopes = << >> /\ klsc = 0
  BY <1>1 DEF Sublists, StoreInv, PrescanRoom
<1>5. CASE ~ (NameBase + Len(Prefill) < plib)
  <2>1. stopped' = TRUE /\ UNCHANGED <<store, rnsb, plib, phase, scanVars>>
    BY <1>5 DEF MainScan
  <2> USE <2>1 DEF scanVars, lists
  <2>2. TypeOK'
    BY <1>0, <1>1, <1>2 DEF TypeOK
  <2>3. ListInPlace'
    <3>1. Sublists' = Sublists /\ Lowest' = plib
      BY <1>0, <1>1 DEF Sublists, Lowest
    <3>2. PICK L : IsChain(L, Sublists, store, plib) /\ HoldsNames(L, Sublists, store, plib)
      BY <1>3
    <3>3. Listing(L)'
      BY <3>1, <3>2 DEF Listing
    <3> QED BY <3>3 DEF ListInPlace
  <2>4. RegionsApart' /\ BlocksInside' /\ WalkBelowEnd'
    BY <1>1 DEF StoreInv, ScanInv, RegionsApart, BlocksInside, WalkBelowEnd
  <2>5. PrescanRoom'
    BY <1>0, <1>1 DEF StoreInv, PrescanRoom
  <2> QED BY <2>2, <2>3, <2>4, <2>5 DEF StoreInv, ScanInv
<1>6. CASE NameBase + Len(Prefill) < plib
  <2>1. /\ flib' = FutureBase /\ klib' = FutureBase + ListShift /\ nlib' = NameBase
        /\ nlsc' = Len(Prefill) /\ store' = With(WithText(1), NameBase, Prefill)
        /\ rnsd' = Bim + Room /\ rnsb' = Bim
        /\ intro' = [i |-> plib + 1, part |-> 0]
        /\ plib' = store[plib][2] /\ phase' = "intro"
        /\ UNCHANGED <<flsc, klsc, stopped, open, place, scopes, vlam, walk>>
    BY <1>6 DEF MainScan
  <2>2. LastWord(1) \in Int /\ rnsb <= LastWord(1)
    <3>1. rnsa \in 1 .. 3 /\ 1 \in 1 .. 7
      BY <1>1 DEF TypeOK, SourceTypeOK
    <3>2. (rnsa + 1 - 1) \div 3 \in 0 .. 3
      BY <3>1, WordsRead
    <3> QED BY <1>1, <3>2 DEF LastWord
  <2>3. /\ NameBase \in Int /\ FutureBase \in Int /\ Len(Prefill) \in Nat /\ ListShift \in Nat
        /\ LastWord(1) < FutureBase /\ FutureBase < FutureBase + ListShift
        /\ NameBase = FutureBase + 2 * ListShift
        /\ FutureBase + ListShift < NameBase /\ LastWord(1) < plib
        /\ Bim + Room <= FutureBase /\ Bim \in Int /\ Bim < Bim + Room /\ Bim + Room \in Int
    <3>1. FutureBase = LastWord(1) + 1 /\ NameBase = FutureBase + 2 * ListShift
      BY DEF FutureBase, NameBase
    <3>2. Len(Prefill) \in Nat /\ ListShift \in Nat \ {0}
      <4>1. Len(Prefill) \in Nat
        BY PrefillEntries
      <4> QED BY <4>1, ShiftAssumption
    <3>3. /\ FutureBase \in Int /\ NameBase \in Int /\ LastWord(1) < FutureBase
          /\ FutureBase < FutureBase + ListShift /\ FutureBase + ListShift < NameBase
      BY <2>2, <3>1, <3>2
    <3>4. /\ Bim \in Int /\ Bim + Room \in Int /\ Bim < Bim + Room
          /\ Bim + Room <= LastWord(1)
      BY <1>1, <1>4, <2>2, StoreAssumption
    <3>5. Bim + Room <= FutureBase
      BY <2>2, <3>3, <3>4
    <3>6. LastWord(1) < plib
      <4>1. {LastWord(1), FutureBase, FutureBase + ListShift, NameBase, Len(Prefill), plib}
            \subseteq Int /\ Len(Prefill) >= 0
        BY <1>1, <2>2, <3>2, <3>3
      <4>2. NameBase < plib
        BY <1>6, <4>1
      <4> QED BY <3>3, <4>1, <4>2
    <3> QED BY <3>1, <3>2, <3>3, <3>4, <3>5, <3>6
  <2>4. PICK L : IsChain(L, Sublists, store, plib) /\ HoldsNames(L, Sublists, store, plib)
    BY <1>3
  <2>5. Sublists \in Nat /\ Sublists >= 1 /\ Sublists' = Sublists - 1 /\ Lowest' = plib + 1
    <3>1. Sublists' = 2 * Len(toCome') + 1 /\ Lowest' = plib + 1
      BY <2>1 DEF Sublists, Lowest
    <3>2. toCome' = toCome
      BY <1>0
    <3> QED BY <1>1, <1>4, <3>1, <3>2
  <2>6. /\ store[plib][2] \in Int /\ plib < store[plib][2] /\ store[plib][2] <= Plie
        /\ \E K : IsChain(K, Sublists - 1, store, store[plib][2])
                  /\ HoldsNames(K, Sublists - 1, store, plib + 1)
    BY <2>4, <2>5, NextLink
  <2>7. PICK K : IsChain(K, Sublists - 1, store, store[plib][2])
                 /\ HoldsNames(K, Sublists - 1, store, plib + 1)
    BY <2>6
  <2>8. Agrees(store', store, plib)
    <3>1. Agrees(WithText(1), store, plib)
      BY <1>1, <2>2, <2>3, TextAgrees
    <3>2. Agrees(store', WithText(1), plib)
      <4>1. NameBase + Len(Prefill) <= plib
        BY <1>1, <1>6, <2>3
      <4> QED BY <1>1, <2>1, <2>3, <4>1, WithAgrees
    <3> QED BY <1>1, <3>1, <3>2, AgreesTwice
  <2>9. ListInPlace'
    <3>1. \A a \in plib + 1 .. Plie : store'[a] = store[a]
      BY <1>1, <1>4, <2>8, StoreAssumption DEF Agrees, Address
    <3>2. {Sublists, plib, Sublists - 1, plib + 1, store[plib][2]} \subseteq Int
          /\ Sublists - 1 \in Nat /\ plib + 1 <= plib + 1 /\ plib + 1 <= store[plib][2]
      BY <1>1, <2>5, <2>6
    <3>3. IsChain(K, Sublists - 1, store', store[plib][2])
          /\ HoldsNames(K, Sublists - 1, store', plib + 1)
      BY <2>7, <3>1, <3>2, Undisturbed
    <3>4. Listing(K)'
      BY <2>1, <2>5, <3>3 DEF Listing
    <3> QED BY <3>4 DEF ListInPlace
  <2>10. TypeOK'
    <3>1. /\ rnsb' \in Int /\ plib' \in Int /\ rnsd' \in Int /\ flib' \in Int /\ klib' \in Int
          /\ nlib' \in Int /\ nlsc' \in Nat
      BY <2>1, <2>3, <2>6
    <3>2. intro' \in [i : Int, part : {0, 1}]
      BY <1>1, <2>1
    <3>3. store' = [a \in Address |-> store'[a]]
      BY <2>8 DEF Agrees
    <3> QED BY <1>0, <1>1, <1>2, <2>1, <3>1, <3>2, <3>3 DEF TypeOK
  <2>11. RegionsApart'
    <3>1. /\ Bim <= rnsb' /\ rnsb' < rnsd' /\ rnsd' <= flib' /\ flib' < klib'
      BY <2>1, <2>3
    <3>2. klib' + klsc' <= nlib'
      <4>1. klib' + klsc' = FutureBase + ListShift + 0 /\ nlib' = NameBase
        BY <1>4, <2>1
      <4> QED BY <2>3, <4>1
    <3>3. NameListEnd' <= intro'.i /\ intro'.i <= plib' /\ plib' <= Plie
      <4>1. NameListEnd' = NameBase + Len(Prefill) /\ intro'.i = plib + 1 /\ plib' = store[plib][2]
        BY <2>1 DEF NameListEnd
      <4> QED BY <1>1, <1>6, <2>3, <2>6, <4>1
    <3> QED BY <2>1, <3>1, <3>2, <3>3 DEF RegionsApart
  <2>12. BlocksInside' /\ WalkBelowEnd' /\ PrescanRoom'
    BY <1>4, <2>1 DEF StoreInv, ScanInv, BlocksInside, WalkBelowEnd, PrescanRoom
  <2> QED BY <2>9, <2>10, <2>11, <2>12 DEF StoreInv, ScanInv
<1> QED BY <1>5, <1>6

-----------------------------------------------------------------------------
(***************************************************************************)
(* The invariant holds.                                                    *)
(***************************************************************************)
LEMMA ChainAtStart ==
  ASSUME Init
  PROVE  \E L : IsChain(L, 2, store, plib) /\ HoldsNames(L, 2, store, plib)
<1> DEFINE L == [s \in 0 .. 2 |-> Plie - 2 + s]
<1>1. plib = Plie - 2 /\ Plie \in Int /\ {Plie - 2, Plie - 1, Plie} \subseteq Address
      /\ Bim + Room < Plie - 2 /\ Bim + Room \in Int
  BY StoreAssumption DEF Init, PrescanInit, Address
<1>2. /\ store[Plie] = Link(Plie - 1) /\ store[Plie - 1] = Link(Plie)
      /\ store[Plie - 2] = Link(Plie - 1)
  <2>1. \A a \in Address : store[a] = CASE a = Plie      -> Link(Plie - 1)
                                       [] a = Plie - 1   -> Link(Plie)
                                       [] a = Plie - 2   -> Link(Plie - 1)
                                       [] a = Bim + Room -> Text(0)
                                       [] OTHER          -> Empty
    BY DEF Init, PrescanInit
  <2>2. Plie # Plie - 1 /\ Plie # Plie - 2 /\ Plie - 1 # Plie - 2
        /\ Plie # Bim + Room /\ Plie - 1 # Bim + Room /\ Plie - 2 # Bim + Room
    BY <1>1
  <2> QED BY <1>1, <2>1, <2>2
<1>3. L[0] = Plie - 2 /\ L[1] = Plie - 1 /\ L[2] = Plie /\ \A s \in 0 .. 2 : s = 0 \/ s = 1 \/ s = 2
  BY <1>1
<1>4. L \in [0 .. 2 -> Int]
  BY <1>1
<1> HIDE DEF L
<1>5. IsChain(L, 2, store, plib)
  <2>1. \A s, t \in 0 .. 2 : s < t => L[s] < L[t]
    BY <1>1, <1>3
  <2>2. \A s \in 0 .. 2 - 1 : store[L[s]] = Link(L[s + 1])
    <3>1. \A s \in 0 .. 2 - 1 : (s = 0 /\ s + 1 = 1) \/ (s = 1 /\ s + 1 = 2)
      OBVIOUS
    <3> QED BY <1>2, <1>3, <3>1
  <2> QED BY <1>1, <1>2, <1>3, <1>4, <2>1, <2>2 DEF IsChain
<1>6. HoldsNames(L, 2, store, plib)
  <2> SUFFICES ASSUME NEW a \in plib .. Plie
               PROVE  store[a][1] = "link" /\ ~ IsLong(store[a])
    BY DEF HoldsNames
  <2>1. a = Plie - 2 \/ a = Plie - 1 \/ a = Plie
    BY <1>1
  <2>2. \A x : Link(x)[1] = "link" /\ ~ IsLong(Link(x))
    BY DEF Link, IsLong
  <2> QED BY <1>2, <2>1, <2>2
<1> QED BY <1>5, <1>6

LEMMA InitStoreInv == Init => StoreInv
<1> SUFFICES ASSUME Init PROVE StoreInv
  OBVIOUS
<1> USE DEF Init, PrescanInit
<1>1. TypeOK
  <2>1. tlist \in Seq(Tokens(mbc)) /\ mbc \in Nat /\ bc \in 0 .. mbc /\ rnsa \in 1 .. 3
    BY DEF Tokens
  <2>2. store = [a \in Address |-> store[a]] /\ rnsb \in Int /\ plib \in Int
    BY StoreAssumption
  <2>3. /\ toCome \in Seq(Kinds) /\ scopes \in Seq([names : Nat, place : Int])
        /\ intro \in [i : Int, part : {0, 1}] /\ walk \in Pass /\ open \subseteq Int
    BY DEF NoWalk, Pass
  <2> QED BY <2>1, <2>2, <2>3 DEF TypeOK, SourceTypeOK
<1>2. ListInPlace
  <2>1. Sublists = 2 /\ Lowest = plib
    BY DEF Sublists, Lowest
  <2> QED BY <2>1, ChainAtStart DEF ListInPlace, Listing
<1>3. PrescanRoom
  <2>1. Unchecked = 4
    BY DEF Unchecked
  <2>2. /\ rnsb = Bim + Room /\ plib = Plie - 2 /\ rnsb < plib
        /\ rnsb + Slack - Unchecked <= plib
    BY <2>1, StoreAssumption
  <2>3. Bim + Room <= rnsb
    BY StoreAssumption
  <2>4. mbc = Len(toCome) /\ scopes = << >> /\ klsc = 0 /\ tlist # << >> /\ tlist[1] = Open
    OBVIOUS
  <2> QED BY <2>2, <2>3, <2>4 DEF PrescanRoom
<1>4. RegionsApart
  BY <1>3 DEF RegionsApart, PrescanRoom
<1>5. BlocksInside /\ WalkBelowEnd
  BY DEF BlocksInside, WalkBelowEnd
<1> QED BY <1>1, <1>2, <1>3, <1>4, <1>5 DEF StoreInv, ScanInv

LEMMA PrescanNextStep ==
  ASSUME StoreInv, PrescanNext, UNCHANGED scanVars
  PROVE  StoreInv'
<1>1. Prescanning
  BY DEF PrescanNext
<1>2. CASE Symbol
  BY <1>1, <1>2, SymbolStep
<1>3. CASE For
  BY <1>1, <1>3, ForStep
<1>4. CASE Begin
  BY <1>1, <1>4, BeginStep
<1>5. CASE BeginBlock
  BY <1>1, <1>5, BeginBlockStep
<1>6. CASE Semicolon
  BY <1>1, <1>6, SemicolonStep
<1>7. CASE End
  BY <1>1, <1>7, EndStep
<1>8. CASE Else
  BY <1>1, <1>8, ElseStep
<1>9. CASE \E nm \in Name : Label(nm) \/ Switch(nm) \/ Procedure(nm)
  <2>1. PICK nm \in Name : Label(nm) \/ Switch(nm) \/ Procedure(nm)
    BY <1>9
  <2> QED BY <1>1, <2>1, LabelStep, SwitchStep, ProcedureStep
<1>10. CASE StoreExhausted
  BY <1>1, <1>10, StoreExhaustedStep
<1> QED BY <1>2, <1>3, <1>4, <1>5, <1>6, <1>7, <1>8, <1>9, <1>10 DEF PrescanNext

LEMMA StoreStutter ==
  ASSUME StoreInv, UNCHANGED vars
  PROVE  StoreInv'
<1> USE DEF vars, source, prescanVars, scanVars, lists, StoreInv
<1>1. TypeOK'
  BY DEF ScanInv, TypeOK, SourceTypeOK
<1>2. Sublists' = Sublists /\ Lowest' = Lowest
  BY DEF Sublists, Lowest
<1>3. ListInPlace'
  <2>1. PICK L : Listing(L)
    BY DEF ScanInv, ListInPlace
  <2>2. Listing(L)'
    BY <1>2, <2>1 DEF Listing
  <2> QED BY <2>2 DEF ListInPlace
<1>4. RegionsApart' /\ BlocksInside' /\ WalkBelowEnd'
  BY DEF ScanInv, RegionsApart, BlocksInside, WalkBelowEnd, NameListEnd
<1>5. Unchecked' = Unchecked
  BY DEF Unchecked
<1>6. PrescanRoom'
  BY <1>5 DEF PrescanRoom
<1> QED BY <1>1, <1>3, <1>4, <1>6 DEF ScanInv

LEMMA NextStoreInv ==
  ASSUME LateFutures = FALSE, StoreInv, [Next]_vars
  PROVE  StoreInv'
<1>1. ScanInv
  BY DEF StoreInv
<1>2. ASSUME ScanInv', phase' # "prescan" PROVE StoreInv'
  BY <1>2 DEF StoreInv, PrescanRoom
<1>3. CASE PrescanNext /\ UNCHANGED scanVars
  BY <1>3, PrescanNextStep
<1>4. CASE MainScan
  BY <1>4, MainScanStep
<1>5. CASE TakeText
  BY <1>1, <1>2, <1>5, TakeTextStep DEF TakeText, Scanning
<1>6. CASE BitStringMaker
  BY <1>1, <1>2, <1>6, BitStringMakerStep DEF BitStringMaker, Scanning
<1>7. CASE ReserveFuture
  BY <1>1, <1>2, <1>7, ReserveFutureStep DEF ReserveFuture, Scanning
<1>8. CASE \E p \in open : ResolveFuture(p)
  <2>1. PICK p \in open : ResolveFuture(p)
    BY <1>8
  <2> QED BY <1>1, <1>2, <2>1, ResolveFutureStep DEF ResolveFuture, Scanning
<1>9. CASE \E c \in Constant : LookForConstant(c)
  <2>1. PICK c \in Constant : LookForConstant(c)
    BY <1>9
  <2>2. phase' # "prescan"
    BY <2>1 DEF LookForConstant, Scanning
  <2> QED BY <1>1, <1>2, <2>1, <2>2, LookForConstantStep
<1>10. CASE \E c \in Constant : FillConstantList(c[1])
  <2>1. PICK c \in Constant : FillConstantList(c[1])
    BY <1>10
  <2>2. phase' # "prescan"
    BY <2>1 DEF FillConstantList, Scanning
  <2> QED BY <1>1, <1>2, <2>1, <2>2, FillConstantListStep
<1>11. CASE \E nm \in Name, kind \in {"simple", "array", "value array"} : FillNameList(nm, kind)
  <2>1. PICK nm \in Name, kind \in {"simple", "array", "value array"} : FillNameList(nm, kind)
    BY <1>11
  <2> QED BY <1>1, <1>2, <2>1, FillNameListStep DEF FillNameList, Scanning
<1>12. CASE \E nm \in Name : TestFirstOccurrence(nm)
  <2>1. PICK nm \in Name : TestFirstOccurrence(nm)
    BY <1>12
  <2>2. phase' # "prescan"
    BY <2>1 DEF TestFirstOccurrence, Scanning
  <2> QED BY <1>1, <1>2, <2>1, <2>2, TestFirstOccurrenceStep
<1>13. CASE \E nm \in Name : LabelDeclaration(nm)
  <2>1. PICK nm \in Name : LabelDeclaration(nm)
    BY <1>13
  <2>2. phase' # "prescan"
    BY <2>1 DEF LabelDeclaration, Scanning
  <2> QED BY <1>1, <1>2, <2>1, <2>2, LabelDeclarationStep
<1>14. CASE EnterBlock
  BY <1>1, <1>2, <1>14, EnterBlockStep DEF EnterBlock
<1>15. CASE IntroName
  BY <1>1, <1>2, <1>15, IntroNameStep DEF IntroName, Stop
<1>16. CASE IntroSublist
  BY <1>1, <1>2, <1>16, IntroSublistStep DEF IntroSublist
<1>17. CASE ExitBlock
  BY <1>1, <1>2, <1>17, ExitBlockStep DEF ExitBlock, Scanning
<1>18. CASE ReservationOfArrays
  BY <1>1, <1>2, <1>18, ReservationOfArraysStep DEF ReservationOfArrays
<1>19. CASE WalkEntry
  BY <1>1, <1>2, <1>19, WalkEntryStep DEF WalkEntry
<1>20. CASE WalkPass
  BY <1>1, <1>2, <1>20, WalkPassStep DEF WalkPass
<1>21. CASE StoreTooSmall
  BY <1>1, <1>2, <1>21, StopStep DEF StoreTooSmall, Scanning, Stop
<1>22. CASE UNCHANGED vars
  BY <1>22, StoreStutter
<1> QED BY <1>3, <1>4, <1>5, <1>6, <1>7, <1>8, <1>9, <1>10, <1>11, <1>12, <1>13, <1>14, <1>15,
           <1>16, <1>17, <1>18, <1>19, <1>20, <1>21, <1>22 DEF Next

(* When no place far above the future list is filled before those below    *)
(* it, the regions of the store stay apart and in order, in the prescan    *)
(* and in the main scan, for every program the compiler accepts: every     *)
(* size of store, every shift, and every order of the operations.          *)
THEOREM RegionsStayApart ==
  ASSUME LateFutures = FALSE
  PROVE  Spec => []RegionsApart
<1>1. Init => StoreInv
  BY InitStoreInv
<1>2. StoreInv /\ [Next]_vars => StoreInv'
  BY NextStoreInv
<1>3. StoreInv => RegionsApart
  BY DEF StoreInv, ScanInv
<1> QED BY <1>1, <1>2, <1>3, PTL DEF Spec
=============================================================================

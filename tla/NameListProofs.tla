--------------------------- MODULE NameListProofs ---------------------------
(***************************************************************************)
(* Proofs about the name list of CompilerStore: its entries stand back to  *)
(* back through every operation that shifts, fills, cuts or copies it, and *)
(* reservation_of_arrays, which walks down it, meets the entries only.     *)
(***************************************************************************)
EXTENDS CompilerStoreProofs

-----------------------------------------------------------------------------
(***************************************************************************)
(* A list of entries that is cut at one of them, and the walk down it.     *)
(***************************************************************************)
LEMMA EntriesShorter ==
  ASSUME NEW E, NEW st, NEW base \in Int, NEW n \in Nat, Entries(E, st, base, n), NEW m \in E
  PROVE  Entries({e \in E : e <= m}, st, base, m)
<1> DEFINE F == {e \in E : e <= m}
<1>1. E \subseteq 0 .. n /\ 0 \in E /\ \A e \in E : e \in Nat
  BY DEF Entries
<1>2. F \subseteq 0 .. m /\ 0 \in F /\ m \in F
  <2>1. m \in Nat /\ 0 <= m /\ m <= m
    BY <1>1
  <2>2. ASSUME NEW e \in F PROVE e \in 0 .. m
    <3>1. e \in E /\ e <= m
      OBVIOUS
    <3> HIDE DEF F
    <3> QED BY <1>1, <2>1, <3>1
  <2>3. 0 \in F /\ m \in F
    BY <1>1, <2>1
  <2> HIDE DEF F
  <2> QED BY <2>2, <2>3
<1>3. ASSUME NEW e \in F \ {0}
      PROVE  LET w == st[base + e - 2]
                 s == e - EntryLength(w)
             IN w[1] # "id" /\ s \in F /\ \A f \in F : f < e => f <= s
  <2> DEFINE w == st[base + e - 2]
             s == e - EntryLength(w)
  <2>1. w[1] # "id" /\ s \in E /\ \A f \in E : f < e => f <= s
    BY DEF Entries
  <2>2. s <= m
    <3>1. e \in Int /\ m \in Int /\ e <= m /\ s <= e
      BY <1>1 DEF EntryLength
    <3>2. s \in Int
      <4>1. s \in E
        BY <2>1
      <4> HIDE DEF s
      <4> QED BY <1>1, <4>1
    <3> QED BY <3>1, <3>2
  <2> QED BY <2>1, <2>2
<1> QED BY <1>2, <1>3 DEF Entries

(* The walk down the name list meets every entry. *)
LEMMA EntriesReached ==
  ASSUME nlib \in Int, nlsc \in Nat, NEW E, Entries(E, store, nlib, nlsc)
  PROVE  \A e \in E : nlib + e \in EntryEnds
<1> DEFINE below == [a \in Int |-> BelowEntry(store, a)]
           b == [a \in Int |-> {a}]
           g == [a \in Int |-> [v \in SUBSET Int |-> {a} \cup v]]
           Search(f) ==
             f = [a \in Int |-> IF a <= nlib THEN {a} ELSE {a} \cup f[BelowEntry(store, a)]]
<1>1. /\ b \in [Int -> SUBSET Int] /\ g \in [Int -> [SUBSET Int -> SUBSET Int]]
      /\ below \in [Int -> Int] /\ \A a \in Int : below[a] < a
  <2>1. \A a \in Int : a - 3 \in Int /\ a - 2 \in Int /\ a - 3 < a /\ a - 2 < a
    OBVIOUS
  <2> QED BY <2>1 DEF BelowEntry
<1>2. PICK f \in [Int -> SUBSET Int] :
        f = [a \in Int |-> IF a <= nlib THEN b[a] ELSE g[a][f[below[a]]]]
  <2> HIDE DEF b, g, below
  <2>1. \E f \in [Int -> SUBSET Int] : Searches(f, nlib, b, g, below)
    BY <1>1, Downwards
  <2> QED BY <2>1, Zenon DEF Searches
<1>3. \A a \in Int : /\ b[a] = {a} /\ below[a] = BelowEntry(store, a) /\ below[a] \in Int
                     /\ g[a][f[below[a]]] = {a} \cup f[below[a]]
  BY <1>1
<1>4. Search(f)
  <2>1. \A a \in Int : f[a] = IF a <= nlib THEN {a} ELSE {a} \cup f[BelowEntry(store, a)]
    <3> HIDE DEF b, g, below
    <3> QED BY <1>2, <1>3
  <2>2. f = [a \in Int |-> f[a]]
    OBVIOUS
  <2> QED BY <2>1, <2>2
<1> DEFINE ends == CHOOSE h : Search(h)
<1>5. Search(ends)
  <2> HIDE DEF Search
  <2> QED BY <1>4
<1>6. EntryEnds = ends[NameListEnd]
  BY Zenon DEF EntryEnds
<1>7. \A a \in Int : ends[a] = IF a <= nlib THEN {a} ELSE {a} \cup ends[BelowEntry(store, a)]
  <2> HIDE DEF ends
  <2> QED BY <1>5
<1> HIDE DEF ends, Search
<1> DEFINE Bad == {e \in E : \E d \in E : d <= e /\ nlib + d \notin ends[nlib + e]}
<1>8. E \subseteq 0 .. nlsc
  BY DEF Entries
<1>9. Bad = {}
  <2> SUFFICES ASSUME Bad # {} PROVE FALSE
    OBVIOUS
  <2>1. PICK e \in Bad : \A k \in Bad : e <= k
    <3>1. Bad \in SUBSET Nat
      <4>1. \A e \in E : e \in Nat
        BY <1>8
      <4>2. \A e \in Bad : e \in E
        OBVIOUS
      <4> HIDE DEF Bad
      <4> QED BY <4>1, <4>2
    <3> HIDE DEF Bad
    <3> QED BY <3>1, Least
  <2>2. PICK d \in E : d <= e /\ nlib + d \notin ends[nlib + e]
    OBVIOUS
  <2>3. e \in E /\ e \in Nat /\ d \in Nat /\ nlib + e \in Int
    BY <1>8
  <2>4. nlib + e \in ends[nlib + e]
    BY <1>7, <2>3
  <2>5. d # e /\ d < e /\ e # 0
    BY <2>2, <2>3, <2>4
  <2> DEFINE s == e - EntryLength(store[nlib + e - 2])
  <2>6. s \in E /\ d <= s
    BY <2>3, <2>5 DEF Entries
  <2>7. BelowEntry(store, nlib + e) = nlib + s /\ s < e
    BY <2>3 DEF BelowEntry, EntryLength
  <2>8. nlib + d \in ends[nlib + s]
    <3>1. s \notin Bad
      <4>1. s \in Nat
        BY <1>8, <2>6
      <4> HIDE DEF Bad, s
      <4> QED BY <2>1, <2>3, <2>7, <4>1
    <3> QED BY <2>6, <3>1
  <2>9. ~ (nlib + e <= nlib)
    BY <2>3, <2>5
  <2> HIDE DEF s, Bad
  <2> QED BY <1>7, <2>2, <2>3, <2>7, <2>8, <2>9
<1>10. nlsc \in E /\ NameListEnd = nlib + nlsc
  BY DEF Entries, NameListEnd
<1> QED BY <1>6, <1>8, <1>9, <1>10

-----------------------------------------------------------------------------
(***************************************************************************)
(* The invariant: some set of lengths divides the list into its entries,   *)
(* the lengths the open blocks return to are among them, and the walk,     *)
(* once reservation_of_arrays has begun, stands between the two.           *)
(***************************************************************************)
WalkWithin(E) ==
  /\ scopes # << >> /\ walk.rlaa = nlib + scopes[Len(scopes)].names
  /\ walk.rlaa <= walk.rlab /\ walk.rlab - nlib \in E

ListedIn(E) ==
  /\ Entries(E, store, nlib, nlsc)
  /\ \A i \in DOMAIN scopes : scopes[i].names \in E
  /\ phase = "walk" => WalkWithin(E)

NamesListed == phase # "prescan" => \E E : ListedIn(E)

(* An operation that may move the list, and that writes ids in it at most. *)
LEMMA NamesKept ==
  ASSUME NamesListed, phase # "prescan", nlib \in Int, nlib' \in Int, nlsc \in Nat,
         UNCHANGED <<nlsc, scopes>>,
         phase' = "walk" => phase = "walk" /\ UNCHANGED <<walk, nlib>>,
         \A k \in 0 .. nlsc - 1 : store[nlib + k][1] # "id" => store'[nlib' + k] = store[nlib + k]
  PROVE  NamesListed'
<1>1. PICK E : ListedIn(E)
  BY DEF NamesListed
<1>2. Entries(E, store', nlib', nlsc)
  BY <1>1, EntriesKept DEF ListedIn
<1>3. ListedIn(E)'
  BY <1>1, <1>2 DEF ListedIn, WalkWithin
<1> QED BY <1>3 DEF NamesListed

LEMMA MovedAt ==
  ASSUME NEW st, NEW from \in Int, NEW to \in Int, NEW d \in Int,
         NEW a \in Int, from <= a, a <= to, a + d \in Address
  PROVE  Moved(st, from, to, d)[a + d] = st[a]
<1>1. a + d \in from + d .. to + d /\ a + d - d = a
  OBVIOUS
<1> QED BY <1>1 DEF Moved

LEMMA WithElsewhere ==
  ASSUME NEW st, NEW x \in Int, NEW ws, Len(ws) \in Nat, NEW a \in Address,
         a < x \/ x + Len(ws) <= a
  PROVE  With(st, x, ws)[a] = st[a]
<1>1. a \in Int
  BY StoreAssumption DEF Address
<1>2. a \notin x .. x + Len(ws) - 1
  BY <1>1
<1> QED BY <1>2 DEF With

-----------------------------------------------------------------------------
(***************************************************************************)
(* What each operation of the scan leaves of the list.                     *)
(***************************************************************************)
LEMMA StreamNames ==
  ASSUME ScanInv, phase \in {"scan", "walk"}, StreamWord
  PROVE  \A k \in 0 .. nlsc - 1 : WithStream(store)[nlib' + k] = store[nlib + k]
<1> SUFFICES ASSUME NEW k \in 0 .. nlsc - 1
             PROVE  WithStream(store)[nlib' + k] = store[nlib + k]
  OBVIOUS
<1> DEFINE st1 == [store EXCEPT ![rnsb] = Stream(rnsb - Bim)]
<1>1. /\ rnsb \in Int /\ rnsd \in Int /\ nlib \in Int /\ plib \in Int /\ nlsc \in Nat /\ k \in Nat
      /\ Bim <= rnsb /\ rnsb < rnsd /\ rnsd <= nlib /\ nlib + nlsc <= plib /\ plib <= Plie
      /\ Bim \in Int /\ Plie \in Int /\ StreamShift \in Nat /\ k < nlsc
  <2>1. /\ rnsb \in Int /\ rnsd \in Int /\ nlib \in Int /\ plib \in Int /\ nlsc \in Nat
        /\ flib \in Int /\ klib \in Int /\ klsc \in Nat
        /\ Bim <= rnsb /\ rnsb < rnsd /\ rnsd <= flib /\ flib < klib
        /\ klib + klsc <= nlib /\ nlib + nlsc <= plib /\ plib <= Plie
    BY ScanNumbers DEF Lowest
  <2>2. rnsd <= nlib
    BY <2>1
  <2> QED BY <2>1, <2>2, StoreAssumption, ShiftAssumption
<1>2. st1[nlib + k] = store[nlib + k]
  <2>1. nlib + k # rnsb
    BY <1>1
  <2> QED BY <2>1
<1> HIDE DEF st1
<1>3. CASE Overtakes
  <2>1. nlib + nlsc + StreamShift < plib /\ nlib' = nlib + StreamShift
    BY <1>1, <1>3 DEF StreamWord, StreamOverflow, NoRoom, NameListEnd
  <2>2. (nlib + k) + StreamShift \in Address /\ nlib' + k = (nlib + k) + StreamShift
    BY <1>1, <2>1 DEF Address
  <2>3. NameListEnd - 1 \in Int /\ rnsd <= nlib + k /\ nlib + k <= NameListEnd - 1
    BY <1>1 DEF NameListEnd
  <2>4. Moved(st1, rnsd, NameListEnd - 1, StreamShift)[(nlib + k) + StreamShift] = st1[nlib + k]
    BY <1>1, <2>2, <2>3, MovedAt
  <2> QED BY <1>2, <1>3, <2>2, <2>4 DEF WithStream, st1
<1>4. CASE ~ Overtakes
  BY <1>2, <1>4 DEF StreamWord, WithStream, st1
<1> QED BY <1>3, <1>4

LEMMA FutureNames ==
  ASSUME LateFutures = FALSE, ScanInv, phase \in {"scan", "walk"},
         NEW p \in Int, NEW end \in Int, nlib <= end, end <= NameListEnd, FillFutureList(p, end)
  PROVE  \A k \in Nat : nlib + k < end => WithFuture(p, end)[nlib' + k] = store[nlib + k]
<1> SUFFICES ASSUME NEW k \in Nat, nlib + k < end
             PROVE  WithFuture(p, end)[nlib' + k] = store[nlib + k]
  OBVIOUS
<1>1. /\ flib \in Int /\ klib \in Int /\ nlib \in Int /\ plib \in Int /\ k \in Nat
      /\ klib <= nlib /\ nlib + k < end /\ end <= plib /\ plib <= Plie /\ Bim <= nlib
      /\ Bim \in Int /\ Plie \in Int /\ ListShift \in Nat
  <2>1. /\ rnsb \in Int /\ rnsd \in Int /\ nlib \in Int /\ plib \in Int /\ nlsc \in Nat
        /\ flib \in Int /\ klib \in Int /\ klsc \in Nat
        /\ Bim <= rnsb /\ rnsb < rnsd /\ rnsd <= flib /\ flib < klib
        /\ klib + klsc <= nlib /\ nlib + nlsc <= plib /\ plib <= Plie
    BY ScanNumbers DEF Lowest
  <2>2. klib <= nlib /\ Bim <= nlib /\ end <= plib /\ k \in Nat /\ nlib + k < end
    BY <2>1, StoreAssumption DEF NameListEnd
  <2> QED BY <2>1, <2>2, StoreAssumption, ShiftAssumption
<1> DEFINE st == IF Displaces(p) THEN Moved(store, klib, end - 1, ListShift) ELSE store
<1>2. st[nlib' + k] = store[nlib + k] /\ flib + p < nlib'
  <2>1. CASE Displaces(p)
    <3>1. nlib' = nlib + ListShift /\ end + ListShift < plib /\ flib + p < klib + ListShift
      BY <2>1 DEF FillFutureList, FutureRoom
    <3>2. (nlib + k) + ListShift \in Address /\ nlib' + k = (nlib + k) + ListShift
      BY <1>1, <3>1 DEF Address
    <3>3. klib <= nlib + k /\ nlib + k <= end - 1
      BY <1>1
    <3>4. Moved(store, klib, end - 1, ListShift)[(nlib + k) + ListShift] = store[nlib + k]
      <4>1. klib \in Int /\ end - 1 \in Int /\ ListShift \in Int /\ nlib + k \in Int
        BY <1>1
      <4>2. \A to \in Int, a \in Int : klib <= a /\ a <= to /\ a + ListShift \in Address
              => Moved(store, klib, to, ListShift)[a + ListShift] = store[a]
        BY <4>1, MovedAt
      <4> QED BY <3>2, <3>3, <4>1, <4>2
    <3> QED BY <1>1, <2>1, <3>1, <3>2, <3>4
  <2>2. CASE ~ Displaces(p)
    BY <1>1, <2>2 DEF FillFutureList, Displaces
  <2> QED BY <2>1, <2>2
<1>3. nlib' \in Int
  BY <1>1 DEF FillFutureList
<1>4. nlib' + k # flib + p
  <2>1. \A x, y \in Int : x < y => y + k # x
    OBVIOUS
  <2>2. flib + p < nlib' /\ flib + p \in Int
    BY <1>1, <1>2
  <2> HIDE DEF st
  <2> QED BY <1>3, <2>1, <2>2
<1>5. [st EXCEPT ![flib + p] = Future(p)][nlib' + k] = st[nlib' + k]
  <2> HIDE DEF st
  <2> QED BY <1>4
<1> QED BY <1>2, <1>5 DEF WithFuture

LEMMA ConstantNames ==
  ASSUME ScanInv, phase = "scan", NEW d \in {0, ListShift}, NEW n \in 1 .. ListShift,
         d = ListShift => ~ NoRoom(ListShift), d = 0 => klib + klsc + n <= nlib,
         NEW ws, Len(ws) = n
  PROVE  \A k \in 0 .. nlsc - 1 :
           With(NamesMoved(d), klib + klsc, ws)[(nlib + d) + k] = store[nlib + k]
<1> SUFFICES ASSUME NEW k \in 0 .. nlsc - 1
             PROVE  With(NamesMoved(d), klib + klsc, ws)[(nlib + d) + k] = store[nlib + k]
  OBVIOUS
<1>1. /\ klib \in Int /\ klsc \in Nat /\ nlib \in Int /\ plib \in Int /\ nlsc \in Nat
      /\ Bim <= nlib /\ klib + klsc <= nlib /\ nlib + nlsc <= plib /\ plib <= Plie
      /\ Bim \in Int /\ Plie \in Int /\ ListShift \in Nat /\ d \in Nat /\ n \in Nat
      /\ k \in Nat /\ k < nlsc
  <2>1. /\ rnsb \in Int /\ rnsd \in Int /\ nlib \in Int /\ plib \in Int /\ nlsc \in Nat
        /\ flib \in Int /\ klib \in Int /\ klsc \in Nat
        /\ Bim <= rnsb /\ rnsb < rnsd /\ rnsd <= flib /\ flib < klib
        /\ klib + klsc <= nlib /\ nlib + nlsc <= plib /\ plib <= Plie
    BY ScanNumbers DEF Lowest
  <2>2. Bim <= nlib
    BY <2>1, StoreAssumption
  <2> QED BY <2>1, <2>2, StoreAssumption, ShiftAssumption
<1>2. nlib + nlsc + d <= plib /\ klib + klsc + n <= nlib + d
  BY <1>1 DEF NoRoom, NameListEnd
<1>3. (nlib + k) + d \in Address /\ (nlib + d) + k = (nlib + k) + d
  BY <1>1, <1>2 DEF Address
<1>4. NamesMoved(d)[(nlib + k) + d] = store[nlib + k]
  <2>1. NameListEnd - 1 \in Int /\ nlib <= nlib + k /\ nlib + k <= NameListEnd - 1
        /\ nlib + k \in Int
    BY <1>1 DEF NameListEnd
  <2> QED BY <1>1, <1>3, <2>1, MovedAt DEF NamesMoved
<1>5. With(NamesMoved(d), klib + klsc, ws)[(nlib + k) + d] = NamesMoved(d)[(nlib + k) + d]
  <2>1. klib + klsc + Len(ws) <= (nlib + k) + d /\ klib + klsc \in Int /\ Len(ws) \in Nat
    BY <1>1, <1>2
  <2> QED BY <1>3, <2>1, WithElsewhere
<1> QED BY <1>3, <1>4, <1>5

LEMMA SameNames ==
  ASSUME ScanInv, NamesListed, phase # "prescan", UNCHANGED <<store, nlib, nlsc, scopes>>,
         phase' = "walk" => phase = "walk" /\ UNCHANGED walk
  PROVE  NamesListed'
<1>1. nlib \in Int /\ nlsc \in Nat
  BY DEF ScanInv, TypeOK
<1> QED BY <1>1, NamesKept

LEMMA BitStringMakerNames ==
  ASSUME ScanInv, NamesListed, BitStringMaker
  PROVE  NamesListed'
<1>1. phase = "scan" /\ StreamWord /\ store' = WithStream(store) /\ UNCHANGED <<plib, phase, klsc, nlsc, scopes>>
  BY DEF BitStringMaker, Scanning
<1>2. nlib \in Int /\ nlsc \in Nat /\ nlib' \in Int
  BY <1>1, StreamRegions DEF ScanInv, TypeOK
<1>3. \A k \in 0 .. nlsc - 1 : store'[nlib' + k] = store[nlib + k]
  BY <1>1, StreamNames
<1> QED BY <1>1, <1>2, <1>3, NamesKept

LEMMA ResolveFutureNames ==
  ASSUME LateFutures = FALSE, ScanInv, NamesListed, NEW p \in open, ResolveFuture(p)
  PROVE  NamesListed'
<1>1. /\ phase = "scan" /\ FillFutureList(p, NameListEnd) /\ store' = WithFuture(p, NameListEnd)
      /\ UNCHANGED <<phase, nlsc, scopes>> /\ p \in Int
  BY DEF ResolveFuture, Scanning, ScanInv, TypeOK
<1>2. nlib \in Int /\ nlsc \in Nat /\ nlib' \in Int /\ NameListEnd = nlib + nlsc
      /\ NameListEnd \in Int /\ nlib <= NameListEnd /\ NameListEnd <= NameListEnd
  <2>1. nlib \in Int /\ nlsc \in Nat
    BY DEF ScanInv, TypeOK
  <2>2. nlib' \in Int
    BY <1>1, <2>1, ShiftAssumption DEF FillFutureList
  <2> QED BY <2>1, <2>2 DEF NameListEnd
<1>3. \A k \in Nat : nlib + k < NameListEnd => store'[nlib' + k] = store[nlib + k]
  BY <1>1, <1>2, FutureNames
<1>4. \A k \in 0 .. nlsc - 1 : store'[nlib' + k] = store[nlib + k]
  BY <1>2, <1>3
<1> QED BY <1>1, <1>2, <1>4, NamesKept

LEMMA LookForConstantNames ==
  ASSUME ScanInv, NamesListed, NEW c \in Constant, LookForConstant(c)
  PROVE  NamesListed'
<1> DEFINE d  == IF ConstantRoom(c) THEN 0 ELSE ListShift
           ws == [k \in DOMAIN c |-> Value(c[k])]
           n  == Len(c)
<1>1. /\ phase = "scan" /\ nlib' = nlib + d /\ store' = With(NamesMoved(d), klib + klsc, ws)
      /\ ConstantRoom(c) \/ ~ NoRoom(ListShift)
      /\ UNCHANGED <<phase, nlsc, scopes>>
  BY DEF LookForConstant, Scanning
<1>2. n \in 1 .. ListShift /\ Len(ws) = n /\ d \in {0, ListShift}
  <2>1. n \in {1, 2} /\ DOMAIN c = 1 .. n
    BY ConstantAssumption
  <2>2. n \in 1 .. ListShift /\ n \in Nat
    <3> HIDE DEF n
    <3>1. ListShift \in Nat /\ 2 <= ListShift
      BY ShiftAssumption
    <3> QED BY <2>1, <3>1
  <2>3. Len(ws) = n
    <3>1. ws = [k \in 1 .. n |-> Value(c[k])]
      BY <2>1
    <3> HIDE DEF n, ws
    <3> QED BY <2>2, <3>1
  <2> QED BY <2>2, <2>3
<1>3. /\ d = ListShift => ~ NoRoom(ListShift)
      /\ d = 0 => klib + klsc + n <= nlib
  <2>1. ListShift # 0
    BY ShiftAssumption
  <2>2. /\ d = ListShift => ~ ConstantRoom(c)
        /\ d = 0 => ConstantRoom(c)
    BY <2>1
  <2>3. ConstantRoom(c) => klib + klsc + n <= nlib
    BY <1>1, ScanNumbers DEF ConstantRoom
  <2> QED BY <1>1, <2>2, <2>3
<1> HIDE DEF d, ws, n
<1>4. nlib \in Int /\ nlsc \in Nat /\ nlib' \in Int
  <2>1. nlib \in Int /\ nlsc \in Nat /\ d \in Int
    BY <1>1, <1>2, ScanNumbers, ShiftAssumption
  <2> QED BY <1>1, <2>1
<1>5. \A k \in 0 .. nlsc - 1 : store'[nlib' + k] = store[nlib + k]
  BY <1>1, <1>2, <1>3, ConstantNames
<1> QED BY <1>1, <1>4, <1>5, NamesKept

LEMMA FillConstantListNames ==
  ASSUME ScanInv, NamesListed, NEW n, FillConstantList(n)
  PROVE  NamesListed'
<1> DEFINE d  == IF klib + klsc = nlib THEN ListShift ELSE 0
           ws == <<Value(n)>>
<1>1. /\ phase = "scan" /\ nlib' = nlib + d
      /\ store' = [NamesMoved(d) EXCEPT ![klib + klsc] = Value(n)]
      /\ klib + klsc = nlib => ~ NoRoom(ListShift)
      /\ UNCHANGED <<phase, nlsc, scopes>>
  BY DEF FillConstantList, Scanning
<1>2. 1 \in 1 .. ListShift /\ Len(ws) = 1 /\ d \in {0, ListShift}
  BY ShiftAssumption
<1>3. /\ d = ListShift => ~ NoRoom(ListShift)
      /\ d = 0 => klib + klsc + 1 <= nlib
  <2>1. ListShift # 0
    BY ShiftAssumption
  <2> QED BY <1>1, <2>1, ScanNumbers
<1>4. store' = With(NamesMoved(d), klib + klsc, ws)
  <2>1. NamesMoved(d) = [a \in Address |-> NamesMoved(d)[a]]
    BY DEF NamesMoved, Moved
  <2>2. klib + klsc \in Int
    BY ScanNumbers, <1>1
  <2> HIDE DEF d
  <2> QED BY <1>1, <2>1, <2>2, SetIsWith
<1> HIDE DEF d, ws
<1>5. nlib \in Int /\ nlsc \in Nat /\ nlib' \in Int
  BY <1>1, <1>2, ShiftAssumption DEF ScanInv, TypeOK
<1>6. \A k \in 0 .. nlsc - 1 : store'[nlib' + k] = store[nlib + k]
  <2>1. \A k \in 0 .. nlsc - 1 :
          With(NamesMoved(d), klib + klsc, ws)[(nlib + d) + k] = store[nlib + k]
    <3>1. PICK one \in 1 .. ListShift : one = 1
      BY <1>2
    <3>2. Len(ws) = one /\ (d = 0 => klib + klsc + one <= nlib)
      BY <1>2, <1>3, <3>1
    <3>3. phase = "scan"
      BY <1>1
    <3> QED BY <1>2, <1>3, <3>2, <3>3, ConstantNames
  <2> QED BY <1>1, <1>4, <2>1
<1> QED BY <1>1, <1>5, <1>6, NamesKept

(* The last word but one of an entry tells how long it is. *)
LEMMA NamesLonger ==
  ASSUME ScanInv, NamesListed, phase # "prescan", phase' # "walk",
         NEW ws, NEW n \in {2, 3}, Len(ws) = n, ws[n - 1][1] # "id", EntryLength(ws[n - 1]) = n,
         NameListEnd + n <= Plie + 1,
         store' = With(store, NameListEnd, ws), nlsc' = nlsc + n, UNCHANGED <<nlib, scopes>>
  PROVE  NamesListed'
<1>1. PICK E : ListedIn(E)
  BY DEF NamesListed
<1>2. /\ nlib \in Int /\ nlsc \in Nat /\ NameListEnd = nlib + nlsc /\ n \in Nat /\ 2 <= n
      /\ Bim <= nlib /\ Bim \in Int /\ Plie \in Int
  <2>1. /\ rnsb \in Int /\ rnsd \in Int /\ nlib \in Int /\ nlsc \in Nat
        /\ flib \in Int /\ klib \in Int /\ klsc \in Nat
        /\ Bim <= rnsb /\ rnsb < rnsd /\ rnsd <= flib /\ flib < klib /\ klib + klsc <= nlib
    BY ScanNumbers
  <2> QED BY <2>1, StoreAssumption DEF NameListEnd
<1>3. \A k \in 0 .. nlsc - 1 : store'[nlib + k] = store[nlib + k]
  <2> SUFFICES ASSUME NEW k \in 0 .. nlsc - 1 PROVE store'[nlib + k] = store[nlib + k]
    OBVIOUS
  <2>1. nlib + k \in Address /\ nlib + k < NameListEnd
    BY <1>2 DEF Address
  <2> QED BY <1>2, <2>1, WithElsewhere
<1>4. store'[nlib + nlsc' - 2] = ws[n - 1]
  <2>1. nlib + nlsc' - 2 \in Address /\ nlib + nlsc' - 2 \in NameListEnd .. NameListEnd + n - 1
        /\ (nlib + nlsc' - 2) - NameListEnd + 1 = n - 1
    BY <1>2 DEF Address
  <2> QED BY <2>1 DEF With
<1>5. nlsc' \in Nat /\ nlsc' = nlsc + EntryLength(store'[nlib + nlsc' - 2])
      /\ store'[nlib + nlsc' - 2][1] # "id"
  BY <1>2, <1>4
<1>6. PICK m : m = nlsc'
  OBVIOUS
<1>7. Entries(E \cup {m}, store', nlib, m)
  <2>1. Entries(E, store, nlib, nlsc)
    BY <1>1 DEF ListedIn
  <2>2. m \in Nat /\ m = nlsc + EntryLength(store'[nlib + m - 2]) /\ store'[nlib + m - 2][1] # "id"
    BY <1>5, <1>6
  <2>3. nlib \in Int /\ nlsc \in Nat
    BY <1>2
  <2>4. ASSUME NEW st2, \A k \in 0 .. nlsc - 1 : st2[nlib + k] = store[nlib + k],
               st2[nlib + m - 2][1] # "id", m = nlsc + EntryLength(st2[nlib + m - 2])
        PROVE  Entries(E \cup {m}, st2, nlib, m)
    BY <2>1, <2>2, <2>3, <2>4, EntriesLonger, ZenonT(40)
  <2> QED BY <1>3, <2>2, <2>4
<1>8. ListedIn(E \cup {m})'
  BY <1>1, <1>6, <1>7 DEF ListedIn
<1> QED BY <1>8 DEF NamesListed

LEMMA FillNameListNames ==
  ASSUME ScanInv, NamesListed, NEW nm, NEW kind, FillNameList(nm, kind)
  PROVE  NamesListed'
<1>1. /\ phase = "scan" /\ nlsc' = nlsc + Size(nm) /\ NameListEnd + Size(nm) <= plib
      /\ store' = With(store, NameListEnd, Entry(nm, Id(kind, 0)))
      /\ UNCHANGED <<phase, nlib, scopes>>
  BY DEF FillNameList, Scanning
<1>2. NameListEnd + Size(nm) <= Plie + 1
  <2>1. plib \in Int /\ plib <= Plie /\ Plie \in Int /\ NameListEnd \in Int /\ Size(nm) \in Int
    BY <1>1, ScanNumbers, StoreAssumption, EntrySize DEF NameListEnd
  <2> QED BY <1>1, <2>1
<1> DEFINE ws == Entry(nm, Id(kind, 0))
<1>3. /\ Size(nm) \in {2, 3} /\ Len(ws) = Size(nm) /\ ws[Size(nm) - 1][1] # "id"
      /\ EntryLength(ws[Size(nm) - 1]) = Size(nm)
  BY EntryWord
<1> HIDE DEF ws
<1> QED BY <1>1, <1>2, <1>3, NamesLonger DEF ws

LEMMA Joined ==
  ASSUME NEW x, NEW y, NEW z
  PROVE  <<x>> \o <<y, z>> = <<x, y, z>> /\ << >> \o <<y, z>> = <<y, z>>
<1> DEFINE S == {x, y, z}
<1>1. <<x>> \in Seq(S) /\ <<y, z>> \in Seq(S) /\ << >> \in Seq(S)
  OBVIOUS
<1>2. \A p, q \in Seq(S) :
        /\ p \o q \in Seq(S) /\ Len(p \o q) = Len(p) + Len(q)
        /\ \A i \in 1 .. Len(p) + Len(q) :
             (p \o q)[i] = IF i <= Len(p) THEN p[i] ELSE q[i - Len(p)]
  OBVIOUS
<1>3. <<x>> \o <<y, z>> = <<x, y, z>>
  <2> DEFINE p == <<x>> \o <<y, z>>
  <2>1. p \in Seq(S) /\ Len(p) = 3
    BY <1>1, <1>2
  <2>2. p[1] = x /\ p[2] = y /\ p[3] = z
    BY <1>1, <1>2
  <2> HIDE DEF p
  <2>3. p = <<x, y, z>>
    BY <2>1, <2>2
  <2> QED BY <2>3 DEF p
<1>4. << >> \o <<y, z>> = <<y, z>>
  <2> DEFINE p == << >> \o <<y, z>>
  <2>1. p \in Seq(S) /\ Len(p) = 2
    BY <1>1, <1>2
  <2>2. p[1] = y /\ p[2] = z
    BY <1>1, <1>2
  <2> HIDE DEF p
  <2>3. p = <<y, z>>
    BY <2>1, <2>2
  <2> QED BY <2>3 DEF p
<1> QED BY <1>3, <1>4

LEMMA IntroNameNames ==
  ASSUME ScanInv, NamesListed, IntroName
  PROVE  NamesListed'
<1> DEFINE w == store[intro.i]
           long == IsLong(w)
           ws == (IF long THEN <<store[intro.i + 1]>> ELSE << >>) \o <<w, Id("label", 0)>>
           next == intro.i + (IF long THEN 2 ELSE 1)
           n == EntryLength(w)
<1>1. phase = "intro" /\ intro.i # plib
  BY DEF IntroName
<1>2. CASE Stop
  BY <1>1, <1>2, SameNames DEF Stop, scanVars, lists
<1>3. CASE /\ ~ (NameListEnd + Len(ws) > next)
           /\ store' = With(store, NameListEnd, ws)
           /\ nlsc' = nlsc + Len(ws) /\ UNCHANGED <<phase, nlib, scopes>>
  <2>1. n \in {2, 3} /\ Len(ws) = n /\ ws[n - 1] = w
    <3>1. CASE long
      <4>1. ws = <<store[intro.i + 1], w, Id("label", 0)>> /\ n = 3
        <5>1. ws = <<store[intro.i + 1]>> \o <<w, Id("label", 0)>>
          BY <3>1
        <5> HIDE DEF ws
        <5> QED BY <3>1, <5>1, Joined DEF EntryLength
      <4> HIDE DEF ws, n, w
      <4> QED BY <4>1
    <3>2. CASE ~ long
      <4>1. ws = <<w, Id("label", 0)>> /\ n = 2
        <5>1. ws = << >> \o <<w, Id("label", 0)>>
          BY <3>2
        <5> HIDE DEF ws
        <5> QED BY <3>2, <5>1, Joined DEF EntryLength
      <4> HIDE DEF ws, n, w
      <4> QED BY <4>1
    <3> HIDE DEF ws, n
    <3> QED BY <3>1, <3>2
  <2>2. intro.i \in Int /\ plib \in Int /\ intro.i <= plib /\ plib <= Plie /\ Plie \in Int
        /\ NameListEnd \in Int /\ Lowest = intro.i
    <3>1. intro.i \in Int /\ Lowest = intro.i
      BY <1>1 DEF ScanInv, TypeOK, Lowest
    <3>2. plib \in Int /\ Lowest <= plib /\ plib <= Plie /\ nlib \in Int /\ nlsc \in Nat
      BY <1>1, ScanNumbers
    <3> QED BY <3>1, <3>2, StoreAssumption DEF NameListEnd
  <2>3. w[1] # "id"
    <3>1. PICK L : Listing(L)
      BY DEF ScanInv, ListInPlace
    <3>2. intro.i \in Lowest .. Plie
      BY <2>2
    <3> QED BY <3>1, <3>2 DEF Listing, HoldsNames
  <2>4. NameListEnd + n <= Plie + 1
    <3>1. next \in Int /\ next <= Plie + 1
      <4>1. intro.i < Plie
        BY <1>1, <2>2
      <4> HIDE DEF w
      <4> QED BY <2>2, <4>1
    <3>2. ~ (NameListEnd + n > next)
      BY <1>3, <2>1
    <3> HIDE DEF next, n
    <3> QED BY <2>1, <2>2, <3>1, <3>2
  <2>5. ws[n - 1][1] # "id" /\ EntryLength(ws[n - 1]) = n
    BY <2>1, <2>3
  <2> HIDE DEF ws, n, next
  <2> QED BY <1>1, <1>3, <2>1, <2>4, <2>5, NamesLonger
<1> QED
  <2>1. IF NameListEnd + Len(ws) > next
        THEN Stop
        ELSE /\ store' = With(store, NameListEnd, ws)
             /\ nlsc' = nlsc + Len(ws) /\ UNCHANGED <<phase, nlib, scopes>>
    BY DEF IntroName
  <2> HIDE DEF ws, next
  <2> QED BY <1>2, <1>3, <2>1

LEMMA TestFirstOccurrenceNames ==
  ASSUME LateFutures = FALSE, ScanInv, NamesListed, NEW nm, TestFirstOccurrence(nm)
  PROVE  NamesListed'
<1> DEFINE nid == LookForName(nm)
           mcp == nid <= Len(Prefill)
           st  == IF mcp THEN WithFuture(flsc, NameListEnd) ELSE store
<1>1. /\ phase = "scan" /\ store[nlib + nid] = Id("label", 0)
      /\ IF mcp THEN FillFutureList(flsc, NameListEnd)
                ELSE UNCHANGED <<klib, nlib>>
      /\ store' = [st EXCEPT ![nlib' + nid] = Id("future", flsc)]
      /\ UNCHANGED <<phase, nlsc, scopes>>
  BY DEF TestFirstOccurrence, Scanning
<1>2. /\ nid \in -1 .. nlsc - 1 /\ nlsc \in Nat /\ nlib \in Int /\ flsc \in Int
      /\ NameListEnd \in Int /\ nlib <= NameListEnd /\ NameListEnd = nlib + nlsc
      /\ NameListEnd <= NameListEnd
  <2>1. nlsc \in Nat /\ nlib \in Int /\ flsc \in Int
    BY <1>1, ScanNumbers
  <2>2. nid \in -1 .. nlsc - 1
    BY <2>1, LookForNameInside
  <2> HIDE DEF nid
  <2> QED BY <2>1, <2>2 DEF NameListEnd
<1> HIDE DEF nid
<1>3. nlib' \in Int /\ \A k \in 0 .. nlsc - 1 : st[nlib' + k] = store[nlib + k]
  <2>1. CASE mcp
    <3>1. FillFutureList(flsc, NameListEnd)
      BY <1>1, <2>1
    <3>2. \A k \in Nat : nlib + k < NameListEnd =>
                           WithFuture(flsc, NameListEnd)[nlib' + k] = store[nlib + k]
      BY <1>1, <1>2, <3>1, FutureNames
    <3>3. nlib' \in Int
      BY <1>2, <3>1, ShiftAssumption DEF FillFutureList
    <3>4. \A k \in 0 .. nlsc - 1 : k \in Nat /\ nlib + k < NameListEnd
      BY <1>2
    <3> QED BY <2>1, <3>2, <3>3, <3>4
  <2>2. CASE ~ mcp
    BY <1>1, <1>2, <2>2
  <2> QED BY <2>1, <2>2
<1> HIDE DEF st, mcp
<1>4. \A k \in 0 .. nlsc - 1 : store[nlib + k][1] # "id" => store'[nlib' + k] = store[nlib + k]
  <2> SUFFICES ASSUME NEW k \in 0 .. nlsc - 1, store[nlib + k][1] # "id"
               PROVE  store'[nlib' + k] = store[nlib + k]
    OBVIOUS
  <2>1. Id("label", 0)[1] = "id"
    BY DEF Id
  <2>2. k # nid
    BY <1>1, <2>1
  <2>3. \A x, y, z \in Int : y # z => x + y # x + z
    OBVIOUS
  <2>4. nlib' + k # nlib' + nid
    <3>1. k \in Int /\ nid \in Int
      BY <1>2
    <3> QED BY <1>3, <2>2, <2>3, <3>1
  <2>5. store'[nlib' + k] = st[nlib' + k]
    BY <1>1, <2>4
  <2> QED BY <1>3, <2>5
<1> QED BY <1>1, <1>2, <1>3, <1>4, NamesKept

LEMMA LabelDeclarationNames ==
  ASSUME LateFutures = FALSE, ScanInv, NamesListed, NEW nm, LabelDeclaration(nm)
  PROVE  NamesListed'
<1> DEFINE nid == LookForName(nm)
           id  == store[nlib + nid]
<1>1. phase = "scan" /\ UNCHANGED <<phase, nlsc, scopes>>
  BY DEF LabelDeclaration, Scanning
<1>2. \/ /\ id = Id("label", 0) /\ store' = [store EXCEPT ![nlib + nid] = Id("address", 0)]
         /\ UNCHANGED nlib
      \/ /\ id[3] \in open /\ FillFutureList(id[3], NameListEnd)
         /\ store' = WithFuture(id[3], NameListEnd)
  BY DEF LabelDeclaration
<1>3. /\ nid \in -1 .. nlsc - 1 /\ nlsc \in Nat /\ nlib \in Int
      /\ NameListEnd \in Int /\ nlib <= NameListEnd /\ NameListEnd = nlib + nlsc
      /\ NameListEnd <= NameListEnd
  <2>1. nlsc \in Nat /\ nlib \in Int
    BY <1>1, ScanNumbers
  <2>2. nid \in -1 .. nlsc - 1
    BY <2>1, LookForNameInside
  <2> HIDE DEF nid
  <2> QED BY <2>1, <2>2 DEF NameListEnd
<1> HIDE DEF nid
<1>4. CASE /\ id = Id("label", 0) /\ store' = [store EXCEPT ![nlib + nid] = Id("address", 0)]
           /\ UNCHANGED nlib
  <2>1. ASSUME NEW k \in 0 .. nlsc - 1, store[nlib + k][1] # "id"
        PROVE  store'[nlib' + k] = store[nlib + k]
    <3>1. Id("label", 0)[1] = "id"
      BY DEF Id
    <3>2. k # nid
      BY <1>4, <2>1, <3>1
    <3>3. \A x, y, z \in Int : y # z => x + y # x + z
      OBVIOUS
    <3>4. nlib + k # nlib + nid
      <4>1. k \in Int /\ nid \in Int
        BY <1>3
      <4> QED BY <1>3, <3>2, <3>3, <4>1
    <3> HIDE DEF id
    <3> QED BY <1>4, <3>4
  <2> QED BY <1>1, <1>3, <1>4, <2>1, NamesKept
<1>5. CASE /\ id[3] \in open /\ FillFutureList(id[3], NameListEnd)
           /\ store' = WithFuture(id[3], NameListEnd)
  <2> HIDE DEF id
  <2>1. id[3] \in Int
    BY <1>5 DEF ScanInv, TypeOK
  <2>2. \A k \in Nat : nlib + k < NameListEnd => store'[nlib' + k] = store[nlib + k]
    BY <1>1, <1>3, <1>5, <2>1, FutureNames
  <2>3. nlib' \in Int
    BY <1>3, <1>5, ShiftAssumption DEF FillFutureList
  <2>4. \A k \in 0 .. nlsc - 1 : store'[nlib' + k] = store[nlib + k]
    <3>1. \A k \in 0 .. nlsc - 1 : k \in Nat /\ nlib + k < NameListEnd
      BY <1>3
    <3> QED BY <2>2, <3>1
  <2> QED BY <1>1, <1>3, <2>3, <2>4, NamesKept
<1> QED BY <1>2, <1>4, <1>5

LEMMA EnterBlockNames ==
  ASSUME ScanInv, NamesListed, EnterBlock
  PROVE  NamesListed'
<1>1. /\ phase = "scan" /\ phase' = "intro"
      /\ scopes' = Append(scopes, [names |-> nlsc, place |-> flsc])
      /\ UNCHANGED <<store, nlib, nlsc>>
  BY DEF EnterBlock, Scanning
<1>2. PICK E : ListedIn(E)
  BY <1>1 DEF NamesListed
<1>3. scopes \in Seq([names : Nat, place : Int]) /\ nlsc \in Nat /\ flsc \in Nat
  BY DEF ScanInv, TypeOK
<1>4. \A i \in DOMAIN scopes' : \/ i \in DOMAIN scopes /\ scopes'[i] = scopes[i]
                             \/ scopes'[i].names = nlsc
  <2>1. /\ Len(scopes) \in Nat /\ DOMAIN scopes = 1 .. Len(scopes)
        /\ DOMAIN scopes' = 1 .. Len(scopes) + 1
        /\ \A i \in 1 .. Len(scopes) : scopes'[i] = scopes[i]
        /\ scopes'[Len(scopes) + 1] = [names |-> nlsc, place |-> flsc]
    BY <1>1, <1>3
  <2>2. \A i \in 1 .. Len(scopes) + 1 : i \in 1 .. Len(scopes) \/ i = Len(scopes) + 1
    BY <2>1
  <2> QED BY <2>1, <2>2
<1>5. nlsc \in E
  BY <1>2 DEF ListedIn, Entries
<1>6. ListedIn(E)'
  BY <1>1, <1>2, <1>4, <1>5 DEF ListedIn
<1> QED BY <1>6 DEF NamesListed

LEMMA ExitBlockNames ==
  ASSUME LateFutures = FALSE, ScanInv, NamesListed, ExitBlock
  PROVE  NamesListed'
<1> DEFINE scope == scopes[Len(scopes)]
           end   == nlib + scope.names
           p     == scope.place
<1>1. /\ phase = "scan" /\ phase' = phase /\ scopes # << >>
      /\ nlsc' = scope.names /\ scopes' = SubSeq(scopes, 1, Len(scopes) - 1)
      /\ FillFutureList(p, end) /\ store' = WithFuture(p, end)
  BY DEF ExitBlock, Scanning
<1>2. scopes \in Seq([names : Nat, place : Int])
  BY DEF ScanInv, TypeOK
<1>3. /\ DOMAIN scopes = 1 .. Len(scopes) /\ Len(scopes) \in Nat \ {0}
      /\ \A i \in DOMAIN scopes : scopes[i] \in [names : Nat, place : Int]
  <2>1. Len(scopes) # 0
    BY <1>1, <1>2
  <2>2. /\ DOMAIN scopes = 1 .. Len(scopes) /\ Len(scopes) \in Nat
        /\ \A i \in DOMAIN scopes : scopes[i] \in [names : Nat, place : Int]
    BY <1>2, Elements
  <2> QED BY <2>1, <2>2
<1>4. PICK E : ListedIn(E)
  BY <1>1 DEF NamesListed
<1>5. /\ scope.names \in Nat /\ scope.names <= nlsc /\ p \in Int /\ scope.names \in E
      /\ \A i \in DOMAIN scopes : scopes[i].names <= scope.names
  <2>1. Len(scopes) \in DOMAIN scopes /\ \A i \in DOMAIN scopes : i <= Len(scopes)
    BY <1>3
  <2>2. scope \in [names : Nat, place : Int]
    BY <1>3, <2>1
  <2>3. \A i \in DOMAIN scopes : scopes[i].names <= scopes[Len(scopes)].names
    BY <2>1 DEF ScanInv, BlocksInside
  <2>4. scope.names \in E
    BY <1>4, <2>1 DEF ListedIn
  <2> QED BY <2>1, <2>2, <2>3, <2>4 DEF ScanInv, BlocksInside
<1> HIDE DEF scope, p
<1>6. /\ nlib \in Int /\ nlsc \in Nat /\ end \in Int /\ nlib <= end /\ end <= NameListEnd
      /\ end = nlib + nlsc' /\ nlsc' \in Nat
  <2>1. nlib \in Int /\ nlsc \in Nat
    BY <1>1, ScanNumbers
  <2>2. scope.names \in Int /\ 0 <= scope.names /\ scope.names <= nlsc
    BY <1>5
  <2> QED BY <1>1, <1>5, <2>1, <2>2 DEF NameListEnd
<1> HIDE DEF end
<1>7. nlib' \in Int
  BY <1>1, <1>6, ShiftAssumption DEF FillFutureList
<1>8. \A k \in Nat : nlib + k < end => store'[nlib' + k] = store[nlib + k]
  BY <1>1, <1>5, <1>6, FutureNames
<1>9. PICK m \in E : m = nlsc'
  BY <1>1, <1>5
<1> DEFINE F == {e \in E : e <= m}
<1>10. Entries(F, store, nlib, m)
  <2>1. Entries(E, store, nlib, nlsc)
    BY <1>4 DEF ListedIn
  <2> QED BY <1>6, <2>1, EntriesShorter
<1>11. Entries(F, store', nlib', m)
  <2>1. \A k \in 0 .. m - 1 : store'[nlib' + k] = store[nlib + k]
    <3>1. \A k \in 0 .. m - 1 : k \in Nat /\ nlib + k < end
      <4>1. m \in Nat /\ end = nlib + m /\ nlib \in Int
        BY <1>6, <1>9
      <4> HIDE DEF F
      <4> QED BY <4>1
    <3> QED BY <1>8, <3>1
  <2>2. m \in Nat
    BY <1>6, <1>9
  <2> HIDE DEF F
  <2> QED BY <1>6, <1>7, <1>10, <2>1, <2>2, EntriesKept
<1>12. \A i \in DOMAIN scopes' : scopes'[i].names \in F
  <2>1. /\ DOMAIN Front(scopes, Len(scopes) - 1) = 1 .. Len(scopes) - 1
        /\ \A i \in 1 .. Len(scopes) - 1 : Front(scopes, Len(scopes) - 1)[i] = scopes[i]
    <3>1. Len(scopes) - 1 \in Int /\ 0 <= Len(scopes) - 1 /\ Len(scopes) - 1 <= Len(scopes)
      BY <1>3
    <3> QED BY <1>2, <3>1, Fronts
  <2>2. \A i \in DOMAIN scopes' : i \in DOMAIN scopes /\ scopes'[i] = scopes[i]
    BY <1>1, <1>3, <2>1 DEF Front
  <2>3. \A i \in DOMAIN scopes : scopes[i].names \in E /\ scopes[i].names <= m
    BY <1>1, <1>4, <1>5, <1>9 DEF ListedIn
  <2> QED BY <2>2, <2>3
<1> HIDE DEF F
<1>13. ListedIn(F)'
  BY <1>1, <1>9, <1>11, <1>12 DEF ListedIn
<1> QED BY <1>13 DEF NamesListed

LEMMA ReservationOfArraysNames ==
  ASSUME ScanInv, NamesListed, ReservationOfArrays
  PROVE  NamesListed'
<1> DEFINE scope == scopes[Len(scopes)]
<1>1. /\ phase = "scan" /\ phase' = "walk" /\ scopes # << >>
      /\ walk' = [pass |-> 1, rlab |-> NameListEnd, rlaa |-> nlib + scope.names]
      /\ UNCHANGED <<store, nlib, nlsc, scopes>>
  BY DEF ReservationOfArrays, Scanning, lists, ScanInv, BlocksInside
<1>2. PICK E : ListedIn(E)
  BY <1>1 DEF NamesListed
<1>3. nlib \in Int /\ nlsc \in Nat /\ NameListEnd = nlib + nlsc
  BY DEF ScanInv, TypeOK, NameListEnd
<1>4. scope.names \in Nat /\ scope.names <= nlsc
  <2>1. scopes \in Seq([names : Nat, place : Int])
    BY DEF ScanInv, TypeOK
  <2>2. Len(scopes) \in DOMAIN scopes /\ \A i \in DOMAIN scopes : scopes[i] \in [names : Nat, place : Int]
    <3>1. Len(scopes) # 0
      BY <1>1, <2>1
    <3>2. /\ DOMAIN scopes = 1 .. Len(scopes) /\ Len(scopes) \in Nat
          /\ \A i \in DOMAIN scopes : scopes[i] \in [names : Nat, place : Int]
      BY <2>1, Elements
    <3> QED BY <3>1, <3>2
  <2>3. scope \in [names : Nat, place : Int]
    BY <2>2
  <2> QED BY <2>2, <2>3 DEF ScanInv, BlocksInside
<1>5. nlsc \in E
  BY <1>2 DEF ListedIn, Entries
<1> HIDE DEF scope
<1>6. /\ walk'.rlab = nlib + nlsc /\ walk'.rlaa = nlib + scope.names
      /\ walk'.rlaa <= walk'.rlab /\ walk'.rlab - nlib = nlsc
  BY <1>1, <1>3, <1>4
<1>7. WalkWithin(E)'
  BY <1>1, <1>5, <1>6 DEF WalkWithin, scope
<1>8. ListedIn(E)'
  BY <1>1, <1>2, <1>7 DEF ListedIn
<1> QED BY <1>8 DEF NamesListed

LEMMA WalkPassNames ==
  ASSUME ScanInv, NamesListed, WalkPass
  PROVE  NamesListed'
<1>1. /\ phase = "walk"
      /\ \/ walk' = [walk EXCEPT !.pass = 2, !.rlab = NameListEnd] /\ phase' = "walk"
         \/ walk' = NoWalk /\ phase' = "scan"
      /\ UNCHANGED <<store, nlib, nlsc, scopes>>
  BY DEF WalkPass, lists
<1>2. PICK E : ListedIn(E)
  BY <1>1 DEF NamesListed
<1>3. nlib \in Int /\ nlsc \in Nat /\ NameListEnd = nlib + nlsc /\ walk \in Pass
      /\ walk.rlab <= NameListEnd /\ nlsc \in E
  BY <1>1, <1>2 DEF ScanInv, TypeOK, NameListEnd, WalkBelowEnd, ListedIn, Entries
<1>4. WalkWithin(E)
  BY <1>1, <1>2 DEF ListedIn
<1>5. ASSUME phase' = "walk" PROVE WalkWithin(E)'
  <2>1. walk' = [walk EXCEPT !.pass = 2, !.rlab = NameListEnd]
    BY <1>1, <1>5
  <2>2. walk'.rlab = NameListEnd /\ walk'.rlaa = walk.rlaa
    BY <1>3, <2>1 DEF Pass
  <2>3. walk.rlab \in Int /\ walk.rlaa \in Int /\ NameListEnd - nlib = nlsc
    BY <1>3 DEF Pass
  <2>4. walk.rlaa <= NameListEnd
    BY <1>3, <1>4, <2>3 DEF WalkWithin
  <2> QED BY <1>1, <1>3, <1>4, <2>2, <2>3, <2>4 DEF WalkWithin
<1>6. ListedIn(E)'
  BY <1>1, <1>2, <1>5 DEF ListedIn
<1> QED BY <1>6 DEF NamesListed

(* The id of an entry may change; the object program does not reach the    *)
(* list, and without a shift the walk goes on to the entry below.          *)
LEMMA WalkEntryNames ==
  ASSUME ShiftedWalk = FALSE, ScanInv, NamesListed, WalkEntry
  PROVE  NamesListed'
<1>1. phase = "walk" /\ UNCHANGED <<phase, nlsc, scopes>> /\ walk.rlab # walk.rlaa
  BY DEF WalkEntry
<1>2. PICK array \in MayBeArray(store[walk.rlab - 1], walk.pass), full \in BOOLEAN :
        LET st1 == IF full THEN WithStream(store) ELSE store
            st2 == IF array /\ walk.pass = 1
                   THEN [st1 EXCEPT ![walk.rlab - 1] = Id("value array", 1)] ELSE st1
        IN /\ Overtakes /\ full => ShiftedWalk
           /\ IF full THEN StreamWord ELSE UNCHANGED <<rnsb, rnsd, flib, klib, nlib>>
           /\ store' = st2
           /\ walk' = [walk EXCEPT !.rlab = BelowEntry(st2, @)]
  BY DEF WalkEntry
<1> DEFINE st1 == IF full THEN WithStream(store) ELSE store
           st2 == IF array /\ walk.pass = 1
                  THEN [st1 EXCEPT ![walk.rlab - 1] = Id("value array", 1)] ELSE st1
           e   == walk.rlab - nlib
<1>3. /\ full => StreamWord /\ ~ Overtakes
      /\ ~ full => nlib' = nlib
      /\ store' = st2 /\ walk' = [walk EXCEPT !.rlab = BelowEntry(st2, @)]
  BY <1>2
<1>4. nlib' = nlib
  BY <1>3 DEF StreamWord
<1>5. nlib \in Int /\ nlsc \in Nat /\ walk \in Pass /\ walk.rlab \in Int /\ walk.rlaa \in Int
      /\ e \in Int /\ walk.rlab = nlib + e
  <2>1. nlib \in Int /\ nlsc \in Nat /\ walk \in Pass
    BY DEF ScanInv, TypeOK
  <2>2. walk.rlab \in Int /\ walk.rlaa \in Int
    BY <2>1 DEF Pass
  <2> QED BY <2>1, <2>2
<1>6. \A k \in 0 .. nlsc - 1 : st1[nlib + k] = store[nlib + k]
  <2>1. CASE full
    <3>1. phase \in {"scan", "walk"}
      BY <1>1
    <3> QED BY <1>3, <1>4, <2>1, <3>1, StreamNames
  <2>2. CASE ~ full
    BY <2>2
  <2> QED BY <2>1, <2>2
<1> HIDE DEF st1
<1>7. PICK E : ListedIn(E)
  BY <1>1 DEF NamesListed
<1> DEFINE r == scopes[Len(scopes)].names
<1>8. /\ Entries(E, store, nlib, nlsc) /\ E \subseteq 0 .. nlsc /\ \A f \in E : f \in Int /\ 0 <= f
      /\ scopes # << >> /\ walk.rlaa = nlib + r /\ r \in E /\ walk.rlaa <= walk.rlab /\ e \in E
  <2>1. WalkWithin(E) /\ Entries(E, store, nlib, nlsc)
    BY <1>1, <1>7 DEF ListedIn
  <2>2. Len(scopes) \in DOMAIN scopes
    <3>1. scopes \in Seq([names : Nat, place : Int]) /\ scopes # << >>
      BY <2>1 DEF ScanInv, TypeOK, WalkWithin
    <3>2. Len(scopes) # 0 /\ DOMAIN scopes = 1 .. Len(scopes) /\ Len(scopes) \in Nat
      BY <3>1, Elements
    <3> QED BY <3>2
  <2>3. r \in E
    BY <1>7, <2>2 DEF ListedIn
  <2> QED BY <2>1, <2>3 DEF WalkWithin, Entries
<1> HIDE DEF r, e
<1>9. r < e /\ e # 0
  BY <1>1, <1>5, <1>8
<1> DEFINE s == e - EntryLength(store[nlib + e - 2])
<1>10. /\ s \in E /\ r <= s
       /\ \A f \in E \ {0} : /\ f - 2 \in 0 .. nlsc - 1 /\ f - 2 # e - 1
                             /\ nlib + (f - 2) = nlib + f - 2
  <2>1. s \in E /\ r <= s
    BY <1>8, <1>9 DEF Entries
  <2>2. ASSUME NEW f \in E \ {0}
        PROVE  f - 2 \in 0 .. nlsc - 1 /\ f - 2 # e - 1 /\ nlib + (f - 2) = nlib + f - 2
    <3> DEFINE len == EntryLength(store[nlib + f - 2])
    <3>1. len \in {2, 3}
      BY DEF EntryLength
    <3>2. f - len \in E /\ (e < f => e <= f - len)
      BY <1>8 DEF Entries
    <3> HIDE DEF len
    <3>3. f \in 0 .. nlsc /\ f - len \in 0 .. nlsc
      BY <1>8, <3>2
    <3>4. f # e + 1
      BY <1>5, <3>1, <3>2, <3>3
    <3> QED BY <1>5, <3>1, <3>3, <3>4
  <2> QED BY <2>1, <2>2
<1>11. \A f \in E \ {0} : store'[nlib + f - 2] = store[nlib + f - 2]
  <2> SUFFICES ASSUME NEW f \in E \ {0} PROVE store'[nlib + f - 2] = store[nlib + f - 2]
    OBVIOUS
  <2>1. nlib + f - 2 # walk.rlab - 1
    <3>1. f \in Int /\ f - 2 # e - 1
      BY <1>8, <1>10
    <3> QED BY <1>5, <3>1
  <2>2. st1[nlib + f - 2] = store[nlib + f - 2]
    BY <1>6, <1>10
  <2>3. st2[nlib + f - 2] = st1[nlib + f - 2]
    BY <2>1
  <2> QED BY <1>3, <2>2, <2>3
<1> HIDE DEF st2
<1>12. Entries(E, store', nlib, nlsc)
  BY <1>8, <1>11 DEF Entries
<1>13. walk'.rlab = nlib + s /\ walk'.rlaa = walk.rlaa
  <2>1. BelowEntry(st2, walk.rlab) = nlib + s
    <3>1. st2[walk.rlab - 2] = store[nlib + e - 2]
      BY <1>3, <1>5, <1>8, <1>9, <1>11
    <3> QED BY <1>5, <3>1 DEF BelowEntry, EntryLength
  <2>2. walk'.rlab = BelowEntry(st2, walk.rlab) /\ walk'.rlaa = walk.rlaa
    BY <1>3, <1>5 DEF Pass
  <2> QED BY <2>1, <2>2
<1> HIDE DEF s
<1>14. ListedIn(E)'
  <2>1. s \in Int /\ r \in Int /\ walk'.rlab - nlib = s /\ walk'.rlaa <= walk'.rlab
    BY <1>5, <1>8, <1>10, <1>13
  <2>2. WalkWithin(E)'
    BY <1>1, <1>4, <1>8, <1>10, <1>13, <2>1 DEF WalkWithin, r
  <2> QED BY <1>1, <1>4, <1>7, <1>12, <2>2 DEF ListedIn
<1> QED BY <1>14 DEF NamesListed

LEMMA MainScanNames ==
  ASSUME StoreInv, MainScan
  PROVE  NamesListed'
<1>1. CASE phase' = "prescan"
  BY <1>1 DEF NamesListed
<1>2. CASE phase' # "prescan"
  <2>1. /\ phase = "prescan" /\ NameBase + Len(Prefill) < plib
        /\ nlib' = NameBase /\ nlsc' = Len(Prefill) /\ phase' = "intro" /\ scopes' = scopes
        /\ store' = With(WithText(1), NameBase, Prefill)
    BY <1>2 DEF MainScan, Prescanning
  <2>2. scopes = << >> /\ plib \in Int /\ plib <= Plie /\ rnsb \in Int /\ Bim + Room <= rnsb
        /\ rnsa \in 1 .. 3
    <3>1. PICK L : Listing(L)
      BY DEF StoreInv, ScanInv, ListInPlace
    <3>2. Sublists \in Nat
      BY <2>1 DEF StoreInv, ScanInv, TypeOK, Sublists
    <3>3. plib <= Plie
      BY <3>1, <3>2, ChainWithin DEF Listing
    <3> QED BY <2>1, <3>3 DEF StoreInv, PrescanRoom, ScanInv, TypeOK, SourceTypeOK
  <2>3. NameBase \in Int /\ Bim <= NameBase /\ Len(Prefill) \in Nat
    <3>1. (rnsa + 1 - 1) \div 3 \in 0 .. 3
      <4>1. rnsa \in 1 .. 3 /\ 1 \in 1 .. 7
        BY <2>2
      <4> QED BY <4>1, WordsRead
    <3>2. LastWord(1) \in Int /\ rnsb <= LastWord(1)
      BY <2>2, <3>1 DEF LastWord
    <3>3. Len(Prefill) \in Nat
      <4>1. PICK W : Prefill \in Seq(W)
        BY PrefillEntries
      <4> QED BY <4>1
    <3> QED BY <2>2, <3>2, <3>3, StoreAssumption, ShiftAssumption DEF NameBase, FutureBase
  <2>4. PICK E : Entries(E, Prefill, 1, Len(Prefill))
    BY PrefillEntries
  <2>5. \A k \in 0 .. Len(Prefill) - 1 : store'[NameBase + k] = Prefill[1 + k]
    <3> SUFFICES ASSUME NEW k \in 0 .. Len(Prefill) - 1 PROVE store'[NameBase + k] = Prefill[1 + k]
      OBVIOUS
    <3>1. /\ NameBase + k \in Address /\ NameBase + k \in NameBase .. NameBase + Len(Prefill) - 1
          /\ (NameBase + k) - NameBase + 1 = 1 + k
      BY <2>1, <2>2, <2>3, StoreAssumption DEF Address
    <3> QED BY <2>1, <3>1 DEF With
  <2>6. Entries(E, store', NameBase, Len(Prefill))
    <3>1. 1 \in Int
      OBVIOUS
    <3> QED BY <2>3, <2>4, <2>5, <3>1, EntriesKept
  <2>7. DOMAIN scopes' = {}
    BY <2>1, <2>2
  <2>8. ListedIn(E)'
    BY <2>1, <2>6, <2>7 DEF ListedIn
  <2> QED BY <2>8 DEF NamesListed
<1> QED BY <1>1, <1>2

-----------------------------------------------------------------------------
(***************************************************************************)
(* Every step, and the theorem.                                            *)
(***************************************************************************)
LEMMA PrescanStays ==
  ASSUME PrescanNext
  PROVE  phase' = phase /\ phase = "prescan"
<1>1. phase = "prescan"
  BY DEF PrescanNext, Prescanning
<1> QED
  BY <1>1 DEF PrescanNext, Symbol, For, Begin, BeginBlock, Semicolon, End, Else, Label, Switch,
              Procedure, StoreExhausted, InStatement, Read, ReadEnd, Declare, NewBlock

LEMMA NextNamesListed ==
  ASSUME LateFutures = FALSE, ShiftedWalk = FALSE, StoreInv, NamesListed, [Next]_vars
  PROVE  NamesListed'
<1>1. ScanInv
  BY DEF StoreInv
<1>2. ASSUME phase # "prescan", UNCHANGED <<store, nlib, nlsc, scopes>>,
             phase' = "walk" => phase = "walk" /\ UNCHANGED walk
      PROVE  NamesListed'
  BY <1>1, <1>2, SameNames
<1>3. CASE PrescanNext /\ UNCHANGED scanVars
  BY <1>3, PrescanStays DEF NamesListed
<1>4. CASE MainScan
  BY <1>4, MainScanNames
<1>5. CASE TakeText \/ ReserveFuture
  BY <1>2, <1>5 DEF TakeText, ReserveFuture, Scanning, lists
<1>6. CASE BitStringMaker
  BY <1>1, <1>6, BitStringMakerNames
<1>7. CASE \E p \in open : ResolveFuture(p)
  BY <1>1, <1>7, ResolveFutureNames
<1>8. CASE \E c \in Constant : LookForConstant(c)
  BY <1>1, <1>8, LookForConstantNames
<1>9. CASE \E c \in Constant : FillConstantList(c[1])
  BY <1>1, <1>9, FillConstantListNames
<1>10. CASE \E nm \in Name :
              \/ \E kind \in {"simple", "array", "value array"} : FillNameList(nm, kind)
              \/ TestFirstOccurrence(nm) \/ LabelDeclaration(nm)
  BY <1>1, <1>10, FillNameListNames, TestFirstOccurrenceNames, LabelDeclarationNames
<1>11. CASE EnterBlock
  BY <1>1, <1>11, EnterBlockNames
<1>12. CASE IntroName
  BY <1>1, <1>12, IntroNameNames
<1>13. CASE IntroSublist
  BY <1>2, <1>13 DEF IntroSublist, lists
<1>14. CASE ExitBlock
  BY <1>1, <1>14, ExitBlockNames
<1>15. CASE ReservationOfArrays
  BY <1>1, <1>15, ReservationOfArraysNames
<1>16. CASE WalkEntry
  BY <1>1, <1>16, WalkEntryNames
<1>17. CASE WalkPass
  BY <1>1, <1>17, WalkPassNames
<1>18. CASE StoreTooSmall
  BY <1>2, <1>18 DEF StoreTooSmall, Scanning, Stop, scanVars, lists
<1>19. CASE UNCHANGED vars
  <2>1. phase # "prescan" => NamesListed'
    BY <1>2, <1>19 DEF vars, scanVars, lists
  <2>2. phase = "prescan" => NamesListed'
    BY <1>19 DEF NamesListed, vars
  <2> QED BY <2>1, <2>2
<1> QED BY <1>3, <1>4, <1>5, <1>6, <1>7, <1>8, <1>9, <1>10, <1>11, <1>12, <1>13, <1>14, <1>15,
           <1>16, <1>17, <1>18, <1>19 DEF Next

LEMMA WalkMeetsEntries ==
  ASSUME StoreInv, NamesListed
  PROVE  WalkInStep
<1> SUFFICES ASSUME phase = "walk"
             PROVE  /\ walk.rlaa = nlib + scopes[Len(scopes)].names
                    /\ walk.rlab \in EntryEnds /\ walk.rlaa \in EntryEnds
  BY DEF WalkInStep
<1>1. PICK E : ListedIn(E)
  BY DEF NamesListed
<1>2. /\ scopes # << >> /\ walk.rlaa = nlib + scopes[Len(scopes)].names /\ walk.rlab - nlib \in E
      /\ Entries(E, store, nlib, nlsc)
  BY <1>1 DEF ListedIn, WalkWithin
<1>3. /\ nlib \in Int /\ nlsc \in Nat /\ walk.rlab \in Int
      /\ scopes \in Seq([names : Nat, place : Int])
  BY DEF StoreInv, ScanInv, TypeOK, Pass
<1>4. scopes[Len(scopes)].names \in E
  <2>1. Len(scopes) # 0 /\ DOMAIN scopes = 1 .. Len(scopes) /\ Len(scopes) \in Nat
    BY <1>2, <1>3, Elements
  <2> QED BY <1>1, <2>1 DEF ListedIn
<1>5. \A e \in E : nlib + e \in EntryEnds
  BY <1>2, <1>3, EntriesReached
<1>6. nlib + (walk.rlab - nlib) = walk.rlab
  BY <1>3
<1> QED BY <1>2, <1>4, <1>5, <1>6

(* While the object program does not run into the text in it,              *)
(* reservation_of_arrays sees the entries of its block and no other words: *)
(* for every program, every shift and names of either length.              *)
THEOREM WalkStaysInStep ==
  ASSUME LateFutures = FALSE, ShiftedWalk = FALSE
  PROVE  Spec => []WalkInStep
<1> DEFINE Inv == StoreInv /\ NamesListed
<1>1. Init => Inv
  BY InitStoreInv DEF NamesListed, Init, PrescanInit
<1>2. Inv /\ [Next]_vars => Inv'
  BY NextStoreInv, NextNamesListed
<1>3. Inv => WalkInStep
  BY WalkMeetsEntries
<1> HIDE DEF Inv
<1> QED BY <1>1, <1>2, <1>3, PTL DEF Spec
=============================================================================

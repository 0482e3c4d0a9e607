-------------------------- MODULE CompileRunProofs --------------------------
(***************************************************************************)
(* CompileRun: what a command loads, proved for every script, every        *)
(* compiler output and every fault.                                        *)
(***************************************************************************)
EXTENDS CompileRun, FiniteSetTheorems, FunctionTheorems, SequenceTheorems, WellFoundedInduction,
        TLAPS

-----------------------------------------------------------------------------
(* Counting places: what Tables says of one line more, and what is left of *)
(* a text of which characters were lost.                                   *)
UpTo(S, i) == {j \in S : j <= i}

LEMMA PlacesAreFinite ==
  ASSUME NEW n \in Nat, NEW S, S \subseteq 1 .. n
  PROVE  IsFiniteSet(S) /\ Cardinality(S) \in Nat
BY FS_Interval, FS_Subset, FS_CardinalityType, 1 \in Int, n \in Int

LEMMA NextPlace ==
  ASSUME NEW n \in Nat, NEW S, S \subseteq 1 .. n
  PROVE  LET T == S \cup {n + 1}
         IN  /\ Cardinality(T) = Cardinality(S) + 1
             /\ UpTo(T, n + 1) = T
             /\ \A i \in S : UpTo(T, i) = UpTo(S, i)
<1>1. n + 1 \notin S
  OBVIOUS
<1>2. Cardinality(S \cup {n + 1}) = Cardinality(S) + 1
  BY <1>1, PlacesAreFinite, FS_AddElement
<1>3. UpTo(S \cup {n + 1}, n + 1) = S \cup {n + 1}
  <2>1. \A j \in S \cup {n + 1} : j <= n + 1
    <3>1. \A j \in S : j \in 1 .. n
      OBVIOUS
    <3> QED BY <3>1
  <2> QED BY <2>1, Zenon DEF UpTo
<1>4. \A i \in S : UpTo(S \cup {n + 1}, i) = UpTo(S, i)
  BY DEF UpTo
<1> QED BY <1>2, <1>3, <1>4

LEMMA PlaceInRange ==
  ASSUME NEW n \in Nat, NEW S, S \subseteq 1 .. n, NEW i \in S
  PROVE  Cardinality(UpTo(S, i)) \in 1 .. Cardinality(S)
<1>1. UpTo(S, i) \subseteq S /\ i \in UpTo(S, i)
  BY DEF UpTo
<1>2. IsFiniteSet(S) /\ Cardinality(S) \in Nat
  BY PlacesAreFinite
<1>3. Cardinality(UpTo(S, i)) <= Cardinality(S) /\ IsFiniteSet(UpTo(S, i))
  BY <1>1, <1>2, FS_Subset
<1>4. Cardinality(UpTo(S, i)) \in Nat /\ Cardinality(UpTo(S, i)) # 0
  BY <1>1, <1>3, FS_CardinalityType, FS_EmptySet
<1> QED BY <1>2, <1>3, <1>4

EntryPlaces(ls, kept) == {i \in kept : ls[i].kind = "entry"}
WordPlaces(ls, kept) == {i \in kept : ls[i].kind = "word"}

LEMMA TablesByPlaces ==
  ASSUME NEW es, NEW words, NEW ls, NEW kept
  PROVE  Tables(es, words, ls, kept) <=>
           /\ Len(es) = Cardinality(EntryPlaces(ls, kept))
           /\ \A i \in EntryPlaces(ls, kept) :
                es[Cardinality(UpTo(EntryPlaces(ls, kept), i))] = ls[i].addr
           /\ DOMAIN words = {ls[i].addr : i \in WordPlaces(ls, kept)}
           /\ \A i \in WordPlaces(ls, kept) :
                (\A j \in WordPlaces(ls, kept) : ls[j].addr = ls[i].addr => j <= i)
                  => words[ls[i].addr] = ls[i].value
BY DEF Tables, EntryPlaces, WordPlaces, UpTo

LEMMA NoTables ==
  ASSUME NEW ls
  PROVE  Tables(<< >>, << >>, ls, {})
<1>1. EntryPlaces(ls, {}) = {} /\ WordPlaces(ls, {}) = {}
  BY DEF EntryPlaces, WordPlaces
<1>2. Len(<< >>) = 0 /\ DOMAIN << >> = {} /\ Cardinality({}) = 0
  BY FS_EmptySet
<1> QED BY <1>1, <1>2, TablesByPlaces

(* One line is loaded. *)
LEMMA TablesEntry ==
  ASSUME NEW A, NEW es \in Seq(A), NEW words, NEW ls, NEW n \in Nat, NEW K \in SUBSET (1 .. n),
         Tables(es, words, ls, K), ls[n + 1].kind = "entry", ls[n + 1].addr \in A
  PROVE  Tables(Append(es, ls[n + 1].addr), words, ls, K \cup {n + 1})
<1> DEFINE S == EntryPlaces(ls, K)
           T == S \cup {n + 1}
           fs == Append(es, ls[n + 1].addr)
<1>1. S \subseteq 1 .. n
  BY DEF EntryPlaces
<1>2. EntryPlaces(ls, K \cup {n + 1}) = T
  BY DEF EntryPlaces
<1>3. WordPlaces(ls, K \cup {n + 1}) = WordPlaces(ls, K)
  BY "entry" # "word" DEF WordPlaces
<1>4. Len(es) = Cardinality(S) /\ Cardinality(T) = Cardinality(S) + 1
  BY <1>1, NextPlace, TablesByPlaces
<1>5. Len(fs) = Cardinality(T) /\ fs[Cardinality(T)] = ls[n + 1].addr
      /\ \A k \in 1 .. Cardinality(S) : fs[k] = es[k]
  BY <1>4
<1>6. ASSUME NEW i \in T PROVE fs[Cardinality(UpTo(T, i))] = ls[i].addr
  <2>1. CASE i = n + 1
    BY <2>1, <1>1, <1>5, NextPlace
  <2>2. CASE i \in S
    <3>1. UpTo(T, i) = UpTo(S, i)
      BY <2>2, <1>1, NextPlace
    <3>2. Cardinality(UpTo(S, i)) \in 1 .. Cardinality(S)
      BY <2>2, <1>1, PlaceInRange
    <3>3. es[Cardinality(UpTo(S, i))] = ls[i].addr
      BY <2>2, TablesByPlaces
    <3> HIDE DEF fs, T, S
    <3> QED BY <3>1, <3>2, <3>3, <1>5
  <2> QED BY <2>1, <2>2
<1>7. /\ DOMAIN words = {ls[i].addr : i \in WordPlaces(ls, K)}
      /\ \A i \in WordPlaces(ls, K) :
           (\A j \in WordPlaces(ls, K) : ls[j].addr = ls[i].addr => j <= i)
             => words[ls[i].addr] = ls[i].value
  BY TablesByPlaces
<1> HIDE DEF T, fs
<1>8. Tables(fs, words, ls, K \cup {n + 1})
  BY <1>2, <1>3, <1>5, <1>6, <1>7, TablesByPlaces
<1> QED BY <1>8 DEF fs

LEMMA TablesWord ==
  ASSUME NEW es, NEW words, NEW ls, NEW n \in Nat, NEW K \in SUBSET (1 .. n),
         Tables(es, words, ls, K), ls[n + 1].kind = "word"
  PROVE  Tables(es, Stored(words, ls[n + 1]), ls, K \cup {n + 1})
<1> DEFINE l == ls[n + 1]
           W == WordPlaces(ls, K)
           V == W \cup {n + 1}
           new == Stored(words, l)
<1>1. WordPlaces(ls, K \cup {n + 1}) = V
  BY DEF WordPlaces
<1>2. EntryPlaces(ls, K \cup {n + 1}) = EntryPlaces(ls, K)
  BY "entry" # "word" DEF EntryPlaces
<1>3. DOMAIN words = {ls[i].addr : i \in W}
      /\ \A i \in W : (\A j \in W : ls[j].addr = ls[i].addr => j <= i)
                        => words[ls[i].addr] = ls[i].value
  BY TablesByPlaces
<1>4. DOMAIN new = {ls[i].addr : i \in V}
  BY <1>3 DEF Stored
<1>5. ASSUME NEW i \in V, \A j \in V : ls[j].addr = ls[i].addr => j <= i
      PROVE  new[ls[i].addr] = ls[i].value
  <2>1. CASE i = n + 1
    BY <2>1 DEF Stored
  <2>2. CASE i \in W
    <3>1. i \in 1 .. n /\ l.addr # ls[i].addr
      BY <2>2, <1>5 DEF WordPlaces
    <3>2. words[ls[i].addr] = ls[i].value /\ ls[i].addr \in DOMAIN words
      BY <2>2, <1>5, <1>3
    <3> QED BY <3>1, <3>2 DEF Stored
  <2> QED BY <2>1, <2>2
<1>6. Len(es) = Cardinality(EntryPlaces(ls, K))
      /\ \A i \in EntryPlaces(ls, K) :
           es[Cardinality(UpTo(EntryPlaces(ls, K), i))] = ls[i].addr
  BY TablesByPlaces
<1> HIDE DEF new, V
<1>7. Tables(es, new, ls, K \cup {n + 1})
  BY <1>1, <1>2, <1>4, <1>5, <1>6, TablesByPlaces
<1> QED BY <1>7 DEF new

LEMMA TablesOther ==
  ASSUME NEW es, NEW words, NEW ls, NEW n, NEW K,
         Tables(es, words, ls, K), ls[n].kind \notin {"entry", "word"}
  PROVE  Tables(es, words, ls, K \cup {n})
<1>1. WordPlaces(ls, K \cup {n}) = WordPlaces(ls, K)
  BY DEF WordPlaces
<1>2. EntryPlaces(ls, K \cup {n}) = EntryPlaces(ls, K)
  BY DEF EntryPlaces
<1> QED BY <1>1, <1>2, TablesByPlaces

(* ds are characters of ls, from its first m places, in their order; place *)
(* i of ds is place idx[i] of ls.                                          *)
CopiedBy(idx, ds, ls, m) ==
  /\ idx \in [1 .. Len(ds) -> 1 .. m]
  /\ \A i \in 1 .. Len(ds) : ds[i] = ls[idx[i]]
  /\ \A i, j \in 1 .. Len(ds) : i < j => idx[i] < idx[j]

Images(idx, S) == {idx[i] : i \in S}

Increasing(idx, k) ==
  /\ \A i \in 1 .. k : idx[i] \in Nat
  /\ \A i, j \in 1 .. k : i < j => idx[i] < idx[j]

LEMMA ImageCounted ==
  ASSUME NEW k \in Nat, NEW idx, Increasing(idx, k), NEW S \in SUBSET (1 .. k)
  PROVE  Cardinality(Images(idx, S)) = Cardinality(S)
<1> DEFINE f == [i \in S |-> idx[i]]
<1>0. /\ \A i \in 1 .. k : idx[i] \in Nat
      /\ \A i, j \in 1 .. k : i < j => idx[i] < idx[j]
  BY DEF Increasing
<1>1. \A i, j \in 1 .. k : idx[i] = idx[j] => i = j
  <2> SUFFICES ASSUME NEW i \in 1 .. k, NEW j \in 1 .. k, idx[i] = idx[j], i # j
               PROVE  FALSE
    OBVIOUS
  <2>1. idx[i] \in Int
    BY <1>0
  <2> QED BY <2>1, <1>0
<1>2. f \in [S -> Images(idx, S)]
  BY DEF Images
<1>3. \A a, b \in S : f[a] = f[b] => a = b
  BY <1>1
<1>4. \A t \in Images(idx, S) : \E a \in S : f[a] = t
  BY DEF Images
<1>5. f \in Bijection(S, Images(idx, S))
  <2> HIDE DEF f
  <2> QED BY <1>2, <1>3, <1>4, Fun_IsBij
<1>6. ExistsBijection(S, Images(idx, S))
  BY <1>5 DEF ExistsBijection
<1>7. IsFiniteSet(S)
  BY PlacesAreFinite
<1> QED BY <1>6, <1>7, FS_Bijection

LEMMA CopiedIsPart ==
  ASSUME NEW A, NEW ds \in Seq(A), NEW B, NEW ls \in Seq(B), NEW m \in Nat, m <= Len(ls), NEW idx,
         CopiedBy(idx, ds, ls, m)
  PROVE  IsPart(ds, ls)
<1> DEFINE k == Len(ds)
           K == Images(idx, 1 .. k)
<1>0. k \in Nat /\ Len(ls) \in Nat /\ DOMAIN ls = 1 .. Len(ls)
  BY LenProperties
<1>1. /\ \A i \in 1 .. k : ds[i] = ls[idx[i]] /\ idx[i] \in 1 .. m
      /\ \A i, j \in 1 .. k : i < j => idx[i] < idx[j]
  BY DEF CopiedBy
<1>2. \A i, j \in 1 .. k : i <= j <=> idx[i] <= idx[j]
  <2> SUFFICES ASSUME NEW i \in 1 .. k, NEW j \in 1 .. k
               PROVE  i <= j <=> idx[i] <= idx[j]
    OBVIOUS
  <2>1. idx[i] \in Int /\ idx[j] \in Int
    BY <1>1
  <2>2. (i < j => idx[i] < idx[j]) /\ (j < i => idx[j] < idx[i]) /\ (i = j => idx[i] = idx[j])
    BY <1>1
  <2> QED BY <1>0, <2>1, <2>2
<1> HIDE DEF k
<1>3. \A R \in SUBSET (1 .. k) : Cardinality(Images(idx, R)) = Cardinality(R)
  <2> SUFFICES ASSUME NEW R \in SUBSET (1 .. k)
               PROVE  Cardinality(Images(idx, R)) = Cardinality(R)
    OBVIOUS
  <2>1. Increasing(idx, k)
    BY <1>1 DEF Increasing
  <2> QED BY <2>1, <1>0, ImageCounted
<1>4. \A i \in 1 .. k : Cardinality(1 .. i) = i /\ 1 .. i \in SUBSET (1 .. k)
  <2> SUFFICES ASSUME NEW i \in 1 .. k
               PROVE  Cardinality(1 .. i) = i /\ 1 .. i \in SUBSET (1 .. k)
    OBVIOUS
  <2>1. i \in Int /\ 1 \in Int /\ ~ (1 > i) /\ i - 1 + 1 = i
    BY <1>0
  <2>2. Cardinality(1 .. i) = i
    BY <2>1, FS_Interval
  <2> QED BY <2>2, <1>0
<1>5. Cardinality(K) = k
  <2>1. Cardinality(1 .. k) = k
    BY <1>0, FS_Interval
  <2> QED BY <2>1, <1>3
<1>6. K \in SUBSET DOMAIN ls
  <2>1. 1 .. m \subseteq 1 .. Len(ls)
    BY <1>0
  <2> QED BY <1>0, <1>1, <2>1 DEF Images
<1>7. ASSUME NEW x \in K PROVE ls[x] = ds[Cardinality({j \in K : j <= x})]
  <2>1. PICK i \in 1 .. k : x = idx[i]
    BY <1>7 DEF Images
  <2>2. {j \in K : j <= x} = Images(idx, 1 .. i)
    <3>1. {j \in K : j <= x} = {idx[r] : r \in {r \in 1 .. k : idx[r] <= idx[i]}}
      BY <2>1 DEF Images
    <3>2. {r \in 1 .. k : idx[r] <= idx[i]} = 1 .. i
      BY <1>0, <1>2
    <3> QED BY <3>1, <3>2 DEF Images
  <2>3. Cardinality({j \in K : j <= x}) = i
    BY <2>2, <1>3, <1>4
  <2> QED BY <2>1, <2>3, <1>1
<1> HIDE DEF K
<1> QED BY <1>5, <1>6, <1>7 DEF IsPart, k

-----------------------------------------------------------------------------
(* Lines.  The next one begins where the line before it, or the file, ends. *)
LEMMA LessOnNat == OpToRel(<, Nat) = {ss \in Nat \X Nat : ss[1] < ss[2]}
BY DEF OpToRel

LEMMA Least ==
  ASSUME NEW S \in SUBSET Nat, S # {}
  PROVE  \E m \in S : \A k \in S : m <= k
<1> DEFINE R == {ss \in Nat \X Nat : ss[1] < ss[2]}
<1>1. IsWellFoundedOn(R, Nat)
  BY LessOnNat, NatLessThanWellFounded
<1>2. \E x \in S : \A y \in S : <<y, x>> \notin R
  <2> HIDE DEF R
  <2> QED BY <1>1, WFMin
<1>3. PICK x \in S : \A y \in S : <<y, x>> \notin R
  BY <1>2
<1>4. \A k \in S : ~ (k < x)
  BY <1>3
<1> QED BY <1>4

LEMMA LineEnds ==
  ASSUME NEW s \in Seq(Char), NEW i \in 1 .. Len(s)
  PROVE  LET e == LineEnd(s, i)
         IN  /\ e \in i .. Len(s) + 1
             /\ e = Len(s) + 1 \/ s[e] = NewLine
             /\ \A j \in i .. e - 1 : s[j] # NewLine
<1> DEFINE L == Len(s)
           Stops(e) == e = L + 1 \/ s[e] \in {NewLine}
           S == {e \in i .. L + 1 : Stops(e)}
           e0 == LineEnd(s, i)
<1>0. L \in Nat /\ i \in Nat /\ i <= L
  BY LenProperties
<1>1. S \in SUBSET Nat /\ L + 1 \in S
  BY <1>0
<1>2. PICK m \in S : \A k \in S : m <= k
  <2> HIDE DEF S
  <2> QED BY <1>1, Least
<1>3. \A j \in i .. m - 1 : s[j] \notin {NewLine}
  <2> SUFFICES ASSUME NEW j \in i .. m - 1, s[j] \in {NewLine} PROVE FALSE
    OBVIOUS
  <2>1. j \in i .. L + 1 /\ j \in Int /\ m \in Int /\ ~ (m <= j)
    BY <1>0, <1>2
  <2> QED BY <2>1, <1>2
<1>4. \E e \in i .. L + 1 : Stops(e) /\ \A j \in i .. e - 1 : s[j] \notin {NewLine}
  BY <1>2, <1>3
<1>5. /\ e0 \in i .. L + 1
      /\ e0 = L + 1 \/ s[e0] \in {NewLine}
      /\ \A j \in i .. e0 - 1 : s[j] \notin {NewLine}
  BY <1>4 DEF LineEnd, First
<1> HIDE DEF e0
<1> QED BY <1>5 DEF e0

LEMMA NextLine ==
  ASSUME NEW s \in Seq(Char), NEW i \in Starts(s)
  PROVE  LET e == LineEnd(s, i)
         IN  /\ e + 1 \in Nat
             /\ e + 1 \in Starts(s) \/ e + 1 > Len(s)
             /\ {j \in Starts(s) : j < e + 1} = {j \in Starts(s) : j < i} \cup {i}
<1> DEFINE e == LineEnd(s, i)
<1>0. Len(s) \in Nat /\ DOMAIN s = 1 .. Len(s) /\ i \in 1 .. Len(s)
  BY LenProperties DEF Starts
<1>1. /\ e \in i .. Len(s) + 1
      /\ e = Len(s) + 1 \/ s[e] = NewLine
      /\ \A j \in i .. e - 1 : s[j] # NewLine
  BY <1>0, LineEnds
<1> HIDE DEF e
<1>2. e \in Nat /\ i <= e /\ i \in Nat
  BY <1>0, <1>1
<1>3. e + 1 \in Starts(s) \/ e + 1 > Len(s)
  BY <1>0, <1>1, <1>2 DEF Starts
<1>4. ASSUME NEW j \in Starts(s) PROVE j < e + 1 <=> j < i \/ j = i
  <2>1. j \in 1 .. Len(s) /\ (j = 1 \/ s[j - 1] = NewLine)
    BY <1>0 DEF Starts
  <2>2. j > i => j - 1 \in Nat /\ i <= j - 1 /\ s[j - 1] = NewLine
    BY <2>1, <1>0
  <2>3. j > i => ~ (j - 1 \in i .. e - 1)
    BY <2>2, <1>1
  <2> QED BY <2>1, <2>2, <2>3, <1>0, <1>2
<1>5. {j \in Starts(s) : j < e + 1} = {j \in Starts(s) : j < i} \cup {i}
  BY <1>4
<1> QED BY <1>2, <1>3, <1>5 DEF e

LEMMA Begun ==
  ASSUME NEW A, NEW s \in Seq(A), NEW m \in Nat, m <= Len(s)
  PROVE  /\ SubSeq(s, 1, m) \in Seq(A) /\ Len(SubSeq(s, 1, m)) = m
         /\ \A i \in 1 .. m : SubSeq(s, 1, m)[i] = s[i]
BY SubSeqProperties, ElementOfSeq, LenProperties

LEMMA Rest ==
  ASSUME NEW A, NEW s \in Seq(A), NEW m \in Nat, m <= Len(s)
  PROVE  /\ SubSeq(s, m + 1, Len(s)) \in Seq(A)
         /\ Len(SubSeq(s, m + 1, Len(s))) = Len(s) - m
         /\ \A i \in 1 .. Len(s) - m : SubSeq(s, m + 1, Len(s))[i] = s[m + i]
BY SubSeqProperties, ElementOfSeq, LenProperties

LEMMA LineIsText ==
  ASSUME NEW s \in Seq(Char), NEW i \in 1 .. Len(s)
  PROVE  LineAt(s, i) \in Seq(Char)
<1> DEFINE e == LineEnd(s, i)
<1>1. e \in i .. Len(s) + 1 /\ Len(s) \in Nat
  BY LineEnds, LenProperties
<1> HIDE DEF e
<1>2. e - 1 \in Int /\ e - 1 <= Len(s) /\ i \in Nat /\ i >= 1
  BY <1>1
<1>3. SubSeq(s, i, e - 1) \in Seq(Char)
  BY <1>2
<1> QED BY <1>3 DEF LineAt, e

-----------------------------------------------------------------------------
(* The inductive invariant. *)
Places == {"main", "fork", "wait", "open", "load", "run", "ended"}

ChildPlaces == {"none", "open", "create", "exec", "compile", "gone"}

Address == {Parsed[l].addr : l \in Seq(Char)}

TypeOK ==
  /\ args \in Scripts
  /\ pc \in [Command -> Places]
  /\ child \in [Command -> ChildPlaces]
  /\ unwritten \in [Command -> Seq(Char)]
  /\ status \in [Command -> Int]
  /\ place \in [Command -> Nat]
  /\ entries \in [Command -> Seq(Address)]
  /\ memory = [p \in Command |-> memory[p]]
  /\ exit \in [Command -> {"none", "failure", "crash", "success"}]
  /\ disk \in [DOMAIN OnDisk -> Seq(Char) \cup {Absent}]
  /\ openedBy \in [DOMAIN OnDisk -> {0} \cup Command]

(* Where a command and its child can be at the same time: the child is     *)
(* under way only while the parent waits, and a parent that has gone on    *)
(* has seen its exit status.                                               *)
Phase(p) ==
  /\ pc[p] \in {"main", "fork"} => child[p] = "none"
  /\ child[p] \notin {"none", "gone"} => pc[p] = "wait"
  /\ child[p] # "none" \/ pc[p] = "fork" => args[p].ext = ".a60"
  /\ pc[p] \in {"open", "load", "run"} /\ args[p].ext = ".a60"
       => child[p] = "gone" /\ ExitCode(status[p]) = STATUS_OK
  /\ pc[p] \in {"main", "fork", "wait", "open"}
       => entries[p] = << >> /\ memory[p] = << >> /\ place[p] = 1
  /\ exit[p] # "none" => pc[p] = "ended"

(* Commands on one name are given one after the other. *)
Exclusive ==
  \A p \in Command : pc[p] # "main" => \A q \in Before(p) : Ended(q)

(* What an exit status says of the child. *)
Reported(p) ==
  /\ child[p] = "compile" => "exec" \notin args[p].faults
  /\ child[p] = "gone" /\ status[p] = Signalled => "kill" \in args[p].faults
  /\ child[p] = "gone" /\ status[p] = STATUS_OK
       => ExitStatus(p) = STATUS_OK /\ "exec" \notin args[p].faults

(* An object file belongs to the last child that opened it. *)
Owner ==
  /\ \A f \in DOMAIN OnDisk :
       openedBy[f] # 0 => /\ Object(openedBy[f]) = f
                          /\ child[openedBy[f]] \in {"exec", "compile", "gone"}
  /\ \A p \in Command :
       \/ child[p] \in {"exec", "compile"}
       \/ child[p] = "gone" /\ status[p] = STATUS_OK /\ pc[p] # "ended"
       => openedBy[Object(p)] = p

(* What stands in an object file: characters its owner has printed, all of *)
(* them as far as it has come unless the disk was full.                    *)
PrintedUpTo(f, q, m) ==
  /\ \E idx \in [1 .. Len(disk[f]) -> 1 .. m] : CopiedBy(idx, disk[f], Printed(q), m)
  /\ child[q] = "compile" => unwritten[q] = SubSeq(Printed(q), m + 1, Len(Printed(q)))
  /\ "full" \notin args[q].faults => disk[f] = SubSeq(Printed(q), 1, m)
  /\ child[q] = "gone" /\ {"kill", "exec"} \cap args[q].faults = {} => m = Len(Printed(q))

Written(f) ==
  IF openedBy[f] = 0 THEN disk[f] = OnDisk[f]
  ELSE /\ disk[f] \in Seq(Char)
       /\ child[openedBy[f]] = "exec" => disk[f] = << >>
       /\ \E m \in 0 .. Len(Printed(openedBy[f])) : PrintedUpTo(f, openedBy[f], m)

(* What a command has loaded of its object file. *)
BeginsBefore(s, n) == {i \in Starts(s) : i < n}

LoadedFrom(p, d) ==
  /\ place[p] \in Starts(d) \/ place[p] > Len(d)
  /\ HasLoaded(p, d, BeginsBefore(d, place[p]))
  /\ pc[p] = "run" => place[p] > Len(d)

Loading(p) ==
  pc[p] \in {"load", "run"} => disk[Object(p)] \in Seq(Char) /\ LoadedFrom(p, disk[Object(p)])

Succeeded(p) ==
  exit[p] = "success" /\ args[p].ext = ".a60" /\ {"kill", "full"} \cap args[p].faults = {}
    => RunsItsText(p)

Inv ==
  /\ TypeOK
  /\ \A p \in Command : Phase(p) /\ Reported(p)
  /\ Exclusive /\ Owner
  /\ \A f \in DOMAIN OnDisk : Written(f)
  /\ \A p \in Command : Loading(p) /\ Succeeded(p)

-----------------------------------------------------------------------------
(* Types. *)
LEMMA PrintedIsText ==
  ASSUME TypeOK, NEW p \in Command
  PROVE  /\ Object(p) \in DOMAIN OnDisk
         /\ Printed(p) \in Seq(Char) /\ ExitStatus(p) \in Nat
<1>1. args[p].stem \in DOMAIN OnDisk /\ args[p].text \in DOMAIN Output
  BY ScriptsAreShort DEF TypeOK, Command
<1>3. Output[args[p].text].prints \in Seq(Char) /\ Output[args[p].text].status \in Nat
  <2>1. 0 .. 255 \subseteq Nat
    OBVIOUS
  <2> QED BY <2>1, <1>1, TextsAreKnown
<1>4. FirstEntry \in Seq(Char)
  BY DEF FirstEntry, Char, Space, NewLine
<1> QED BY <1>1, <1>3, <1>4 DEF Object, Printed, ExitStatus, STATUS_COMPILER_FAILED

LEMMA CommandIsFinite ==
  ASSUME TypeOK
  PROVE  Command \subseteq Nat \ {0}
BY ScriptsAreShort DEF TypeOK, Command

LEMMA TypeInit == Init => TypeOK
<1> SUFFICES ASSUME Init PROVE TypeOK
  OBVIOUS
<1>1. << >> \in Seq(Char) /\ << >> \in Seq(Address)
  OBVIOUS
<1>2. OnDisk = [f \in DOMAIN OnDisk |-> OnDisk[f]]
  BY TextsAreKnown
<1> QED BY <1>1, TextsAreKnown DEF Init, TypeOK, Places, ChildPlaces, Command

(* A step is one of a single command; the others are where they were. *)
LEMMA StepOfOne ==
  ASSUME Next
  PROVE  UNCHANGED vars \/ \E p \in Command : Parent(p) \/ Child(p)
BY DEF Next, AllEnded

LEMMA Updated ==
  ASSUME NEW S, NEW T, NEW f \in [S -> T], NEW x, NEW y \in T
  PROVE  [f EXCEPT ![x] = y] \in [S -> T]
OBVIOUS

LEMMA TypeParent ==
  ASSUME TypeOK, NEW p \in Command, Parent(p), Loading(p)
  PROVE  TypeOK'
<1> USE DEF TypeOK, Places, Goes, Fail, run, comp
<1>1. args' = args /\ openedBy' = openedBy /\ Command' = Command
  BY DEF Parent, Command
<1>2. CASE Main(p)
  BY <1>1, <1>2 DEF Main
<1>3. CASE Fork(p)
  <2>1. CASE Fail(p)
    BY <2>1, <1>1
  <2>2. CASE Goes(p, "wait") /\ child' = [child EXCEPT ![p] = "open"]
    <3>1. child' \in [Command -> ChildPlaces]
      BY <2>2, Updated DEF ChildPlaces
    <3> QED BY <1>1, <1>3, <2>2, <3>1 DEF Fork
  <2> QED BY <1>3, <2>1, <2>2 DEF Fork
<1>4. CASE WaitPid(p)
  BY <1>1, <1>4, ZenonT(30) DEF WaitPid
<1>5. CASE OpenObject(p)
  <2>1. CASE Fail(p)
    BY <2>1, <1>1
  <2>2. CASE Goes(p, "load") /\ UNCHANGED <<comp, disk>>
    BY <2>2, <1>1
  <2> QED BY <1>5, <2>1, <2>2 DEF OpenObject
<1>6. CASE LoadLine(p)
  <2>1. CASE Fail(p)
    BY <2>1, <1>1
  <2>2. CASE ~ Fail(p)
    <3> DEFINE d == disk[Object(p)]
               l == Parsed[LineAt(d, place[p])]
    <3>1. d \in Seq(Char) /\ place[p] \in Starts(d)
      BY <1>6, LenProperties DEF LoadLine, Loading, LoadedFrom
    <3>2. l \in {Parsed[k] : k \in Seq(Char)}
      <4>1. place[p] \in 1 .. Len(d)
        BY <3>1 DEF Starts
      <4>2. LineAt(d, place[p]) \in Seq(Char)
        BY <3>1, <4>1, LineIsText
      <4> QED BY <4>2
    <3>3. place' \in [Command -> Nat]
      <4>1. LineEnd(d, place[p]) + 1 \in Nat
        BY <3>1, NextLine
      <4>2. place' = [place EXCEPT ![p] = LineEnd(d, place[p]) + 1]
        BY <1>6, <2>2 DEF LoadLine
      <4> QED BY <4>1, <4>2, Updated
    <3>a. l.kind = "entry" => l.addr \in Address
      BY <3>2 DEF Address
    <3>4. entries[p] \in Seq(Address) /\ \A a \in Address : Append(entries[p], a) \in Seq(Address)
      OBVIOUS
    <3>5. entries' \in [Command -> Seq(Address)]
      <4>1. l.kind = "entry" => entries' = [entries EXCEPT ![p] = Append(entries[p], l.addr)]
        BY <1>6, <2>2 DEF LoadLine
      <4>2. l.kind # "entry" => entries' = entries
        BY <1>6, <2>2 DEF LoadLine
      <4>3. l.kind = "entry" => Append(entries[p], l.addr) \in Seq(Address)
        BY <3>a, <3>4
      <4> HIDE DEF l
      <4>4. CASE l.kind = "entry"
        BY <4>1, <4>3, <4>4, Updated
      <4> QED BY <4>2, <4>4
    <3>6. memory' = [q \in Command |-> memory'[q]]
      BY <1>6, <2>2 DEF LoadLine
    <3> QED BY <1>1, <1>6, <2>2, <3>3, <3>5, <3>6, ZenonT(30) DEF LoadLine
  <2> QED BY <2>1, <2>2
<1>7. CASE Run(p)
  BY <1>1, <1>7, ZenonT(30) DEF Run
<1>8. CASE Ends(p)
  BY <1>1, <1>8, ZenonT(30) DEF Ends
<1> QED BY <1>2, <1>3, <1>4, <1>5, <1>6, <1>7, <1>8 DEF Parent

LEMMA TypeChild ==
  ASSUME TypeOK, NEW p \in Command, Child(p),
         child[p] = "compile" => disk[Object(p)] \in Seq(Char)
  PROVE  TypeOK'
<1>1. args' = args /\ Command' = Command
  BY DEF Child, Command
<1>2. Object(p) \in DOMAIN OnDisk /\ Printed(p) \in Seq(Char) /\ ExitStatus(p) \in Nat
  BY PrintedIsText
<1>3. /\ child \in [Command -> ChildPlaces] /\ status \in [Command -> Int]
      /\ unwritten \in [Command -> Seq(Char)]
      /\ disk \in [DOMAIN OnDisk -> Seq(Char) \cup {Absent}]
      /\ openedBy \in [DOMAIN OnDisk -> {0} \cup Command]
  BY DEF TypeOK
<1>4. \A s : ChildExits(p, s) /\ s \in Int
        => child' \in [Command -> ChildPlaces] /\ status' \in [Command -> Int] /\ UNCHANGED unwritten
  BY <1>3, Updated DEF ChildExits, ChildPlaces
<1>5. \A c \in ChildPlaces : [child EXCEPT ![p] = c] \in [Command -> ChildPlaces]
  BY <1>3, Updated
<1>6. {"create", "exec", "compile", "gone"} \subseteq ChildPlaces
  BY DEF ChildPlaces
<1>7. UNCHANGED run
  BY DEF Child, CreateObject, OpenSource, Exec, ExecFailed, Flush, CompilerExits, Killed, ChildExits
<1> SUFFICES /\ child' \in [Command -> ChildPlaces] /\ status' \in [Command -> Int]
             /\ unwritten' \in [Command -> Seq(Char)]
             /\ disk' \in [DOMAIN OnDisk -> Seq(Char) \cup {Absent}]
             /\ openedBy' \in [DOMAIN OnDisk -> {0} \cup Command]
  BY <1>1, <1>7 DEF TypeOK, run
<1>8. CASE CreateObject(p)
  <2>1. CASE ChildExits(p, STATUS_CANNOT_WRITE_OUTPUT) /\ UNCHANGED <<disk, openedBy>>
    BY <2>1, <1>3, <1>4 DEF STATUS_CANNOT_WRITE_OUTPUT
  <2>2. CASE /\ disk' = [disk EXCEPT ![Object(p)] = Truncated(@)]
             /\ openedBy' = [openedBy EXCEPT ![Object(p)] = p]
             /\ child' = [child EXCEPT ![p] = "exec"]
             /\ UNCHANGED <<unwritten, status>>
    <3>1. disk' \in [DOMAIN OnDisk -> Seq(Char) \cup {Absent}]
      BY <2>2, <1>3, << >> \in Seq(Char), Updated DEF Truncated
    <3>2. openedBy' \in [DOMAIN OnDisk -> {0} \cup Command]
      BY <2>2, <1>3, Updated
    <3> QED BY <2>2, <1>3, <1>5, <1>6, <3>1, <3>2
  <2> QED BY <1>8, <2>1, <2>2 DEF CreateObject
<1>9. CASE OpenSource(p) /\ UNCHANGED openedBy
  <2>1. CASE ChildExits(p, STATUS_CANNOT_READ_INPUT) /\ UNCHANGED disk
    BY <2>1, <1>9, <1>3, <1>4 DEF STATUS_CANNOT_READ_INPUT
  <2>2. CASE child' = [child EXCEPT ![p] = "create"] /\ UNCHANGED <<unwritten, status, disk>>
    BY <2>2, <1>9, <1>3, <1>5, <1>6
  <2> QED BY <1>9, <2>1, <2>2 DEF OpenSource
<1>10. CASE Exec(p) /\ UNCHANGED openedBy
  <2>1. CASE ExecFailed(p)
    BY <2>1, <1>10, <1>3, <1>4 DEF Exec, ExecFailed, STATUS_CANNOT_RUN_PROGRAM
  <2>2. CASE /\ child' = [child EXCEPT ![p] = "compile"]
             /\ unwritten' = [unwritten EXCEPT ![p] = Printed(p)] /\ UNCHANGED status
    <3>1. unwritten' \in [Command -> Seq(Char)]
      BY <2>2, <1>2, <1>3, Updated
    <3> QED BY <2>2, <1>10, <1>3, <1>5, <1>6, <3>1 DEF Exec
  <2> QED BY <1>10, <2>1, <2>2 DEF Exec
<1>11. CASE Flush(p) /\ UNCHANGED openedBy
  <2>0. PICK n \in 1 .. Len(unwritten[p]) : \E k \in 0 .. n :
          /\ unwritten' = [unwritten EXCEPT ![p] = SubSeq(@, n + 1, Len(@))]
          /\ disk' = [disk EXCEPT ![Object(p)] = @ \o SubSeq(unwritten[p], 1, k)]
    BY <1>11 DEF Flush
  <2>1. PICK k \in 0 .. n :
          /\ unwritten' = [unwritten EXCEPT ![p] = SubSeq(@, n + 1, Len(@))]
          /\ disk' = [disk EXCEPT ![Object(p)] = @ \o SubSeq(unwritten[p], 1, k)]
    BY <2>0
  <2>2. /\ SubSeq(unwritten[p], n + 1, Len(unwritten[p])) \in Seq(Char)
        /\ SubSeq(unwritten[p], 1, k) \in Seq(Char)
    <3>1. unwritten[p] \in Seq(Char) /\ Len(unwritten[p]) \in Nat
      BY <1>3, LenProperties
    <3>2. n \in Nat /\ n <= Len(unwritten[p]) /\ k \in Nat /\ k <= Len(unwritten[p])
      BY <3>1
    <3> QED BY <3>1, <3>2, Rest, Begun
  <2>3. unwritten' \in [Command -> Seq(Char)]
    BY <2>1, <2>2, <1>3, Updated
  <2>4. disk' \in [DOMAIN OnDisk -> Seq(Char) \cup {Absent}]
    <3>1. disk[Object(p)] \in Seq(Char)
      BY <1>11 DEF Flush
    <3>2. disk[Object(p)] \o SubSeq(unwritten[p], 1, k) \in Seq(Char)
      BY <3>1, <2>2
    <3> QED BY <2>1, <3>2, <1>3, Updated
  <2> QED BY <1>11, <1>3, <2>3, <2>4 DEF Flush
<1>12. CASE CompilerExits(p) /\ UNCHANGED openedBy
  BY <1>12, <1>2, <1>3, <1>4 DEF CompilerExits
<1>13. CASE Killed(p) /\ UNCHANGED openedBy
  <2>1. status' \in [Command -> Int]
    BY <1>13, <1>3, Updated DEF Killed, Signalled
  <2> QED BY <2>1, <1>13, <1>3, <1>5, <1>6 DEF Killed
<1> QED BY <1>8, <1>9, <1>10, <1>11, <1>12, <1>13 DEF Child

LEMMA OthersStay ==
  ASSUME TypeOK, NEW p \in Command, Parent(p) \/ Child(p)
  PROVE  /\ args' = args /\ Command' = Command
         /\ \A q \in Command \ {p} :
              /\ pc'[q] = pc[q] /\ exit'[q] = exit[q]
              /\ child'[q] = child[q] /\ status'[q] = status[q] /\ unwritten'[q] = unwritten[q]
              /\ place'[q] = place[q] /\ entries'[q] = entries[q] /\ memory'[q] = memory[q]
<1>1. CASE Parent(p)
  <2>1. args' = args /\ Command' = Command
    BY <1>1 DEF Parent, Command
  <2> SUFFICES ASSUME NEW q \in Command, q # p
               PROVE  /\ pc'[q] = pc[q] /\ exit'[q] = exit[q]
                      /\ child'[q] = child[q] /\ status'[q] = status[q]
                      /\ unwritten'[q] = unwritten[q] /\ place'[q] = place[q]
                      /\ entries'[q] = entries[q] /\ memory'[q] = memory[q]
    BY <2>1, Zenon
  <2> USE DEF TypeOK, Goes, Fail, run, comp
  <2>2. CASE Main(p)
    BY <2>2 DEF Main
  <2>3. CASE Fork(p)
    BY <2>3 DEF Fork
  <2>4. CASE WaitPid(p)
    BY <2>4 DEF WaitPid
  <2>5. CASE OpenObject(p)
    BY <2>5 DEF OpenObject
  <2>6. CASE LoadLine(p)
    BY <2>6 DEF LoadLine
  <2>7. CASE Run(p)
    BY <2>7 DEF Run
  <2>8. CASE Ends(p)
    BY <2>8 DEF Ends
  <2> QED BY <1>1, <2>2, <2>3, <2>4, <2>5, <2>6, <2>7, <2>8 DEF Parent
<1>2. CASE Child(p)
  <2>1. args' = args /\ Command' = Command
    BY <1>2 DEF Child, Command
  <2> SUFFICES ASSUME NEW q \in Command, q # p
               PROVE  UNCHANGED run /\ child'[q] = child[q] /\ status'[q] = status[q]
                      /\ unwritten'[q] = unwritten[q]
    BY <2>1, Zenon DEF run
  <2> USE DEF TypeOK, ChildExits
  <2>2. CASE CreateObject(p)
    BY <2>2 DEF CreateObject
  <2>3. CASE OpenSource(p)
    BY <2>3 DEF OpenSource
  <2>4. CASE Exec(p)
    BY <2>4 DEF Exec, ExecFailed
  <2>5. CASE Flush(p)
    BY <2>5 DEF Flush
  <2>6. CASE CompilerExits(p)
    BY <2>6 DEF CompilerExits
  <2>7. CASE Killed(p)
    BY <2>7 DEF Killed
  <2> QED BY <1>2, <2>2, <2>3, <2>4, <2>5, <2>6, <2>7 DEF Child
<1> QED BY <1>1, <1>2

-----------------------------------------------------------------------------
(* A command and its child. *)
LEMMA PhaseStep ==
  ASSUME TypeOK, TypeOK', \A q \in Command : Phase(q) /\ Reported(q),
         NEW p \in Command, Parent(p) \/ Child(p)
  PROVE  (\A q \in Command : Phase(q) /\ Reported(q))'
<1>1. /\ args' = args /\ Command' = Command
      /\ \A q \in Command \ {p} :
           /\ pc'[q] = pc[q] /\ exit'[q] = exit[q]
           /\ child'[q] = child[q] /\ status'[q] = status[q] /\ place'[q] = place[q]
           /\ entries'[q] = entries[q] /\ memory'[q] = memory[q]
  BY OthersStay
<1>2. \A q \in Command : ExitStatus(q)' = ExitStatus(q)
  BY <1>1 DEF ExitStatus, TapeNeeded
<1>3. ASSUME NEW q \in Command \ {p} PROVE Phase(q)' /\ Reported(q)'
  BY <1>1, <1>2 DEF Phase, Reported
<1>4. Phase(p) /\ Reported(p) /\ ExitStatus(p) \in Nat
  BY PrintedIsText
<1> SUFFICES Phase(p)' /\ Reported(p)'
  BY <1>1, <1>3, Zenon
<1>5. CASE Parent(p)
  <2> USE DEF TypeOK, Goes, Fail, run, comp, Reported, Phase
  <2>2. CASE Main(p)
    <3>1. UNCHANGED <<child, status, entries, memory>>
      BY <2>2 DEF Main
    <3>2. pc[p] = "main" /\ child[p] = "none" /\ entries[p] = << >> /\ memory[p] = << >>
      BY <2>2, <1>4 DEF Main
    <3>3. CASE Fail(p)
      BY <3>1, <3>2, <3>3, <1>1, <1>2, <1>4
    <3>4. CASE args[p].ext = ".a60" /\ Goes(p, "fork")
      BY <3>1, <3>2, <3>4, <1>1, <1>2, <1>4
    <3>5. CASE args[p].ext = ".x1" /\ Goes(p, "open")
      BY <3>1, <3>2, <3>5, <1>1, <1>2, <1>4
    <3> QED BY <2>2, <3>3, <3>4, <3>5 DEF Main
  <2>3. CASE Fork(p)
    <3>1. pc[p] = "fork" /\ args[p].ext = ".a60" /\ exit[p] = "none"
      BY <2>3, <1>4 DEF Fork
    <3>2. CASE Fail(p)
      BY <3>1, <3>2, <1>1, <1>2, <1>4
    <3>3. CASE Goes(p, "wait") /\ child' = [child EXCEPT ![p] = "open"] /\ UNCHANGED status
      <4>1. pc'[p] = "wait" /\ child'[p] = "open" /\ exit'[p] = "none"
            /\ entries'[p] = << >> /\ memory'[p] = << >> /\ place'[p] = 1
        BY <3>1, <3>3, <1>4
      <4> QED BY <3>1, <4>1, <1>1
    <3> QED BY <2>3, <3>2, <3>3 DEF Fork
  <2>4. CASE WaitPid(p)
    BY <2>4, <1>1, <1>2, <1>4 DEF WaitPid
  <2>5. CASE OpenObject(p)
    BY <2>5, <1>1, <1>2, <1>4 DEF OpenObject
  <2>6. CASE LoadLine(p)
    <3>1. UNCHANGED <<child, status>> /\ pc[p] = "load"
      BY <2>6 DEF LoadLine
    <3>2. CASE Fail(p)
      <4>1. pc'[p] = "ended"
        BY <3>2
      <4> QED BY <3>1, <4>1, <1>1, <1>2, <1>4
    <3>3. CASE UNCHANGED <<pc, exit>>
      <4>1. pc'[p] = "load" /\ exit'[p] = exit[p] /\ child'[p] = child[p] /\ status'[p] = status[p]
        BY <3>1, <3>3
      <4> HIDE DEF TypeOK, Goes, Fail, run, comp
      <4> QED BY <4>1, <3>1, <1>1, <1>2, <1>4
    <3> QED BY <2>6, <3>2, <3>3 DEF LoadLine
  <2>7. CASE Run(p)
    BY <2>7, <1>1, <1>2, <1>4 DEF Run
  <2>8. CASE Ends(p)
    BY <2>8, <1>1, <1>2, <1>4 DEF Ends
  <2> QED BY <1>5, <2>2, <2>3, <2>4, <2>5, <2>6, <2>7, <2>8 DEF Parent
<1>6. CASE Child(p)
  <2> USE DEF TypeOK, ChildExits, run, Reported, Phase
  <2>2. CASE CreateObject(p)
    BY <2>2, <1>1, <1>2, <1>4 DEF CreateObject, STATUS_CANNOT_WRITE_OUTPUT, STATUS_OK, Signalled
  <2>3. CASE OpenSource(p)
    BY <2>3, <1>1, <1>2, <1>4 DEF OpenSource, STATUS_CANNOT_READ_INPUT, STATUS_OK, Signalled
  <2>4. CASE Exec(p)
    BY <2>4, <1>1, <1>2, <1>4 DEF Exec, ExecFailed, STATUS_CANNOT_RUN_PROGRAM, STATUS_OK, Signalled
  <2>5. CASE Flush(p)
    BY <2>5, <1>1, <1>2, <1>4 DEF Flush
  <2>6. CASE CompilerExits(p)
    BY <2>6, <1>1, <1>2, <1>4 DEF CompilerExits, Signalled
  <2>7. CASE Killed(p)
    BY <2>7, <1>1, <1>2, <1>4 DEF Killed, Signalled, STATUS_OK
  <2> QED BY <1>6, <2>2, <2>3, <2>4, <2>5, <2>6, <2>7 DEF Child
<1> QED BY <1>5, <1>6

LEMMA ParentPlaces ==
  ASSUME TypeOK, NEW p \in Command, Parent(p) \/ Child(p)
  PROVE  /\ pc[p] = "ended" => pc'[p] = "ended"
         /\ pc[p] = "main" /\ pc'[p] # "main" => \A q \in Before(p) : Ended(q)
<1>1. CASE Main(p)
  BY <1>1 DEF Main
<1>2. CASE pc[p] # "main" /\ pc[p] # "ended"
  BY <1>2
<1>3. CASE ~ Main(p) /\ pc[p] \in {"main", "ended"}
  <2>1. ~ Parent(p)
    BY <1>3 DEF Parent, Fork, WaitPid, OpenObject, LoadLine, Run, Ends
  <2>2. UNCHANGED run
    BY <2>1 DEF Child, CreateObject, OpenSource, Exec, ExecFailed, Flush, CompilerExits, Killed,
                ChildExits
  <2> QED BY <2>2 DEF run
<1> QED BY <1>1, <1>2, <1>3

LEMMA ExclusiveStep ==
  ASSUME TypeOK, Exclusive, NEW p \in Command, Parent(p) \/ Child(p)
  PROVE  Exclusive'
<1>1. args' = args /\ Command' = Command /\ \A q \in Command \ {p} : pc'[q] = pc[q]
  BY OthersStay
<1>2. \A q \in Command : Before(q)' = Before(q) /\ Before(q) \subseteq Command
  BY <1>1 DEF Before, Object
<1>3. \A q \in Command : Ended(q) => Ended(q)'
  BY <1>1, ParentPlaces DEF Ended
<1>4. ASSUME NEW q \in Command, pc'[q] # "main" PROVE \A r \in Before(q) : Ended(r)
  BY <1>1, <1>4, ParentPlaces DEF Exclusive
<1> QED BY <1>1, <1>2, <1>3, <1>4 DEF Exclusive

LEMMA Alone ==
  ASSUME TypeOK, Exclusive, NEW p \in Command, NEW q \in Command, p # q, Object(p) = Object(q),
         pc[p] \notin {"main", "ended"}
  PROVE  pc[q] \in {"main", "ended"}
<1>1. p \in Nat /\ q \in Nat
  BY CommandIsFinite
<1>2. CASE q < p
  <2>1. q \in Before(p)
    BY <1>2 DEF Before
  <2> QED BY <2>1 DEF Exclusive, Ended
<1>3. CASE p < q
  <2>1. p \in Before(q)
    BY <1>3 DEF Before
  <2> QED BY <2>1 DEF Exclusive, Ended
<1> QED BY <1>1, <1>2, <1>3

(* What a step does to the child, and to the object file. *)
ChildMove(p) ==
  \/ /\ child'[p] = child[p] /\ status'[p] = status[p]
     /\ UNCHANGED <<disk, unwritten>> \/ Flush(p)
  \/ /\ UNCHANGED disk
     /\ \/ child[p] = "none" /\ child'[p] = "open"
        \/ child[p] = "open" /\ child'[p] = "create"
        \/ child[p] = "exec" /\ child'[p] = "compile" /\ unwritten'[p] = Printed(p)
        \/ /\ child[p] = "compile" /\ child'[p] = "gone" /\ status'[p] = ExitStatus(p)
           /\ unwritten[p] = << >>
        \/ /\ child[p] \notin {"none", "gone"} /\ child'[p] = "gone" /\ status'[p] # STATUS_OK
           /\ \/ child[p] \in {"open", "create"}
              \/ {"kill", "exec"} \cap args[p].faults # {}

LEMMA ChildMoves ==
  ASSUME TypeOK, NEW p \in Command, Phase(p), Parent(p) \/ Child(p)
  PROVE  \/ /\ child[p] = "create" /\ child'[p] = "exec"
            /\ openedBy' = [openedBy EXCEPT ![Object(p)] = p]
            /\ disk' = [disk EXCEPT ![Object(p)] = << >>]
         \/ UNCHANGED openedBy /\ ChildMove(p)
<1>0. p \in DOMAIN child /\ p \in DOMAIN status /\ p \in DOMAIN unwritten
  BY DEF TypeOK
<1>1. \A s : ChildExits(p, s) => child'[p] = "gone" /\ status'[p] = s
  BY <1>0 DEF ChildExits
<1>2. CASE Parent(p)
  <2>1. UNCHANGED <<openedBy, disk>>
    BY <1>2 DEF Parent, Main, Fork, WaitPid, OpenObject, LoadLine, Run, Ends, Fail
  <2>2. CASE Fork(p)
    <3>1. UNCHANGED comp \/ child' = [child EXCEPT ![p] = "open"]
      BY <2>2 DEF Fork, Fail
    <3>2. child[p] = "none"
      BY <2>2 DEF Fork, Phase
    <3> QED BY <2>1, <3>1, <3>2, <1>0 DEF comp, ChildMove
  <2>3. CASE ~ Fork(p)
    <3>1. UNCHANGED comp
      BY <1>2, <2>3 DEF Parent, Main, WaitPid, OpenObject, LoadLine, Run, Ends, Fail
    <3> QED BY <2>1, <3>1 DEF comp, ChildMove
  <2> QED BY <2>2, <2>3
<1>3. CASE CreateObject(p)
  BY <1>3, <1>0, <1>1 DEF CreateObject, Truncated, STATUS_OK, STATUS_CANNOT_WRITE_OUTPUT, ChildMove
<1>4. CASE OpenSource(p) /\ UNCHANGED openedBy
  BY <1>4, <1>0, <1>1 DEF OpenSource, STATUS_OK, STATUS_CANNOT_READ_INPUT, ChildMove
<1>5. CASE Exec(p) /\ UNCHANGED openedBy
  BY <1>5, <1>0, <1>1 DEF Exec, ExecFailed, STATUS_OK, STATUS_CANNOT_RUN_PROGRAM, ChildMove
<1>6. CASE Flush(p) /\ UNCHANGED openedBy
  BY <1>6 DEF Flush, ChildMove
<1>7. CASE CompilerExits(p) /\ UNCHANGED openedBy
  BY <1>7, <1>0, <1>1 DEF CompilerExits, ChildMove
<1>8. CASE Killed(p) /\ UNCHANGED openedBy
  BY <1>8, <1>0 DEF Killed, Signalled, STATUS_OK, ChildMove
<1> QED BY <1>2, <1>3, <1>4, <1>5, <1>6, <1>7, <1>8 DEF Child

LEMMA OwnerStep ==
  ASSUME TypeOK, TypeOK', \A q \in Command : Phase(q) /\ Reported(q), Exclusive, Owner,
         NEW p \in Command, Parent(p) \/ Child(p)
  PROVE  Owner'
<1>1. /\ args' = args /\ Command' = Command
      /\ \A q \in Command \ {p} :
           pc'[q] = pc[q] /\ child'[q] = child[q] /\ status'[q] = status[q]
  BY OthersStay
<1>2. pc[p] = "ended" => pc'[p] = "ended"
  BY ParentPlaces
<1>3. \A q \in Command : Object(q)' = Object(q) /\ Object(q) \in DOMAIN OnDisk
  BY <1>1, PrintedIsText DEF Object
<1>4. openedBy \in [DOMAIN OnDisk -> {0} \cup Command]
  BY DEF TypeOK
<1>5. CASE /\ child[p] = "create" /\ child'[p] = "exec"
           /\ openedBy' = [openedBy EXCEPT ![Object(p)] = p]
  <2>1. pc[p] = "wait"
    BY <1>5 DEF Phase
  <2>2. ASSUME NEW f \in DOMAIN OnDisk, openedBy'[f] # 0
        PROVE  Object(openedBy'[f]) = f /\ child'[openedBy'[f]] \in {"exec", "compile", "gone"}
    <3>1. CASE f = Object(p)
      BY <3>1, <1>4, <1>5
    <3>2. CASE f # Object(p)
      BY <3>2, <2>2, <1>1, <1>4, <1>5 DEF Owner
    <3> QED BY <3>1, <3>2
  <2>3. ASSUME NEW q \in Command,
               \/ child'[q] \in {"exec", "compile"}
               \/ child'[q] = "gone" /\ status'[q] = STATUS_OK /\ pc'[q] # "ended"
        PROVE  openedBy'[Object(q)] = q
    <3>1. CASE q = p
      BY <3>1, <1>3, <1>4, <1>5
    <3>2. CASE q # p
      <4>1. pc[q] \notin {"main", "ended"}
        BY <3>2, <2>3, <1>1 DEF Phase
      <4>2. Object(q) # Object(p)
        BY <4>1, <3>2, <2>1, Alone
      <4> QED BY <4>2, <3>2, <2>3, <1>1, <1>3, <1>4, <1>5 DEF Owner
    <3> QED BY <3>1, <3>2
  <2> QED BY <2>2, <2>3, <1>1 DEF Owner, Object
<1>6. CASE /\ UNCHANGED openedBy
           /\ \/ child'[p] = child[p] /\ status'[p] = status[p]
              \/ child[p] = "none" /\ child'[p] = "open"
              \/ child[p] = "open" /\ child'[p] = "create"
              \/ child[p] = "exec" /\ child'[p] = "compile"
              \/ child[p] = "compile" /\ child'[p] = "gone"
              \/ child[p] \notin {"none", "gone"} /\ child'[p] = "gone" /\ status'[p] # STATUS_OK
  <2>2. ASSUME NEW q \in Command,
               \/ child'[q] \in {"exec", "compile"}
               \/ child'[q] = "gone" /\ status'[q] = STATUS_OK /\ pc'[q] # "ended"
        PROVE  openedBy[Object(q)] = q
    BY <2>2, <1>1, <1>2, <1>6 DEF Owner
  <2>3. ASSUME NEW f \in DOMAIN OnDisk, openedBy[f] # 0
        PROVE  Object(openedBy[f]) = f /\ child'[openedBy[f]] \in {"exec", "compile", "gone"}
    BY <2>3, <1>1, <1>4, <1>6 DEF Owner
  <2> QED BY <2>2, <2>3, <1>1, <1>3, <1>6 DEF Owner, Object
<1> QED BY <1>5, <1>6, ChildMoves DEF ChildMove, Flush

-----------------------------------------------------------------------------
(* The object file. *)
(* n characters more are written. *)
LEMMA Flushed ==
  ASSUME NEW A, NEW s \in Seq(A), NEW m \in Nat, NEW n \in Nat, m + n <= Len(s),
         NEW r, r = SubSeq(s, m + 1, Len(s))
  PROVE  /\ SubSeq(r, n + 1, Len(r)) = SubSeq(s, m + n + 1, Len(s))
         /\ SubSeq(s, 1, m) \o SubSeq(r, 1, n) = SubSeq(s, 1, m + n)
<1> DEFINE L == Len(s)
           u == SubSeq(r, n + 1, Len(r))
           v == SubSeq(s, m + n + 1, L)
           b == SubSeq(s, 1, m)
           c == SubSeq(r, 1, n)
           d == SubSeq(s, 1, m + n)
<1>0. L \in Nat /\ m <= L /\ n <= L - m /\ m + n \in Nat
  BY LenProperties
<1>1. r \in Seq(A) /\ Len(r) = L - m /\ \A i \in 1 .. L - m : r[i] = s[m + i]
  BY <1>0, Rest
<1>2. u \in Seq(A) /\ Len(u) = L - m - n /\ \A i \in 1 .. L - m - n : u[i] = r[n + i]
  BY <1>0, <1>1, Rest
<1>3. v \in Seq(A) /\ Len(v) = L - (m + n) /\ \A i \in 1 .. L - (m + n) : v[i] = s[m + n + i]
  BY <1>0, Rest
<1>4. b \in Seq(A) /\ Len(b) = m /\ \A i \in 1 .. m : b[i] = s[i]
  BY <1>0, Begun
<1>5. c \in Seq(A) /\ Len(c) = n /\ \A i \in 1 .. n : c[i] = r[i]
  BY <1>0, <1>1, Begun
<1>6. d \in Seq(A) /\ Len(d) = m + n /\ \A i \in 1 .. m + n : d[i] = s[i]
  BY <1>0, Begun
<1> HIDE DEF L, u, v, b, c, d
<1>7. u = v
  <2>1. \A i \in 1 .. Len(u) : u[i] = v[i]
    BY <1>0, <1>1, <1>2, <1>3
  <2>2. Len(u) = Len(v)
    BY <1>0, <1>2, <1>3
  <2> QED BY <2>1, <2>2, <1>2, <1>3, SeqEqual
<1>8. b \o c = d
  <2> DEFINE e == b \o c
  <2>1. /\ e \in Seq(A) /\ Len(e) = m + n
        /\ \A i \in 1 .. m + n : e[i] = IF i <= m THEN b[i] ELSE c[i - m]
    BY <1>4, <1>5, ConcatProperties, ZenonT(30)
  <2> HIDE DEF e
  <2>2. ASSUME NEW i \in 1 .. m + n PROVE e[i] = d[i]
    <3>1. CASE i <= m
      <4>1. i \in 1 .. m
        BY <3>1
      <4>2. b[i] = s[i] /\ d[i] = s[i]
        BY <4>1, <1>4, <1>6
      <4>3. e[i] = b[i]
        BY <3>1, <2>1
      <4> QED BY <4>2, <4>3
    <3>2. CASE i > m
      <4>1. i - m \in 1 .. n /\ i - m \in 1 .. L - m /\ m + (i - m) = i
        BY <3>2, <1>0
      <4>2. c[i - m] = r[i - m] /\ r[i - m] = s[m + (i - m)]
        BY <4>1, <1>1, <1>5
      <4>3. e[i] = c[i - m] /\ d[i] = s[i]
        BY <3>2, <2>1, <1>6
      <4> QED BY <4>1, <4>2, <4>3
    <3> QED BY <3>1, <3>2
  <2>3. e = d
    BY <2>1, <2>2, <1>6, SeqEqual
  <2> QED BY <2>3 DEF e
<1> QED BY <1>7, <1>8 DEF L, u, v, b, c, d

(* The places of the characters in the file, after n more of which the    *)
(* first h got there.                                                      *)
LEMMA CopiedMore ==
  ASSUME NEW A, NEW ds \in Seq(A), NEW s \in Seq(A), NEW m \in Nat, NEW n \in Nat,
         m + n <= Len(s), NEW h \in 0 .. n, NEW idx, CopiedBy(idx, ds, s, m)
  PROVE  LET es == ds \o SubSeq(SubSeq(s, m + 1, Len(s)), 1, h)
         IN  /\ es \in Seq(A)
             /\ \E jdx \in [1 .. Len(es) -> 1 .. m + n] : CopiedBy(jdx, es, s, m + n)
<1> DEFINE k == Len(ds)
           r == SubSeq(s, m + 1, Len(s))
           c == SubSeq(r, 1, h)
           es == ds \o c
           jdx == [i \in 1 .. k + h |-> IF i <= k THEN idx[i] ELSE m + (i - k)]
<1>0. k \in Nat /\ Len(s) \in Nat /\ m <= Len(s) /\ n <= Len(s) - m
      /\ h \in Nat /\ h <= n /\ h <= Len(s) - m
  BY LenProperties
<1>1. r \in Seq(A) /\ Len(r) = Len(s) - m /\ \A i \in 1 .. Len(s) - m : r[i] = s[m + i]
  BY <1>0, Rest
<1>2. c \in Seq(A) /\ Len(c) = h /\ \A i \in 1 .. h : c[i] = r[i]
  BY <1>0, <1>1, Begun
<1> HIDE DEF r, c
<1>3. /\ es \in Seq(A) /\ Len(es) = k + h
      /\ \A i \in 1 .. k + h : es[i] = IF i <= k THEN ds[i] ELSE c[i - k]
  BY <1>2, ConcatProperties
<1>4. /\ \A i \in 1 .. k : idx[i] \in 1 .. m /\ ds[i] = s[idx[i]]
      /\ \A i, j \in 1 .. k : i < j => idx[i] < idx[j]
      /\ idx \in [1 .. k -> 1 .. m]
  BY DEF CopiedBy
<1> HIDE DEF k, es
<1>6. \A i \in 1 .. k + h : jdx[i] \in 1 .. m + n /\ es[i] = s[jdx[i]]
  <2> SUFFICES ASSUME NEW i \in 1 .. k + h
               PROVE  jdx[i] \in 1 .. m + n /\ es[i] = s[jdx[i]]
    OBVIOUS
  <2>1. CASE i <= k
    BY <2>1, <1>0, <1>3, <1>4
  <2>2. CASE i > k
    <3>1. i - k \in 1 .. h /\ jdx[i] = m + (i - k)
      BY <2>2, <1>0
    <3>2. es[i] = c[i - k] /\ c[i - k] = r[i - k]
      BY <2>2, <3>1, <1>0, <1>2, <1>3
    <3>3. r[i - k] = s[m + (i - k)]
      <4>1. i - k \in 1 .. Len(s) - m
        BY <3>1, <1>0
      <4> QED BY <4>1, <1>1
    <3> QED BY <3>1, <3>2, <3>3, <1>0
  <2> QED BY <2>1, <2>2, <1>0
<1>7. \A i, j \in 1 .. k + h : i < j => jdx[i] < jdx[j]
  BY <1>0, <1>4
<1>8. jdx \in [1 .. k + h -> 1 .. m + n]
  BY <1>6
<1> HIDE DEF jdx
<1>9. CopiedBy(jdx, es, s, m + n)
  BY <1>3, <1>6, <1>7, <1>8 DEF CopiedBy
<1> QED BY <1>3, <1>8, <1>9 DEF es, c, r, k

LEMMA FileOfOwner ==
  ASSUME TypeOK, NEW p \in Command, child[p] \in {"exec", "compile"}, Owner,
         \A f \in DOMAIN OnDisk : Written(f)
  PROVE  /\ Object(p) \in DOMAIN OnDisk /\ openedBy[Object(p)] = p
         /\ disk[Object(p)] \in Seq(Char)
<1>1. Object(p) \in DOMAIN OnDisk /\ p # 0
  BY PrintedIsText, CommandIsFinite
<1>2. openedBy[Object(p)] = p
  BY DEF Owner
<1> QED BY <1>1, <1>2 DEF Written

LEMMA WrittenKept ==
  ASSUME TypeOK, args' = args, NEW f \in DOMAIN OnDisk, Written(f),
         openedBy'[f] = openedBy[f], disk'[f] = disk[f],
         openedBy[f] # 0 => /\ child'[openedBy[f]] = child[openedBy[f]]
                            /\ unwritten'[openedBy[f]] = unwritten[openedBy[f]]
  PROVE  Written(f)'
<1> DEFINE q == openedBy[f]
<1>1. Printed(q)' = Printed(q)'
  OBVIOUS
<1>2. CASE q = 0
  BY <1>2 DEF Written
<1>3. CASE q # 0
  <2>1. ASSUME NEW m, PrintedUpTo(f, q, m) PROVE PrintedUpTo(f, q, m)'
    BY <1>3, <2>1 DEF PrintedUpTo, Printed, TapeNeeded
  <2>2. /\ disk[f] \in Seq(Char) /\ child[q] = "exec" => disk[f] = << >>
        /\ \E m \in 0 .. Len(Printed(q)) : PrintedUpTo(f, q, m)
    BY <1>3 DEF Written
  <2>3. PICK m \in 0 .. Len(Printed(q)) : PrintedUpTo(f, q, m)
    BY <2>2
  <2>4. Printed(q)' = Printed(q)
    BY DEF Printed, TapeNeeded
  <2>5. m \in (0 .. Len(Printed(q)))' /\ PrintedUpTo(f, q, m)'
    BY <2>1, <2>3, <2>4
  <2>6. q' = q /\ (child[q])' = child[q] /\ (disk[f])' = disk[f]
    BY <1>3
  <2> HIDE DEF q
  <2> QED BY <1>3, <2>2, <2>5, <2>6 DEF Written, q
<1> QED BY <1>2, <1>3

LEMMA WrittenStep ==
  ASSUME TypeOK, TypeOK', \A q \in Command : Phase(q) /\ Reported(q), Owner,
         \A f \in DOMAIN OnDisk : Written(f),
         NEW p \in Command, Parent(p) \/ Child(p), NEW f \in DOMAIN OnDisk
  PROVE  Written(f)'
<1> DEFINE q == openedBy[f]
           P == Printed(p)
<1>1. /\ args' = args /\ Command' = Command
      /\ \A r \in Command \ {p} : child'[r] = child[r] /\ unwritten'[r] = unwritten[r]
  BY OthersStay
<1>2. Object(p) \in DOMAIN OnDisk /\ P \in Seq(Char) /\ Len(P) \in Nat /\ Printed(p)' = P
  BY <1>1, PrintedIsText, LenProperties DEF Printed, TapeNeeded
<1>3. openedBy \in [DOMAIN OnDisk -> {0} \cup Command] /\ disk \in [DOMAIN OnDisk -> Seq(Char) \cup {Absent}]
  BY DEF TypeOK
<1>4. p # 0 /\ (q = p => Object(p) = f /\ child[p] \in {"exec", "compile", "gone"})
  BY CommandIsFinite DEF Owner
<1>5. ASSUME NEW m \in 0 .. Len(P), openedBy'[f] = p, disk'[f] \in Seq(Char),
             child'[p] = "exec" => disk'[f] = << >>,
             \E idx \in [1 .. Len(disk'[f]) -> 1 .. m] : CopiedBy(idx, disk'[f], P, m),
             child'[p] = "compile" => unwritten'[p] = SubSeq(P, m + 1, Len(P)),
             "full" \notin args[p].faults => disk'[f] = SubSeq(P, 1, m),
             child'[p] = "gone" /\ {"kill", "exec"} \cap args[p].faults = {} => m = Len(P)
      PROVE  Written(f)'
  BY <1>1, <1>2, <1>4, <1>5 DEF Written, PrintedUpTo
<1>6. ASSUME openedBy'[f] = p, disk'[f] = << >>, child'[p] # "gone" \/ {"kill", "exec"} \cap args[p].faults # {},
             child'[p] = "compile" => unwritten'[p] = P
      PROVE  Written(f)'
  <2>1. CopiedBy(<< >>, << >>, P, 0) /\ << >> \in [1 .. Len(<< >>) -> 1 .. 0]
    BY DEF CopiedBy
  <2>2. SubSeq(P, 1, 0) = << >> /\ SubSeq(P, 1, Len(P)) = P
    BY <1>2, SubSeqEmpty, SubSeqFull
  <2>3. \E idx \in [1 .. Len(disk'[f]) -> 1 .. 0] : CopiedBy(idx, disk'[f], P, 0)
    BY <2>1, <1>6
  <2>4. 0 \in 0 .. Len(P) /\ disk'[f] \in Seq(Char) /\ SubSeq(P, 0 + 1, Len(P)) = P
    BY <2>2, <1>2, <1>6
  <2> HIDE DEF P
  <2> QED BY <2>2, <2>3, <2>4, <1>5, <1>6
<1>7. CASE /\ child[p] = "create" /\ child'[p] = "exec"
           /\ openedBy' = [openedBy EXCEPT ![Object(p)] = p]
           /\ disk' = [disk EXCEPT ![Object(p)] = << >>]
  <2>1. CASE f = Object(p)
    BY <2>1, <1>3, <1>6, <1>7
  <2>2. CASE f # Object(p)
    BY <2>2, <1>1, <1>3, <1>4, <1>7, WrittenKept
  <2> QED BY <2>1, <2>2
<1>8. CASE UNCHANGED openedBy /\ ChildMove(p)
  <2>1. CASE q # p
    <3>1. disk'[f] = disk[f]
      <4>1. CASE Flush(p)
        <5>1. f # Object(p)
          BY <4>1, <2>1, FileOfOwner DEF Flush
        <5> QED BY <5>1, <4>1, <1>3 DEF Flush
      <4> QED BY <4>1, <1>8 DEF ChildMove
    <3> QED BY <3>1, <2>1, <1>1, <1>3, <1>8, WrittenKept
  <2>2. CASE q = p
    <3>1. PICK m \in 0 .. Len(P) : PrintedUpTo(f, p, m)
      BY <2>2, <1>4 DEF Written
    <3>0. m \in Nat /\ m <= Len(P)
      BY <1>2
    <3>2. disk[f] \in Seq(Char) /\ (child[p] = "exec" => disk[f] = << >>)
      BY <2>2, <1>4 DEF Written
    <3>3. CASE child'[p] = child[p] /\ UNCHANGED <<disk, unwritten>>
      BY <3>3, <2>2, <1>1, <1>8, <1>4, WrittenKept
    <3>4. CASE child[p] = "exec" /\ child'[p] = "compile" /\ unwritten'[p] = P /\ UNCHANGED disk
      BY <3>4, <3>2, <2>2, <1>6, <1>8
    <3>5. CASE /\ child[p] = "compile" /\ child'[p] = "gone" /\ unwritten[p] = << >>
               /\ UNCHANGED disk
      <4>1. SubSeq(P, m + 1, Len(P)) = << >>
        BY <3>1, <3>5 DEF PrintedUpTo
      <4>2. Len(SubSeq(P, m + 1, Len(P))) = Len(P) - m
        BY <3>0, <1>2, Rest
      <4>3. m = Len(P)
        <5>1. Len(P) - m = 0
          BY <4>1, <4>2
        <5>2. Len(P) \in Nat
          BY <1>2
        <5> HIDE DEF P
        <5> QED BY <5>1, <5>2, <3>0
      <4> QED BY <4>3, <3>1, <3>2, <3>5, <2>2, <1>5, <1>8 DEF PrintedUpTo
    <3>6. CASE /\ child[p] \in {"exec", "compile"} /\ child'[p] = "gone"
               /\ {"kill", "exec"} \cap args[p].faults # {} /\ UNCHANGED disk
      BY <3>1, <3>2, <3>6, <2>2, <1>5, <1>8 DEF PrintedUpTo
    <3>7. CASE Flush(p)
      <4>0. PICK n \in 1 .. Len(unwritten[p]) : \E h \in 0 .. n :
              /\ h = n \/ "full" \in args[p].faults
              /\ unwritten' = [unwritten EXCEPT ![p] = SubSeq(@, n + 1, Len(@))]
              /\ disk' = [disk EXCEPT ![Object(p)] = @ \o SubSeq(unwritten[p], 1, h)]
        BY <3>7 DEF Flush
      <4>1. PICK h \in 0 .. n :
              /\ h = n \/ "full" \in args[p].faults
              /\ unwritten' = [unwritten EXCEPT ![p] = SubSeq(@, n + 1, Len(@))]
              /\ disk' = [disk EXCEPT ![Object(p)] = @ \o SubSeq(unwritten[p], 1, h)]
        BY <4>0
      <4>2. child[p] = "compile" /\ child'[p] = "compile" /\ unwritten[p] = SubSeq(P, m + 1, Len(P))
        BY <3>1, <3>7 DEF Flush, PrintedUpTo
      <4>3. n \in Nat /\ m \in Nat /\ m + n \in 0 .. Len(P) /\ m + n <= Len(P)
        BY <4>2, <3>0, <1>2, Rest
      <4>4. /\ unwritten'[p] = SubSeq(P, m + n + 1, Len(P))
            /\ SubSeq(P, 1, m) \o SubSeq(unwritten[p], 1, n) = SubSeq(P, 1, m + n)
        <5>1. unwritten'[p] = SubSeq(unwritten[p], n + 1, Len(unwritten[p]))
          BY <4>1 DEF TypeOK
        <5>2. m + n <= Len(P) /\ P \in Seq(Char)
          BY <4>3, <1>2
        <5>3. /\ SubSeq(unwritten[p], n + 1, Len(unwritten[p])) = SubSeq(P, m + n + 1, Len(P))
              /\ SubSeq(P, 1, m) \o SubSeq(unwritten[p], 1, n) = SubSeq(P, 1, m + n)
          <6> HIDE DEF P
          <6> QED BY <4>2, <4>3, <5>2, Flushed
        <5> QED BY <5>1, <5>3
      <4>5. PICK idx \in [1 .. Len(disk[f]) -> 1 .. m] : CopiedBy(idx, disk[f], P, m)
        BY <3>1 DEF PrintedUpTo
      <4>6. disk'[f] = disk[f] \o SubSeq(unwritten[p], 1, h)
        BY <4>1, <2>2, <1>3, <1>4
      <4>7. /\ disk'[f] \in Seq(Char)
            /\ \E jdx \in [1 .. Len(disk'[f]) -> 1 .. m + n] : CopiedBy(jdx, disk'[f], P, m + n)
        <5> DEFINE es == disk[f] \o SubSeq(SubSeq(P, m + 1, Len(P)), 1, h)
        <5>1. es \in Seq(Char) /\ \E jdx \in [1 .. Len(es) -> 1 .. m + n] : CopiedBy(jdx, es, P, m + n)
          BY <4>3, <4>5, <3>2, <1>2, CopiedMore
        <5>2. disk'[f] = es
          BY <4>6, <4>2
        <5> QED BY <5>1, <5>2
      <4>8. "full" \notin args[p].faults => disk'[f] = SubSeq(P, 1, m + n)
        BY <4>1, <4>6, <4>4, <3>1 DEF PrintedUpTo
      <4> HIDE DEF P
      <4> QED BY <4>2, <4>3, <4>4, <4>7, <4>8, <2>2, <1>5, <1>8
    <3> QED BY <3>3, <3>4, <3>5, <3>6, <3>7, <2>2, <1>4, <1>8 DEF ChildMove
  <2> QED BY <2>1, <2>2
<1> QED BY <1>7, <1>8, ChildMoves

-----------------------------------------------------------------------------
(* Loading. *)
LEMMA FileStays ==
  ASSUME TypeOK, \A q \in Command : Phase(q), Exclusive,
         NEW p \in Command, Parent(p) \/ Child(p), NEW q \in Command, pc[q] \in {"load", "run"}
  PROVE  disk'[Object(q)] = disk[Object(q)]
<1>1. disk \in [DOMAIN OnDisk -> Seq(Char) \cup {Absent}]
  BY DEF TypeOK
<1>2. CASE UNCHANGED disk
  BY <1>2
<1>3. CASE \/ child[p] = "create" /\ disk' = [disk EXCEPT ![Object(p)] = << >>]
           \/ Flush(p)
  <2>1. pc[p] = "wait"
    BY <1>3 DEF Phase, Flush
  <2>2. Object(p) # Object(q)
    BY <2>1, Alone
  <2>3. \A x : [disk EXCEPT ![Object(p)] = x][Object(q)] = disk[Object(q)]
    <3>1. Object(q) \in DOMAIN disk
      BY <1>1, PrintedIsText
    <3> QED BY <2>2, <3>1, <1>1
  <2>4. UNCHANGED disk \/ \E x : disk' = [disk EXCEPT ![Object(p)] = x]
    BY <1>3 DEF Flush
  <2> QED BY <2>3, <2>4
<1> QED BY <1>2, <1>3, ChildMoves DEF ChildMove

(* A line more is loaded. *)
LEMMA LineLoaded ==
  ASSUME TypeOK, TypeOK', NEW p \in Command, Loading(p),
         Object(p)' = Object(p), disk'[Object(p)] = disk[Object(p)], LoadLine(p), ~ Fail(p)
  PROVE  Loading(p)'
<1> DEFINE d == disk[Object(p)]
           i == place[p]
           K == BeginsBefore(d, i)
           l == Parsed[LineAt(d, i)]
<1>1. d \in Seq(Char) /\ Len(d) \in Nat /\ i \in Nat /\ i <= Len(d) /\ pc[p] = "load"
      /\ LoadedFrom(p, d)
  BY LenProperties DEF Loading, LoadLine, TypeOK
<1>2. i \in Starts(d) /\ Tables(entries[p], memory[p], Lines(d), K)
  BY <1>1 DEF LoadedFrom, HasLoaded
<1>3. /\ pc'[p] = "load" /\ place'[p] = LineEnd(d, i) + 1
      /\ entries'[p] = IF l.kind = "entry" THEN Append(entries[p], l.addr) ELSE entries[p]
      /\ memory'[p] = IF l.kind = "word" THEN Stored(memory[p], l) ELSE memory[p]
  BY DEF LoadLine, TypeOK
<1> HIDE DEF d
<1>4. i \in 1 .. Len(d) /\ i - 1 \in Nat /\ (i - 1) + 1 = i
  BY <1>1, <1>2 DEF Starts
<1>5. l = Lines(d)[i]
  BY <1>2 DEF Lines
<1>6. entries[p] \in Seq(Address) /\ l.addr \in Address
  <2>1. LineAt(d, i) \in Seq(Char)
    BY <1>1, <1>4, LineIsText
  <2> QED BY <2>1 DEF Address, TypeOK
<1>7. K \in SUBSET (1 .. i - 1)
  BY <1>1, <1>4 DEF BeginsBefore, Starts
<1> DEFINE e == LineEnd(d, i) + 1
<1>8. /\ e \in Nat
      /\ e \in Starts(d) \/ e > Len(d)
      /\ BeginsBefore(d, e) = K \cup {i}
  BY <1>1, <1>2, NextLine DEF BeginsBefore
<1> HIDE DEF l, K, i, e
<1>9. Tables(entries'[p], memory'[p], Lines(d), K \cup {i})
  <2>1. CASE l.kind = "entry"
    <3>1. Tables(Append(entries[p], Lines(d)[(i - 1) + 1].addr), memory[p], Lines(d), K \cup {(i - 1) + 1})
      BY <2>1, <1>2, <1>4, <1>5, <1>6, <1>7, TablesEntry
    <3> QED BY <3>1, <2>1, <1>3, <1>4, <1>5
  <2>2. CASE l.kind = "word"
    <3>1. Tables(entries[p], Stored(memory[p], Lines(d)[(i - 1) + 1]), Lines(d), K \cup {(i - 1) + 1})
      BY <2>2, <1>2, <1>4, <1>5, <1>7, TablesWord
    <3> QED BY <3>1, <2>2, <1>3, <1>4, <1>5
  <2>3. CASE l.kind \notin {"entry", "word"}
    BY <2>3, <1>2, <1>3, <1>5, TablesOther
  <2> QED BY <2>1, <2>2, <2>3
<1>10. disk'[Object(p)'] = d /\ place'[p] = e
  BY <1>3 DEF d, e, i
<1> QED BY <1>1, <1>3, <1>8, <1>9, <1>10 DEF Loading, LoadedFrom, HasLoaded

LEMMA LoadingStep ==
  ASSUME TypeOK, TypeOK', \A q \in Command : Phase(q) /\ Loading(q), Exclusive,
         NEW p \in Command, Parent(p) \/ Child(p), NEW q \in Command
  PROVE  Loading(q)'
<1>1. /\ args' = args
      /\ \A r \in Command \ {p} :
           /\ pc'[r] = pc[r] /\ place'[r] = place[r]
           /\ entries'[r] = entries[r] /\ memory'[r] = memory[r]
  BY OthersStay
<1>2. Object(q)' = Object(q)
  BY <1>1 DEF Object
<1>3. pc[q] \in {"load", "run"} => disk'[Object(q)] = disk[Object(q)]
  BY FileStays
<1>4. ASSUME pc'[q] = pc[q], place'[q] = place[q], entries'[q] = entries[q], memory'[q] = memory[q]
      PROVE  Loading(q)'
  BY <1>2, <1>3, <1>4 DEF Loading, LoadedFrom, HasLoaded
<1>5. CASE q # p
  BY <1>1, <1>4, <1>5
<1>6. CASE q = p /\ UNCHANGED run
  BY <1>4, <1>6 DEF run
<1>7. CASE q = p /\ Parent(p)
  <2>1. CASE Main(p) \/ Fork(p) \/ WaitPid(p) \/ Ends(p) \/ Fail(p)
    <3>1. pc'[p] \notin {"load", "run"}
      BY <2>1 DEF Main, Fork, WaitPid, Ends, Fail, Goes, TypeOK
    <3> QED BY <3>1, <1>7 DEF Loading
  <2>2. CASE OpenObject(p) /\ ~ Fail(p)
    <3>1. /\ pc'[p] = "load" /\ place'[p] = place[p] /\ UNCHANGED <<disk, entries, memory>>
          /\ disk[Object(p)] \in Seq(Char)
      BY <2>2, PrintedIsText DEF OpenObject, Goes, TypeOK
    <3>2. entries[p] = << >> /\ memory[p] = << >> /\ place[p] = 1
      BY <2>2 DEF OpenObject, Phase
    <3> DEFINE d == disk[Object(p)]
    <3>3. BeginsBefore(d, 1) = {} /\ (1 \in Starts(d) \/ 1 > Len(d))
      BY <3>1, LenProperties DEF BeginsBefore, Starts
    <3>4. HasLoaded(p, d, BeginsBefore(d, 1))
      BY <3>2, <3>3, NoTables DEF HasLoaded
    <3> QED BY <3>1, <3>2, <3>3, <3>4, <1>2, <1>7 DEF Loading, LoadedFrom, HasLoaded
  <2>3. CASE LoadLine(p) /\ ~ Fail(p)
    BY <2>3, <1>2, <1>3, <1>7, LineLoaded DEF LoadLine
  <2>4. CASE Run(p) /\ pc'[p] = "run"
    <3>1. /\ pc[p] = "load" /\ place[p] > Len(disk[Object(p)])
          /\ place'[p] = place[p] /\ UNCHANGED <<disk, entries, memory>>
      BY <2>4 DEF Run, Goes
    <3> QED BY <3>1, <1>2, <1>7, <2>4 DEF Loading, LoadedFrom, HasLoaded
  <2>5. CASE Run(p) /\ pc'[p] # "run"
    BY <2>5, <1>7 DEF Run, Goes, TypeOK, Loading
  <2> QED BY <1>7, <2>1, <2>2, <2>3, <2>4, <2>5 DEF Parent
<1>8. CASE q = p /\ Child(p)
  BY <1>6, <1>8 DEF Child, CreateObject, OpenSource, Exec, ExecFailed, Flush, CompilerExits, Killed,
                    ChildExits
<1> QED BY <1>5, <1>7, <1>8

-----------------------------------------------------------------------------
(* The two properties at one state. *)
LEMMA RunsText ==
  ASSUME Inv, NEW p \in Command, pc[p] = "run", args[p].ext = ".a60",
         {"kill", "full"} \cap args[p].faults = {}
  PROVE  RunsItsText(p)
<1> DEFINE f == Object(p)
           P == Printed(p)
<1>1. TypeOK /\ Phase(p) /\ Reported(p) /\ Owner /\ Written(f) /\ Loading(p)
  BY PrintedIsText DEF Inv
<1>2. child[p] = "gone" /\ status[p] = STATUS_OK
  BY <1>1 DEF Phase, Reported, ExitCode
<1>3. ExitStatus(p) = STATUS_OK /\ "exec" \notin args[p].faults
  BY <1>1, <1>2 DEF Reported
<1>4. P = Output[args[p].text].prints
  BY <1>3 DEF ExitStatus, Printed, STATUS_OK, STATUS_COMPILER_FAILED
<1>5. openedBy[f] = p /\ p # 0
  BY <1>1, <1>2, CommandIsFinite DEF Owner
<1>6. P \in Seq(Char)
  BY <1>1, PrintedIsText
<1>7. disk[f] = P
  <2>1. PrintedUpTo(f, p, Len(P))
    BY <1>1, <1>2, <1>3, <1>5 DEF Written, PrintedUpTo
  <2>2. disk[f] = SubSeq(P, 1, Len(P))
    BY <2>1 DEF PrintedUpTo
  <2> QED BY <2>2, <1>6, SubSeqFull
<1>8. HasLoaded(p, P, Starts(P))
  <2>1. LoadedFrom(p, P) /\ place[p] > Len(P) /\ place[p] \in Nat
    BY <1>1, <1>7 DEF Loading, LoadedFrom, TypeOK
  <2>2. BeginsBefore(P, place[p]) = Starts(P)
    BY <1>6, <2>1, LenProperties DEF BeginsBefore, Starts
  <2> QED BY <2>1, <2>2 DEF LoadedFrom
<1> QED BY <1>3, <1>4, <1>8 DEF RunsItsText

LEMMA RunsItsProgramNow == Inv => RunsItsProgram
<1> SUFFICES ASSUME Inv, NEW p \in Command, Executes(p), {"kill", "full"} \cap args[p].faults = {}
             PROVE  RunsItsText(p)
  BY DEF RunsItsProgram
<1>1. CASE pc[p] = "run"
  BY <1>1, RunsText DEF Executes
<1>2. CASE exit[p] = "success"
  BY <1>2 DEF Executes, Inv, Succeeded
<1> QED BY <1>1, <1>2 DEF Executes

LEMMA NothingStaleNow == Inv => NothingStale
<1> SUFFICES ASSUME Inv, NEW p \in Command, args[p].ext = ".x1", pc[p] \in {"load", "run"}
             PROVE  LET f == Object(p)
                        d == disk[f]
                        q == openedBy[f]
                    IN  /\ HasLoaded(p, d, {i \in Starts(d) : i < place[p]})
                        /\ pc[p] = "run" => place[p] > Len(d)
                        /\ IF q = 0 THEN d = OnDisk[f]
                           ELSE /\ \/ \E n \in 0 .. Len(Printed(q)) : d = SubSeq(Printed(q), 1, n)
                                   \/ "full" \in args[q].faults /\ IsPart(d, Printed(q))
                                /\ args[q].faults = {} => d = Printed(q)
  BY DEF NothingStale
<1> DEFINE f == Object(p)
           q == openedBy[f]
           d == disk[f]
<1>1. TypeOK /\ Exclusive /\ Owner /\ Written(f) /\ Loading(p) /\ f \in DOMAIN OnDisk
  BY PrintedIsText DEF Inv
<1>2. /\ d \in Seq(Char)
      /\ HasLoaded(p, d, {i \in Starts(d) : i < place[p]})
      /\ pc[p] = "run" => place[p] > Len(d)
  BY <1>1 DEF Loading, LoadedFrom, BeginsBefore
<1>3. CASE q = 0
  BY <1>1, <1>2, <1>3 DEF Written
<1>4. CASE q # 0
  <2> DEFINE P == Printed(q)
  <2>1. q \in Command /\ Object(q) = f /\ child[q] \in {"exec", "compile", "gone"}
    BY <1>1, <1>4 DEF Owner, TypeOK
  <2>2. P \in Seq(Char) /\ Len(P) \in Nat
    BY <1>1, <2>1, PrintedIsText, LenProperties
  <2>3. child[q] = "gone"
    <3>1. Phase(q)
      BY <2>1 DEF Inv
    <3>2. args[q].ext = ".a60" /\ q # p
      BY <2>1, <3>1 DEF Phase
    <3>3. pc[q] \in {"main", "ended"}
      BY <3>2, <2>1, <1>1, Alone
    <3> QED BY <3>1, <3>3, <2>1 DEF Phase
  <2>4. PICK m \in 0 .. Len(P) : PrintedUpTo(f, q, m)
    BY <1>1, <1>4 DEF Written
  <2>5. m \in Nat /\ m <= Len(P)
    BY <2>2
  <2>6. "full" \in args[q].faults => IsPart(d, P)
    <3>1. PICK idx \in [1 .. Len(d) -> 1 .. m] : CopiedBy(idx, d, P, m)
      BY <2>4 DEF PrintedUpTo
    <3> HIDE DEF P, d
    <3> QED BY <3>1, <2>2, <2>5, <1>2, CopiedIsPart
  <2>7. "full" \notin args[q].faults => d = SubSeq(P, 1, m)
    BY <2>4 DEF PrintedUpTo
  <2>8. args[q].faults = {} => d = P
    <3>1. args[q].faults = {} => m = Len(P) /\ d = SubSeq(P, 1, m)
      BY <2>3, <2>4, <2>7 DEF PrintedUpTo
    <3>2. SubSeq(P, 1, Len(P)) = P
      BY <2>2, SubSeqFull
    <3> QED BY <3>1, <3>2
  <2> QED BY <1>2, <1>4, <2>4, <2>6, <2>7, <2>8
<1> QED BY <1>3, <1>4

-----------------------------------------------------------------------------
(* The invariant holds at first and is kept by every step. *)
LEMMA InvInit == Init => Inv
<1> SUFFICES ASSUME Init PROVE Inv
  OBVIOUS
<1>1. TypeOK
  BY TypeInit
<1>2. \A p \in Command : /\ pc[p] = "main" /\ child[p] = "none" /\ exit[p] = "none"
                         /\ entries[p] = << >> /\ memory[p] = << >> /\ place[p] = 1
  BY DEF Init
<1>3. \A f \in DOMAIN OnDisk : openedBy[f] = 0 /\ disk[f] = OnDisk[f]
  BY DEF Init
<1>4. \A p \in Command : Phase(p) /\ Reported(p) /\ Loading(p) /\ Succeeded(p)
  BY <1>2 DEF Phase, Reported, Loading, Succeeded
<1>5. Exclusive /\ Owner
  BY <1>2, <1>3 DEF Exclusive, Owner
<1>6. \A f \in DOMAIN OnDisk : Written(f)
  BY <1>3 DEF Written
<1> QED BY <1>1, <1>4, <1>5, <1>6 DEF Inv

LEMMA SucceededStep ==
  ASSUME Inv, NEW p \in Command, Parent(p) \/ Child(p), NEW q \in Command
  PROVE  Succeeded(q)'
<1>1. TypeOK /\ Phase(q) /\ Succeeded(q)
  BY DEF Inv
<1>2. /\ args' = args
      /\ \A r \in Command \ {p} :
           exit'[r] = exit[r] /\ entries'[r] = entries[r] /\ memory'[r] = memory[r]
  BY <1>1, OthersStay
<1> SUFFICES ASSUME exit'[q] = "success", args[q].ext = ".a60",
                    {"kill", "full"} \cap args[q].faults = {}
             PROVE  RunsItsText(q)'
  BY <1>2 DEF Succeeded
<1>3. ASSUME RunsItsText(q), entries'[q] = entries[q], memory'[q] = memory[q]
      PROVE  RunsItsText(q)'
  BY <1>2, <1>3 DEF RunsItsText, HasLoaded, ExitStatus, TapeNeeded
<1>4. CASE exit[q] = "success"
  <2>1. RunsItsText(q) /\ pc[q] = "ended" /\ child[q] \in {"none", "gone"}
    BY <1>1, <1>4 DEF Succeeded, Phase
  <2>2. entries'[q] = entries[q] /\ memory'[q] = memory[q]
    <3>1. CASE q # p
      BY <3>1, <1>2
    <3>2. CASE q = p
      BY <3>2, <2>1 DEF Parent, Main, Fork, WaitPid, OpenObject, LoadLine, Run, Ends, Child,
                        CreateObject, OpenSource, Exec, Flush, CompilerExits, Killed
    <3> QED BY <3>1, <3>2
  <2> QED BY <1>3, <2>1, <2>2
<1>5. CASE exit[q] # "success"
  <2>1. q = p /\ exit'[p] = "success" /\ exit[p] # "success"
    BY <1>2, <1>5
  <2>2. Ends(p) /\ pc[p] = "run" /\ UNCHANGED <<entries, memory>>
    <3>1. p \in DOMAIN exit
      BY <1>1 DEF TypeOK
    <3>2. ~ Fail(p)
      BY <2>1, <3>1 DEF Fail
    <3>3. ~ UNCHANGED run /\ \A c : ~ Goes(p, c)
      BY <2>1 DEF run, Goes
    <3>4. ~ Child(p)
      BY <3>3 DEF Child, CreateObject, OpenSource, Exec, ExecFailed, Flush, CompilerExits, Killed,
                  ChildExits
    <3>5. ~ (Main(p) \/ Fork(p) \/ WaitPid(p))
      BY <3>2, <3>3 DEF Main, Fork, WaitPid
    <3>6. ~ (OpenObject(p) \/ LoadLine(p))
      BY <2>1, <3>2, <3>3 DEF OpenObject, LoadLine
    <3>7. ~ Run(p)
      BY <2>1, <3>1, <3>3 DEF Run
    <3> QED BY <3>2, <3>4, <3>5, <3>6, <3>7 DEF Parent, Ends
  <2> QED BY <2>1, <2>2, <1>3, RunsText
<1> QED BY <1>4, <1>5

LEMMA InvStep == Inv /\ [Next]_vars => Inv'
<1> SUFFICES ASSUME Inv, [Next]_vars PROVE Inv'
  OBVIOUS
<1>1. CASE UNCHANGED vars
  <2>1. Command' = Command /\ args' = args /\ disk' = disk /\ openedBy' = openedBy
        /\ pc' = pc /\ child' = child /\ unwritten' = unwritten /\ status' = status
        /\ place' = place /\ entries' = entries /\ memory' = memory /\ exit' = exit
    BY <1>1 DEF vars, run, comp, Command
  <2>2. TypeOK'
    BY <2>1 DEF Inv, TypeOK
  <2>3. (\A p \in Command : Phase(p) /\ Reported(p))'
    BY <2>1 DEF Inv, Phase, Reported, ExitStatus, TapeNeeded
  <2>4. Exclusive' /\ Owner'
    BY <2>1 DEF Inv, Exclusive, Before, Ended, Owner, Object
  <2>5. (\A f \in DOMAIN OnDisk : Written(f))'
    BY <2>1, WrittenKept DEF Inv
  <2>6. (\A p \in Command : Loading(p))'
    BY <2>1 DEF Inv, Loading, LoadedFrom, HasLoaded, Object
  <2>7. (\A p \in Command : Succeeded(p))'
    BY <2>1 DEF Inv, Succeeded, RunsItsText, HasLoaded, ExitStatus, TapeNeeded
  <2> QED BY <2>2, <2>3, <2>4, <2>5, <2>6, <2>7 DEF Inv
<1>2. CASE \E p \in Command : Parent(p) \/ Child(p)
  <2> PICK p \in Command : Parent(p) \/ Child(p)
    BY <1>2
  <2>1. /\ TypeOK /\ Exclusive /\ Owner
        /\ \A q \in Command : Phase(q) /\ Reported(q) /\ Loading(q)
        /\ \A f \in DOMAIN OnDisk : Written(f)
    BY DEF Inv
  <2>2. args' = args /\ Command' = Command
    BY <2>1, OthersStay
  <2>3. TypeOK'
    <3>1. child[p] = "compile" => disk[Object(p)] \in Seq(Char)
      BY <2>1, FileOfOwner
    <3> QED BY <2>1, <3>1, TypeParent, TypeChild
  <2>4. (\A q \in Command : Phase(q) /\ Reported(q))'
    BY <2>1, <2>3, PhaseStep
  <2>5. Exclusive' /\ Owner'
    BY <2>1, <2>3, ExclusiveStep, OwnerStep
  <2>6. \A f \in DOMAIN OnDisk : Written(f)'
    BY <2>1, <2>3, WrittenStep
  <2>7. \A q \in Command : Loading(q)' /\ Succeeded(q)'
    BY <2>1, <2>3, LoadingStep, SucceededStep
  <2> QED BY <2>2, <2>3, <2>4, <2>5, <2>6, <2>7 DEF Inv
<1> QED BY <1>1, <1>2, StepOfOne

(* The files, processes and commands as the steps of every command leave    *)
(* them: the inductive invariant.                                          *)
THEOREM InvHolds == Spec => []Inv
BY InvInit, InvStep, PTL DEF Spec

(* run_program: a command that compiles a text and comes to executing it   *)
(* has loaded the whole object program of this text, where its compiler is *)
(* not killed and the disk has room.                                       *)
THEOREM ProgramIsRun == Spec => []RunsItsProgram
BY InvHolds, RunsItsProgramNow, PTL

(* O_TRUNC: a command that loads an object file never mixes compilations:  *)
(* every character of it was printed by the last compiler to open it, of   *)
(* which the last line may be cut anywhere.                                *)
THEOREM NoCompilationsMixed == Spec => []NothingStale
BY InvHolds, NothingStaleNow, PTL
=============================================================================

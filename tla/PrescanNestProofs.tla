------------------------- MODULE PrescanNestProofs -------------------------
(***************************************************************************)
(* Proofs about CompilerStore: the prescan lists a name under the          *)
(* innermost block that contains it, however its blocks, procedures, for   *)
(* statements and compound statements are nested.                          *)
(***************************************************************************)
EXTENDS CompilerStoreProofs

Token     == {Open} \cup {Marker(b) : b \in Nat}
Construct == Kinds \X Nat

Begins(s) == {i \in DOMAIN s : s[i][1] \in {"begin", "block"}}

(* own[j] is the construct of s that word j of the T-list t belongs to:    *)
(* the begin of a compound statement or block, and the marker of a for     *)
(* statement, a procedure or a block, which keeps the number of the block  *)
(* around it.  The marker of a block that has just ended may be left over. *)
Owns(own, t, s, left) ==
  /\ Len(t) \in Nat \ {0} /\ Len(s) \in Nat \ {0}
  /\ own \in [1 .. Len(t) -> Nat]
  /\ own[1] = 1 /\ own[Len(t)] = Len(s) + left
  /\ \A i, j \in 1 .. Len(t) : i <= j => own[i] <= own[j]
  /\ \A j \in 1 .. Len(t) - 1 :
       \/ own[j + 1] = own[j] + 1
       \/ own[j + 1] = own[j] /\ t[j] # Open /\ t[j + 1] = Open
  /\ \A j \in 1 .. Len(t) :
       IF t[j] = Open THEN own[j] \in Begins(s)
       ELSE own[j] >= 2 /\ t[j] = Marker(s[own[j] - 1][2])
  /\ \A j \in 2 .. Len(t) :
       t[j] = Open => (own[j - 1] = own[j] <=> s[own[j]][1] = "block")
  /\ \A i \in Begins(s) : \E j \in 1 .. Len(t) : own[j] = i /\ t[j] = Open

LeftOver == IF closed = "block" THEN 1 ELSE 0

NestTypeOK ==
  /\ mbc \in Nat /\ tlist \in Seq(Token) /\ nest \in Seq(Construct)
  /\ closed \in Kinds \cup {"nothing"}

(* The numbers of the blocks: a compound statement has that around it.     *)
Numbered(s) ==
  /\ s[1] = <<"block", 0>>
  /\ \A i \in 2 .. Len(s) : s[i][1] = "begin" => s[i][2] = s[i - 1][2]

Nesting ==
  Prescanning =>
    /\ NestTypeOK /\ Numbered(nest)
    /\ closed # "block" => bc = nest[Len(nest)][2]
    /\ \E own : Owns(own, tlist, nest, LeftOver)

NestInv == Nesting /\ InnermostBlock

-----------------------------------------------------------------------------
(***************************************************************************)
(* The T-list and the constructs that are open, as they grow.              *)
(***************************************************************************)
LEMMA Ends ==
  ASSUME NEW own, NEW t, NEW s, NEW left \in {0, 1}, Owns(own, t, s, left)
  PROVE  /\ 1 \in 1 .. Len(t) /\ Len(t) \in 1 .. Len(t) /\ Len(t) \in Nat /\ Len(s) \in Nat
         /\ Len(s) >= 1 /\ \A j \in 1 .. Len(t) : own[j] \in Nat /\ own[j] <= Len(s) + left
<1>1. Len(t) \in Nat \ {0} /\ Len(s) \in Nat \ {0} /\ own \in [1 .. Len(t) -> Nat]
      /\ own[Len(t)] = Len(s) + left
      /\ \A i, j \in 1 .. Len(t) : i <= j => own[i] <= own[j]
  BY DEF Owns
<1>2. 1 \in 1 .. Len(t) /\ Len(t) \in 1 .. Len(t) /\ Len(s) >= 1
  BY <1>1
<1>3. ASSUME NEW j \in 1 .. Len(t) PROVE own[j] \in Nat /\ own[j] <= Len(s) + left
  BY <1>1, <1>2
<1> QED BY <1>1, <1>2, <1>3

(* A marker with the number of the block around the next construct. *)
LEMMA MarkerAdded ==
  ASSUME NEW own, NEW t \in Seq(Token), NEW s \in Seq(Construct), Owns(own, t, s, 0),
         NEW m, m = Marker(s[Len(s)][2])
  PROVE  \E own2 : Owns(own2, Append(t, m), s, 1)
<1> DEFINE k == Len(t)
           n == Len(s)
           u == Append(t, m)
           own2 == [j \in 1 .. k + 1 |-> IF j <= k THEN own[j] ELSE n + 1]
<1>1. k \in Nat \ {0} /\ n \in Nat \ {0} /\ n >= 1 /\ \A j \in 1 .. k : own[j] \in Nat /\ own[j] <= n
  <2>1. \A j \in 1 .. Len(t) : own[j] \in Nat /\ own[j] <= Len(s) + 0
    BY Ends
  <2>2. Len(t) \in Nat \ {0} /\ Len(s) \in Nat \ {0}
    BY DEF Owns
  <2> QED BY <2>1, <2>2
<1>2. Len(u) = k + 1 /\ (\A j \in 1 .. k : u[j] = t[j]) /\ u[k + 1] = m
  OBVIOUS
<1>3. m # Open
  BY DEF Marker, Open
<1>4. /\ \A j \in 1 .. k : j \in 1 .. k + 1 /\ own2[j] = own[j]
      /\ k + 1 \in 1 .. k + 1 /\ own2[k + 1] = n + 1
      /\ \A j \in 1 .. k + 1 : j \in 1 .. k \/ j = k + 1
  BY <1>1
<1>5. own2 \in [1 .. k + 1 -> Nat]
  BY <1>1
<1> HIDE DEF own2, u, k, n
<1>6. /\ own[1] = 1 /\ own[k] = n
      /\ \A i, j \in 1 .. k : i <= j => own[i] <= own[j]
      /\ \A j \in 1 .. k - 1 : \/ own[j + 1] = own[j] + 1
                               \/ own[j + 1] = own[j] /\ t[j] # Open /\ t[j + 1] = Open
      /\ \A j \in 1 .. k : IF t[j] = Open THEN own[j] \in Begins(s)
                           ELSE own[j] >= 2 /\ t[j] = Marker(s[own[j] - 1][2])
      /\ \A j \in 2 .. k : t[j] = Open => (own[j - 1] = own[j] <=> s[own[j]][1] = "block")
      /\ \A i \in Begins(s) : \E j \in 1 .. k : own[j] = i /\ t[j] = Open
  <2>1. own[Len(t)] = Len(s) + 0
    BY DEF Owns
  <2>2. own[k] = n
    BY <1>1, <2>1 DEF k, n
  <2> QED BY <2>2 DEF Owns, k, n
<1>7. own2[1] = 1 /\ own2[k + 1] = n + 1
  BY <1>1, <1>4, <1>6
<1>8. \A i, j \in 1 .. k + 1 : i <= j => own2[i] <= own2[j]
  BY <1>1, <1>4, <1>6
<1>9. \A j \in 1 .. (k + 1) - 1 :
        \/ own2[j + 1] = own2[j] + 1
        \/ own2[j + 1] = own2[j] /\ u[j] # Open /\ u[j + 1] = Open
  <2> SUFFICES ASSUME NEW j \in 1 .. k
               PROVE  \/ own2[j + 1] = own2[j] + 1
                      \/ own2[j + 1] = own2[j] /\ u[j] # Open /\ u[j + 1] = Open
    <3>1. (k + 1) - 1 = k
      BY <1>1
    <3> QED BY <3>1
  <2>1. CASE j = k
    BY <1>4, <1>6, <2>1
  <2>2. CASE j # k
    <3>1. j \in 1 .. k - 1 /\ j + 1 \in 1 .. k
      BY <1>1, <2>2
    <3> QED BY <1>2, <1>4, <1>6, <3>1
  <2> QED BY <2>1, <2>2
<1>10. \A j \in 1 .. k + 1 : IF u[j] = Open THEN own2[j] \in Begins(s)
                             ELSE own2[j] >= 2 /\ u[j] = Marker(s[own2[j] - 1][2])
  <2>1. n + 1 >= 2 /\ (n + 1) - 1 = n
    BY <1>1
  <2>2. u[k + 1] = Marker(s[n][2]) /\ u[k + 1] # Open
    BY <1>2, <1>3 DEF n
  <2>3. ASSUME NEW j \in 1 .. k
        PROVE  IF u[j] = Open THEN own2[j] \in Begins(s)
               ELSE own2[j] >= 2 /\ u[j] = Marker(s[own2[j] - 1][2])
    <3>1. IF t[j] = Open THEN own[j] \in Begins(s)
          ELSE own[j] >= 2 /\ t[j] = Marker(s[own[j] - 1][2])
      BY <1>6
    <3>2. u[j] = t[j] /\ own2[j] = own[j]
      BY <1>2, <1>4
    <3> QED BY <3>1, <3>2
  <2>4. IF u[k + 1] = Open THEN own2[k + 1] \in Begins(s)
        ELSE own2[k + 1] >= 2 /\ u[k + 1] = Marker(s[own2[k + 1] - 1][2])
    BY <1>4, <2>1, <2>2
  <2> QED BY <1>4, <2>3, <2>4
<1>11. \A j \in 2 .. k + 1 : u[j] = Open => (own2[j - 1] = own2[j] <=> s[own2[j]][1] = "block")
  <2> SUFFICES ASSUME NEW j \in 2 .. k + 1, u[j] = Open
               PROVE  own2[j - 1] = own2[j] <=> s[own2[j]][1] = "block"
    OBVIOUS
  <2>1. j \in 2 .. k /\ j \in 1 .. k /\ j - 1 \in 1 .. k
    BY <1>1, <1>2, <1>3
  <2> QED BY <1>2, <1>4, <1>6, <2>1
<1>12. \A i \in Begins(s) : \E j \in 1 .. k + 1 : own2[j] = i /\ u[j] = Open
  <2> SUFFICES ASSUME NEW i \in Begins(s) PROVE \E j \in 1 .. k + 1 : own2[j] = i /\ u[j] = Open
    OBVIOUS
  <2>1. PICK j \in 1 .. k : own[j] = i /\ t[j] = Open
    BY <1>6
  <2> QED BY <1>2, <1>4, <2>1
<1>13. Owns(own2, u, s, 1)
  <2>1. Len(u) \in Nat \ {0} /\ Len(s) \in Nat \ {0}
    BY <1>1, <1>2 DEF n
  <2> QED BY <1>2, <1>5, <1>7, <1>8, <1>9, <1>10, <1>11, <1>12, <2>1 DEF Owns, n
<1> QED BY <1>13 DEF u

LEMMA Appended ==
  ASSUME NEW s \in Seq(Construct), NEW kind \in Kinds, NEW b \in Nat
  PROVE  LET s2 == Append(s, <<kind, b>>)
         IN /\ s2 \in Seq(Construct) /\ Len(s2) = Len(s) + 1
            /\ \A i \in 1 .. Len(s) : s2[i] = s[i]
            /\ s2[Len(s) + 1][1] = kind /\ s2[Len(s) + 1][2] = b
            /\ Begins(s2) = Begins(s) \cup (IF kind \in {"begin", "block"} THEN {Len(s) + 1} ELSE {})
            /\ Begins(s) \subseteq 1 .. Len(s)
<1> DEFINE s2 == Append(s, <<kind, b>>)
<1>1. <<kind, b>> \in Construct
  BY DEF Construct
<1>2. /\ s2 \in Seq(Construct) /\ Len(s2) = Len(s) + 1 /\ Len(s) \in Nat
      /\ \A i \in 1 .. Len(s) : s2[i] = s[i]
      /\ s2[Len(s) + 1] = <<kind, b>>
  BY <1>1
<1> HIDE DEF s2
<1>3. DOMAIN s = 1 .. Len(s) /\ DOMAIN s2 = 1 .. Len(s) + 1
  BY <1>2
<1>4. Begins(s2) = Begins(s) \cup (IF kind \in {"begin", "block"} THEN {Len(s) + 1} ELSE {})
  <2>1. \A i \in 1 .. Len(s) + 1 : i \in 1 .. Len(s) \/ i = Len(s) + 1
    BY <1>2
  <2>2. \A i \in 1 .. Len(s) : i \in 1 .. Len(s) + 1 /\ i # Len(s) + 1
    BY <1>2
  <2>3. Len(s) + 1 \in 1 .. Len(s) + 1 /\ s2[Len(s) + 1][1] = kind
    BY <1>2
  <2> QED BY <1>2, <1>3, <2>1, <2>2, <2>3 DEF Begins
<1> QED BY <1>2, <1>3, <1>4 DEF s2, Begins

(* The marker is that of a for statement or a procedure, ... *)
LEMMA MarkerTaken ==
  ASSUME NEW own, NEW t \in Seq(Token), NEW s \in Seq(Construct), Owns(own, t, s, 1),
         NEW kind \in {"for", "procedure"}, NEW b \in Nat
  PROVE  Owns(own, t, Append(s, <<kind, b>>), 0)
<1> DEFINE s2 == Append(s, <<kind, b>>)
<1>1. /\ s2 \in Seq(Construct) /\ Len(s2) = Len(s) + 1
      /\ \A i \in 1 .. Len(s) : s2[i] = s[i]
      /\ s2[Len(s) + 1][1] = kind /\ Begins(s2) = Begins(s) /\ Begins(s) \subseteq 1 .. Len(s)
  <2>1. kind \in Kinds /\ kind \notin {"begin", "block"}
    BY DEF Kinds
  <2>2. /\ s2 \in Seq(Construct) /\ Len(s2) = Len(s) + 1
        /\ \A i \in 1 .. Len(s) : s2[i] = s[i]
        /\ s2[Len(s) + 1][1] = kind /\ Begins(s) \subseteq 1 .. Len(s)
        /\ Begins(s2) = Begins(s) \cup (IF kind \in {"begin", "block"} THEN {Len(s) + 1} ELSE {})
    BY <2>1, Appended
  <2> HIDE DEF s2
  <2> QED BY <2>1, <2>2
<1> HIDE DEF s2
<1>2. Len(t) \in Nat /\ Len(s) \in Nat /\ \A j \in 1 .. Len(t) : own[j] \in Nat /\ own[j] <= Len(s) + 1
  BY Ends
<1>3. /\ Len(t) \in Nat \ {0} /\ Len(s2) \in Nat \ {0} /\ own \in [1 .. Len(t) -> Nat]
      /\ own[1] = 1 /\ own[Len(t)] = Len(s2) + 0
      /\ \A i, j \in 1 .. Len(t) : i <= j => own[i] <= own[j]
      /\ \A j \in 1 .. Len(t) - 1 :
           \/ own[j + 1] = own[j] + 1
           \/ own[j + 1] = own[j] /\ t[j] # Open /\ t[j + 1] = Open
      /\ \A i \in Begins(s2) : \E j \in 1 .. Len(t) : own[j] = i /\ t[j] = Open
  <2>1. Len(s) \in Nat \ {0} /\ own[Len(t)] = Len(s) + 1
    BY DEF Owns
  <2>2. Len(s2) \in Nat \ {0} /\ own[Len(t)] = Len(s2) + 0
    BY <1>1, <2>1
  <2> QED BY <1>1, <2>2 DEF Owns
<1>4. \A j \in 1 .. Len(t) : IF t[j] = Open THEN own[j] \in Begins(s2)
                             ELSE own[j] >= 2 /\ t[j] = Marker(s2[own[j] - 1][2])
  <2> SUFFICES ASSUME NEW j \in 1 .. Len(t)
               PROVE  IF t[j] = Open THEN own[j] \in Begins(s2)
                      ELSE own[j] >= 2 /\ t[j] = Marker(s2[own[j] - 1][2])
    OBVIOUS
  <2>1. IF t[j] = Open THEN own[j] \in Begins(s)
        ELSE own[j] >= 2 /\ t[j] = Marker(s[own[j] - 1][2])
    BY DEF Owns
  <2>2. own[j] >= 2 => own[j] - 1 \in 1 .. Len(s)
    BY <1>2
  <2> QED BY <1>1, <2>1, <2>2
<1>5. \A j \in 2 .. Len(t) : t[j] = Open => (own[j - 1] = own[j] <=> s2[own[j]][1] = "block")
  <2> SUFFICES ASSUME NEW j \in 2 .. Len(t), t[j] = Open
               PROVE  own[j - 1] = own[j] <=> s2[own[j]][1] = "block"
    OBVIOUS
  <2>1. /\ own[j] \in Begins(s)
        /\ own[j - 1] = own[j] <=> s[own[j]][1] = "block"
    BY <1>2 DEF Owns
  <2> QED BY <1>1, <2>1
<1>6. Owns(own, t, s2, 0)
  BY <1>3, <1>4, <1>5 DEF Owns
<1> QED BY <1>6 DEF s2

(* ... or that of the block whose begin follows it; a compound statement   *)
(* has none.                                                               *)
LEMMA BeginAdded ==
  ASSUME NEW own, NEW t \in Seq(Token), NEW s \in Seq(Construct), NEW left \in {0, 1},
         Owns(own, t, s, left), NEW kind \in {"begin", "block"}, left = 1 <=> kind = "block",
         NEW b \in Nat
  PROVE  \E own2 : Owns(own2, Append(t, Open), Append(s, <<kind, b>>), 0)
<1> DEFINE s2 == Append(s, <<kind, b>>)
           k == Len(t)
           n == Len(s)
           u == Append(t, Open)
           own2 == [j \in 1 .. k + 1 |-> IF j <= k THEN own[j] ELSE n + 1]
<1>1. /\ s2 \in Seq(Construct) /\ Len(s2) = n + 1
      /\ \A i \in 1 .. n : s2[i] = s[i]
      /\ s2[n + 1][1] = kind /\ Begins(s2) = Begins(s) \cup {n + 1} /\ Begins(s) \subseteq 1 .. n
  <2>1. kind \in Kinds
    BY DEF Kinds
  <2>2. /\ s2 \in Seq(Construct) /\ Len(s2) = Len(s) + 1
        /\ \A i \in 1 .. Len(s) : s2[i] = s[i]
        /\ s2[Len(s) + 1][1] = kind /\ Begins(s) \subseteq 1 .. Len(s)
        /\ Begins(s2) = Begins(s) \cup (IF kind \in {"begin", "block"} THEN {Len(s) + 1} ELSE {})
    BY <2>1, Appended
  <2> HIDE DEF s2
  <2> QED BY <2>2
<1>2. /\ k \in Nat \ {0} /\ n \in Nat \ {0}
      /\ \A j \in 1 .. k : own[j] \in Nat /\ own[j] <= n + 1
  <2>1. \A j \in 1 .. Len(t) : own[j] \in Nat /\ own[j] <= Len(s) + left
    BY Ends
  <2>2. Len(t) \in Nat \ {0} /\ Len(s) \in Nat \ {0}
    BY DEF Owns
  <2> QED BY <2>1, <2>2
<1>3. Len(u) = k + 1 /\ (\A j \in 1 .. k : u[j] = t[j]) /\ u[k + 1] = Open
  OBVIOUS
<1>4. /\ \A j \in 1 .. k : j \in 1 .. k + 1 /\ own2[j] = own[j]
      /\ k + 1 \in 1 .. k + 1 /\ own2[k + 1] = n + 1
      /\ \A j \in 1 .. k + 1 : j \in 1 .. k \/ j = k + 1
  BY <1>2
<1>5. own2 \in [1 .. k + 1 -> Nat]
  BY <1>2
<1> HIDE DEF own2, u, s2
<1>6. /\ own[1] = 1 /\ own[k] = n + left
      /\ \A i, j \in 1 .. k : i <= j => own[i] <= own[j]
      /\ \A j \in 1 .. k - 1 :
           \/ own[j + 1] = own[j] + 1
           \/ own[j + 1] = own[j] /\ t[j] # Open /\ t[j + 1] = Open
      /\ \A j \in 1 .. k : IF t[j] = Open THEN own[j] \in Begins(s)
                           ELSE own[j] >= 2 /\ t[j] = Marker(s[own[j] - 1][2])
      /\ \A j \in 2 .. k : t[j] = Open => (own[j - 1] = own[j] <=> s[own[j]][1] = "block")
      /\ \A i \in Begins(s) : \E j \in 1 .. k : own[j] = i /\ t[j] = Open
  BY DEF Owns
<1> HIDE DEF k, n
<1>7. own2[1] = 1 /\ own2[k + 1] = (n + 1) + 0
  <2>1. 1 \in 1 .. k /\ (n + 1) + 0 = n + 1
    BY <1>2
  <2> QED BY <1>4, <1>6, <2>1
<1>8. \A i, j \in 1 .. k + 1 : i <= j => own2[i] <= own2[j]
  BY <1>2, <1>4, <1>6
<1>9. \A j \in 1 .. (k + 1) - 1 :
        \/ own2[j + 1] = own2[j] + 1
        \/ own2[j + 1] = own2[j] /\ u[j] # Open /\ u[j + 1] = Open
  <2> SUFFICES ASSUME NEW j \in 1 .. k
               PROVE  \/ own2[j + 1] = own2[j] + 1
                      \/ own2[j + 1] = own2[j] /\ u[j] # Open /\ u[j + 1] = Open
    <3>1. (k + 1) - 1 = k
      BY <1>2
    <3> QED BY <3>1
  <2>1. CASE j = k
    <3>1. own2[j + 1] = n + 1 /\ own2[j] = n + left /\ u[j] = t[j] /\ u[j + 1] = Open
      BY <1>3, <1>4, <1>6, <2>1
    <3>2. CASE left = 0
      BY <1>2, <3>1, <3>2
    <3>3. CASE left = 1
      <4>1. own[j] = n + 1 /\ n + 1 \notin Begins(s)
        BY <1>1, <1>2, <1>6, <2>1, <3>3
      <4>2. t[j] # Open
        BY <1>6, <4>1
      <4> QED BY <3>1, <3>3, <4>2
    <3> QED BY <3>2, <3>3
  <2>2. CASE j # k
    <3>1. j \in 1 .. k - 1 /\ j + 1 \in 1 .. k
      BY <1>2, <2>2
    <3> QED BY <1>3, <1>4, <1>6, <3>1
  <2> QED BY <2>1, <2>2
<1>10. \A j \in 1 .. k + 1 : IF u[j] = Open THEN own2[j] \in Begins(s2)
                             ELSE own2[j] >= 2 /\ u[j] = Marker(s2[own2[j] - 1][2])
  <2>1. ASSUME NEW j \in 1 .. k
        PROVE  IF u[j] = Open THEN own2[j] \in Begins(s2)
               ELSE own2[j] >= 2 /\ u[j] = Marker(s2[own2[j] - 1][2])
    <3>1. IF t[j] = Open THEN own[j] \in Begins(s)
          ELSE own[j] >= 2 /\ t[j] = Marker(s[own[j] - 1][2])
      BY <1>6
    <3>2. u[j] = t[j] /\ own2[j] = own[j]
      BY <1>3, <1>4
    <3>3. own[j] >= 2 => own[j] - 1 \in 1 .. n
      BY <1>2
    <3> QED BY <1>1, <3>1, <3>2, <3>3
  <2>2. u[k + 1] = Open /\ own2[k + 1] \in Begins(s2)
    BY <1>1, <1>3, <1>4
  <2> QED BY <1>4, <2>1, <2>2
<1>11. \A j \in 2 .. k + 1 : u[j] = Open => (own2[j - 1] = own2[j] <=> s2[own2[j]][1] = "block")
  <2> SUFFICES ASSUME NEW j \in 2 .. k + 1, u[j] = Open
               PROVE  own2[j - 1] = own2[j] <=> s2[own2[j]][1] = "block"
    OBVIOUS
  <2>1. CASE j = k + 1
    <3>1. j - 1 = k /\ k \in 1 .. k
      BY <1>2, <2>1
    <3>2. own2[j] = n + 1 /\ own2[j - 1] = n + left
      BY <1>4, <1>6, <2>1, <3>1
    <3>3. s2[own2[j]][1] = kind
      BY <1>1, <3>2
    <3>4. n + left = n + 1 <=> left = 1
      BY <1>2
    <3> QED BY <3>2, <3>3, <3>4
  <2>2. CASE j # k + 1
    <3>1. j \in 2 .. k /\ j \in 1 .. k /\ j - 1 \in 1 .. k
      BY <1>2, <2>2
    <3>2. t[j] = Open /\ own2[j] = own[j] /\ own2[j - 1] = own[j - 1]
      BY <1>3, <1>4, <3>1
    <3>3. own[j] \in Begins(s) /\ (own[j - 1] = own[j] <=> s[own[j]][1] = "block")
      BY <1>6, <3>1, <3>2
    <3> QED BY <1>1, <3>2, <3>3
  <2> QED BY <2>1, <2>2
<1>12. \A i \in Begins(s2) : \E j \in 1 .. k + 1 : own2[j] = i /\ u[j] = Open
  <2> SUFFICES ASSUME NEW i \in Begins(s2) PROVE \E j \in 1 .. k + 1 : own2[j] = i /\ u[j] = Open
    OBVIOUS
  <2>1. CASE i \in Begins(s)
    <3>1. PICK j \in 1 .. k : own[j] = i /\ t[j] = Open
      BY <1>6, <2>1
    <3> QED BY <1>3, <1>4, <3>1
  <2>2. CASE i = n + 1
    BY <1>3, <1>4, <2>2
  <2> QED BY <1>1, <2>1, <2>2
<1>13. Owns(own2, u, s2, 0)
  <2>1. Len(u) \in Nat \ {0} /\ Len(s2) \in Nat \ {0}
    BY <1>1, <1>2, <1>3
  <2> QED BY <1>1, <1>3, <1>5, <1>7, <1>8, <1>9, <1>10, <1>11, <1>12, <2>1 DEF Owns
<1> QED BY <1>13 DEF u, s2

-----------------------------------------------------------------------------
(***************************************************************************)
(* The T-list and the constructs that are open, as they are cut.           *)
(***************************************************************************)
(* The last begin of the T-list is that of the innermost compound          *)
(* statement or block, and the marker above it keeps the number of that.   *)
Innermost(own, t, s, left, p, c) ==
  /\ t \in Seq(Token) /\ s \in Seq(Construct) /\ left \in {0, 1} /\ Owns(own, t, s, left)
  /\ p \in 1 .. Len(t) /\ t[p] = Open /\ \A i \in p + 1 .. Len(t) : t[i] # Open
  /\ c \in Begins(s) /\ \A i \in Begins(s) : i <= c

LEMMA LastBeginOwned ==
  ASSUME NEW own, NEW t, NEW s, NEW left, NEW p, NEW c, Innermost(own, t, s, left, p, c)
  PROVE  /\ own[p] = c /\ c \in 1 .. Len(s)
         /\ p = Len(t) => c = Len(s) /\ left = 0
         /\ p < Len(t) => t[p + 1] = Marker(s[c][2])
         /\ p > 1 => c > 1
<1> USE DEF Innermost
<1>1. /\ Len(t) \in Nat /\ Len(s) \in Nat
      /\ \A j \in 1 .. Len(t) : own[j] \in Nat /\ own[j] <= Len(s) + left
  BY Ends
<1>2. c \in 1 .. Len(s)
  BY DEF Begins
<1>3. own[p] = c
  <2>1. own[p] \in Begins(s)
    BY DEF Owns
  <2>2. PICK j \in 1 .. Len(t) : own[j] = c /\ t[j] = Open
    BY DEF Owns
  <2>3. j <= p
    BY <1>1, <2>2
  <2>4. own[j] <= own[p]
    BY <2>3 DEF Owns
  <2> QED BY <1>1, <1>2, <2>1, <2>2, <2>4
<1>4. ASSUME p = Len(t) PROVE c = Len(s) /\ left = 0
  <2>1. own[Len(t)] = Len(s) + left
    BY DEF Owns
  <2> QED BY <1>1, <1>2, <1>3, <1>4, <2>1
<1>5. ASSUME p < Len(t) PROVE t[p + 1] = Marker(s[c][2])
  <2>1. p \in 1 .. Len(t) - 1 /\ p + 1 \in 1 .. Len(t) /\ p + 1 \in p + 1 .. Len(t)
    BY <1>1, <1>5
  <2>2. own[p + 1] = own[p] + 1
    BY <2>1 DEF Owns
  <2>3. t[p + 1] = Marker(s[own[p + 1] - 1][2])
    BY <2>1 DEF Owns
  <2>4. own[p + 1] - 1 = c
    BY <1>2, <1>3, <2>2
  <2> QED BY <2>3, <2>4
<1>6. ASSUME p > 1 PROVE c > 1
  <2>1. 1 \in 1 .. Len(t) - 1 /\ 1 \in 1 .. Len(t) /\ 2 \in 1 .. Len(t) /\ 2 <= p /\ 1 + 1 = 2
    BY <1>1, <1>6
  <2>2. own[1] = 1 /\ own[2] <= own[p]
    BY <2>1 DEF Owns
  <2>3. t[1] = Open
    <3>1. t[1] # Open => own[1] >= 2
      BY <2>1 DEF Owns
    <3> QED BY <2>2, <3>1
  <2>4. own[1 + 1] = own[1] + 1
    BY <2>1, <2>3 DEF Owns
  <2>5. own[2] = 2
    BY <2>1, <2>2, <2>4
  <2> QED BY <1>1, <1>2, <1>3, <2>2, <2>5
<1> QED BY <1>2, <1>3, <1>4, <1>5, <1>6

LEMMA BeginsCut ==
  ASSUME NEW s \in Seq(Construct), NEW m \in Nat, m <= Len(s)
  PROVE  Begins(Front(s, m)) = {i \in Begins(s) : i <= m}
<1>1. /\ Len(s) \in Nat /\ DOMAIN s = 1 .. Len(s) /\ DOMAIN Front(s, m) = 1 .. m
      /\ \A i \in 1 .. m : Front(s, m)[i] = s[i]
  <2>1. m \in Int /\ 0 <= m
    OBVIOUS
  <2> QED BY <2>1, Elements, Fronts
<1> QED BY <1>1 DEF Begins

(* Words p and above go from the T-list, constructs c and above from the   *)
(* nest, where the word before p belongs to the last that remains, or is   *)
(* the marker that is left over.                                           *)
CanBeCut(own, t, s, left, q, m, rest) ==
  /\ t \in Seq(Token) /\ s \in Seq(Construct) /\ left \in {0, 1} /\ Owns(own, t, s, left)
  /\ q \in 1 .. Len(t) /\ m \in 1 .. Len(s) /\ rest \in {0, 1} /\ own[q] = m + rest
  /\ rest = 1 => t[q] # Open
  /\ \A i \in Begins(s) : i <= m => \E j \in 1 .. q : own[j] = i /\ t[j] = Open

LEMMA Cut ==
  ASSUME NEW own, NEW t, NEW s, NEW left, NEW q, NEW m, NEW rest,
         CanBeCut(own, t, s, left, q, m, rest)
  PROVE  \E own2 : Owns(own2, Front(t, q), Front(s, m), rest)
<1> USE DEF CanBeCut
<1> DEFINE u == Front(t, q)
           s2 == Front(s, m)
           own2 == [j \in 1 .. q |-> own[j]]
<1>1. /\ Len(t) \in Nat /\ Len(s) \in Nat
      /\ \A j \in 1 .. Len(t) : own[j] \in Nat /\ own[j] <= Len(s) + left
  BY Ends
<1>2. q \in Nat \ {0} /\ m \in Nat \ {0} /\ q <= Len(t) /\ m <= Len(s)
  BY <1>1
<1>3. /\ Len(u) = q /\ \A j \in 1 .. q : u[j] = t[j]
      /\ Len(s2) = m /\ \A i \in 1 .. m : s2[i] = s[i]
  <2>1. q \in Int /\ 0 <= q /\ m \in Int /\ 0 <= m
    BY <1>2
  <2>2. Len(u) = q /\ \A j \in 1 .. q : u[j] = t[j]
    BY <1>2, <2>1, Fronts
  <2>3. Len(s2) = m /\ \A i \in 1 .. m : s2[i] = s[i]
    BY <1>2, <2>1, Fronts
  <2> QED BY <2>2, <2>3
<1>4. Begins(s2) = {i \in Begins(s) : i <= m}
  BY <1>2, BeginsCut
<1>5. own2 \in [1 .. q -> Nat] /\ \A j \in 1 .. q : j \in 1 .. Len(t) /\ own2[j] = own[j]
  BY <1>1, <1>2
<1> HIDE DEF own2, u, s2
<1>6. /\ own[1] = 1
      /\ \A i, j \in 1 .. Len(t) : i <= j => own[i] <= own[j]
      /\ \A j \in 1 .. Len(t) - 1 :
           \/ own[j + 1] = own[j] + 1
           \/ own[j + 1] = own[j] /\ t[j] # Open /\ t[j + 1] = Open
      /\ \A j \in 1 .. Len(t) : IF t[j] = Open THEN own[j] \in Begins(s)
                                ELSE own[j] >= 2 /\ t[j] = Marker(s[own[j] - 1][2])
      /\ \A j \in 2 .. Len(t) : t[j] = Open => (own[j - 1] = own[j] <=> s[own[j]][1] = "block")
  BY DEF Owns
<1>7. own2[1] = 1 /\ own2[q] = m + rest
  <2>1. 1 \in 1 .. q /\ q \in 1 .. q /\ own[q] = m + rest
    BY <1>2
  <2> QED BY <1>5, <1>6, <2>1
<1>8. \A i, j \in 1 .. q : i <= j => own2[i] <= own2[j]
  BY <1>5, <1>6
<1>9. \A j \in 1 .. q - 1 :
        \/ own2[j + 1] = own2[j] + 1
        \/ own2[j + 1] = own2[j] /\ u[j] # Open /\ u[j + 1] = Open
  <2> SUFFICES ASSUME NEW j \in 1 .. q - 1
               PROVE  \/ own2[j + 1] = own2[j] + 1
                      \/ own2[j + 1] = own2[j] /\ u[j] # Open /\ u[j + 1] = Open
    OBVIOUS
  <2>1. j \in 1 .. q /\ j + 1 \in 1 .. q /\ j \in 1 .. Len(t) - 1
    BY <1>1, <1>2
  <2>2. /\ own2[j] = own[j] /\ own2[j + 1] = own[j + 1]
        /\ u[j] = t[j] /\ u[j + 1] = t[j + 1]
    BY <1>3, <1>5, <2>1
  <2> QED BY <1>6, <2>1, <2>2
<1>10. \A j \in 1 .. q : own[j] <= m + rest /\ (u[j] = Open => own[j] <= m)
  <2> SUFFICES ASSUME NEW j \in 1 .. q
               PROVE  own[j] <= m + rest /\ (u[j] = Open => own[j] <= m)
    OBVIOUS
  <2>1. j \in 1 .. Len(t) /\ own[j] <= own[q] /\ own[j] \in Nat
    BY <1>1, <1>2, <1>6
  <2>2. CASE own[j] <= m
    BY <1>2, <2>1, <2>2
  <2>3. CASE ~ (own[j] <= m)
    <3>1. rest = 1 /\ own[j] = own[q]
      BY <1>2, <2>1, <2>3
    <3>2. u[j] # Open
      <4>1. CASE j = q
        BY <1>3, <3>1, <4>1
      <4>2. CASE j # q
        <5>1. j \in 1 .. Len(t) - 1 /\ j + 1 \in 1 .. Len(t) /\ j + 1 <= q
          BY <1>1, <1>2, <4>2
        <5>2. own[j + 1] <= own[q] /\ own[j + 1] \in Nat
          BY <1>1, <1>6, <5>1
        <5>3. own[j + 1] # own[j] + 1
          BY <2>1, <3>1, <5>2
        <5> QED BY <1>3, <1>6, <5>1, <5>3
      <4> QED BY <4>1, <4>2
    <3> QED BY <2>1, <3>1, <3>2
  <2> QED BY <2>2, <2>3
<1>11. \A j \in 1 .. q : IF u[j] = Open THEN own2[j] \in Begins(s2)
                         ELSE own2[j] >= 2 /\ u[j] = Marker(s2[own2[j] - 1][2])
  <2> SUFFICES ASSUME NEW j \in 1 .. q
               PROVE  IF u[j] = Open THEN own2[j] \in Begins(s2)
                      ELSE own2[j] >= 2 /\ u[j] = Marker(s2[own2[j] - 1][2])
    OBVIOUS
  <2>1. IF t[j] = Open THEN own[j] \in Begins(s)
        ELSE own[j] >= 2 /\ t[j] = Marker(s[own[j] - 1][2])
    BY <1>5, <1>6
  <2>2. u[j] = t[j] /\ own2[j] = own[j] /\ own[j] \in Nat
    BY <1>1, <1>3, <1>5
  <2>3. own[j] >= 2 => own[j] - 1 \in 1 .. m
    <3>1. own[j] \in Nat /\ m \in Nat /\ own[j] <= m + rest
      BY <1>2, <1>10, <2>2
    <3>2. \A x \in Nat : x >= 2 /\ x <= m + rest => x - 1 \in 1 .. m
      BY <1>2
    <3> QED BY <3>1, <3>2
  <2> QED BY <1>3, <1>4, <1>10, <2>1, <2>2, <2>3
<1>12. \A j \in 2 .. q : u[j] = Open => (own2[j - 1] = own2[j] <=> s2[own2[j]][1] = "block")
  <2> SUFFICES ASSUME NEW j \in 2 .. q, u[j] = Open
               PROVE  own2[j - 1] = own2[j] <=> s2[own2[j]][1] = "block"
    OBVIOUS
  <2>1. j \in 1 .. q /\ j - 1 \in 1 .. q /\ j \in 2 .. Len(t)
    BY <1>1, <1>2
  <2>2. t[j] = Open /\ own2[j] = own[j] /\ own2[j - 1] = own[j - 1]
    BY <1>3, <1>5, <2>1
  <2>3. own[j] \in 1 .. m
    <3>1. own2[j] \in Begins(s2)
      BY <1>11, <2>1
    <3>2. \A i \in Begins(s) : i \in 1 .. Len(s)
      BY DEF Begins
    <3> QED BY <1>1, <1>2, <1>4, <2>2, <3>1, <3>2
  <2>4. own[j - 1] = own[j] <=> s[own[j]][1] = "block"
    BY <1>6, <2>1, <2>2
  <2> QED BY <1>3, <2>2, <2>3, <2>4
<1>13. \A i \in Begins(s2) : \E j \in 1 .. q : own2[j] = i /\ u[j] = Open
  BY <1>3, <1>4, <1>5
<1>14. Owns(own2, u, s2, rest)
  BY <1>2, <1>3, <1>5, <1>7, <1>8, <1>9, <1>11, <1>12, <1>13 DEF Owns
<1> QED BY <1>14 DEF u, s2

-----------------------------------------------------------------------------
(***************************************************************************)
(* The steps of the prescan.                                               *)
(***************************************************************************)
LEMMA NestFacts ==
  ASSUME NestInv, Prescanning
  PROVE  /\ mbc \in Nat /\ tlist \in Seq(Token) /\ nest \in Seq(Construct)
         /\ closed \in Kinds \cup {"nothing"} /\ Numbered(nest)
         /\ closed # "block" => bc = nest[Len(nest)][2]
         /\ Len(nest) \in Nat /\ Len(nest) >= 1 /\ LeftOver \in {0, 1}
         /\ \E own : Owns(own, tlist, nest, LeftOver)
<1>1. PICK own : Owns(own, tlist, nest, LeftOver)
  BY DEF NestInv, Nesting
<1>2. LeftOver \in {0, 1}
  BY DEF LeftOver
<1>3. Len(nest) \in Nat /\ Len(nest) >= 1
  BY <1>1, <1>2, Ends
<1> QED BY <1>1, <1>2, <1>3 DEF NestInv, Nesting, NestTypeOK

(* What a symbol that leaves the T-list alone has to keep. *)
LEMMA NestKept ==
  ASSUME NestInv, Prescanning, UNCHANGED <<bc, mbc, tlist, nest>>,
         closed \in {"nothing", "for", "begin"}, closed' \in {"nothing", "for", "begin"}
  PROVE  NestInv'
<1>1. LeftOver = 0 /\ LeftOver' = 0
  BY DEF LeftOver
<1>2. \E own : Owns(own, tlist', nest', LeftOver')
  BY <1>1, NestFacts
<1>3. NestTypeOK' /\ Numbered(nest') /\ bc' = nest'[Len(nest')][2]
  BY NestFacts DEF NestTypeOK, Kinds
<1> QED BY <1>2, <1>3 DEF NestInv, Nesting, InnermostBlock

LEMMA NumberedAppend ==
  ASSUME NEW s \in Seq(Construct), Len(s) >= 1, Numbered(s), NEW kind \in Kinds, NEW b \in Nat,
         kind = "begin" => b = s[Len(s)][2]
  PROVE  Numbered(Append(s, <<kind, b>>))
<1> DEFINE s2 == Append(s, <<kind, b>>)
<1>1. /\ Len(s2) = Len(s) + 1 /\ Len(s) \in Nat
      /\ \A i \in 1 .. Len(s) : s2[i] = s[i]
      /\ s2[Len(s) + 1][1] = kind /\ s2[Len(s) + 1][2] = b
  BY Appended
<1> HIDE DEF s2
<1>2. s2[1] = <<"block", 0>>
  BY <1>1 DEF Numbered
<1>3. ASSUME NEW i \in 2 .. Len(s2), s2[i][1] = "begin" PROVE s2[i][2] = s2[i - 1][2]
  <2>1. CASE i = Len(s) + 1
    <3>1. i - 1 = Len(s) /\ Len(s) \in 1 .. Len(s)
      BY <1>1, <2>1
    <3> QED BY <1>1, <1>3, <2>1, <3>1
  <2>2. CASE i # Len(s) + 1
    <3>1. i \in 2 .. Len(s) /\ i \in 1 .. Len(s) /\ i - 1 \in 1 .. Len(s)
      BY <1>1, <2>2
    <3> QED BY <1>1, <1>3, <3>1 DEF Numbered
  <2> QED BY <2>1, <2>2
<1>4. Numbered(s2)
  BY <1>2, <1>3 DEF Numbered
<1> QED BY <1>4 DEF s2

LEMMA NestGrown ==
  ASSUME NestInv, Prescanning, closed = "nothing", closed' \in {"nothing", "for"},
         NEW kind \in Kinds, NEW b \in Nat, nest' = Append(nest, <<kind, b>>), bc' = b,
         kind = "begin" => b = nest[Len(nest)][2], mbc' \in Nat,
         tlist' \in Seq(Token), \E own : Owns(own, tlist', nest', 0)
  PROVE  NestInv'
<1>1. LeftOver' = 0
  BY DEF LeftOver
<1>2. nest' \in Seq(Construct) /\ Len(nest') = Len(nest) + 1 /\ nest'[Len(nest) + 1][2] = b
  BY NestFacts, Appended
<1>3. Numbered(nest')
  BY NestFacts, NumberedAppend
<1>4. bc' = nest'[Len(nest')][2]
  BY <1>2
<1>5. NestTypeOK'
  BY <1>2 DEF NestTypeOK, Kinds
<1> QED BY <1>1, <1>3, <1>4, <1>5 DEF NestInv, Nesting, InnermostBlock

(* for, procedure: a marker. *)
LEMMA MarkerStep ==
  ASSUME NestInv, Prescanning, closed = "nothing", closed' \in {"nothing", "for"},
         NEW kind \in {"for", "procedure"}, NewBlock(kind), tlist' = Append(tlist, Marker(bc))
  PROVE  NestInv'
<1>1. /\ LeftOver = 0 /\ bc = nest[Len(nest)][2] /\ tlist \in Seq(Token)
      /\ nest \in Seq(Construct) /\ mbc + 1 \in Nat /\ bc \in Nat
  <2>1. /\ bc = nest[Len(nest)][2] /\ tlist \in Seq(Token) /\ nest \in Seq(Construct)
        /\ mbc \in Nat /\ Len(nest) \in Nat /\ Len(nest) >= 1
    BY NestFacts
  <2>2. nest[Len(nest)] \in Construct
    BY <2>1, Elements
  <2> QED BY <2>1, <2>2 DEF LeftOver, Construct
<1>2. PICK own : Owns(own, tlist, nest, 0)
  BY <1>1, NestFacts
<1>3. PICK own2 : Owns(own2, tlist', nest, 1)
  BY <1>1, <1>2, MarkerAdded
<1>4. tlist' \in Seq(Token)
  <2>1. Marker(bc) \in Token
    BY <1>1 DEF Token
  <2> QED BY <1>1, <2>1
<1>5. nest' = Append(nest, <<kind, mbc + 1>>) /\ bc' = mbc + 1 /\ mbc' = mbc + 1
  BY DEF NewBlock
<1>6. Owns(own2, tlist', nest', 0)
  BY <1>1, <1>3, <1>4, <1>5, MarkerTaken
<1>7. kind \in Kinds /\ kind # "begin"
  BY DEF Kinds
<1> QED BY <1>1, <1>4, <1>5, <1>6, <1>7, NestGrown

LEMMA BeginNests ==
  ASSUME NestInv, Prescanning, Begin
  PROVE  NestInv'
<1>1. /\ closed = "nothing" /\ closed' = "nothing" /\ tlist' = Append(tlist, Open)
      /\ nest' = Append(nest, <<"begin", nest[Len(nest)][2]>>) /\ UNCHANGED <<bc, mbc>>
  BY DEF Begin, InStatement
<1>2. /\ LeftOver = 0 /\ bc = nest[Len(nest)][2] /\ tlist \in Seq(Token)
      /\ nest \in Seq(Construct) /\ mbc \in Nat /\ bc \in Nat
  <2>1. /\ bc = nest[Len(nest)][2] /\ tlist \in Seq(Token) /\ nest \in Seq(Construct)
        /\ mbc \in Nat /\ Len(nest) \in Nat /\ Len(nest) >= 1
    BY <1>1, NestFacts
  <2>2. nest[Len(nest)] \in Construct
    BY <2>1, Elements
  <2> QED BY <1>1, <2>1, <2>2 DEF LeftOver, Construct
<1>3. PICK own : Owns(own, tlist, nest, 0)
  BY <1>2, NestFacts
<1>4. \E own2 : Owns(own2, tlist', nest', 0)
  <2>1. 0 \in {0, 1} /\ "begin" \in {"begin", "block"} /\ (0 = 1 <=> "begin" = "block")
    OBVIOUS
  <2>2. nest' = Append(nest, <<"begin", bc>>)
    BY <1>1, <1>2
  <2> QED BY <1>1, <1>2, <1>3, <2>1, <2>2, BeginAdded
<1>5. tlist' \in Seq(Token)
  BY <1>1, <1>2 DEF Token
<1>6. "begin" \in Kinds
  BY DEF Kinds
<1> QED BY <1>1, <1>2, <1>4, <1>5, <1>6, NestGrown

LEMMA BeginBlockNests ==
  ASSUME NestInv, Prescanning, BeginBlock
  PROVE  NestInv'
<1>1. /\ closed = "nothing" /\ closed' = "nothing" /\ tlist' = tlist \o <<Marker(bc), Open>>
      /\ nest' = Append(nest, <<"block", mbc + 1>>) /\ bc' = mbc + 1 /\ mbc' = mbc + 1
  BY DEF BeginBlock, BlockIntroduction, NewBlock, InStatement
<1>2. /\ LeftOver = 0 /\ bc = nest[Len(nest)][2] /\ tlist \in Seq(Token)
      /\ nest \in Seq(Construct) /\ mbc + 1 \in Nat /\ bc \in Nat
  <2>1. /\ bc = nest[Len(nest)][2] /\ tlist \in Seq(Token) /\ nest \in Seq(Construct)
        /\ mbc \in Nat /\ Len(nest) \in Nat /\ Len(nest) >= 1
    BY <1>1, NestFacts
  <2>2. nest[Len(nest)] \in Construct
    BY <2>1, Elements
  <2> QED BY <1>1, <2>1, <2>2 DEF LeftOver, Construct
<1> DEFINE t == Append(tlist, Marker(bc))
<1>3. t \in Seq(Token) /\ tlist' = Append(t, Open) /\ tlist' \in Seq(Token)
  <2>1. Marker(bc) \in Token /\ Open \in Token
    BY <1>2 DEF Token
  <2>2. \A x, y : \A q \in Seq(Token) : q \o <<x, y>> = Append(Append(q, x), y)
    OBVIOUS
  <2>3. t \in Seq(Token)
    BY <1>2, <2>1
  <2>4. tlist' = Append(t, Open)
    BY <1>1, <1>2, <2>2
  <2> HIDE DEF t
  <2> QED BY <2>1, <2>3, <2>4
<1>4. PICK own : Owns(own, tlist, nest, 0)
  BY <1>2, NestFacts
<1>5. PICK own2 : Owns(own2, t, nest, 1)
  BY <1>2, <1>4, MarkerAdded
<1> HIDE DEF t
<1>6. \E own3 : Owns(own3, tlist', nest', 0)
  <2>1. 1 \in {0, 1} /\ "block" \in {"begin", "block"} /\ (1 = 1 <=> "block" = "block")
    OBVIOUS
  <2> QED BY <1>1, <1>2, <1>3, <1>5, <2>1, BeginAdded
<1>7. "block" \in Kinds /\ "block" # "begin"
  BY DEF Kinds
<1> QED BY <1>1, <1>2, <1>3, <1>6, <1>7, NestGrown

(* The markers above the last begin give the number of the innermost       *)
(* compound statement or block.                                            *)
LEMMA CutFacts ==
  ASSUME NestInv, Prescanning
  PROVE  /\ LastBegin \in 1 .. Len(tlist) /\ Compound \in 1 .. Len(nest)
         /\ nest[Compound][1] \in {"begin", "block"}
         /\ OuterBlock = nest[Compound][2]
         /\ \E own : /\ Owns(own, tlist, nest, LeftOver) /\ own[LastBegin] = Compound
                     /\ tlist[LastBegin] = Open /\ Compound \in Begins(nest)
                     /\ \A i \in LastBegin + 1 .. Len(tlist) : tlist[i] # Open
                     /\ LastBegin > 1 => Compound > 1
<1>1. /\ tlist \in Seq(Token) /\ nest \in Seq(Construct) /\ Numbered(nest)
      /\ closed # "block" => bc = nest[Len(nest)][2]
      /\ Len(nest) \in Nat /\ Len(nest) >= 1 /\ LeftOver \in {0, 1}
  BY NestFacts
<1>2. PICK own : Owns(own, tlist, nest, LeftOver)
  BY NestFacts
<1>3. DOMAIN nest = 1 .. Len(nest)
  BY <1>1, Elements
<1>4. tlist # << >> /\ tlist[1] = Open
  <2>1. 1 \in 1 .. Len(tlist) /\ Len(tlist) \in Nat
    BY <1>1, <1>2, Ends
  <2>2. own[1] = 1
    BY <1>2 DEF Owns
  <2>3. tlist[1] # Open => own[1] >= 2
    BY <1>2, <2>1 DEF Owns
  <2> QED BY <2>1, <2>2, <2>3
<1>5. /\ LastBegin \in 1 .. Len(tlist) /\ tlist[LastBegin] = Open
      /\ \A i \in LastBegin + 1 .. Len(tlist) : tlist[i] # Open
  BY <1>1, <1>4, LastBeginFound
<1>6. Compound \in Begins(nest) /\ \A i \in Begins(nest) : i <= Compound
  <2>1. Begins(nest) \in SUBSET (1 .. Len(nest)) /\ 1 \in Begins(nest)
    BY <1>1, <1>3 DEF Begins, Numbered
  <2>2. Compound = Max(Begins(nest))
    BY Zenon DEF Compound, Begins
  <2>3. Begins(nest) # {}
    BY <2>1
  <2> QED BY <1>1, <2>1, <2>2, <2>3, Greatest
<1>7. /\ own[LastBegin] = Compound /\ Compound \in 1 .. Len(nest)
      /\ LastBegin = Len(tlist) => Compound = Len(nest) /\ LeftOver = 0
      /\ LastBegin < Len(tlist) => tlist[LastBegin + 1] = Marker(nest[Compound][2])
      /\ LastBegin > 1 => Compound > 1
  <2>1. Innermost(own, tlist, nest, LeftOver, LastBegin, Compound)
    BY <1>1, <1>2, <1>5, <1>6 DEF Innermost
  <2> QED BY <2>1, LastBeginOwned
<1>8. OuterBlock = nest[Compound][2]
  <2>1. CASE LastBegin = Len(tlist)
    BY <1>1, <1>7, <2>1 DEF OuterBlock, LeftOver
  <2>2. CASE LastBegin # Len(tlist)
    <3>1. LastBegin < Len(tlist)
      BY <1>1, <1>5, <2>2
    <3> QED BY <1>7, <2>2, <3>1 DEF OuterBlock, Marker
  <2> QED BY <2>1, <2>2
<1>9. nest[Compound][1] \in {"begin", "block"}
  BY <1>6 DEF Begins
<1> QED BY <1>2, <1>5, <1>6, <1>7, <1>8, <1>9

LEMMA NumberedCut ==
  ASSUME NEW s \in Seq(Construct), NEW m \in 1 .. Len(s), Numbered(s)
  PROVE  /\ Front(s, m) \in Seq(Construct) /\ Numbered(Front(s, m)) /\ Len(Front(s, m)) = m
         /\ Front(s, m)[m] = s[m]
<1>1. /\ Front(s, m) \in Seq(Construct) /\ Len(Front(s, m)) = m
      /\ \A i \in 1 .. m : Front(s, m)[i] = s[i]
  <2>1. m \in Int /\ 0 <= m /\ m <= Len(s)
    BY Elements
  <2> QED BY <2>1, Fronts
<1>2. m \in 1 .. m /\ 1 \in 1 .. m /\ Len(s) \in Nat
  OBVIOUS
<1>3. \A i \in 2 .. m : i \in 1 .. m /\ i - 1 \in 1 .. m /\ i \in 2 .. Len(s)
  BY <1>2
<1> QED BY <1>1, <1>2, <1>3 DEF Numbered

LEMMA SemicolonNests ==
  ASSUME NestInv, Prescanning, Semicolon
  PROVE  NestInv'
<1>1. /\ bc' = OuterBlock /\ tlist' = Front(tlist, LastBegin) /\ nest' = Front(nest, Compound)
      /\ closed' = "nothing" /\ mbc' = mbc
  BY DEF Semicolon, Front
<1>2. /\ LastBegin \in 1 .. Len(tlist) /\ Compound \in 1 .. Len(nest)
      /\ OuterBlock = nest[Compound][2]
      /\ tlist \in Seq(Token) /\ nest \in Seq(Construct) /\ LeftOver \in {0, 1} /\ mbc \in Nat
  BY CutFacts, NestFacts
<1>3. PICK own : /\ Owns(own, tlist, nest, LeftOver) /\ own[LastBegin] = Compound
                 /\ \A i \in LastBegin + 1 .. Len(tlist) : tlist[i] # Open
  BY CutFacts
<1>4. \E own2 : Owns(own2, tlist', nest', 0)
  <2>1. \A i \in Begins(nest) : i <= Compound =>
           \E j \in 1 .. LastBegin : own[j] = i /\ tlist[j] = Open
    <3> SUFFICES ASSUME NEW i \in Begins(nest)
                 PROVE  \E j \in 1 .. LastBegin : own[j] = i /\ tlist[j] = Open
      OBVIOUS
    <3>1. PICK j \in 1 .. Len(tlist) : own[j] = i /\ tlist[j] = Open
      BY <1>3 DEF Owns
    <3>2. j \in 1 .. LastBegin
      BY <1>2, <1>3, <3>1
    <3> QED BY <3>1, <3>2
  <2>2. 0 \in {0, 1} /\ Compound = Compound + 0 /\ 0 # 1
    BY <1>2
  <2>3. CanBeCut(own, tlist, nest, LeftOver, LastBegin, Compound, 0)
    BY <1>2, <1>3, <2>1, <2>2 DEF CanBeCut
  <2> QED BY <1>1, <2>3, Cut
<1>5. /\ nest' \in Seq(Construct) /\ Numbered(nest') /\ bc' = nest'[Len(nest')][2]
  BY <1>1, <1>2, NestFacts, NumberedCut
<1>6. tlist' \in Seq(Token)
  <2>1. LastBegin \in Int /\ 0 <= LastBegin /\ LastBegin <= Len(tlist)
    BY <1>2
  <2> QED BY <1>1, <1>2, <2>1, Fronts
<1>7. LeftOver' = 0
  BY <1>1 DEF LeftOver
<1> QED BY <1>1, <1>2, <1>4, <1>5, <1>6, <1>7 DEF NestInv, Nesting, NestTypeOK, InnermostBlock

(* Of a block, the marker stays. *)
LEMMA EndNests ==
  ASSUME NestInv, Prescanning, End
  PROVE  NestInv'
<1> DEFINE q == LastBegin - 1
           m == Compound - 1
           rest == IF nest[Compound][1] = "block" THEN 1 ELSE 0
<1>1. /\ bc' = OuterBlock /\ tlist' = Front(tlist, q) /\ nest' = Front(nest, m)
      /\ closed' = nest[Compound][1] /\ mbc' = mbc /\ LastBegin > 1
  BY DEF End, ReadEnd, Front
<1>2. /\ LastBegin \in 1 .. Len(tlist) /\ Compound \in 1 .. Len(nest)
      /\ OuterBlock = nest[Compound][2] /\ nest[Compound][1] \in {"begin", "block"}
      /\ tlist \in Seq(Token) /\ nest \in Seq(Construct) /\ LeftOver \in {0, 1} /\ mbc \in Nat
  BY CutFacts, NestFacts
<1>3. PICK own : /\ Owns(own, tlist, nest, LeftOver) /\ own[LastBegin] = Compound
                 /\ tlist[LastBegin] = Open /\ Compound > 1
                 /\ \A i \in LastBegin + 1 .. Len(tlist) : tlist[i] # Open
  BY <1>1, CutFacts
<1>4. /\ q \in 1 .. Len(tlist) /\ q \in 1 .. Len(tlist) - 1 /\ q + 1 = LastBegin
      /\ LastBegin \in 2 .. Len(tlist) /\ LastBegin - 1 = q
      /\ m \in 1 .. Len(nest) /\ m + 1 = Compound /\ rest \in {0, 1} /\ Compound \in 2 .. Len(nest)
      /\ Compound - 1 = m
  BY <1>1, <1>2, <1>3
<1>5. /\ own[q] \in Nat
      /\ \/ own[LastBegin] = own[q] + 1
         \/ own[LastBegin] = own[q] /\ tlist[q] # Open
      /\ own[q] = own[LastBegin] <=> nest[Compound][1] = "block"
  <2>1. own[q] \in Nat
    BY <1>2, <1>3, <1>4, Ends
  <2>2. \/ own[q + 1] = own[q] + 1
        \/ own[q + 1] = own[q] /\ tlist[q] # Open
    BY <1>3, <1>4 DEF Owns
  <2>3. own[LastBegin - 1] = own[LastBegin] <=> nest[own[LastBegin]][1] = "block"
    BY <1>3, <1>4 DEF Owns
  <2> HIDE DEF q
  <2> QED BY <1>3, <1>4, <2>1, <2>2, <2>3
<1> HIDE DEF q, m
<1>6. own[q] = m + rest /\ (rest = 1 => tlist[q] # Open)
  BY <1>2, <1>3, <1>4, <1>5
<1>7. LeftOver' = rest
  BY <1>1 DEF LeftOver
<1> HIDE DEF rest
<1>8. \E own2 : Owns(own2, tlist', nest', rest)
  <2>1. \A i \in Begins(nest) : i <= m => \E j \in 1 .. q : own[j] = i /\ tlist[j] = Open
    <3> SUFFICES ASSUME NEW i \in Begins(nest), i <= m
                 PROVE  \E j \in 1 .. q : own[j] = i /\ tlist[j] = Open
      OBVIOUS
    <3>1. PICK j \in 1 .. Len(tlist) : own[j] = i /\ tlist[j] = Open
      BY <1>3 DEF Owns
    <3>2. j # LastBegin
      BY <1>2, <1>3, <1>4, <3>1
    <3>3. j \in 1 .. q
      BY <1>2, <1>3, <1>4, <3>1, <3>2
    <3> QED BY <3>1, <3>3
  <2>2. CanBeCut(own, tlist, nest, LeftOver, q, m, rest)
    BY <1>2, <1>3, <1>4, <1>6, <2>1 DEF CanBeCut
  <2> QED BY <1>1, <2>2, Cut
<1>9. nest' \in Seq(Construct) /\ Numbered(nest') /\ Len(nest') = m /\ nest'[m] = nest[m]
  BY <1>1, <1>2, <1>4, NestFacts, NumberedCut
<1>10. closed' # "block" => bc' = nest'[Len(nest')][2]
  <2> SUFFICES ASSUME closed' # "block" PROVE bc' = nest'[Len(nest')][2]
    OBVIOUS
  <2>1. nest[Compound][1] = "begin"
    BY <1>1, <1>2
  <2>2. nest[Compound][2] = nest[Compound - 1][2]
    BY <1>4, <2>1, NestFacts DEF Numbered
  <2> QED BY <1>1, <1>2, <1>4, <1>9, <2>2
<1>11. tlist' \in Seq(Token)
  <2>1. q \in Int /\ 0 <= q /\ q <= Len(tlist)
    BY <1>2, <1>4
  <2> QED BY <1>1, <1>2, <2>1, Fronts
<1>12. NestTypeOK'
  BY <1>1, <1>2, <1>9, <1>11 DEF NestTypeOK, Kinds
<1> QED BY <1>1, <1>2, <1>7, <1>8, <1>9, <1>10, <1>12 DEF NestInv, Nesting, InnermostBlock

-----------------------------------------------------------------------------
(***************************************************************************)
(* The invariant holds.                                                    *)
(***************************************************************************)
LEMMA InitNestInv == Init => NestInv
<1> SUFFICES ASSUME Init PROVE NestInv
  OBVIOUS
<1> USE DEF Init, PrescanInit
<1>1. NestTypeOK
  BY DEF NestTypeOK, Token, Construct, Kinds
<1>2. Numbered(nest) /\ bc = nest[Len(nest)][2]
  BY DEF Numbered
<1> DEFINE own == [j \in 1 .. 1 |-> 1]
<1>3. Owns(own, tlist, nest, LeftOver)
  <2>1. LeftOver = 0 /\ Len(tlist) = 1 /\ Len(nest) = 1 /\ tlist[1] = Open
        /\ nest[1][1] = "block" /\ DOMAIN nest = 1 .. 1
    BY DEF LeftOver
  <2>2. Begins(nest) = {1}
    BY <2>1 DEF Begins
  <2>3. /\ own \in [1 .. 1 -> Nat] /\ own[1] = 1 /\ \A j \in 1 .. 1 : j = 1
        /\ 1 \in 1 .. 1 /\ 1 .. 1 - 1 = {} /\ 2 .. 1 = {}
    OBVIOUS
  <2> HIDE DEF own
  <2> QED BY <2>1, <2>2, <2>3 DEF Owns
<1> QED BY <1>1, <1>2, <1>3 DEF NestInv, Nesting, InnermostBlock

LEMMA PrescanNests ==
  ASSUME ElseAfterBlock = FALSE, NestInv, PrescanNext
  PROVE  NestInv'
<1>1. Prescanning
  BY DEF PrescanNext
<1>2. CASE Symbol
  BY <1>1, <1>2, NestKept DEF Symbol
<1>3. CASE For
  <2>1. closed = "nothing" /\ closed' = "for" /\ NewBlock("for") /\ tlist' = Append(tlist, Marker(bc))
    BY <1>3 DEF For, BlockIntroduction
  <2> QED BY <1>1, <2>1, MarkerStep
<1>4. CASE Begin
  BY <1>1, <1>4, BeginNests
<1>5. CASE BeginBlock
  BY <1>1, <1>5, BeginBlockNests
<1>6. CASE Semicolon
  BY <1>1, <1>6, SemicolonNests
<1>7. CASE End
  BY <1>1, <1>7, EndNests
<1>8. CASE Else
  BY <1>1, <1>8, NestKept DEF Else
<1>9. CASE \E nm \in Name : Label(nm) \/ Switch(nm)
  <2>1. closed = "nothing" /\ closed' = "nothing" /\ UNCHANGED <<bc, mbc, tlist, nest>>
    BY <1>9 DEF Label, Switch, InStatement
  <2> QED BY <1>1, <2>1, NestKept
<1>10. CASE \E nm \in Name : Procedure(nm)
  <2>1. closed = "nothing" /\ closed' = "nothing" /\ NewBlock("procedure")
        /\ tlist' = Append(tlist, Marker(bc))
    BY <1>10 DEF Procedure, InStatement
  <2> QED BY <1>1, <2>1, MarkerStep
<1>11. CASE StoreExhausted
  BY <1>11 DEF StoreExhausted, prescanVars, NestInv, Nesting, Prescanning, InnermostBlock
<1> QED BY <1>2, <1>3, <1>4, <1>5, <1>6, <1>7, <1>8, <1>9, <1>10, <1>11 DEF PrescanNext

LEMMA NextNestInv ==
  ASSUME ElseAfterBlock = FALSE, NestInv, [Next]_vars
  PROVE  NestInv'
<1>1. ASSUME phase' # "prescan" PROVE NestInv'
  BY <1>1 DEF NestInv, Nesting, Prescanning, InnermostBlock
<1>2. CASE PrescanNext
  BY <1>2, PrescanNests
<1>3. CASE MainScan
  <2>1. Prescanning /\ closed' = nest[Compound][1]
    BY <1>3 DEF MainScan, ReadEnd
  <2>2. closed' # "nothing"
    BY <2>1, CutFacts
  <2>3. stopped' = TRUE \/ phase' = "intro"
    BY <1>3 DEF MainScan
  <2> QED BY <1>1, <2>2, <2>3 DEF NestInv, Nesting, Prescanning, InnermostBlock
<1>4. CASE TakeText \/ BitStringMaker \/ ReserveFuture \/ \E p \in open : ResolveFuture(p)
  BY <1>1, <1>4 DEF TakeText, BitStringMaker, ReserveFuture, ResolveFuture, Scanning
<1>5. CASE \/ \E c \in Constant : LookForConstant(c)
           \/ \E c \in Constant : FillConstantList(c[1])
  <2>1. phase' = phase /\ phase = "scan"
    BY <1>5 DEF LookForConstant, FillConstantList, Scanning
  <2> QED BY <1>1, <2>1
<1>6. CASE \E nm \in Name :
             \/ \E kind \in {"simple", "array", "value array"} : FillNameList(nm, kind)
             \/ TestFirstOccurrence(nm) \/ LabelDeclaration(nm)
  <2>1. phase' = phase /\ phase = "scan"
    BY <1>6 DEF FillNameList, TestFirstOccurrence, LabelDeclaration, Scanning
  <2> QED BY <1>1, <2>1
<1>7. CASE EnterBlock \/ IntroName \/ IntroSublist \/ ExitBlock
  BY <1>1, <1>7 DEF EnterBlock, IntroName, IntroSublist, ExitBlock, Stop, Scanning
<1>8. CASE ReservationOfArrays \/ WalkEntry \/ WalkPass
  BY <1>1, <1>8 DEF ReservationOfArrays, WalkEntry, WalkPass
<1>9. CASE StoreTooSmall
  BY <1>1, <1>9 DEF StoreTooSmall, Stop, Scanning
<1>10. CASE UNCHANGED vars
  BY <1>10 DEF vars, source, prescanVars, NestInv, Nesting, NestTypeOK, LeftOver, Prescanning,
               InnermostBlock
<1> QED BY <1>2, <1>3, <1>4, <1>5, <1>6, <1>7, <1>8, <1>9, <1>10 DEF Next

(* When no else follows a block that is a statement after then, the number *)
(* of the block under which the prescan lists labels, switches and         *)
(* procedures is that of the innermost block of the source, wherever a     *)
(* statement may begin, for every nesting of blocks, procedures, for       *)
(* statements and compound statements.                                     *)
THEOREM ListedInInnermostBlock ==
  ASSUME ElseAfterBlock = FALSE
  PROVE  Spec => []InnermostBlock
<1>1. Init => NestInv
  BY InitNestInv
<1>2. NestInv /\ [Next]_vars => NestInv'
  BY NextNestInv
<1>3. NestInv => InnermostBlock
  BY DEF NestInv
<1> QED BY <1>1, <1>2, <1>3, PTL DEF Spec
=============================================================================

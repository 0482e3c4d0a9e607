------------------------- MODULE ForStatementProofs -------------------------
(***************************************************************************)
(* ForStatement implements ForList for all for lists, expressions and      *)
(* controlled statements.                                                  *)
(***************************************************************************)
EXTENDS ForStatementRefines, TLAPS

-----------------------------------------------------------------------------
(* Facts about the stack of operands. *)
IsSeq(s) == \E S : s \in Seq(S)

LEMMA Pushed ==
  ASSUME NEW s, NEW e, IsSeq(s)
  PROVE  /\ IsSeq(Append(s, e))
         /\ Len(s) \in Nat /\ Len(Append(s, e)) = Len(s) + 1
         /\ Append(s, e)[Len(s) + 1] = e
         /\ \A i \in 1 .. Len(s) : Append(s, e)[i] = s[i]
<1>1. PICK S : s \in Seq(S)
  BY DEF IsSeq
<1>2. s \in Seq(S \cup {e})
  BY <1>1
<1>3. Append(s, e) \in Seq(S \cup {e})
  BY <1>2
<1> QED BY <1>2, <1>3 DEF IsSeq

LEMMA PushedOnOne ==
  ASSUME NEW s, NEW e, IsSeq(s), Len(s) = 1
  PROVE  /\ IsSeq(Append(s, e)) /\ Len(Append(s, e)) = 2
         /\ Append(s, e)[1] = s[1] /\ Append(s, e)[2] = e
<1>1. PICK S : s \in Seq(S)
  BY DEF IsSeq
<1>2. s \in Seq(S \cup {e}) /\ Append(s, e) \in Seq(S \cup {e})
  BY <1>1
<1> QED BY <1>2 DEF IsSeq

LEMMA Dropped ==
  ASSUME NEW s, IsSeq(s), NEW n \in 0 .. Len(s)
  PROVE  /\ IsSeq(SubSeq(s, 1, Len(s) - n))
         /\ Len(s) \in Nat /\ Len(SubSeq(s, 1, Len(s) - n)) = Len(s) - n
         /\ \A i \in 1 .. Len(s) - n : SubSeq(s, 1, Len(s) - n)[i] = s[i]
<1>1. PICK S : s \in Seq(S)
  BY DEF IsSeq
<1>2. Len(s) \in Nat /\ Len(s) - n \in 0 .. Len(s)
  BY <1>1
<1>3. \A i \in 1 .. Len(s) - n : i \in 1 .. Len(s) /\ s[i] \in S
  BY <1>1, <1>2
<1>4. SubSeq(s, 1, Len(s) - n) \in Seq(S)
  BY <1>1, <1>2, <1>3
<1>5. Len(SubSeq(s, 1, Len(s) - n)) = Len(s) - n
  BY <1>1, <1>2
<1>6. \A i \in 1 .. Len(s) - n : SubSeq(s, 1, Len(s) - n)[i] = s[i]
  BY <1>1, <1>2, <1>3
<1> QED BY <1>2, <1>4, <1>5, <1>6 DEF IsSeq

-----------------------------------------------------------------------------
(***************************************************************************)
(* The inductive invariant says, place by place, what is stacked and what  *)
(* the links are.                                                          *)
(***************************************************************************)
Here(i, kind, n, d) ==
  /\ i \in 1 .. LastElement /\ for.list[i].kind = kind
  /\ ot = <<i, n>> /\ Depth = d /\ LINK = <<0, 3>>

HasA(i) == operands[2].v = Value(for.list[i].a, store)

Value1(i) == Here(i, "value", 1, 1) /\ PC = <<i, 1>>
Value2(i) == Here(i, "value", 2, 2) /\ PC = <<i, 1>> /\ HasA(i)
While1(i) == Here(i, "while", 1, 1) /\ PC = <<i, 1>>
While2(i) == Here(i, "while", 2, 2) /\ PC = <<i, 1>> /\ HasA(i)
While3(i) == Here(i, "while", 3, 1) /\ PC = <<i, 1>>
While4(i) == /\ Here(i, "while", 4, 2) /\ PC = <<i, 1>>
             /\ operands[2].v = Holds(for.list[i].f, store)
Step1(i)  == Here(i, "step", 1, 1) /\ PC = <<i, 1>>
Step2(i)  == Here(i, "step", 2, 2) /\ PC = <<i, 1>> /\ HasA(i)
(* The first value, from A. *)
First3(i) == Here(i, "step", 3, 2) /\ PC = <<i, 3>> /\ RESULT = Null /\ HasA(i)
First4(i) == /\ Here(i, "step", 4, 3) /\ PC = <<i, 3>> /\ RESULT = Null /\ HasA(i)
             /\ operands[3].v = Value(for.list[i].b, store)
(* The other values. *)
Again3(i) == Here(i, "step", 3, 1) /\ PC = <<i, 3>> /\ RESULT # Null
Again4(i) == /\ Here(i, "step", 4, 2) /\ PC = <<i, 3>> /\ RESULT # Null
             /\ operands[2].v = Value(for.list[i].b, store)
Step5(i)  == Here(i, "step", 5, 2) /\ PC = <<i, 3>> /\ RESULT # Null
Step6(i)  == /\ Here(i, "step", 6, 3) /\ PC = <<i, 3>> /\ RESULT # Null
             /\ operands[3].v = Value(for.list[i].c, store)

(* Where the return address leads. *)
Return ==
  \/ \E i \in 1 .. LastElement + 1 : PC = <<i, 1>>
  \/ \E i \in 1 .. LastElement :
       PC = <<i, 3>> /\ for.list[i].kind = "step" /\ RESULT # Null

Loop1 == ot = <<0, 1>> /\ Depth = 0 /\ Return
Loop2 == ot = <<0, 2>> /\ Depth = 1 /\ Return /\ operands[1].v = Address(for, store)
Loop3 == ot = <<0, 3>> /\ Depth = 0 /\ Return
Loop4 == ot = <<0, 4>> /\ Depth = 0 /\ Return
End   == ot = <<LastElement + 1, 1>> /\ Depth = 1 /\ PC = ot
Out   == ot = <<0, 0>> /\ Depth = 0

Place ==
  \/ Loop1 \/ Loop2 \/ Loop3 \/ Loop4 \/ End \/ Out
  \/ \E i : \/ Value1(i) \/ Value2(i)
            \/ While1(i) \/ While2(i) \/ While3(i) \/ While4(i)
            \/ Step1(i) \/ Step2(i) \/ Step5(i) \/ Step6(i)
            \/ First3(i) \/ First4(i) \/ Again3(i) \/ Again4(i)

Inv == for \in ForStatements /\ IsSeq(operands) /\ Place

LEMMA List ==
  ASSUME for \in ForStatements
  PROVE  /\ LastElement \in Nat \ {0}
         /\ \A i \in 1 .. LastElement : for.list[i].kind \in Kinds
  BY ForAssumption DEF LastElement

THEOREM Initial == Init => Inv
<1> SUFFICES ASSUME Init PROVE Inv
  OBVIOUS
<1>1. for \in ForStatements /\ LastElement \in Nat \ {0}
  BY List DEF Init
<1>2. operands = << >> /\ << >> \in Seq({}) /\ Depth = 0
  BY DEF Init, Depth
<1>3. Loop1
  BY <1>1, <1>2 DEF Init, L0, Loop1, Return
<1> QED BY <1>1, <1>2, <1>3 DEF Inv, Place, IsSeq

(* The places say what the invariant of the runs says. *)
LEMMA Words == Inv => ControlWords
<1> SUFFICES ASSUME Inv PROVE ControlWords
  OBVIOUS
<1>1. LastElement \in Nat \ {0}
  BY List DEF Inv
<1>2. CASE Loop1 \/ Loop2 \/ Loop3 \/ Loop4 \/ End \/ Out
  <2>1. CASE End
    BY <1>1, <2>1 DEF End, ControlWords
  <2>2. CASE Loop1 \/ Loop2 \/ Loop3 \/ Loop4 \/ Out
    <3>1. ot[1] = 0 /\ Depth = (IF ot[2] = 2 THEN 1 ELSE 0) /\ ot # <<LastElement + 1, 1>>
      BY <1>1, <2>2 DEF Loop1, Loop2, Loop3, Loop4, Out
    <3> QED BY <3>1, <1>1 DEF ControlWords
  <2> QED BY <1>2, <2>1, <2>2
<1>3. ASSUME NEW i, NEW kind, NEW n \in Nat, NEW d, Here(i, kind, n, d),
             d = Stacked(kind, n),
             PC = <<i, IF kind = "step" /\ n > 2 THEN 3 ELSE 1>>,
             (kind = "step" /\ n > 4) => RESULT # Null
      PROVE  ControlWords
  <2>1. /\ i \in 1 .. LastElement /\ ot[1] = i /\ ot[2] = n
        /\ Element.kind = kind /\ LINK = <<0, 3>> /\ Depth = d
    BY <1>3 DEF Here, Element
  <2>2. ot # <<LastElement + 1, 1>> /\ ot[1] # 0
    BY <1>1, <2>1
  <2> QED BY <1>3, <2>1, <2>2 DEF ControlWords
<1>4. ASSUME NEW i, Value1(i) \/ Value2(i) PROVE ControlWords
  BY <1>3, <1>4 DEF Value1, Value2, Stacked
<1>5. ASSUME NEW i, While1(i) \/ While2(i) \/ While3(i) \/ While4(i) PROVE ControlWords
  BY <1>3, <1>5 DEF While1, While2, While3, While4, Stacked
<1>6. ASSUME NEW i, Step1(i) \/ Step2(i) PROVE ControlWords
  BY <1>3, <1>6, SMTT(30) DEF Step1, Step2, Stacked
<1>7. ASSUME NEW i, First3(i) \/ First4(i) PROVE ControlWords
  <2>1. CASE First3(i)
    BY <1>3, <2>1 DEF First3, Stacked
  <2>2. CASE First4(i)
    BY <1>3, <2>2 DEF First4, Stacked
  <2> QED BY <1>7, <2>1, <2>2
<1>8. ASSUME NEW i, Again3(i) \/ Again4(i) PROVE ControlWords
  BY <1>3, <1>8 DEF Again3, Again4, Stacked
<1>9. ASSUME NEW i, Step5(i) \/ Step6(i) PROVE ControlWords
  BY <1>3, <1>9 DEF Step5, Step6, Stacked
<1> QED BY <1>2, <1>4, <1>5, <1>6, <1>7, <1>8, <1>9 DEF Inv, Place

-----------------------------------------------------------------------------
(* The order at each place. *)
LEMMA Occurring ==
  ASSUME NEW o
  PROVE  /\ Occurs(o, "value", 1) <=> o = "a"
         /\ Occurs(o, "value", 2) <=> o = "FOR2"
         /\ Occurs(o, "while", 1) <=> o = "a"
         /\ Occurs(o, "while", 2) <=> o = "FOR3"
         /\ Occurs(o, "while", 3) <=> o = "f"
         /\ Occurs(o, "while", 4) <=> o = "FOR4"
         /\ Occurs(o, "step", 1) <=> o = "a"
         /\ Occurs(o, "step", 2) <=> o = "FOR5"
         /\ Occurs(o, "step", 3) <=> o = "b"
         /\ Occurs(o, "step", 4) <=> o = "FOR6"
         /\ Occurs(o, "step", 5) <=> o = "c"
         /\ Occurs(o, "step", 6) <=> o = "FOR7"
<1>1. \A n \in 1 .. 2 : Occurs(o, "value", n) <=> <<"a", "FOR2">>[n] = o
  BY DEF Occurs, Orders
<1>2. \A n \in 1 .. 4 : Occurs(o, "while", n) <=> <<"a", "FOR3", "f", "FOR4">>[n] = o
  BY DEF Occurs, Orders
<1>3. \A n \in 1 .. 6 :
         Occurs(o, "step", n) <=> <<"a", "FOR5", "b", "FOR6", "c", "FOR7">>[n] = o
  BY DEF Occurs, Orders
<1>4. /\ Occurs(o, "value", 1) <=> o = "a"
      /\ Occurs(o, "value", 2) <=> o = "FOR2"
  BY <1>1
<1>5. /\ Occurs(o, "while", 1) <=> o = "a"
      /\ Occurs(o, "while", 2) <=> o = "FOR3"
      /\ Occurs(o, "while", 3) <=> o = "f"
      /\ Occurs(o, "while", 4) <=> o = "FOR4"
  BY <1>2
<1>6. /\ Occurs(o, "step", 1) <=> o = "a"
      /\ Occurs(o, "step", 2) <=> o = "FOR5"
      /\ Occurs(o, "step", 3) <=> o = "b"
  BY <1>3
<1>7. /\ Occurs(o, "step", 4) <=> o = "FOR6"
      /\ Occurs(o, "step", 5) <=> o = "c"
      /\ Occurs(o, "step", 6) <=> o = "FOR7"
  BY <1>3
<1> QED BY <1>4, <1>5, <1>6, <1>7

OrderIs(name) == \A o : InElement(o) <=> o = name

OrderFacts ==
  for \in ForStatements =>
    /\ \A i : (Value1(i) \/ While1(i) \/ Step1(i)) => OrderIs("a")
    /\ \A i : Value2(i) => OrderIs("FOR2")
    /\ \A i : While2(i) => OrderIs("FOR3")
    /\ \A i : While3(i) => OrderIs("f")
    /\ \A i : While4(i) => OrderIs("FOR4")
    /\ \A i : Step2(i)  => OrderIs("FOR5")
    /\ \A i : (First3(i) \/ Again3(i)) => OrderIs("b")
    /\ \A i : (First4(i) \/ Again4(i)) => OrderIs("FOR6")
    /\ \A i : Step5(i)  => OrderIs("c")
    /\ \A i : Step6(i)  => OrderIs("FOR7")
    /\ (Loop1 \/ Loop2 \/ Loop3 \/ Loop4 \/ End \/ Out) => \A o : ~InElement(o)

LEMMA OrderPlaces == OrderFacts
<1> SUFFICES ASSUME for \in ForStatements
             PROVE  OrderFacts!2
  BY Zenon DEF OrderFacts
<1>1. LastElement \in Nat \ {0}
  BY List
<1>2. ASSUME NEW i, NEW kind, NEW n, NEW d, Here(i, kind, n, d), NEW o
      PROVE  InElement(o) <=> Occurs(o, kind, n)
  <2>1. ot[1] = i /\ ot[2] = n /\ Element.kind = kind /\ i \in 1 .. LastElement
    BY <1>2 DEF Here, Element
  <2> QED BY <2>1 DEF InElement
<1>3. \A i : (Value1(i) \/ While1(i) \/ Step1(i)) => OrderIs("a")
  BY <1>2, Occurring DEF Value1, While1, Step1, OrderIs
<1>4. /\ \A i : Value2(i) => OrderIs("FOR2")
      /\ \A i : While2(i) => OrderIs("FOR3")
      /\ \A i : While3(i) => OrderIs("f")
      /\ \A i : While4(i) => OrderIs("FOR4")
  BY <1>2, Occurring DEF Value2, While2, While3, While4, OrderIs
<1>5. /\ \A i : Step2(i)  => OrderIs("FOR5")
      /\ \A i : (First3(i) \/ Again3(i)) => OrderIs("b")
      /\ \A i : (First4(i) \/ Again4(i)) => OrderIs("FOR6")
  BY <1>2, Occurring DEF Step2, First3, First4, Again3, Again4, OrderIs
<1>6. /\ \A i : Step5(i)  => OrderIs("c")
      /\ \A i : Step6(i)  => OrderIs("FOR7")
  BY <1>2, Occurring DEF Step5, Step6, OrderIs
<1>7. (Loop1 \/ Loop2 \/ Loop3 \/ Loop4 \/ End \/ Out) => \A o : ~InElement(o)
  BY <1>1 DEF Loop1, Loop2, Loop3, Loop4, End, Out, InElement
<1> QED BY <1>3, <1>4, <1>5, <1>6, <1>7

(* Where an order is carried out. *)
LEMMA Located ==
  ASSUME Inv
  PROVE  /\ InElement("a") => \E i : Value1(i) \/ While1(i) \/ Step1(i)
         /\ InElement("f") => \E i : While3(i)
         /\ InElement("b") => \E i : First3(i) \/ Again3(i)
         /\ InElement("c") => \E i : Step5(i)
         /\ InElement("FOR2") => \E i : Value2(i)
         /\ InElement("FOR3") => \E i : While2(i)
         /\ InElement("FOR4") => \E i : While4(i)
         /\ InElement("FOR5") => \E i : Step2(i)
         /\ InElement("FOR6") => \E i : First4(i) \/ Again4(i)
         /\ InElement("FOR7") => \E i : Step6(i)
<1>1. ASSUME NEW o, InElement(o)
      PROVE  \E i : \/ (Value1(i) \/ While1(i) \/ Step1(i)) /\ o = "a"
                    \/ Value2(i) /\ o = "FOR2"
                    \/ While2(i) /\ o = "FOR3"
                    \/ While3(i) /\ o = "f"
                    \/ While4(i) /\ o = "FOR4"
                    \/ Step2(i) /\ o = "FOR5"
                    \/ (First3(i) \/ Again3(i)) /\ o = "b"
                    \/ (First4(i) \/ Again4(i)) /\ o = "FOR6"
                    \/ Step5(i) /\ o = "c"
                    \/ Step6(i) /\ o = "FOR7"
  BY <1>1, OrderPlaces DEF Inv, Place, OrderFacts, OrderIs
<1> QED BY <1>1

-----------------------------------------------------------------------------
(* What each operation does at its place. *)
LEMMA Lengths ==
  /\ Len(Orders("value")) = 2
  /\ Len(Orders("while")) = 4
  /\ Len(Orders("step")) = 6
  BY DEF Orders

LEMMA Follows ==
  ASSUME NEW i, NEW kind, NEW n, NEW d, Here(i, kind, n, d)
  PROVE  /\ Element = for.list[i]
         /\ kind = "value" /\ n = 1 => Following = <<i, 2>>
         /\ kind = "value" /\ n = 2 => Following = <<i + 1, 1>>
         /\ kind = "while" /\ n = 1 => Following = <<i, 2>>
         /\ kind = "while" /\ n = 2 => Following = <<i, 3>>
         /\ kind = "while" /\ n = 3 => Following = <<i, 4>>
         /\ kind = "while" /\ n = 4 => Following = <<i + 1, 1>>
         /\ kind = "step" /\ n = 1 => Following = <<i, 2>>
         /\ kind = "step" /\ n = 2 => Following = <<i, 3>>
         /\ kind = "step" /\ n = 3 => Following = <<i, 4>>
         /\ kind = "step" /\ n = 4 => Following = <<i, 5>>
         /\ kind = "step" /\ n = 5 => Following = <<i, 6>>
         /\ kind = "step" /\ n = 6 => Following = <<i + 1, 1>>
<1>1. /\ Element = for.list[i] /\ Element.kind = kind /\ ot[1] = i /\ ot[2] = n
  BY DEF Here, Element
<1>2. Following = IF n < Len(Orders(kind)) THEN <<i, n + 1>> ELSE <<i + 1, 1>>
  BY <1>1 DEF Following
<1>3. ASSUME kind = "value" PROVE Following = IF n < 2 THEN <<i, n + 1>> ELSE <<i + 1, 1>>
  BY <1>2, <1>3, Lengths
<1>4. ASSUME kind = "while" PROVE Following = IF n < 4 THEN <<i, n + 1>> ELSE <<i + 1, 1>>
  BY <1>2, <1>4, Lengths
<1>5. ASSUME kind = "step" PROVE Following = IF n < 6 THEN <<i, n + 1>> ELSE <<i + 1, 1>>
  BY <1>2, <1>5, Lengths
<1> QED BY <1>1, <1>3, <1>4, <1>5

(* At the beginning of an element, or after the last one. *)
Entering == End \/ \E i : Value1(i) \/ While1(i) \/ Step1(i)

LEMMA Entered ==
  ASSUME for \in ForStatements, for' = for, NEW i \in 1 .. LastElement + 1,
         ot' = <<i, 1>>, PC' = <<i, 1>>, Depth' = 1, LINK' = <<0, 3>>
  PROVE  Entering' /\ Place'
<1>1. /\ LastElement \in Nat \ {0} /\ LastElement' = LastElement
      /\ \A j \in 1 .. LastElement : for.list[j].kind \in Kinds
  BY List DEF LastElement
<1>2. CASE i = LastElement + 1
  BY <1>1, <1>2 DEF Entering, Place, End
<1>3. CASE i # LastElement + 1
  <2>1. i \in 1 .. LastElement /\ for.list[i].kind \in Kinds
    BY <1>1, <1>3
  <2>2. (Value1(i) \/ While1(i) \/ Step1(i))'
    BY <1>1, <2>1 DEF Value1, While1, Step1, Here, Kinds
  <2> QED BY <2>2 DEF Entering, Place
<1> QED BY <1>2, <1>3

LEMMA TakeAddressStep ==
  ASSUME Inv, TakeAddress
  PROVE  Inv' /\ Loop1 /\ Loop2'
<1>1. Loop1 /\ LastElement \in Nat \ {0}
  <2>1. ot = <<0, 1>> /\ LastElement \in Nat \ {0}
    BY List DEF Inv, TakeAddress, L0
  <2> QED BY <2>1 DEF Inv, Place, Loop1, Loop2, Loop3, Loop4, End, Out, Here, Value1,
       Value2, While1, While2, While3, While4, Step1, Step2, Step5, Step6, First3,
       First4, Again3, Again4
<1>2. IsSeq(operands) /\ Len(operands) = 0
  BY <1>1 DEF Inv, Loop1, Depth
<1>3. operands' = Append(operands, Addr(Address(for, store)))
  BY DEF TakeAddress
<1>4. /\ IsSeq(operands') /\ Depth' = 1
      /\ operands'[1] = Addr(Address(for, store))
  <2>1. /\ IsSeq(operands') /\ Len(operands') = Len(operands) + 1
        /\ operands'[Len(operands) + 1] = Addr(Address(for, store))
    BY <1>2, <1>3, Pushed, Zenon
  <2> QED BY <1>2, <2>1 DEF Depth
<1>5. Loop2'
  BY <1>1, <1>4 DEF TakeAddress, words, Loop1, Loop2, Return, LastElement, Addr
<1> QED BY <1>1, <1>4, <1>5 DEF TakeAddress, Inv, Place

(* An expression is stacked above the operands there are. *)
LEMMA EvaluateStep ==
  ASSUME Inv, Evaluate
  PROVE  /\ Inv' /\ operands'[1] = operands[1]
         /\ \E i :
              \/ /\ Value1(i) \/ While1(i) \/ Step1(i)
                 /\ (Value2(i) \/ While2(i) \/ Step2(i))'
              \/ First3(i) /\ First4(i)'
              \/ Again3(i) /\ Again4(i)'
              \/ Step5(i) /\ Step6(i)' /\ operands'[2] = operands[2]
<1>1. PICK order \in {"a", "b", "c"} :
        InElement(order) /\ operands' = Append(operands, Val(Value(Element[order], store)))
  BY DEF Evaluate
<1>2. /\ for' = for /\ store' = store /\ PC' = PC /\ LINK' = LINK /\ RESULT' = RESULT
      /\ ot' = Following /\ LastElement' = LastElement /\ LastElement \in Nat \ {0}
  BY List DEF Evaluate, words, LastElement, Inv
<1>3. /\ IsSeq(operands') /\ Depth \in Nat /\ Depth' = Depth + 1
      /\ operands'[Depth + 1].v = Value(Element[order], store)
      /\ \A j \in 1 .. Depth : operands'[j] = operands[j]
  BY <1>1, Pushed DEF Inv, Depth, Val
<1>4. ASSUME NEW i, NEW kind, NEW n, NEW d, Here(i, kind, n, d),
             NEW m, Following = <<i, m>>, NEW e, e = d + 1
      PROVE  Here(i, kind, m, e)' /\ Element = for.list[i] /\ Depth = d
  BY <1>2, <1>3, <1>4, Follows DEF Here
<1>b. 2 = 1 + 1 /\ 3 = 2 + 1
  OBVIOUS
<1>5. CASE order = "a"
  <2>1. PICK i : Value1(i) \/ While1(i) \/ Step1(i)
    BY <1>1, <1>5, Located
  <2>2. CASE Value1(i)
    <3>0. Here(i, "value", 1, 1)
      BY <2>2 DEF Value1
    <3>f. Following = <<i, 2>>
      BY <3>0, Follows
    <3>1. Here(i, "value", 2, 2)' /\ Element = for.list[i] /\ Depth = 1
      BY <1>4, <1>b, <3>0, <3>f, Zenon
    <3> QED BY <1>2, <1>3, <1>5, <2>2, <3>1 DEF Value1, Value2, HasA, Inv, Place
  <2>3. CASE While1(i)
    <3>0. Here(i, "while", 1, 1)
      BY <2>3 DEF While1
    <3>f. Following = <<i, 2>>
      BY <3>0, Follows
    <3>1. Here(i, "while", 2, 2)' /\ Element = for.list[i] /\ Depth = 1
      BY <1>4, <1>b, <3>0, <3>f, Zenon
    <3> QED BY <1>2, <1>3, <1>5, <2>3, <3>1 DEF While1, While2, HasA, Inv, Place
  <2>4. CASE Step1(i)
    <3>0. Here(i, "step", 1, 1)
      BY <2>4 DEF Step1
    <3>f. Following = <<i, 2>>
      BY <3>0, Follows
    <3>1. Here(i, "step", 2, 2)' /\ Element = for.list[i] /\ Depth = 1
      BY <1>4, <1>b, <3>0, <3>f, Zenon
    <3> QED BY <1>2, <1>3, <1>5, <2>4, <3>1 DEF Step1, Step2, HasA, Inv, Place
  <2> QED BY <2>1, <2>2, <2>3, <2>4
<1>6. CASE order = "b"
  <2>1. PICK i : First3(i) \/ Again3(i)
    BY <1>1, <1>6, Located
  <2>2. CASE First3(i)
    <3>0. Here(i, "step", 3, 2)
      BY <2>2 DEF First3
    <3>f. Following = <<i, 4>>
      BY <3>0, Follows
    <3>1. Here(i, "step", 4, 3)' /\ Element = for.list[i] /\ Depth = 2
      BY <1>4, <1>b, <3>0, <3>f, Zenon
    <3> QED BY <1>2, <1>3, <1>6, <2>2, <3>1 DEF First3, First4, HasA, Inv, Place
  <2>3. CASE Again3(i)
    <3>0. Here(i, "step", 3, 1)
      BY <2>3 DEF Again3
    <3>f. Following = <<i, 4>>
      BY <3>0, Follows
    <3>1. Here(i, "step", 4, 2)' /\ Element = for.list[i] /\ Depth = 1
      BY <1>4, <1>b, <3>0, <3>f, Zenon
    <3> QED BY <1>2, <1>3, <1>6, <2>3, <3>1 DEF Again3, Again4, Inv, Place
  <2> QED BY <2>1, <2>2, <2>3
<1>7. CASE order = "c"
  <2>1. PICK i : Step5(i)
    BY <1>1, <1>7, Located
  <2>a. Here(i, "step", 5, 2)
    BY <2>1 DEF Step5
  <2>f. Following = <<i, 6>>
    BY <2>a, Follows
  <2>2. Here(i, "step", 6, 3)' /\ Element = for.list[i] /\ Depth = 2
    BY <1>4, <1>b, <2>a, <2>f, Zenon
  <2> QED BY <1>2, <1>3, <1>7, <2>1, <2>2 DEF Step5, Step6, Inv, Place
<1> QED BY <1>5, <1>6, <1>7

LEMMA EvaluateConditionStep ==
  ASSUME Inv, EvaluateCondition
  PROVE  /\ Inv' /\ operands'[1] = operands[1]
         /\ \E i : While3(i) /\ While4(i)'
<1>1. /\ for' = for /\ store' = store /\ PC' = PC /\ LINK' = LINK /\ RESULT' = RESULT
      /\ ot' = Following /\ LastElement' = LastElement
      /\ operands' = Append(operands, Bool(Holds(Element.f, store)))
  BY DEF EvaluateCondition, words, LastElement
<1>2. PICK i : While3(i)
  BY Located DEF EvaluateCondition
<1>3. Here(i, "while", 3, 1) /\ Depth = 1 /\ i \in 1 .. LastElement
  BY <1>2 DEF While3, Here
<1>4. /\ IsSeq(operands') /\ Depth' = 2
      /\ operands'[2].v = Holds(Element.f, store)
      /\ operands'[1] = operands[1]
  <2>1. /\ IsSeq(operands') /\ Len(operands') = Len(operands) + 1
        /\ operands'[Len(operands) + 1] = Bool(Holds(Element.f, store))
        /\ \A j \in 1 .. Len(operands) : operands'[j] = operands[j]
    BY <1>1, Pushed, Zenon DEF Inv
  <2> QED BY <1>3, <2>1 DEF Depth, Bool
<1>5. Following = <<i, 4>> /\ Element = for.list[i]
  BY <1>3, Follows, Lengths
<1>6. While4(i)'
  BY <1>1, <1>2, <1>3, <1>4, <1>5 DEF While3, While4, Here
<1> QED BY <1>1, <1>2, <1>4, <1>6 DEF Inv, Place

(* The return address is that of an element, or of its third order. *)
LEMMA FOR1Step ==
  ASSUME Inv, FOR1
  PROVE  Inv' /\ Loop2 /\ (Entering' \/ \E i : Again3(i)')
<1>1. LastElement \in Nat \ {0} /\ ot = <<0, 2>>
  BY List DEF Inv, FOR1
<1>2. Loop2
  BY <1>1 DEF Inv, Place, Loop1, Loop2, Loop3, Loop4, End, Out, Here, Value1,
       Value2, While1, While2, While3, While4, Step1, Step2, Step5, Step6, First3,
       First4, Again3, Again4
<1>3. /\ for' = for /\ store' = store /\ PC' = PC /\ LINK' = <<0, 3>> /\ RESULT' = RESULT
      /\ ot' = PC /\ LastElement' = LastElement /\ operands' = operands /\ Depth' = 1
  BY <1>2 DEF FOR1, Loop2, Depth, LastElement
<1>4. CASE \E i \in 1 .. LastElement + 1 : PC = <<i, 1>>
  BY <1>2, <1>3, <1>4, Entered DEF Inv
<1>5. CASE \E i \in 1 .. LastElement : PC = <<i, 3>> /\ for.list[i].kind = "step" /\ RESULT # Null
  <2>1. PICK i \in 1 .. LastElement : PC = <<i, 3>> /\ for.list[i].kind = "step" /\ RESULT # Null
    BY <1>5
  <2>2. Again3(i)'
    BY <1>3, <2>1 DEF Again3, Here
  <2> QED BY <1>2, <1>3, <2>2 DEF Inv, Place
<1> QED BY <1>2, <1>4, <1>5 DEF Loop2, Return

LEMMA JumpStep ==
  ASSUME Inv, Jump
  PROVE  Inv' /\ Loop3 /\ Loop4'
<1>1. LastElement \in Nat \ {0} /\ ot = <<0, 3>>
  BY List DEF Inv, Jump
<1>2. Loop3
  BY <1>1 DEF Inv, Place, Loop1, Loop2, Loop3, Loop4, End, Out, Here, Value1,
       Value2, While1, While2, While3, While4, Step1, Step2, Step5, Step6, First3,
       First4, Again3, Again4
<1>3. Loop4'
  BY <1>2 DEF Jump, words, Loop3, Loop4, Return, LastElement, Depth
<1> QED BY <1>2, <1>3 DEF Jump, Inv, Place

LEMMA ControlledStep ==
  ASSUME Inv, Controlled
  PROVE  Inv' /\ Loop4 /\ Loop1'
<1>1. LastElement \in Nat \ {0} /\ ot = <<0, 4>>
  BY List DEF Inv, Controlled
<1>2. Loop4
  BY <1>1 DEF Inv, Place, Loop1, Loop2, Loop3, Loop4, End, Out, Here, Value1,
       Value2, While1, While2, While3, While4, Step1, Step2, Step5, Step6, First3,
       First4, Again3, Again4
<1>3. Loop1'
  BY <1>2 DEF Controlled, words, Loop1, Loop4, Return, LastElement, Depth, L0
<1> QED BY <1>2, <1>3 DEF Controlled, Inv, Place

LEMMA FOR2Step ==
  ASSUME Inv, FOR2
  PROVE  /\ Inv' /\ Loop3'
         /\ \E i : /\ Value2(i) /\ PC' = <<i + 1, 1>>
                  /\ store' = [store EXCEPT ![operands[1].v] = operands[2].v]
<1>1. PICK i : Value2(i)
  BY Located DEF FOR2
<1>2. Here(i, "value", 2, 2) /\ Depth = 2 /\ i \in 1 .. LastElement /\ LINK = <<0, 3>>
  BY <1>1 DEF Value2, Here
<1>3. Following = <<i + 1, 1>>
  BY <1>2, Follows, Lengths
<1>4. /\ for' = for /\ PC' = <<i + 1, 1>> /\ ot' = <<0, 3>> /\ LastElement' = LastElement
      /\ operands' = SubSeq(operands, 1, Len(operands) - 2)
      /\ store' = [store EXCEPT ![operands[1].v] = operands[2].v]
  BY <1>2, <1>3 DEF FOR2, Drop, LastElement, Assign, TopVal, Below, Depth
<1>5. IsSeq(operands') /\ Depth' = 0
  BY <1>2, <1>4, Dropped DEF Inv, Depth
<1>6. Loop3'
  <2>1. LastElement \in Nat
    BY List DEF Inv
  <2>2. i + 1 \in 1 .. LastElement + 1
    BY <1>2, <2>1
  <2> QED BY <1>4, <1>5, <2>2 DEF Loop3, Return
<1> QED BY <1>1, <1>4, <1>5, <1>6 DEF Inv, Place

LEMMA FOR3Step ==
  ASSUME Inv, FOR3
  PROVE  /\ Inv' /\ operands'[1] = operands[1]
         /\ \E i : /\ While2(i) /\ While3(i)'
                  /\ store' = [store EXCEPT ![operands[1].v] = operands[2].v]
<1>1. PICK i : While2(i)
  BY Located DEF FOR3
<1>2. Here(i, "while", 2, 2) /\ Depth = 2 /\ i \in 1 .. LastElement /\ LINK = <<0, 3>>
  BY <1>1 DEF While2, Here
<1>3. Following = <<i, 3>>
  BY <1>2, Follows, Lengths
<1>4. /\ for' = for /\ PC' = PC /\ LINK' = LINK /\ ot' = <<i, 3>> /\ LastElement' = LastElement
      /\ operands' = SubSeq(operands, 1, Len(operands) - 1)
      /\ store' = [store EXCEPT ![operands[1].v] = operands[2].v]
  BY <1>2, <1>3 DEF FOR3, Drop, LastElement, Assign, TopVal, Below, Depth, words
<1>5. IsSeq(operands') /\ Depth' = 1 /\ operands'[1] = operands[1]
  BY <1>2, <1>4, Dropped DEF Inv, Depth
<1>6. While3(i)'
  BY <1>1, <1>2, <1>4, <1>5 DEF While2, While3, Here
<1> QED BY <1>1, <1>4, <1>5, <1>6 DEF Inv, Place

LEMMA FOR4Step ==
  ASSUME Inv, FOR4
  PROVE  /\ Inv'
         /\ \E i : /\ While4(i)
                  /\ \/ Holds(for.list[i].f, store) /\ Loop3' /\ PC' = PC
                     \/ /\ ~Holds(for.list[i].f, store) /\ Entering'
                        /\ PC' = <<i + 1, 1>> /\ operands'[1] = operands[1]
<1>1. PICK i : While4(i)
  BY Located DEF FOR4
<1>2. Here(i, "while", 4, 2) /\ Depth = 2 /\ i \in 1 .. LastElement /\ LINK = <<0, 3>>
  BY <1>1 DEF While4, Here
<1>3. Following = <<i + 1, 1>> /\ LastElement \in Nat \ {0}
  BY <1>2, Follows, Lengths, List DEF Inv
<1>4. for' = for /\ store' = store /\ LINK' = LINK /\ LastElement' = LastElement
  BY DEF FOR4, LastElement
<1>5. TopVal = Holds(for.list[i].f, store)
  BY <1>1, <1>2 DEF While4, TopVal
<1>6. CASE TopVal
  <2>1. /\ operands' = SubSeq(operands, 1, Len(operands) - 2)
        /\ ot' = <<0, 3>> /\ PC' = PC
    BY <1>2, <1>6 DEF FOR4, Drop, Depth
  <2>2. IsSeq(operands') /\ Depth' = 0
    BY <1>2, <2>1, Dropped DEF Inv, Depth
  <2>3. i \in 1 .. LastElement + 1
    BY <1>2, <1>3
  <2>4. Loop3'
    BY <1>1, <1>4, <2>1, <2>2, <2>3 DEF While4, Loop3, Return
  <2> QED BY <1>1, <1>4, <1>5, <1>6, <2>1, <2>2, <2>4 DEF Inv, Place
<1>7. CASE ~TopVal
  <2>1. /\ operands' = SubSeq(operands, 1, Len(operands) - 1)
        /\ ot' = <<i + 1, 1>> /\ PC' = <<i + 1, 1>>
    BY <1>3, <1>7 DEF FOR4, Drop, Depth
  <2>2. IsSeq(operands') /\ Depth' = 1 /\ operands'[1] = operands[1]
    BY <1>2, <2>1, Dropped, SMTT(30) DEF Inv, Depth
  <2>3. i + 1 \in 1 .. LastElement + 1
    BY <1>2, <1>3
  <2>4. Entering' /\ Place'
    BY <1>2, <1>4, <2>1, <2>2, <2>3, Entered DEF Inv
  <2> QED BY <1>1, <1>4, <1>5, <1>7, <2>1, <2>2, <2>4 DEF Inv
<1> QED BY <1>6, <1>7

LEMMA FOR5Step ==
  ASSUME Inv, FOR5
  PROVE  Inv' /\ operands' = operands /\ \E i : Step2(i) /\ First3(i)'
<1>1. PICK i : Step2(i)
  BY Located DEF FOR5
<1>2. Here(i, "step", 2, 2) /\ Depth = 2 /\ i \in 1 .. LastElement /\ LINK = <<0, 3>>
  BY <1>1 DEF Step2, Here
<1>3. Following = <<i, 3>>
  BY <1>2, Follows
<1>4. /\ for' = for /\ store' = store /\ PC' = <<i, 3>> /\ ot' = <<i, 3>>
      /\ LINK' = LINK /\ RESULT' = Null /\ operands' = operands /\ LastElement' = LastElement
  BY <1>3 DEF FOR5, LastElement
<1>5. First3(i)'
  BY <1>1, <1>2, <1>4 DEF Step2, First3, Here, HasA, Depth
<1> QED BY <1>1, <1>4, <1>5 DEF Inv, Place

(* The value to come is kept above the address, and its direction; or the  *)
(* run ends, and nothing else has changed.                                 *)
LEMMA FOR6Step ==
  ASSUME Inv, FOR6
  PROVE  /\ Inv'
         /\ \E i :
              \/ /\ First4(i) \/ Again4(i)
                 /\ UNCHANGED <<for, store, ot, operands, words>>
              \/ /\ \/ First4(i) /\ operands'[2] = operands[2]
                    \/ /\ Again4(i)
                       /\ operands'[2].v = store[operands[1].v] + Value(for.list[i].b, store)
                 /\ Step5(i)' /\ operands'[1] = operands[1]
                 /\ RESULT'.v = Sign(Value(for.list[i].b, store))
<1>1. PICK i : First4(i) \/ Again4(i)
  BY Located DEF FOR6
<1>2. /\ for' = for /\ store' = store /\ PC' = PC /\ LINK' = LINK /\ LastElement' = LastElement
  BY DEF FOR6, LastElement
<1>3. CASE First4(i)
  <2>1. Here(i, "step", 4, 3) /\ Depth = 3 /\ i \in 1 .. LastElement /\ RESULT = Null
    BY <1>3 DEF First4, Here
  <2>2. Following = <<i, 5>>
    BY <2>1, Follows
  <2>3. /\ operands' = SubSeq(operands, 1, Len(operands) - 1)
        /\ RESULT' = Val(Sign(operands[3].v)) /\ ot' = <<i, 5>>
    BY <2>1, <2>2 DEF FOR6, Drop, TopVal, Depth
  <2>4. /\ IsSeq(operands') /\ Depth' = 2
        /\ operands'[1] = operands[1] /\ operands'[2] = operands[2]
    <3>1. /\ IsSeq(operands') /\ Len(operands') = 2
          /\ \A j \in 1 .. 2 : operands'[j] = operands[j]
      <4>1. Len(operands) = 3 /\ 1 \in 0 .. Len(operands)
        BY <2>1 DEF Depth
      <4>2. /\ IsSeq(operands') /\ Len(operands') = Len(operands) - 1
            /\ \A j \in 1 .. Len(operands) - 1 : operands'[j] = operands[j]
        BY <2>3, <4>1, Dropped DEF Inv
      <4> QED BY <4>1, <4>2
    <3> QED BY <3>1 DEF Depth
  <2>5. RESULT' # Null /\ RESULT'.v = Sign(Value(for.list[i].b, store))
    BY <1>3, <2>3 DEF First4, Val, Null
  <2>6. Step5(i)'
    BY <1>2, <1>3, <2>3, <2>4, <2>5 DEF First4, Step5, Here
  <2> QED BY <1>2, <1>3, <2>4, <2>5, <2>6 DEF Inv, Place
<1>4. CASE Again4(i)
  <2>1. Here(i, "step", 4, 2) /\ Depth = 2 /\ i \in 1 .. LastElement /\ RESULT # Null
    BY <1>4 DEF Again4, Here
  <2>2. Following = <<i, 5>>
    BY <2>1, Follows
  <2>3. /\ TopVal = Value(for.list[i].b, store) /\ Below(1) = operands[1].v
    BY <1>4, <2>1 DEF Again4, TopVal, Below
  <2> DEFINE value == store[operands[1].v] + Value(for.list[i].b, store)
  <2>4. CASE value \in -MaxInt .. MaxInt
    <3> DEFINE rest == SubSeq(operands, 1, Len(operands) - 1)
    <3>1. /\ operands' = Append(rest, Val(value))
          /\ RESULT' = Val(Sign(Value(for.list[i].b, store))) /\ ot' = <<i, 5>>
      BY <2>1, <2>2, <2>3, <2>4 DEF FOR6, Drop, Depth
    <3>2. IsSeq(rest) /\ Len(rest) = 1 /\ rest[1] = operands[1]
      BY <2>1, Dropped, SMTT(30) DEF Inv, Depth
    <3> HIDE DEF rest, value
    <3>3. /\ IsSeq(operands') /\ Len(operands') = 2
          /\ operands'[1] = rest[1] /\ operands'[2] = Val(value)
      BY <3>1, <3>2, PushedOnOne
    <3>4. Depth' = 2 /\ operands'[1] = operands[1] /\ operands'[2].v = value
      BY <3>2, <3>3 DEF Depth, Val
    <3>5. RESULT' # Null /\ RESULT'.v = Sign(Value(for.list[i].b, store))
      BY <3>1 DEF Val, Null
    <3>6. Step5(i)'
      BY <1>2, <1>4, <3>1, <3>4, <3>5 DEF Again4, Step5, Here
    <3> QED BY <1>2, <1>4, <3>3, <3>4, <3>5, <3>6 DEF Inv, Place, value
  <2>5. CASE ~(value \in -MaxInt .. MaxInt)
    <3>1. UNCHANGED <<for, store, ot, operands, words>>
      BY <1>2, <2>1, <2>3, <2>5 DEF FOR6, words
    <3>2. Again4(i)'
      BY <1>4, <3>1, <1>2 DEF Again4, Here, Depth, words
    <3> QED BY <1>4, <3>1, <3>2 DEF Inv, Place
  <2> QED BY <2>4, <2>5
<1> QED BY <1>1, <1>3, <1>4

LEMMA FOR7Step ==
  ASSUME Inv, FOR7
  PROVE  /\ Inv' /\ RESULT' = RESULT
         /\ \E i : LET value == operands[2].v
                       over  == Exhausted(RESULT.v, value, Value(for.list[i].c, store))
                   IN /\ Step6(i) /\ store' = [store EXCEPT ![operands[1].v] = value]
                      /\ \/ ~over /\ Loop3' /\ PC' = PC
                         \/ /\ over /\ Entering'
                            /\ PC' = <<i + 1, 1>> /\ operands'[1] = operands[1]
<1>1. PICK i : Step6(i)
  BY Located DEF FOR7
<1>2. Here(i, "step", 6, 3) /\ Depth = 3 /\ i \in 1 .. LastElement /\ LINK = <<0, 3>>
  BY <1>1 DEF Step6, Here
<1>3. Following = <<i + 1, 1>> /\ LastElement \in Nat \ {0}
  BY <1>2, Follows, List DEF Inv
<1>4. for' = for /\ LINK' = LINK /\ LastElement' = LastElement /\ RESULT' = RESULT
  BY DEF FOR7, LastElement
<1> DEFINE over == Exhausted(RESULT.v, operands[2].v, Value(for.list[i].c, store))
<1>5. /\ TopVal = Value(for.list[i].c, store) /\ Below(1) = operands[2].v
      /\ Below(2) = operands[1].v
  BY <1>1, <1>2 DEF Step6, TopVal, Below
<1>6. /\ store' = [store EXCEPT ![operands[1].v] = operands[2].v]
      /\ IF over THEN operands' = Drop(2) /\ ot' = Following /\ PC' = Following
                 ELSE operands' = Drop(3) /\ ot' = LINK /\ PC' = PC
  BY <1>5 DEF FOR7, Assign
<1> HIDE DEF over
<1>7. CASE ~over
  <2>1. operands' = SubSeq(operands, 1, Len(operands) - 3) /\ ot' = <<0, 3>> /\ PC' = PC
    BY <1>2, <1>6, <1>7 DEF Drop, Depth
  <2>2. IsSeq(operands') /\ Depth' = 0
    BY <1>2, <2>1, Dropped DEF Inv, Depth
  <2>3. Loop3'
    BY <1>1, <1>2, <1>4, <2>1, <2>2 DEF Step6, Here, Loop3, Return
  <2> QED BY <1>1, <1>4, <1>6, <1>7, <2>1, <2>2, <2>3 DEF Inv, Place, over
<1>8. CASE over
  <2>1. /\ operands' = SubSeq(operands, 1, Len(operands) - 2)
        /\ ot' = <<i + 1, 1>> /\ PC' = <<i + 1, 1>>
    BY <1>3, <1>6, <1>8 DEF Drop, Depth
  <2>2. IsSeq(operands') /\ Depth' = 1 /\ operands'[1] = operands[1]
    BY <1>2, <2>1, Dropped, SMTT(30) DEF Inv, Depth
  <2>3. i + 1 \in 1 .. LastElement + 1
    BY <1>2, <1>3
  <2>4. Entering' /\ Place'
    BY <1>2, <1>4, <2>1, <2>2, <2>3, Entered DEF Inv
  <2> QED BY <1>1, <1>4, <1>6, <1>8, <2>1, <2>2, <2>4 DEF Inv, over
<1> QED BY <1>7, <1>8

LEMMA FOR8Step ==
  ASSUME Inv, FOR8
  PROVE  Inv' /\ End /\ Out' /\ PC' = PC
<1>1. LastElement \in Nat \ {0} /\ ot = <<LastElement + 1, 1>>
  BY List DEF Inv, FOR8
<1>2. End
  BY <1>1 DEF Inv, Place, Loop1, Loop2, Loop3, Loop4, End, Out, Here, Value1,
       Value2, While1, While2, While3, While4, Step1, Step2, Step5, Step6, First3,
       First4, Again3, Again4
<1>3. operands' = SubSeq(operands, 1, Len(operands) - 1) /\ Len(operands) = 1
  BY <1>2 DEF FOR8, Drop, Depth, End
<1>4. IsSeq(operands') /\ Depth' = 0
  BY <1>3, Dropped DEF Inv, Depth
<1>5. Out' /\ for' = for /\ PC' = PC
  BY <1>4 DEF FOR8, Out, After
<1> QED BY <1>2, <1>4, <1>5 DEF Inv, Place

-----------------------------------------------------------------------------
THEOREM ControlStep == Inv /\ [Next]_vars => Inv'
<1> SUFFICES ASSUME Inv, [Next]_vars PROVE Inv'
  OBVIOUS
<1>1. CASE TakeAddress BY <1>1, TakeAddressStep
<1>2. CASE Evaluate BY <1>2, EvaluateStep
<1>3. CASE EvaluateCondition BY <1>3, EvaluateConditionStep
<1>4. CASE Jump BY <1>4, JumpStep
<1>5. CASE Controlled BY <1>5, ControlledStep
<1>6. CASE FOR1 BY <1>6, FOR1Step
<1>7. CASE FOR2 BY <1>7, FOR2Step
<1>8. CASE FOR3 BY <1>8, FOR3Step
<1>9. CASE FOR4 BY <1>9, FOR4Step
<1>10. CASE FOR5 BY <1>10, FOR5Step
<1>11. CASE FOR6 BY <1>11, FOR6Step
<1>12. CASE FOR7 BY <1>12, FOR7Step
<1>13. CASE FOR8 BY <1>13, FOR8Step
<1>14. CASE UNCHANGED vars
  BY <1>14, ZenonT(30) DEF vars, words, Inv, Place, Loop1, Loop2, Loop3, Loop4, End, Out, Here,
       Value1, Value2, While1, While2, While3, While4, Step1, Step2, Step5, Step6,
       First3, First4, Again3, Again4, Return, HasA, Depth, LastElement
<1> QED BY <1>1, <1>2, <1>3, <1>4, <1>5, <1>6, <1>7, <1>8, <1>9, <1>10, <1>11, <1>12,
           <1>13, <1>14 DEF Next, Step, Stopped

(* The links of the frame and its operands fit the place in the program,   *)
(* whatever the for list is: FOR1 to FOR8 find what they take.             *)
THEOREM Control == Spec => []ControlWords
<1>1. Spec => []Inv
  BY Initial, ControlStep, PTL DEF Spec
<1> QED BY <1>1, Words, PTL

-----------------------------------------------------------------------------
(***************************************************************************)
(* The refinement mapping, place by place.                                 *)
(***************************************************************************)
Maps(at, addr, pending) == AtOf = at /\ AddrOf = addr /\ PendingOf = pending

Awaited == [v |-> operands[2].v, dir |-> RESULT.v]

MapFacts ==
  Inv =>
    /\ Loop1 => Maps("control", Address(for, store), NoValue)
    /\ Loop2 => Maps("control", Address(for, store), NoValue)
    /\ Loop3 \/ Loop4 => Maps("statement", NoAddress, NoValue)
    /\ Entering => Maps("control", operands[1].v, NoValue)
    /\ \A i : Value2(i) \/ While2(i) \/ Step2(i) => Maps("control", operands[1].v, NoValue)
    /\ \A i : While3(i) \/ While4(i) => Maps("test", operands[1].v, NoValue)
    /\ \A i : First3(i) \/ First4(i) \/ Again3(i) \/ Again4(i) =>
             Maps("control", operands[1].v, NoValue)
    /\ \A i : Step5(i) \/ Step6(i) => Maps("test", operands[1].v, Awaited)
    /\ Out => Maps("done", NoAddress, NoValue)

LEMMA Mapped == MapFacts
<1> SUFFICES ASSUME Inv PROVE MapFacts!2
  BY Zenon DEF MapFacts
<1>1. LastElement \in Nat \ {0} /\ OrderFacts!2
  BY List, OrderPlaces DEF Inv, OrderFacts
<1>2. ASSUME \A o : ~InElement(o)
      PROVE  ~Testing /\ PendingOf = NoValue
  BY <1>2 DEF Testing, PendingOf
<1>3. ASSUME NEW name, OrderIs(name)
      PROVE  /\ Testing <=> name \in {"f", "FOR4", "c", "FOR7"}
             /\ PendingOf = IF name \in {"c", "FOR7"} THEN Awaited ELSE NoValue
  BY <1>3 DEF OrderIs, Testing, PendingOf, Awaited
<1>4. Loop1 => Maps("control", Address(for, store), NoValue)
  BY <1>1, <1>2 DEF Loop1, Maps, AtOf, AddrOf, After, L0
<1>5. Loop2 => Maps("control", Address(for, store), NoValue)
  BY <1>1, <1>2 DEF Loop2, Maps, AtOf, AddrOf, After, L0
<1>6. Loop3 \/ Loop4 => Maps("statement", NoAddress, NoValue)
  BY <1>1, <1>2 DEF Loop3, Loop4, Maps, AtOf, AddrOf, After, L0
<1>7. Out => Maps("done", NoAddress, NoValue)
  BY <1>1, <1>2 DEF Out, Maps, AtOf, AddrOf, After, L0
<1>8. End => Maps("control", operands[1].v, NoValue)
  BY <1>1, <1>2 DEF End, Maps, AtOf, AddrOf, After, L0
<1>9. ASSUME NEW i, NEW kind, NEW n, NEW d \in Nat \ {0}, Here(i, kind, n, d),
             NEW name, OrderIs(name)
      PROVE  Maps(IF name \in {"f", "FOR4", "c", "FOR7"} THEN "test" ELSE "control",
                  operands[1].v, IF name \in {"c", "FOR7"} THEN Awaited ELSE NoValue)
  <2>1. ot[1] = i /\ i # 0 /\ ot # After /\ ot # L0 /\ Depth > 0
    BY <1>1, <1>9 DEF Here, After, L0
  <2> QED BY <1>3, <1>9, <2>1 DEF Maps, AtOf, AddrOf
<1>10. \A i : Value1(i) \/ While1(i) \/ Step1(i) => Maps("control", operands[1].v, NoValue)
  BY <1>1, <1>9 DEF Value1, While1, Step1
<1>11. \A i : Value2(i) \/ While2(i) \/ Step2(i) => Maps("control", operands[1].v, NoValue)
  BY <1>1, <1>9 DEF Value2, While2, Step2
<1>12. \A i : While3(i) \/ While4(i) => Maps("test", operands[1].v, NoValue)
  BY <1>1, <1>9 DEF While3, While4
<1>13. \A i : First3(i) \/ First4(i) => Maps("control", operands[1].v, NoValue)
  BY <1>1, <1>9 DEF First3, First4
<1>14. \A i : Again3(i) \/ Again4(i) => Maps("control", operands[1].v, NoValue)
  BY <1>1, <1>9 DEF Again3, Again4
<1>15. \A i : Step5(i) \/ Step6(i) => Maps("test", operands[1].v, Awaited)
  BY <1>1, <1>9 DEF Step5, Step6
<1> QED BY <1>4, <1>5, <1>6, <1>7, <1>8, <1>10, <1>11, <1>12, <1>13, <1>14, <1>15
        DEF Entering

LEMMA InitialMaps == Init => Abs!Init
<1> SUFFICES ASSUME Init PROVE Abs!Init
  OBVIOUS
<1>1. Inv /\ Loop1
  <2>1. operands = << >> /\ Depth = 0 /\ ot = <<0, 1>> /\ PC = <<1, 1>>
    BY DEF Init, Depth, L0
  <2>2. LastElement \in Nat \ {0}
    BY List DEF Init
  <2> QED BY <2>1, <2>2, Initial DEF Loop1, Return
<1>2. Maps("control", Address(for, store), NoValue)
  BY <1>1, Mapped DEF MapFacts
<1>3. FirstOf = TRUE /\ PC[1] = 1
  BY DEF Init, FirstOf
<1> QED BY <1>2, <1>3 DEF Abs!Init, Abs!NoValue, Maps, NoValue, Init

(* Each operation is a step of the for list or leaves it where it is. *)
LEMMA StepMaps == Inv /\ [Next]_vars => [Abs!Next]_(Abs!vars)
<1> SUFFICES ASSUME Inv, [Next]_vars PROVE [Abs!Next]_(Abs!vars)
  OBVIOUS
<1>a. Inv' /\ MapFacts!2 /\ MapFacts!2'
  <2>1. MapFacts'
    BY Mapped, PTL
  <2>2. Inv'
    BY ControlStep
  <2> QED BY <2>1, <2>2, Mapped DEF MapFacts
<1>b. ASSUME AtOf' = AtOf, AddrOf' = AddrOf, PendingOf' = PendingOf, FirstOf' = FirstOf,
             for' = for, store' = store, PC' = PC
      PROVE  UNCHANGED Abs!vars
  BY <1>b DEF Abs!vars
<1>1. CASE TakeAddress
  <2>1. Loop1 /\ Loop2'
    BY <1>1, TakeAddressStep
  <2>2. for' = for /\ store' = store /\ PC' = PC /\ RESULT' = RESULT
    BY <1>1 DEF TakeAddress, words
  <2>3. AtOf' = AtOf /\ AddrOf' = AddrOf /\ PendingOf' = PendingOf /\ FirstOf' = FirstOf
    BY <1>a, <2>1, <2>2 DEF Maps, FirstOf, NoValue
  <2> QED BY <1>b, <2>2, <2>3
<1>2. CASE Evaluate
  <2>1. /\ for' = for /\ store' = store /\ PC' = PC /\ RESULT' = RESULT
        /\ operands'[1] = operands[1]
    BY <1>2, EvaluateStep DEF Evaluate, words
  <2>2. PICK i : \/ /\ Value1(i) \/ While1(i) \/ Step1(i)
                    /\ (Value2(i) \/ While2(i) \/ Step2(i))'
                 \/ First3(i) /\ First4(i)'
                 \/ Again3(i) /\ Again4(i)'
                 \/ Step5(i) /\ Step6(i)' /\ operands'[2] = operands[2]
    BY <1>2, EvaluateStep
  <2>3. FirstOf' = FirstOf
    BY <2>1 DEF FirstOf
  <2>4. CASE \/ /\ Value1(i) \/ While1(i) \/ Step1(i)
                /\ (Value2(i) \/ While2(i) \/ Step2(i))'
             \/ First3(i) /\ First4(i)'
             \/ Again3(i) /\ Again4(i)'
    <3>1. Maps("control", operands[1].v, NoValue) /\ Maps("control", operands[1].v, NoValue)'
      BY <1>a, <2>4 DEF Entering
    <3>2. AtOf' = AtOf /\ AddrOf' = AddrOf /\ PendingOf' = PendingOf
      BY <2>1, <3>1 DEF Maps, NoValue
    <3> QED BY <1>b, <2>1, <2>3, <3>2
  <2>5. CASE Step5(i) /\ Step6(i)' /\ operands'[2] = operands[2]
    <3>1. Maps("test", operands[1].v, Awaited) /\ Maps("test", operands[1].v, Awaited)'
      BY <1>a, <2>5
    <3>2. AtOf' = AtOf /\ AddrOf' = AddrOf /\ PendingOf' = PendingOf
      BY <2>1, <2>5, <3>1 DEF Maps, Awaited
    <3> QED BY <1>b, <2>1, <2>3, <3>2
  <2> QED BY <2>2, <2>4, <2>5
<1>3. CASE EvaluateCondition
  <2>1. /\ for' = for /\ store' = store /\ PC' = PC /\ RESULT' = RESULT
        /\ operands'[1] = operands[1]
    BY <1>3, EvaluateConditionStep DEF EvaluateCondition, words
  <2>2. PICK i : While3(i) /\ While4(i)'
    BY <1>3, EvaluateConditionStep
  <2>3. AtOf' = AtOf /\ AddrOf' = AddrOf /\ PendingOf' = PendingOf /\ FirstOf' = FirstOf
    BY <1>a, <2>1, <2>2 DEF Maps, FirstOf, NoValue
  <2> QED BY <1>b, <2>1, <2>3
<1>4. CASE Jump
  <2>1. Loop3 /\ Loop4'
    BY <1>4, JumpStep
  <2>2. for' = for /\ store' = store /\ PC' = PC /\ RESULT' = RESULT
    BY <1>4 DEF Jump, words
  <2>3. AtOf' = AtOf /\ AddrOf' = AddrOf /\ PendingOf' = PendingOf /\ FirstOf' = FirstOf
    BY <1>a, <2>1, <2>2 DEF Maps, FirstOf, NoAddress, NoValue
  <2> QED BY <1>b, <2>2, <2>3
<1>5. CASE Controlled
  <2>1. Loop4 /\ Loop1'
    BY <1>5, ControlledStep
  <2>2. /\ for' = for /\ PC' = PC /\ RESULT' = RESULT /\ store' \in Statement(for, store)
    BY <1>5 DEF Controlled, words
  <2>3. /\ AtOf = "statement" /\ PendingOf' = PendingOf /\ FirstOf' = FirstOf
        /\ AtOf' = "control" /\ AddrOf' = Address(for', store')
    BY <1>a, <2>1, <2>2 DEF Maps, FirstOf, NoAddress, NoValue
  <2>4. Abs!Controlled
    BY <2>2, <2>3 DEF Abs!Controlled
  <2> QED BY <2>4 DEF Abs!Next
<1>6. CASE FOR1
  <2>1. Loop2 /\ (Entering' \/ \E i : Again3(i)')
    BY <1>6, FOR1Step
  <2>2. for' = for /\ store' = store /\ PC' = PC /\ RESULT' = RESULT /\ operands' = operands
    BY <1>6 DEF FOR1
  <2>3. Maps("control", Address(for, store), NoValue) /\ operands[1].v = Address(for, store)
    BY <1>a, <2>1 DEF Loop2
  <2>4. Maps("control", operands[1].v, NoValue)'
    BY <1>a, <2>1
  <2>5. AtOf' = AtOf /\ AddrOf' = AddrOf /\ PendingOf' = PendingOf /\ FirstOf' = FirstOf
    BY <2>2, <2>3, <2>4 DEF Maps, FirstOf, NoValue
  <2> QED BY <1>b, <2>2, <2>5
<1>7. CASE FOR2
  <2>1. PICK i : /\ Value2(i) /\ PC' = <<i + 1, 1>>
                 /\ store' = [store EXCEPT ![operands[1].v] = operands[2].v]
    BY <1>7, FOR2Step
  <2>2. Loop3' /\ for' = for
    BY <1>7, FOR2Step DEF FOR2
  <2>3. /\ AtOf = "control" /\ AddrOf = operands[1].v /\ PendingOf = NoValue
        /\ AtOf' = "statement" /\ AddrOf' = NoAddress /\ PendingOf' = NoValue
    BY <1>a, <2>1, <2>2 DEF Maps, NoAddress, NoValue
  <2>4. /\ PC[1] = i /\ FirstOf' = TRUE /\ i <= Len(for.list) /\ for.list[i].kind = "value"
        /\ operands[2].v = Value(for.list[i].a, store)
    BY <2>1 DEF Value2, Here, HasA, FirstOf, LastElement
  <2>5. Abs!ValueElement
    BY <2>1, <2>2, <2>3, <2>4
       DEF Abs!ValueElement, Abs!At, Abs!Element, Abs!Execute, Abs!NextElement, Abs!NoAddress, NoAddress
  <2> QED BY <2>5 DEF Abs!Next
<1>8. CASE FOR3
  <2>1. PICK i : /\ While2(i) /\ While3(i)'
                 /\ store' = [store EXCEPT ![operands[1].v] = operands[2].v]
    BY <1>8, FOR3Step
  <2>2. for' = for /\ PC' = PC /\ RESULT' = RESULT /\ operands'[1] = operands[1]
    BY <1>8, FOR3Step DEF FOR3, words
  <2>3. /\ AtOf = "control" /\ AddrOf = operands[1].v /\ PendingOf = NoValue
        /\ AtOf' = "test" /\ AddrOf' = AddrOf /\ PendingOf' = PendingOf /\ FirstOf' = FirstOf
    BY <1>a, <2>1, <2>2 DEF Maps, NoValue, FirstOf
  <2>4. /\ PC[1] = i /\ i <= Len(for.list) /\ for.list[i].kind = "while"
        /\ operands[2].v = Value(for.list[i].a, store)
    BY <2>1 DEF While2, Here, HasA, LastElement
  <2>5. Abs!WhileAssign
    BY <2>1, <2>2, <2>3, <2>4 DEF Abs!WhileAssign, Abs!At, Abs!Element
  <2> QED BY <2>5 DEF Abs!Next
<1>9. CASE FOR4
  <2>1. PICK i : /\ While4(i)
                 /\ \/ Holds(for.list[i].f, store) /\ Loop3' /\ PC' = PC
                    \/ /\ ~Holds(for.list[i].f, store) /\ Entering'
                       /\ PC' = <<i + 1, 1>> /\ operands'[1] = operands[1]
    BY <1>9, FOR4Step
  <2>2. for' = for /\ store' = store /\ RESULT' = RESULT
    BY <1>9 DEF FOR4
  <2>3. AtOf = "test" /\ AddrOf = operands[1].v /\ PendingOf = NoValue
    BY <1>a, <2>1 DEF Maps
  <2>4. PC = <<i, 1>> /\ i <= Len(for.list) /\ for.list[i].kind = "while"
    BY <2>1 DEF While4, Here, LastElement
  <2>5. CASE Holds(for.list[i].f, store) /\ Loop3' /\ PC' = PC
    <3>1. /\ AtOf' = "statement" /\ AddrOf' = NoAddress /\ PendingOf' = PendingOf
          /\ FirstOf' = FirstOf
      BY <1>a, <2>2, <2>3, <2>5 DEF Maps, NoAddress, NoValue, FirstOf
    <3>2. Abs!WhileTest
      BY <2>2, <2>3, <2>4, <2>5, <3>1
         DEF Abs!WhileTest, Abs!At, Abs!Element, Abs!Execute, Abs!NoAddress, NoAddress
    <3> QED BY <3>2 DEF Abs!Next
  <2>6. CASE /\ ~Holds(for.list[i].f, store) /\ Entering'
             /\ PC' = <<i + 1, 1>> /\ operands'[1] = operands[1]
    <3>1. /\ AtOf' = "control" /\ AddrOf' = AddrOf /\ PendingOf' = PendingOf
          /\ FirstOf' = TRUE
      BY <1>a, <2>3, <2>6 DEF Maps, NoValue, FirstOf
    <3>2. Abs!WhileTest
      BY <2>2, <2>3, <2>4, <2>6, <3>1
         DEF Abs!WhileTest, Abs!At, Abs!Element, Abs!NextElement
    <3> QED BY <3>2 DEF Abs!Next
  <2> QED BY <2>1, <2>5, <2>6
<1>10. CASE FOR5
  <2>1. PICK i : Step2(i) /\ First3(i)'
    BY <1>10, FOR5Step
  <2>2. for' = for /\ store' = store /\ operands' = operands
    BY <1>10 DEF FOR5
  <2>3. AtOf' = AtOf /\ AddrOf' = AddrOf /\ PendingOf' = PendingOf
    BY <1>a, <2>1, <2>2 DEF Maps, NoValue
  <2>4. PC[1] = i /\ PC'[1] = i /\ FirstOf' = TRUE /\ FirstOf = TRUE
    BY <2>1 DEF Step2, First3, FirstOf
  <2> QED BY <2>2, <2>3, <2>4 DEF Abs!vars
<1>11. CASE FOR6
  <2> DEFINE B(i) == Value(for.list[i].b, store)
  <2>1. PICK i :
          \/ /\ First4(i) \/ Again4(i)
             /\ UNCHANGED <<for, store, ot, operands, words>>
          \/ /\ \/ First4(i) /\ operands'[2] = operands[2]
                \/ Again4(i) /\ operands'[2].v = store[operands[1].v] + B(i)
             /\ Step5(i)' /\ operands'[1] = operands[1] /\ RESULT'.v = Sign(B(i))
    BY <1>11, FOR6Step
  <2>2. CASE UNCHANGED <<for, store, ot, operands, words>>
    BY <2>2 DEF words, Abs!vars, FirstOf, AtOf, AddrOf, PendingOf, Testing, InElement,
                Element, LastElement, Depth
  <2>3. CASE /\ \/ First4(i) /\ operands'[2] = operands[2]
                \/ Again4(i) /\ operands'[2].v = store[operands[1].v] + B(i)
             /\ Step5(i)' /\ operands'[1] = operands[1] /\ RESULT'.v = Sign(B(i))
    <3>1. for' = for /\ store' = store /\ PC' = PC
      BY <1>11 DEF FOR6
    <3>2. AtOf = "control" /\ AddrOf = operands[1].v /\ PendingOf = NoValue
      BY <1>a, <2>3 DEF Maps
    <3>3. /\ AtOf' = "test" /\ AddrOf' = AddrOf
          /\ PendingOf' = [v |-> operands'[2].v, dir |-> Sign(B(i))]
      BY <1>a, <2>3, <3>2 DEF Maps, Awaited
    <3>4. PC = <<i, 3>> /\ i <= Len(for.list) /\ for.list[i].kind = "step"
      BY <2>3 DEF First4, Again4, Here, LastElement
    <3>5. FirstOf' = FALSE
      BY <2>3, <3>1, <3>4 DEF FirstOf, Step5
    <3>6. operands'[2].v = IF FirstOf THEN Value(for.list[i].a, store)
                                      ELSE store[AddrOf] + B(i)
      BY <2>3, <3>2, <3>4 DEF FirstOf, First4, Again4, HasA
    <3>7. Abs!Sign(B(i)) = Sign(B(i))
      BY DEF Sign, Abs!Sign
    <3> HIDE DEF B
    <3>8. Abs!StepAdvance
      BY <3>1, <3>2, <3>3, <3>4, <3>5, <3>6, <3>7 DEF Abs!StepAdvance, Abs!At, Abs!Element, B
    <3> QED BY <3>8 DEF Abs!Next
  <2> QED BY <2>1, <2>2, <2>3
<1>12. CASE FOR7
  <2> DEFINE over(i) == Exhausted(RESULT.v, operands[2].v, Value(for.list[i].c, store))
  <2>1. PICK i :
          /\ Step6(i) /\ store' = [store EXCEPT ![operands[1].v] = operands[2].v]
          /\ \/ ~over(i) /\ Loop3' /\ PC' = PC
             \/ /\ over(i) /\ Entering'
                /\ PC' = <<i + 1, 1>> /\ operands'[1] = operands[1]
    BY <1>12, FOR7Step
  <2>2. for' = for /\ RESULT' = RESULT
    BY <1>12 DEF FOR7
  <2>3. AtOf = "test" /\ AddrOf = operands[1].v /\ PendingOf.v = operands[2].v
        /\ PendingOf.dir = RESULT.v
    BY <1>a, <2>1 DEF Maps, Awaited
  <2>4. PC = <<i, 3>> /\ i <= Len(for.list) /\ for.list[i].kind = "step"
    BY <2>1 DEF Step6, Here, LastElement
  <2>5. Abs!Exhausted(PendingOf.dir, PendingOf.v, Value(for.list[i].c, store)) <=> over(i)
    BY <2>3 DEF Exhausted, Abs!Exhausted
  <2>6. CASE ~over(i) /\ Loop3' /\ PC' = PC
    <3>1. /\ AtOf' = "statement" /\ AddrOf' = NoAddress /\ PendingOf' = NoValue
          /\ FirstOf' = FirstOf
      BY <1>a, <2>2, <2>6 DEF Maps, NoAddress, NoValue, FirstOf
    <3> HIDE DEF over
    <3>2. Abs!StepTest
      BY <2>1, <2>2, <2>3, <2>4, <2>5, <2>6, <3>1
         DEF Abs!StepTest, Abs!At, Abs!Element, Abs!Execute, Abs!NoAddress, NoAddress,
             Abs!NoValue, NoValue
    <3> QED BY <3>2 DEF Abs!Next
  <2>7. CASE over(i) /\ Entering' /\ PC' = <<i + 1, 1>> /\ operands'[1] = operands[1]
    <3>1. AtOf' = "control" /\ AddrOf' = AddrOf /\ PendingOf' = NoValue /\ FirstOf' = TRUE
      BY <1>a, <2>3, <2>7 DEF Maps, NoValue, FirstOf
    <3> HIDE DEF over
    <3>2. Abs!StepTest
      BY <2>1, <2>2, <2>3, <2>4, <2>5, <2>7, <3>1
         DEF Abs!StepTest, Abs!At, Abs!Element, Abs!NextElement, Abs!NoValue, NoValue
    <3> QED BY <3>2 DEF Abs!Next
  <2> QED BY <2>1, <2>6, <2>7
<1>13. CASE FOR8
  <2>1. End /\ Out' /\ PC' = PC
    BY <1>13, FOR8Step
  <2>2. for' = for /\ store' = store
    BY <1>13 DEF FOR8
  <2>3. /\ AtOf = "control" /\ AtOf' = "done" /\ AddrOf' = NoAddress
        /\ PendingOf' = PendingOf
    BY <1>a, <2>1 DEF Entering, Maps, NoAddress, NoValue
  <2>4. PC = <<LastElement + 1, 1>> /\ LastElement \in Nat
    BY <2>1, List DEF End, Inv
  <2>5. PC[1] > Len(for.list) /\ FirstOf = TRUE /\ FirstOf' = TRUE
    BY <2>1, <2>4 DEF FirstOf, LastElement
  <2>6. Abs!Done
    BY <2>1, <2>2, <2>3, <2>5 DEF Abs!Done, Abs!NoAddress, NoAddress
  <2> QED BY <2>6 DEF Abs!Next
<1>14. CASE UNCHANGED vars
  BY <1>14 DEF vars, words, Abs!vars, FirstOf, AtOf, AddrOf, PendingOf, Testing, InElement,
               Element, LastElement, Depth
<1> QED BY <1>1, <1>2, <1>3, <1>4, <1>5, <1>6, <1>7, <1>8, <1>9, <1>10, <1>11, <1>12,
           <1>13, <1>14 DEF Next, Step, Stopped

(* FOR0 to FOR8 and the words they keep in the frame carry out the for     *)
(* list, for every for list, controlled variable and statement.            *)
THEOREM Implementation == Spec => ImplementsForList
<1>1. Spec => []Inv
  BY Initial, ControlStep, PTL DEF Spec
<1>2. QED
  BY <1>1, InitialMaps, StepMaps, PTL DEF Spec, ImplementsForList, Abs!Spec
=============================================================================

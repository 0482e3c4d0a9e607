---------------------------- MODULE ReaderProofs ----------------------------
(***************************************************************************)
(* Proofs about DelimiterReader: the two words of a name tell its first    *)
(* nine symbols, whatever the name is.                                     *)
(***************************************************************************)
EXTENDS DelimiterReader, SequenceTheorems, TLAPS

(* What the code does not read to its end: a Z behind the ninth symbol. *)
NoLateZ == \A i \in Names : \A k \in 10 .. Len(i.text) - 1 : i.text[k] # 62

T     == item.text
Final == Len(T)

(* A word of 27 bits: three bits, and four symbols above them. *)
Word(low, s1, s2, s3, s4) == low + s1 * 8 + s2 * 512 + s3 * 32768 + s4 * 2097152

(* inw when k symbols have been packed in it. *)
Packed(k) ==
  CASE k = 0 -> Word(0, 0, 0, 0, 0)
    [] k = 1 -> Word(0, 0, 0, 0, T[1])
    [] k = 2 -> Word(0, 0, 0, T[1], T[2])
    [] k = 3 -> Word(0, 0, T[1], T[2], T[3])
    [] k = 4 -> Word(0, T[1], T[2], T[3], T[4])
    [] k = 5 -> Word(T[1] \div 8, T[2], T[3], T[4], T[5])

(* The low bits of the first symbol, with the mark behind them. *)
Begin == (T[1] % 8) * 8 + 4

(* The second word, when j symbols have been packed in it. *)
Behind5(i) == IF i + 5 < Final THEN T[i + 5] ELSE 63

Second(j) ==
  CASE j = 0 -> Word(0, 0, 0, 0, Begin)
    [] j = 1 -> Word(0, 0, 0, Begin, Behind5(1))
    [] j = 2 -> Word(0, 0, Begin, Behind5(1), Behind5(2))
    [] j = 3 -> Word(0, Begin, Behind5(1), Behind5(2), Behind5(3))
    [] j = 4 -> Word(T[1] % 8, Behind5(1), Behind5(2), Behind5(3), Behind5(4))

InFirstWord ==
  /\ at - 1 \in 0 .. 5 /\ at <= Final
  /\ dflag = 0 /\ inw = Packed(at - 1)
  /\ fnw = IF at = 6 THEN (T[1] % 8) * 8 * d21 ELSE 0

InSecondWord ==
  /\ Final > 5 /\ dflag = 1 /\ inw = Packed(5)
  /\ \/ \E j \in 0 .. 3 : /\ fnw = Second(j) /\ marker = 0
                          /\ at = IF 6 + j <= Final THEN 6 + j ELSE Final
     \/ /\ fnw = Second(4) /\ marker # 0
        /\ at <= Final /\ (at < 10 => at = Final)

NameTypeOK ==
  item \in Names /\ T \in Seq(0 .. 255) /\ at \in Nat \ {0} /\ nflag = 1

(* A name, as it is read. *)
Reading ==
  item.kind = "name" =>
    /\ NameTypeOK
    /\ pc \in {"start", "name", "long name", "done"}
    /\ pc = "start" => at = 1 /\ fnw = 0
    /\ pc # "start" => kflag = 0
    /\ pc = "name" => InFirstWord
    /\ pc = "long name" => InSecondWord
    /\ pc = "done" => /\ at = Final
                      /\ (InFirstWord /\ at <= 5) \/ (InSecondWord /\ marker # 0)

-----------------------------------------------------------------------------
(***************************************************************************)
(* The arithmetic of the packing.                                          *)
(***************************************************************************)
Symbol == 0 .. 63

LEMMA Powers == d3 = 8 /\ d6 = 64 /\ d21 = 2097152 /\ d23 = 8388608
<1>1. d3 = 8
  BY SMT DEF d3
<1>2. d6 = 64
  BY SMT DEF d6
<1>3. d21 = 2097152
  BY SMT DEF d21
<1>4. d23 = 8388608
  BY SMT DEF d23
<1> QED
  BY <1>1, <1>2, <1>3, <1>4, SMT

(* One symbol more pushes six bits out. *)
LEMMA Pushed ==
  ASSUME NEW low \in 0 .. 7, NEW s1 \in Symbol, NEW s2 \in Symbol, NEW s3 \in Symbol,
         NEW s4 \in Symbol, NEW s5 \in Symbol
  PROVE  (Word(low, s1, s2, s3, s4) \div 64) + s5 * 2097152
           = Word(s1 \div 8, s2, s3, s4, s5)
<1> USE DEF Symbol, Word
<1>1. s1 \div 8 \in Nat /\ s1 % 8 \in 0 .. 7 /\ s1 = (s1 \div 8) * 8 + (s1 % 8)
  BY SMT
<1>2. Word(low, s1, s2, s3, s4)
        = ((s1 \div 8) + s2 * 8 + s3 * 512 + s4 * 32768) * 64 + ((s1 % 8) * 8 + low)
  BY <1>1, SMT
<1> QED
  BY <1>1, <1>2, SMT

LEMMA PushedOut ==
  ASSUME NEW low \in 0 .. 7, NEW s1 \in Symbol, NEW s2 \in Symbol, NEW s3 \in Symbol,
         NEW s4 \in Symbol
  PROVE  Word(low, s1, s2, s3, s4) % 64 = (s1 % 8) * 8 + low
<1> USE DEF Symbol, Word
<1>1. s1 \div 8 \in Nat /\ s1 % 8 \in 0 .. 7 /\ s1 = (s1 \div 8) * 8 + (s1 % 8)
  BY SMT
<1>2. Word(low, s1, s2, s3, s4)
        = ((s1 \div 8) + s2 * 8 + s3 * 512 + s4 * 32768) * 64 + ((s1 % 8) * 8 + low)
  BY <1>1, SMT
<1> QED
  BY <1>1, <1>2, SMT

LEMMA PushedZero ==
  \A s2, s3, s4, s5 \in Symbol :
    /\ (Word(0, 0, s2, s3, s4) \div 64) + s5 * 2097152 = Word(0, s2, s3, s4, s5)
    /\ Word(0, 0, s2, s3, s4) % 64 = 0
<1> SUFFICES ASSUME NEW s2 \in Symbol, NEW s3 \in Symbol, NEW s4 \in Symbol, NEW s5 \in Symbol
             PROVE  /\ (Word(0, 0, s2, s3, s4) \div 64) + s5 * 2097152 = Word(0, s2, s3, s4, s5)
                    /\ Word(0, 0, s2, s3, s4) % 64 = 0
  BY SMT
<1>1. 0 \in 0 .. 7 /\ 0 \in Symbol /\ 0 \div 8 = 0 /\ (0 % 8) * 8 + 0 = 0
  BY SMT DEF Symbol
<1> QED
  BY <1>1, Pushed, PushedOut, SMT

LEMMA Groups ==
  ASSUME NEW low \in 0 .. 7, NEW s1 \in Symbol, NEW s2 \in Symbol, NEW s3 \in Symbol,
         NEW s4 \in Symbol, NEW w, w = Word(low, s1, s2, s3, s4)
  PROVE  /\ w \in Nat
         /\ w % d3 = low
         /\ Group(w, 1) = s1 /\ Group(w, 2) = s2 /\ Group(w, 3) = s3 /\ Group(w, 4) = s4
<1> USE DEF Symbol
<1>1. w = low + s1 * 8 + s2 * 512 + s3 * 32768 + s4 * 2097152
  BY SMT DEF Word
<1>2. w \in Nat /\ w % 8 = low
  BY <1>1, SMT
<1>3. w \div 8 = s1 + s2 * 64 + s3 * 4096 + s4 * 262144
  BY <1>1, SMT
<1>4. (s1 + s2 * 64 + s3 * 4096 + s4 * 262144) % 64 = s1
  BY SMT
<1>5. w \div 512 = s2 + s3 * 64 + s4 * 4096
  BY <1>1, SMT
<1>6. (s2 + s3 * 64 + s4 * 4096) % 64 = s2
  BY SMT
<1>7. w \div 32768 = s3 + s4 * 64
  BY <1>1, SMT
<1>8. (s3 + s4 * 64) % 64 = s3
  BY SMT
<1>9. w \div 2097152 = s4 /\ s4 % 64 = s4
  BY <1>1, SMT
<1>10. /\ Group(w, 1) = (w \div 8) % 64 /\ Group(w, 2) = (w \div 512) % 64
       /\ Group(w, 3) = (w \div 32768) % 64 /\ Group(w, 4) = (w \div 2097152) % 64
  <2>1. 2 ^ 3 = 8 /\ 2 ^ 9 = 512
    BY SMT
  <2>2. 2 ^ 15 = 32768
    BY SMT
  <2>3. 2 ^ 21 = 2097152
    BY SMT
  <2> QED
    BY ONLY <2>1, <2>2, <2>3, <1>2, Powers, SMT DEF Group
<1> QED
  BY ONLY <1>2, <1>3, <1>4, <1>5, <1>6, <1>7, <1>8, <1>9, <1>10, Powers, SMT

-----------------------------------------------------------------------------
(***************************************************************************)
(* The symbols of a name.                                                  *)
(***************************************************************************)
LEMMA Symbols ==
  ASSUME NameTypeOK
  PROVE  /\ Final \in Nat /\ Final > 1
         /\ T[1] \in 10 .. 62 /\ T[1] % 8 \in 0 .. 7 /\ T[1] \div 8 \in 1 .. 7
         /\ T[1] = (T[1] \div 8) * 8 + (T[1] % 8)
         /\ \A k \in 1 .. Final - 1 : T[k] \in 0 .. 62
         /\ T[Final] \in 63 .. 255
<1>1. item \in Names /\ T \in Seq(0 .. 255) /\ Final \in Nat
  BY DEF NameTypeOK, Final
<1>2. /\ Final > 1 /\ T[1] \in 10 .. 62 /\ T[Final] > 62
      /\ \A k \in 1 .. Final - 1 : T[k] \in 0 .. 62
  BY <1>1, NameAssumption DEF Final, T, Letters, Digits
<1>3. T[Final] \in 63 .. 255
  <2>1. Final \in 1 .. Len(T)
    BY <1>1, <1>2, SMT DEF Final
  <2>2. T[Final] \in 0 .. 255
    BY ONLY <1>1, <2>1, ElementOfSeq
  <2> QED
    BY <1>2, <2>2, SMT
<1>4. T[1] % 8 \in 0 .. 7 /\ T[1] \div 8 \in 1 .. 7 /\ T[1] = (T[1] \div 8) * 8 + (T[1] % 8)
  BY <1>2, SMT
<1> QED
  BY <1>1, <1>2, <1>3, <1>4

(* Whatever of the name is packed, its first symbol has not reached the    *)
(* low end of inw unless five symbols are in it.                           *)
LEMMA LowEnd ==
  ASSUME NameTypeOK, InFirstWord
  PROVE  /\ inw % d3 = 0 => at <= 5
         /\ inw % d3 > 0 => at = 6
<1>0. /\ at \in 1 .. 6 /\ at <= Final /\ inw = Packed(at - 1)
      /\ Final \in Nat /\ T[1] \div 8 \in 1 .. 7
      /\ \A k \in 1 .. Final - 1 : T[k] \in Symbol
      /\ 0 \in Symbol /\ 0 \in 0 .. 7
  <2>1. /\ Final \in Nat /\ T[1] \div 8 \in 1 .. 7
        /\ \A k \in 1 .. Final - 1 : T[k] \in 0 .. 62
    BY Symbols
  <2>2. /\ at \in Nat /\ at - 1 \in 0 .. 5 /\ at <= Final /\ inw = Packed(at - 1)
    BY DEF InFirstWord, NameTypeOK
  <2> QED
    BY ONLY <2>1, <2>2, SMT DEF Symbol
<1>a. \A s1, s2, s3, s4 \in Symbol : Word(0, s1, s2, s3, s4) % d3 = 0
  BY <1>0, Groups
<1>1. CASE at = 1
  <2>1. inw = Word(0, 0, 0, 0, 0)
    BY <1>0, <1>1, SMT DEF Packed
  <2> QED
    BY ONLY <1>0, <1>a, <1>1, <2>1, SMT
<1>2. CASE at = 2
  <2>1. inw = Word(0, 0, 0, 0, T[1])
    BY <1>0, <1>2, SMT DEF Packed
  <2>2. T[1] \in Symbol
    BY <1>0, <1>2, SMT
  <2> QED
    BY ONLY <1>0, <1>a, <1>2, <2>1, <2>2, SMT
<1>3. CASE at = 3
  <2>1. inw = Word(0, 0, 0, T[1], T[2])
    BY <1>0, <1>3, SMT DEF Packed
  <2>2. T[1] \in Symbol /\ T[2] \in Symbol
    BY <1>0, <1>3, SMT
  <2> QED
    BY ONLY <1>0, <1>a, <1>3, <2>1, <2>2, SMT
<1>4. CASE at = 4
  <2>1. inw = Word(0, 0, T[1], T[2], T[3])
    BY <1>0, <1>4, SMT DEF Packed
  <2>2. T[1] \in Symbol /\ T[2] \in Symbol /\ T[3] \in Symbol
    BY <1>0, <1>4, SMT
  <2> QED
    BY ONLY <1>0, <1>a, <1>4, <2>1, <2>2, SMT
<1>5. CASE at = 5
  <2>1. inw = Word(0, T[1], T[2], T[3], T[4])
    BY <1>0, <1>5, SMT DEF Packed
  <2>2. T[1] \in Symbol /\ T[2] \in Symbol /\ T[3] \in Symbol /\ T[4] \in Symbol
    BY <1>0, <1>5, SMT
  <2> QED
    BY ONLY <1>0, <1>a, <1>5, <2>1, <2>2, SMT
<1>6. CASE at = 6
  <2>1. inw = Word(T[1] \div 8, T[2], T[3], T[4], T[5])
    BY <1>0, <1>6, SMT DEF Packed
  <2>2. T[1] \in Symbol /\ T[2] \in Symbol /\ T[3] \in Symbol /\ T[4] \in Symbol /\ T[5] \in Symbol
    BY <1>0, <1>6, SMT
  <2>3. PICK h \in 1 .. 7 : h = T[1] \div 8
    BY <1>0
  <2>4. h \in 0 .. 7 /\ inw = Word(h, T[2], T[3], T[4], T[5])
    BY <2>1, <2>3
  <2>5. inw % d3 = h
    <3>1. T[2] \in Symbol /\ T[3] \in Symbol /\ T[4] \in Symbol /\ T[5] \in Symbol
      BY <2>2
    <3> QED
      BY ONLY <3>1, <2>4, Groups
  <2>6. inw % d3 # 0
    BY ONLY <2>5, h \in 1 .. 7, SMT
  <2> QED
    BY <1>6, <2>6
<1> QED
  BY <1>0, <1>1, <1>2, <1>3, <1>4, <1>5, <1>6, SMT

(* What follows in the second word. *)
LEMMA SecondSymbols ==
  ASSUME NameTypeOK, Final > 5
  PROVE  /\ T[1] % 8 \in 0 .. 7 /\ T[1] \div 8 \in 0 .. 7
         /\ T[1] \in Symbol /\ T[2] \in Symbol /\ T[3] \in Symbol /\ T[4] \in Symbol
         /\ T[5] \in Symbol
         /\ Begin \in Symbol /\ Begin \div 8 = T[1] % 8 /\ Begin % 8 = 4
         /\ \A j \in 1 .. 4 : Behind5(j) \in Symbol
<1>1. /\ Final \in Nat /\ T[1] % 8 \in 0 .. 7 /\ T[1] \div 8 \in 1 .. 7
      /\ \A k \in 1 .. Final - 1 : T[k] \in 0 .. 62
  BY Symbols
<1>2. /\ T[1] % 8 \in 0 .. 7 /\ T[1] \div 8 \in 0 .. 7
      /\ T[1] \in Symbol /\ T[2] \in Symbol /\ T[3] \in Symbol /\ T[4] \in Symbol
      /\ T[5] \in Symbol
  BY <1>1, SMT DEF Symbol
<1>3. \A h \in 0 .. 7 : h * 8 + 4 \in 0 .. 63 /\ (h * 8 + 4) \div 8 = h /\ (h * 8 + 4) % 8 = 4
  BY SMT
<1>4. Begin \in Symbol /\ Begin \div 8 = T[1] % 8 /\ Begin % 8 = 4
  BY <1>2, <1>3 DEF Begin, Symbol
<1>5. ASSUME NEW j \in 1 .. 4
      PROVE  Behind5(j) \in Symbol
  BY <1>1, SMT DEF Behind5, Symbol
<1> QED
  BY <1>2, <1>4, <1>5

(* The first words of a name. *)
LEMMA PackedPushed ==
  ASSUME NameTypeOK, NEW k \in 0 .. 4, k + 1 < Final
  PROVE  /\ (Packed(k) \div d6) + T[k + 1] * d21 = Packed(k + 1)
         /\ (Packed(k) % d6) * d21 = IF k = 4 THEN (T[1] % 8) * 8 * d21 ELSE 0
<1>1. /\ Final \in Nat /\ \A n \in 1 .. Final - 1 : T[n] \in Symbol
      /\ 0 \in Symbol /\ 0 \in 0 .. 7 /\ 0 \div 8 = 0 /\ 0 % 8 = 0 /\ T[1] % 8 \in 0 .. 7
  <2>1. /\ Final \in Nat /\ \A n \in 1 .. Final - 1 : T[n] \in 0 .. 62
        /\ T[1] % 8 \in 0 .. 7
    BY Symbols
  <2> QED
    BY ONLY <2>1, SMT DEF Symbol
<1>2. CASE k = 0
  <2>1. T[1] \in Symbol /\ Packed(0) = Word(0, 0, 0, 0, 0) /\ Packed(1) = Word(0, 0, 0, 0, T[1])
    BY <1>1, <1>2, SMT DEF Packed
  <2>2. /\ (Packed(0) \div 64) + T[1] * 2097152 = Packed(1)
        /\ Packed(0) % 64 = 0
    BY ONLY <1>1, <2>1, PushedZero, SMT
  <2> QED
    BY ONLY <1>2, <2>2, Powers, SMT
<1>3. CASE k = 1
  <2>1. /\ T[1] \in Symbol /\ T[2] \in Symbol
        /\ Packed(1) = Word(0, 0, 0, 0, T[1]) /\ Packed(2) = Word(0, 0, 0, T[1], T[2])
    BY <1>1, <1>3, SMT DEF Packed
  <2>2. /\ (Packed(1) \div 64) + T[2] * 2097152 = Packed(2)
        /\ Packed(1) % 64 = 0
    BY ONLY <1>1, <2>1, PushedZero, SMT
  <2> QED
    BY ONLY <1>3, <2>2, Powers, SMT
<1>4. CASE k = 2
  <2>1. /\ T[1] \in Symbol /\ T[2] \in Symbol /\ T[3] \in Symbol
        /\ Packed(2) = Word(0, 0, 0, T[1], T[2]) /\ Packed(3) = Word(0, 0, T[1], T[2], T[3])
    BY <1>1, <1>4, SMT DEF Packed
  <2>2. /\ (Packed(2) \div 64) + T[3] * 2097152 = Packed(3)
        /\ Packed(2) % 64 = 0
    BY ONLY <1>1, <2>1, PushedZero, SMT
  <2> QED
    BY ONLY <1>4, <2>2, Powers, SMT
<1>5. CASE k = 3
  <2>1. /\ T[1] \in Symbol /\ T[2] \in Symbol /\ T[3] \in Symbol /\ T[4] \in Symbol
        /\ Packed(3) = Word(0, 0, T[1], T[2], T[3])
        /\ Packed(4) = Word(0, T[1], T[2], T[3], T[4])
    BY <1>1, <1>5, SMT DEF Packed
  <2>2. /\ (Packed(3) \div 64) + T[4] * 2097152 = Packed(4)
        /\ Packed(3) % 64 = 0
    BY ONLY <1>1, <2>1, PushedZero, SMT
  <2> QED
    BY ONLY <1>5, <2>2, Powers, SMT
<1>6. CASE k = 4
  <2>1. /\ T[1] \in Symbol /\ T[2] \in Symbol /\ T[3] \in Symbol /\ T[4] \in Symbol
        /\ T[5] \in Symbol
        /\ Packed(4) = Word(0, T[1], T[2], T[3], T[4])
        /\ Packed(5) = Word(T[1] \div 8, T[2], T[3], T[4], T[5])
    BY <1>1, <1>6, SMT DEF Packed
  <2>2. (Packed(4) \div 64) + T[5] * 2097152 = Packed(5)
    <3>1. \A s1, s2, s3, s4, s5 \in Symbol :
            (Word(0, s1, s2, s3, s4) \div 64) + s5 * 2097152 = Word(s1 \div 8, s2, s3, s4, s5)
      BY <1>1, Pushed, SMT
    <3> QED
      BY ONLY <2>1, <3>1, SMT
  <2>3. Packed(4) % 64 = (T[1] % 8) * 8
    <3>1. \A s1, s2, s3, s4 \in Symbol : Word(0, s1, s2, s3, s4) % 64 = (s1 % 8) * 8 + 0
      BY <1>1, PushedOut
    <3> QED
      BY ONLY <1>1, <2>1, <3>1, SMT
  <2>4. (Packed(4) % d6) * d21 = (T[1] % 8) * 8 * d21
    BY ONLY <2>3, Powers, SMT
  <2> QED
    BY ONLY <1>6, <2>2, <2>4, Powers, SMT
<1> QED
  BY <1>2, <1>3, <1>4, <1>5, <1>6, SMT

(* The second word: the mark comes out with the fourth symbol. *)
LEMMA SecondPushed ==
  ASSUME NameTypeOK, Final > 5, NEW j \in 0 .. 3
  PROVE  /\ (Second(j) \div d6) + Behind5(j + 1) * d21 = Second(j + 1)
         /\ (Second(j) % d6) * d21 = IF j = 3 THEN 32 * d21 ELSE 0
<1>1. /\ T[1] % 8 \in 0 .. 7
      /\ Begin \in Symbol /\ Begin \div 8 = T[1] % 8 /\ Begin % 8 = 4
      /\ Behind5(1) \in Symbol /\ Behind5(2) \in Symbol /\ Behind5(3) \in Symbol
      /\ Behind5(4) \in Symbol
      /\ 0 \in Symbol /\ 0 \in 0 .. 7 /\ 0 \div 8 = 0 /\ 0 % 8 = 0
  <2>1. 0 \in Symbol /\ 0 \in 0 .. 7 /\ 0 \div 8 = 0 /\ 0 % 8 = 0
    BY SMT DEF Symbol
  <2> QED
    BY <2>1, SecondSymbols
<1>2. CASE j = 0
  <2>1. Second(0) = Word(0, 0, 0, 0, Begin) /\ Second(1) = Word(0, 0, 0, Begin, Behind5(1))
    BY SMT DEF Second
  <2>2. /\ (Second(0) \div 64) + Behind5(1) * 2097152 = Second(1)
        /\ Second(0) % 64 = 0
    BY ONLY <1>1, <2>1, PushedZero, SMT
  <2> QED
    BY ONLY <1>2, <2>2, Powers, SMT
<1>3. CASE j = 1
  <2>1. /\ Second(1) = Word(0, 0, 0, Begin, Behind5(1))
        /\ Second(2) = Word(0, 0, Begin, Behind5(1), Behind5(2))
    BY SMT DEF Second
  <2>2. /\ (Second(1) \div 64) + Behind5(2) * 2097152 = Second(2)
        /\ Second(1) % 64 = 0
    BY ONLY <1>1, <2>1, PushedZero, SMT
  <2> QED
    BY ONLY <1>3, <2>2, Powers, SMT
<1>4. CASE j = 2
  <2>1. /\ Second(2) = Word(0, 0, Begin, Behind5(1), Behind5(2))
        /\ Second(3) = Word(0, Begin, Behind5(1), Behind5(2), Behind5(3))
    BY SMT DEF Second
  <2>2. /\ (Second(2) \div 64) + Behind5(3) * 2097152 = Second(3)
        /\ Second(2) % 64 = 0
    BY ONLY <1>1, <2>1, PushedZero, SMT
  <2> QED
    BY ONLY <1>4, <2>2, Powers, SMT
<1>5. CASE j = 3
  <2>1. /\ Second(3) = Word(0, Begin, Behind5(1), Behind5(2), Behind5(3))
        /\ Second(4) = Word(T[1] % 8, Behind5(1), Behind5(2), Behind5(3), Behind5(4))
    BY SMT DEF Second
  <2>2. /\ (Second(3) \div 64) + Behind5(4) * 2097152 = Second(4)
        /\ Second(3) % 64 = 32
    BY ONLY <1>1, <2>1, Pushed, PushedOut, SMT
  <2> QED
    BY ONLY <1>5, <2>2, Powers, SMT
<1> QED
  BY <1>2, <1>3, <1>4, <1>5, SMT

(* The word that the first symbols leave in fnw becomes the second one's   *)
(* beginning with the mark.                                                *)
LEMMA SecondBegins ==
  ASSUME NameTypeOK
  PROVE  (T[1] % 8) * 8 * d21 + d23 = Second(0)
<1>1. T[1] % 8 \in 0 .. 7
  BY Symbols
<1>2. \A h \in 0 .. 7 : h * 8 * 2097152 + 8388608 = Word(0, 0, 0, 0, h * 8 + 4)
  BY SMT DEF Word
<1>3. Second(0) = Word(0, 0, 0, 0, (T[1] % 8) * 8 + 4)
  BY SMT DEF Second, Begin
<1> QED
  BY ONLY <1>1, <1>2, <1>3, Powers, SMT

-----------------------------------------------------------------------------
(***************************************************************************)
(* The invariant.                                                          *)
(***************************************************************************)
LEMMA InitReading == Init => Reading
<1> SUFFICES ASSUME Init, item.kind = "name"
             PROVE  Reading
  BY DEF Reading
<1>1. item \in Names
  BY NameAssumption DEF Init
<1>2. T \in Seq(0 .. 255)
  BY <1>1, ReaderAssumption DEF T
<1> QED
  BY <1>1, <1>2 DEF Init, Reading, NameTypeOK

LEMMA NameSymbolKeeps ==
  ASSUME NameTypeOK, InFirstWord, NameSymbol
  PROVE  InFirstWord'
<1>1. /\ Final \in Nat /\ T[Final] \in 63 .. 255 /\ T[1] % 8 \in 0 .. 7
      /\ at \in Nat \ {0} /\ at - 1 \in 0 .. 5 /\ at <= Final
      /\ inw = Packed(at - 1) /\ dflag = 0
      /\ T[at] <= 62 /\ inw % d3 = 0
  BY Symbols DEF NameTypeOK, InFirstWord, NameSymbol, dl, T
<1>2. /\ item' = item /\ at' = at + 1 /\ dflag' = dflag
      /\ fnw' = (inw % d6) * d21 /\ inw' = (inw \div d6) + T[at] * d21
  BY DEF NameSymbol, nameUnchanged, dl, T
<1>3. at <= 5
  BY LowEnd, <1>1
<1>4. at < Final
  BY <1>1, SMT
<1>5. at - 1 \in 0 .. 4 /\ (at - 1) + 1 < Final /\ (at - 1) + 1 = at
  BY <1>1, <1>3, <1>4, SMT
<1>6. /\ inw' = Packed(at)
      /\ fnw' = IF at - 1 = 4 THEN (T[1] % 8) * 8 * d21 ELSE 0
  BY <1>1, <1>2, <1>5, PackedPushed
<1>7. Packed(at - 1)' = Packed(at' - 1) /\ T' = T /\ Final' = Final
  BY <1>2 DEF Packed, T, Final
<1>8. at' - 1 = at /\ at' - 1 \in 0 .. 5 /\ at' <= Final /\ (at' = 6 <=> at - 1 = 4)
  BY <1>1, <1>2, <1>3, <1>4, SMT
<1> QED
  BY <1>1, <1>2, <1>6, <1>7, <1>8, SMT DEF InFirstWord

(* A symbol lower than a delimiter is not the last one; at a delimiter all *)
(* has been read.                                                          *)
LEMMA AtTheDelimiter ==
  ASSUME NameTypeOK, at <= Final
  PROVE  /\ dl <= 62 => at < Final
         /\ dl < 63 => at < Final
         /\ dl > 62 => at = Final
         /\ dl >= 63 => at = Final
<1>1. /\ Final \in Nat /\ T[Final] \in 63 .. 255 /\ \A k \in 1 .. Final - 1 : T[k] \in 0 .. 62
  BY Symbols
<1>2. dl = T[at] /\ at \in Nat \ {0}
  BY DEF dl, T, NameTypeOK
<1> QED
  BY <1>1, <1>2, SMT

LEMMA LongNameBegins ==
  ASSUME NameTypeOK, InFirstWord, LongName
  PROVE  InSecondWord'
<1>1. /\ Final \in Nat /\ at <= Final /\ inw = Packed(at - 1)
      /\ fnw = IF at = 6 THEN (T[1] % 8) * 8 * d21 ELSE 0
  BY Symbols DEF InFirstWord
<1>2. at = 6
  BY LowEnd DEF LongName
<1>3. fnw' = Second(0)
  <2>1. fnw = (T[1] % 8) * 8 * d21
    BY <1>1, <1>2
  <2>2. fnw' = fnw + d23
    BY DEF LongName
  <2> QED
    BY <2>1, <2>2, SecondBegins
<1>4. /\ item' = item /\ at' = 6 /\ inw' = Packed(5) /\ dflag' = 1 /\ marker' = 0 /\ Final > 5
  <2>1. 6 - 1 = 5
    BY SMT
  <2>2. Final > 5
    BY <1>1, <1>2, SMT
  <2> QED
    BY <1>1, <1>2, <2>1, <2>2 DEF LongName
<1>5. Packed(5)' = Packed(5) /\ Second(0)' = Second(0) /\ Final' = Final
  BY <1>4 DEF Packed, Second, Begin, Behind5, T, Final
<1>6. 0 \in 0 .. 3 /\ at' = IF 6 + 0 <= Final THEN 6 + 0 ELSE Final
  BY ONLY <1>1, <1>2, <1>4, SMT
<1> QED
  BY ONLY <1>3, <1>4, <1>5, <1>6 DEF InSecondWord

(* A symbol, or a 63 for one that is missing, goes into the second word.   *)
LEMMA ShiftKeeps ==
  ASSUME NameTypeOK, InSecondWord, marker = 0,
         NEW symbol, Shift(symbol),
         item' = item, inw' = inw, dflag' = dflag,
         \/ symbol = dl /\ dl < 63 /\ at' = at + 1
         \/ symbol = 63 /\ dl >= 63 /\ at' = at
  PROVE  InSecondWord'
<1>1. PICK j \in 0 .. 3 : fnw = Second(j) /\ at = IF 6 + j <= Final THEN 6 + j ELSE Final
  BY DEF InSecondWord
<1>2. Final \in Nat /\ Final > 5 /\ at \in Nat /\ at <= Final
  <2>1. Final \in Nat
    BY Symbols
  <2>2. Final > 5
    BY DEF InSecondWord
  <2> QED
    BY ONLY <1>1, <2>1, <2>2, SMT
<1>3. /\ symbol = Behind5(j + 1)
      /\ at' = IF 6 + (j + 1) <= Final THEN 6 + (j + 1) ELSE Final
  <2>1. CASE symbol = dl /\ dl < 63 /\ at' = at + 1
    <3>1. at < Final
      BY <1>2, <2>1, AtTheDelimiter
    <3>2. at = (j + 1) + 5 /\ (j + 1) + 5 < Final /\ 6 + (j + 1) <= Final /\ at' = 6 + (j + 1)
      BY <1>1, <1>2, <2>1, <3>1, SMT
    <3> QED
      BY <2>1, <3>2 DEF Behind5, dl, T
  <2>2. CASE symbol = 63 /\ dl >= 63 /\ at' = at
    <3>1. at = Final
      BY <1>2, <2>2, AtTheDelimiter
    <3>2. ~ ((j + 1) + 5 < Final) /\ ~ (6 + (j + 1) <= Final)
      BY <1>1, <1>2, <3>1, SMT
    <3> QED
      BY <2>2, <3>1, <3>2 DEF Behind5
  <2> QED
    BY <2>1, <2>2
<1>4. /\ fnw' = Second(j + 1)
      /\ marker' = IF j = 3 THEN 32 * d21 ELSE 0
  BY ONLY NameTypeOK, <1>1, <1>2, <1>3, Shift(symbol), SecondPushed, SMT DEF Shift
<1>5. /\ Final' = Final /\ Packed(5)' = Packed(5)
      /\ fnw' = Second(j + 1) => fnw' = Second(j + 1)'
  BY DEF Packed, Second, Begin, Behind5, T, Final
<1>6. inw = Packed(5) /\ dflag = 1
  BY DEF InSecondWord
<1>7. CASE j = 3
  <2>1. j + 1 = 4
    BY <1>7, SMT
  <2>2. marker' # 0
    BY ONLY <1>4, <1>7, Powers, SMT
  <2>3. at' \in Nat /\ at' <= Final /\ (at' < 10 => at' = Final)
    BY <1>2, <1>3, <1>7, SMT
  <2>4. fnw' = Second(4)'
    BY <1>4, <1>5, <2>1
  <2> QED
    BY <1>2, <1>5, <1>6, <2>2, <2>3, <2>4 DEF InSecondWord
<1>8. CASE j # 3
  <2>1. j + 1 \in 0 .. 3
    BY <1>8, SMT
  <2>2. marker' = 0
    BY <1>4, <1>8
  <2> QED
    BY <1>2, <1>3, <1>4, <1>5, <1>6, <2>1, <2>2 DEF InSecondWord
<1> QED
  BY <1>7, <1>8

(* Past the ninth symbol.  A Z there would be taken for the end. *)
LEMMA SkipKeeps ==
  ASSUME NameTypeOK, InSecondWord, SkipSymbol
  PROVE  InSecondWord'
<1>1. /\ Final \in Nat /\ Final > 5 /\ dflag = 1 /\ inw = Packed(5)
      /\ fnw = Second(4) /\ marker # 0 /\ at <= Final /\ (at < 10 => at = Final)
  BY Symbols DEF InSecondWord, SkipSymbol
<1>2. /\ item' = item /\ at' = at + 1 /\ inw' = inw /\ fnw' = fnw /\ marker' = marker
      /\ dflag' = dflag /\ dl <= 62
  <2>1. dl < 62
    BY DEF SkipSymbol
  <2>2. dl \in Nat
    <3>1. /\ \A k \in 1 .. Final - 1 : T[k] \in 0 .. 62
          /\ T[Final] \in 63 .. 255
      BY Symbols
    <3>2. at \in Nat \ {0}
      BY DEF NameTypeOK
    <3>3. T[at] \in Nat
      BY ONLY <1>1, <3>1, <3>2, SMT
    <3> QED
      BY <3>3 DEF dl, T
  <2>3. dl <= 62
    BY ONLY <2>1, <2>2, SMT
  <2> QED
    BY <2>3 DEF SkipSymbol, nameUnchanged
<1>3. at < Final /\ at \in Nat
  BY <1>1, <1>2, AtTheDelimiter DEF NameTypeOK
<1>4. at' <= Final /\ (at' < 10 => at' = Final)
  BY ONLY <1>1, <1>2, <1>3, SMT
<1>5. Final' = Final /\ Packed(5)' = Packed(5) /\ Second(4)' = Second(4)
  BY <1>2 DEF Packed, Second, Begin, Behind5, T, Final
<1> QED
  BY ONLY <1>1, <1>2, <1>4, <1>5 DEF InSecondWord

LEMMA LongNameAtEnd ==
  ASSUME NoLateZ, NameTypeOK, InSecondWord, marker # 0, dl >= 62
  PROVE  at = Final
<1>1. /\ Final \in Nat /\ at \in Nat \ {0} /\ at <= Final /\ (at < 10 => at = Final)
      /\ \A k \in 1 .. Final - 1 : T[k] \in 0 .. 62
      /\ dl = T[at]
  BY Symbols DEF InSecondWord, NameTypeOK, dl, T
<1>2. \A k \in 10 .. Final - 1 : T[k] # 62
  BY DEF NoLateZ, NameTypeOK, T, Final
<1> QED
  BY ONLY <1>1, <1>2, dl >= 62, SMT

LEMMA ShortNameAtEnd ==
  ASSUME NameTypeOK, InFirstWord, ShortName
  PROVE  at = Final /\ at <= 5
<1>1. at <= Final /\ dl > 62 /\ inw % d3 = 0
  BY DEF InFirstWord, ShortName
<1> QED
  BY <1>1, AtTheDelimiter, LowEnd

(* An action that leaves these alone, leaves what has been packed alone. *)
LEMMA WordsStay ==
  ASSUME item' = item, at' = at, inw' = inw, fnw' = fnw, dflag' = dflag, marker' = marker
  PROVE  /\ InFirstWord' = InFirstWord /\ InSecondWord' = InSecondWord
         /\ Final' = Final
BY DEF InFirstWord, InSecondWord, Packed, Second, Begin, Behind5, T, Final

LEMMA NextReading ==
  ASSUME NoLateZ, Reading, [Next]_vars
  PROVE  Reading'
<1> SUFFICES ASSUME item'.kind = "name" PROVE Reading'
  BY DEF Reading
<1>0. item' = item
  BY DEF Next, vars, NameBegins, NameSymbol, ShortName, LongName, LongNameSymbol, FillName,
     SkipSymbol, LongNameEnds, Point, Ten, Digit, NumberEnds, ExponentBegins, ExponentDigit,
     ExponentEnds, LogicalValue, Nothing, Zero, Normalise, Normalised, ScaleUp, ScaleDown,
     Round, Ended, nameUnchanged, numberUnchanged, floatUnchanged
<1>1. /\ item.kind = "name" /\ NameTypeOK
      /\ pc \in {"start", "name", "long name", "done"}
      /\ pc = "start" => at = 1 /\ fnw = 0
      /\ pc # "start" => kflag = 0
      /\ pc = "name" => InFirstWord
      /\ pc = "long name" => InSecondWord
      /\ pc = "done" => /\ at = Final
                        /\ (InFirstWord /\ at <= 5) \/ (InSecondWord /\ marker # 0)
  BY <1>0 DEF Reading
<1>2. T' = T /\ (at' \in Nat \ {0} /\ nflag' = 1 => NameTypeOK')
  BY <1>0, <1>1 DEF T, NameTypeOK
<1>3. CASE NameBegins
  <2>1. at' = 1 /\ dflag' = 0 /\ inw' = 0 /\ fnw' = 0 /\ kflag' = 0 /\ nflag' = 1 /\ pc' = "name"
    BY <1>1, <1>3 DEF NameBegins, NameTypeOK
  <2>2. Packed(0)' = 0 /\ Final' \in Nat /\ Final' > 1
    <3>1. Packed(0)' = Word(0, 0, 0, 0, 0)
      BY SMT DEF Packed
    <3>2. Word(0, 0, 0, 0, 0) = 0
      BY SMT DEF Word
    <3>3. Final' = Final /\ Final \in Nat /\ Final > 1
      BY <1>1, <1>2, Symbols DEF Final
    <3> QED
      BY <3>1, <3>2, <3>3
  <2>3. at' - 1 = 0 /\ at' - 1 \in 0 .. 5 /\ at' <= Final' /\ at' # 6
    BY <2>1, <2>2, SMT
  <2>4. InFirstWord'
    BY <2>1, <2>2, <2>3 DEF InFirstWord
  <2>5. NameTypeOK'
    <3>1. at' \in Nat \ {0}
      BY ONLY <2>1, SMT
    <3> QED
      BY <1>2, <2>1, <3>1
  <2> QED
    BY <2>1, <2>4, <2>5 DEF Reading
<1>4. CASE NameSymbol
  <2>1. pc = "name" /\ pc' = "name" /\ at' = at + 1 /\ nflag' = nflag /\ kflag' = kflag
    BY <1>4 DEF NameSymbol, nameUnchanged
  <2>2. InFirstWord'
    BY <1>1, <1>4, <2>1, NameSymbolKeeps
  <2>3. at' \in Nat \ {0} /\ nflag' = 1
    <3>1. at \in Nat \ {0} /\ nflag = 1
      BY <1>1 DEF NameTypeOK
    <3>2. (at' = at \/ at' = at + 1) /\ nflag' = nflag
      BY <2>1, Zenon
    <3> QED
      BY ONLY <3>1, <3>2, SMT
  <2> QED
    BY <1>1, <1>2, <2>1, <2>2, <2>3 DEF Reading
<1>5. CASE ShortName
  <2>1. /\ pc = "name" /\ pc' = "done" /\ nflag' = nflag /\ kflag' = kflag
        /\ at' = at /\ inw' = inw /\ fnw' = fnw /\ dflag' = dflag /\ marker' = marker
    BY <1>5 DEF ShortName, nameUnchanged
  <2>2. at' = Final' /\ at' <= 5 /\ InFirstWord'
    BY <1>0, <1>1, <1>5, <2>1, ShortNameAtEnd, WordsStay
  <2>3. NameTypeOK'
    BY <1>1, <1>2, <2>1 DEF NameTypeOK
  <2> QED
    BY <1>1, <2>1, <2>2, <2>3 DEF Reading
<1>6. CASE LongName
  <2>1. pc = "name" /\ pc' = "long name" /\ nflag' = nflag /\ kflag' = kflag /\ at' = at
    BY <1>6 DEF LongName
  <2>2. InSecondWord'
    BY <1>1, <1>6, <2>1, LongNameBegins
  <2>3. NameTypeOK'
    BY <1>1, <1>2, <2>1 DEF NameTypeOK
  <2> QED
    BY <1>1, <2>1, <2>2, <2>3 DEF Reading
<1>7. CASE LongNameSymbol \/ FillName
  <2>1. /\ pc = "long name" /\ pc' = "long name" /\ nflag' = nflag /\ kflag' = kflag
        /\ marker = 0 /\ inw' = inw /\ dflag' = dflag
        /\ \/ Shift(dl) /\ dl < 63 /\ at' = at + 1
           \/ Shift(63) /\ dl >= 63 /\ at' = at
    BY <1>7 DEF LongNameSymbol, FillName, nameUnchanged
  <2>2. InSecondWord'
    BY <1>0, <1>1, <2>1, ShiftKeeps
  <2>3. at' \in Nat \ {0} /\ nflag' = 1
    <3>1. at \in Nat \ {0} /\ nflag = 1
      BY <1>1 DEF NameTypeOK
    <3>2. (at' = at \/ at' = at + 1) /\ nflag' = nflag
      BY <2>1, Zenon
    <3> QED
      BY ONLY <3>1, <3>2, SMT
  <2> QED
    BY <1>1, <1>2, <2>1, <2>2, <2>3 DEF Reading
<1>8. CASE SkipSymbol
  <2>1. pc = "long name" /\ pc' = "long name" /\ nflag' = nflag /\ kflag' = kflag /\ at' = at + 1
    BY <1>8 DEF SkipSymbol, nameUnchanged
  <2>2. InSecondWord'
    BY <1>1, <1>8, <2>1, SkipKeeps
  <2>3. at' \in Nat \ {0} /\ nflag' = 1
    <3>1. at \in Nat \ {0} /\ nflag = 1
      BY <1>1 DEF NameTypeOK
    <3>2. (at' = at \/ at' = at + 1) /\ nflag' = nflag
      BY <2>1, Zenon
    <3> QED
      BY ONLY <3>1, <3>2, SMT
  <2> QED
    BY <1>1, <1>2, <2>1, <2>2, <2>3 DEF Reading
<1>9. CASE LongNameEnds
  <2>1. /\ pc = "long name" /\ pc' = "done" /\ nflag' = nflag /\ kflag' = kflag
        /\ at' = at /\ inw' = inw /\ fnw' = fnw /\ dflag' = dflag /\ marker' = marker
        /\ marker # 0 /\ dl >= 62
    BY <1>9 DEF LongNameEnds, nameUnchanged
  <2>2. at' = Final' /\ InSecondWord' /\ marker' # 0
    BY <1>0, <1>1, <2>1, LongNameAtEnd, WordsStay
  <2>3. NameTypeOK'
    BY <1>1, <1>2, <2>1 DEF NameTypeOK
  <2> QED
    BY <1>1, <2>1, <2>2, <2>3 DEF Reading
<1>10. CASE Ended \/ UNCHANGED vars
  <2>1. /\ pc' = pc /\ nflag' = nflag /\ kflag' = kflag
        /\ at' = at /\ inw' = inw /\ fnw' = fnw /\ dflag' = dflag /\ marker' = marker
    BY <1>10 DEF Ended, vars
  <2>2. NameTypeOK'
    BY <1>1, <1>2, <2>1 DEF NameTypeOK
  <2> QED
    BY <1>0, <1>1, <2>1, <2>2, WordsStay DEF Reading
(* A name does not begin like a number, a logical value or nothing. *)
<1>11. CASE \/ Point \/ Ten \/ Digit \/ NumberEnds \/ ExponentBegins \/ ExponentDigit
            \/ ExponentEnds \/ LogicalValue \/ Nothing \/ Zero \/ Normalise \/ Normalised
            \/ ScaleUp \/ ScaleDown \/ Round
  <2>1. pc \in {"start", "point", "digits", "sign", "exponent", "float", "scale"}
    BY <1>11 DEF Point, Ten, Digit, NumberEnds, ExponentBegins, ExponentDigit, ExponentEnds,
       LogicalValue, Nothing, Zero, Normalise, Normalised, ScaleUp, ScaleDown, Round
  <2>2. pc = "start" /\ at = 1
    BY <1>1, <2>1
  <2>3. dl \in Letters
    BY <1>1, <2>2, Symbols DEF dl, T, Letters
  <2>4. dl \notin Digits \cup {point, ten, true, false}
    BY <2>3, SMT DEF Letters, Digits, point, ten, true, false
  <2> QED
    BY <1>11, <2>2, <2>3, <2>4
       DEF Point, Ten, Digit, NumberEnds, ExponentBegins, ExponentDigit, ExponentEnds,
       LogicalValue, Nothing, Zero, Normalise, Normalised, ScaleUp, ScaleDown, Round
<1> QED
  BY <1>3, <1>4, <1>5, <1>6, <1>7, <1>8, <1>9, <1>10, <1>11 DEF Next

-----------------------------------------------------------------------------
(***************************************************************************)
(* What the words say when the name has been read.                         *)
(***************************************************************************)
LEMMA AllButTheLast ==
  ASSUME NEW s \in Seq(0 .. 255), Len(s) > 1
  PROVE  /\ Len(SubSeq(s, 1, Len(s) - 1)) = Len(s) - 1
         /\ \A k \in 1 .. Len(s) - 1 : SubSeq(s, 1, Len(s) - 1)[k] = s[k]
<1>1. Len(s) - 1 \in Int /\ 1 \in Int /\ 1 <= Len(s) - 1 /\ (Len(s) - 1) - 1 + 1 = Len(s) - 1
  BY SMT
<1>2. \A i \in 1 .. Len(s) - 1 : s[i] \in 0 .. 255
  <2> SUFFICES ASSUME NEW i \in 1 .. Len(s) - 1 PROVE s[i] \in 0 .. 255
    OBVIOUS
  <2>1. i \in 1 .. Len(s)
    BY SMT
  <2> QED
    BY <2>1, ElementOfSeq
<1>3. \A k \in 1 .. Len(s) - 1 : 1 + k - 1 = k
  BY SMT
<1> DEFINE t == SubSeq(s, 1, Len(s) - 1)
<1>4. /\ Len(t) = IF 1 <= Len(s) - 1 THEN (Len(s) - 1) - 1 + 1 ELSE 0
      /\ \A i \in 1 .. (Len(s) - 1) - 1 + 1 : t[i] = s[1 + i - 1]
  BY ONLY <1>1, <1>2, SubSeqProperties
<1> HIDE DEF t
<1>5. Len(t) = Len(s) - 1 /\ \A k \in 1 .. Len(s) - 1 : t[k] = s[k]
  BY ONLY <1>1, <1>3, <1>4
<1> QED
  BY <1>5 DEF t

LEMMA ShortNameKept ==
  ASSUME NameTypeOK, InFirstWord, at = Final, at <= 5
  PROVE  NameKept(SubSeq(item.text, 1, Len(item.text) - 1))
<1> DEFINE name == SubSeq(item.text, 1, Len(item.text) - 1)
<1>1. /\ Final \in Nat /\ Final \in 2 .. 5 /\ T \in Seq(0 .. 255)
      /\ \A k \in 1 .. Final - 1 : T[k] \in 0 .. 62
      /\ dflag = 0 /\ inw = Packed(Final - 1)
  <2>1. /\ Final \in Nat /\ Final > 1 /\ T \in Seq(0 .. 255)
        /\ \A k \in 1 .. Final - 1 : T[k] \in 0 .. 62
        /\ dflag = 0 /\ inw = Packed(Final - 1) /\ Final <= 5
    BY Symbols DEF InFirstWord, NameTypeOK
  <2> QED
    BY <2>1, SMT
<1>2. Len(name) = Final - 1 /\ \A k \in 1 .. Final - 1 : name[k] = T[k]
  <2>1. Len(T) > 1
    BY <1>1, SMT DEF Final
  <2> QED
    BY <1>1, <2>1, AllButTheLast DEF T, Final
<1>3. 0 \in Symbol /\ 0 \in 0 .. 7
  BY SMT DEF Symbol
<1>a. \A s1, s2, s3, s4 \in Symbol :
        /\ Group(Word(0, s1, s2, s3, s4), 1) = s1
        /\ Group(Word(0, s1, s2, s3, s4), 2) = s2
        /\ Group(Word(0, s1, s2, s3, s4), 3) = s3
        /\ Group(Word(0, s1, s2, s3, s4), 4) = s4
  BY <1>3, Groups
<1>4. /\ \A k \in 1 .. Final - 1 : T[k] \in Symbol
      /\ Final = 2 \/ Final = 3 \/ Final = 4 \/ Final = 5
  BY <1>1, SMT DEF Symbol
<1> DEFINE Shown(n) ==
      \A i \in 1 .. 4 : Group(inw, i) = IF i <= 4 - n THEN 0 ELSE T[i - (4 - n)]
<1>5. Shown(Final - 1)
  <2>1. CASE Final = 2
    <3>1. T[1] \in Symbol /\ inw = Word(0, 0, 0, 0, T[1])
      BY ONLY <1>1, <1>4, <2>1, SMT DEF Packed
    <3>2. /\ Group(inw, 1) = 0 /\ Group(inw, 2) = 0 /\ Group(inw, 3) = 0
          /\ Group(inw, 4) = T[1]
      BY ONLY <1>3, <1>a, <3>1, SMT
    <3> QED
      BY ONLY <2>1, <3>2, SMT
  <2>2. CASE Final = 3
    <3>1. T[1] \in Symbol /\ T[2] \in Symbol /\ inw = Word(0, 0, 0, T[1], T[2])
      BY ONLY <1>1, <1>4, <2>2, SMT DEF Packed
    <3>2. /\ Group(inw, 1) = 0 /\ Group(inw, 2) = 0 /\ Group(inw, 3) = T[1]
          /\ Group(inw, 4) = T[2]
      BY ONLY <1>3, <1>a, <3>1, SMT
    <3> QED
      BY ONLY <2>2, <3>2, SMT
  <2>3. CASE Final = 4
    <3>1. /\ T[1] \in Symbol /\ T[2] \in Symbol /\ T[3] \in Symbol
          /\ inw = Word(0, 0, T[1], T[2], T[3])
      BY ONLY <1>1, <1>4, <2>3, SMT DEF Packed
    <3>2. /\ Group(inw, 1) = 0 /\ Group(inw, 2) = T[1] /\ Group(inw, 3) = T[2]
          /\ Group(inw, 4) = T[3]
      BY ONLY <1>3, <1>a, <3>1, SMT
    <3> QED
      BY ONLY <2>3, <3>2, SMT
  <2>4. CASE Final = 5
    <3>1. /\ T[1] \in Symbol /\ T[2] \in Symbol /\ T[3] \in Symbol /\ T[4] \in Symbol
          /\ inw = Word(0, T[1], T[2], T[3], T[4])
      BY ONLY <1>1, <1>4, <2>4, SMT DEF Packed
    <3>2. /\ Group(inw, 1) = T[1] /\ Group(inw, 2) = T[2] /\ Group(inw, 3) = T[3]
          /\ Group(inw, 4) = T[4]
      BY ONLY <1>3, <1>a, <3>1, SMT
    <3> QED
      BY ONLY <2>4, <3>2, SMT
  <2> QED
    BY <1>4, <2>1, <2>2, <2>3, <2>4
<1>6. Len(name) <= 4
  BY <1>1, <1>2, SMT
<1>7. \A i \in 1 .. 4 : Group(inw, i) = IF i <= 4 - Len(name) THEN 0
                                        ELSE name[i - (4 - Len(name))]
  <2> SUFFICES ASSUME NEW i \in 1 .. 4
               PROVE  Group(inw, i) = IF i <= 4 - Len(name) THEN 0
                                      ELSE name[i - (4 - Len(name))]
    OBVIOUS
  <2>1. ~ (i <= 4 - (Final - 1)) => i - (4 - (Final - 1)) \in 1 .. Final - 1
    BY <1>1, SMT
  <2>2. Group(inw, i) = IF i <= 4 - (Final - 1) THEN 0 ELSE T[i - (4 - (Final - 1))]
    BY <1>5
  <2> HIDE DEF name
  <2> QED
    BY <1>2, <2>1, <2>2
<1> HIDE DEF name
<1>8. NameKept(name)
  BY <1>1, <1>6, <1>7 DEF NameKept
<1> QED
  BY <1>8 DEF name

LEMMA LongNameKept ==
  ASSUME NameTypeOK, InSecondWord, marker # 0
  PROVE  NameKept(SubSeq(item.text, 1, Len(item.text) - 1))
<1> DEFINE name == SubSeq(item.text, 1, Len(item.text) - 1)
<1>1. /\ Final \in Nat /\ Final > 5 /\ T \in Seq(0 .. 255) /\ dflag = 1
      /\ inw = Packed(5) /\ fnw = Second(4)
  BY Symbols DEF InSecondWord, NameTypeOK
<1>2. Len(name) = Final - 1 /\ \A k \in 1 .. Final - 1 : name[k] = T[k]
  <2>1. Len(T) > 1
    BY <1>1, SMT DEF Final
  <2> QED
    BY <1>1, <2>1, AllButTheLast DEF T, Final
<1>3. /\ T[1] % 8 \in 0 .. 7 /\ T[1] \div 8 \in 0 .. 7
      /\ T[2] \in Symbol /\ T[3] \in Symbol /\ T[4] \in Symbol /\ T[5] \in Symbol
      /\ \A j \in 1 .. 4 : Behind5(j) \in Symbol
      /\ T[1] = (T[1] \div 8) * 8 + (T[1] % 8)
  BY <1>1, Symbols, SecondSymbols
<1>4. inw = Word(T[1] \div 8, T[2], T[3], T[4], T[5])
  BY <1>1, SMT DEF Packed
<1>5. fnw = Word(T[1] % 8, Behind5(1), Behind5(2), Behind5(3), Behind5(4))
  BY <1>1, SMT DEF Second
<1>6. /\ inw % d3 = T[1] \div 8
      /\ Group(inw, 1) = T[2] /\ Group(inw, 2) = T[3] /\ Group(inw, 3) = T[4]
      /\ Group(inw, 4) = T[5]
  <2>1. PICK h \in 0 .. 7 : h = T[1] \div 8
    BY <1>3
  <2>2. inw = Word(h, T[2], T[3], T[4], T[5])
    BY <1>4, <2>1
  <2>3. /\ inw % d3 = h
        /\ Group(inw, 1) = T[2] /\ Group(inw, 2) = T[3] /\ Group(inw, 3) = T[4]
        /\ Group(inw, 4) = T[5]
    <3>1. T[2] \in Symbol /\ T[3] \in Symbol /\ T[4] \in Symbol /\ T[5] \in Symbol
      BY <1>3
    <3> QED
      BY ONLY <3>1, <2>2, Groups
  <2> QED
    BY <2>1, <2>3
<1>7. /\ fnw % d3 = T[1] % 8
      /\ Group(fnw, 1) = Behind5(1) /\ Group(fnw, 2) = Behind5(2)
      /\ Group(fnw, 3) = Behind5(3) /\ Group(fnw, 4) = Behind5(4)
  <2>1. PICK h \in 0 .. 7 : h = T[1] % 8
    BY <1>3
  <2>2. /\ Behind5(1) \in Symbol /\ Behind5(2) \in Symbol /\ Behind5(3) \in Symbol
        /\ Behind5(4) \in Symbol
    BY <1>3
  <2>3. fnw = Word(h, Behind5(1), Behind5(2), Behind5(3), Behind5(4))
    BY <1>5, <2>1
  <2>4. /\ fnw % d3 = h
        /\ Group(fnw, 1) = Behind5(1) /\ Group(fnw, 2) = Behind5(2)
        /\ Group(fnw, 3) = Behind5(3) /\ Group(fnw, 4) = Behind5(4)
    BY ONLY <2>2, <2>3, Groups
  <2> QED
    BY <2>1, <2>4
<1>8. (inw % d3) * d3 + (fnw % d3) = T[1] /\ T[1] = name[1]
  <2>1. (inw % d3) * d3 + (fnw % d3) = T[1]
    BY ONLY <1>3, <1>6, <1>7, Powers
  <2>2. 1 \in 1 .. Final - 1
    BY ONLY <1>1, SMT
  <2> HIDE DEF name
  <2> QED
    BY <1>2, <2>1, <2>2
<1>9. ASSUME NEW i \in 1 .. 4
      PROVE  /\ Group(inw, i) = name[i + 1]
             /\ Group(fnw, i) = IF i + 5 <= Len(name) THEN name[i + 5] ELSE 63
  <2> HIDE DEF name
  <2>1. Group(inw, i) = T[i + 1] /\ Group(fnw, i) = Behind5(i)
    BY ONLY <1>6, <1>7, i \in 1 .. 4, SMT
  <2>2. i + 1 \in 1 .. Final - 1
    BY ONLY <1>1, i \in 1 .. 4, SMT
  <2>3. /\ i + 5 < Final <=> i + 5 <= Final - 1
        /\ i + 5 < Final => i + 5 \in 1 .. Final - 1
    BY ONLY <1>1, i \in 1 .. 4, SMT
  <2> QED
    BY <1>2, <2>1, <2>2, <2>3 DEF Behind5
<1>10. Len(name) > 4
  BY <1>1, <1>2, SMT
<1> HIDE DEF name
<1>11. NameKept(name)
  BY <1>1, <1>8, <1>9, <1>10 DEF NameKept
<1> QED
  BY <1>11 DEF name

(* The two words of a name tell its first nine symbols, no more and no     *)
(* less, and all of the name has been read: for every name in which no Z   *)
(* follows the ninth symbol (read_until_next_delimiter).                   *)
THEOREM NamesKeepNineSymbols == ASSUME NoLateZ PROVE Spec => []FirstNineSymbols
<1>1. Init => Reading
  BY InitReading
<1>2. Reading /\ [Next]_vars => Reading'
  BY NextReading
<1>3. Reading => FirstNineSymbols
  <2> SUFFICES ASSUME Reading, IsName, Done PROVE FirstNineSymbols
    BY DEF FirstNineSymbols
  <2>1. /\ NameTypeOK /\ kflag = 0 /\ nflag = 1 /\ at = Final
        /\ (InFirstWord /\ at <= 5) \/ (InSecondWord /\ marker # 0)
    BY DEF Reading, IsName, Done, NameTypeOK
  <2>2. NameKept(SubSeq(item.text, 1, Len(item.text) - 1))
    BY <2>1, ShortNameKept, LongNameKept
  <2> QED
    BY <2>1, <2>2 DEF FirstNineSymbols, AtDelimiter, Final, T
<1> QED
  BY <1>1, <1>2, <1>3, PTL DEF Spec
=============================================================================

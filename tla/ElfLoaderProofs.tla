--------------------------- MODULE ElfLoaderProofs ---------------------------
(* Proofs about ElfLoader for every base, width and buffer size.             *)
EXTENDS ElfLoader, NaturalsInduction, WellFoundedInduction, TLAPS

-----------------------------------------------------------------------------
(* Induction with a set in place of a predicate: the library's induction     *)
(* theorems have an operator as a parameter, this consequence of WFMin has   *)
(* not.                                                                      *)

\* A set of naturals with 0 that is closed under successor is all of Nat.
LEMMA NatSetInduction ==
    ASSUME NEW T \in SUBSET Nat, 0 \in T, \A n \in T : n + 1 \in T
    PROVE  T = Nat
<1> DEFINE Rest == Nat \ T
<1> SUFFICES ASSUME Rest # {} PROVE FALSE
  OBVIOUS
<1>1. IsWellFoundedOn(OpToRel(<, Nat), Nat)
  BY NatLessThanWellFounded
<1>2. PICK x \in Rest : \A y \in Rest : ~ (<<y, x>> \in OpToRel(<, Nat))
  BY <1>1, WFMin
<1>3. x # 0 /\ x - 1 \in Nat /\ x - 1 < x
  OBVIOUS
<1>4. x - 1 \in T
  BY <1>2, <1>3 DEF OpToRel
<1> QED
  BY <1>3, <1>4

-----------------------------------------------------------------------------
(* Sums *)

\* The recursive function of the loop that adds up exists, so that it may be
\* unfolded.
LEMMA PartialSumsExist ==
    ASSUME NEW t, NEW n \in Nat
    PROVE  \E g : g = [i \in 0 .. n |-> IF i = 0 THEN 0 ELSE t[i] + g[i - 1]]
<1> DEFINE Fcn(m, g) == g = [i \in 0 .. m |-> IF i = 0 THEN 0 ELSE t[i] + g[i - 1]]
           T == {m \in Nat : \E g : Fcn(m, g)}
<1>1. 0 \in T
  <2>1. Fcn(0, [i \in 0 .. 0 |-> 0])
    OBVIOUS
  <2> QED
    BY <2>1
<1>2. ASSUME NEW m \in T PROVE m + 1 \in T
  <2>1. PICK g : Fcn(m, g)
    OBVIOUS
  <2> DEFINE h == [i \in 0 .. m + 1 |-> IF i <= m THEN g[i] ELSE t[m + 1] + g[m]]
  <2>2. \A i \in 0 .. m + 1 : h[i] = IF i = 0 THEN 0 ELSE t[i] + h[i - 1]
    BY <2>1
  <2>3. Fcn(m + 1, h)
    BY <2>2
  <2>4. \E f : Fcn(m + 1, f)
    <3> HIDE DEF h, Fcn
    <3> QED
      BY <2>3
  <2> QED
    BY <2>4
<1>3. T = Nat
  BY <1>1, <1>2, NatSetInduction
<1> QED
  BY <1>3

\* A sum of naturals is a natural.
LEMMA TotalType ==
    ASSUME NEW n \in Nat, NEW t, \A i \in 1 .. n : t[i] \in Nat
    PROVE  Total(t, n) \in Nat
<1> DEFINE Fcn(g) == g = [i \in 0 .. n |-> IF i = 0 THEN 0 ELSE t[i] + g[i - 1]]
           Sum == CHOOSE g : Fcn(g)
           T == {m \in Nat : m <= n => Sum[m] \in Nat}
<1>1. Fcn(Sum)
  <2>1. \E g : Fcn(g)
    BY PartialSumsExist, ZenonT(30)
  <2> HIDE DEF Fcn
  <2> QED
    BY <2>1, Zenon
<1> HIDE DEF Sum
<1>2. \A i \in 0 .. n : Sum[i] = IF i = 0 THEN 0 ELSE t[i] + Sum[i - 1]
  BY <1>1
<1>3. 0 \in T
  BY <1>2
<1>4. ASSUME NEW m \in T PROVE m + 1 \in T
  BY <1>2
<1>5. T = Nat
  BY <1>3, <1>4, NatSetInduction
<1>6. Sum[n] \in Nat
  BY <1>5
<1> QED
  BY <1>6 DEF Total, Sum

-----------------------------------------------------------------------------
(* The loader *)

\* The weight of a digit is a natural: by the two inductions above, for powers.
LEMMA WeightType == ASSUME NEW k \in Nat PROVE Weight(k) \in Nat
<1> DEFINE n == k % IntDigits
           Fcn(m, g) == g = [i \in 0 .. m |-> IF i = 0 THEN 1 ELSE Base * g[i - 1]]
           Defined == {m \in Nat : \E g : Fcn(m, g)}
           Power == CHOOSE g : Fcn(n, g)
           Typed == {m \in Nat : m <= n => Power[m] \in Nat}
<1>1. n \in Nat
  BY LoaderAssumption
<1>2. 0 \in Defined
  <2>1. Fcn(0, [i \in 0 .. 0 |-> 1])
    OBVIOUS
  <2> QED
    BY <2>1
<1>3. ASSUME NEW m \in Defined PROVE m + 1 \in Defined
  <2>1. PICK g : Fcn(m, g)
    OBVIOUS
  <2> DEFINE h == [i \in 0 .. m + 1 |-> IF i <= m THEN g[i] ELSE Base * g[m]]
  <2>2. \A i \in 0 .. m + 1 : h[i] = IF i = 0 THEN 1 ELSE Base * h[i - 1]
    BY <2>1
  <2>3. Fcn(m + 1, h)
    BY <2>2
  <2>4. \E f : Fcn(m + 1, f)
    <3> HIDE DEF h, Fcn
    <3> QED
      BY <2>3
  <2> QED
    BY <2>4
<1>4. Defined = Nat
  BY <1>2, <1>3, NatSetInduction
<1>5. Fcn(n, Power)
  BY <1>1, <1>4
<1> HIDE DEF Power
<1>6. \A i \in 0 .. n : Power[i] = IF i = 0 THEN 1 ELSE Base * Power[i - 1]
  BY <1>5
<1>7. 0 \in Typed
  BY <1>1, <1>6
<1>8. ASSUME NEW m \in Typed PROVE m + 1 \in Typed
  <2> SUFFICES ASSUME m + 1 <= n PROVE Power[m + 1] \in Nat
    OBVIOUS
  <2>1. Power[m] \in Nat /\ Power[m + 1] = Base * Power[m]
    BY <1>1, <1>6
  <2> QED
    BY <2>1, LoaderAssumption
<1>9. Typed = Nat
  BY <1>7, <1>8, NatSetInduction
<1>10. Power[n] \in Nat
  BY <1>1, <1>9
<1> QED
  BY <1>10 DEF Weight, Power

\* A size line denotes a natural number, whatever characters it has.
LEMMA ParseHexType == ASSUME NEW s \in Seq(Char) PROVE ParseHex(s) \in Nat
<1> DEFINE t == [i \in 1 .. Len(s) |-> s[i] * Weight(Len(s) - i)]
<1>1. ASSUME \A i \in 1 .. Len(s) : s[i] \in Digit
      PROVE  Total(t, Len(s)) \in Nat
  <2>1. ASSUME NEW i \in 1 .. Len(s) PROVE t[i] \in Nat
    <3>1. s[i] \in Nat
      BY <1>1, LoaderAssumption DEF Digit
    <3>2. Weight(Len(s) - i) \in Nat
      <4>1. Len(s) - i \in Nat
        OBVIOUS
      <4> QED
        BY <4>1, WeightType
    <3> QED
      BY <3>1, <3>2
  <2> HIDE DEF t
  <2> QED
    BY <2>1, TotalType
<1> QED
  BY <1>1 DEF ParseHex

\* Type correctness: the code never leaves the sizes of its two buffers, but
\* for the store that outside records.
THEOREM TypeCorrect == Spec => []TypeOK
<1>1. Init => TypeOK
  <2> SUFFICES ASSUME Init PROVE TypeOK
    OBVIOUS
  <2>1. <<>> \in Seq(Char) /\ Len(<<>>) = 0
    OBVIOUS
  <2>2. outside \in BOOLEAN
    BY DEF Init
  <2> QED
    BY <2>1, <2>2, LoaderAssumption DEF Init, TypeOK, NoFile
<1>2. TypeOK /\ [Next]_vars => TypeOK'
  <2> SUFFICES ASSUME TypeOK, [Next]_vars PROVE TypeOK'
    OBVIOUS
  <2> USE DEF TypeOK
  <2>1. ASSUME NEW c \in Char, EndOfSize(c) PROVE TypeOK'
    BY <2>1, ParseHexType, LoaderAssumption DEF EndOfSize, NoFile
  <2>2. ASSUME NEW c \in Char, StoreDigit(c) PROVE TypeOK'
    BY <2>2, LoaderAssumption DEF StoreDigit, NoFile, Sent
  <2>3. ASSUME NEW c \in Char, DropDigit(c) PROVE TypeOK'
    BY <2>3, LoaderAssumption DEF DropDigit, NoFile, Sent
  <2>4. ASSUME NEW c \in Char, StoreByte(c) PROVE TypeOK'
    <3>1. /\ Append(elf_buffer, c) \in Seq(Char)
          /\ Len(Append(elf_buffer, c)) <= ELF_BUFFER_SIZE
      BY <2>4, LoaderAssumption DEF StoreByte
    <3>2. elf_size' \in Nat /\ outside' \in BOOLEAN
      BY <2>4 DEF StoreByte
    <3>3. /\ elf_buffer' \in Seq(Char) /\ Len(elf_buffer') <= ELF_BUFFER_SIZE
          /\ returned' \in Seq(Char) /\ Len(returned') <= ELF_BUFFER_SIZE
      <4>1. CASE Len(elf_buffer) + 1 >= elf_size
        <5>1. /\ returned' = Append(elf_buffer, c) /\ elf_buffer' = <<>>
              /\ <<>> \in Seq(Char) /\ Len(<<>>) = 0
          BY <2>4, <4>1 DEF StoreByte
        <5> QED
          BY <5>1, <3>1, LoaderAssumption
      <4>2. CASE ~ (Len(elf_buffer) + 1 >= elf_size)
        <5>1. /\ returned' = <<>> /\ elf_buffer' = Append(elf_buffer, c)
              /\ <<>> \in Seq(Char) /\ Len(<<>>) = 0
          BY <2>4, <4>2 DEF StoreByte, NoFile
        <5> QED
          BY <5>1, <3>1, LoaderAssumption
      <4> QED
        BY <4>1, <4>2
    <3> QED
      BY <2>4, <3>2, <3>3 DEF StoreByte
  <2>5. ASSUME NEW c \in Char, StoreOutside(c) PROVE TypeOK'
    BY <2>5 DEF StoreOutside
  <2>6. CASE UNCHANGED vars
    BY <2>6 DEF vars
  <2> QED
    BY <2>1, <2>2, <2>3, <2>4, <2>5, <2>6 DEF Next, HandleInput
<1> QED
  BY <1>1, <1>2, PTL DEF Spec

\* A store outside the buffer keeps the phase as it was, so the two phases
\* exclude each other in every reachable state.
THEOREM PhasesExclusive == Spec => []PhaseOK
<1>1. Init => PhaseOK
  BY DEF Init, PhaseOK
<1>2. TypeOK /\ PhaseOK /\ [Next]_vars => PhaseOK'
  <2> SUFFICES ASSUME TypeOK, PhaseOK, [Next]_vars PROVE PhaseOK'
    OBVIOUS
  <2> USE DEF TypeOK, PhaseOK
  <2>1. ASSUME NEW c \in Char, EndOfSize(c) PROVE PhaseOK'
    BY <2>1, ParseHexType DEF EndOfSize
  <2>2. ASSUME NEW c \in Char, StoreDigit(c) PROVE PhaseOK'
    BY <2>2 DEF StoreDigit
  <2>3. ASSUME NEW c \in Char, DropDigit(c) PROVE PhaseOK'
    BY <2>3 DEF DropDigit
  <2>4. ASSUME NEW c \in Char, StoreByte(c) PROVE PhaseOK'
    BY <2>4 DEF StoreByte
  <2>5. ASSUME NEW c \in Char, StoreOutside(c) PROVE PhaseOK'
    BY <2>5 DEF StoreOutside
  <2>6. CASE UNCHANGED vars
    BY <2>6 DEF vars
  <2> QED
    BY <2>1, <2>2, <2>3, <2>4, <2>5, <2>6 DEF Next, HandleInput
<1> QED
  BY <1>1, <1>2, TypeCorrect, PTL DEF Spec

\* A file is handed over whole, and the call that does so is ready for the
\* next size line: HandsOverWholeFile for every size of the buffers.
THEOREM WholeFileHandedOver == Spec => HandsOverWholeFile
<1> DEFINE HandOver ==
      returned' # NoFile =>
         /\ Len(returned') = elf_size
         /\ elf_size' = 0 /\ elf_buffer' = <<>> /\ size_buffer' = <<>>
<1> DEFINE Quiet == elf_size # 0 => returned = NoFile
<1>1. Init => Quiet
  BY DEF Init
<1>2. TypeOK /\ Quiet /\ [Next]_vars => Quiet'
  BY DEF Next, HandleInput, EndOfSize, StoreDigit, DropDigit, StoreByte,
         StoreOutside, vars, TypeOK, NoFile
<1>3. TypeOK /\ PhaseOK /\ Quiet /\ [Next]_vars => [HandOver]_vars
  <2> SUFFICES ASSUME TypeOK, PhaseOK, Quiet, NEW c \in Char, HandleInput(c)
               PROVE  HandOver
    BY DEF Next
  <2>1. CASE EndOfSize(c)
    BY <2>1 DEF EndOfSize
  <2>2. CASE StoreDigit(c)
    BY <2>2 DEF StoreDigit
  <2>3. CASE DropDigit(c)
    BY <2>3 DEF DropDigit
  <2>4. CASE StoreByte(c)
    BY <2>4 DEF StoreByte, TypeOK, PhaseOK
  <2>5. CASE StoreOutside(c)
    BY <2>5 DEF StoreOutside
  <2> QED
    BY <2>1, <2>2, <2>3, <2>4, <2>5 DEF HandleInput
<1> QED
  BY <1>1, <1>2, <1>3, TypeCorrect, PhasesExclusive, PTL
     DEF Spec, HandsOverWholeFile

\* The only way to a store outside elf_buffer is a size above the buffer's: a
\* file that fills the buffer to its last byte is received inside it.
THEOREM OutsideNeedsOversize == Spec => []OutsideOnlyIfOversize
<1>1. Init => OutsideOnlyIfOversize
  BY DEF Init, OutsideOnlyIfOversize
<1>2. TypeOK /\ PhaseOK /\ OutsideOnlyIfOversize /\ [Next]_vars
         => OutsideOnlyIfOversize'
  <2> SUFFICES ASSUME TypeOK, PhaseOK, OutsideOnlyIfOversize, [Next]_vars
               PROVE  OutsideOnlyIfOversize'
    OBVIOUS
  <2>1. ASSUME NEW c \in Char, StoreOutside(c) PROVE elf_size' > ELF_BUFFER_SIZE
    BY <2>1, LoaderAssumption DEF StoreOutside, TypeOK, PhaseOK
  <2>2. ASSUME NEW c \in Char, HandleInput(c), ~ StoreOutside(c) PROVE ~ outside'
    BY <2>2 DEF HandleInput, EndOfSize, StoreDigit, DropDigit, StoreByte
  <2>3. CASE UNCHANGED vars
    BY <2>3 DEF vars, OutsideOnlyIfOversize
  <2> QED
    BY <2>1, <2>2, <2>3 DEF Next, OutsideOnlyIfOversize
<1> QED
  BY <1>1, <1>2, TypeCorrect, PhasesExclusive, PTL DEF Spec
=============================================================================

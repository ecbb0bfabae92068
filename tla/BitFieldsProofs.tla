-------------------------- MODULE BitFieldsProofs --------------------------
(***************************************************************************)
(* For every choice of arguments and values, and any number of settings:   *)
(* the words of the bit field types behave as records of fields.  The      *)
(* layouts of all kinds are well placed, a field that is written reads     *)
(* back, and nothing else changes.                                         *)
(***************************************************************************)
EXTENDS BitFields, TLAPS

(***************************************************************************)
(* The layouts.                                                            *)
(***************************************************************************)
IsField(f) ==
    /\ f \in [word : Nat, width : Nat, at : Nat]
    /\ f.at + f.width <= 64

Apart(f, g) ==
    \/ f.word # g.word
    \/ f.at + f.width <= g.at
    \/ g.at + g.width <= f.at

WellPlaced(l) ==
    /\ l.size \in Nat \ {0}
    /\ l.tag \subseteq Mask(TagField(l))
    /\ \A f \in DOMAIN l.fields : IsField(l.fields[f]) /\ l.fields[f].word < l.size
    /\ \A f \in DOMAIN l.fields : Apart(l.fields[f], TagField(l))
    /\ \A f, g \in DOMAIN l.fields : f # g => Apart(l.fields[f], l.fields[g])

\* The fields of the types without a tag do not overlap.
LEMMA OneWordPlaced ==
    /\ WellPlaced(CNode_CapData)
    /\ WellPlaced(CapRights)
    /\ WellPlaced(MessageInfo)
<1>1. WellPlaced(CNode_CapData)
  BY DEF WellPlaced, CNode_CapData, Kind, TagField, FaultType, Field, Mask, IsField, Apart,
         CNode_CapData_guard, CNode_CapData_guardSize
<1>2. WellPlaced(CapRights)
  BY DEF WellPlaced, CapRights, Kind, TagField, FaultType, Field, Mask, IsField, Apart,
         CapRights_capAllowGrantReply, CapRights_capAllowGrant, CapRights_capAllowRead,
         CapRights_capAllowWrite
<1>3. WellPlaced(MessageInfo)
  BY DEF WellPlaced, MessageInfo, Kind, TagField, FaultType, Field, Mask, IsField, Apart,
         MessageInfo_label, MessageInfo_capsUnwrapped, MessageInfo_extraCaps,
         MessageInfo_length
<1> QED BY <1>1, <1>2, <1>3

\* The fields of the fault kinds have a word each, and none of them is the word of the tag.
LEMMA FaultsPlaced ==
    /\ WellPlaced(NullFault)
    /\ WellPlaced(CapFault)
    /\ WellPlaced(UnknownSyscall)
    /\ WellPlaced(UserException)
    /\ WellPlaced(Timeout)
    /\ WellPlaced(VMFault)
<1>1. WellPlaced(NullFault)
  BY DEF WellPlaced, NullFault, FaultKind, Kind, TagField, FaultType, Field, WholeWord, Mask,
         IsField, Apart
<1>2. WellPlaced(CapFault)
  BY SMTT(60) DEF WellPlaced, CapFault, FaultKind, Kind, TagField, FaultType, Field, WholeWord, Mask,
         IsField, Apart, CapFault_IP, CapFault_Addr, CapFault_InRecvPhase,
         CapFault_LookupFailureType, CapFault_MR4, CapFault_MR5, CapFault_MR6
<1>3. WellPlaced(UnknownSyscall)
  BY SMTT(60) DEF WellPlaced, UnknownSyscall, FaultKind, Kind, TagField, FaultType, Field, WholeWord,
         Mask, IsField, Apart, UnknownSyscall_X0, UnknownSyscall_X1, UnknownSyscall_X2,
         UnknownSyscall_X3, UnknownSyscall_X4, UnknownSyscall_X5, UnknownSyscall_X6,
         UnknownSyscall_X7, UnknownSyscall_FaultIP, UnknownSyscall_SP, UnknownSyscall_LR,
         UnknownSyscall_SPSR, UnknownSyscall_Syscall
<1>4. WellPlaced(UserException)
  BY DEF WellPlaced, UserException, FaultKind, Kind, TagField, FaultType, Field, WholeWord,
         Mask, IsField, Apart, UserException_FaultIP, UserException_Stack,
         UserException_SPSR, UserException_Number, UserException_Code
<1>5. WellPlaced(Timeout)
  BY DEF WellPlaced, Timeout, FaultKind, Kind, TagField, FaultType, Field, WholeWord, Mask,
         IsField, Apart, Timeout_data, Timeout_consumed
<1>6. WellPlaced(VMFault)
  BY DEF WellPlaced, VMFault, FaultKind, Kind, TagField, FaultType, Field, WholeWord, Mask,
         IsField, Apart, VMFault_IP, VMFault_Addr, VMFault_PrefetchFault, VMFault_FSR
<1> QED BY <1>1, <1>2, <1>3, <1>4, <1>5, <1>6

LEMMA Placed == \A k \in DOMAIN Layouts : WellPlaced(Layouts[k])
BY OneWordPlaced, FaultsPlaced DEF Layouts

\* A kind is known by its type and its tag.
LEMMA TagsDiffer ==
    \A k, m \in DOMAIN Layouts :
        Layouts[k].type = Layouts[m].type /\ Layouts[k].tag = Layouts[m].tag => k = m
<1> DEFINE Tags == <<{}, {0}, {1}, {0, 1}, {0, 2}, {1, 2}>>
<1>1. \A i, j \in 1..6 : Tags[i] = Tags[j] => i = j
  <2>1. /\ 0 \notin Tags[1] /\ 1 \notin Tags[1] /\ 2 \notin Tags[1]
        /\ 0 \in Tags[2] /\ 1 \notin Tags[2] /\ 2 \notin Tags[2]
        /\ 0 \notin Tags[3] /\ 1 \in Tags[3] /\ 2 \notin Tags[3]
        /\ 0 \in Tags[4] /\ 1 \in Tags[4] /\ 2 \notin Tags[4]
        /\ 0 \in Tags[5] /\ 1 \notin Tags[5] /\ 2 \in Tags[5]
        /\ 0 \notin Tags[6] /\ 1 \in Tags[6] /\ 2 \in Tags[6]
    OBVIOUS
  <2> HIDE DEF Tags
  <2> QED BY <2>1
<1>2. /\ NullFault.tag = Tags[1] /\ CapFault.tag = Tags[2] /\ UnknownSyscall.tag = Tags[3]
      /\ UserException.tag = Tags[4] /\ Timeout.tag = Tags[5] /\ VMFault.tag = Tags[6]
  BY DEF NullFault, CapFault, UnknownSyscall, UserException, Timeout, VMFault, FaultKind, Kind
<1>3. /\ CNode_CapData.type = "seL4_CNode_CapData" /\ CapRights.type = "seL4_CapRights"
      /\ MessageInfo.type = "seL4_MessageInfo"
      /\ \A l \in {NullFault, CapFault, UnknownSyscall, UserException, Timeout, VMFault} :
             l.type = "seL4_Fault"
  BY DEF CNode_CapData, CapRights, MessageInfo, NullFault, CapFault, UnknownSyscall,
         UserException, Timeout, VMFault, FaultKind, Kind
<1> HIDE DEF Tags
<1> QED BY <1>1, <1>2, <1>3 DEF Layouts

(***************************************************************************)
(* Masks and shifts, on single words.                                      *)
(***************************************************************************)
Words(l) == [0..l.size - 1 -> SUBSET Bit]

LEMMA ShiftedInMask ==
    ASSUME NEW f, IsField(f), NEW v
    PROVE  Shifted(v, f) \subseteq Mask(f) /\ Mask(f) \subseteq Bit
BY DEF IsField, Shifted, LowBits, Mask, Bit

LEMMA ApartMasks ==
    ASSUME NEW f, NEW g, Apart(f, g), f.word = g.word,
           f \in [word : Nat, width : Nat, at : Nat], g \in [word : Nat, width : Nat, at : Nat]
    PROVE  Mask(f) \cap Mask(g) = {}
BY DEF Apart, Mask

\* Bits that are shifted into place are read back, whatever other bits the word has
\* outside of the field.
LEMMA ReadBack ==
    ASSUME NEW f, IsField(f), NEW v, NEW X, X \cap Mask(f) = Shifted(v, f)
    PROVE  {i - f.at : i \in X \cap Mask(f)} = LowBits(v, f.width)
<1>1. {i - f.at : i \in Shifted(v, f)} = LowBits(v, f.width)
  <2>1. ASSUME NEW j \in LowBits(v, f.width)
        PROVE  j \in {i - f.at : i \in Shifted(v, f)}
    <3>1. j \in Int /\ f.at \in Nat
      BY DEF LowBits, IsField
    <3>2. j + f.at \in Shifted(v, f)
      BY DEF Shifted
    <3> QED BY <3>1, <3>2
  <2>2. ASSUME NEW j \in {i - f.at : i \in Shifted(v, f)}
        PROVE  j \in LowBits(v, f.width)
    BY DEF Shifted, LowBits, IsField
  <2> QED BY <2>1, <2>2
<1> QED BY <1>1

LEMMA PutWords ==
    ASSUME NEW k \in DOMAIN Layouts, NEW ws \in Words(Layouts[k]),
           NEW f \in DOMAIN Layouts[k].fields, NEW v
    PROVE  Put(ws, Layouts[k].fields[f], v) \in Words(Layouts[k])
<1> DEFINE F == Layouts[k].fields[f]
<1>1. IsField(F) /\ F.word \in 0..Layouts[k].size - 1
  BY Placed DEF WellPlaced, IsField
<1>2. Shifted(v, F) \subseteq Bit
  BY <1>1, ShiftedInMask
<1> HIDE DEF F
<1>3. ws[F.word] \in SUBSET Bit
  BY <1>1 DEF Words
<1>4. (ws[F.word] \ Mask(F)) \cup Shifted(v, F) \in SUBSET Bit
  BY <1>2, <1>3
<1>5. Put(ws, F, v) \in Words(Layouts[k])
  BY <1>1, <1>4 DEF Put, Words
<1> QED BY <1>5 DEF F

\* The bits of a value that has just been made: those of its fields, and its tag.
LEMMA MadeBits ==
    ASSUME NEW l, NEW args, NEW w \in 0..l.size - 1, NEW i
    PROVE  i \in Made(l, args)[w] <=>
               \/ w = 0 /\ i \in l.tag
               \/ \E f \in DOMAIN l.fields :
                      l.fields[f].word = w /\ i \in Shifted(args[f], l.fields[f])
<1> DEFINE Fields == {g \in DOMAIN l.fields : l.fields[g].word = w}
           Parts == {Shifted(args[f], l.fields[f]) : f \in Fields}
           Tag == IF w = 0 THEN l.tag ELSE {}
<1>1. Made(l, args)[w] = UNION (Parts \cup {Tag})
  BY DEF Made
<1>2. i \in UNION (Parts \cup {Tag}) <=> i \in Tag \/ \E P \in Parts : i \in P
  OBVIOUS
<1>3. (\E P \in Parts : i \in P) <=> \E f \in Fields : i \in Shifted(args[f], l.fields[f])
  OBVIOUS
<1> QED BY <1>1, <1>2, <1>3

LEMMA MadeWords ==
    ASSUME NEW k \in DOMAIN Layouts, NEW args
    PROVE  Made(Layouts[k], args) \in Words(Layouts[k])
<1> DEFINE l == Layouts[k]
<1>1. WellPlaced(l)
  BY Placed
<1> HIDE DEF l
<1>2. Made(l, args) = [w \in 0..l.size - 1 |-> Made(l, args)[w]]
  BY DEF Made
<1>3. ASSUME NEW w \in 0..l.size - 1, NEW i \in Made(l, args)[w]
      PROVE  i \in Bit
  <2>1. CASE i \in l.tag
    BY <2>1, <1>1 DEF WellPlaced, TagField, Mask, FaultType, Field, Bit
  <2>2. CASE \E f \in DOMAIN l.fields : i \in Shifted(args[f], l.fields[f])
    BY <2>2, <1>1, ShiftedInMask DEF WellPlaced
  <2> QED BY <1>3, <2>1, <2>2, MadeBits
<1>4. \A w \in 0..l.size - 1 : Made(l, args)[w] \in SUBSET Bit
  BY <1>3
<1>5. Made(l, args) \in Words(l)
  BY <1>2, <1>4 DEF Words
<1> QED BY <1>5 DEF l

(***************************************************************************)
(* Making a value, reading a field of it, and setting one.                 *)
(***************************************************************************)
LEMMA TagFieldType ==
    ASSUME NEW l
    PROVE  /\ TagField(l) \in [word : Nat, width : Nat, at : Nat]
           /\ TagField(l).word = 0
BY DEF TagField, FaultType, Field

\* What lies in a field of a value that has just been made are the bits it was given.
LEMMA MadeField ==
    ASSUME NEW l, WellPlaced(l), NEW args, NEW f \in DOMAIN l.fields
    PROVE  Made(l, args)[l.fields[f].word] \cap Mask(l.fields[f]) = Shifted(args[f], l.fields[f])
<1> DEFINE F == l.fields[f]
<1>1. IsField(F) /\ F.word \in 0..l.size - 1
  BY DEF WellPlaced, IsField
<1>2. ASSUME NEW i \in Mask(F), i \in Made(l, args)[F.word]
      PROVE  i \in Shifted(args[f], F)
  <2>1. CASE F.word = 0 /\ i \in l.tag
    <3>1. i \in Mask(TagField(l)) /\ Apart(F, TagField(l))
      BY <2>1 DEF WellPlaced
    <3>2. Mask(F) \cap Mask(TagField(l)) = {}
      BY <1>1, <2>1, <3>1, ApartMasks, TagFieldType DEF IsField
    <3> QED BY <1>2, <3>1, <3>2
  <2>2. ASSUME NEW g \in DOMAIN l.fields, l.fields[g].word = F.word,
               i \in Shifted(args[g], l.fields[g])
        PROVE  g = f
    <3>1. IsField(l.fields[g]) /\ i \in Mask(l.fields[g])
      BY <2>2, ShiftedInMask DEF WellPlaced
    <3>2. g # f => Apart(l.fields[g], F)
      BY DEF WellPlaced
    <3>3. g # f => Mask(l.fields[g]) \cap Mask(F) = {}
      BY <1>1, <2>2, <3>1, <3>2, ApartMasks DEF IsField
    <3> QED BY <1>2, <3>1, <3>3
  <2>3. \/ F.word = 0 /\ i \in l.tag
        \/ \E g \in DOMAIN l.fields :
               l.fields[g].word = F.word /\ i \in Shifted(args[g], l.fields[g])
    BY <1>1, <1>2, MadeBits
  <2> QED BY <2>1, <2>2, <2>3
<1>3. ASSUME NEW i \in Shifted(args[f], F)
      PROVE  i \in Made(l, args)[F.word] /\ i \in Mask(F)
  BY <1>1, <1>3, MadeBits, ShiftedInMask
<1> QED BY <1>2, <1>3

LEMMA GetMade ==
    ASSUME NEW l, WellPlaced(l), NEW args, NEW f \in DOMAIN l.fields
    PROVE  Get(Made(l, args), l.fields[f]) = LowBits(args[f], l.fields[f].width)
<1>1. IsField(l.fields[f])
  BY DEF WellPlaced
<1> QED BY <1>1, MadeField, ReadBack DEF Get

LEMMA TagMade ==
    ASSUME NEW l, WellPlaced(l), NEW args
    PROVE  HasTag(Made(l, args), l)
<1> DEFINE T == TagField(l)
           ws == Made(l, args)
<1>1. CASE l.type = "seL4_Fault"
  <2>1. T = [word |-> 0, width |-> 4, at |-> 0]
    BY <1>1 DEF TagField, FaultType, Field
  <2>2. Mask(T) = 0..3
    BY <2>1 DEF Mask
  <2>3. 0 \in 0..l.size - 1
    BY DEF WellPlaced
  <2>4. ASSUME NEW i \in Mask(T), i \in ws[0]
        PROVE  i \in l.tag
    <3>1. ASSUME NEW g \in DOMAIN l.fields, l.fields[g].word = 0
          PROVE  i \notin Shifted(args[g], l.fields[g])
      <4>1. IsField(l.fields[g]) /\ Apart(l.fields[g], T)
        BY DEF WellPlaced
      <4>2. Mask(l.fields[g]) \cap Mask(T) = {}
        BY <3>1, <4>1, ApartMasks, TagFieldType DEF IsField
      <4>3. Shifted(args[g], l.fields[g]) \subseteq Mask(l.fields[g])
        BY <4>1, ShiftedInMask
      <4> QED BY <4>2, <4>3, <2>4
    <3> QED BY <2>3, <2>4, <3>1, MadeBits
  <2>5. ASSUME NEW i \in l.tag
        PROVE  i \in ws[0] /\ i \in Mask(T)
    BY <2>3, <2>5, MadeBits DEF WellPlaced
  <2> HIDE DEF ws, T
  <2>6. ws[0] \cap Mask(T) = l.tag
    BY <2>4, <2>5
  <2>7. \A i \in l.tag : i \in Int /\ i - 0 = i
    BY <2>2, <2>6
  <2>8. Get(ws, T) = {i - 0 : i \in l.tag}
    BY <2>1, <2>6 DEF Get
  <2>9. Get(ws, T) = l.tag
    BY <2>7, <2>8
  <2> QED BY <2>9 DEF HasTag, ws, T
<1>2. CASE l.type # "seL4_Fault"
  <2>1. Mask(T) = {}
    BY <1>2 DEF TagField, Field, Mask
  <2>2. l.tag = {}
    BY <2>1 DEF WellPlaced
  <2> QED BY <2>1, <2>2 DEF HasTag, Get
<1> QED BY <1>1, <1>2

\* Only the bits that fit a field matter.
LEMMA MadeOfLowBits ==
    ASSUME NEW l, NEW a, NEW b,
           \A f \in DOMAIN l.fields :
               LowBits(a[f], l.fields[f].width) = LowBits(b[f], l.fields[f].width)
    PROVE  Made(l, a) = Made(l, b)
<1>1. \A f \in DOMAIN l.fields : Shifted(a[f], l.fields[f]) = Shifted(b[f], l.fields[f])
  BY DEF Shifted
<1>2. ASSUME NEW w \in 0..l.size - 1
      PROVE  Made(l, a)[w] = Made(l, b)[w]
  <2>1. \A i : i \in Made(l, a)[w] <=> i \in Made(l, b)[w]
    BY <1>1, MadeBits
  <2>2. \A c : Made(l, c)[w] = UNION ({Shifted(c[f], l.fields[f]) :
                     f \in {g \in DOMAIN l.fields : l.fields[g].word = w}}
                  \cup {IF w = 0 THEN l.tag ELSE {}})
    BY DEF Made
  <2> QED BY <2>1, <2>2
<1> QED BY <1>2 DEF Made

\* Setting a field gives the words that the changed arguments would have given.
LEMMA PutMade ==
    ASSUME NEW k \in DOMAIN Layouts, NEW f \in DOMAIN Layouts[k].fields, NEW v,
           NEW a, DOMAIN a = DOMAIN Layouts[k].fields
    PROVE  Put(Made(Layouts[k], a), Layouts[k].fields[f], v)
               = Made(Layouts[k], [a EXCEPT ![f] = v])
<1> DEFINE l == Layouts[k]
           F == l.fields[f]
           b == [a EXCEPT ![f] = v]
<1>1. WellPlaced(l) /\ IsField(F) /\ F.word \in 0..l.size - 1
  BY Placed DEF WellPlaced, IsField
<1>2. b[f] = v /\ \A g \in DOMAIN l.fields \ {f} : b[g] = a[g]
  OBVIOUS
<1>3. Made(l, a) \in Words(l) /\ Made(l, b) \in Words(l)
  BY MadeWords
<1>4. Put(Made(l, a), F, v) \in Words(l)
  BY <1>3, PutWords
<1>5. f \in DOMAIN l.fields
  OBVIOUS
<1> HIDE DEF b, l
<1>6. ASSUME NEW w \in 0..l.size - 1, w # F.word
      PROVE  Put(Made(l, a), F, v)[w] = Made(l, b)[w]
  <2>1. Put(Made(l, a), F, v)[w] = Made(l, a)[w]
    BY <1>3, <1>6 DEF Put, Words
  <2>2. \A i : i \in Made(l, a)[w] <=> i \in Made(l, b)[w]
    BY <1>2, <1>6, MadeBits
  <2>3. Made(l, a)[w] \in SUBSET Bit /\ Made(l, b)[w] \in SUBSET Bit
    BY <1>3 DEF Words
  <2> QED BY <2>1, <2>2, <2>3
<1>7. Put(Made(l, a), F, v)[F.word] = Made(l, b)[F.word]
  <2> DEFINE A == Made(l, a)[F.word]
             B == Made(l, b)[F.word]
  <2>1. Put(Made(l, a), F, v)[F.word] = (A \ Mask(F)) \cup Shifted(v, F)
    BY <1>1, <1>3 DEF Put, Words
  <2>2. B \cap Mask(F) = Shifted(v, F)
    BY <1>1, <1>2, <1>5, MadeField
  <2>3. ASSUME NEW i, i \notin Mask(F)
        PROVE  i \in A <=> i \in B
    <3>1. \A c : i \notin Shifted(c, F)
      BY <1>1, <2>3, ShiftedInMask
    <3> QED BY <1>1, <1>2, <3>1, MadeBits
  <2>4. A \in SUBSET Bit /\ B \in SUBSET Bit
    BY <1>1, <1>3 DEF Words
  <2> HIDE DEF A, B
  <2>5. (A \ Mask(F)) \cup Shifted(v, F) = B
    BY <2>2, <2>3, <2>4
  <2> QED BY <2>1, <2>5 DEF A, B
<1>8. Put(Made(l, a), F, v) = Made(l, b)
  <2> DEFINE P == Put(Made(l, a), F, v)
             M == Made(l, b)
             D == 0..l.size - 1
  <2>1. \A w \in 0..l.size - 1 : P[w] = M[w]
    BY <1>6, <1>7
  <2>2. P \in Words(l) /\ M \in Words(l)
    BY <1>3, <1>4
  <2>3. P = [w \in D |-> P[w]] /\ M = [w \in D |-> M[w]]
    <3> HIDE DEF P, M
    <3> QED BY <2>2 DEF Words
  <2> HIDE DEF P, M, D
  <2>4. P = M
    <3>1. \A w \in D : P[w] = M[w]
      BY <2>1 DEF D
    <3> QED BY <2>3, <3>1
  <2> QED BY <2>4 DEF P, M
<1> QED BY <1>8 DEF b, l

(***************************************************************************)
(* The invariant.  Canonical is inductive with the types alone: it says    *)
(* that the words are those made with the fields that they show, so that   *)
(* setting one more field is making them with one more argument changed.   *)
(***************************************************************************)
TypeOK ==
    /\ kind \in DOMAIN Layouts
    /\ words \in Words(Layout)
    /\ status \in {"unset", "live", "stopped"}
    /\ sets \in Nat

IInv == TypeOK /\ Canonical

Shown == [f \in DOMAIN Layout.fields |-> Get(words, Layout.fields[f])]

\* The words made with some arguments are those made with the fields they show.
LEMMA MadeCanonical ==
    ASSUME NEW l, WellPlaced(l), NEW args
    PROVE  Made(l, args) =
               Made(l, [f \in DOMAIN l.fields |-> Get(Made(l, args), l.fields[f])])
<1> DEFINE b == [f \in DOMAIN l.fields |-> Get(Made(l, args), l.fields[f])]
<1>1. ASSUME NEW f \in DOMAIN l.fields
      PROVE  LowBits(args[f], l.fields[f].width) = LowBits(b[f], l.fields[f].width)
  <2>1. b[f] = LowBits(args[f], l.fields[f].width)
    BY GetMade
  <2> QED BY <2>1 DEF LowBits
<1> HIDE DEF b
<1>2. Made(l, args) = Made(l, b)
  BY <1>1, MadeOfLowBits
<1> QED BY <1>2 DEF b

\* Two kinds of a type with the same tag in the words are one kind.
LEMMA KindByTag ==
    ASSUME IInv, status = "live", NEW k \in DOMAIN Layouts,
           Layouts[k].type = Layout.type, HasTag(words, Layouts[k])
    PROVE  k = kind
<1>1. HasTag(words, Layout)
  BY Placed, TagMade DEF IInv, TypeOK, Canonical, Layout
<1>2. TagField(Layouts[k]) = TagField(Layout)
  BY DEF TagField
<1>3. Layouts[k].tag = Layout.tag
  BY <1>1, <1>2 DEF HasTag
<1> QED BY <1>3, TagsDiffer DEF IInv, TypeOK, Layout

\* What setting a field of the kind does to the words.
LEMMA PutShown ==
    ASSUME IInv, status = "live", NEW f \in DOMAIN Layout.fields, NEW v
    PROVE  Put(words, Layout.fields[f], v) = Made(Layout, [Shown EXCEPT ![f] = v])
<1>1. words = Made(Layout, Shown) /\ kind \in DOMAIN Layouts
  BY DEF IInv, TypeOK, Canonical, Shown
<1>2. DOMAIN Shown = DOMAIN Layout.fields
  BY DEF Shown
<1>3. \A a : DOMAIN a = DOMAIN Layouts[kind].fields =>
               Put(Made(Layouts[kind], a), Layouts[kind].fields[f], v)
                   = Made(Layouts[kind], [a EXCEPT ![f] = v])
  BY <1>1, PutMade DEF Layout
<1> HIDE DEF Shown
<1> QED BY <1>1, <1>2, <1>3 DEF Layout

LEMMA InitIInv == Init => IInv
BY Placed DEF Init, IInv, TypeOK, Canonical, Words, Layout, WellPlaced

LEMMA NextIInv == IInv /\ [Next]_vars => IInv'
<1> SUFFICES ASSUME IInv, [Next]_vars PROVE IInv'
  OBVIOUS
<1>0. kind \in DOMAIN Layouts /\ WellPlaced(Layout)
  BY Placed DEF IInv, TypeOK, Layout
<1>1. ASSUME NEW args \in Calls[kind], New(args)
      PROVE  IInv'
  <2>1. kind' = kind /\ Layout' = Layout /\ sets' = sets /\ sets \in Nat
    BY <1>1 DEF New, Layout, IInv, TypeOK
  <2>2. CASE status' = "stopped" /\ words' = words
    BY <2>1, <2>2 DEF IInv, TypeOK, Canonical
  <2>3. CASE status' = "live" /\ words' = Made(Layout, args)
    <3>1. words' \in Words(Layout)
      BY <1>0, <2>3, MadeWords DEF Layout
    <3>2. words' = Made(Layout, [f \in DOMAIN Layout.fields |-> Get(words', Layout.fields[f])])
      BY <1>0, <2>3, MadeCanonical
    <3> QED BY <1>0, <2>1, <2>3, <3>1, <3>2 DEF IInv, TypeOK, Canonical
  <2> QED BY <1>1, <2>2, <2>3 DEF New
<1>2. ASSUME NEW k \in DOMAIN Layouts, NEW f \in DOMAIN Layouts[k].fields, NEW v \in Values,
             SetField(Layouts[k], f, v)
      PROVE  IInv'
  <2>1. /\ kind' = kind /\ Layout' = Layout /\ status = "live"
        /\ sets' \in Nat
    BY <1>2 DEF SetField, Layout, IInv, TypeOK
  <2>2. CASE status' = "stopped" /\ words' = words
    BY <2>1, <2>2 DEF IInv, TypeOK, Canonical
  <2>3. CASE Layouts[k] = Layout /\ status' = status /\ words' = Put(words, Layout.fields[f], v)
    <3> DEFINE a == [Shown EXCEPT ![f] = v]
    <3>1. f \in DOMAIN Layout.fields
      BY <2>3
    <3>2. words' = Made(Layout, a)
      BY <2>1, <2>3, <3>1, PutShown
    <3> HIDE DEF a
    <3>3. words' \in Words(Layout)
      BY <1>0, <3>2, MadeWords DEF Layout
    <3>4. words' = Made(Layout, [g \in DOMAIN Layout.fields |-> Get(words', Layout.fields[g])])
      BY <1>0, <3>2, MadeCanonical
    <3> QED BY <1>0, <2>1, <2>3, <3>3, <3>4 DEF IInv, TypeOK, Canonical
  <2>4. Asserts /\ HasTag(words, Layouts[k]) => k = kind
    BY <1>2, <2>1, KindByTag DEF SetField
  <2> QED BY <1>2, <2>2, <2>3, <2>4 DEF SetField, Layout
<1>3. ASSUME NEW k \in DOMAIN Layouts, GetWrong(Layouts[k])
      PROVE  IInv'
  BY <1>3 DEF GetWrong, IInv, TypeOK, Canonical, Layout
<1>4. CASE UNCHANGED vars
  BY <1>4 DEF vars, IInv, TypeOK, Canonical, Layout
<1> QED BY <1>1, <1>2, <1>3, <1>4 DEF Next

\* The two fits of a value are the same, and so are the two cuts.
LEMMA RecordOperators ==
    /\ \A v, w : Record!Fits(v, w) <=> Fits(v, w)
    /\ \A v, w : Record!LowBits(v, w) = LowBits(v, w)
BY DEF Record!Fits, Fits, Record!LowBits, LowBits

LEMMA RecordInit == Init => Record!Init
BY DEF Init, Record!Init

\* Every step of the words is a step of the record, or none.
LEMMA RecordNext == IInv /\ [Next]_vars => [Record!Next]_<<kind, Shown, status, sets>>
<1> SUFFICES ASSUME IInv, [Next]_vars
             PROVE  [Record!Next]_<<kind, Shown, status, sets>>
  OBVIOUS
<1>0. kind \in DOMAIN Layouts /\ WellPlaced(Layout)
  BY Placed DEF IInv, TypeOK, Layout
<1>1. ASSUME NEW args \in Calls[kind], New(args)
      PROVE  Record!New(args)
  <2>1. kind' = kind /\ sets' = sets /\ status = "unset" /\ Layout' = Layout
    BY <1>1 DEF New, Layout
  <2>2. DOMAIN args = DOMAIN Layout.fields
    BY <1>0, BitFieldsAssumption DEF Layout
  <2>3. CASE /\ Asserts /\ \E f \in DOMAIN args : ~Fits(args[f], Layout.fields[f].width)
             /\ status' = "stopped" /\ words' = words
    <3>1. Shown' = Shown
      BY <2>1, <2>3 DEF Shown
    <3>2. \E f \in DOMAIN args :
              ~Record!Fits(args[f], [k \in DOMAIN Layouts |->
                 [g \in DOMAIN Layouts[k].fields |-> Layouts[k].fields[g].width]][kind][f])
      BY <1>0, <2>2, <2>3, RecordOperators DEF Layout
    <3> QED BY <2>1, <2>3, <3>1, <3>2 DEF Record!New, Shown
  <2>4. CASE /\ ~(Asserts /\ \E f \in DOMAIN args : ~Fits(args[f], Layout.fields[f].width))
             /\ status' = "live" /\ words' = Made(Layout, args)
    <3> DEFINE Width == [k \in DOMAIN Layouts |->
                 [g \in DOMAIN Layouts[k].fields |-> Layouts[k].fields[g].width]]
    <3>1. /\ DOMAIN Width[kind] = DOMAIN Layout.fields
          /\ \A f \in DOMAIN Layout.fields : Width[kind][f] = Layout.fields[f].width
      BY <1>0 DEF Layout
    <3>2. \A f \in DOMAIN Layout.fields :
              Get(words', Layout.fields[f]) = LowBits(args[f], Layout.fields[f].width)
      BY <1>0, <2>4, GetMade
    <3>3. Shown' = [f \in DOMAIN Layout.fields |-> Get(words', Layout.fields[f])]
      BY <2>1 DEF Shown
    <3> HIDE DEF Width
    <3>4. Shown' = [f \in DOMAIN Width[kind] |-> Record!LowBits(args[f], Width[kind][f])]
      BY <3>1, <3>2, <3>3, RecordOperators
    <3>5. ~(Asserts /\ \E f \in DOMAIN args : ~Record!Fits(args[f], Width[kind][f]))
      BY <2>2, <2>4, <3>1, RecordOperators
    <3> QED BY <1>1, <2>1, <2>4, <3>4, <3>5 DEF Record!New, Shown, Width
  <2> QED BY <1>1, <2>3, <2>4 DEF New
<1>2. ASSUME NEW k \in DOMAIN Layouts, NEW f \in DOMAIN Layouts[k].fields, NEW v \in Values,
             SetField(Layouts[k], f, v)
      PROVE  Record!Next
  <2>1. /\ kind' = kind /\ Layout' = Layout /\ status = "live" /\ sets' = sets + 1
        /\ Layouts[k].type = Layout.type
    BY <1>2 DEF SetField, Layout
  <2>2. Layouts[k] = Layout => k = kind
    BY <1>0, TagsDiffer DEF Layout
  <2>3. HasTag(words, Layout)
    BY <1>0, <2>1, TagMade DEF IInv, Canonical
  <2>4. CASE Asserts /\ ~HasTag(words, Layouts[k]) /\ status' = "stopped" /\ words' = words
    <3>1. k \in DOMAIN Layouts \ {kind}
      BY <2>3, <2>4 DEF Layout
    <3>2. Shown' = Shown
      BY <2>1, <2>4 DEF Shown
    <3>3. [m \in DOMAIN Layouts |-> Layouts[m].type][k]
              = [m \in DOMAIN Layouts |-> Layouts[m].type][kind]
      BY <1>0, <2>1 DEF Layout
    <3>4. Record!Misuse
      BY <2>1, <2>4, <3>1, <3>2, <3>3 DEF Record!Misuse, Shown
    <3> QED BY <3>4 DEF Record!Next
  <2>5. CASE ~(Asserts /\ ~HasTag(words, Layouts[k]))
    <3> DEFINE Width == [m \in DOMAIN Layouts |->
                 [g \in DOMAIN Layouts[m].fields |-> Layouts[m].fields[g].width]]
    <3>1. k = kind
      BY <1>2, <2>1, <2>2, <2>5, KindByTag DEF SetField
    <3>2. f \in DOMAIN Layout.fields /\ Layouts[k] = Layout
      BY <3>1 DEF Layout
    <3>3. /\ DOMAIN Width[kind] = DOMAIN Layout.fields
          /\ \A g \in DOMAIN Layout.fields : Width[kind][g] = Layout.fields[g].width
      BY <1>0 DEF Layout
    <3> HIDE DEF Width
    <3>4. CASE Asserts /\ ~Fits(v, Layout.fields[f].width)
      <4>1. status' = "stopped" /\ words' = words
        BY <1>2, <3>2, <3>4 DEF SetField
      <4>2. Shown' = Shown
        BY <2>1, <4>1 DEF Shown
      <4>3. Asserts /\ ~Record!Fits(v, Width[kind][f])
        BY <3>2, <3>3, <3>4, RecordOperators
      <4> QED BY <2>1, <3>2, <3>3, <4>1, <4>2, <4>3 DEF Record!Set, Shown, Width, Record!Next
    <3>5. CASE ~(Asserts /\ ~Fits(v, Layout.fields[f].width))
      <4> DEFINE a == [Shown EXCEPT ![f] = v]
      <4>1. status' = status /\ words' = Put(words, Layout.fields[f], v)
        BY <1>2, <2>3, <3>2, <3>5 DEF SetField
      <4>2. words' = Made(Layout, a)
        BY <2>1, <3>2, <4>1, PutShown
      <4>3. words = Made(Layout, Shown)
        BY <2>1 DEF IInv, Canonical, Shown
      <4>4. /\ DOMAIN Shown = DOMAIN Layout.fields
            /\ \A g \in DOMAIN Layout.fields : Shown[g] = Get(words, Layout.fields[g])
        BY DEF Shown
      <4>5. a[f] = v /\ \A g \in DOMAIN Layout.fields \ {f} : a[g] = Shown[g]
        BY <3>2, <4>4
      <4>6. Shown' = [g \in DOMAIN Layout.fields |-> Get(words', Layout.fields[g])]
        BY <2>1 DEF Shown
      <4> HIDE DEF a, Shown
      <4>7. \A g \in DOMAIN Layout.fields :
                /\ Get(words', Layout.fields[g]) = LowBits(a[g], Layout.fields[g].width)
                /\ Get(words, Layout.fields[g]) = LowBits(Shown[g], Layout.fields[g].width)
        BY <1>0, <4>2, <4>3, GetMade
      <4>8. Shown' = [Shown EXCEPT ![f] = LowBits(v, Layout.fields[f].width)]
        <5> DEFINE R == [Shown EXCEPT ![f] = LowBits(v, Layout.fields[f].width)]
        <5>1. R = [g \in DOMAIN Shown |-> R[g]]
          OBVIOUS
        <5>2. R[f] = LowBits(v, Layout.fields[f].width)
          BY <3>2, <4>4
        <5>3. \A g \in DOMAIN Layout.fields \ {f} : R[g] = Shown[g]
          BY <3>2, <4>4
        <5> HIDE DEF R
        <5>4. Get(words', Layout.fields[f]) = R[f]
          BY <3>2, <4>5, <4>7, <5>2
        <5>5. \A g \in DOMAIN Layout.fields \ {f} : Get(words', Layout.fields[g]) = R[g]
          BY <4>4, <4>5, <4>7, <5>3
        <5>6. \A g \in DOMAIN Layout.fields : Get(words', Layout.fields[g]) = R[g]
          BY <5>4, <5>5
        <5>7. Shown' = [g \in DOMAIN Layout.fields |-> R[g]]
          BY <4>6, <5>6
        <5>8. R = [g \in DOMAIN Layout.fields |-> R[g]]
          BY <4>4, <5>1
        <5> QED BY <5>7, <5>8 DEF R
      <4>9. Shown' = [Shown EXCEPT ![f] = Record!LowBits(v, Width[kind][f])]
        BY <3>2, <3>3, <4>8, RecordOperators
      <4>10. ~(Asserts /\ ~Record!Fits(v, Width[kind][f]))
        BY <3>2, <3>3, <3>5, RecordOperators
      <4> QED BY <2>1, <3>2, <3>3, <4>1, <4>9, <4>10 DEF Record!Set, Shown, Width, Record!Next
    <3> QED BY <3>4, <3>5
  <2> QED BY <1>2, <2>3, <2>4, <2>5 DEF SetField
<1>3. ASSUME NEW k \in DOMAIN Layouts, GetWrong(Layouts[k])
      PROVE  Record!Misuse
  <2>1. /\ kind' = kind /\ words' = words /\ status = "live" /\ sets' = sets
        /\ Layout' = Layout /\ Layouts[k].type = Layout.type
        /\ ~HasTag(words, Layouts[k]) /\ Asserts /\ status' = "stopped"
    BY <1>3 DEF GetWrong, Layout
  <2>2. HasTag(words, Layout)
    BY <1>0, <2>1, TagMade DEF IInv, Canonical
  <2>3. k \in DOMAIN Layouts \ {kind}
    BY <2>1, <2>2 DEF Layout
  <2>4. [m \in DOMAIN Layouts |-> Layouts[m].type][k]
            = [m \in DOMAIN Layouts |-> Layouts[m].type][kind]
    BY <1>0, <2>1 DEF Layout
  <2>5. Shown' = Shown
    BY <2>1 DEF Shown
  <2> QED BY <2>1, <2>3, <2>4, <2>5 DEF Record!Misuse, Shown
<1>4. CASE UNCHANGED vars
  BY <1>4 DEF vars, Shown, Layout
<1> QED BY <1>1, <1>2, <1>3, <1>4 DEF Next, Record!Next

\* The words of a live value are those of its fields: Canonical always holds.
THEOREM AlwaysCanonical == Spec => []Canonical
<1>1. Init => IInv
  BY InitIInv
<1>2. IInv /\ [Next]_vars => IInv'
  BY NextIInv
<1>3. IInv => Canonical
  BY DEF IInv
<1> QED BY <1>1, <1>2, <1>3, PTL DEF Spec

\* The bit field types of libsel4 implement records of fields: for any arguments, any
\* values and any number of settings, with and without assertions.
THEOREM FieldsImplementRecord == Spec => ImplementsRecord
<1>1. Init => IInv
  BY InitIInv
<1>2. IInv /\ [Next]_vars => IInv'
  BY NextIInv
<1>3. Init => Record!Init
  BY RecordInit
<1>4. IInv /\ [Next]_vars => [Record!Next]_<<kind, Shown, status, sets>>
  BY RecordNext
<1> QED BY <1>1, <1>2, <1>3, <1>4, PTL DEF Spec, ImplementsRecord, Record!Spec, Shown
=============================================================================

------------------------------ MODULE Layouts ------------------------------
(***************************************************************************)
(* Where the fields of the bit field types of libsel4 lie, and how they    *)
(* are read and written: words of 64 bits, masks and shifts.  A word is    *)
(* the set of its bits that are 1 (shared_types_gen.h and                  *)
(* sel4_arch/types_gen.h).  A field has its word, its width and the bit it *)
(* begins at; its four accessors (get and set, by value and by pointer)    *)
(* use the same place.  The kinds of seL4_Fault_t are told apart by a tag  *)
(* in the low four bits of word 0.                                         *)
(***************************************************************************)
EXTENDS Integers

Bit == 0..63

Field(word, width, at) == [word |-> word, width |-> width, at |-> at]
WholeWord(word) == Field(word, 64, 0)

\* seL4_CNode_CapData, seL4_CapRights and seL4_MessageInfo: one word, no tag.
CNode_CapData_guard == Field(0, 58, 6)
CNode_CapData_guardSize == Field(0, 6, 0)
CapRights_capAllowGrantReply == Field(0, 1, 3)
CapRights_capAllowGrant == Field(0, 1, 2)
CapRights_capAllowRead == Field(0, 1, 1)
CapRights_capAllowWrite == Field(0, 1, 0)
MessageInfo_label == Field(0, 52, 12)
MessageInfo_capsUnwrapped == Field(0, 3, 9)
MessageInfo_extraCaps == Field(0, 2, 7)

MessageInfo_length == Field(0, 7, 0)

\* seL4_Fault: fourteen words.
FaultType == Field(0, 4, 0)

CapFault_IP == WholeWord(7)
CapFault_Addr == WholeWord(6)
CapFault_InRecvPhase == WholeWord(5)
CapFault_LookupFailureType == WholeWord(4)
CapFault_MR4 == WholeWord(3)
CapFault_MR5 == WholeWord(2)
CapFault_MR6 == WholeWord(1)

UnknownSyscall_X0 == WholeWord(13)
UnknownSyscall_X1 == WholeWord(12)
UnknownSyscall_X2 == WholeWord(11)
UnknownSyscall_X3 == WholeWord(10)
UnknownSyscall_X4 == WholeWord(9)
UnknownSyscall_X5 == WholeWord(8)
UnknownSyscall_X6 == WholeWord(7)
UnknownSyscall_X7 == WholeWord(6)
UnknownSyscall_FaultIP == WholeWord(5)
UnknownSyscall_SP == WholeWord(4)
UnknownSyscall_LR == WholeWord(3)
UnknownSyscall_SPSR == WholeWord(2)
UnknownSyscall_Syscall == WholeWord(1)

UserException_FaultIP == WholeWord(5)
UserException_Stack == WholeWord(4)
UserException_SPSR == WholeWord(3)
UserException_Number == WholeWord(2)
UserException_Code == WholeWord(1)

Timeout_data == WholeWord(2)
Timeout_consumed == WholeWord(1)

VMFault_IP == WholeWord(4)
VMFault_Addr == WholeWord(3)
VMFault_PrefetchFault == WholeWord(2)
VMFault_FSR == WholeWord(1)

(***************************************************************************)
(* The kinds: the type, the number of words, the tag, and the fields.      *)
(***************************************************************************)
Kind(type, size, tag, fields) == [type |-> type, size |-> size, tag |-> tag, fields |-> fields]
FaultKind(tag, fields) == Kind("seL4_Fault", 14, tag, fields)

\* The tag lies in no bit at all of the types that have none.
TagField(l) == IF l.type = "seL4_Fault" THEN FaultType ELSE Field(0, 0, 0)

CNode_CapData ==
    Kind("seL4_CNode_CapData", 1, {},
        [guard |-> CNode_CapData_guard, guardSize |-> CNode_CapData_guardSize])
CapRights ==
    Kind("seL4_CapRights", 1, {},
        [capAllowGrantReply |-> CapRights_capAllowGrantReply,
         capAllowGrant |-> CapRights_capAllowGrant, capAllowRead |-> CapRights_capAllowRead,
         capAllowWrite |-> CapRights_capAllowWrite])
MessageInfo ==
    Kind("seL4_MessageInfo", 1, {},
        [label |-> MessageInfo_label, capsUnwrapped |-> MessageInfo_capsUnwrapped,
         extraCaps |-> MessageInfo_extraCaps, length |-> MessageInfo_length])
NullFault == FaultKind({}, [f \in {} |-> WholeWord(1)])
CapFault ==
    FaultKind({0},
        [IP |-> CapFault_IP, Addr |-> CapFault_Addr, InRecvPhase |-> CapFault_InRecvPhase,
         LookupFailureType |-> CapFault_LookupFailureType, MR4 |-> CapFault_MR4,
         MR5 |-> CapFault_MR5, MR6 |-> CapFault_MR6])
UnknownSyscall ==
    FaultKind({1},
        [X0 |-> UnknownSyscall_X0, X1 |-> UnknownSyscall_X1, X2 |-> UnknownSyscall_X2,
         X3 |-> UnknownSyscall_X3, X4 |-> UnknownSyscall_X4, X5 |-> UnknownSyscall_X5,
         X6 |-> UnknownSyscall_X6, X7 |-> UnknownSyscall_X7,
         FaultIP |-> UnknownSyscall_FaultIP, SP |-> UnknownSyscall_SP,
         LR |-> UnknownSyscall_LR, SPSR |-> UnknownSyscall_SPSR,
         Syscall |-> UnknownSyscall_Syscall])
UserException ==
    FaultKind({0, 1},
        [FaultIP |-> UserException_FaultIP, Stack |-> UserException_Stack,
         SPSR |-> UserException_SPSR, Number |-> UserException_Number,
         Code |-> UserException_Code])
Timeout ==
    FaultKind({0, 2},
        [data |-> Timeout_data, consumed |-> Timeout_consumed])
VMFault ==
    FaultKind({1, 2},
        [IP |-> VMFault_IP, Addr |-> VMFault_Addr, PrefetchFault |-> VMFault_PrefetchFault,
         FSR |-> VMFault_FSR])

Layouts ==
    [CNode_CapData |-> CNode_CapData, CapRights |-> CapRights, MessageInfo |-> MessageInfo,
     NullFault |-> NullFault, CapFault |-> CapFault, UnknownSyscall |-> UnknownSyscall,
     UserException |-> UserException, Timeout |-> Timeout, VMFault |-> VMFault]

(***************************************************************************)
(* Masks and shifts.                                                       *)
(***************************************************************************)
Mask(f) == f.at..f.at + f.width - 1
LowBits(value, width) == value \cap (0..width - 1)
Fits(value, width) == value \subseteq (0..width - 1)

Shifted(value, f) == {i + f.at : i \in LowBits(value, f.width)}

Get(ws, f) == {i - f.at : i \in ws[f.word] \cap Mask(f)}

\* In place of Put: the old bits of the field are not cleared.
BadPut(ws, f, value) == [ws EXCEPT ![f.word] = @ \cup Shifted(value, f)]
Put(ws, f, value) == [ws EXCEPT ![f.word] = (@ \ Mask(f)) \cup Shifted(value, f)]

Made(l, args) ==
    [w \in 0..l.size - 1 |->
        UNION ({Shifted(args[f], l.fields[f]) : f \in {g \in DOMAIN l.fields : l.fields[g].word = w}}
               \cup {IF w = 0 THEN l.tag ELSE {}})]

\* In place of HasTag: the assertion is left out.
BadHasTag(ws, l) == TRUE
HasTag(ws, l) == Get(ws, TagField(l)) = l.tag
=============================================================================

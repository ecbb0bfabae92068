---------------------------- MODULE AccessRights ----------------------------
(***************************************************************************)
(* The access right table of an ELF file, byte by byte, and its two        *)
(* readers in sel4cp.h: has_protection_domain_control_access_right, which  *)
(* skips over the entries, and set_up_access_rights, which reads and       *)
(* applies them.  sel4cp_pd_create runs the first one before it takes its  *)
(* objects and the second one after the segments are loaded.               *)
(*                                                                         *)
(* What applying an entry does to the kernel is the business of PdCreate   *)
(* and of Channels; here it is the record that reaches the set-up function. *)
(* A byte has ByteBase values instead of 256, so that a field of eight     *)
(* bytes is a number that can be computed with.                            *)
(***************************************************************************)
EXTENDS Integers, Sequences

CONSTANTS
    ByteBase,     \* how many values a byte has
    Tables,       \* the tables, sequences of access rights
    Idents,       \* what e_ident[8], the byte before the offset, may hold
    Gaps          \* how many bytes the file has between header and table

(* What fits a byte, the seven bytes of the offset, and a uint64_t.         *)
ByteValue == 0 .. ByteBase - 1
Power4 == ByteBase * ByteBase * ByteBase * ByteBase
OffsetValue == 0 .. ByteBase * ByteBase * ByteBase * Power4 - 1
WordValue == 0 .. Power4 * Power4 - 1

(* The access rights of the XML file, for which the patcher finds room, and *)
(* one of a kind that the code does not know.                               *)
AccessRight ==
    [type : {"scheduling"}, priority : ByteValue, mcp : ByteValue,
     budget : WordValue, period : WordValue]
    \cup [type : {"channel"}, target_pd : ByteValue, target_id : ByteValue, own_id : ByteValue]
    \cup [type : {"memory_region"}, id : WordValue, vaddr : WordValue, size : WordValue,
          perms : SUBSET {"r", "w", "x"}, cached : BOOLEAN]
    \cup [type : {"irq"}, parent_id : ByteValue, child_id : ByteValue]
    \cup [type : {"protection_domain_control", "unknown"}]

AccessRightsConstants ==
    /\ ByteBase \in Nat /\ ByteBase >= 8
    /\ \A gap \in Gaps : gap \in Nat /\ 16 + gap \in OffsetValue
    /\ Idents \subseteq ByteValue
    /\ \A t \in Tables : t \in Seq(AccessRight) /\ Len(t) \in WordValue

VARIABLES
    elf_file,     \* the bytes of the file, from index 0
    table,        \* the table as it was asked for, in the XML file
    pc,           \* which reader runs, or how it ended
    access_right_reader,
    left,         \* num_access_rights - i
    control,      \* what has_protection_domain_control_access_right returned
    skipped,      \* history: where the first reader found its type ids
    found,        \* history: where the second reader found them
    applied       \* the records that set_up_access_rights acted on

vars == <<elf_file, table, pc, access_right_reader, left, control, skipped, found, applied>>

-----------------------------------------------------------------------------
(* The file, as the access right patcher writes it. *)

EI_NIDENT == 16
EI_ACCESS_RIGHT_TABLE_OFFSET_IDX == 9

SCHEDULING_ID == 0
CHANNEL_ID == 1
MEMORY_REGION_ID == 2
IRQ_ID == 3
PROTECTION_DOMAIN_CONTROL_ID == 4

P_FLAGS_EXECUTABLE == 1
P_FLAGS_WRITABLE == 2
P_FLAGS_READABLE == 4

(* A number in eight bytes, the lowest first. *)
Eight(n) ==
    LET Higher(m) == m \div ByteBase
        n1 == Higher(n)
        n2 == Higher(n1)
        n3 == Higher(n2)
        n4 == Higher(n3)
        n5 == Higher(n4)
        n6 == Higher(n5)
        digits == <<n, n1, n2, n3, n4, n5, n6, Higher(n6)>>
    IN  [k \in 1 .. 8 |-> digits[k] % ByteBase]

Flags(perms) ==
    (IF "r" \in perms THEN P_FLAGS_READABLE ELSE 0)
        + (IF "w" \in perms THEN P_FLAGS_WRITABLE ELSE 0)
        + (IF "x" \in perms THEN P_FLAGS_EXECUTABLE ELSE 0)

(* An access right in bytes.  A kind that the code does not know is only    *)
(* its type id.                                                             *)
Serialized(a) ==
    CASE a.type = "scheduling" ->
           <<SCHEDULING_ID, a.priority, a.mcp>> \o Eight(a.budget) \o Eight(a.period)
      [] a.type = "channel" ->
           <<CHANNEL_ID, a.target_pd, a.target_id, a.own_id>>
      [] a.type = "memory_region" ->
           <<MEMORY_REGION_ID>> \o Eight(a.id) \o Eight(a.vaddr) \o Eight(a.size)
               \o <<Flags(a.perms), IF a.cached THEN 1 ELSE 0>>
      [] a.type = "irq" ->
           <<IRQ_ID, a.parent_id, a.child_id>>
      [] a.type = "protection_domain_control" ->
           <<PROTECTION_DOMAIN_CONTROL_ID>>
      [] OTHER ->
           <<PROTECTION_DOMAIN_CONTROL_ID + 1>>

Concatenated(t) ==
    LET upTo[n \in 0 .. Len(t)] ==
            IF n = 0 THEN <<>> ELSE upTo[n - 1] \o Serialized(t[n])
    IN  upTo[Len(t)]

(* The table goes to the end of the file, and its place into the last seven *)
(* bytes of e_ident.                                                        *)
Patched(t, ident, gap) ==
    LET place == Eight(EI_NIDENT + gap)
        bytes == [k \in 1 .. 8 |-> 0] \o <<ident>> \o SubSeq(place, 1, 7)
                    \o [k \in 1 .. gap |-> ByteBase - 1]
                    \o Eight(Len(t)) \o Concatenated(t)
    IN  [p \in 0 .. Len(bytes) - 1 |-> bytes[p + 1]]

-----------------------------------------------------------------------------
(* Reading memory.  Beyond the file the receive buffer holds other bytes.   *)

Byte(p) ==
    IF p \in DOMAIN elf_file THEN elf_file[p] ELSE 0

(* A load of a uint64_t. *)
Word(p) ==
    LET From(k, higher) == Byte(p + k) + ByteBase * higher
    IN  From(0, From(1, From(2, From(3, From(4, From(5, From(6, From(7, 0))))))))

(* The byte before is not shifted out. *)
Badaccess_right_table_offset ==
    Word(EI_ACCESS_RIGHT_TABLE_OFFSET_IDX - 1) % ByteBase ^ 7

(* The seven bytes are read with the one before them, which is shifted out. *)
access_right_table_offset ==
    Word(EI_ACCESS_RIGHT_TABLE_OFFSET_IDX - 1) \div ByteBase

Init ==
    /\ table \in Tables
    /\ \E ident \in Idents, gap \in Gaps : elf_file = Patched(table, ident, gap)
    /\ pc = "create"
    /\ access_right_reader = 0
    /\ left = 0
    /\ control = FALSE
    /\ skipped = <<>>
    /\ found = <<>>
    /\ applied = <<>>

-----------------------------------------------------------------------------
(* has_protection_domain_control_access_right *)

(* Both readers start alike. *)
Begin(reader) ==
    /\ left' = Word(access_right_table_offset)
    /\ access_right_reader' = access_right_table_offset + 8
    /\ pc' = reader
    /\ UNCHANGED <<elf_file, table, control, skipped, found, applied>>

BeginControl ==
    pc = "create" /\ Begin("control")

(* One byte too few is skipped in a memory region. *)
BadSkip(id) ==
    CASE id = SCHEDULING_ID -> 18
      [] id = CHANNEL_ID -> 3
      [] id = MEMORY_REGION_ID -> 25
      [] id = IRQ_ID -> 2

(* How many bytes follow a type id. *)
Skip(id) ==
    CASE id = SCHEDULING_ID -> 18
      [] id = CHANNEL_ID -> 3
      [] id = MEMORY_REGION_ID -> 26
      [] id = IRQ_ID -> 2

ControlReturns(value) ==
    /\ control' = value
    /\ pc' = "loaded"
    /\ UNCHANGED <<access_right_reader, left>>

(* One iteration. *)
ControlEntry ==
    /\ pc = "control"
    /\ left > 0
    /\ LET id == Byte(access_right_reader)
       IN  /\ skipped' = Append(skipped, access_right_reader)
           /\ \/ /\ id \in {SCHEDULING_ID, CHANNEL_ID, MEMORY_REGION_ID, IRQ_ID}
                 /\ access_right_reader' = access_right_reader + 1 + Skip(id)
                 /\ left' = left - 1
                 /\ UNCHANGED <<pc, control>>
              \/ id = PROTECTION_DOMAIN_CONTROL_ID /\ ControlReturns(TRUE)
              \/ id > PROTECTION_DOMAIN_CONTROL_ID /\ ControlReturns(FALSE)
    /\ UNCHANGED <<elf_file, table, found, applied>>

ControlEnd ==
    /\ pc = "control"
    /\ left = 0
    /\ ControlReturns(FALSE)
    /\ UNCHANGED <<elf_file, table, skipped, found, applied>>

-----------------------------------------------------------------------------
(* set_up_access_rights *)

BeginSetUp ==
    pc = "loaded" /\ Begin("set_up")

Bit(n, flag) == (n \div flag) % 2 = 1

(* sel4cp_internal_parse_cap_rights *)
parse_cap_rights(memory_flags) ==
    IF Bit(memory_flags, P_FLAGS_WRITABLE) THEN "ReadWrite" ELSE "CanRead"

(* sel4cp_internal_parse_vm_attributes *)
parse_vm_attributes(memory_flags, cached) ==
    {"ParityEnabled"}
        \cup (IF cached # 0 THEN {"PageCacheable"} ELSE {})
        \cup (IF Bit(memory_flags, P_FLAGS_EXECUTABLE) THEN {} ELSE {"ExecuteNever"})

(* The entry whose fields begin at p, as the calls of the set-up functions  *)
(* get it, and the number of bytes it took.                                 *)
Scheduling(p) ==
    [entry |-> [type |-> "scheduling", priority |-> Byte(p), mcp |-> Byte(p + 1),
                budget |-> Word(p + 2), period |-> Word(p + 10)],
     bytes |-> 18]

(* Own and target id in the other order. *)
BadChannel(p) ==
    [entry |-> [type |-> "channel", target_pd |-> Byte(p),
                own_id |-> Byte(p + 1), target_id |-> Byte(p + 2)],
     bytes |-> 3]

Channel(p) ==
    [entry |-> [type |-> "channel", target_pd |-> Byte(p),
                target_id |-> Byte(p + 1), own_id |-> Byte(p + 2)],
     bytes |-> 3]

MemoryRegion(p) ==
    [entry |-> [type |-> "memory_region", id |-> Word(p), vaddr |-> Word(p + 8),
                size |-> Word(p + 16), rights |-> parse_cap_rights(Byte(p + 24)),
                attributes |-> parse_vm_attributes(Byte(p + 24), Byte(p + 25))],
     bytes |-> 26]

Irq(p) ==
    [entry |-> [type |-> "irq", parent_id |-> Byte(p), child_id |-> Byte(p + 1)],
     bytes |-> 2]

Control ==
    [entry |-> [type |-> "protection_domain_control"], bytes |-> 0]

Decoded(id, p) ==
    CASE id = SCHEDULING_ID -> Scheduling(p)
      [] id = CHANNEL_ID -> Channel(p)
      [] id = MEMORY_REGION_ID -> MemoryRegion(p)
      [] id = IRQ_ID -> Irq(p)
      [] id = PROTECTION_DOMAIN_CONTROL_ID -> Control

(* One iteration: an entry is read and applied, or its id is not known. *)
SetUpEntry ==
    /\ pc = "set_up"
    /\ left > 0
    /\ LET id == Byte(access_right_reader)
       IN  /\ found' = Append(found, access_right_reader)
           /\ \/ /\ id <= PROTECTION_DOMAIN_CONTROL_ID
                 /\ LET d == Decoded(id, access_right_reader + 1)
                    IN  /\ applied' = Append(applied, d.entry)
                        /\ access_right_reader' = access_right_reader + 1 + d.bytes
                 /\ left' = left - 1
                 /\ UNCHANGED pc
              \/ /\ id > PROTECTION_DOMAIN_CONTROL_ID
                 /\ pc' = "refused"
                 /\ UNCHANGED <<access_right_reader, left, applied>>
    /\ UNCHANGED <<elf_file, table, control, skipped>>

SetUpEnd ==
    /\ pc = "set_up"
    /\ left = 0
    /\ pc' = "done"
    /\ UNCHANGED <<elf_file, table, access_right_reader, left, control, skipped, found, applied>>

Next ==
    \/ BeginControl \/ ControlEntry \/ ControlEnd
    \/ BeginSetUp \/ SetUpEntry \/ SetUpEnd

Spec == Init /\ [][Next]_vars

-----------------------------------------------------------------------------
(* Properties. *)

(* What an entry of the XML file asks for, in the terms of the set-up       *)
(* functions.                                                               *)
Asked(a) ==
    IF a.type # "memory_region" THEN a
    ELSE [type |-> "memory_region", id |-> a.id, vaddr |-> a.vaddr, size |-> a.size,
          rights |-> IF "w" \in a.perms THEN "ReadWrite" ELSE "CanRead",
          attributes |-> {"ParityEnabled"}
              \cup (IF a.cached THEN {"PageCacheable"} ELSE {})
              \cup (IF "x" \in a.perms THEN {} ELSE {"ExecuteNever"})]

Known(a) ==
    a.type \in {"scheduling", "channel", "memory_region", "irq", "protection_domain_control"}

(* Each access right is applied as it was asked for, in the order of the    *)
(* table, and none besides; only an entry that is not known ends the table  *)
(* before its last.                                                         *)
AppliesTable ==
    /\ \A n \in DOMAIN applied : applied[n] = Asked(table[n])
    /\ pc = "done" => Len(applied) = Len(table) /\ \A n \in DOMAIN table : Known(table[n])
    /\ pc = "refused" => ~ Known(table[Len(applied) + 1])

(* "Returns true if and only if the given ELF program contains a            *)
(* protection_domain_control access right", for every table that the second *)
(* reader accepts: the objects of a loader are handed over to a program     *)
(* that may create PDs and to no other.                                     *)
ControlAsListed ==
    pc = "done" => (control <=> \E n \in DOMAIN table : table[n].type = "protection_domain_control")

(* Neither reader leaves the file, and the reader that goes to the end of   *)
(* the table ends at the end of the file.                                   *)
StaysInFile ==
    /\ \A n \in DOMAIN skipped : skipped[n] \in DOMAIN elf_file
    /\ \A n \in DOMAIN found : found[n] \in DOMAIN elf_file
    /\ pc = "done" => access_right_reader - 1 \in DOMAIN elf_file /\ access_right_reader \notin DOMAIN elf_file
=============================================================================

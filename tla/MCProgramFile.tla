--------------------------- MODULE MCProgramFile ----------------------------
(***************************************************************************)
(* Programs as lib/sel4cp.ld lays them out: text from the first page on,   *)
(* data and zeros from Start on, which the linker script aligns to a page, *)
(* the id somewhere in the data segment, and the IPC buffer on the page    *)
(* after it; a header that is not loaded; and files without one of the two *)
(* symbols.                                                                *)
(*                                                                         *)
(* Tables of up to MaxEntries access rights, of all kinds and of one that  *)
(* the code does not know, with numbers that occupy the low, the high and  *)
(* several bytes of their fields.  All programs have the table with the    *)
(* control right only, and one program has all tables.                     *)
(***************************************************************************)
EXTENDS ProgramFile

CONSTANTS
    Texts,      \* sizes of the text
    Datas,      \* sizes of the initialised data
    Spans,      \* sizes of data and zeros together
    MaxEntries  \* of a table

Aligned(a) == ((a + PageSize - 1) \div PageSize) * PageSize

(* Where the data of a program with text bytes of text begins. *)
Start(text) == Aligned(text)

Program(text, data, span, id, symbols) ==
    [segments |->
        <<[type |-> "load", vaddr |-> 0, filesz |-> text, memsz |-> text, flags |-> {"r", "x"}],
          [type |-> "other", vaddr |-> 0, filesz |-> 1, memsz |-> 1, flags |-> {}],
          [type |-> "load", vaddr |-> Start(text), filesz |-> data, memsz |-> span,
           flags |-> {"r", "w"}]>>,
     symbols |-> SelectSeq(
        <<[name |-> "main", value |-> 0],
          [name |-> "sel4cp_current_pd_id", value |-> Start(text) + id],
          [name |-> "__sel4_ipc_buffer_obj", value |-> Aligned(Start(text) + span)]>>,
        LAMBDA s : s.name \in symbols)]

Both == {"main", "sel4cp_current_pd_id", "__sel4_ipc_buffer_obj"}

(* The id lies in the data or in the zeros, aligned to its size. *)
IdPlaces(text, data, span) ==
    {id \in 0 .. span - IdBytes :
        /\ (Start(text) + id) % IdBytes = 0
        /\ id + IdBytes <= data \/ data <= id}

MCPrograms ==
    UNION {UNION {{Program(text, data, span, id, Both) : id \in IdPlaces(text, data, span)}
                    : text \in Texts} : <<data, span>> \in {d \in Datas \X Spans : d[1] <= d[2]}}
        \cup {Program(5, 2, 4, 0, Both \ {s}) : s \in Both}

MCRights ==
    {[type |-> "scheduling", priority |-> 7, mcp |-> 2, budget |-> 1, period |-> ByteBase ^ 7],
     [type |-> "channel", target_pd |-> 2, target_id |-> 1, own_id |-> 3],
     [type |-> "channel", target_pd |-> 4, target_id |-> 0, own_id |-> 4],
     [type |-> "memory_region", id |-> 0, vaddr |-> 4 * ByteBase, size |-> ByteBase + 5,
      perms |-> {"r"}, cached |-> TRUE],
     [type |-> "memory_region", id |-> 3, vaddr |-> 4, size |-> 4 * ByteBase ^ 7,
      perms |-> {"r", "w"}, cached |-> FALSE],
     [type |-> "memory_region", id |-> ByteBase, vaddr |-> 0, size |-> 4,
      perms |-> {"r", "x"}, cached |-> TRUE],
     [type |-> "irq", parent_id |-> 0, child_id |-> 4],
     [type |-> "protection_domain_control"],
     [type |-> "unknown"]}

MCTables == UNION {[1 .. n -> MCRights] : n \in 0 .. MaxEntries}

ControlOnly == <<[type |-> "protection_domain_control"]>>
Small == Program(1, 2, 2, 0, Both)
MCProgramsFor(t) == IF t = ControlOnly THEN MCPrograms ELSE {Small}
=============================================================================

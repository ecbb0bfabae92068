---------------------------- MODULE ElfSegments -----------------------------
(***************************************************************************)
(* sel4cp_internal_pd_load_elf of sel4cp.h, byte by byte: the walk over    *)
(* the loadable segments of an ELF file, the pages that are taken from the *)
(* pool on the way, the id of the PD that is written in place of its       *)
(* symbol, the zeros after the file's bytes, and the page of the IPC       *)
(* buffer.  PdCreate has the kernel's side of the same pages.              *)
(*                                                                         *)
(* An address is a number, and page n begins at n * PageSize.  A byte of   *)
(* the file is the segment and the index that it comes from.               *)
(***************************************************************************)
EXTENDS Integers, Sequences, FiniteSets

CONSTANTS
    PageSize,     \* 0x1000
    IdBytes,      \* sizeof(sel4cp_pd), 4
    PoolPages,    \* POOL_NUM_PAGES
    Programs,     \* the ELF files
    None          \* no write handle, no page, no symbol

ASSUME ElfSegmentsAssumption ==
    /\ PageSize \in Nat \ {0} /\ IdBytes \in Nat \ {0} /\ PoolPages \in Nat
    /\ PageSize % IdBytes = 0
    /\ None \notin Nat /\ None \notin [n : Nat, at : Nat]

(* sel4cp_internal_get_symbol: the value of the first symbol of that name.  *)
get_symbol(src, name) ==
    LET named == {n \in DOMAIN src.symbols : src.symbols[n].name = name}
    IN  IF named = {} THEN None
        ELSE src.symbols[CHOOSE n \in named : \A m \in named : n <= m].value

LoadsOf(src) == {n \in DOMAIN src.segments : src.segments[n].type = "load"}
Addresses(s) == s.vaddr .. s.vaddr + s.memsz - 1

(* The pages that are taken for a segment: one more when it ends where a    *)
(* page ends.                                                               *)
Pages(s) == s.vaddr \div PageSize .. (s.vaddr + s.memsz) \div PageSize

(* Programs as lib/sel4cp.ld lays them out: the id is one aligned variable,  *)
(* of the initialised data or of the zeros; the pages that are taken for a  *)
(* segment hold no byte of one before it, and that of the IPC buffer none.  *)
WellLinked(src) ==
    LET id == get_symbol(src, "sel4cp_current_pd_id")
        ipc == get_symbol(src, "__sel4_ipc_buffer_obj")
        Segment(n) == src.segments[n]
    IN  /\ Len(src.segments) \in Nat /\ DOMAIN src.segments = 1 .. Len(src.segments)
        /\ {id, ipc} \subseteq Nat \cup {None}
        /\ id # None => id % IdBytes = 0
        /\ \A n \in LoadsOf(src) :
              LET s == Segment(n)
              IN  /\ s.vaddr \in Nat /\ s.filesz \in Nat /\ s.memsz \in Nat /\ s.filesz <= s.memsz
                  /\ id # None =>
                        \/ id + IdBytes <= s.vaddr
                        \/ s.vaddr <= id /\ id + IdBytes <= s.vaddr + s.filesz
                        \/ s.vaddr + s.filesz <= id /\ id + IdBytes <= s.vaddr + s.memsz
                        \/ s.vaddr + s.memsz <= id
                  /\ \A a \in Addresses(s) :
                        /\ \A m \in LoadsOf(src) :
                              m > n => a \div PageSize \notin Pages(Segment(m))
                        /\ ipc # None => a \div PageSize # ipc \div PageSize

ASSUME ProgramsAssumption == \A src \in Programs : WellLinked(src)

VARIABLES
    elf,            \* the file
    pc,             \* which loop runs, or how the load ended
    i,              \* the program header
    j,              \* bytes written in the present loop
    src_read,       \* the index in the segment of the next byte of the file
    current_vaddr,
    dst_write,      \* the write handle: a page of the pool and a place in it
    page_idx,       \* alloc_state.page_idx
    memory,         \* the pages of the pool
    mapped,         \* which of them the new PD sees, and how
    outside,        \* whether a byte was written past the end of a page
    denied          \* whether what refused the load was not in the file (history)

vars == <<elf, pc, i, j, src_read, current_vaddr, dst_write, page_idx, memory, mapped, outside,
          denied>>

-----------------------------------------------------------------------------
(* The contents of a byte. *)

Stale == <<"stale">>
Zero == <<"zero">>
FileByte(n, k) == <<"file", n, k>>
IdByte(k) == <<"id", k>>

Pool == 0 .. PoolPages - 1
Offsets == 0 .. PageSize - 1

pd_id_vaddr == get_symbol(elf, "sel4cp_current_pd_id")
ipc_buffer_vaddr == get_symbol(elf, "__sel4_ipc_buffer_obj")

prog_hdr == elf.segments[i]

ReadWrite == {"r", "w"}

Init ==
    /\ elf \in Programs
    /\ pc = "symbol"
    /\ i = 1 /\ j = 0 /\ src_read = 0 /\ current_vaddr = 0
    /\ dst_write = None
    /\ page_idx = 0
    /\ memory = [n \in Pool |-> [o \in Offsets |-> Stale]]
    /\ mapped = <<>>
    /\ outside = FALSE
    /\ denied = FALSE

Fail ==
    /\ pc' = "failed"
    /\ UNCHANGED <<i, j, src_read, current_vaddr, dst_write>>

(* A pool of paging structures is empty, or the kernel refuses a mapping,   *)
(* a copy or the IPC buffer: PdCreate has when.                             *)
Denied == Fail /\ denied' = TRUE

-----------------------------------------------------------------------------
(* Pages. *)

NoPages == page_idx >= PoolPages

(* The next page is mapped in the new PD, in the place of the one that was  *)
(* there.                                                                   *)
take_page(vaddr, flags) ==
    LET page == vaddr \div PageSize
    IN  /\ mapped' = [p \in DOMAIN mapped \cup {page} |->
                        IF p = page THEN [n |-> page_idx, flags |-> flags] ELSE mapped[p]]
        /\ page_idx' = page_idx + 1

(* sel4cp_internal_allocate_page, with the rest of the step that is taken   *)
(* when it and what its caller does with the page succeed.  A page that is  *)
(* taken stays taken when the caller is denied what follows.                *)
allocate_page(vaddr, flags, rest) ==
    \/ ~ NoPages /\ take_page(vaddr, flags) /\ rest /\ UNCHANGED denied
    \/ ~ NoPages /\ take_page(vaddr, flags) /\ Denied
    \/ NoPages /\ Fail /\ UNCHANGED <<page_idx, mapped, denied>>
    \/ Denied /\ UNCHANGED <<page_idx, mapped>>

(* A page is only taken where there is no handle yet. *)
BadNeedsPage(handle, vaddr) == handle = None

NeedsPage(handle, vaddr) ==
    handle = None \/ vaddr % PageSize = 0

(* sel4cp_internal_ensure_page_is_allocated, with the rest of the step that *)
(* is taken when it succeeds.                                               *)
ensure_page_is_allocated(handle, vaddr, flags, rest) ==
    \/ /\ NeedsPage(handle, vaddr)
       /\ allocate_page(vaddr, flags,
             dst_write' = [n |-> page_idx, at |-> vaddr % PageSize] /\ rest)
    \/ /\ ~ NeedsPage(handle, vaddr)
       /\ dst_write' = handle
       /\ rest
       /\ UNCHANGED <<page_idx, mapped, denied>>

-----------------------------------------------------------------------------
(* sel4cp_internal_pd_load_elf *)

FindPdId ==
    /\ pc = "symbol"
    /\ pc' = IF pd_id_vaddr = None THEN "failed" ELSE "segment"
    /\ UNCHANGED <<elf, i, j, src_read, current_vaddr, dst_write, page_idx, memory, mapped,
                   outside, denied>>

SkipSegment ==
    /\ pc = "segment"
    /\ i <= Len(elf.segments)
    /\ prog_hdr.type # "load"
    /\ i' = i + 1
    /\ UNCHANGED <<elf, pc, j, src_read, current_vaddr, dst_write, page_idx, memory, mapped,
                   outside, denied>>

BeginSegment ==
    /\ pc = "segment"
    /\ i <= Len(elf.segments)
    /\ prog_hdr.type = "load"
    /\ ensure_page_is_allocated(None, prog_hdr.vaddr, prog_hdr.flags,
          /\ pc' = "copy" /\ j' = 0 /\ src_read' = 0
          /\ current_vaddr' = prog_hdr.vaddr
          /\ UNCHANGED i)
    /\ UNCHANGED <<elf, memory, outside>>

(* The id counts as one byte. *)
BadWritten == 1

(* What sel4cp_internal_write_elf_data returns. *)
Written ==
    IF current_vaddr = pd_id_vaddr THEN IdBytes ELSE 1

(* sel4cp_internal_write_elf_data: the id at its symbol, else the byte. *)
write_elf_data(data) ==
    LET n == dst_write.n
        o == dst_write.at
        id == current_vaddr = pd_id_vaddr
    IN  /\ memory' = [memory EXCEPT ![n] = [p \in Offsets |->
                        IF id /\ p \in o .. o + IdBytes - 1 THEN IdByte(p - o)
                        ELSE IF ~ id /\ p = o THEN data ELSE memory[n][p]]]
        /\ outside' = (outside \/ o + (IF id THEN IdBytes ELSE 1) > PageSize)

(* The body of both loops. *)
Write(data) ==
    /\ write_elf_data(data)
    /\ ensure_page_is_allocated([dst_write EXCEPT !.at = @ + Written],
                                current_vaddr + Written, prog_hdr.flags,
          /\ j' = j + Written
          /\ src_read' = src_read + Written
          /\ current_vaddr' = current_vaddr + Written
          /\ UNCHANGED <<pc, i>>)
    /\ UNCHANGED elf

Copy ==
    /\ pc = "copy"
    /\ j < prog_hdr.filesz
    /\ Write(FileByte(i, src_read))

CopyEnd ==
    /\ pc = "copy"
    /\ j >= prog_hdr.filesz
    /\ pc' = "zero" /\ j' = 0
    /\ UNCHANGED <<elf, i, src_read, current_vaddr, dst_write, page_idx, memory, mapped,
                   outside, denied>>

Clear ==
    /\ pc = "zero"
    /\ j < prog_hdr.memsz - prog_hdr.filesz
    /\ Write(Zero)

ClearEnd ==
    /\ pc = "zero"
    /\ j >= prog_hdr.memsz - prog_hdr.filesz
    /\ pc' = "segment" /\ i' = i + 1
    /\ UNCHANGED <<elf, j, src_read, current_vaddr, dst_write, page_idx, memory, mapped,
                   outside, denied>>

(* sel4cp_internal_set_up_ipc_buffer *)
SetUpIpcBuffer ==
    /\ pc = "segment"
    /\ i > Len(elf.segments)
    /\ \/ /\ ipc_buffer_vaddr = None
          /\ Fail /\ UNCHANGED <<page_idx, mapped, denied>>
       \/ /\ ipc_buffer_vaddr # None
          /\ allocate_page(ipc_buffer_vaddr, ReadWrite,
                pc' = "done" /\ UNCHANGED <<i, j, src_read, current_vaddr, dst_write>>)
    /\ UNCHANGED <<elf, memory, outside>>

Next ==
    \/ FindPdId \/ SkipSegment \/ BeginSegment
    \/ Copy \/ CopyEnd \/ Clear \/ ClearEnd \/ SetUpIpcBuffer

Spec == Init /\ [][Next]_vars

-----------------------------------------------------------------------------
(* Properties. *)

Loadable == LoadsOf(elf)

(* What the address a of segment n must hold. *)
Linked(n, a) ==
    LET s == elf.segments[n]
    IN  IF a \in pd_id_vaddr .. pd_id_vaddr + IdBytes - 1 THEN IdByte(a - pd_id_vaddr)
        ELSE IF a - s.vaddr < s.filesz THEN FileByte(n, a - s.vaddr)
        ELSE Zero

(* A PD that is started finds each byte of its segments where the program   *)
(* was linked, with the id and the zeros in their places, on pages with the *)
(* rights of the segment, whatever was allocated and mapped after it; and   *)
(* no write on the way leaves the page of the write handle, not even that   *)
(* of the id, which is written as a whole.                                  *)
LoadedAsLinked ==
    /\ ~ outside
    /\ pc = "done" =>
        \A n \in Loadable :
            LET s == elf.segments[n]
            IN  \A a \in Addresses(s) :
                    LET page == a \div PageSize
                    IN  /\ page \in DOMAIN mapped
                        /\ mapped[page].flags = s.flags
                        /\ memory[mapped[page].n][a % PageSize] = Linked(n, a)

(* The pages that the segments before k take; with that of the IPC buffer,  *)
(* how many a load takes.                                                   *)
PagesBefore(k) ==
    UNION {{n} \X Pages(elf.segments[n]) : n \in {m \in Loadable : m < k}}

PagesNeeded == Cardinality(PagesBefore(Len(elf.segments) + 1)) + 1

(* A program that has its symbols, and is denied nothing that does not      *)
(* depend on its file, is refused only when the pool is too small for it.   *)
(* A load takes just these pages, and no more of them when it ends early.   *)
RefusedOnlyIfShort ==
    /\ pc = "failed" /\ ~ denied =>
          pd_id_vaddr = None \/ ipc_buffer_vaddr = None \/ PagesNeeded > PoolPages
    /\ pc = "done" => page_idx = PagesNeeded
    /\ page_idx <= PagesNeeded
=============================================================================

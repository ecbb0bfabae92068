----------------------------- MODULE MCPdCreate -----------------------------
(* Small instances of PdCreate. The root has pools for three PDs and gives a  *)
(* loader one PD's share; per PD there are the paging structures that one     *)
(* program needs and three pages (two of the file and the IPC buffer).        *)
(* A page table covers four pages: 0..3 hold the program, its IPC buffer and  *)
(* the temporary page, as sel4cp.ld lays them out; the UART (page 4) and the  *)
(* test region (pages 8 and 9) lie under page tables of their own.            *)
EXTENDS PdCreate

MCPerPd == [k \in PoolKind |->
               CASE k \in {"pud", "pd"} -> 2 [] k \in {"pt", "page"} -> 3 [] OTHER -> 1]

\* As in configuration.system, where the test region has three pages.
MCRegionOf == [i \in 0 .. 2 |-> IF i < 2 THEN "test_region" ELSE "UART"]
MCRootTables == {<<"pud", 0>>, <<"pd", 0>>, <<"pt", 0>>}

\* ids: root_domain 0, child 1, pong 2, memory_reader 5 in configuration.system
\* and child.c; channel and interrupt ids as in the programs.
Image(name, creates, irq, rights) ==
    [name |-> name, pages |-> <<0, 1>>, hasId |-> TRUE, hasIpc |-> TRUE, ipc |-> 2,
     creates |-> creates, irq |-> irq, rights |-> rights]

Scheduling(prio) == [type |-> "scheduling", priority |-> prio, mcp |-> prio, fits |-> TRUE]
Channel(target, targetId, ownId) ==
    [type |-> "channel", target |-> target, targetId |-> targetId, ownId |-> ownId]
ToPong           == Channel(2, 1, 1)
TestRegion(id, w) == [type |-> "memory", id |-> id, region |-> "test_region",
                      page |-> 8, pages |-> 2, w |-> w]
UartRegion(id)   == [type |-> "memory", id |-> id, region |-> "UART",
                     page |-> 4, pages |-> 1, w |-> TRUE]
Control          == [type |-> "control"]
UartIrq          == [type |-> "irq", parentId |-> 0, childId |-> 4]
Invalid          == [type |-> "invalid"]

MCRoot == Image("root", {1}, 0, <<>>)
MCPong == Image("pong", {}, None, <<>>)

\* dynamic_programs/child_access_rights.xml and memory_reader_access_rights.xml
Child  == Image("child", {5}, 4,
    <<Scheduling(42), ToPong, TestRegion(0, FALSE), Control, UartRegion(2), UartIrq>>)
Reader == Image("memory_reader", {}, None, <<Scheduling(1), TestRegion(0, FALSE)>>)

\* child_access_rights_without_memory_region.xml
ChildWithoutRegion == Image("child", {5}, 4,
    <<Scheduling(42), ToPong, Control, UartRegion(2), UartIrq>>)

\* A file without the IPC buffer's symbol, one without the id's, one that asks
\* for control only after an entry of an unknown type, one without rights.
NoIpc      == [Child EXCEPT !.hasIpc = FALSE]
NoPdId     == [Reader EXCEPT !.hasId = FALSE]
UnknownFirst == [Child EXCEPT !.rights = <<UartIrq, Invalid, Control>>]
NoRights   == [Reader EXCEPT !.rights = <<>>]

AllPrograms == {Child, Reader, NoIpc, NoPdId, UnknownFirst, NoRights}

\* The library beyond the programs of the repository: a root that uses a fresh
\* id for each file, loading PDs that are loaders at the same time, with channels
\* to pong and among each other, and files that ask for what is already taken.
LibraryRoot == Image("root", {1, 5}, 0, <<>>)
Loader  == Image("loader", {5}, None,
    <<Control, Scheduling(42), Channel(2, 4, 1), TestRegion(0, TRUE)>>)
Peer    == Image("peer", {}, None, <<Scheduling(1), Channel(1, 0, 4)>>)
LibraryPrograms == {Loader, Peer}

\* One file each for the runs that end in a violation.
OnlyChild    == {Child}
OnlyNoRights == {NoRights}
WithoutRegion == {ChildWithoutRegion, Reader}

\* The programs lie in memory as the proof about LoadedImage takes it.
ASSUME ProgramsApart

\* The loads that README.md:29-86 documents succeed: child.elf by the root, and
\* memory_reader.elf by the child, each as the first file of its loader.
DocumentedLoads ==
    \A c \in CNode :
        /\ job[c].cnode = 0
        /\ \/ c = 0 /\ job[c].program = Child
           \/ image[c].program = Child /\ job[c].program = Reader
        => job[c].ret = 0 /\ job[c].pc # "crashed"
=============================================================================

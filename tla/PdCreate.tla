------------------------------ MODULE PdCreate ------------------------------
(* sel4cp_pd_create (sel4cp.h:1086) as the protection domains root.c and     *)
(* child.c run it: it takes kernel objects from the pools of its caller,     *)
(* builds the CSpace of a new PD, loads an ELF file into it, sets up the     *)
(* access rights that the file asks for, and starts it. One action is one    *)
(* kernel invocation, or a few that only the calling thread can observe.     *)
(*                                                                           *)
(* A PD is named by the CNode that is its CSpace: 0 is the root, n > 0 the   *)
(* CNode number n of the root's pool. The loaded PDs that hold a share of    *)
(* the pools are loaders too, each with an alloc_state of its own.           *)
EXTENDS CapSpace, Sequences

CONSTANTS
    Programs,   \* the ELF files that may be sent, see ProgramAssumption
    RootImage,  \* root.c, as a program
    RootId,     \* pd_id of root_domain
    StaticId,   \* pd_id of the other static PD (pong)
    RootMcp,    \* maximum controlled priority of root_domain
    TempPage,   \* page of __SEL4_TEMP_PAGE_VADDR
    RootTables, \* paging structures of root_domain at boot: {<<kind, region>>}
    StaticImage,\* the program of the other static PD
    RegionOf    \* shared page of root_domain -> name of its memory region

None == -1

\* What sel4cp.h reads of an ELF file: the pages of its PT_LOAD segments, the
\* symbols sel4cp_current_pd_id and __sel4_ipc_buffer_obj, and the access right
\* table. When it is a loader, creates are the ids that its own code passes to
\* pd_create, and irq is the interrupt on which it receives the files (None: it
\* calls pd_create at times of its own).
ASSUME ProgramAssumption ==
    \A p \in Programs \cup {RootImage, StaticImage} :
        /\ p.pages \in Seq(Page)
        /\ p.hasId \in BOOLEAN /\ p.hasIpc \in BOOLEAN /\ p.ipc \in Page
        /\ p.creates \subseteq PdId
        /\ p.irq \in ChannelId \cup {None}
        /\ Len(p.rights) \in Nat
        /\ \A i \in 1 .. Len(p.rights) :
              LET r == p.rights[i] IN
              /\ r.type = "scheduling" =>
                    r.priority \in Nat /\ r.mcp \in Nat /\ r.fits \in BOOLEAN
              /\ r.type = "channel" =>
                    /\ r.target \in PdId
                    /\ r.targetId \in ChannelId /\ r.ownId \in ChannelId
              /\ r.type = "memory" =>
                    /\ r.pages \in Nat /\ r.w \in BOOLEAN
                    /\ \A m \in 0 .. r.pages - 1 :
                          r.id + m \in SharedIdx /\ r.page + m \in Page
              /\ r.type = "irq" => r.parentId \in ChannelId /\ r.childId \in ChannelId

ASSUME LayoutAssumption ==
    /\ RootId \in PdId /\ StaticId \in PdId /\ RootId # StaticId
    /\ RootMcp \in Nat /\ TempPage \in Page
    /\ RootImage.irq \in ChannelId \cap 0 .. 62
    /\ RootTables \subseteq {"pud", "pd", "pt"} \X Nat

Pc == {"idle", "crashed", "move", "allocate", "asid", "fixed", "space", "bind",
       "segment", "tables", "page", "window", "ipcmap", "ipcbuffer",
       "right", "shared", "irqtarget", "irqmove"}

VARIABLES
    (* the kernel *)
    caps,      \* CNode -> Slot -> capability
    tcb,       \* thread control blocks
    budget,    \* the scheduling contexts that have a budget
    asids,     \* the VSpaces with an ASID
    tables,    \* paging structures that are mapped: <<vspace, kind, region>>
    frames,    \* VSpace -> Page -> the frame mapped there
    irqTarget, \* the capability signalled by the UART interrupt
    (* the protection domains *)
    memory,    \* pool frame -> what was written to it
    image,     \* CNode -> the program that runs in the PD
    alloc,     \* CNode -> alloc_state, the next unused index of every pool
    window,    \* CNode -> alloc_state.temp_page_prepared
    job        \* CNode -> where its call of sel4cp_pd_create stands

space   == <<asids, tables, frames, memory>>
threads == <<tcb, budget, image>>
vars    == <<caps, tcb, budget, asids, tables, frames, irqTarget, memory,
             image, alloc, window, job>>

\* The badge that is minted for channel or interrupt id, 1 << id: an int shift,
\* by id % 32, whose result is extended with its sign.
Badge(id) ==
    LET s == id % 32 IN IF s = 31 THEN 31 .. 63 ELSE {s}

\* The event loop calls notified(id) for a badge: bits 62 and 63 would make it
\* take the signal for a fault or a protected call.
Enters(badge, id) == id \in badge /\ badge \cap {62, 63} = {}

\* It calls notified(id) and no other, for the ids whose shift is exact.
Names(badge, id) == id < 31 => badge = {id}

NoContent == [program |-> "none", k |-> 0]
NoImage == [id |-> None, tcb |-> None, program |-> RootImage]
NoFrame == [kind |-> "null", n |-> 0, w |-> FALSE]
NoTcb   == [cspace |-> None, vspace |-> None, bound |-> None, sc |-> None,
            ipc |-> None, mcp |-> 0, running |-> FALSE]
NoJob   == [pc |-> "idle", program |-> RootImage, id |-> RootId,
            cnode |-> 0, tcb |-> 0, ntfn |-> 0, sc |-> 0, vspace |-> 0,
            k |-> 1, i |-> 0, level |-> 1, own |-> FALSE, page |-> TempPage,
            then |-> "idle", shared |-> 0, ret |-> 0]

----------------------------------------------------------------------------
(* Names for what the code computes from pd, src and alloc_state *)

Target(c)      == job[c].id
Program(c)     == job[c].program
PoolCap(c, k)  == caps[c][At(k, alloc[c][k])]
OwnRoot(c)     == caps[c][At("CNODE", image[c].id)]
NewRoot(c)     == caps[c][At("cnode", job[c].cnode)]
PdRoot(c, pd)  == caps[c][At("CNODE", pd)]
OwnVSpace(c)   == caps[c][At("VSPACE", image[c].id)]
JobVSpace(c)   == IF job[c].own THEN OwnVSpace(c) ELSE caps[c][At("VSPACE", Target(c))]
Exhausted(c, k) == alloc[c][k] >= PoolSize(k)

\* The access right that set_up_access_rights has reached.
RightIs(c, type) ==
    /\ job[c].pc = "right"
    /\ job[c].k <= Len(Program(c).rights)
    /\ Program(c).rights[job[c].k].type = type
Right(c) == Program(c).rights[job[c].k]

\* sel4cp_internal_has_protection_domain_control_access_right: the scan stops
\* at the first entry of an unknown type.
HasControl(p) ==
    \E i \in 1 .. Len(p.rights) :
        /\ p.rights[i].type = "control"
        /\ \A m \in 1 .. i - 1 : p.rights[m].type # "invalid"

Step(c, next) == job' = [job EXCEPT ![c] = next]
Goto(c, pc)   == Step(c, [job[c] EXCEPT !.pc = pc])

\* The call returns -1. Nothing that it did is undone.
Fail(c) == Step(c, [job[c] EXCEPT !.pc = "idle", !.ret = -1])

\* sel4cp_internal_crash: the PD faults and does not run again.
Crash(c) == Goto(c, "crashed")

----------------------------------------------------------------------------
(* The system at boot: the CSpaces that the tool gave the static PDs.        *)

KindIn == [TCB |-> "tcb", SC |-> "sc", CHAN |-> "ntfn", CNODE |-> "cnode", VSPACE |-> "vspace"]

RootCap(s) ==
    CASE s[1] \in PoolKind -> MkCap(s[1], s[2] + 1)
      [] s \in {InputSlot, At("CHAN", RootId)} -> MkCap("ep", 0)
      [] s[1] \in {"TCB", "CNODE", "VSPACE"} /\ s[2] = RootId -> MkCap(KindIn[s[1]], 0)
      [] s[1] \in PdArea /\ s[2] = StaticId ->
            MkCap(KindIn[s[1]], StaticNum(KindIn[s[1]]))
      [] s = FaultSlot   -> MkCap("fault", 0)
      [] s = AsidSlot    -> MkCap("asid", 0)
      [] s = ControlSlot -> MkCap("control", 0)
      [] s = At("IRQ", RootImage.irq) -> MkCap("irq", 0)
      [] s[1] = "SHARED" /\ s[2] \in DOMAIN RegionOf -> MkCap("shared", s[2])
      [] OTHER -> NullCap

StaticCap(s) ==
    CASE s = InputSlot \/ (s[1] \in PdArea \ {"SC"} /\ s[2] = StaticId) ->
            LET k == IF s = InputSlot THEN "ntfn" ELSE KindIn[s[1]]
            IN  MkCap(k, StaticNum(k))
      [] OTHER -> NullCap

Init ==
    /\ caps = [c \in CNode |-> [s \in Slot |->
                  CASE c = 0                  -> RootCap(s)
                    [] c = StaticNum("cnode") -> StaticCap(s)
                    [] OTHER                  -> NullCap]]
    /\ tcb = [t \in ObjNum("tcb") |->
                 IF t \in {0, StaticNum("tcb")}
                 THEN LET Num(k) == IF t = 0 THEN 0 ELSE StaticNum(k)
                      IN  [cspace |-> Num("cnode"), vspace |-> Num("vspace"),
                           bound |-> Num("ntfn"), sc |-> Num("sc"), ipc |-> None,
                           mcp |-> IF t = 0 THEN RootMcp ELSE 0, running |-> TRUE]
                 ELSE NoTcb]
    /\ budget = {0, StaticNum("sc")}
    /\ asids = {0, StaticNum("vspace")}
    /\ tables = {<<0, e[1], e[2]>> : e \in RootTables}
    /\ frames = [v \in VSpace |-> [p \in Page |-> NoFrame]]
    /\ irqTarget = [MkCap("ntfn", 0) EXCEPT !.badge = {RootImage.irq}]
    /\ memory = [f \in ObjNum("page") |-> NoContent]
    /\ image = [c \in CNode |->
                   CASE c = 0 -> [id |-> RootId, tcb |-> 0, program |-> RootImage]
                     [] c = StaticNum("cnode") ->
                           [id |-> StaticId, tcb |-> StaticNum("tcb"), program |-> StaticImage]
                     [] OTHER -> NoImage]
    /\ alloc = [c \in CNode |-> [k \in PoolKind |-> 0]]
    /\ window = [c \in CNode |-> FALSE]
    /\ job = [c \in CNode |-> NoJob]

----------------------------------------------------------------------------
(* sel4cp_pd_create, sel4cp.h:1088-1152: objects from the pools *)

\* The thread of the PD may run: it was started and has a budget.
CanRun(t) == tcb[t].running /\ tcb[t].sc \in budget

\* notified() of root.c and child.c: the UART interrupt reaches this PD under
\* the id that its code expects, so it is the one that receives ELF files.
HandlesInput(c) ==
    /\ image[c] # NoImage
    /\ CanRun(image[c].tcb)
    /\ LET p == image[c].program IN
       /\ p.creates # {}
       /\ p.irq # None => /\ irqTarget.n = tcb[image[c].tcb].bound
                          /\ Enters(irqTarget.badge, p.irq)

\* The forms named Bad* are plausible slips in the code: the properties of the
\* runs are tried against them.
BadEnter(c, p, id) ==
    /\ job[c].pc = "idle"
    /\ id \in image[c].program.creates
    /\ HandlesInput(c)
    /\ Step(c, [NoJob EXCEPT
           !.pc = IF HasControl(p) THEN "move" ELSE "allocate",
           !.program = p, !.id = id, !.cnode = alloc[c]["cnode"]])
    /\ alloc' = [alloc EXCEPT ![c]["cnode"] = @ + 1]
    /\ UNCHANGED <<caps, threads, space, irqTarget, window>>

\* A whole file p was received and sel4cp_pd_create is called with it.
Enter(c, p, id) ==
    /\ job[c].pc = "idle"
    /\ id \in image[c].program.creates
    /\ HandlesInput(c)
    /\ IF Exhausted(c, "cnode")
       THEN Fail(c) /\ UNCHANGED alloc
       ELSE /\ Step(c, [NoJob EXCEPT
                 !.pc = IF HasControl(p) THEN "move" ELSE "allocate",
                 !.program = p, !.id = id,
                 !.cnode = alloc[c]["cnode"]])
            /\ alloc' = [alloc EXCEPT ![c]["cnode"] = @ + 1]
    /\ UNCHANGED <<caps, threads, space, irqTarget, window>>

MoveOrder == <<"tcb", "ntfn", "cnode", "sc", "vspace", "pud", "pd", "pt", "page">>

\* sel4cp_internal_move_pool_caps, one capability: the next unused one of the
\* caller's pool goes to index i of the same pool of the new PD.
MovePoolCap(c) ==
    LET j == job[c]
        kind == MoveOrder[j.k]
        to == At(kind, j.i)
        from == At(kind, alloc[c][kind])
        next == IF j.i + 1 < ChildShare(kind) THEN [j EXCEPT !.i = @ + 1]
                ELSE IF j.k < Len(MoveOrder) THEN [j EXCEPT !.i = 0, !.k = @ + 1]
                ELSE [j EXCEPT !.pc = "allocate"]
    IN  /\ j.pc = "move"
        /\ IF /\ ~Exhausted(c, kind)
              /\ CanTransfer(caps, NewRoot(c), to, OwnRoot(c), from)
           THEN /\ caps' = MoveTo(caps, NewRoot(c), to, OwnRoot(c), from)
                /\ alloc' = [alloc EXCEPT ![c][kind] = @ + 1]
                /\ Step(c, next)
           ELSE Fail(c) /\ UNCHANGED <<caps, alloc>>
        /\ UNCHANGED <<threads, space, irqTarget, window>>

AllocateOrder == <<"tcb", "ntfn", "sc", "vspace">>

BadAllocateObjects(c) ==
    LET Taken == {m \in 1 .. 4 : \A l \in 1 .. m : ~Exhausted(c, AllocateOrder[l])}
    IN  /\ job[c].pc = "allocate"
        /\ alloc' = [alloc EXCEPT ![c] = [k \in PoolKind |->
                        IF \E m \in Taken \ {4} : AllocateOrder[m] = k
                        THEN alloc[c][k] + 1 ELSE alloc[c][k]]]
        /\ IF Taken = 1 .. 4
           THEN Step(c, [job[c] EXCEPT !.pc = "asid",
                    !.tcb = alloc[c]["tcb"], !.ntfn = alloc[c]["ntfn"],
                    !.sc = alloc[c]["sc"], !.vspace = alloc[c]["vspace"]])
           ELSE Fail(c)
        /\ UNCHANGED <<caps, threads, space, irqTarget, window>>

\* One object of each of four kinds, up to the first kind that has run out.
AllocateObjects(c) ==
    LET Taken == {m \in 1 .. 4 : \A l \in 1 .. m : ~Exhausted(c, AllocateOrder[l])}
    IN  /\ job[c].pc = "allocate"
        /\ alloc' = [alloc EXCEPT ![c] = [k \in PoolKind |->
                        IF \E m \in Taken : AllocateOrder[m] = k
                        THEN alloc[c][k] + 1 ELSE alloc[c][k]]]
        /\ IF Taken = 1 .. 4
           THEN Step(c, [job[c] EXCEPT !.pc = "asid",
                    !.tcb = alloc[c]["tcb"], !.ntfn = alloc[c]["ntfn"],
                    !.sc = alloc[c]["sc"], !.vspace = alloc[c]["vspace"]])
           ELSE Fail(c)
        /\ UNCHANGED <<caps, threads, space, irqTarget, window>>

\* seL4_ARM_ASIDPool_Assign
AssignAsid(c) ==
    LET v == caps[c][At("vspace", job[c].vspace)]
    IN  /\ job[c].pc = "asid"
        /\ IF caps[c][AsidSlot].kind = "asid" /\ v.kind = "vspace" /\ v.n \notin asids
           THEN /\ asids' = asids \cup {v.n}
                /\ Step(c, [job[c] EXCEPT !.pc = "fixed", !.k = 1])
           ELSE Fail(c) /\ UNCHANGED asids
        /\ UNCHANGED <<caps, threads, tables, frames, memory, irqTarget, alloc, window>>

----------------------------------------------------------------------------
(* sel4cp_pd_create, sel4cp.h:1154-1346: the CSpace and the thread           *)

Row(into, dst, of, src) == [into |-> into, dst |-> dst, of |-> of, src |-> src]

BadFixedCaps(c) ==
    LET j == job[c] IN
    << Row("new", ControlSlot, "own", ControlSlot),
       Row("new", InputSlot, "own", At("ntfn", j.ntfn)),
       Row("new", At("CHAN", j.id), "new", InputSlot),
       Row("own", At("CHAN", j.id), "new", InputSlot),
       Row("new", AsidSlot, "own", AsidSlot),
       Row("new", At("TCB", image[c].id), "own", At("tcb", j.tcb)),
       Row("own", At("TCB", j.id), "own", At("tcb", j.tcb)),
       Row("new", At("SC", image[c].id), "own", At("sc", j.sc)),
       Row("own", At("SC", j.id), "own", At("sc", j.sc)),
       Row("new", At("CNODE", image[c].id), "own", At("cnode", j.cnode)),
       Row("own", At("CNODE", j.id), "own", At("cnode", j.cnode)),
       Row("new", At("VSPACE", image[c].id), "own", At("vspace", j.vspace)),
       Row("own", At("VSPACE", j.id), "own", At("vspace", j.vspace)) >>

\* The copies in the order of the code: into the new CSpace or the caller's
\* own, of a slot of the one or the other.
FixedCaps(c) ==
    LET j == job[c] IN
    << Row("new", ControlSlot, "own", ControlSlot),
       Row("new", InputSlot, "own", At("ntfn", j.ntfn)),
       Row("new", At("CHAN", j.id), "new", InputSlot),
       Row("own", At("CHAN", j.id), "new", InputSlot),
       Row("new", AsidSlot, "own", AsidSlot),
       Row("new", At("TCB", j.id), "own", At("tcb", j.tcb)),
       Row("own", At("TCB", j.id), "own", At("tcb", j.tcb)),
       Row("new", At("SC", j.id), "own", At("sc", j.sc)),
       Row("own", At("SC", j.id), "own", At("sc", j.sc)),
       Row("new", At("CNODE", j.id), "own", At("cnode", j.cnode)),
       Row("own", At("CNODE", j.id), "own", At("cnode", j.cnode)),
       Row("new", At("VSPACE", j.id), "own", At("vspace", j.vspace)),
       Row("own", At("VSPACE", j.id), "own", At("vspace", j.vspace)) >>

BadCopyFixedCap(c) ==
    LET j == job[c]
        row == FixedCaps(c)[j.k]
        Root(who) == IF who = "own" THEN OwnRoot(c) ELSE NewRoot(c)
    IN  /\ j.pc = "fixed"
        /\ Root(row.into).kind = "cnode" /\ Root(row.of).kind = "cnode"
        /\ caps' = CopyTo(caps, Root(row.into), row.dst, Root(row.of), row.src)
        /\ IF j.k < Len(FixedCaps(c))
           THEN Step(c, [j EXCEPT !.k = @ + 1])
           ELSE Goto(c, "space")
        /\ UNCHANGED <<threads, space, irqTarget, alloc, window>>

BadCopyFixedCapOn(c) ==
    LET j == job[c]
        row == FixedCaps(c)[j.k]
        Root(who) == IF who = "own" THEN OwnRoot(c) ELSE NewRoot(c)
    IN  /\ j.pc = "fixed"
        /\ IF CanTransfer(caps, Root(row.into), row.dst, Root(row.of), row.src)
           THEN caps' = CopyTo(caps, Root(row.into), row.dst, Root(row.of), row.src)
           ELSE UNCHANGED caps
        /\ IF j.k < Len(FixedCaps(c))
           THEN Step(c, [j EXCEPT !.k = @ + 1])
           ELSE Goto(c, "space")
        /\ UNCHANGED <<threads, space, irqTarget, alloc, window>>

CopyFixedCap(c) ==
    LET j == job[c]
        row == FixedCaps(c)[j.k]
        Root(who) == IF who = "own" THEN OwnRoot(c) ELSE NewRoot(c)
    IN  /\ j.pc = "fixed"
        /\ IF CanTransfer(caps, Root(row.into), row.dst, Root(row.of), row.src)
           THEN /\ caps' = CopyTo(caps, Root(row.into), row.dst, Root(row.of), row.src)
                /\ IF j.k < Len(FixedCaps(c))
                   THEN Step(c, [j EXCEPT !.k = @ + 1])
                   ELSE Goto(c, "space")
           ELSE Fail(c) /\ UNCHANGED caps
        /\ UNCHANGED <<threads, space, irqTarget, alloc, window>>

\* seL4_TCB_SetSpace: the fault endpoint is whatever the caller's slot holds.
SetSpace(c) ==
    LET t == caps[c][At("tcb", job[c].tcb)]
        n == NewRoot(c)
        v == caps[c][At("vspace", job[c].vspace)]
    IN  /\ job[c].pc = "space"
        /\ IF t.kind = "tcb" /\ n.kind = "cnode" /\ v.kind = "vspace" /\ v.n \in asids
           THEN /\ tcb' = [tcb EXCEPT ![t.n].cspace = n.n, ![t.n].vspace = v.n]
                /\ Goto(c, "bind")
           ELSE Fail(c) /\ UNCHANGED tcb
        /\ UNCHANGED <<caps, budget, image, space, irqTarget, alloc, window>>

\* seL4_TCB_BindNotification, then the look-up of the symbol of the PD id with
\* which sel4cp_internal_pd_load_elf begins.
BindNotification(c) ==
    LET t == caps[c][At("tcb", job[c].tcb)]
        n == caps[c][At("ntfn", job[c].ntfn)]
    IN  /\ job[c].pc = "bind"
        /\ IF /\ t.kind = "tcb" /\ tcb[t.n].bound = None
              /\ n.kind = "ntfn" /\ \A u \in ObjNum("tcb") : tcb[u].bound # n.n
           THEN /\ tcb' = [tcb EXCEPT ![t.n].bound = n.n]
                /\ IF Program(c).hasId
                   THEN Step(c, [job[c] EXCEPT !.pc = "segment", !.k = 1])
                   ELSE Fail(c)
           ELSE Fail(c) /\ UNCHANGED tcb
        /\ UNCHANGED <<caps, budget, image, space, irqTarget, alloc, window>>

----------------------------------------------------------------------------
(* sel4cp_internal_pd_load_elf: the pages of the new PD                      *)

Tables(j, page, own, then) ==
    [j EXCEPT !.pc = "tables", !.level = 1, !.page = page, !.own = own, !.then = then]

\* The next page of the segments; after the last one the IPC buffer.
NextPage(c) ==
    LET j == job[c] IN
    /\ j.pc = "segment"
    /\ IF j.k <= Len(j.program.pages)
       THEN Step(c, Tables(j, j.program.pages[j.k], FALSE, "page"))
       ELSE IF j.program.hasIpc
            THEN Step(c, Tables(j, j.program.ipc, FALSE, "ipcmap"))
            ELSE Fail(c)
    /\ UNCHANGED <<caps, threads, space, irqTarget, alloc, window>>

TableKind == <<"pud", "pd", "pt">>

BadMapTable(c) ==
    LET j == job[c]
        kind == TableKind[j.level]
        v == JobVSpace(c)
        entry == <<v.n, kind, Region(kind, j.page)>>
    IN  /\ j.pc = "tables"
        /\ IF ~Exhausted(c, kind) /\ PoolCap(c, kind).kind = kind
              /\ v.kind = "vspace" /\ v.n \in asids /\ entry \notin tables
           THEN /\ Step(c, IF j.level < 3 THEN [j EXCEPT !.level = @ + 1]
                                          ELSE [j EXCEPT !.pc = j.then])
                /\ tables' = tables \cup {entry}
                /\ alloc' = [alloc EXCEPT ![c][kind] = @ + 1]
           ELSE Fail(c) /\ UNCHANGED <<tables, alloc>>
        /\ UNCHANGED <<caps, threads, asids, frames, memory, irqTarget, window>>

BadMapTableAgain(c) ==
    LET j == job[c]
        kind == TableKind[j.level]
        v == JobVSpace(c)
        entry == <<v.n, kind, Region(kind, j.page)>>
    IN  /\ j.pc = "tables"
        /\ IF ~Exhausted(c, kind) /\ PoolCap(c, kind).kind = kind
              /\ v.kind = "vspace" /\ v.n \in asids
           THEN IF entry \in tables
                THEN UNCHANGED <<job, tables, alloc>>
                ELSE /\ Step(c, IF j.level < 3 THEN [j EXCEPT !.level = @ + 1]
                                               ELSE [j EXCEPT !.pc = j.then])
                     /\ tables' = tables \cup {entry}
                     /\ alloc' = [alloc EXCEPT ![c][kind] = @ + 1]
           ELSE Fail(c) /\ UNCHANGED <<tables, alloc>>
        /\ UNCHANGED <<caps, threads, asids, frames, memory, irqTarget, window>>

\* One level of sel4cp_internal_set_up_required_paging_structures. The pool is
\* tried before the kernel can say that the structure is there already; an
\* unused capability is never mapped, and the level above was set up before.
MapTable(c) ==
    LET j == job[c]
        kind == TableKind[j.level]
        v == JobVSpace(c)
        entry == <<v.n, kind, Region(kind, j.page)>>
    IN  /\ j.pc = "tables"
        /\ IF ~Exhausted(c, kind) /\ PoolCap(c, kind).kind = kind
              /\ v.kind = "vspace" /\ v.n \in asids
           THEN /\ Step(c, IF j.level < 3 THEN [j EXCEPT !.level = @ + 1]
                                          ELSE [j EXCEPT !.pc = j.then])
                /\ IF entry \in tables
                   THEN UNCHANGED <<tables, alloc>>
                   ELSE /\ tables' = tables \cup {entry}
                        /\ alloc' = [alloc EXCEPT ![c][kind] = @ + 1]
           ELSE Fail(c) /\ UNCHANGED <<tables, alloc>>
        /\ UNCHANGED <<caps, threads, asids, frames, memory, irqTarget, window>>

\* frames when v's page p is mapped to the frame of f; an earlier mapping of
\* the page is replaced.
Mapped(v, p, f, w) ==
    [frames EXCEPT ![v.n][p] = [kind |-> f.kind, n |-> f.n, w |-> w]]

\* frames when the capability f is deleted: the page that it maps is unmapped,
\* unless another frame has replaced it there.
WithoutMapping(f) ==
    IF f.at # Unmapped /\ SameObject(frames[f.at.vs][f.at.page], f)
    THEN [frames EXCEPT ![f.at.vs][f.at.page] = NoFrame]
    ELSE frames

\* The rest of sel4cp_internal_allocate_page: the next frame of the pool is
\* mapped in the new PD, for a segment or for the IPC buffer.
MapPage(c) ==
    LET j == job[c]
        f == PoolCap(c, "page")
        v == JobVSpace(c)
        slot == At("page", alloc[c]["page"])
    IN  /\ j.pc \in {"page", "ipcmap"}
        /\ IF ~Exhausted(c, "page") /\ CanMapPage(f, v, j.page, asids, tables)
           THEN /\ frames' = Mapped(v, j.page, f, TRUE)
                /\ caps' = [caps EXCEPT ![c][slot].at = [vs |-> v.n, page |-> j.page]]
                /\ alloc' = [alloc EXCEPT ![c]["page"] = @ + 1]
                /\ Step(c, IF j.pc = "ipcmap" THEN [j EXCEPT !.pc = "ipcbuffer"]
                           ELSE IF window[c] THEN [j EXCEPT !.pc = "window"]
                           ELSE Tables(j, TempPage, TRUE, "window"))
           ELSE Fail(c) /\ UNCHANGED <<frames, caps, alloc>>
        /\ UNCHANGED <<threads, asids, tables, memory, irqTarget, window>>

BadWriteHandle(c) ==
    LET j == job[c]
        own == OwnRoot(c)
        v == OwnVSpace(c)
        from == At("page", alloc[c]["page"])
        emptied == [caps EXCEPT ![own.n][TempSlot] = NullCap]
        copied == CopyTo(emptied, own, TempSlot, own, from)
        f == copied[own.n][TempSlot]
    IN  /\ j.pc = "window"
        /\ window' = [window EXCEPT ![c] = TRUE]
        /\ IF /\ CanTransfer(emptied, own, TempSlot, own, from)
              /\ CanMapPage(f, v, TempPage, asids, tables)
           THEN /\ caps' = [copied EXCEPT ![own.n][TempSlot].at =
                               [vs |-> v.n, page |-> TempPage]]
                /\ frames' = Mapped(v, TempPage, f, TRUE)
                /\ memory' = [memory EXCEPT ![f.n] = [program |-> j.program.name, k |-> j.k]]
                /\ Step(c, [j EXCEPT !.pc = "segment", !.k = @ + 1])
           ELSE /\ caps' = emptied
                /\ frames' = WithoutMapping(caps[own.n][TempSlot])
                /\ Fail(c) /\ UNCHANGED memory
        /\ UNCHANGED <<threads, asids, tables, irqTarget, alloc>>

\* sel4cp_internal_allocate_page_with_write_handle, from line 603: the frame is
\* mapped at TempPage of the caller through a copy of its capability, and the
\* bytes of the page are written there.
WriteHandle(c) ==
    LET j == job[c]
        own == OwnRoot(c)
        v == OwnVSpace(c)
        from == At("page", alloc[c]["page"] - 1)
        emptied == [caps EXCEPT ![own.n][TempSlot] = NullCap]
        copied == CopyTo(emptied, own, TempSlot, own, from)
        f == copied[own.n][TempSlot]
    IN  /\ j.pc = "window"
        /\ window' = [window EXCEPT ![c] = TRUE]
        /\ IF /\ CanTransfer(emptied, own, TempSlot, own, from)
              /\ CanMapPage(f, v, TempPage, asids, tables)
           THEN /\ caps' = [copied EXCEPT ![own.n][TempSlot].at =
                               [vs |-> v.n, page |-> TempPage]]
                /\ frames' = Mapped(v, TempPage, f, TRUE)
                /\ memory' = [memory EXCEPT ![f.n] = [program |-> j.program.name, k |-> j.k]]
                /\ Step(c, [j EXCEPT !.pc = "segment", !.k = @ + 1])
           ELSE /\ caps' = emptied
                /\ frames' = WithoutMapping(caps[own.n][TempSlot])
                /\ Fail(c) /\ UNCHANGED memory
        /\ UNCHANGED <<threads, asids, tables, irqTarget, alloc>>

\* seL4_TCB_SetIPCBuffer, and on to the access rights.
SetIpcBuffer(c) ==
    LET t == caps[c][At("TCB", Target(c))]
        f == caps[c][At("page", alloc[c]["page"] - 1)]
    IN  /\ job[c].pc = "ipcbuffer"
        /\ IF t.kind = "tcb" /\ f.kind = "page"
           THEN /\ tcb' = [tcb EXCEPT ![t.n].ipc = f.n]
                /\ Step(c, [job[c] EXCEPT !.pc = "right", !.k = 1, !.i = 0])
           ELSE Fail(c) /\ UNCHANGED tcb
        /\ UNCHANGED <<caps, budget, image, space, irqTarget, alloc, window>>

----------------------------------------------------------------------------
(* sel4cp_internal_set_up_access_rights, entry by entry                      *)

\* On to the next entry of the table.
NextRight(j) == [j EXCEPT !.pc = "right", !.k = @ + 1, !.i = 0]

\* seL4_TCB_SetSchedParams binds the scheduling context that pd_create took
\* last; it refuses priorities above the caller's mcp and bound objects.
\* seL4_SchedControl_ConfigureFlags refuses a budget above the period.
SetUpScheduling(c) ==
    LET r == Right(c)
        t == caps[c][At("TCB", Target(c))]
        me == caps[c][At("TCB", image[c].id)]
        s == caps[c][At("sc", alloc[c]["sc"] - 1)]
        b == caps[c][At("SC", Target(c))]
    IN  /\ RightIs(c, "scheduling")
        /\ IF /\ t.kind = "tcb" /\ me.kind = "tcb" /\ s.kind = "sc"
              /\ r.priority <= tcb[me.n].mcp /\ r.mcp <= tcb[me.n].mcp
              /\ tcb[t.n].sc \in {None, s.n}
              /\ \A u \in ObjNum("tcb") \ {t.n} : tcb[u].sc # s.n
           THEN /\ tcb' = [tcb EXCEPT ![t.n].sc = s.n, ![t.n].mcp = r.mcp]
                /\ IF caps[c][ControlSlot].kind = "control" /\ b.kind = "sc" /\ r.fits
                   THEN budget' = budget \cup {b.n} /\ Step(c, NextRight(job[c]))
                   ELSE Crash(c) /\ UNCHANGED budget
           ELSE Crash(c) /\ UNCHANGED <<tcb, budget>>
        /\ UNCHANGED <<caps, image, space, irqTarget, alloc, window>>

BadMintChannel(c) ==
    LET r == Right(c)
        first == job[c].i = 0
        a == IF first THEN Target(c) ELSE r.target
        b == IF first THEN r.target ELSE Target(c)
        aId == IF first THEN r.ownId ELSE r.targetId
        bId == aId
    IN  /\ RightIs(c, "channel")
        /\ IF CanTransfer(caps, PdRoot(c, a), At("OUT", aId), PdRoot(c, b), At("CHAN", b))
           THEN /\ caps' = MintTo(caps, PdRoot(c, a), At("OUT", aId),
                                  PdRoot(c, b), At("CHAN", b), Badge(bId))
                /\ Step(c, IF first THEN [job[c] EXCEPT !.i = 1] ELSE NextRight(job[c]))
           ELSE Crash(c) /\ UNCHANGED caps
        /\ UNCHANGED <<threads, space, irqTarget, alloc, window>>

\* The two mints of sel4cp_internal_set_up_channel: first the new PD may notify
\* the target, then the target the new PD.
MintChannel(c) ==
    LET r == Right(c)
        first == job[c].i = 0
        a == IF first THEN Target(c) ELSE r.target
        b == IF first THEN r.target ELSE Target(c)
        aId == IF first THEN r.ownId ELSE r.targetId
        bId == IF first THEN r.targetId ELSE r.ownId
    IN  /\ RightIs(c, "channel")
        /\ IF CanTransfer(caps, PdRoot(c, a), At("OUT", aId), PdRoot(c, b), At("CHAN", b))
           THEN /\ caps' = MintTo(caps, PdRoot(c, a), At("OUT", aId),
                                  PdRoot(c, b), At("CHAN", b), Badge(bId))
                /\ Step(c, IF first THEN [job[c] EXCEPT !.i = 1] ELSE NextRight(job[c]))
           ELSE Crash(c) /\ UNCHANGED caps
        /\ UNCHANGED <<threads, space, irqTarget, alloc, window>>

\* The next page of a memory region: first its paging structures.
SetUpRegion(c) ==
    LET r == Right(c) IN
    /\ RightIs(c, "memory")
    /\ Step(c, IF job[c].i < r.pages
               THEN Tables(job[c], r.page + job[c].i, FALSE, "shared")
               ELSE NextRight(job[c]))
    /\ UNCHANGED <<caps, threads, space, irqTarget, alloc, window>>

\* The page of the region is mapped, and its capability copied to the new PD.
MapShared(c) ==
    LET j == job[c]
        r == Right(c)
        slot == At("SHARED", r.id + j.i)
        f == caps[c][slot]
        v == JobVSpace(c)
        to == At("SHARED", j.shared)
        mapped == [caps EXCEPT ![c][slot].at = [vs |-> v.n, page |-> j.page]]
    IN  /\ j.pc = "shared"
        /\ IF CanMapPage(f, v, j.page, asids, tables)
           THEN /\ frames' = Mapped(v, j.page, f, r.w /\ f.w)
                /\ IF CanTransfer(mapped, PdRoot(c, j.id), to, OwnRoot(c), slot)
                   THEN /\ caps' = CopyTo(mapped, PdRoot(c, j.id), to, OwnRoot(c), slot)
                        /\ Step(c, [j EXCEPT !.pc = "right", !.i = @ + 1, !.shared = @ + 1])
                   ELSE caps' = mapped /\ Fail(c)
           ELSE Fail(c) /\ UNCHANGED <<frames, caps>>
        /\ UNCHANGED <<threads, asids, tables, memory, irqTarget, alloc, window>>

BadMintIrqBadge(c) ==
    LET own == OwnRoot(c)
        emptied == [caps EXCEPT ![own.n][TempSlot] = NullCap]
        from == At("CHAN", Target(c))
    IN  /\ RightIs(c, "irq")
        /\ frames' = WithoutMapping(caps[own.n][TempSlot])
        /\ IF CanTransfer(emptied, own, TempSlot, own, from)
           THEN /\ caps' = MintTo(emptied, own, TempSlot, own, from, Badge(Right(c).parentId))
                /\ Goto(c, "irqtarget")
           ELSE caps' = emptied /\ Crash(c)
        /\ UNCHANGED <<threads, asids, tables, memory, irqTarget, alloc, window>>

\* sel4cp_internal_set_up_irq: a badged capability to the channel of the new PD
\* is made in the temporary slot, which closes the window that WriteHandle left.
MintIrqBadge(c) ==
    LET own == OwnRoot(c)
        emptied == [caps EXCEPT ![own.n][TempSlot] = NullCap]
        from == At("CHAN", Target(c))
    IN  /\ RightIs(c, "irq")
        /\ frames' = WithoutMapping(caps[own.n][TempSlot])
        /\ IF CanTransfer(emptied, own, TempSlot, own, from)
           THEN /\ caps' = MintTo(emptied, own, TempSlot, own, from, Badge(Right(c).childId))
                /\ Goto(c, "irqtarget")
           ELSE caps' = emptied /\ Crash(c)
        /\ UNCHANGED <<threads, asids, tables, memory, irqTarget, alloc, window>>

\* seL4_IRQHandler_SetNotification
SetIrqTarget(c) ==
    /\ job[c].pc = "irqtarget"
    /\ IF caps[c][At("IRQ", Right(c).parentId)].kind = "irq"
       THEN irqTarget' = caps[c][TempSlot] /\ Goto(c, "irqmove")
       ELSE Crash(c) /\ UNCHANGED irqTarget
    /\ UNCHANGED <<caps, threads, space, alloc, window>>

\* The handler capability moves to the new PD.
MoveIrqHandler(c) ==
    LET to == At("IRQ", Right(c).childId)
        from == At("IRQ", Right(c).parentId)
    IN  /\ job[c].pc = "irqmove"
        /\ IF CanTransfer(caps, PdRoot(c, Target(c)), to, OwnRoot(c), from)
           THEN /\ caps' = MoveTo(caps, PdRoot(c, Target(c)), to, OwnRoot(c), from)
                /\ Step(c, NextRight(job[c]))
           ELSE Crash(c) /\ UNCHANGED caps
        /\ UNCHANGED <<threads, space, irqTarget, alloc, window>>

\* The control right was handled before the objects were allocated.
SkipControl(c) ==
    /\ RightIs(c, "control")
    /\ Step(c, NextRight(job[c]))
    /\ UNCHANGED <<caps, threads, space, irqTarget, alloc, window>>

UnknownRight(c) ==
    /\ RightIs(c, "invalid")
    /\ Fail(c)
    /\ UNCHANGED <<caps, threads, space, irqTarget, alloc, window>>

BadRestart(c) ==
    LET t == caps[c][At("TCB", Target(c))]
        done == job[c].k > Len(Program(c).rights)
    IN  /\ job[c].pc = "right" /\ t.kind = "tcb" /\ (done \/ ~tcb[t.n].running)
        /\ tcb' = [tcb EXCEPT ![t.n].running = TRUE]
        /\ image' = [image EXCEPT ![tcb[t.n].cspace] =
               [id |-> Target(c), tcb |-> t.n, program |-> Program(c)]]
        /\ IF done THEN Goto(c, "idle") ELSE UNCHANGED job
        /\ UNCHANGED <<caps, budget, space, irqTarget, alloc, window>>

\* sel4cp_internal_pd_restart: the thread resumes at the entry point. The PD
\* finds its id in sel4cp_current_pd_id and an alloc_state of zeros.
Restart(c) ==
    LET t == caps[c][At("TCB", Target(c))]
    IN  /\ job[c].pc = "right" /\ job[c].k > Len(Program(c).rights)
        /\ IF t.kind = "tcb"
           THEN /\ tcb' = [tcb EXCEPT ![t.n].running = TRUE]
                /\ image' = [image EXCEPT ![tcb[t.n].cspace] =
                       [id |-> Target(c), tcb |-> t.n, program |-> Program(c)]]
                /\ Step(c, [job[c] EXCEPT !.pc = "idle", !.ret = 0])
           ELSE Crash(c) /\ UNCHANGED <<tcb, image>>
        /\ UNCHANGED <<caps, budget, space, irqTarget, alloc, window>>

----------------------------------------------------------------------------
PdCreateStep(c) ==
    \/ MovePoolCap(c) \/ AllocateObjects(c) \/ AssignAsid(c)
    \/ CopyFixedCap(c) \/ SetSpace(c) \/ BindNotification(c)
    \/ NextPage(c) \/ MapTable(c) \/ MapPage(c) \/ WriteHandle(c) \/ SetIpcBuffer(c)
    \/ SetUpScheduling(c) \/ MintChannel(c) \/ SetUpRegion(c) \/ MapShared(c)
    \/ MintIrqBadge(c) \/ SetIrqTarget(c) \/ MoveIrqHandler(c)
    \/ SkipControl(c) \/ UnknownRight(c) \/ Restart(c)

Next == \E c \in CNode : PdCreateStep(c) \/ \E p \in Programs, id \in PdId : Enter(c, p, id)

Spec == Init /\ [][Next]_vars

\* A thread that is inside pd_create goes on: the kernel schedules it, and
\* nothing in the call waits for another PD.
FairSpec == Spec /\ \A c \in CNode : WF_vars(PdCreateStep(c))

----------------------------------------------------------------------------
(* Properties *)

AnyProgram == Programs \cup {RootImage, StaticImage}

\* The segments, the IPC buffer and the temporary page of a program lie on pages
\* of their own, and its regions on none of its segments or its IPC buffer. The
\* linker script (lib/sel4cp.ld) starts the text, the data and the IPC buffer on a
\* page each, the temporary page is the one after the buffer (sel4cp.h:170), and
\* access rights name addresses far from them. pd_create does not check it.
ProgramsApart ==
    \A p \in Programs :
        /\ \A k, m \in 1 .. Len(p.pages) : p.pages[k] = p.pages[m] => k = m
        /\ \A k \in 1 .. Len(p.pages) : p.pages[k] \notin {p.ipc, TempPage}
        /\ p.ipc # TempPage
        /\ \A i \in 1 .. Len(p.rights) :
              LET r == p.rights[i] IN
              r.type = "memory" =>
                  \A m \in 0 .. r.pages - 1 :
                      /\ r.page + m # p.ipc
                      /\ \A k \in 1 .. Len(p.pages) : r.page + m # p.pages[k]

Job == [pc : Pc, program : AnyProgram, id : PdId,
        cnode : Nat, tcb : Nat, ntfn : Nat, sc : Nat, vspace : Nat,
        k : Nat \ {0}, i : Nat, level : 1 .. 3, own : BOOLEAN, page : Page,
        then : Pc, shared : Nat, ret : {0, -1}]

Tcb == [cspace : Nat \cup {None}, vspace : Nat \cup {None}, bound : Nat \cup {None},
        sc : Nat \cup {None}, ipc : Nat \cup {None}, mcp : Nat, running : BOOLEAN]

Content == [program : {p.name : p \in AnyProgram} \cup {"none"}, k : Nat]

TypeOK ==
    /\ caps \in [CNode -> [Slot -> Cap]]
    /\ tcb \in [ObjNum("tcb") -> Tcb]
    /\ budget \subseteq Nat /\ asids \subseteq Nat
    /\ tables \subseteq Nat \X {"pud", "pd", "pt"} \X Nat
    /\ frames \in [VSpace -> [Page -> [kind : PoolKind \cup OtherKind, n : Nat, w : BOOLEAN]]]
    /\ irqTarget \in Cap
    /\ memory \in [ObjNum("page") -> Content]
    /\ image \in [CNode -> {NoImage} \cup [id : PdId, tcb : Nat, program : AnyProgram]]
    /\ alloc \in [CNode -> [PoolKind -> Nat]]
    /\ \A c \in CNode, k \in PoolKind : alloc[c][k] <= PoolSize(k)
    /\ window \in [CNode -> BOOLEAN]
    /\ job \in [CNode -> Job]

\* The PDs that pd_create has started.
Loaded == {c \in CNode \ {0, StaticNum("cnode")} : image[c] # NoImage}

\* What a pool still offers is unused: an object above the index of alloc_state
\* is designated by no other capability of any CSpace. If it were not so, two
\* PDs could be built on the same object.
PoolFresh ==
    \A c \in CNode, k \in PoolKind : \A i \in alloc[c][k] .. PoolSize(k) - 1 :
        LET offered == caps[c][At(k, i)] IN
        offered.kind # "null" =>
            /\ offered.kind = k
            /\ \A d \in CNode, s \in Slot :
                  SameObject(caps[d][s], offered) => d = c /\ s = At(k, i)

\* At most one PD is inside pd_create or ready to enter it: the interrupt right
\* hands the UART over together with the role of the loader.
OneLoader ==
    \A c, d \in CNode :
        LET Active(e) == job[e].pc \notin {"idle", "crashed"} \/
                         (job[e].pc = "idle" /\ HandlesInput(e))
        IN  Active(c) /\ Active(d) => c = d

\* A running PD that can acknowledge the UART interrupt is the one that it
\* notifies, and its event loop calls notified() with the id that it acknowledges,
\* for ids below 31 (but for the loader that is just handing it over, or crashed
\* while it did).
AckerIsNotified ==
    \A c \in CNode, i \in ChannelId :
        /\ image[c] # NoImage /\ job[c].pc \notin {"irqmove", "crashed"}
        /\ caps[c][At("IRQ", i)].kind = "irq"
        => /\ irqTarget.kind = "ntfn" /\ irqTarget.n = tcb[image[c].tcb].bound
           /\ Names(irqTarget.badge, i)

\* Every channel of a loaded PD works in both directions, also when the PD at the
\* other end is still being set up: a signal makes the other end call notified()
\* with the id under which the other end can signal back, for ids below 31.
ChannelsPaired ==
    \A a \in Loaded, i \in ChannelId :
        LET out == caps[a][At("OUT", i)] IN
        out.kind # "null" =>
            \E b \in CNode, m \in ChannelId :
                LET back == caps[b][At("OUT", m)] IN
                /\ SameObject(out, caps[b][InputSlot]) /\ Names(out.badge, m)
                /\ SameObject(back, caps[a][InputSlot]) /\ Names(back.badge, i)

\* A loaded PD finds itself: the slots under its own id designate the CNode,
\* VSpace, thread, scheduling context and notification that it runs on, so that
\* its own library calls act on itself.
LoadedIsWired ==
    \A c \in Loaded :
        LET t == tcb[image[c].tcb]
            Own(area) == caps[c][At(area, image[c].id)]
        IN  /\ t.running /\ t.cspace = c
            /\ Own("CNODE") = MkCap("cnode", c)
            /\ Own("TCB") = MkCap("tcb", image[c].tcb)
            /\ Own("VSPACE") = MkCap("vspace", t.vspace)
            /\ Own("CHAN") = MkCap("ntfn", t.bound) /\ caps[c][InputSlot] = Own("CHAN")
            /\ t.sc # None => Own("SC") = MkCap("sc", t.sc)

\* The memory of a loaded PD is its program: every page of the file is mapped to
\* a frame that holds it, and the IPC buffer of the thread to a frame that holds
\* none of them.
LoadedImage ==
    \A c \in Loaded :
        LET t == tcb[image[c].tcb]
            p == image[c].program
            FrameAt(page) == frames[t.vspace][page]
        IN  /\ \A k \in 1 .. Len(p.pages) :
                  /\ FrameAt(p.pages[k]).kind = "page"
                  /\ memory[FrameAt(p.pages[k]).n] = [program |-> p.name, k |-> k]
            /\ FrameAt(p.ipc).kind = "page" /\ FrameAt(p.ipc).n = t.ipc
            /\ memory[t.ipc] = NoContent

\* The capabilities under the id of a PD never change once they are there: an id
\* names the same PD for ever, also after a failed call.
HandlesStable ==
    [][\A c \in CNode, area \in PdArea, id \in PdId :
          LET s == At(area, id) IN
          caps[c][s].kind # "null" => caps'[c][s] = caps[c][s]]_vars

\* Creating a PD disturbs none that runs: not its thread, not its memory outside
\* the window that a loader keeps in its own VSpace.
RunningUndisturbed ==
    [][\A c \in CNode : image[c] # NoImage =>
          LET t == image[c].tcb IN
          /\ image'[c] = image[c] /\ tcb'[t] = tcb[t]
          /\ \A p \in Page \ {TempPage} :
                frames'[tcb[t].vspace][p] = frames[tcb[t].vspace][p]]_vars

\* Every call of pd_create comes to an end.
CreateTerminates ==
    \A c \in CNode : job[c].pc # "idle" ~> job[c].pc \in {"idle", "crashed"}

\* A page of a memory region that is mapped for an access right belongs to the
\* region that the right names: README.md:106 says that a PD cannot provide
\* access to a region that it has no access to itself.
RegionAsNamed ==
    [][\A c \in CNode, p \in Page :
          LET v == JobVSpace(c).n IN
          job[c].pc = "shared" /\ frames'[v][p] # frames[v][p] =>
              RegionOf[frames'[v][p].n] = Right(c).region]_vars

\* A call that returns 0 has started the PD: sel4cp.h:946-948.
StartedCanRun == \A c \in Loaded : CanRun(image[c].tcb)

\* What a PD holds of a memory region is no more than its access right table
\* grants: README.md:86, a PD cannot do what it has no access right for.
RightsAttenuated ==
    \A c \in Loaded, i \in SharedIdx :
        LET f == caps[c][At("SHARED", i)]
            Grants(r) == r.type = "memory" /\ r.w /\ r.region = RegionOf[f.n]
        IN  f.kind = "shared" /\ f.w =>
                \E m \in 1 .. Len(image[c].program.rights) :
                    Grants(image[c].program.rights[m])
=============================================================================

--------------------------- MODULE PdCreateProofs ---------------------------
(* Proofs about PdCreate, for every size of the pools, every set of ids and   *)
(* every program that can be sent: first the types and the ids, then that     *)
(* several loaders at once make each PD right and disturb none: the pools     *)
(* stay disjoint and fresh, a PD that runs finds itself under its own id, and *)
(* the making of others does not touch it. For these the invariant Wired says *)
(* where every call of pd_create stands: which objects it has taken, that     *)
(* nobody else uses them, and which copies of them it has made.               *)
EXTENDS PdCreate, SlotLayout, NaturalsInduction, WellFoundedInduction, TLAPS

-----------------------------------------------------------------------------
(* Induction with a set in place of a predicate: the library's induction     *)
(* theorems have an operator as a parameter, this consequence of WFMin has   *)
(* not.                                                                      *)

\* A set of naturals with 0 that is closed under successor is all of Nat.
LEMMA NatSetInduction ==
    ASSUME NEW T \in SUBSET Nat, 0 \in T, \A n \in T : n + 1 \in T
    PROVE  T = Nat
<1> DEFINE Rest == Nat \ T
<1> SUFFICES ASSUME Rest # {} PROVE FALSE
  OBVIOUS
<1>1. IsWellFoundedOn(OpToRel(<, Nat), Nat)
  BY NatLessThanWellFounded
<1>2. PICK x \in Rest : \A y \in Rest : ~ (<<y, x>> \in OpToRel(<, Nat))
  BY <1>1, WFMin
<1>3. x # 0 /\ x - 1 \in Nat /\ x - 1 < x
  OBVIOUS
<1>4. x - 1 \in T
  BY <1>2, <1>3 DEF OpToRel
<1> QED
  BY <1>3, <1>4

----------------------------------------------------------------------------
(* The inductive invariant *)

\* A capability to a CNode designates the CSpace of some PD.
GoodCap(x) == x \in Cap /\ (x.kind = "cnode" => x.n \in CNode)

GoodCaps(cs) ==
    /\ cs \in [CNode -> [Slot -> Cap]]
    /\ \A c \in CNode, s \in Slot : cs[c][s].kind = "cnode" => cs[c][s].n \in CNode

\* Where job j of a PD with pool indices a and image im stands, in the terms
\* that its later steps rely on.
JobOK(j, a, im) ==
    /\ j.cnode < PoolSize("cnode") /\ j.tcb < PoolSize("tcb") /\ j.ntfn < PoolSize("ntfn")
    /\ j.sc < PoolSize("sc") /\ j.vspace < PoolSize("vspace")
    /\ j.pc # "idle" => im.id \in PdId
    /\ j.pc = "move" => j.k <= 9
    /\ j.pc = "fixed" => j.k <= 13
    /\ j.pc = "tables" => j.then \in {"page", "ipcmap", "window", "shared"}
    /\ j.pc \notin {"idle", "crashed", "move", "allocate"} => a["sc"] > 0
    /\ j.pc \in {"window", "ipcbuffer"} \/ (j.pc = "tables" /\ j.then = "window")
          => a["page"] > 0
    /\ j.pc = "shared" \/ (j.pc = "tables" /\ j.then = "shared") =>
          /\ j.k <= Len(j.program.rights) /\ j.program.rights[j.k].type = "memory"
          /\ j.i < j.program.rights[j.k].pages
    /\ j.pc \in {"irqtarget", "irqmove"} =>
          /\ j.k <= Len(j.program.rights) /\ j.program.rights[j.k].type = "irq"

JobsOK ==
    /\ job \in [CNode -> Job]
    /\ \A d \in CNode : JobOK(job[d], alloc[d], image[d])

\* The state of the kernel and of the PDs, as in TypeOK.
KernelOK ==
    /\ GoodCaps(caps)
    /\ tcb \in [ObjNum("tcb") -> Tcb]
    /\ budget \subseteq Nat /\ asids \subseteq Nat
    /\ tables \subseteq Nat \X {"pud", "pd", "pt"} \X Nat
    /\ frames \in [VSpace -> [Page -> [kind : PoolKind \cup OtherKind, n : Nat, w : BOOLEAN]]]
    /\ irqTarget \in Cap
    /\ memory \in [ObjNum("page") -> Content]

PdsOK ==
    /\ image \in [CNode -> {NoImage} \cup [id : PdId, tcb : Nat, program : AnyProgram]]
    /\ alloc \in [CNode -> [PoolKind -> Nat]]
    /\ \A c \in CNode, k \in PoolKind : alloc[c][k] <= PoolSize(k)
    /\ window \in [CNode -> BOOLEAN]

IInv == KernelOK /\ PdsOK /\ JobsOK

\* The invariant is a strengthening of the type invariant.
LEMMA IInvTypeOK == IInv => TypeOK
  BY DEF IInv, KernelOK, PdsOK, JobsOK, GoodCaps, TypeOK

----------------------------------------------------------------------------
(* Constants and slots *)

LEMMA PoolSizeType == ASSUME NEW k \in PoolKind PROVE PoolSize(k) \in Nat \ {0}
<1>1. PerPd[k] \in Nat \ {0} /\ PdTargets \in Nat \ {0}
  BY CapSpaceAssumption
<1>2. \A x \in Nat \ {0}, y \in Nat \ {0} : x * y \in Nat \ {0}
  OBVIOUS
<1> QED
  BY <1>1, <1>2 DEF PoolSize

LEMMA PoolSlots ==
    ASSUME NEW k \in PoolKind, NEW i \in Nat, i < PoolSize(k)
    PROVE  At(k, i) \in Slot
<1>1. i \in 0 .. PoolSize(k) - 1
  BY PoolSizeType
<1>2. <<k, i>> \in {k} \X (0 .. PoolSize(k) - 1)
  BY <1>1
<1>3. <<k, i>> \in PoolSlot
  BY <1>2 DEF PoolSlot
<1> QED
  BY <1>3 DEF Slot, At

LEMMA PdSlots == ASSUME NEW a \in PdArea, NEW id \in PdId PROVE At(a, id) \in Slot
<1>1. <<a, id>> \in PdArea \X PdId
  OBVIOUS
<1> QED
  BY <1>1 DEF Slot, At

LEMMA ChannelSlots ==
    ASSUME NEW a \in ChannelArea, NEW id \in ChannelId PROVE At(a, id) \in Slot
<1>1. <<a, id>> \in ChannelArea \X ChannelId
  OBVIOUS
<1> QED
  BY <1>1 DEF Slot, At

LEMMA SharedSlots == ASSUME NEW i \in SharedIdx PROVE At("SHARED", i) \in Slot
<1>1. <<"SHARED", i>> \in {"SHARED"} \X SharedIdx
  OBVIOUS
<1> QED
  BY <1>1 DEF Slot, At

LEMMA FixedSlots ==
    /\ InputSlot \in Slot /\ FaultSlot \in Slot /\ AsidSlot \in Slot
    /\ ControlSlot \in Slot /\ TempSlot \in Slot
<1>1. \A a \in FixedArea : <<a, 0>> \in Slot
  <2>1. \A a \in FixedArea : <<a, 0>> \in FixedArea \X {0}
    OBVIOUS
  <2> QED
    BY <2>1, Zenon DEF Slot
<1> QED
  BY <1>1 DEF FixedArea, At, InputSlot, FaultSlot, AsidSlot, ControlSlot, TempSlot

\* A minted badge is a word, and names its id where the shift is exact.
LEMMA BadgeType == ASSUME NEW n \in Nat PROVE Badge(n) \in Badges /\ Names(Badge(n), n)
<1>1. n % 32 \in 0 .. 31
  OBVIOUS
<1>2. n < 31 => n % 32 = n
  OBVIOUS
<1>3. CASE n % 32 = 31
  BY <1>2, <1>3 DEF Badge, Badges, Names
<1>4. CASE n % 32 # 31
  <2>1. Badge(n) = {n % 32}
    BY <1>4 DEF Badge
  <2>2. {n % 32} \in Badges
    BY <1>1 DEF Badges
  <2> QED
    BY <1>2, <2>1, <2>2 DEF Names
<1> QED
  BY <1>3, <1>4

----------------------------------------------------------------------------
(* Invocations keep the CSpaces well formed *)

LEMMA GoodCapAt ==
    ASSUME NEW cs, GoodCaps(cs), NEW c \in CNode, NEW s \in Slot
    PROVE  GoodCap(cs[c][s])
  BY DEF GoodCaps, GoodCap

LEMMA NullCapGood == GoodCap(NullCap) /\ NullCap.kind = "null"
<1>1. Unmapped \in Place
  BY DEF Place
<1>2. "null" \in PoolKind \cup OtherKind
  BY DEF OtherKind
<1>3. {} \in Badges
  BY DEF Badges
<1> QED
  BY <1>1, <1>2, <1>3 DEF GoodCap, NullCap, MkCap, Cap

LEMMA PutGood ==
    ASSUME NEW cs, GoodCaps(cs), NEW d, NEW s, NEW x, GoodCap(x)
    PROVE  GoodCaps([cs EXCEPT ![d][s] = x])
<1> DEFINE new == [cs EXCEPT ![d][s] = x]
<1>1. ASSUME NEW c \in CNode PROVE new[c] = IF c = d THEN [cs[c] EXCEPT ![s] = x] ELSE cs[c]
  BY DEF GoodCaps
<1>2. ASSUME NEW c \in CNode, NEW r \in Slot
      PROVE  new[c][r] = IF c = d /\ r = s THEN x ELSE cs[c][r]
  BY <1>1 DEF GoodCaps
<1>3. new = [c \in CNode |-> new[c]]
  BY DEF GoodCaps
<1>4. \A c \in CNode : new[c] = [r \in Slot |-> new[c][r]]
  BY <1>1 DEF GoodCaps
<1>5. \A c \in CNode, r \in Slot : GoodCap(new[c][r])
  BY <1>2, GoodCapAt
<1> HIDE DEF new
<1>6. \A c \in CNode : new[c] \in [Slot -> Cap]
  BY <1>4, <1>5 DEF GoodCap
<1>7. new \in [CNode -> [Slot -> Cap]]
  BY <1>3, <1>6
<1>8. GoodCaps(new)
  BY <1>5, <1>7 DEF GoodCaps, GoodCap
<1> QED
  BY <1>8 DEF new

LEMMA MapGood ==
    ASSUME NEW cs, GoodCaps(cs), NEW d \in CNode, NEW s \in Slot, NEW p \in Place
    PROVE  GoodCaps([cs EXCEPT ![d][s].at = p])
<1> DEFINE x == [cs[d][s] EXCEPT !.at = p]
<1>1. GoodCap(cs[d][s])
  BY GoodCapAt
<1>2. GoodCap(x)
  BY <1>1 DEF GoodCap, Cap
<1>3. [cs EXCEPT ![d][s].at = p] = [cs EXCEPT ![d][s] = x]
  BY DEF GoodCaps
<1> QED
  BY <1>2, <1>3, PutGood

LEMMA MintGood ==
    ASSUME NEW cs, GoodCaps(cs), NEW droot, NEW ds, NEW sroot, GoodCap(sroot),
           NEW ss \in Slot, NEW badge \in Badges, CanTransfer(cs, droot, ds, sroot, ss)
    PROVE  GoodCaps(MintTo(cs, droot, ds, sroot, ss, badge))
<1> DEFINE x == [cs[sroot.n][ss] EXCEPT !.at = Unmapped, !.badge = badge]
<1>1. sroot.n \in CNode
  BY DEF GoodCap, CanTransfer
<1>2. GoodCap(cs[sroot.n][ss])
  BY <1>1, GoodCapAt
<1>3. Unmapped \in Place
  BY DEF Place
<1>4. GoodCap(x)
  BY <1>2, <1>3 DEF GoodCap, Cap
<1> QED
  BY <1>4, PutGood DEF MintTo

LEMMA CopyGood ==
    ASSUME NEW cs, GoodCaps(cs), NEW droot, NEW ds, NEW sroot, GoodCap(sroot),
           NEW ss \in Slot, CanTransfer(cs, droot, ds, sroot, ss)
    PROVE  GoodCaps(CopyTo(cs, droot, ds, sroot, ss))
<1>1. sroot.n \in CNode
  BY DEF GoodCap, CanTransfer
<1>2. cs[sroot.n][ss].badge \in Badges
  BY <1>1, GoodCapAt DEF GoodCap, Cap
<1> QED
  BY <1>2, MintGood DEF CopyTo

LEMMA MoveGood ==
    ASSUME NEW cs, GoodCaps(cs), NEW droot, NEW ds, NEW sroot, GoodCap(sroot),
           NEW ss \in Slot, CanTransfer(cs, droot, ds, sroot, ss)
    PROVE  GoodCaps(MoveTo(cs, droot, ds, sroot, ss))
<1>1. GoodCap(cs[sroot.n][ss])
  BY GoodCapAt DEF GoodCap, CanTransfer
<1>2. GoodCaps([cs EXCEPT ![droot.n][ds] = cs[sroot.n][ss]])
  BY <1>1, PutGood
<1> QED
  BY <1>2, NullCapGood, PutGood DEF MoveTo

----------------------------------------------------------------------------
(* Steps of a job *)

\* A step of PD c that leaves the other PDs' pools alone.
OnlyOf(c) ==
    /\ alloc' = [alloc EXCEPT ![c] = alloc'[c]]
    /\ \A d \in CNode : image'[d].id \in {image[d].id} \cup PdId

LEMMA JobType ==
    ASSUME IInv, NEW c \in CNode
    PROVE  job[c] \in Job /\ JobOK(job[c], alloc[c], image[c])
  BY DEF IInv, JobsOK

LEMMA StepJobs ==
    ASSUME IInv, NEW c \in CNode, NEW new \in Job, Step(c, new), OnlyOf(c),
           JobOK(new, alloc'[c], image'[c])
    PROVE  JobsOK'
<1>1. job' \in [CNode -> Job]
  BY DEF IInv, JobsOK, Step
<1>2. ASSUME NEW d \in CNode PROVE JobOK(job'[d], alloc'[d], image'[d])
  <2>1. CASE d = c
    <3>1. job'[d] = new
      BY <2>1 DEF IInv, JobsOK, Step
    <3> QED
      BY <2>1, <3>1
  <2>2. CASE d # c
    <3>1. job'[d] = job[d] /\ alloc'[d] = alloc[d]
      BY <2>2 DEF IInv, JobsOK, PdsOK, Step, OnlyOf
    <3>2. image'[d].id \in {image[d].id} \cup PdId
      BY DEF OnlyOf
    <3>3. JobOK(job[d], alloc[d], image[d])
      BY JobType
    <3> QED
      BY <3>1, <3>2, <3>3 DEF JobOK
  <2> QED
    BY <2>1, <2>2
<1> QED
  BY <1>1, <1>2 DEF JobsOK

LEMMA FailJobs ==
    ASSUME IInv, NEW c \in CNode, Fail(c), OnlyOf(c)
    PROVE  JobsOK'
<1> DEFINE new == [job[c] EXCEPT !.pc = "idle", !.ret = -1]
<1>1. job[c] \in Job /\ JobOK(job[c], alloc[c], image[c])
  BY JobType
<1>2. new \in Job
  BY <1>1 DEF Job, Pc
<1>3. JobOK(new, alloc'[c], image'[c])
  BY <1>1 DEF JobOK, Job
<1>4. Step(c, new)
  BY DEF Fail
<1> HIDE DEF new
<1> QED
  BY <1>2, <1>3, <1>4, StepJobs

LEMMA CrashJobs ==
    ASSUME IInv, NEW c \in CNode, job[c].pc # "idle", Crash(c), OnlyOf(c)
    PROVE  JobsOK'
<1> DEFINE new == [job[c] EXCEPT !.pc = "crashed"]
<1>1. job[c] \in Job /\ JobOK(job[c], alloc[c], image[c])
  BY JobType
<1>2. new \in Job
  BY <1>1 DEF Job, Pc
<1>3. image'[c].id \in PdId
  BY <1>1 DEF JobOK, OnlyOf
<1>4. JobOK(new, alloc'[c], image'[c])
  BY <1>1, <1>3 DEF JobOK, Job
<1>5. Step(c, new)
  BY DEF Crash, Goto
<1> HIDE DEF new
<1> QED
  BY <1>2, <1>4, <1>5, StepJobs

\* Setting up paging structures for a page, on the way to step then.
LEMMA TablesType ==
    ASSUME NEW j \in Job, NEW page \in Page, NEW own \in BOOLEAN, NEW then \in Pc
    PROVE  Tables(j, page, own, then) \in Job
<1>1. "tables" \in Pc /\ 1 \in 1 .. 3
  BY DEF Pc
<1> QED
  BY <1>1 DEF Tables, Job

LEMMA NextRightType == ASSUME NEW j \in Job PROVE NextRight(j) \in Job
<1>1. "right" \in Pc /\ j.k + 1 \in Nat \ {0}
  BY DEF Pc, Job
<1> QED
  BY <1>1 DEF NextRight, Job

\* From a step beyond the allocation to the next entry of the access rights.
LEMMA NextRightJobs ==
    ASSUME IInv, NEW c \in CNode, Step(c, NextRight(job[c])), OnlyOf(c),
           UNCHANGED alloc, job[c].pc \notin {"idle", "crashed", "move", "allocate"}
    PROVE  JobsOK'
<1>1. job[c] \in Job /\ JobOK(job[c], alloc[c], image[c])
  BY JobType
<1>2. NextRight(job[c]) \in Job
  BY <1>1, NextRightType
<1>3. image'[c].id \in PdId
  BY <1>1 DEF JobOK, OnlyOf
<1>4. JobOK(NextRight(job[c]), alloc'[c], image'[c])
  BY <1>1, <1>3 DEF JobOK, NextRight, Job
<1> QED
  BY <1>2, <1>4, StepJobs

\* Steps that leave one of the three parts alone.
LEMMA KernelFrame ==
    ASSUME IInv, UNCHANGED <<caps, tcb, budget, space, irqTarget>> PROVE KernelOK'
  BY DEF IInv, KernelOK, GoodCaps, space

LEMMA PdsFrame == ASSUME IInv, UNCHANGED <<image, alloc, window>> PROVE PdsOK'
  BY DEF IInv, PdsOK

LEMMA OnlyOfFrame ==
    ASSUME IInv, NEW c \in CNode, UNCHANGED <<image, alloc>> PROVE OnlyOf(c)
  BY DEF IInv, OnlyOf, PdsOK

----------------------------------------------------------------------------
(* Every action keeps the invariant *)

LEMMA CapType ==
    ASSUME IInv, NEW c \in CNode, NEW s \in Slot PROVE GoodCap(caps[c][s])
  BY GoodCapAt DEF IInv, KernelOK

\* The capabilities that the code names by pd, by its own id and by its pool.
LEMMA PoolCapType ==
    ASSUME IInv, NEW c \in CNode, NEW k \in PoolKind, ~Exhausted(c, k)
    PROVE  /\ At(k, alloc[c][k]) \in Slot /\ GoodCap(PoolCap(c, k))
           /\ alloc[c][k] < PoolSize(k)
<1>1. alloc[c][k] \in Nat /\ alloc[c][k] < PoolSize(k)
  BY PoolSizeType DEF IInv, PdsOK, Exhausted
<1>2. At(k, alloc[c][k]) \in Slot
  BY <1>1, PoolSlots
<1> QED
  BY <1>1, <1>2, CapType DEF PoolCap

LEMMA PdRootType ==
    ASSUME IInv, NEW c \in CNode, NEW pd \in PdId PROVE GoodCap(PdRoot(c, pd))
  BY PdSlots, CapType DEF PdRoot, PdArea

LEMMA OwnCaps ==
    ASSUME IInv, NEW c \in CNode, job[c].pc # "idle"
    PROVE  /\ image[c].id \in PdId
           /\ GoodCap(OwnRoot(c)) /\ GoodCap(OwnVSpace(c))
<1>1. image[c].id \in PdId
  BY JobType DEF JobOK
<1> QED
  BY <1>1, PdSlots, CapType DEF OwnRoot, OwnVSpace, PdArea

LEMMA JobCaps ==
    ASSUME IInv, NEW c \in CNode, job[c].pc # "idle"
    PROVE  /\ job[c].id \in PdId /\ Target(c) \in PdId
           /\ GoodCap(NewRoot(c)) /\ GoodCap(JobVSpace(c))
           /\ At("tcb", job[c].tcb) \in Slot /\ At("ntfn", job[c].ntfn) \in Slot
           /\ At("cnode", job[c].cnode) \in Slot
           /\ At("sc", job[c].sc) \in Slot /\ At("vspace", job[c].vspace) \in Slot
<1>1. job[c] \in Job /\ JobOK(job[c], alloc[c], image[c])
  BY JobType
<1>2. job[c].id \in PdId
  BY <1>1 DEF Job
<1>3. /\ At("tcb", job[c].tcb) \in Slot /\ At("ntfn", job[c].ntfn) \in Slot
      /\ At("cnode", job[c].cnode) \in Slot
      /\ At("sc", job[c].sc) \in Slot /\ At("vspace", job[c].vspace) \in Slot
  BY <1>1, PoolSlots DEF JobOK, Job, PoolKind
<1>4. At("VSPACE", job[c].id) \in Slot
  BY <1>2, PdSlots DEF PdArea
<1> QED
  BY <1>2, <1>3, <1>4, CapType, OwnCaps DEF Target, NewRoot, JobVSpace


\* alloc_state of one PD moves on by objects that its pools have.
LEMMA AllocKeeps ==
    ASSUME IInv, NEW c \in CNode, NEW k \in PoolKind, ~Exhausted(c, k),
           alloc' = [alloc EXCEPT ![c][k] = @ + 1], UNCHANGED <<image, window>>
    PROVE  PdsOK' /\ OnlyOf(c) /\ alloc'[c] \in [PoolKind -> Nat]
           /\ alloc'[c][k] = alloc[c][k] + 1
           /\ \A m \in PoolKind : alloc'[c][m] >= alloc[c][m]
<1>1. alloc \in [CNode -> [PoolKind -> Nat]]
  BY DEF IInv, PdsOK
<1>2. \A d \in CNode, m \in PoolKind :
         alloc'[d][m] = IF d = c /\ m = k THEN alloc[d][m] + 1 ELSE alloc[d][m]
  BY <1>1
<1>3. alloc' \in [CNode -> [PoolKind -> Nat]]
  BY <1>1
<1>4. alloc[c][k] < PoolSize(k)
  BY PoolCapType
<1>5. \A d \in CNode, m \in PoolKind : alloc'[d][m] <= PoolSize(m)
  BY <1>1, <1>2, <1>4, PoolSizeType DEF IInv, PdsOK
<1>6. alloc' = [alloc EXCEPT ![c] = alloc'[c]]
  BY <1>1
<1>7. PdsOK'
  BY <1>3, <1>5 DEF IInv, PdsOK
<1> QED
  BY <1>1, <1>2, <1>3, <1>6, <1>7 DEF OnlyOf

LEMMA NoJobType == NoJob \in Job
<1>1. "idle" \in Pc /\ RootImage \in AnyProgram
  BY DEF Pc, AnyProgram
<1>2. RootId \in PdId /\ TempPage \in Page
  BY LayoutAssumption
<1>3. 0 \in {0, -1} /\ 1 \in 1 .. 3 /\ 1 \in Nat \ {0} /\ 0 \in Nat
  OBVIOUS
<1> QED
  BY <1>1, <1>2, <1>3 DEF NoJob, Job

LEMMA EnterKeeps ==
    ASSUME IInv, NEW c \in CNode, NEW p \in Programs, NEW id \in PdId, Enter(c, p, id)
    PROVE  IInv'
<1>1. KernelOK'
  BY KernelFrame DEF Enter, threads
<1>2. UNCHANGED <<image, window>>
  BY DEF Enter, threads
<1>3. image[c].id \in PdId
  BY DEF Enter, HandlesInput, IInv, PdsOK
<1>4. CASE Exhausted(c, "cnode")
  <2>1. Fail(c) /\ UNCHANGED alloc
    BY <1>4 DEF Enter
  <2> QED
    BY <1>1, <1>2, <2>1, PdsFrame, OnlyOfFrame, FailJobs DEF IInv
<1>5. CASE ~Exhausted(c, "cnode")
  <2> DEFINE new == [NoJob EXCEPT
                 !.pc = IF HasControl(p) THEN "move" ELSE "allocate",
                 !.program = p, !.id = id,
                 !.cnode = alloc[c]["cnode"]]
  <2>1. Step(c, new) /\ alloc' = [alloc EXCEPT ![c]["cnode"] = @ + 1]
    BY <1>5 DEF Enter
  <2>2. "cnode" \in PoolKind /\ alloc[c]["cnode"] \in Nat
    BY DEF PoolKind, IInv, PdsOK
  <2>3. PdsOK' /\ OnlyOf(c)
    BY <1>2, <1>5, <2>1, <2>2, AllocKeeps
  <2>4. alloc[c]["cnode"] < PoolSize("cnode")
    BY <1>5, <2>2, PoolCapType
  <2>5. new \in Job
    <3>1. {"idle", "move", "allocate"} \subseteq Pc
      BY DEF Pc
    <3>2. p \in AnyProgram
      BY DEF AnyProgram
    <3>3. NoJob \in Job
      BY NoJobType
    <3>4. (IF HasControl(p) THEN "move" ELSE "allocate") \in Pc
      BY <3>1
    <3> QED
      BY <2>2, <3>2, <3>3, <3>4 DEF Job
  <2>6. \A k \in PoolKind : 0 < PoolSize(k)
    BY PoolSizeType
  <2>7. JobOK(new, alloc'[c], image'[c])
    BY <1>2, <1>3, <2>4, <2>6 DEF NoJob, JobOK, PoolKind
  <2>8. JobsOK'
    <3> HIDE DEF new
    <3> QED
      BY <2>1, <2>3, <2>5, <2>7, StepJobs
  <2> QED
    BY <1>1, <2>3, <2>8 DEF IInv
<1> QED
  BY <1>4, <1>5

LEMMA CapsKernel ==
    ASSUME IInv, GoodCaps(caps'), UNCHANGED <<threads, space, irqTarget>>
    PROVE  KernelOK'
  BY DEF IInv, KernelOK, GoodCaps, threads, space

LEMMA MoveOrderKinds == \A k \in 1 .. 9 : MoveOrder[k] \in PoolKind
  BY DEF MoveOrder, PoolKind

LEMMA MovePoolCapKeeps ==
    ASSUME IInv, NEW c \in CNode, MovePoolCap(c)
    PROVE  IInv'
<1> DEFINE j == job[c]
           kind == MoveOrder[j.k]
           to == At(kind, j.i)
           from == At(kind, alloc[c][kind])
           next == IF j.i + 1 < ChildShare(kind) THEN [j EXCEPT !.i = @ + 1]
                   ELSE IF j.k < Len(MoveOrder) THEN [j EXCEPT !.i = 0, !.k = @ + 1]
                   ELSE [j EXCEPT !.pc = "allocate"]
           can == ~Exhausted(c, kind) /\ CanTransfer(caps, NewRoot(c), to, OwnRoot(c), from)
<1>1. j.pc = "move" /\ UNCHANGED <<threads, space, irqTarget, window>>
  BY DEF MovePoolCap
<1>2. j \in Job /\ JobOK(j, alloc[c], image[c])
  BY JobType
<1>3. kind \in PoolKind
  BY <1>1, <1>2, MoveOrderKinds DEF JobOK, Job
<1>4. UNCHANGED <<image, window>>
  BY <1>1 DEF threads
<1>5. CASE ~can
  <2>1. Fail(c) /\ UNCHANGED <<caps, alloc>>
    BY <1>5 DEF MovePoolCap
  <2>2. KernelOK'
    BY <1>1, <2>1, KernelFrame DEF threads
  <2> QED
    BY <1>4, <2>1, <2>2, PdsFrame, OnlyOfFrame, FailJobs DEF IInv
<1>6. CASE can
  <2>1. /\ caps' = MoveTo(caps, NewRoot(c), to, OwnRoot(c), from)
        /\ alloc' = [alloc EXCEPT ![c][kind] = @ + 1]
        /\ Step(c, next)
    BY <1>6 DEF MovePoolCap
  <2>2. from \in Slot
    BY <1>3, <1>6, PoolCapType
  <2>3. GoodCaps(caps) /\ GoodCap(OwnRoot(c))
    BY <1>1, OwnCaps, SMTT(30) DEF IInv, KernelOK
  <2>4. GoodCaps(caps')
    BY <1>6, <2>1, <2>2, <2>3, MoveGood
  <2>5. KernelOK'
    BY <1>1, <2>4, CapsKernel
  <2>6. PdsOK' /\ OnlyOf(c)
    BY <1>3, <1>4, <1>6, <2>1, AllocKeeps, Zenon
  <2>7. next \in Job
    <3>1. "allocate" \in Pc
      BY DEF Pc
    <3>2. j.i + 1 \in Nat /\ j.k + 1 \in Nat \ {0}
      BY <1>2 DEF Job
    <3> QED
      BY <1>2, <3>1, <3>2 DEF Job
  <2>8. JobOK(next, alloc'[c], image'[c])
    <3>1. Len(MoveOrder) = 9
      BY DEF MoveOrder
    <3>2. image'[c].id \in PdId
      BY <1>1, <1>4, OwnCaps
    <3>3. next.pc \in {"move", "allocate"} /\ (next.pc = "move" => next.k <= 9)
      BY <1>1, <1>2, <3>1 DEF Job, JobOK
    <3>4. /\ next.cnode = j.cnode /\ next.tcb = j.tcb /\ next.ntfn = j.ntfn
          /\ next.sc = j.sc /\ next.vspace = j.vspace
      BY <1>2 DEF Job
    <3> HIDE DEF next
    <3> QED
      BY <1>2, <3>2, <3>3, <3>4 DEF JobOK
  <2>9. JobsOK'
    <3> HIDE DEF next
    <3> QED
      BY <2>1, <2>6, <2>7, <2>8, StepJobs
  <2> QED
    BY <2>5, <2>6, <2>9, SMTT(30) DEF IInv
<1> QED
  BY <1>5, <1>6

LEMMA AllocateObjectsKeeps ==
    ASSUME IInv, NEW c \in CNode, AllocateObjects(c)
    PROVE  IInv'
<1> DEFINE Taken == {m \in 1 .. 4 : \A l \in 1 .. m : ~Exhausted(c, AllocateOrder[l])}
           new == [job[c] EXCEPT !.pc = "asid",
                    !.tcb = alloc[c]["tcb"], !.ntfn = alloc[c]["ntfn"],
                    !.sc = alloc[c]["sc"], !.vspace = alloc[c]["vspace"]]
<1>1. /\ job[c].pc = "allocate"
      /\ alloc' = [alloc EXCEPT ![c] = [k \in PoolKind |->
                        IF \E m \in Taken : AllocateOrder[m] = k
                        THEN alloc[c][k] + 1 ELSE alloc[c][k]]]
      /\ UNCHANGED <<caps, threads, space, irqTarget, window>>
  BY DEF AllocateObjects
<1>2. job[c] \in Job /\ JobOK(job[c], alloc[c], image[c])
  BY JobType
<1>3. KernelOK'
  BY <1>1, KernelFrame DEF threads
<1>4. alloc \in [CNode -> [PoolKind -> Nat]]
  BY DEF IInv, PdsOK
<1>5. \A m \in Taken : ~Exhausted(c, AllocateOrder[m])
  OBVIOUS
<1>6. ASSUME NEW k \in PoolKind
      PROVE  alloc'[c][k] \in Nat /\ alloc'[c][k] <= PoolSize(k)
  <2>1. CASE \E m \in Taken : AllocateOrder[m] = k
    <3>1. alloc'[c][k] = alloc[c][k] + 1
      BY <1>1, <1>4, <2>1
    <3>2. ~Exhausted(c, k)
      BY <1>5, <2>1
    <3>3. alloc[c][k] \in Nat /\ PoolSize(k) \in Nat
      BY <1>4, PoolSizeType
    <3> HIDE DEF Taken
    <3> QED
      BY <3>1, <3>2, <3>3 DEF Exhausted
  <2>2. CASE ~\E m \in Taken : AllocateOrder[m] = k
    <3>1. alloc'[c][k] = alloc[c][k]
      BY <1>1, <1>4, <2>2
    <3> QED
      BY <1>4, <3>1 DEF IInv, PdsOK
  <2> QED
    BY <2>1, <2>2
<1>7. /\ DOMAIN alloc' = CNode /\ alloc' = [alloc EXCEPT ![c] = alloc'[c]]
      /\ alloc'[c] = [k \in PoolKind |-> alloc'[c][k]]
      /\ \A d \in CNode \ {c} : alloc'[d] = alloc[d]
  <2> HIDE DEF Taken
  <2> QED
    BY <1>1, <1>4
<1>8. PdsOK'
  <2>1. alloc'[c] \in [PoolKind -> Nat]
    <3> HIDE DEF Taken
    <3> QED
      BY <1>6, <1>7
  <2>2. alloc' \in [CNode -> [PoolKind -> Nat]]
    BY <1>4, <1>7, <2>1
  <2>3. \A d \in CNode, k \in PoolKind : alloc'[d][k] <= PoolSize(k)
    BY <1>6, <1>7 DEF IInv, PdsOK
  <2> QED
    BY <1>1, <2>2, <2>3 DEF IInv, PdsOK, threads
<1>9. OnlyOf(c)
  BY <1>1, <1>7 DEF OnlyOf, threads
<1>10. CASE Taken = 1 .. 4
  <2>1. Step(c, new)
    BY <1>10 DEF AllocateObjects
  <2>2. \A k \in {"tcb", "ntfn", "sc", "vspace"} :
           k \in PoolKind /\ ~Exhausted(c, k) /\ alloc'[c][k] = alloc[c][k] + 1
    <3>1. /\ AllocateOrder[1] = "tcb" /\ AllocateOrder[2] = "ntfn"
          /\ AllocateOrder[3] = "sc" /\ AllocateOrder[4] = "vspace"
      BY DEF AllocateOrder
    <3>2. ~Exhausted(c, "tcb") /\ ~Exhausted(c, "ntfn") /\ ~Exhausted(c, "sc")
          /\ ~Exhausted(c, "vspace")
      BY <1>5, <1>10, <3>1
    <3>3. \A k \in {"tcb", "ntfn", "sc", "vspace"} :
             k \in PoolKind /\ \E m \in Taken : AllocateOrder[m] = k
      <4> HIDE DEF Taken
      <4> QED
        BY <1>10, <3>1 DEF PoolKind
    <3> HIDE DEF Taken
    <3> QED
      BY <1>1, <1>4, <3>2, <3>3
  <2>3. \A k \in {"tcb", "ntfn", "sc", "vspace"} :
           alloc[c][k] \in Nat /\ alloc[c][k] < PoolSize(k)
    BY <1>4, <2>2, PoolCapType
  <2>4. new \in Job
    <3>1. "asid" \in Pc
      BY DEF Pc
    <3> QED
      BY <1>2, <2>3, <3>1 DEF Job
  <2>5. JobOK(new, alloc'[c], image'[c])
    <3>1. image'[c].id \in PdId
      BY <1>1, OwnCaps DEF threads
    <3>2. new.pc = "asid" /\ new.cnode = job[c].cnode
          /\ new.tcb = alloc[c]["tcb"] /\ new.ntfn = alloc[c]["ntfn"]
          /\ new.sc = alloc[c]["sc"] /\ new.vspace = alloc[c]["vspace"]
      BY <1>2 DEF Job
    <3>3. alloc'[c]["sc"] > 0
      BY <2>2, <2>3
    <3> HIDE DEF new
    <3> QED
      BY <1>2, <2>3, <3>1, <3>2, <3>3 DEF JobOK
  <2>6. JobsOK'
    <3> HIDE DEF new
    <3> QED
      BY <1>9, <2>1, <2>4, <2>5, StepJobs
  <2> QED
    BY <1>3, <1>8, <2>6 DEF IInv
<1>11. CASE Taken # 1 .. 4
  <2>1. Fail(c)
    BY <1>11 DEF AllocateObjects
  <2> QED
    BY <1>3, <1>8, <1>9, <2>1, FailJobs DEF IInv
<1> QED
  BY <1>10, <1>11

\* The objects of a job that is past their allocation.
SameObjects(j, new) ==
    /\ new.cnode = j.cnode /\ new.tcb = j.tcb /\ new.ntfn = j.ntfn
    /\ new.sc = j.sc /\ new.vspace = j.vspace

Allocated(j) == j.pc \notin {"idle", "crashed", "move", "allocate"}

\* Steps to a point of the call that relies on no more than its objects.
PlainPc == {"asid", "space", "bind", "segment", "page", "ipcmap", "right"}

LEMMA PlainJobs ==
    ASSUME IInv, NEW c \in CNode, Allocated(job[c]), NEW new \in Job, Step(c, new),
           OnlyOf(c), UNCHANGED alloc, SameObjects(job[c], new),
           new.pc \in PlainPc \/ (new.pc = "fixed" /\ new.k <= 13)
    PROVE  JobsOK'
<1>1. JobOK(job[c], alloc[c], image[c])
  BY JobType
<1>2. image'[c].id \in PdId
  BY <1>1 DEF JobOK, OnlyOf, Allocated
<1>3. JobOK(new, alloc'[c], image'[c])
  BY <1>1, <1>2 DEF JobOK, Allocated, SameObjects, PlainPc
<1> QED
  BY <1>3, StepJobs

LEMMA AssignAsidKeeps ==
    ASSUME IInv, NEW c \in CNode, AssignAsid(c)
    PROVE  IInv'
<1> DEFINE v == caps[c][At("vspace", job[c].vspace)]
           new == [job[c] EXCEPT !.pc = "fixed", !.k = 1]
<1>1. job[c].pc = "asid" /\ UNCHANGED <<caps, threads, tables, frames, memory,
                                        irqTarget, image, alloc, window>>
  BY DEF AssignAsid, threads
<1>2. PdsOK' /\ OnlyOf(c)
  BY <1>1, PdsFrame, OnlyOfFrame
<1>3. GoodCap(v)
  BY <1>1, JobCaps, CapType
<1>4. KernelOK'
  <2>1. asids' \subseteq Nat
    BY <1>3 DEF AssignAsid, IInv, KernelOK, GoodCap, Cap
  <2> QED
    BY <1>1, <2>1 DEF IInv, KernelOK, GoodCaps, threads
<1>5. JobsOK'
  <2>1. CASE Fail(c)
    BY <1>2, <2>1, FailJobs
  <2>2. CASE Step(c, new)
    <3>1. job[c] \in Job /\ "fixed" \in Pc
      BY JobType DEF Pc
    <3>2. new \in Job
      <4>1. 1 \in Nat \ {0}
        OBVIOUS
      <4> QED
        BY <3>1, <4>1 DEF Job
    <3>5. new.pc = "fixed" /\ new.k = 1
      BY <3>1 DEF Job
    <3>3. SameObjects(job[c], new)
      BY <3>1 DEF Job, SameObjects
    <3>4. Allocated(job[c])
      BY <1>1 DEF Allocated
    <3> HIDE DEF new
    <3> QED
      BY <1>1, <1>2, <2>2, <3>2, <3>3, <3>4, <3>5, PlainJobs
  <2> QED
    BY <2>1, <2>2 DEF AssignAsid
<1> QED
  BY <1>2, <1>4, <1>5 DEF IInv

\* The thirteen copies take their capability from a slot that is there.
\* Every row writes a slot of an array with an entry per PD or one of three fixed slots.
LEMMA FixedCapsPlaces ==
    ASSUME NEW c
    PROVE  \A k \in 1 .. 13 : \E a \in PdArea \cup {"INPUT", "ASID_POOL", "SCHED_CONTROL"} : \E i :
               FixedCaps(c)[k].dst = At(a, i)
<1> DEFINE f == FixedCaps(c)
           AtPlace(s) == \E a \in PdArea \cup {"INPUT", "ASID_POOL", "SCHED_CONTROL"} : \E i : s = At(a, i)
<1>1. LET i == job[c].id IN
      /\ f[1].dst = ControlSlot /\ f[2].dst = InputSlot /\ f[3].dst = At("CHAN", i)
      /\ f[4].dst = At("CHAN", i) /\ f[5].dst = AsidSlot
      /\ f[6].dst = At("TCB", i) /\ f[7].dst = At("TCB", i)
      /\ f[8].dst = At("SC", i) /\ f[9].dst = At("SC", i)
      /\ f[10].dst = At("CNODE", i) /\ f[11].dst = At("CNODE", i)
      /\ f[12].dst = At("VSPACE", i) /\ f[13].dst = At("VSPACE", i)
  BY DEF FixedCaps, Row
<1>2. \A i : /\ AtPlace(At("CHAN", i)) /\ AtPlace(At("TCB", i)) /\ AtPlace(At("SC", i))
             /\ AtPlace(At("CNODE", i)) /\ AtPlace(At("VSPACE", i))
  BY Zenon DEF PdArea
<1>3. AtPlace(ControlSlot) /\ AtPlace(InputSlot) /\ AtPlace(AsidSlot)
  BY Zenon DEF ControlSlot, InputSlot, AsidSlot
<1> HIDE DEF f, AtPlace
<1>4. \A k \in 1 .. 13 : AtPlace(f[k].dst)
  BY <1>1, <1>2, <1>3
<1> QED
  BY <1>4 DEF f, AtPlace

LEMMA FixedCapsType ==
    ASSUME IInv, NEW c \in CNode, job[c].pc = "fixed"
    PROVE  /\ Len(FixedCaps(c)) = 13
           /\ job[c].k \in 1 .. 13
           /\ \A k \in 1 .. 13 : FixedCaps(c)[k].src \in Slot
<1> DEFINE j == job[c]
           f == FixedCaps(c)
<1>2. /\ f[1].src = ControlSlot /\ f[2].src = At("ntfn", j.ntfn) /\ f[3].src = InputSlot
      /\ f[4].src = InputSlot /\ f[5].src = AsidSlot
      /\ f[6].src = At("tcb", j.tcb) /\ f[7].src = At("tcb", j.tcb)
      /\ f[8].src = At("sc", j.sc) /\ f[9].src = At("sc", j.sc)
      /\ f[10].src = At("cnode", j.cnode) /\ f[11].src = At("cnode", j.cnode)
      /\ f[12].src = At("vspace", j.vspace) /\ f[13].src = At("vspace", j.vspace)
  BY DEF FixedCaps, Row
<1>1. Len(f) = 13
  BY DEF FixedCaps
<1>3. job[c].k \in 1 .. 13
  <2>1. job[c].k \in Nat \ {0}
    BY JobType DEF Job
  <2>2. job[c].k <= 13
    BY JobType DEF JobOK
  <2> QED
    BY <2>1, <2>2
<1>4. \A k \in 1 .. 13 : f[k].src \in Slot
  <2> HIDE DEF f
  <2> QED
    BY <1>2, FixedSlots, JobCaps
<1> QED
  BY <1>1, <1>3, <1>4

\* A job that goes to another point of the call.
LEMMA GotoType ==
    ASSUME NEW j \in Job, NEW pc \in Pc
    PROVE  /\ [j EXCEPT !.pc = pc] \in Job
           /\ [j EXCEPT !.pc = pc].pc = pc
           /\ SameObjects(j, [j EXCEPT !.pc = pc])
  BY DEF Job, SameObjects

LEMMA GotoJobs ==
    ASSUME IInv, NEW c \in CNode, Allocated(job[c]), NEW pc \in PlainPc,
           Goto(c, pc), OnlyOf(c), UNCHANGED alloc
    PROVE  JobsOK'
<1>1. job[c] \in Job /\ pc \in Pc
  BY JobType DEF PlainPc, Pc
<1> DEFINE new == [job[c] EXCEPT !.pc = pc]
<1>2. new \in Job /\ new.pc = pc /\ SameObjects(job[c], new) /\ Step(c, new)
  BY <1>1, GotoType DEF Goto
<1> HIDE DEF new
<1> QED
  BY <1>2, PlainJobs

LEMMA CopyFixedCapKeeps ==
    ASSUME IInv, NEW c \in CNode, CopyFixedCap(c)
    PROVE  IInv'
<1> DEFINE j == job[c]
           row == FixedCaps(c)[j.k]
           Root(who) == IF who = "own" THEN OwnRoot(c) ELSE NewRoot(c)
           can == CanTransfer(caps, Root(row.into), row.dst, Root(row.of), row.src)
           next == [j EXCEPT !.k = @ + 1]
<1>1. j.pc = "fixed" /\ UNCHANGED <<threads, space, irqTarget, image, alloc, window>>
  BY DEF CopyFixedCap, threads
<1>2. PdsOK' /\ OnlyOf(c)
  BY <1>1, PdsFrame, OnlyOfFrame
<1>3. Allocated(j)
  BY <1>1 DEF Allocated
<1>4. CASE ~can
  <2>1. Fail(c) /\ UNCHANGED caps
    BY <1>4 DEF CopyFixedCap
  <2>2. KernelOK'
    BY <1>1, <2>1, KernelFrame DEF threads
  <2> QED
    BY <1>2, <2>1, <2>2, FailJobs DEF IInv
<1>5. CASE can
  <2>1. /\ caps' = CopyTo(caps, Root(row.into), row.dst, Root(row.of), row.src)
        /\ \/ j.k < Len(FixedCaps(c)) /\ Step(c, next)
           \/ Goto(c, "space")
    BY <1>5 DEF CopyFixedCap
  <2>2. row.src \in Slot
    BY <1>1, FixedCapsType
  <2>3. GoodCap(Root(row.of)) /\ GoodCaps(caps)
    BY <1>1, OwnCaps, JobCaps DEF IInv, KernelOK
  <2>4. GoodCaps(caps')
    <3> HIDE DEF row, Root
    <3> QED
      BY <1>5, <2>1, <2>2, <2>3, CopyGood
  <2>5. KernelOK'
    BY <1>1, <2>4, CapsKernel
  <2>6. JobsOK'
    <3>1. CASE Goto(c, "space")
      BY <1>1, <1>2, <1>3, <3>1, GotoJobs DEF PlainPc
    <3>2. CASE j.k < Len(FixedCaps(c)) /\ Step(c, next)
      <4>1. j \in Job /\ j.k \in 1 .. 13 /\ j.k < 13
        BY <1>1, <3>2, FixedCapsType, JobType
      <4>2. next \in Job /\ next.pc = "fixed" /\ next.k <= 13
        BY <1>1, <4>1 DEF Job
      <4>3. SameObjects(j, next)
        BY <4>1 DEF Job, SameObjects
      <4> HIDE DEF next
      <4> QED
        BY <1>1, <1>2, <1>3, <3>2, <4>2, <4>3, PlainJobs
    <3> QED
      BY <2>1, <3>1, <3>2
  <2> QED
    BY <1>2, <2>5, <2>6 DEF IInv
<1> QED
  BY <1>4, <1>5

\* A step that changes nothing but thread control blocks and budgets.
LEMMA ThreadsKernel ==
    ASSUME IInv, tcb' \in [ObjNum("tcb") -> Tcb], budget' \subseteq Nat,
           UNCHANGED <<caps, space, irqTarget>>
    PROVE  KernelOK'
  BY DEF IInv, KernelOK, GoodCaps, space

\* A field of a thread control block is set.
LEMMA TcbFields ==
    ASSUME NEW r \in Tcb, NEW m \in Nat
    PROVE  /\ [r EXCEPT !.cspace = m] \in Tcb /\ [r EXCEPT !.vspace = m] \in Tcb
           /\ [r EXCEPT !.bound = m] \in Tcb /\ [r EXCEPT !.sc = m] \in Tcb
           /\ [r EXCEPT !.ipc = m] \in Tcb /\ [r EXCEPT !.mcp = m] \in Tcb
           /\ [r EXCEPT !.running = TRUE] \in Tcb
  BY DEF Tcb

LEMMA TcbType ==
    ASSUME NEW f \in [ObjNum("tcb") -> Tcb], NEW t, NEW m \in Nat
    PROVE  /\ [f EXCEPT ![t].cspace = m] \in [ObjNum("tcb") -> Tcb]
           /\ [f EXCEPT ![t].vspace = m] \in [ObjNum("tcb") -> Tcb]
           /\ [f EXCEPT ![t].bound = m] \in [ObjNum("tcb") -> Tcb]
           /\ [f EXCEPT ![t].sc = m] \in [ObjNum("tcb") -> Tcb]
           /\ [f EXCEPT ![t].ipc = m] \in [ObjNum("tcb") -> Tcb]
           /\ [f EXCEPT ![t].mcp = m] \in [ObjNum("tcb") -> Tcb]
           /\ [f EXCEPT ![t].running = TRUE] \in [ObjNum("tcb") -> Tcb]
<1>1. CASE t \in ObjNum("tcb")
  <2>1. f[t] \in Tcb
    BY <1>1
  <2>2. /\ [f[t] EXCEPT !.cspace = m] \in Tcb /\ [f[t] EXCEPT !.vspace = m] \in Tcb
        /\ [f[t] EXCEPT !.bound = m] \in Tcb /\ [f[t] EXCEPT !.sc = m] \in Tcb
        /\ [f[t] EXCEPT !.ipc = m] \in Tcb /\ [f[t] EXCEPT !.mcp = m] \in Tcb
        /\ [f[t] EXCEPT !.running = TRUE] \in Tcb
    BY <2>1, TcbFields
  <2> QED
    BY <2>2
<1>2. CASE t \notin ObjNum("tcb")
  BY <1>2
<1> QED
  BY <1>1, <1>2

LEMMA SetSpaceKeeps ==
    ASSUME IInv, NEW c \in CNode, SetSpace(c)
    PROVE  IInv'
<1> DEFINE t == caps[c][At("tcb", job[c].tcb)]
           n == NewRoot(c)
           v == caps[c][At("vspace", job[c].vspace)]
<1>1. /\ job[c].pc = "space"
      /\ UNCHANGED <<caps, budget, image, space, irqTarget, alloc, window>>
  BY Zenon DEF SetSpace
<1>2. PdsOK' /\ OnlyOf(c)
  BY <1>1, PdsFrame, OnlyOfFrame
<1>3. Allocated(job[c])
  BY <1>1 DEF Allocated
<1>4. n.n \in Nat /\ v.n \in Nat
  BY <1>1, JobCaps, CapType, SMTT(30) DEF GoodCap, Cap
<1>5. CASE /\ Goto(c, "bind")
           /\ tcb' = [tcb EXCEPT ![t.n].cspace = n.n, ![t.n].vspace = v.n]
  <2>1. tcb' \in [ObjNum("tcb") -> Tcb]
    <3>1. tcb \in [ObjNum("tcb") -> Tcb]
      BY DEF IInv, KernelOK
    <3> DEFINE one == [tcb EXCEPT ![t.n].cspace = n.n]
    <3>2. one \in [ObjNum("tcb") -> Tcb]
      BY <1>4, <3>1, TcbType, Zenon
    <3>3. tcb' = [one EXCEPT ![t.n].vspace = v.n]
      BY <1>5, Zenon
    <3> HIDE DEF one
    <3> QED
      BY <1>4, <3>2, <3>3, TcbType
  <2>2. KernelOK'
    BY <1>1, <2>1, ThreadsKernel DEF IInv, KernelOK
  <2>3. JobsOK'
    BY <1>1, <1>2, <1>3, <1>5, GotoJobs, Zenon DEF PlainPc
  <2> QED
    BY <1>2, <2>2, <2>3 DEF IInv
<1>6. CASE Fail(c) /\ UNCHANGED tcb
  <2>1. KernelOK'
    BY <1>1, <1>6, KernelFrame
  <2> QED
    BY <1>2, <1>6, <2>1, FailJobs DEF IInv
<1> QED
  BY <1>5, <1>6, Zenon DEF SetSpace

LEMMA BindNotificationKeeps ==
    ASSUME IInv, NEW c \in CNode, BindNotification(c)
    PROVE  IInv'
<1> DEFINE t == caps[c][At("tcb", job[c].tcb)]
           n == caps[c][At("ntfn", job[c].ntfn)]
           new == [job[c] EXCEPT !.pc = "segment", !.k = 1]
<1>1. /\ job[c].pc = "bind"
      /\ UNCHANGED <<caps, budget, image, space, irqTarget, alloc, window>>
  BY Zenon DEF BindNotification
<1>2. PdsOK' /\ OnlyOf(c)
  BY <1>1, PdsFrame, OnlyOfFrame
<1>3. Allocated(job[c])
  BY <1>1 DEF Allocated
<1>4. n.n \in Nat
  BY <1>1, JobCaps, CapType DEF GoodCap, Cap
<1>5. tcb' = tcb \/ tcb' = [tcb EXCEPT ![t.n].bound = n.n]
  BY Zenon DEF BindNotification
<1>6. tcb' \in [ObjNum("tcb") -> Tcb]
  <2>1. tcb \in [ObjNum("tcb") -> Tcb]
    BY DEF IInv, KernelOK
  <2>2. [tcb EXCEPT ![t.n].bound = n.n] \in [ObjNum("tcb") -> Tcb]
    BY <1>4, <2>1, TcbType, Zenon
  <2> QED
    BY <1>5, <2>1, <2>2, Zenon
<1>7. KernelOK'
  BY <1>1, <1>6, ThreadsKernel DEF IInv, KernelOK
<1>8. JobsOK'
  <2>1. CASE Fail(c)
    BY <1>2, <2>1, FailJobs
  <2>2. CASE Step(c, new)
    <3>1. job[c] \in Job /\ "segment" \in Pc /\ 1 \in Nat \ {0}
      BY JobType DEF Pc
    <3>2. new \in Job
      BY <3>1 DEF Job
    <3>3. new.pc = "segment" /\ SameObjects(job[c], new)
      BY <3>1 DEF Job, SameObjects
    <3> HIDE DEF new
    <3> QED
      BY <1>1, <1>2, <1>3, <2>2, <3>2, <3>3, PlainJobs DEF PlainPc
  <2> QED
    BY <2>1, <2>2, Zenon DEF BindNotification
<1> QED
  BY <1>2, <1>7, <1>8 DEF IInv

LEMMA ProgramFacts ==
    ASSUME NEW p \in AnyProgram
    PROVE  /\ p.pages \in Seq(Page) /\ p.ipc \in Page
           /\ Len(p.rights) \in Nat
           /\ \A i \in 1 .. Len(p.rights) :
                 LET r == p.rights[i] IN
                 /\ r.type = "scheduling" => r.mcp \in Nat
                 /\ r.type = "channel" =>
                       /\ r.target \in PdId
                       /\ r.targetId \in ChannelId /\ r.ownId \in ChannelId
                 /\ r.type = "memory" =>
                       /\ r.pages \in Nat /\ r.w \in BOOLEAN
                       /\ \A m \in 0 .. r.pages - 1 :
                             r.id + m \in SharedIdx /\ r.page + m \in Page
                 /\ r.type = "irq" => r.parentId \in ChannelId /\ r.childId \in ChannelId
  BY ProgramAssumption DEF AnyProgram

\* The access right that a job has reached.
LEMMA RightType ==
    ASSUME IInv, NEW c \in CNode, job[c].pc # "idle",
           job[c].k <= Len(Program(c).rights)
    PROVE  LET r == Right(c) IN
           /\ r.type = "scheduling" => r.mcp \in Nat
           /\ r.type = "channel" =>
                 /\ r.target \in PdId
                 /\ r.targetId \in ChannelId /\ r.ownId \in ChannelId
           /\ r.type = "memory" =>
                 /\ r.pages \in Nat /\ r.w \in BOOLEAN
                 /\ \A m \in 0 .. r.pages - 1 :
                       r.id + m \in SharedIdx /\ r.page + m \in Page
           /\ r.type = "irq" => r.parentId \in ChannelId /\ r.childId \in ChannelId
<1> DEFINE p == job[c].program
<1>1. job[c].k \in Nat \ {0} /\ p \in AnyProgram
  BY JobType DEF Job
<1>2. Len(p.rights) \in Nat
  BY <1>1, ProgramFacts
<1>3. job[c].k \in 1 .. Len(p.rights)
  BY <1>1, <1>2 DEF Program
<1> QED
  BY <1>1, <1>3, ProgramFacts DEF Right, Program

\* Paging structures are set up on the way to a step of the call.
LEMMA TablesJobs ==
    ASSUME IInv, NEW c \in CNode, Allocated(job[c]), NEW page \in Page,
           NEW own \in BOOLEAN, NEW then \in {"page", "ipcmap", "window", "shared"},
           Step(c, Tables(job[c], page, own, then)), OnlyOf(c),
           alloc'[c]["sc"] = alloc[c]["sc"],
           then = "window" => alloc'[c]["page"] > 0,
           then = "shared" =>
              /\ job[c].k <= Len(Program(c).rights) /\ Right(c).type = "memory"
              /\ job[c].i < Right(c).pages
    PROVE  JobsOK'
<1> DEFINE j == job[c]
           new == Tables(job[c], page, own, then)
<1>1. j \in Job /\ JobOK(j, alloc[c], image[c])
  BY JobType
<1>2. then \in Pc
  BY DEF Pc
<1>3. new \in Job
  BY <1>1, <1>2, TablesType
<1>4. /\ new.pc = "tables" /\ new.then = then /\ new.k = j.k /\ new.i = j.i
      /\ new.program = j.program /\ SameObjects(j, new)
  BY <1>1 DEF Tables, Job, SameObjects
<1>5. image'[c].id \in PdId
  BY <1>1 DEF JobOK, OnlyOf, Allocated
<1>6. JobOK(new, alloc'[c], image'[c])
  <2> HIDE DEF new
  <2> QED
    BY <1>1, <1>4, <1>5 DEF JobOK, Allocated, SameObjects, Program, Right
<1>7. Step(c, new)
  OBVIOUS
<1> HIDE DEF new
<1> QED
  BY <1>3, <1>6, <1>7, StepJobs

LEMMA NextPageKeeps ==
    ASSUME IInv, NEW c \in CNode, NextPage(c)
    PROVE  IInv'
<1> DEFINE j == job[c]
<1>1. j.pc = "segment" /\ UNCHANGED <<caps, threads, space, irqTarget, image, alloc, window>>
  BY DEF NextPage, threads
<1>2. PdsOK' /\ OnlyOf(c) /\ KernelOK'
  BY <1>1, PdsFrame, OnlyOfFrame, KernelFrame DEF threads
<1>3. Allocated(j)
  BY <1>1 DEF Allocated
<1>4. j.program \in AnyProgram /\ j.k \in Nat \ {0}
  BY JobType DEF Job
<1>5. j.program.pages \in Seq(Page) /\ j.program.ipc \in Page
  BY <1>4, ProgramFacts
<1>6. CASE Fail(c)
  BY <1>2, <1>6, FailJobs DEF IInv
<1>7. CASE Step(c, Tables(j, j.program.ipc, FALSE, "ipcmap"))
  BY <1>1, <1>2, <1>3, <1>5, <1>7, TablesJobs DEF IInv
<1>8. CASE /\ j.k <= Len(j.program.pages)
           /\ Step(c, Tables(j, j.program.pages[j.k], FALSE, "page"))
  <2>1. j.program.pages[j.k] \in Page
    BY <1>4, <1>5, <1>8
  <2> QED
    BY <1>1, <1>2, <1>3, <1>8, <2>1, TablesJobs DEF IInv
<1> QED
  BY <1>6, <1>7, <1>8 DEF NextPage

LEMMA RegionType ==
    ASSUME NEW k \in {"pud", "pd", "pt"}, NEW page \in Page PROVE Region(k, page) \in Nat
<1>1. page \in Nat /\ FanOut \in Nat \ {0}
  BY CapSpaceAssumption
<1>2. \A x, y \in Nat \ {0} : x * y \in Nat \ {0}
  OBVIOUS
<1>3. FanOut * FanOut \in Nat \ {0} /\ FanOut * FanOut * FanOut \in Nat \ {0}
  BY <1>1, <1>2
<1>4. \A y \in Nat \ {0} : page \div y \in Nat
  BY <1>1
<1> QED
  BY <1>1, <1>3, <1>4 DEF Region

LEMMA MapTableKeeps ==
    ASSUME IInv, NEW c \in CNode, MapTable(c)
    PROVE  IInv'
<1> DEFINE j == job[c]
           kind == TableKind[j.level]
           v == JobVSpace(c)
           entry == <<v.n, kind, Region(kind, j.page)>>
           new == IF j.level < 3 THEN [j EXCEPT !.level = @ + 1]
                                 ELSE [j EXCEPT !.pc = j.then]
<1>1. j.pc = "tables" /\ UNCHANGED <<caps, threads, asids, frames, memory, irqTarget,
                                     image, window>>
  BY DEF MapTable, threads
<1>2. j \in Job /\ JobOK(j, alloc[c], image[c])
  BY JobType
<1>3. kind \in {"pud", "pd", "pt"} /\ j.page \in Page
  BY <1>2 DEF Job, TableKind
<1>4. GoodCap(v)
  BY <1>1, JobCaps
<1>5. KernelOK'
  <2>1. entry \in Nat \X {"pud", "pd", "pt"} \X Nat
    BY <1>3, <1>4, RegionType DEF GoodCap, Cap
  <2>2. tables' \in {tables, tables \cup {entry}}
    BY DEF MapTable
  <2>3. tables' \subseteq Nat \X {"pud", "pd", "pt"} \X Nat
    <3> HIDE DEF entry
    <3> QED
      BY <2>1, <2>2 DEF IInv, KernelOK
  <2> QED
    BY <1>1, <2>3 DEF IInv, KernelOK, GoodCaps, threads
<1>6. CASE Fail(c) /\ UNCHANGED alloc
  <2>1. PdsOK' /\ OnlyOf(c)
    BY <1>1, <1>6, PdsFrame, OnlyOfFrame
  <2> QED
    BY <1>5, <1>6, <2>1, FailJobs DEF IInv
<1>7. CASE /\ ~Exhausted(c, kind) /\ Step(c, new)
           /\ alloc' \in {alloc, [alloc EXCEPT ![c][kind] = @ + 1]}
  <2>1. kind \in PoolKind
    BY <1>3 DEF PoolKind
  <2>2. PdsOK' /\ OnlyOf(c)
    BY <1>1, <1>7, <2>1, AllocKeeps, PdsFrame, OnlyOfFrame
  <2>3. alloc'[c]["sc"] = alloc[c]["sc"] /\ alloc'[c]["page"] = alloc[c]["page"]
    BY <1>3, <1>7 DEF IInv, PdsOK, PoolKind
  <2>4. new \in Job
    <3>1. j.level < 3 => j.level + 1 \in 1 .. 3
      BY <1>2 DEF Job
    <3>2. j.then \in Pc
      BY <1>2 DEF Job
    <3> QED
      BY <1>2, <3>1, <3>2 DEF Job
  <2>5. /\ SameObjects(j, new) /\ new.k = j.k /\ new.i = j.i /\ new.program = j.program
        /\ new.then = j.then /\ new.pc \in {"tables", j.then}
    BY <1>1, <1>2 DEF Job, SameObjects
  <2>6. image'[c].id \in PdId
    BY <1>1, <1>2 DEF JobOK
  <2>7. JobOK(new, alloc'[c], image'[c])
    <3> HIDE DEF new
    <3> QED
      BY <1>1, <1>2, <2>3, <2>5, <2>6 DEF JobOK, SameObjects
  <2>8. JobsOK'
    <3> HIDE DEF new
    <3> QED
      BY <1>7, <2>2, <2>4, <2>7, StepJobs
  <2> QED
    BY <1>5, <2>2, <2>8 DEF IInv
<1> QED
  BY <1>6, <1>7 DEF MapTable

\* A frame is mapped into a VSpace, or unmapped from it.
LEMMA MappedType ==
    ASSUME IInv, NEW v, NEW p, NEW f, GoodCap(f), NEW w \in BOOLEAN
    PROVE  Mapped(v, p, f, w) \in
              [VSpace -> [Page -> [kind : PoolKind \cup OtherKind, n : Nat, w : BOOLEAN]]]
<1> DEFINE Frame == [kind : PoolKind \cup OtherKind, n : Nat, w : BOOLEAN]
           x == [kind |-> f.kind, n |-> f.n, w |-> w]
<1>1. x \in Frame
  BY DEF GoodCap, Cap
<1>2. frames \in [VSpace -> [Page -> Frame]]
  BY DEF IInv, KernelOK
<1> HIDE DEF x, Frame
<1>3. [frames EXCEPT ![v.n][p] = x] \in [VSpace -> [Page -> Frame]]
  BY <1>1, <1>2
<1> QED
  BY <1>3 DEF Mapped, x, Frame

LEMMA WithoutMappingType ==
    ASSUME IInv, NEW f
    PROVE  WithoutMapping(f) \in
              [VSpace -> [Page -> [kind : PoolKind \cup OtherKind, n : Nat, w : BOOLEAN]]]
<1> DEFINE Frame == [kind : PoolKind \cup OtherKind, n : Nat, w : BOOLEAN]
<1>1. NoFrame \in Frame
  BY DEF NoFrame, OtherKind
<1>2. frames \in [VSpace -> [Page -> Frame]]
  BY DEF IInv, KernelOK
<1> HIDE DEF Frame
<1>3. [frames EXCEPT ![f.at.vs][f.at.page] = NoFrame] \in [VSpace -> [Page -> Frame]]
  BY <1>1, <1>2
<1> QED
  BY <1>2, <1>3 DEF WithoutMapping, Frame

\* A step that changes only the capabilities and what is mapped.
LEMMA FramesKernel ==
    ASSUME IInv, GoodCaps(caps'),
           frames' \in [VSpace -> [Page -> [kind : PoolKind \cup OtherKind, n : Nat, w : BOOLEAN]]],
           memory' \in [ObjNum("page") -> Content],
           UNCHANGED <<threads, asids, tables, irqTarget>>
    PROVE  KernelOK'
  BY DEF IInv, KernelOK, GoodCaps, threads

LEMMA PlaceType ==
    ASSUME NEW v, GoodCap(v), NEW p \in Page PROVE [vs |-> v.n, page |-> p] \in Place
  BY DEF GoodCap, Cap, Place

LEMMA MapPageKeeps ==
    ASSUME IInv, NEW c \in CNode, MapPage(c)
    PROVE  IInv'
<1> DEFINE j == job[c]
           f == PoolCap(c, "page")
           v == JobVSpace(c)
           slot == At("page", alloc[c]["page"])
           place == [vs |-> v.n, page |-> j.page]
           tab == Tables(j, TempPage, TRUE, "window")
<1>1. /\ j.pc \in {"page", "ipcmap"}
      /\ UNCHANGED <<threads, asids, tables, memory, irqTarget, image, window>>
  BY DEF MapPage, threads
<1>2. j \in Job /\ JobOK(j, alloc[c], image[c]) /\ Allocated(j)
  BY <1>1, JobType DEF Allocated
<1>3. CASE Fail(c) /\ UNCHANGED <<frames, caps, alloc>>
  <2>1. PdsOK' /\ OnlyOf(c) /\ KernelOK'
    BY <1>1, <1>3, PdsFrame, OnlyOfFrame, KernelFrame DEF threads, space
  <2> QED
    BY <1>3, <2>1, FailJobs DEF IInv
<1>4. CASE /\ ~Exhausted(c, "page")
           /\ frames' = Mapped(v, j.page, f, TRUE)
           /\ caps' = [caps EXCEPT ![c][slot].at = place]
           /\ alloc' = [alloc EXCEPT ![c]["page"] = @ + 1]
           /\ Step(c, IF j.pc = "ipcmap" THEN [j EXCEPT !.pc = "ipcbuffer"]
                      ELSE IF window[c] THEN [j EXCEPT !.pc = "window"] ELSE tab)
  <2>1. "page" \in PoolKind /\ j.page \in Page
    BY <1>2 DEF PoolKind, Job
  <2>2. GoodCap(f) /\ slot \in Slot
    BY <1>4, <2>1, PoolCapType
  <2>3. GoodCap(v)
    BY <1>1, JobCaps
  <2>4. place \in Place
    BY <2>1, <2>3, PlaceType
  <2>5. GoodCaps(caps')
    <3> HIDE DEF slot, place
    <3> QED
      BY <1>4, <2>2, <2>4, MapGood DEF IInv, KernelOK
  <2>6. KernelOK'
    BY <1>1, <1>4, <2>2, <2>5, MappedType, FramesKernel DEF IInv, KernelOK
  <2>7. PdsOK' /\ OnlyOf(c) /\ alloc'[c]["page"] = alloc[c]["page"] + 1
    BY <1>1, <1>4, <2>1, AllocKeeps
  <2>8. alloc'[c]["sc"] = alloc[c]["sc"] /\ alloc'[c]["page"] > 0
    BY <1>4, <2>1 DEF IInv, PdsOK, PoolKind
  <2>9. JobsOK'
    <3>1. CASE Step(c, tab)
      BY <1>2, <2>7, <2>8, <3>1, TablesJobs, LayoutAssumption
    <3>2. ASSUME NEW pc \in {"ipcbuffer", "window"}, Step(c, [j EXCEPT !.pc = pc])
          PROVE  JobsOK'
      <4> DEFINE new == [j EXCEPT !.pc = pc]
      <4>1. pc \in Pc
        BY DEF Pc
      <4>2. new \in Job /\ new.pc = pc /\ SameObjects(j, new)
        BY <1>2, <4>1, GotoType
      <4>3. image'[c].id \in PdId
        BY <1>1, <1>2 DEF JobOK
      <4>4. JobOK(new, alloc'[c], image'[c])
        <5> HIDE DEF new
        <5> QED
          BY <1>2, <2>8, <4>2, <4>3 DEF JobOK, Allocated, SameObjects
      <4>5. Step(c, new)
        BY <3>2
      <4> HIDE DEF new
      <4> QED
        BY <2>7, <4>2, <4>4, <4>5, StepJobs
    <3>3. \/ Step(c, tab)
          \/ \E pc \in {"ipcbuffer", "window"} : Step(c, [j EXCEPT !.pc = pc])
      BY <1>4
    <3> QED
      BY <3>1, <3>2, <3>3
  <2> QED
    BY <2>6, <2>7, <2>9 DEF IInv
<1> QED
  BY <1>3, <1>4 DEF MapPage

LEMMA WriteHandleKeeps ==
    ASSUME IInv, NEW c \in CNode, WriteHandle(c)
    PROVE  IInv'
<1> DEFINE j == job[c]
           own == OwnRoot(c)
           v == OwnVSpace(c)
           from == At("page", alloc[c]["page"] - 1)
           emptied == [caps EXCEPT ![own.n][TempSlot] = NullCap]
           copied == CopyTo(emptied, own, TempSlot, own, from)
           f == copied[own.n][TempSlot]
           place == [vs |-> v.n, page |-> TempPage]
           new == [j EXCEPT !.pc = "segment", !.k = @ + 1]
<1>1. /\ j.pc = "window" /\ window' = [window EXCEPT ![c] = TRUE]
      /\ UNCHANGED <<threads, asids, tables, irqTarget, image, alloc>>
  BY DEF WriteHandle, threads
<1>2. j \in Job /\ JobOK(j, alloc[c], image[c]) /\ Allocated(j)
  BY <1>1, JobType DEF Allocated
<1>3. PdsOK' /\ OnlyOf(c)
  BY <1>1, OnlyOfFrame DEF IInv, PdsOK
<1>4. GoodCap(own) /\ GoodCap(v)
  BY <1>1, OwnCaps
<1>5. GoodCaps(caps) /\ GoodCaps(emptied)
  BY NullCapGood, PutGood DEF IInv, KernelOK
<1>6. memory \in [ObjNum("page") -> Content]
  BY DEF IInv, KernelOK
<1>7. CASE /\ caps' = emptied
           /\ frames' = WithoutMapping(caps[own.n][TempSlot])
           /\ Fail(c) /\ UNCHANGED memory
  <2>1. KernelOK'
    <3> HIDE DEF own, emptied
    <3> QED
      BY <1>1, <1>5, <1>6, <1>7, WithoutMappingType, FramesKernel
  <2> QED
    BY <1>3, <1>7, <2>1, FailJobs DEF IInv
<1>8. CASE /\ CanTransfer(emptied, own, TempSlot, own, from)
           /\ caps' = [copied EXCEPT ![own.n][TempSlot].at = place]
           /\ frames' = Mapped(v, TempPage, f, TRUE)
           /\ memory' = [memory EXCEPT ![f.n] = [program |-> j.program.name, k |-> j.k]]
           /\ Step(c, new)
  <2>1. from \in Slot
    <3>1. alloc[c]["page"] \in Nat /\ alloc[c]["page"] <= PoolSize("page") /\ "page" \in PoolKind
      BY DEF IInv, PdsOK, PoolKind
    <3>2. alloc[c]["page"] > 0
      BY <1>1, <1>2 DEF JobOK
    <3>3. PoolSize("page") \in Nat
      BY <3>1, PoolSizeType
    <3> QED
      BY <3>1, <3>2, <3>3, PoolSlots
  <2>2. own.n \in CNode /\ TempSlot \in Slot
    BY <1>4, <1>8, FixedSlots, Zenon DEF CanTransfer, GoodCap
  <2>3. GoodCaps(copied)
    <3> HIDE DEF own, emptied, from
    <3> QED
      BY <1>4, <1>5, <1>8, <2>1, CopyGood
  <2>4. GoodCap(f)
    <3> HIDE DEF own, copied
    <3> QED
      BY <2>2, <2>3, GoodCapAt
  <2>5. place \in Place
    BY <1>4, PlaceType, LayoutAssumption
  <2>6. GoodCaps(caps')
    <3> HIDE DEF own, copied, place
    <3> QED
      BY <1>8, <2>2, <2>3, <2>5, MapGood
  <2>7. memory' \in [ObjNum("page") -> Content]
    <3>1. [program |-> j.program.name, k |-> j.k] \in Content
      BY <1>2 DEF Job, Content
    <3> HIDE DEF f, j
    <3> QED
      BY <1>6, <1>8, <3>1
  <2>8. KernelOK'
    <3>1. frames' \in [VSpace -> [Page -> [kind : PoolKind \cup OtherKind, n : Nat, w : BOOLEAN]]]
      <4> HIDE DEF f, v
      <4> QED
        BY <1>8, <2>4, MappedType
    <3> QED
      BY <1>1, <2>6, <2>7, <3>1, FramesKernel
  <2>9. JobsOK'
    <3>1. "segment" \in Pc /\ j.k + 1 \in Nat \ {0}
      BY <1>2 DEF Pc, Job
    <3>2. new \in Job
      BY <1>2, <3>1, Zenon DEF Job
    <3>3. new.pc = "segment" /\ SameObjects(j, new)
      BY <1>2, SMTT(30) DEF Job, SameObjects
    <3>4. Step(c, new)
      BY <1>8
    <3> HIDE DEF new
    <3> QED
      BY <1>1, <1>2, <1>3, <3>2, <3>3, <3>4, PlainJobs DEF PlainPc
  <2> QED
    BY <1>3, <2>8, <2>9 DEF IInv
<1> QED
  BY <1>7, <1>8, Zenon DEF WriteHandle

LEMMA SetIpcBufferKeeps ==
    ASSUME IInv, NEW c \in CNode, SetIpcBuffer(c)
    PROVE  IInv'
<1> DEFINE j == job[c]
           t == caps[c][At("TCB", Target(c))]
           f == caps[c][At("page", alloc[c]["page"] - 1)]
           new == [j EXCEPT !.pc = "right", !.k = 1, !.i = 0]
<1>1. /\ j.pc = "ipcbuffer"
      /\ UNCHANGED <<caps, budget, image, space, irqTarget, alloc, window>>
  BY DEF SetIpcBuffer
<1>2. j \in Job /\ JobOK(j, alloc[c], image[c]) /\ Allocated(j)
  BY <1>1, JobType DEF Allocated
<1>3. PdsOK' /\ OnlyOf(c)
  BY <1>1, PdsFrame, OnlyOfFrame
<1>4. f.n \in Nat
  <2>1. alloc[c]["page"] \in Nat /\ alloc[c]["page"] <= PoolSize("page") /\ "page" \in PoolKind
    BY DEF IInv, PdsOK, PoolKind
  <2>2. alloc[c]["page"] > 0
    BY <1>1, <1>2 DEF JobOK
  <2>3. PoolSize("page") \in Nat
    BY <2>1, PoolSizeType
  <2>4. At("page", alloc[c]["page"] - 1) \in Slot
    BY <2>1, <2>2, <2>3, PoolSlots
  <2> QED
    BY <2>4, CapType DEF GoodCap, Cap
<1>5. CASE Fail(c) /\ UNCHANGED tcb
  <2>1. KernelOK'
    BY <1>1, <1>5, KernelFrame
  <2> QED
    BY <1>3, <1>5, <2>1, FailJobs DEF IInv
<1>6. CASE tcb' = [tcb EXCEPT ![t.n].ipc = f.n] /\ Step(c, new)
  <2>1. tcb' \in [ObjNum("tcb") -> Tcb]
    <3>1. tcb \in [ObjNum("tcb") -> Tcb]
      BY DEF IInv, KernelOK
    <3>2. [tcb EXCEPT ![t.n].ipc = f.n] \in [ObjNum("tcb") -> Tcb]
      BY <1>4, <3>1, TcbType
    <3> QED
      BY <1>6, <3>2
  <2>2. KernelOK'
    BY <1>1, <2>1, ThreadsKernel DEF IInv, KernelOK
  <2>3. JobsOK'
    <3>1. "right" \in Pc /\ 1 \in Nat \ {0} /\ 0 \in Nat
      BY DEF Pc
    <3>2. new \in Job
      BY <1>2, <3>1 DEF Job
    <3>3. new.pc = "right" /\ SameObjects(j, new)
      BY <1>2 DEF Job, SameObjects
    <3>4. Step(c, new)
      BY <1>6
    <3> HIDE DEF new
    <3> QED
      BY <1>1, <1>2, <1>3, <3>2, <3>3, <3>4, PlainJobs DEF PlainPc
  <2> QED
    BY <1>3, <2>2, <2>3 DEF IInv
<1> QED
  BY <1>5, <1>6 DEF SetIpcBuffer

\* What every entry of the access rights starts from.
LEMMA RightJob ==
    ASSUME IInv, NEW c \in CNode, NEW type, RightIs(c, type)
    PROVE  /\ job[c].pc = "right" /\ job[c].k <= Len(Program(c).rights)
           /\ Right(c).type = type /\ Allocated(job[c])
           /\ Target(c) \in PdId /\ image[c].id \in PdId
<1>1. job[c].pc = "right"
  BY SMTT(30) DEF RightIs
<1> QED
  BY <1>1, JobCaps, OwnCaps DEF RightIs, Right, Allocated

LEMMA SetUpSchedulingKeeps ==
    ASSUME IInv, NEW c \in CNode, SetUpScheduling(c)
    PROVE  IInv'
<1> DEFINE r == Right(c)
           t == caps[c][At("TCB", Target(c))]
           s == caps[c][At("sc", alloc[c]["sc"] - 1)]
           b == caps[c][At("SC", Target(c))]
<1>1. /\ RightIs(c, "scheduling")
      /\ UNCHANGED <<caps, image, space, irqTarget, alloc, window>>
  BY DEF SetUpScheduling
<1>2. /\ job[c].pc = "right" /\ Allocated(job[c]) /\ Target(c) \in PdId
      /\ r.type = "scheduling" /\ job[c].k <= Len(Program(c).rights)
  BY <1>1, RightJob
<1>3. PdsOK' /\ OnlyOf(c)
  BY <1>1, PdsFrame, OnlyOfFrame
<1>4. r.mcp \in Nat
  BY <1>2, RightType
<1>5. b.n \in Nat
  <2>1. At("SC", Target(c)) \in Slot
    BY <1>2, PdSlots DEF PdArea
  <2> QED
    BY <2>1, CapType DEF GoodCap, Cap
<1>6. s.n \in Nat
  <2>1. alloc[c]["sc"] \in Nat /\ alloc[c]["sc"] <= PoolSize("sc") /\ "sc" \in PoolKind
    BY DEF IInv, PdsOK, PoolKind
  <2>2. alloc[c]["sc"] > 0
    BY <1>2, JobType DEF JobOK
  <2>3. PoolSize("sc") \in Nat
    BY <2>1, PoolSizeType
  <2>4. At("sc", alloc[c]["sc"] - 1) \in Slot
    BY <2>1, <2>2, <2>3, PoolSlots, SMTT(30)
  <2> QED
    BY <2>4, CapType DEF GoodCap, Cap
<1>7. tcb' = tcb \/ tcb' = [tcb EXCEPT ![t.n].sc = s.n, ![t.n].mcp = r.mcp]
  BY Zenon DEF SetUpScheduling
<1>8. budget' = budget \/ budget' = budget \cup {b.n}
  BY DEF SetUpScheduling
<1>9. KernelOK'
  <2>1. tcb \in [ObjNum("tcb") -> Tcb] /\ budget \subseteq Nat
    BY DEF IInv, KernelOK
  <2> DEFINE one == [tcb EXCEPT ![t.n].sc = s.n]
  <2>2. one \in [ObjNum("tcb") -> Tcb]
    BY <1>6, <2>1, TcbType
  <2>3. tcb' = tcb \/ tcb' = [one EXCEPT ![t.n].mcp = r.mcp]
    BY <1>7
  <2>4. tcb' \in [ObjNum("tcb") -> Tcb]
    <3> HIDE DEF one
    <3>1. [one EXCEPT ![t.n].mcp = r.mcp] \in [ObjNum("tcb") -> Tcb]
      BY <1>4, <2>2, TcbType
    <3> QED
      BY <2>1, <2>3, <3>1
  <2>5. budget' \subseteq Nat
    BY <1>5, <1>8, <2>1
  <2> QED
    BY <1>1, <2>4, <2>5, ThreadsKernel
<1>10. JobsOK'
  <2>1. Crash(c) \/ Step(c, NextRight(job[c]))
    BY DEF SetUpScheduling
  <2>2. CASE Crash(c)
    BY <1>2, <1>3, <2>2, CrashJobs
  <2>3. CASE Step(c, NextRight(job[c]))
    BY <1>1, <1>2, <1>3, <2>3, NextRightJobs DEF Allocated
  <2> QED
    BY <2>1, <2>2, <2>3, SMTT(30)
<1> QED
  BY <1>3, <1>9, <1>10 DEF IInv

LEMMA MintChannelKeeps ==
    ASSUME IInv, NEW c \in CNode, MintChannel(c)
    PROVE  IInv'
<1> DEFINE j == job[c]
           r == Right(c)
           first == j.i = 0
           a == IF first THEN Target(c) ELSE r.target
           b == IF first THEN r.target ELSE Target(c)
           aId == IF first THEN r.ownId ELSE r.targetId
           bId == IF first THEN r.targetId ELSE r.ownId
           new == [j EXCEPT !.i = 1]
<1>1. /\ RightIs(c, "channel")
      /\ UNCHANGED <<threads, space, irqTarget, image, alloc, window>>
  BY DEF MintChannel, threads
<1>2. /\ j.pc = "right" /\ Allocated(j) /\ Target(c) \in PdId
      /\ r.type = "channel" /\ j.k <= Len(Program(c).rights)
  BY <1>1, RightJob
<1>3. PdsOK' /\ OnlyOf(c)
  BY <1>1, PdsFrame, OnlyOfFrame
<1>4. r.target \in PdId /\ r.targetId \in ChannelId /\ r.ownId \in ChannelId
  BY <1>2, RightType
<1>5. CASE Crash(c) /\ UNCHANGED caps
  <2>1. KernelOK'
    BY <1>1, <1>5, KernelFrame DEF threads
  <2> QED
    BY <1>2, <1>3, <1>5, <2>1, CrashJobs DEF IInv
<1>6. CASE /\ CanTransfer(caps, PdRoot(c, a), At("OUT", aId), PdRoot(c, b), At("CHAN", b))
           /\ caps' = MintTo(caps, PdRoot(c, a), At("OUT", aId),
                             PdRoot(c, b), At("CHAN", b), Badge(bId))
           /\ Step(c, IF first THEN new ELSE NextRight(j))
  <2>1. b \in PdId /\ bId \in ChannelId
    BY <1>2, <1>4
  <2>2. GoodCap(PdRoot(c, b)) /\ At("CHAN", b) \in Slot
    <3> HIDE DEF b
    <3> QED
      BY <2>1, PdRootType, PdSlots DEF PdArea
  <2>3. Badge(bId) \in Badges
    <3>1. bId \in Nat
      <4> HIDE DEF bId
      <4> QED
        BY <2>1, CapSpaceAssumption
    <3> HIDE DEF bId
    <3> QED
      BY <3>1, BadgeType
  <2>4. GoodCaps(caps')
    <3> HIDE DEF a, b, aId, bId
    <3> QED
      BY <1>6, <2>2, <2>3, MintGood DEF IInv, KernelOK
  <2>5. KernelOK'
    BY <1>1, <2>4, CapsKernel
  <2>6. JobsOK'
    <3>1. CASE Step(c, NextRight(j))
      BY <1>1, <1>2, <1>3, <3>1, NextRightJobs DEF Allocated
    <3>2. CASE Step(c, new)
      <4>1. j \in Job
        BY JobType
      <4>2. new \in Job
        BY <4>1 DEF Job
      <4>3. new.pc = "right" /\ SameObjects(j, new)
        BY <1>2, <4>1 DEF Job, SameObjects
      <4> HIDE DEF new
      <4> QED
        BY <1>1, <1>2, <1>3, <3>2, <4>2, <4>3, PlainJobs DEF PlainPc
    <3> QED
      BY <1>6, <3>1, <3>2
  <2> QED
    BY <1>3, <2>5, <2>6 DEF IInv
<1> QED
  BY <1>5, <1>6 DEF MintChannel

LEMMA SetUpRegionKeeps ==
    ASSUME IInv, NEW c \in CNode, SetUpRegion(c)
    PROVE  IInv'
<1> DEFINE j == job[c]
           r == Right(c)
<1>1. /\ RightIs(c, "memory")
      /\ UNCHANGED <<caps, threads, space, irqTarget, image, alloc, window>>
  BY DEF SetUpRegion, threads
<1>2. /\ j.pc = "right" /\ Allocated(j)
      /\ r.type = "memory" /\ j.k <= Len(Program(c).rights)
  BY <1>1, RightJob
<1>3. PdsOK' /\ OnlyOf(c) /\ KernelOK'
  BY <1>1, PdsFrame, OnlyOfFrame, KernelFrame DEF threads
<1>4. CASE Step(c, NextRight(j))
  BY <1>1, <1>2, <1>3, <1>4, NextRightJobs DEF Allocated, IInv
<1>5. CASE j.i < r.pages /\ Step(c, Tables(j, r.page + j.i, FALSE, "shared"))
  <2>1. j.i \in Nat /\ r.pages \in Nat
    BY <1>2, RightType, JobType DEF Job
  <2>2. j.i \in 0 .. r.pages - 1
    BY <1>5, <2>1
  <2>3. r.page + j.i \in Page
    BY <1>2, <2>2, RightType
  <2> QED
    BY <1>1, <1>2, <1>3, <1>5, <2>3, TablesJobs DEF IInv
<1> QED
  BY <1>4, <1>5 DEF SetUpRegion

LEMMA MapSharedKeeps ==
    ASSUME IInv, NEW c \in CNode, MapShared(c)
    PROVE  IInv'
<1> DEFINE j == job[c]
           r == Right(c)
           slot == At("SHARED", r.id + j.i)
           f == caps[c][slot]
           v == JobVSpace(c)
           to == At("SHARED", j.shared)
           place == [vs |-> v.n, page |-> j.page]
           mapped == [caps EXCEPT ![c][slot].at = place]
           new == [j EXCEPT !.pc = "right", !.i = @ + 1, !.shared = @ + 1]
<1>1. /\ j.pc = "shared"
      /\ UNCHANGED <<threads, asids, tables, memory, irqTarget, image, alloc, window>>
  BY DEF MapShared, threads
<1>2. j \in Job /\ JobOK(j, alloc[c], image[c]) /\ Allocated(j)
  BY <1>1, JobType DEF Allocated
<1>3. PdsOK' /\ OnlyOf(c)
  BY <1>1, PdsFrame, OnlyOfFrame
<1>4. slot \in Slot /\ r.w \in BOOLEAN
  <2>1. j.k <= Len(Program(c).rights) /\ r.type = "memory" /\ j.i < r.pages
    BY <1>1, <1>2 DEF JobOK, Program, Right
  <2>2. j.i \in Nat /\ r.pages \in Nat /\ r.w \in BOOLEAN
    BY <1>1, <1>2, <2>1, RightType DEF Job
  <2>3. j.i \in 0 .. r.pages - 1
    BY <2>1, <2>2
  <2>4. r.id + j.i \in SharedIdx
    BY <1>1, <2>1, <2>3, RightType
  <2> QED
    BY <2>2, <2>4, SharedSlots
<1>5. GoodCap(f) /\ GoodCap(v) /\ GoodCaps(caps)
  BY <1>1, <1>4, CapType, JobCaps DEF IInv, KernelOK
<1>6. CASE Fail(c) /\ UNCHANGED <<frames, caps>>
  <2>1. KernelOK'
    BY <1>1, <1>6, KernelFrame DEF threads, space
  <2> QED
    BY <1>3, <1>6, <2>1, FailJobs DEF IInv
<1>7. CASE /\ frames' = Mapped(v, j.page, f, r.w /\ f.w)
           /\ \/ /\ CanTransfer(mapped, PdRoot(c, j.id), to, OwnRoot(c), slot)
                 /\ caps' = CopyTo(mapped, PdRoot(c, j.id), to, OwnRoot(c), slot)
                 /\ Step(c, new)
              \/ caps' = mapped /\ Fail(c)
  <2>1. place \in Place
    BY <1>2, <1>5, PlaceType DEF Job
  <2>2. GoodCaps(mapped)
    <3> HIDE DEF slot, place
    <3> QED
      BY <1>4, <1>5, <2>1, MapGood
  <2>3. GoodCap(OwnRoot(c))
    BY <1>1, OwnCaps
  <2>4. GoodCaps(caps')
    <3> HIDE DEF mapped, slot, to
    <3> QED
      BY <1>4, <1>7, <2>2, <2>3, CopyGood
  <2>5. (r.w /\ f.w) \in BOOLEAN
    OBVIOUS
  <2>6. frames' \in [VSpace -> [Page -> [kind : PoolKind \cup OtherKind, n : Nat, w : BOOLEAN]]]
    <3> DEFINE w == r.w /\ f.w
    <3>1. frames' = Mapped(v, j.page, f, w) /\ w \in BOOLEAN
      BY <1>7
    <3> HIDE DEF w, f, v
    <3> QED
      BY <1>5, <3>1, MappedType
  <2>7. KernelOK'
    BY <1>1, <2>4, <2>6, FramesKernel DEF IInv, KernelOK
  <2>8. JobsOK'
    <3>1. CASE Fail(c)
      BY <1>3, <3>1, FailJobs
    <3>2. CASE Step(c, new)
      <4>1. "right" \in Pc /\ j.i + 1 \in Nat /\ j.shared + 1 \in Nat
        BY <1>2 DEF Pc, Job
      <4>2. new \in Job
        BY <1>2, <4>1 DEF Job
      <4>3. new.pc = "right" /\ SameObjects(j, new)
        BY <1>2 DEF Job, SameObjects
      <4> HIDE DEF new
      <4> QED
        BY <1>1, <1>2, <1>3, <3>2, <4>2, <4>3, PlainJobs DEF PlainPc
    <3> QED
      BY <1>7, <3>1, <3>2
  <2> QED
    BY <1>3, <2>7, <2>8 DEF IInv
<1> QED
  BY <1>6, <1>7 DEF MapShared

\* On to the next of the three calls of sel4cp_internal_set_up_irq.
LEMMA IrqJobs ==
    ASSUME IInv, NEW c \in CNode, Allocated(job[c]), NEW pc \in {"irqtarget", "irqmove"},
           job[c].k <= Len(Program(c).rights), Right(c).type = "irq",
           Goto(c, pc), OnlyOf(c), UNCHANGED alloc
    PROVE  JobsOK'
<1> DEFINE new == [job[c] EXCEPT !.pc = pc]
<1>1. job[c] \in Job /\ JobOK(job[c], alloc[c], image[c]) /\ pc \in Pc
  BY JobType DEF Pc
<1>2. new \in Job /\ new.pc = pc /\ SameObjects(job[c], new) /\ Step(c, new)
  BY <1>1, GotoType DEF Goto
<1>3. new.k = job[c].k /\ new.program = job[c].program
  BY <1>1 DEF Job
<1>4. image'[c].id \in PdId
  BY <1>1 DEF JobOK, OnlyOf, Allocated
<1> HIDE DEF new
<1>5. JobOK(new, alloc'[c], image'[c])
  BY <1>1, <1>2, <1>3, <1>4 DEF JobOK, Allocated, SameObjects, Program, Right
<1> QED
  BY <1>2, <1>5, StepJobs

LEMMA MintIrqBadgeKeeps ==
    ASSUME IInv, NEW c \in CNode, MintIrqBadge(c)
    PROVE  IInv'
<1> DEFINE own == OwnRoot(c)
           emptied == [caps EXCEPT ![own.n][TempSlot] = NullCap]
           from == At("CHAN", Target(c))
           id == Right(c).childId
<1>1. /\ RightIs(c, "irq") /\ frames' = WithoutMapping(caps[own.n][TempSlot])
      /\ UNCHANGED <<threads, asids, tables, memory, irqTarget, image, alloc, window>>
  BY DEF MintIrqBadge, threads
<1>2. /\ job[c].pc = "right" /\ Allocated(job[c]) /\ Target(c) \in PdId
      /\ Right(c).type = "irq" /\ job[c].k <= Len(Program(c).rights)
  BY <1>1, RightJob
<1>3. PdsOK' /\ OnlyOf(c)
  BY <1>1, PdsFrame, OnlyOfFrame
<1>4. GoodCap(own) /\ from \in Slot
  BY <1>2, OwnCaps, PdSlots DEF PdArea
<1>5. GoodCaps(emptied)
  BY NullCapGood, PutGood DEF IInv, KernelOK
<1>6. Badge(id) \in Badges
  <2>1. id \in Nat
    BY <1>2, RightType, CapSpaceAssumption
  <2> HIDE DEF id
  <2> QED
    BY <2>1, BadgeType
<1>7. \/ caps' = emptied /\ Crash(c)
      \/ /\ CanTransfer(emptied, own, TempSlot, own, from)
         /\ caps' = MintTo(emptied, own, TempSlot, own, from, Badge(id))
         /\ Goto(c, "irqtarget")
  BY DEF MintIrqBadge
<1>8. GoodCaps(caps')
  <2> HIDE DEF own, emptied, from, id
  <2> QED
    BY <1>4, <1>5, <1>6, <1>7, MintGood
<1>9. KernelOK'
  <2>1. frames' \in [VSpace -> [Page -> [kind : PoolKind \cup OtherKind, n : Nat, w : BOOLEAN]]]
    <3> HIDE DEF own
    <3> QED
      BY <1>1, WithoutMappingType
  <2>2. memory' \in [ObjNum("page") -> Content]
    BY <1>1 DEF IInv, KernelOK
  <2> QED
    BY <1>1, <1>8, <2>1, <2>2, FramesKernel
<1>10. JobsOK'
  <2>1. CASE Crash(c)
    BY <1>2, <1>3, <2>1, CrashJobs
  <2>2. CASE Goto(c, "irqtarget")
    BY <1>1, <1>2, <1>3, <2>2, IrqJobs
  <2> QED
    BY <1>7, <2>1, <2>2
<1> QED
  BY <1>3, <1>9, <1>10 DEF IInv

\* The access right that the two later steps of set_up_irq are at.
LEMMA IrqJob ==
    ASSUME IInv, NEW c \in CNode, job[c].pc \in {"irqtarget", "irqmove"}
    PROVE  /\ Allocated(job[c]) /\ job[c].k <= Len(Program(c).rights)
           /\ Right(c).type = "irq"
           /\ Right(c).parentId \in ChannelId /\ Right(c).childId \in ChannelId
<1>1. JobOK(job[c], alloc[c], image[c])
  BY JobType
<1>2. /\ Allocated(job[c]) /\ job[c].k <= Len(Program(c).rights)
      /\ Right(c).type = "irq"
  BY <1>1 DEF JobOK, Allocated, Program, Right
<1> QED
  BY <1>2, RightType DEF Allocated

LEMMA SetIrqTargetKeeps ==
    ASSUME IInv, NEW c \in CNode, SetIrqTarget(c)
    PROVE  IInv'
<1>1. /\ job[c].pc = "irqtarget"
      /\ UNCHANGED <<caps, threads, space, image, alloc, window>>
  BY DEF SetIrqTarget, threads
<1>2. PdsOK' /\ OnlyOf(c)
  BY <1>1, PdsFrame, OnlyOfFrame
<1>3. KernelOK'
  <2>1. caps[c][TempSlot] \in Cap
    BY FixedSlots, CapType DEF GoodCap
  <2>2. irqTarget' \in Cap
    BY <2>1 DEF SetIrqTarget, IInv, KernelOK
  <2> QED
    BY <1>1, <2>2 DEF IInv, KernelOK, GoodCaps, threads, space
<1>4. JobsOK'
  <2>1. CASE Crash(c)
    BY <1>1, <1>2, <2>1, CrashJobs
  <2>2. CASE Goto(c, "irqmove")
    BY <1>1, <1>2, <2>2, IrqJob, IrqJobs
  <2> QED
    BY <2>1, <2>2 DEF SetIrqTarget
<1> QED
  BY <1>2, <1>3, <1>4 DEF IInv

LEMMA MoveIrqHandlerKeeps ==
    ASSUME IInv, NEW c \in CNode, MoveIrqHandler(c)
    PROVE  IInv'
<1> DEFINE to == At("IRQ", Right(c).childId)
           from == At("IRQ", Right(c).parentId)
           root == PdRoot(c, Target(c))
<1>1. /\ job[c].pc = "irqmove"
      /\ UNCHANGED <<threads, space, irqTarget, image, alloc, window>>
  BY DEF MoveIrqHandler, threads
<1>2. PdsOK' /\ OnlyOf(c)
  BY <1>1, PdsFrame, OnlyOfFrame
<1>3. from \in Slot /\ GoodCap(OwnRoot(c))
  BY <1>1, IrqJob, OwnCaps, ChannelSlots DEF ChannelArea
<1>4. CASE Crash(c) /\ UNCHANGED caps
  <2>1. KernelOK'
    BY <1>1, <1>4, KernelFrame DEF threads
  <2> QED
    BY <1>1, <1>2, <1>4, <2>1, CrashJobs DEF IInv
<1>5. CASE /\ CanTransfer(caps, root, to, OwnRoot(c), from)
           /\ caps' = MoveTo(caps, root, to, OwnRoot(c), from)
           /\ Step(c, NextRight(job[c]))
  <2>1. GoodCaps(caps')
    <3> HIDE DEF root, to, from
    <3> QED
      BY <1>3, <1>5, MoveGood DEF IInv, KernelOK
  <2>2. KernelOK'
    BY <1>1, <2>1, CapsKernel
  <2>3. JobsOK'
    BY <1>1, <1>2, <1>5, NextRightJobs
  <2> QED
    BY <1>2, <2>2, <2>3 DEF IInv
<1> QED
  BY <1>4, <1>5 DEF MoveIrqHandler

LEMMA SkipControlKeeps ==
    ASSUME IInv, NEW c \in CNode, SkipControl(c) \/ UnknownRight(c)
    PROVE  IInv'
<1>1. /\ RightIs(c, "control") \/ RightIs(c, "invalid")
      /\ UNCHANGED <<caps, threads, space, irqTarget, image, alloc, window>>
  BY DEF SkipControl, UnknownRight, threads
<1>2. PdsOK' /\ OnlyOf(c) /\ KernelOK'
  BY <1>1, PdsFrame, OnlyOfFrame, KernelFrame DEF threads
<1>3. JobsOK'
  <2>1. job[c].pc = "right"
    BY <1>1 DEF RightIs
  <2>2. CASE Fail(c)
    BY <1>2, <2>2, FailJobs
  <2>3. CASE Step(c, NextRight(job[c]))
    BY <1>1, <1>2, <2>1, <2>3, NextRightJobs
  <2> QED
    BY <2>2, <2>3 DEF SkipControl, UnknownRight
<1> QED
  BY <1>2, <1>3 DEF IInv

LEMMA RestartKeeps ==
    ASSUME IInv, NEW c \in CNode, Restart(c)
    PROVE  IInv'
<1> DEFINE j == job[c]
           t == caps[c][At("TCB", Target(c))]
           im == [id |-> Target(c), tcb |-> t.n, program |-> Program(c)]
           new == [j EXCEPT !.pc = "idle", !.ret = 0]
<1>1. j.pc = "right" /\ UNCHANGED <<caps, budget, space, irqTarget, alloc, window>>
  BY DEF Restart
<1>2. j \in Job /\ JobOK(j, alloc[c], image[c]) /\ Target(c) \in PdId
  BY <1>1, JobType, JobCaps
<1>3. CASE Crash(c) /\ UNCHANGED <<tcb, image>>
  <2>1. PdsOK' /\ OnlyOf(c) /\ KernelOK'
    BY <1>1, <1>3, PdsFrame, OnlyOfFrame, KernelFrame
  <2> QED
    BY <1>1, <1>3, <2>1, CrashJobs DEF IInv
<1>4. CASE /\ tcb' = [tcb EXCEPT ![t.n].running = TRUE]
           /\ image' = [image EXCEPT ![tcb[t.n].cspace] = im]
           /\ Step(c, new)
  <2>1. At("TCB", Target(c)) \in Slot
    BY <1>2, PdSlots DEF PdArea
  <2>2. im \in [id : PdId, tcb : Nat, program : AnyProgram]
    BY <1>2, <2>1, CapType DEF GoodCap, Cap, Job, Program
  <2>3. PdsOK'
    <3>1. image' \in [CNode -> {NoImage} \cup [id : PdId, tcb : Nat, program : AnyProgram]]
      <4> HIDE DEF im, t
      <4> QED
        BY <1>4, <2>2 DEF IInv, PdsOK
    <3> QED
      BY <1>1, <3>1 DEF IInv, PdsOK
  <2>4. OnlyOf(c)
    <3>1. im.id \in PdId
      BY <1>2
    <3>2. \A d \in CNode : image'[d].id \in {image[d].id} \cup PdId
      <4> HIDE DEF im, t
      <4> QED
        BY <1>4, <3>1 DEF IInv, PdsOK
    <3>3. alloc' = [alloc EXCEPT ![c] = alloc'[c]]
      BY <1>1 DEF IInv, PdsOK
    <3> QED
      BY <3>2, <3>3 DEF OnlyOf
  <2>5. KernelOK'
    <3>1. tcb \in [ObjNum("tcb") -> Tcb]
      BY DEF IInv, KernelOK
    <3>2. [tcb EXCEPT ![t.n].running = TRUE] \in [ObjNum("tcb") -> Tcb]
      <4> HIDE DEF t
      <4> QED
        BY <3>1, TcbType
    <3>3. tcb' \in [ObjNum("tcb") -> Tcb]
      BY <1>4, <3>2
    <3> QED
      BY <1>1, <3>3, ThreadsKernel DEF IInv, KernelOK
  <2>6. new \in Job
    BY <1>2 DEF Job, Pc
  <2>7. JobOK(new, alloc'[c], image'[c])
    BY <1>2 DEF JobOK, Job
  <2>8. JobsOK'
    <3>1. Step(c, new)
      BY <1>4
    <3> HIDE DEF new
    <3> QED
      BY <2>4, <2>6, <2>7, <3>1, StepJobs
  <2> QED
    BY <2>3, <2>5, <2>8 DEF IInv
<1> QED
  BY <1>3, <1>4 DEF Restart

----------------------------------------------------------------------------
(* The system at boot *)

LEMMA ObjectNumbers ==
    ASSUME NEW k \in PoolKind
    PROVE  /\ 0 \in ObjNum(k) /\ StaticNum(k) \in ObjNum(k) /\ ObjNum(k) \subseteq Nat
           /\ StaticNum(k) \in Nat
           /\ \A i \in 0 .. PoolSize(k) - 1 : i + 1 \in ObjNum(k)
  BY PoolSizeType DEF ObjNum, StaticNum

LEMMA MkCapType ==
    ASSUME NEW k \in PoolKind \cup OtherKind, NEW n \in Nat, k = "cnode" => n \in CNode
    PROVE  GoodCap(MkCap(k, n))
<1>1. Unmapped \in Place
  BY DEF Place
<1>2. {} \in Badges
  BY DEF Badges
<1> QED
  BY <1>1, <1>2 DEF GoodCap, Cap, MkCap

LEMMA KindInType == \A a \in PdArea : KindIn[a] \in PoolKind
  BY DEF KindIn, PdArea, PoolKind

LEMMA RootCapType == ASSUME NEW s \in Slot PROVE GoodCap(RootCap(s))
<1> DEFINE Null == s[1] = "null"
<1>1. \A k \in PoolKind : k \in PoolKind \cup OtherKind
  OBVIOUS
<1>2. s[1] \in PoolKind => GoodCap(MkCap(s[1], s[2] + 1))
  <2> SUFFICES ASSUME s[1] \in PoolKind PROVE GoodCap(MkCap(s[1], s[2] + 1))
    OBVIOUS
  <2>1. s \in PoolSlot
    BY DEF Slot, PoolKind, PdArea, ChannelArea, FixedArea
  <2>2. PICK k \in PoolKind : s \in {k} \X (0 .. PoolSize(k) - 1)
    BY <2>1 DEF PoolSlot
  <2>3. s[1] = k /\ s[2] \in 0 .. PoolSize(k) - 1
    BY <2>2
  <2>4. s[2] + 1 \in ObjNum(k) /\ s[2] + 1 \in Nat
    BY <2>3, ObjectNumbers
  <2> QED
    BY <2>3, <2>4, MkCapType DEF CNode
<1>3. GoodCap(MkCap("ep", 0)) /\ GoodCap(MkCap("fault", 0)) /\ GoodCap(MkCap("asid", 0))
      /\ GoodCap(MkCap("control", 0)) /\ GoodCap(MkCap("irq", 0))
  BY MkCapType DEF OtherKind
<1>4. \A a \in PdArea : GoodCap(MkCap(KindIn[a], 0)) /\
                        GoodCap(MkCap(KindIn[a], StaticNum(KindIn[a])))
  BY KindInType, ObjectNumbers, MkCapType DEF CNode
<1>5. s[1] = "SHARED" => GoodCap(MkCap("shared", s[2]))
  <2> SUFFICES ASSUME s[1] = "SHARED" PROVE GoodCap(MkCap("shared", s[2]))
    OBVIOUS
  <2>1. s \notin PoolSlot
    <3> SUFFICES ASSUME s \in PoolSlot PROVE FALSE
      OBVIOUS
    <3>1. PICK k \in PoolKind : s \in {k} \X (0 .. PoolSize(k) - 1)
      BY DEF PoolSlot
    <3> QED
      BY <3>1 DEF PoolKind
  <2>2. s \in {"SHARED"} \X SharedIdx
    BY <2>1 DEF Slot, PdArea, ChannelArea, FixedArea
  <2>3. s[2] \in Nat
    BY <2>2, CapSpaceAssumption
  <2> QED
    BY <2>3, MkCapType DEF OtherKind
<1>6. {"TCB", "CNODE", "VSPACE"} \subseteq PdArea
  BY DEF PdArea
<1> QED
  BY <1>2, <1>3, <1>4, <1>5, <1>6, NullCapGood DEF RootCap

LEMMA StaticCapType == ASSUME NEW s \in Slot PROVE GoodCap(StaticCap(s))
<1>1. \A k \in PoolKind : GoodCap(MkCap(k, StaticNum(k)))
  BY ObjectNumbers, MkCapType DEF CNode
<1>2. \A a \in PdArea : KindIn[a] \in PoolKind
  BY KindInType
<1>3. "ntfn" \in PoolKind
  BY DEF PoolKind
<1> QED
  BY <1>1, <1>2, <1>3, NullCapGood DEF StaticCap

LEMMA InitIInv == Init => IInv
<1> SUFFICES ASSUME Init PROVE IInv
  OBVIOUS
<1>1. GoodCaps(caps)
  <2> DEFINE At0(c, s) == CASE c = 0 -> RootCap(s)
                            [] c = StaticNum("cnode") -> StaticCap(s)
                            [] OTHER -> NullCap
  <2>1. caps = [c \in CNode |-> [s \in Slot |-> At0(c, s)]]
    BY DEF Init
  <2>2. \A c \in CNode, s \in Slot : GoodCap(At0(c, s))
    BY RootCapType, StaticCapType, NullCapGood
  <2> HIDE DEF At0
  <2>3. caps \in [CNode -> [Slot -> Cap]]
    BY <2>1, <2>2 DEF GoodCap
  <2> QED
    BY <2>1, <2>2, <2>3 DEF GoodCaps, GoodCap
<1>2. \A k \in PoolKind : /\ 0 \in ObjNum(k) /\ StaticNum(k) \in ObjNum(k)
                          /\ ObjNum(k) \subseteq Nat /\ StaticNum(k) \in Nat
                          /\ PoolSize(k) \in Nat \ {0}
  BY ObjectNumbers, PoolSizeType
<1>3. {"tcb", "sc", "vspace", "cnode", "ntfn", "page"} \subseteq PoolKind
  BY DEF PoolKind
<1>4. tcb \in [ObjNum("tcb") -> Tcb]
  <2> DEFINE Rec(t) == IF t \in {0, StaticNum("tcb")}
                 THEN LET Num(k) == IF t = 0 THEN 0 ELSE StaticNum(k)
                      IN  [cspace |-> Num("cnode"), vspace |-> Num("vspace"),
                           bound |-> Num("ntfn"), sc |-> Num("sc"), ipc |-> None,
                           mcp |-> IF t = 0 THEN RootMcp ELSE 0, running |-> TRUE]
                 ELSE NoTcb
  <2>1. tcb = [t \in ObjNum("tcb") |-> Rec(t)]
    BY DEF Init
  <2>2. NoTcb \in Tcb
    BY DEF NoTcb, Tcb
  <2>3. \A n1, n2, n3, n4, m \in Nat :
           [cspace |-> n1, vspace |-> n2, bound |-> n3, sc |-> n4, ipc |-> None,
            mcp |-> m, running |-> TRUE] \in Tcb
    BY DEF Tcb
  <2>4. ASSUME NEW t PROVE Rec(t) \in Tcb
    BY <1>2, <1>3, <2>2, <2>3, LayoutAssumption
  <2> HIDE DEF Rec
  <2> QED
    BY <2>1, <2>4
<1>5. budget \subseteq Nat /\ asids \subseteq Nat
  BY <1>2, <1>3 DEF Init
<1>6. tables \subseteq Nat \X {"pud", "pd", "pt"} \X Nat
  <2>1. tables = {<<0, e[1], e[2]>> : e \in RootTables}
    BY DEF Init
  <2>2. \A e \in RootTables : e[1] \in {"pud", "pd", "pt"} /\ e[2] \in Nat
    BY LayoutAssumption
  <2> QED
    BY <2>1, <2>2
<1>7. frames \in [VSpace -> [Page -> [kind : PoolKind \cup OtherKind, n : Nat, w : BOOLEAN]]]
  BY DEF Init, NoFrame, OtherKind
<1>8. irqTarget \in Cap
  <2>1. {RootImage.irq} \in Badges
    BY LayoutAssumption DEF Badges
  <2>2. GoodCap(MkCap("ntfn", 0))
    BY <1>3, MkCapType
  <2> QED
    BY <2>1, <2>2 DEF Init, GoodCap, Cap
<1>9. memory \in [ObjNum("page") -> Content]
  <2>1. NoContent \in Content
    BY DEF NoContent, Content
  <2> HIDE DEF NoContent
  <2> QED
    BY <2>1 DEF Init
<1>10. KernelOK
  BY <1>1, <1>4, <1>5, <1>6, <1>7, <1>8, <1>9 DEF KernelOK
<1>11. image \in [CNode -> {NoImage} \cup [id : PdId, tcb : Nat, program : AnyProgram]]
  <2> DEFINE Img == {NoImage} \cup [id : PdId, tcb : Nat, program : AnyProgram]
  <2>1. RootImage \in AnyProgram /\ StaticImage \in AnyProgram
    BY DEF AnyProgram
  <2>2. [id |-> RootId, tcb |-> 0, program |-> RootImage] \in Img
    BY <2>1, LayoutAssumption
  <2>3. [id |-> StaticId, tcb |-> StaticNum("tcb"), program |-> StaticImage] \in Img
    BY <1>2, <1>3, <2>1, LayoutAssumption
  <2> QED
    BY <2>2, <2>3 DEF Init
<1>12. /\ alloc \in [CNode -> [PoolKind -> Nat]]
       /\ \A c \in CNode, k \in PoolKind : alloc[c][k] <= PoolSize(k)
  BY <1>2 DEF Init
<1>13. PdsOK
  BY <1>11, <1>12 DEF PdsOK, Init
<1>14. JobsOK
  <2>1. job = [c \in CNode |-> NoJob]
    BY DEF Init
  <2>2. \A a, im : JobOK(NoJob, a, im)
    <3>1. \A k \in PoolKind : 0 < PoolSize(k)
      BY <1>2
    <3> QED
      BY <1>3, <3>1 DEF JobOK, NoJob
  <2> QED
    BY <2>1, <2>2, NoJobType DEF JobsOK
<1> QED
  BY <1>10, <1>13, <1>14 DEF IInv

----------------------------------------------------------------------------
(* Theorems *)

LEMMA NextKeeps == IInv /\ [Next]_vars => IInv'
<1> SUFFICES ASSUME IInv, [Next]_vars PROVE IInv'
  OBVIOUS
<1>1. CASE UNCHANGED vars
  BY <1>1 DEF vars, IInv, KernelOK, GoodCaps, PdsOK, JobsOK
<1>2. ASSUME NEW c \in CNode, NEW p \in Programs, NEW id \in PdId, Enter(c, p, id)
      PROVE  IInv'
  BY <1>2, EnterKeeps
<1>3. ASSUME NEW c \in CNode, PdCreateStep(c)
      PROVE  IInv'
  BY <1>3, MovePoolCapKeeps, AllocateObjectsKeeps, AssignAsidKeeps, CopyFixedCapKeeps,
     SetSpaceKeeps, BindNotificationKeeps, NextPageKeeps, MapTableKeeps, MapPageKeeps,
     WriteHandleKeeps, SetIpcBufferKeeps, SetUpSchedulingKeeps, MintChannelKeeps,
     SetUpRegionKeeps, MapSharedKeeps, MintIrqBadgeKeeps, SetIrqTargetKeeps,
     MoveIrqHandlerKeeps, SkipControlKeeps, RestartKeeps
     DEF PdCreateStep
<1> QED
  BY <1>1, <1>2, <1>3 DEF Next

LEMMA IInvHolds == Spec => []IInv
  BY InitIInv, NextKeeps, PTL DEF Spec

\* The state of the kernel, of the loaders and of every call of pd_create has its
\* type, whatever programs are sent; no index of alloc_state ever leaves its pool
\* (the >= checks of sel4cp.h:859-1143).
THEOREM TypeCorrect == Spec => []TypeOK
  BY IInvHolds, IInvTypeOK, PTL

----------------------------------------------------------------------------
(* What an invocation leaves alone                                           *)

\* CSpaces of the right shape.
Shaped(cs) == DOMAIN cs = CNode /\ \A c \in CNode : DOMAIN cs[c] = Slot

\* A copy or a mint goes to an empty slot, so a full slot stays as it is.
LEMMA MintKeepsFull ==
    ASSUME NEW cs, Shaped(cs), NEW droot, NEW ds, NEW sroot, NEW ss, NEW badge,
           CanTransfer(cs, droot, ds, sroot, ss)
    PROVE  /\ Shaped(MintTo(cs, droot, ds, sroot, ss, badge))
           /\ \A c \in CNode, r \in Slot : cs[c][r].kind # "null" =>
                 MintTo(cs, droot, ds, sroot, ss, badge)[c][r] = cs[c][r]
<1> DEFINE x == [cs[sroot.n][ss] EXCEPT !.at = Unmapped, !.badge = badge]
           d == droot.n
<1>1. \A c \in CNode, r \in Slot : cs[c][r].kind # "null" => c # d \/ r # ds
  BY DEF CanTransfer
<1>2. MintTo(cs, droot, ds, sroot, ss, badge) = [cs EXCEPT ![d][ds] = x]
  BY DEF MintTo
<1> HIDE DEF x, d
<1> QED
  BY <1>1, <1>2 DEF Shaped

LEMMA CopyKeepsFull ==
    ASSUME NEW cs, Shaped(cs), NEW droot, NEW ds, NEW sroot, NEW ss,
           CanTransfer(cs, droot, ds, sroot, ss)
    PROVE  /\ Shaped(CopyTo(cs, droot, ds, sroot, ss))
           /\ \A c \in CNode, r \in Slot : cs[c][r].kind # "null" =>
                 CopyTo(cs, droot, ds, sroot, ss)[c][r] = cs[c][r]
  BY MintKeepsFull DEF CopyTo

\* So does a move, but for the slot that it empties.
LEMMA MoveKeepsFull ==
    ASSUME NEW cs, Shaped(cs), NEW droot, NEW ds, NEW sroot, NEW ss,
           CanTransfer(cs, droot, ds, sroot, ss)
    PROVE  \A c \in CNode, r \in Slot : cs[c][r].kind # "null" /\ r # ss =>
              MoveTo(cs, droot, ds, sroot, ss)[c][r] = cs[c][r]
<1> DEFINE d == droot.n
           x == cs[sroot.n][ss]
           put == [cs EXCEPT ![d][ds] = x]
<1>1. \A c \in CNode, r \in Slot : cs[c][r].kind # "null" => c # d \/ r # ds
  BY DEF CanTransfer
<1>2. Shaped(put) /\ \A c \in CNode, r \in Slot : cs[c][r].kind # "null" => put[c][r] = cs[c][r]
  <2> HIDE DEF d, x
  <2> QED
    BY <1>1 DEF Shaped
<1>3. MoveTo(cs, droot, ds, sroot, ss) = [put EXCEPT ![sroot.n][ss] = NullCap]
  BY DEF MoveTo
<1> HIDE DEF put
<1>4. \A c \in CNode, r \in Slot : r # ss =>
         [put EXCEPT ![sroot.n][ss] = NullCap][c][r] = put[c][r]
  BY <1>2 DEF Shaped
<1> QED
  BY <1>2, <1>3, <1>4

----------------------------------------------------------------------------
(* The slots under the id of a PD                                            *)

\* They are none of the slots that an invocation of pd_create empties or maps
\* through: those of the pools, the interrupts, the memory regions and TempSlot.
Handle(s) ==
    /\ s \in Slot /\ s # TempSlot
    /\ \A k \in PoolKind \cup {"IRQ", "SHARED"} : \A i : s # At(k, i)

LEMMA PdSlotIsHandle ==
    ASSUME NEW area \in PdArea, NEW id \in PdId PROVE Handle(At(area, id))
  BY PdSlots DEF Handle, PdArea, PoolKind, At, TempSlot

\* A step keeps the capabilities that are in such slots.
HandlesKept ==
    \A d \in CNode, s \in Slot :
        Handle(s) /\ caps[d][s].kind # "null" => caps'[d][s] = caps[d][s]

LEMMA CapsShaped == IInv => Shaped(caps)
  BY DEF IInv, KernelOK, GoodCaps, Shaped

LEMMA TempSlotEmptied ==
    ASSUME IInv, NEW d
    PROVE  LET emptied == [caps EXCEPT ![d][TempSlot] = NullCap] IN
           Shaped(emptied) /\ \A c \in CNode, s \in Slot : Handle(s) => emptied[c][s] = caps[c][s]
<1> DEFINE x == NullCap
           t == TempSlot
           emptied == [caps EXCEPT ![d][t] = x]
<1>1. \A s : Handle(s) => s # t
  BY DEF Handle
<1> HIDE DEF x, t
<1>2. Shaped(emptied) /\ \A c \in CNode, s \in Slot : Handle(s) => emptied[c][s] = caps[c][s]
  BY <1>1, CapsShaped DEF Shaped
<1> QED
  BY <1>2 DEF x, t

LEMMA MovePoolCapKeepsHandles ==
    ASSUME IInv, NEW c \in CNode, MovePoolCap(c) PROVE HandlesKept
<1> DEFINE kind == MoveOrder[job[c].k]
           from == At(kind, alloc[c][kind])
           to == At(kind, job[c].i)
<1>1. job[c].pc = "move"
  BY DEF MovePoolCap
<1>2. kind \in PoolKind
  <2>1. job[c] \in Job /\ JobOK(job[c], alloc[c], image[c])
    BY JobType
  <2> QED
    BY <1>1, <2>1, MoveOrderKinds DEF JobOK, Job
<1>3. \A s : Handle(s) => s # from
  BY <1>2 DEF Handle
<1>4. \/ UNCHANGED caps
      \/ /\ CanTransfer(caps, NewRoot(c), to, OwnRoot(c), from)
         /\ caps' = MoveTo(caps, NewRoot(c), to, OwnRoot(c), from)
  BY DEF MovePoolCap
<1> HIDE DEF from, to, kind
<1> QED
  BY <1>3, <1>4, CapsShaped, MoveKeepsFull DEF HandlesKept

LEMMA CopyFixedCapKeepsHandles ==
    ASSUME IInv, NEW c \in CNode, CopyFixedCap(c) PROVE HandlesKept
<1>1. \/ UNCHANGED caps
      \/ \E droot, ds, sroot, ss :
            /\ CanTransfer(caps, droot, ds, sroot, ss)
            /\ caps' = CopyTo(caps, droot, ds, sroot, ss)
  BY DEF CopyFixedCap
<1> QED
  BY <1>1, CapsShaped, CopyKeepsFull DEF HandlesKept

LEMMA MapPageKeepsHandles ==
    ASSUME IInv, NEW c \in CNode, MapPage(c) PROVE HandlesKept
<1> DEFINE slot == At("page", alloc[c]["page"])
           Placed(p) == [caps EXCEPT ![c][slot].at = p]
<1>1. \A s : Handle(s) => s # slot
  BY DEF Handle, PoolKind
<1>2. UNCHANGED caps \/ \E p : caps' = Placed(p)
  BY DEF MapPage
<1>3. ASSUME NEW p, NEW d \in CNode, NEW s \in Slot, Handle(s)
      PROVE  Placed(p)[d][s] = caps[d][s]
  <2>1. s # slot
    BY <1>1, <1>3
  <2> HIDE DEF slot
  <2> QED
    BY <2>1, CapsShaped DEF Shaped
<1> HIDE DEF Placed
<1> QED
  BY <1>2, <1>3 DEF HandlesKept, Handle

LEMMA WriteHandleKeepsHandles ==
    ASSUME IInv, NEW c \in CNode, WriteHandle(c) PROVE HandlesKept
<1> DEFINE own == OwnRoot(c)
           from == At("page", alloc[c]["page"] - 1)
           emptied == [caps EXCEPT ![own.n][TempSlot] = NullCap]
           copied == CopyTo(emptied, own, TempSlot, own, from)
           Placed(p) == [copied EXCEPT ![own.n][TempSlot].at = p]
<1>1. \/ caps' = emptied
      \/ /\ CanTransfer(emptied, own, TempSlot, own, from)
         /\ \E p : caps' = Placed(p)
  BY Zenon DEF WriteHandle
<1>2. Shaped(emptied) /\ \A d \in CNode, s \in Slot : Handle(s) => emptied[d][s] = caps[d][s]
  BY TempSlotEmptied
<1>3. ASSUME CanTransfer(emptied, own, TempSlot, own, from),
             NEW d \in CNode, NEW s \in Slot, Handle(s), caps[d][s].kind # "null"
      PROVE  Shaped(copied) /\ copied[d][s] = caps[d][s]
  <2> HIDE DEF emptied, own, from
  <2> QED
    BY <1>2, <1>3, CopyKeepsFull
<1>4. ASSUME CanTransfer(emptied, own, TempSlot, own, from), NEW p,
             NEW d \in CNode, NEW s \in Slot, Handle(s), caps[d][s].kind # "null"
      PROVE  Placed(p)[d][s] = caps[d][s]
  <2>1. Shaped(copied) /\ copied[d][s] = caps[d][s] /\ s # TempSlot
    BY <1>3, <1>4 DEF Handle
  <2> HIDE DEF copied, own
  <2> QED
    BY <2>1 DEF Shaped
<1> HIDE DEF Placed, copied, emptied, own, from
<1> QED
  BY <1>1, <1>2, <1>4 DEF HandlesKept

LEMMA MintChannelKeepsHandles ==
    ASSUME IInv, NEW c \in CNode, MintChannel(c) PROVE HandlesKept
<1>1. \/ UNCHANGED caps
      \/ \E droot, ds, sroot, ss, badge :
            /\ CanTransfer(caps, droot, ds, sroot, ss)
            /\ caps' = MintTo(caps, droot, ds, sroot, ss, badge)
  BY DEF MintChannel
<1> QED
  BY <1>1, CapsShaped, MintKeepsFull DEF HandlesKept

LEMMA MapSharedKeepsHandles ==
    ASSUME IInv, NEW c \in CNode, MapShared(c) PROVE HandlesKept
<1> DEFINE slot == At("SHARED", Right(c).id + job[c].i)
           Placed(p) == [caps EXCEPT ![c][slot].at = p]
<1>1. \/ UNCHANGED caps
      \/ \E p : caps' = Placed(p)
      \/ \E p, droot, ds, sroot, ss :
            /\ CanTransfer(Placed(p), droot, ds, sroot, ss)
            /\ caps' = CopyTo(Placed(p), droot, ds, sroot, ss)
  BY DEF MapShared
<1>2. ASSUME NEW p
      PROVE  Shaped(Placed(p)) /\
             \A d \in CNode, s \in Slot : Handle(s) => Placed(p)[d][s] = caps[d][s]
  <2>1. \A s : Handle(s) => s # slot
    BY DEF Handle
  <2> HIDE DEF slot
  <2> QED
    BY <2>1, CapsShaped DEF Shaped
<1> HIDE DEF Placed
<1> QED
  BY <1>1, <1>2, CopyKeepsFull, SMTT(30) DEF HandlesKept

LEMMA MintIrqBadgeKeepsHandles ==
    ASSUME IInv, NEW c \in CNode, MintIrqBadge(c) PROVE HandlesKept
<1> DEFINE emptied == [caps EXCEPT ![OwnRoot(c).n][TempSlot] = NullCap]
<1>1. \/ caps' = emptied
      \/ \E droot, ds, sroot, ss, badge :
            /\ CanTransfer(emptied, droot, ds, sroot, ss)
            /\ caps' = MintTo(emptied, droot, ds, sroot, ss, badge)
  BY DEF MintIrqBadge
<1>2. Shaped(emptied) /\ \A d \in CNode, s \in Slot : Handle(s) => emptied[d][s] = caps[d][s]
  BY TempSlotEmptied
<1> HIDE DEF emptied
<1> QED
  BY <1>1, <1>2, MintKeepsFull DEF HandlesKept

LEMMA MoveIrqHandlerKeepsHandles ==
    ASSUME IInv, NEW c \in CNode, MoveIrqHandler(c) PROVE HandlesKept
<1> DEFINE from == At("IRQ", Right(c).parentId)
<1>1. \A s : Handle(s) => s # from
  BY DEF Handle
<1>2. \/ UNCHANGED caps
      \/ \E droot, ds, sroot :
            /\ CanTransfer(caps, droot, ds, sroot, from)
            /\ caps' = MoveTo(caps, droot, ds, sroot, from)
  BY DEF MoveIrqHandler
<1> HIDE DEF from
<1> QED
  BY <1>1, <1>2, CapsShaped, MoveKeepsFull DEF HandlesKept

----------------------------------------------------------------------------
(* An id names one PD *)

LEMMA NextKeepsHandles == IInv /\ [Next]_vars => HandlesKept
<1> SUFFICES ASSUME IInv, [Next]_vars PROVE HandlesKept
  OBVIOUS
<1>1. CASE UNCHANGED caps
  BY <1>1 DEF HandlesKept
<1>2. ASSUME NEW c \in CNode, PdCreateStep(c) PROVE UNCHANGED caps \/ HandlesKept
  <2>1. \/ UNCHANGED caps
        \/ MovePoolCap(c) \/ CopyFixedCap(c) \/ MapPage(c) \/ WriteHandle(c)
        \/ MintChannel(c) \/ MapShared(c) \/ MintIrqBadge(c) \/ MoveIrqHandler(c)
    BY <1>2, Zenon
       DEF PdCreateStep, AllocateObjects, AssignAsid, SetSpace, BindNotification,
           NextPage, MapTable, SetIpcBuffer, SetUpScheduling, SetUpRegion,
           SetIrqTarget, SkipControl, UnknownRight, Restart
  <2> QED
    BY <1>1, <2>1, MovePoolCapKeepsHandles, CopyFixedCapKeepsHandles, MapPageKeepsHandles,
       WriteHandleKeepsHandles, MintChannelKeepsHandles, MapSharedKeepsHandles,
       MintIrqBadgeKeepsHandles, MoveIrqHandlerKeepsHandles
<1> QED
  BY <1>1, <1>2, Zenon DEF Next, Enter, vars

\* An id names the same PD for ever: what pd_create (sel4cp.h:1154-1323) copied to
\* the slots under the id of a PD is never replaced or removed, neither by a later
\* call with the same id nor by a call that fails half way.
THEOREM IdsNameOnePd == Spec => HandlesStable
<1>1. IInv /\ [Next]_vars =>
         [\A c \in CNode, area \in PdArea, id \in PdId :
             LET s == At(area, id) IN
             caps[c][s].kind # "null" => caps'[c][s] = caps[c][s]]_vars
  BY NextKeepsHandles, PdSlotIsHandle DEF HandlesKept, Handle
<1> QED
  BY <1>1, IInvHolds, PTL DEF Spec, HandlesStable

----------------------------------------------------------------------------
(* What a running PD and a call of pd_create rely on *)

Full(x)     == x.kind # "null"
Live(c)     == image[c] # NoImage
Active(c)   == job[c].pc \notin {"idle", "crashed"}
Building(c) == job[c].pc \notin {"idle", "crashed", "move", "allocate"}

\* The objects that the call of c has taken.
Thread(c)   == caps[c][At("tcb", job[c].tcb)]
Ntfn(c)     == caps[c][At("ntfn", job[c].ntfn)]
Sc(c)       == caps[c][At("sc", job[c].sc)]
NewSpace(c) == caps[c][At("vspace", job[c].vspace)]

PoolIndex(k) == 0 .. PoolSize(k) - 1

\* A pool holds objects of its kind, as the tool made them; only pages are mapped
\* through their capability.
PoolPlain ==
    \A c \in CNode, k \in PoolKind : \A i \in PoolIndex(k) :
        LET x == caps[c][At(k, i)] IN
        Full(x) => x.kind = k /\ x.n \in ObjNum(k) /\ (k # "page" => x = MkCap(k, x.n))

\* No object is in two pools, or twice in one.
PoolDistinct ==
    \A c, d \in CNode, k \in PoolKind : \A i, m \in PoolIndex(k) :
        LET x == caps[c][At(k, i)] IN
        Full(x) /\ SameObject(x, caps[d][At(k, m)]) => c = d /\ i = m

\* A thread that a pool offers has no scheduling context.
FreshThreads ==
    \A c \in CNode : \A i \in alloc[c]["tcb"] .. PoolSize("tcb") - 1 :
        LET x == caps[c][At("tcb", i)] IN Full(x) => tcb[x.n].sc = None

PoolOK == PoolPlain /\ PoolDistinct /\ PoolFresh /\ FreshThreads

\* A PD that runs holds its thread, its CSpace and its VSpace under its id.
SelfKnown(c) ==
    LET im == image[c]
        t == tcb[im.tcb]
    IN  /\ im.id \in PdId /\ im.tcb \in ObjNum("tcb") /\ t.running /\ t.cspace = c
        /\ t.vspace \in VSpace
        /\ caps[c][At("CNODE", im.id)] = MkCap("cnode", c)
        /\ caps[c][At("TCB", im.id)] = MkCap("tcb", im.tcb)
        /\ caps[c][At("VSPACE", im.id)] = MkCap("vspace", t.vspace)
        /\ Full(caps[c][At("CHAN", im.id)]) /\ Full(caps[c][InputSlot])

\* One that was loaded also its notification and its scheduling context.
SelfSignalled(c) ==
    LET im == image[c]
        t == tcb[im.tcb]
    IN  /\ caps[c][At("CHAN", im.id)] = MkCap("ntfn", t.bound)
        /\ caps[c][InputSlot] = MkCap("ntfn", t.bound)
        /\ t.sc # None => caps[c][At("SC", im.id)] = MkCap("sc", t.sc)

Given == {0, StaticNum("cnode")}

LiveOK ==
    /\ \A c \in Given : Live(c)
    /\ \A c \in CNode : Live(c) => SelfKnown(c) /\ (c \notin Given => SelfSignalled(c))

\* What a call has taken is in use by no PD that runs.
ObjectsFree(c) ==
    LET j == job[c]
        T == Thread(c)
    IN  /\ j.tcb < alloc[c]["tcb"] /\ j.ntfn < alloc[c]["ntfn"]
        /\ j.vspace < alloc[c]["vspace"] /\ alloc[c]["sc"] = j.sc + 1
        /\ Full(T) =>
              /\ \A d \in CNode : Live(d) => image[d].tcb # T.n
              /\ tcb[T.n].sc = None \/ (Full(Sc(c)) /\ tcb[T.n].sc = Sc(c).n)
        /\ Full(NewSpace(c)) =>
              \A d \in CNode : Live(d) => tcb[image[d].tcb].vspace # NewSpace(c).n

\* The first m capabilities of FixedCaps have been copied.
Copied(c, m) == Building(c) /\ job[c].pc # "asid" /\ (job[c].pc = "fixed" => job[c].k > m)
Spaced(c)    == Building(c) /\ job[c].pc \notin {"asid", "fixed", "space"}
Bound(c)     == Spaced(c) /\ job[c].pc # "bind"

Holds(d, s, x) == Full(x) /\ caps[d][s] = x

InNew(c, s, x) == Full(NewRoot(c)) /\ Holds(NewRoot(c).n, s, x)

RowHeld(c, m) ==
    LET id == job[c].id IN
    /\ m = 2  => InNew(c, InputSlot, Ntfn(c))
    /\ m = 3  => InNew(c, At("CHAN", id), Ntfn(c))
    /\ m = 4  => Holds(c, At("CHAN", id), Ntfn(c))
    /\ m = 6  => InNew(c, At("TCB", id), Thread(c))
    /\ m = 7  => Holds(c, At("TCB", id), Thread(c))
    /\ m = 8  => InNew(c, At("SC", id), Sc(c))
    /\ m = 9  => Holds(c, At("SC", id), Sc(c))
    /\ m = 10 => InNew(c, At("CNODE", id), NewRoot(c))
    /\ m = 11 => Holds(c, At("CNODE", id), NewRoot(c))
    /\ m = 12 => InNew(c, At("VSPACE", id), NewSpace(c))
    /\ m = 13 => Holds(c, At("VSPACE", id), NewSpace(c))

FixedCopied(c) == \A m \in 1 .. 13 : Copied(c, m) => RowHeld(c, m)

ThreadSet(c) ==
    LET t == tcb[Thread(c).n]
    IN  /\ Spaced(c) => t.cspace = NewRoot(c).n /\ t.vspace = NewSpace(c).n
        /\ Bound(c) => t.bound = Ntfn(c).n

\* Pages and regions are mapped into the new VSpace.
MapsForNew(c) ==
    \/ job[c].pc \in {"page", "ipcmap", "shared"}
    \/ job[c].pc = "tables" /\ job[c].then \in {"page", "ipcmap", "shared"}

JobWired(c) ==
    /\ ~Live(c) => job[c].pc = "idle"
    /\ Active(c) => /\ job[c].cnode < alloc[c]["cnode"]
                    /\ Full(NewRoot(c)) => ~Live(NewRoot(c).n)
    /\ Building(c) => ObjectsFree(c)
    /\ FixedCopied(c)
    /\ ThreadSet(c)
    /\ MapsForNew(c) => ~job[c].own

\* The temporary slot maps TempPage of its own PD, if anything.
TempOK(c) ==
    caps[c][TempSlot].at # Unmapped =>
        /\ Live(c)
        /\ caps[c][TempSlot].at = [vs |-> tcb[image[c].tcb].vspace, page |-> TempPage]

Wired ==
    /\ IInv /\ PoolOK /\ LiveOK
    /\ \A c \in CNode : JobWired(c) /\ TempOK(c)

----------------------------------------------------------------------------
(* Slots and capabilities, one by one *)

\* What a transfer writes.
Minted(x, badge) == [x EXCEPT !.at = Unmapped, !.badge = badge]

LEMMA MintAt ==
    ASSUME NEW cs, Shaped(cs), NEW droot, NEW ds, NEW sroot, NEW ss, NEW badge,
           NEW e \in CNode, NEW r \in Slot
    PROVE  MintTo(cs, droot, ds, sroot, ss, badge)[e][r] =
              IF e = droot.n /\ r = ds
              THEN Minted(cs[sroot.n][ss], badge)
              ELSE cs[e][r]
<1> DEFINE x == Minted(cs[sroot.n][ss], badge)
           d == droot.n
<1>1. MintTo(cs, droot, ds, sroot, ss, badge) = [cs EXCEPT ![d][ds] = x]
  BY DEF MintTo, Minted
<1> HIDE DEF x, d
<1>2. [cs EXCEPT ![d][ds] = x][e][r] = IF e = d /\ r = ds THEN x ELSE cs[e][r]
  BY DEF Shaped
<1> QED
  BY <1>1, <1>2 DEF x, d

LEMMA MoveAt ==
    ASSUME NEW cs, Shaped(cs), NEW droot, NEW ds, NEW sroot, NEW ss,
           NEW e \in CNode, NEW r \in Slot
    PROVE  MoveTo(cs, droot, ds, sroot, ss)[e][r] =
              IF e = sroot.n /\ r = ss THEN NullCap
              ELSE IF e = droot.n /\ r = ds THEN cs[sroot.n][ss]
              ELSE cs[e][r]
<1> DEFINE x == cs[sroot.n][ss]
           d == droot.n
           put == [cs EXCEPT ![d][ds] = x]
           b == sroot.n
           y == NullCap
<1>1. MoveTo(cs, droot, ds, sroot, ss) = [put EXCEPT ![b][ss] = y]
  BY DEF MoveTo
<1> HIDE DEF x, d, b, y
<1>2. put[e][r] = IF e = d /\ r = ds THEN x ELSE cs[e][r]
  BY DEF Shaped
<1>3. Shaped(put)
  BY DEF Shaped
<1> HIDE DEF put
<1>4. [put EXCEPT ![b][ss] = y][e][r] = IF e = b /\ r = ss THEN y ELSE put[e][r]
  BY <1>3 DEF Shaped
<1> QED
  BY <1>1, <1>2, <1>4 DEF x, d, b, y

LEMMA WiredTypes ==
    ASSUME Wired
    PROVE  /\ IInv /\ Shaped(caps)
           /\ \A d \in CNode, s \in Slot : caps[d][s] \in Cap /\ caps[d][s].n \in Nat
           /\ \A d \in CNode, s \in Slot : caps[d][s].kind = "cnode" => caps[d][s].n \in CNode
           /\ job \in [CNode -> Job] /\ alloc \in [CNode -> [PoolKind -> Nat]]
           /\ \A d \in CNode, k \in PoolKind : alloc[d][k] <= PoolSize(k)
           /\ tcb \in [ObjNum("tcb") -> Tcb]
<1>1. IInv
  BY DEF Wired
<1>2. \A d \in CNode, s \in Slot : caps[d][s] \in Cap /\ caps[d][s].n \in Nat
  BY <1>1, CapType DEF GoodCap, Cap
<1>3. \A d \in CNode, s \in Slot : caps[d][s].kind = "cnode" => caps[d][s].n \in CNode
  BY <1>1, CapType DEF GoodCap
<1> QED
  BY <1>1, <1>2, <1>3, CapsShaped DEF IInv, JobsOK, PdsOK, KernelOK

\* The CSpace that a call works from is the PD's own.
LEMMA OwnIsOwn ==
    ASSUME Wired, NEW c \in CNode, Active(c)
    PROVE  /\ Live(c) /\ SelfKnown(c)
           /\ OwnRoot(c).kind = "cnode" /\ OwnRoot(c).n = c
           /\ OwnVSpace(c).kind = "vspace" /\ OwnVSpace(c).n = tcb[image[c].tcb].vspace
<1>1. Live(c)
  BY DEF Wired, JobWired, Active
<1>2. SelfKnown(c)
  BY <1>1 DEF Wired, LiveOK
<1> QED
  BY <1>1, <1>2 DEF SelfKnown, OwnRoot, OwnVSpace, MkCap

----------------------------------------------------------------------------
(* What a step does to the CSpaces *)

\* cs2 has a capability to the object of cs[e][r] in slot s of CSpace d, and cs2
\* has another place or none in slot s of CSpace d.
Adds(cs, cs2, d, s, e, r) ==
    \A x \in CNode, y \in Slot :
        cs2[x][y] = cs[x][y] \/ (x = d /\ y = s /\ SameObject(cs2[x][y], cs[e][r]))
Marks(cs, cs2, d, s) ==
    \A x \in CNode, y \in Slot :
        cs2[x][y] = cs[x][y] \/ (x = d /\ y = s /\ SameObject(cs2[x][y], cs[x][y]))
Drops(cs, cs2, d, s) ==
    \A x \in CNode, y \in Slot : cs2[x][y] = IF x = d /\ y = s THEN NullCap ELSE cs[x][y]

LEMMA MintAdds ==
    ASSUME NEW cs, GoodCaps(cs), NEW droot, NEW ds, NEW sroot, GoodCap(sroot),
           NEW ss \in Slot, NEW badge \in Badges, CanTransfer(cs, droot, ds, sroot, ss)
    PROVE  LET cs2 == MintTo(cs, droot, ds, sroot, ss, badge) IN
           GoodCaps(cs2) /\ Adds(cs, cs2, droot.n, ds, sroot.n, ss) /\ sroot.n \in CNode
<1> DEFINE cs2 == MintTo(cs, droot, ds, sroot, ss, badge)
           x == cs[sroot.n][ss]
           z == Minted(x, badge)
<1>1. Shaped(cs)
  BY DEF GoodCaps, Shaped
<1>2. sroot.n \in CNode
  BY DEF GoodCap, CanTransfer
<1>3. x \in Cap
  BY <1>2 DEF GoodCaps
<1>4. SameObject(z, x)
  BY <1>3 DEF Cap, SameObject, Minted
<1>5. \A e \in CNode, r \in Slot : cs2[e][r] = IF e = droot.n /\ r = ds THEN z ELSE cs[e][r]
  BY <1>1, MintAt
<1>6. GoodCaps(cs2)
  BY MintGood
<1> HIDE DEF cs2, z, x
<1>7. Adds(cs, cs2, droot.n, ds, sroot.n, ss)
  BY <1>4, <1>5 DEF Adds, x
<1> QED
  BY <1>2, <1>6, <1>7 DEF cs2

LEMMA CopyAdds ==
    ASSUME NEW cs, GoodCaps(cs), NEW droot, NEW ds, NEW sroot, GoodCap(sroot),
           NEW ss \in Slot, CanTransfer(cs, droot, ds, sroot, ss)
    PROVE  LET cs2 == CopyTo(cs, droot, ds, sroot, ss) IN
           GoodCaps(cs2) /\ Adds(cs, cs2, droot.n, ds, sroot.n, ss) /\ sroot.n \in CNode
<1>1. sroot.n \in CNode
  BY DEF GoodCap, CanTransfer
<1>2. cs[sroot.n][ss].badge \in Badges
  BY <1>1, GoodCapAt DEF GoodCap, Cap
<1> QED
  BY <1>2, MintAdds DEF CopyTo

LEMMA MapMarks ==
    ASSUME NEW cs, GoodCaps(cs), NEW d \in CNode, NEW s \in Slot, NEW p \in Place
    PROVE  LET cs2 == [cs EXCEPT ![d][s].at = p] IN
           GoodCaps(cs2) /\ Marks(cs, cs2, d, s)
<1> DEFINE cs2 == [cs EXCEPT ![d][s].at = p]
           x == [cs[d][s] EXCEPT !.at = p]
<1>1. GoodCaps(cs2)
  BY MapGood
<1>2. cs[d][s] \in Cap
  BY DEF GoodCaps
<1>3. SameObject(x, cs[d][s])
  BY <1>2 DEF SameObject, Cap
<1>4. cs2 = [cs EXCEPT ![d][s] = x]
  BY DEF GoodCaps
<1> HIDE DEF x
<1>5. \A e \in CNode, r \in Slot : cs2[e][r] = IF e = d /\ r = s THEN x ELSE cs[e][r]
  BY <1>4 DEF GoodCaps
<1> HIDE DEF cs2
<1>6. Marks(cs, cs2, d, s)
  BY <1>3, <1>5 DEF Marks
<1> QED
  BY <1>1, <1>6 DEF cs2

LEMMA ClearDrops ==
    ASSUME NEW cs, GoodCaps(cs), NEW d, NEW s
    PROVE  LET cs2 == [cs EXCEPT ![d][s] = NullCap] IN
           GoodCaps(cs2) /\ Drops(cs, cs2, d, s)
<1> DEFINE x == NullCap
           cs2 == [cs EXCEPT ![d][s] = x]
<1>1. GoodCaps(cs2)
  BY NullCapGood, PutGood
<1> HIDE DEF x
<1>2. \A e \in CNode, r \in Slot : cs2[e][r] = IF e = d /\ r = s THEN x ELSE cs[e][r]
  BY DEF GoodCaps
<1> QED
  BY <1>1, <1>2 DEF Drops, x

\* A move leaves nothing behind.
Moves(cs, cs2, d, s, e, r) ==
    \A x \in CNode, y \in Slot :
        cs2[x][y] = IF x = e /\ y = r THEN NullCap
                    ELSE IF x = d /\ y = s THEN cs[e][r] ELSE cs[x][y]

LEMMA MoveMoves ==
    ASSUME NEW cs, GoodCaps(cs), NEW droot, NEW ds, NEW sroot, GoodCap(sroot),
           NEW ss \in Slot, CanTransfer(cs, droot, ds, sroot, ss)
    PROVE  Moves(cs, MoveTo(cs, droot, ds, sroot, ss), droot.n, ds, sroot.n, ss)
<1>1. Shaped(cs)
  BY DEF GoodCaps, Shaped
<1> QED
  BY <1>1, MoveAt DEF Moves

----------------------------------------------------------------------------
(* What every action does to the capabilities *)

\* After the step the pool of CSpace e still offers slot r.
StillOffered(e, r) ==
    \E k \in PoolKind : \E i \in PoolIndex(k) : i >= alloc'[e][k] /\ r = At(k, i)

NotPool(y) == \A k \in PoolKind : \A i : y # At(k, i)

\* What a step of c leaves in slot y of CSpace x: what was there; the same page,
\* mapped; or, but in the slots of the pools, a copy of what no pool offers.
SlotStep(c, x, y) ==
    \/ caps'[x][y] = caps[x][y]
    \/ /\ \E i : y = At("page", i) \/ y = At("SHARED", i)
       /\ SameObject(caps'[x][y], caps[x][y])
    \/ /\ NotPool(y) /\ (y = TempSlot => x = c)
       /\ \/ ~Full(caps'[x][y])
          \/ \E e \in CNode, r \in Slot : ~StillOffered(e, r) /\ SameObject(caps'[x][y], caps[e][r])

CapsStep(c) == \A x \in CNode, y \in Slot : SlotStep(c, x, y)

LEMMA AddsStep ==
    ASSUME NEW c, NEW d, NEW s, NEW e \in CNode, NEW r \in Slot,
           Adds(caps, caps', d, s, e, r), NotPool(s), s # TempSlot, ~StillOffered(e, r)
    PROVE  CapsStep(c)
  BY DEF Adds, CapsStep, SlotStep

LEMMA NotPoolSlots ==
    /\ \A area \in PdArea \cup ChannelArea \cup FixedArea \cup {"SHARED"} : \A i : NotPool(At(area, i))
    /\ \A area \in PdArea \cup ChannelArea \cup {"SHARED"} : \A i : At(area, i) # TempSlot
    /\ \A s, e : NotPool(s) => ~StillOffered(e, s)
<1>1. \A area \in PdArea \cup ChannelArea \cup FixedArea \cup {"SHARED"} : \A i : NotPool(At(area, i))
  BY DEF NotPool, At, PdArea, ChannelArea, FixedArea, PoolKind
<1>2. \A area \in PdArea \cup ChannelArea \cup {"SHARED"} : \A i : At(area, i) # TempSlot
  BY DEF At, PdArea, ChannelArea, TempSlot
<1>3. \A s, e : NotPool(s) => ~StillOffered(e, s)
  BY DEF NotPool, StillOffered
<1> QED
  BY <1>1, <1>2, <1>3

LEMMA UsedNotOffered ==
    ASSUME NEW e, NEW k \in PoolKind, NEW i, i < alloc'[e][k], NEW n \in Nat, alloc'[e][k] = n
    PROVE  ~StillOffered(e, At(k, i))
  BY DEF StillOffered, At, PoolIndex

LEMMA WiredJob ==
    ASSUME Wired, NEW c \in CNode, Active(c)
    PROVE  /\ job[c] \in Job /\ JobOK(job[c], alloc[c], image[c])
           /\ job[c].id \in PdId /\ Target(c) \in PdId /\ image[c].id \in PdId
           /\ GoodCap(NewRoot(c)) /\ GoodCap(OwnRoot(c)) /\ OwnRoot(c).n = c
           /\ job[c].cnode \in PoolIndex("cnode") /\ job[c].cnode < alloc[c]["cnode"]
           /\ \A k \in PoolKind : alloc[c][k] \in Nat
<1>1. IInv /\ job[c].pc # "idle"
  BY DEF Active, Wired
<1>2. job[c] \in Job /\ JobOK(job[c], alloc[c], image[c])
  BY <1>1, JobType
<1>3. job[c].cnode \in PoolIndex("cnode") /\ job[c].cnode < alloc[c]["cnode"]
  <2>1. job[c].cnode \in Nat /\ job[c].cnode < PoolSize("cnode") /\ PoolSize("cnode") \in Nat
    BY <1>2, PoolSizeType DEF JobOK, Job, PoolKind
  <2> QED
    BY <2>1 DEF Wired, JobWired, PoolIndex
<1> QED
  BY <1>1, <1>2, <1>3, OwnIsOwn, OwnCaps, JobCaps DEF IInv, PdsOK

LEMMA WiredObjects ==
    ASSUME Wired, NEW c \in CNode, Building(c)
    PROVE  /\ Active(c)
           /\ job[c].tcb \in PoolIndex("tcb") /\ job[c].tcb < alloc[c]["tcb"]
           /\ job[c].ntfn \in PoolIndex("ntfn") /\ job[c].ntfn < alloc[c]["ntfn"]
           /\ job[c].sc \in PoolIndex("sc") /\ job[c].sc < alloc[c]["sc"]
           /\ alloc[c]["sc"] = job[c].sc + 1
           /\ job[c].vspace \in PoolIndex("vspace") /\ job[c].vspace < alloc[c]["vspace"]
<1>1. Active(c)
  BY DEF Active, Building
<1>2. job[c] \in Job /\ JobOK(job[c], alloc[c], image[c])
  BY <1>1, WiredJob
<1>3. ObjectsFree(c)
  BY DEF Wired, JobWired
<1>4. /\ job[c].tcb \in Nat /\ job[c].ntfn \in Nat /\ job[c].sc \in Nat /\ job[c].vspace \in Nat
      /\ job[c].tcb < PoolSize("tcb") /\ job[c].ntfn < PoolSize("ntfn")
      /\ job[c].sc < PoolSize("sc") /\ job[c].vspace < PoolSize("vspace")
  BY <1>2 DEF Job, JobOK
<1>5. \A k \in {"tcb", "ntfn", "sc", "vspace"} : PoolSize(k) \in Nat
  BY PoolSizeType DEF PoolKind
<1> QED
  BY <1>1, <1>3, <1>4, <1>5 DEF ObjectsFree, PoolIndex

LEMMA CopyFixedCapCaps ==
    ASSUME Wired, NEW c \in CNode, CopyFixedCap(c) PROVE CapsStep(c)
<1> DEFINE j == job[c]
           row == FixedCaps(c)[j.k]
           Root(who) == IF who = "own" THEN OwnRoot(c) ELSE NewRoot(c)
           can == CanTransfer(caps, Root(row.into), row.dst, Root(row.of), row.src)
<1>1. IInv /\ j.pc = "fixed" /\ UNCHANGED alloc /\ Building(c)
  BY DEF CopyFixedCap, Wired, Building
<1>2. CASE ~can
  BY <1>2 DEF CopyFixedCap, CapsStep, SlotStep
<1>3. CASE can
  <2>1. caps' = CopyTo(caps, Root(row.into), row.dst, Root(row.of), row.src)
    BY <1>3 DEF CopyFixedCap
  <2>2. GoodCap(Root(row.of)) /\ GoodCap(OwnRoot(c)) /\ OwnRoot(c).n = c
    BY <1>1, WiredObjects, WiredJob
  <2>3. j.k \in 1 .. 13 /\ row.src \in Slot
    BY <1>1, FixedCapsType
  <2>4. GoodCaps(caps)
    BY <1>1 DEF IInv, KernelOK
  <2>5. Adds(caps, caps', Root(row.into).n, row.dst, Root(row.of).n, row.src) /\ Root(row.of).n \in CNode
    <3> HIDE DEF Root, row
    <3> QED
      BY <1>3, <2>1, <2>2, <2>3, <2>4, CopyAdds
  <2>6. NotPool(row.dst) /\ row.dst # TempSlot
    <3>1. \A k \in 1 .. 13 : \E a \in PdArea \cup {"INPUT", "ASID_POOL", "SCHED_CONTROL"} : \E i :
              FixedCaps(c)[k].dst = At(a, i)
      BY FixedCapsPlaces, Zenon
    <3>2. \A a \in {"INPUT", "ASID_POOL", "SCHED_CONTROL"} : \A i : NotPool(At(a, i)) /\ At(a, i) # TempSlot
      BY NotPoolSlots, Zenon DEF FixedArea, At, TempSlot
    <3>3. PICK a \in PdArea \cup {"INPUT", "ASID_POOL", "SCHED_CONTROL"} : \E i : row.dst = At(a, i)
      BY <2>3, <3>1
    <3>4. CASE a \in PdArea
      BY <3>3, <3>4, NotPoolSlots
    <3>5. CASE a \in {"INPUT", "ASID_POOL", "SCHED_CONTROL"}
      BY <3>3, <3>5, <3>2
    <3> QED
      BY <3>4, <3>5, SMTT(30)
  <2>7. ~StillOffered(Root(row.of).n, row.src)
    <3>1. \/ NotPool(row.src)
          \/ /\ row.of = "own"
             /\ row.src \in {At("tcb", j.tcb), At("ntfn", j.ntfn), At("sc", j.sc),
                             At("vspace", j.vspace), At("cnode", j.cnode)}
      <4>1. NotPool(InputSlot) /\ NotPool(AsidSlot) /\ NotPool(ControlSlot)
        BY NotPoolSlots DEF FixedArea, InputSlot, AsidSlot, ControlSlot
      <4>2. \A k \in 1 .. 13 :
               \/ FixedCaps(c)[k].src \in {InputSlot, AsidSlot, ControlSlot}
               \/ /\ FixedCaps(c)[k].of = "own"
                  /\ FixedCaps(c)[k].src \in {At("tcb", j.tcb), At("ntfn", j.ntfn), At("sc", j.sc),
                                              At("vspace", j.vspace), At("cnode", j.cnode)}
        BY DEF FixedCaps, Row
      <4> QED
        BY <2>3, <4>1, <4>2
    <3>2. \A k \in PoolKind : alloc'[c][k] = alloc[c][k] /\ alloc[c][k] \in Nat
      BY <1>1, WiredObjects, WiredJob
    <3>3. /\ j.tcb < alloc[c]["tcb"] /\ j.ntfn < alloc[c]["ntfn"] /\ j.sc < alloc[c]["sc"]
          /\ j.vspace < alloc[c]["vspace"] /\ j.cnode < alloc[c]["cnode"]
      BY <1>1, WiredObjects, WiredJob
    <3>4. \A s \in {At("tcb", j.tcb), At("ntfn", j.ntfn), At("sc", j.sc),
                    At("vspace", j.vspace), At("cnode", j.cnode)} : ~StillOffered(c, s)
      BY <3>2, <3>3, UsedNotOffered DEF PoolKind
    <3>5. row.of = "own" => Root(row.of).n = c
      BY <2>2
    <3> HIDE DEF row, Root
    <3> QED
      BY <3>1, <3>4, <3>5, NotPoolSlots
  <2> HIDE DEF row, Root
  <2> QED
    BY <2>3, <2>5, <2>6, <2>7, AddsStep
<1> QED
  BY <1>2, <1>3

LEMMA MintChannelCaps ==
    ASSUME Wired, NEW c \in CNode, MintChannel(c) PROVE CapsStep(c)
<1> DEFINE r == Right(c)
           first == job[c].i = 0
           a == IF first THEN Target(c) ELSE r.target
           b == IF first THEN r.target ELSE Target(c)
           aId == IF first THEN r.ownId ELSE r.targetId
           bId == IF first THEN r.targetId ELSE r.ownId
           can == CanTransfer(caps, PdRoot(c, a), At("OUT", aId), PdRoot(c, b), At("CHAN", b))
<1>1. IInv /\ RightIs(c, "channel") /\ UNCHANGED alloc
  BY DEF MintChannel, Wired
<1>2. CASE ~can
  BY <1>2 DEF MintChannel, CapsStep, SlotStep
<1>3. CASE can
  <2>1. caps' = MintTo(caps, PdRoot(c, a), At("OUT", aId), PdRoot(c, b), At("CHAN", b), Badge(bId))
    BY <1>3 DEF MintChannel
  <2>2. Target(c) \in PdId /\ r.target \in PdId /\ r.targetId \in Nat /\ r.ownId \in Nat
    BY <1>1, RightJob, RightType, CapSpaceAssumption DEF Allocated
  <2>3. b \in PdId /\ GoodCap(PdRoot(c, b)) /\ At("CHAN", b) \in Slot /\ Badge(bId) \in Badges
    BY <1>1, <2>2, PdRootType, PdSlots, BadgeType DEF PdArea
  <2>4. GoodCaps(caps)
    BY <1>1 DEF IInv, KernelOK
  <2> HIDE DEF a, b, aId, bId
  <2>5. Adds(caps, caps', PdRoot(c, a).n, At("OUT", aId), PdRoot(c, b).n, At("CHAN", b))
        /\ PdRoot(c, b).n \in CNode
    BY <1>3, <2>1, <2>3, <2>4, MintAdds
  <2>6. NotPool(At("OUT", aId)) /\ At("OUT", aId) # TempSlot /\ ~StillOffered(PdRoot(c, b).n, At("CHAN", b))
    BY NotPoolSlots DEF ChannelArea, PdArea
  <2> QED
    BY <2>3, <2>5, <2>6, AddsStep
<1> QED
  BY <1>2, <1>3

LEMMA MapPageCaps ==
    ASSUME Wired, NEW c \in CNode, MapPage(c) PROVE CapsStep(c)
<1> DEFINE slot == At("page", alloc[c]["page"])
           v == JobVSpace(c)
           place == [vs |-> v.n, page |-> job[c].page]
<1>1. IInv /\ job[c].pc \in {"page", "ipcmap"}
  BY DEF MapPage, Wired
<1>2. CASE UNCHANGED caps
  BY <1>2 DEF CapsStep, SlotStep
<1>3. CASE ~UNCHANGED caps
  <2>1. ~Exhausted(c, "page") /\ caps' = [caps EXCEPT ![c][slot].at = place]
    BY <1>3 DEF MapPage
  <2>2. slot \in Slot
    BY <1>1, <2>1, PoolCapType DEF PoolKind
  <2>3. place \in Place
    BY <1>1, JobCaps, JobType, PlaceType DEF Job
  <2>4. GoodCaps(caps)
    BY <1>1 DEF IInv, KernelOK
  <2>5. Marks(caps, caps', c, slot)
    <3> HIDE DEF slot, place
    <3> QED
      BY <2>1, <2>2, <2>3, <2>4, MapMarks
  <2> QED
    BY <2>5 DEF Marks, CapsStep, SlotStep
<1> QED
  BY <1>2, <1>3

LEMMA WriteHandleCaps ==
    ASSUME Wired, NEW c \in CNode, WriteHandle(c) PROVE CapsStep(c)
<1> DEFINE own == OwnRoot(c)
           v == OwnVSpace(c)
           page == alloc[c]["page"] - 1
           from == At("page", page)
           emptied == [caps EXCEPT ![own.n][TempSlot] = NullCap]
           copied == CopyTo(emptied, own, TempSlot, own, from)
           place == [vs |-> v.n, page |-> TempPage]
           placed == [copied EXCEPT ![own.n][TempSlot].at = place]
<1>1. IInv /\ job[c].pc = "window" /\ UNCHANGED alloc /\ Active(c)
  BY DEF WriteHandle, Wired, Active
<1>2. \/ caps' = emptied
      \/ CanTransfer(emptied, own, TempSlot, own, from) /\ caps' = placed
  BY DEF WriteHandle
<1>3. GoodCap(own) /\ own.n = c /\ GoodCap(v)
  BY <1>1, WiredJob, OwnCaps
<1>4. GoodCaps(caps)
  BY <1>1 DEF IInv, KernelOK
<1>5. GoodCaps(emptied) /\ Drops(caps, emptied, c, TempSlot)
  <2>1. GoodCaps(emptied) /\ Drops(caps, emptied, own.n, TempSlot)
    BY <1>4, ClearDrops
  <2> QED
    BY <2>1, <1>3
<1>6. page \in Nat /\ page < alloc[c]["page"] /\ from \in Slot /\ alloc'[c]["page"] \in Nat
  <2>1. alloc[c]["page"] \in Nat /\ alloc[c]["page"] > 0 /\ alloc[c]["page"] <= PoolSize("page")
    BY <1>1, JobType DEF JobOK, IInv, PdsOK, PoolKind
  <2>2. page \in Nat /\ page < PoolSize("page")
    BY <2>1, PoolSizeType DEF PoolKind
  <2> QED
    BY <1>1, <2>1, <2>2, PoolSlots DEF PoolKind
<1>7. NotPool(TempSlot) /\ ~StillOffered(c, from) /\ from # TempSlot
  <2>1. NotPool(TempSlot)
    BY NotPoolSlots DEF FixedArea, TempSlot
  <2>2. ~StillOffered(c, from)
    BY <1>1, <1>6, UsedNotOffered DEF PoolKind
  <2> QED
    BY <2>1, <2>2 DEF NotPool, PoolKind
<1>8. CASE caps' = emptied
  <2> HIDE DEF emptied
  <2> QED
    BY <1>5, <1>7, <1>8, NullCapGood DEF Drops, CapsStep, SlotStep, Full
<1>9. CASE CanTransfer(emptied, own, TempSlot, own, from) /\ caps' = placed
  <2>1. GoodCaps(copied) /\ Adds(emptied, copied, c, TempSlot, c, from)
    <3>1. GoodCaps(copied) /\ Adds(emptied, copied, own.n, TempSlot, own.n, from)
      <4> HIDE DEF emptied, own, from
      <4> QED
        BY <1>3, <1>5, <1>6, <1>9, CopyAdds
    <3> QED
      BY <1>3, <3>1
  <2>2. place \in Place
    BY <1>3, PlaceType, LayoutAssumption
  <2>3. Marks(copied, placed, c, TempSlot)
    <3>1. c \in CNode /\ TempSlot \in Slot /\ placed = [copied EXCEPT ![c][TempSlot].at = place]
      BY <1>3, FixedSlots
    <3> HIDE DEF copied, place, placed
    <3> QED
      BY <2>1, <2>2, <3>1, MapMarks
  <2> HIDE DEF emptied, copied, placed, from
  <2>4. emptied[c][from] = caps[c][from]
    BY <1>5, <1>6, <1>7 DEF Drops
  <2>5. ASSUME NEW x \in CNode, NEW y \in Slot, ~(x = c /\ y = TempSlot)
        PROVE  caps'[x][y] = caps[x][y]
    BY <1>5, <1>9, <2>1, <2>3, <2>5 DEF Drops, Adds, Marks
  <2>6. ~Full(caps'[c][TempSlot]) \/ SameObject(caps'[c][TempSlot], caps[c][from])
    BY <1>5, <1>9, <2>1, <2>3, <2>4, FixedSlots, NullCapGood DEF Drops, Adds, Marks, SameObject, Full
  <2> QED
    BY <1>6, <1>7, <2>5, <2>6 DEF CapsStep, SlotStep
<1> QED
  BY <1>2, <1>8, <1>9

LEMMA MintIrqBadgeCaps ==
    ASSUME Wired, NEW c \in CNode, MintIrqBadge(c) PROVE CapsStep(c)
<1> DEFINE own == OwnRoot(c)
           from == At("CHAN", Target(c))
           badge == Badge(Right(c).childId)
           emptied == [caps EXCEPT ![own.n][TempSlot] = NullCap]
           minted == MintTo(emptied, own, TempSlot, own, from, badge)
<1>1. IInv /\ RightIs(c, "irq") /\ UNCHANGED alloc /\ Active(c)
  BY DEF MintIrqBadge, Wired, Active, RightIs
<1>2. \/ caps' = emptied
      \/ CanTransfer(emptied, own, TempSlot, own, from) /\ caps' = minted
  BY DEF MintIrqBadge
<1>3. GoodCap(own) /\ own.n = c /\ Target(c) \in PdId
  BY <1>1, WiredJob
<1>4. GoodCaps(caps)
  BY <1>1 DEF IInv, KernelOK
<1>5. GoodCaps(emptied) /\ Drops(caps, emptied, c, TempSlot)
  <2>1. GoodCaps(emptied) /\ Drops(caps, emptied, own.n, TempSlot)
    BY <1>4, ClearDrops
  <2> QED
    BY <2>1, <1>3
<1>6. from \in Slot /\ badge \in Badges
  <2>1. Right(c).childId \in Nat
    BY <1>1, RightJob, RightType, CapSpaceAssumption DEF Allocated
  <2> QED
    BY <1>3, <2>1, PdSlots, BadgeType DEF PdArea
<1>7. NotPool(TempSlot) /\ ~StillOffered(c, from) /\ from # TempSlot
  BY NotPoolSlots DEF FixedArea, TempSlot, PdArea
<1>8. CASE caps' = emptied
  <2> HIDE DEF emptied
  <2> QED
    BY <1>5, <1>7, <1>8, NullCapGood DEF Drops, CapsStep, SlotStep, Full
<1>9. CASE CanTransfer(emptied, own, TempSlot, own, from) /\ caps' = minted
  <2>1. Adds(emptied, minted, c, TempSlot, c, from)
    <3>1. Adds(emptied, minted, own.n, TempSlot, own.n, from)
      <4> HIDE DEF emptied, own, from, badge
      <4> QED
        BY <1>3, <1>5, <1>6, <1>9, MintAdds
    <3> QED
      BY <1>3, <3>1
  <2> HIDE DEF emptied, minted, from
  <2>4. emptied[c][from] = caps[c][from]
    BY <1>5, <1>6, <1>7 DEF Drops
  <2>5. ASSUME NEW x \in CNode, NEW y \in Slot, ~(x = c /\ y = TempSlot)
        PROVE  caps'[x][y] = caps[x][y]
    BY <1>5, <1>9, <2>1, <2>5 DEF Drops, Adds
  <2>6. ~Full(caps'[c][TempSlot]) \/ SameObject(caps'[c][TempSlot], caps[c][from])
    BY <1>5, <1>9, <2>1, <2>4, FixedSlots, NullCapGood DEF Drops, Adds, Full
  <2> QED
    BY <1>6, <1>7, <2>5, <2>6 DEF CapsStep, SlotStep
<1> QED
  BY <1>2, <1>8, <1>9

\* A page of a region is marked as mapped, and its capability is copied.
LEMMA MapSharedCopies ==
    ASSUME Wired, NEW c \in CNode, MapShared(c)
    PROVE  LET slot == At("SHARED", Right(c).id + job[c].i)
               to == At("SHARED", job[c].shared)
           IN  /\ Right(c).id + job[c].i \in SharedIdx /\ slot \in Slot
               /\ \A x \in CNode, y \in Slot :
                     \/ caps'[x][y] = caps[x][y]
                     \/ y = slot /\ SameObject(caps'[x][y], caps[x][y])
                     \/ y = to /\ SameObject(caps'[x][y], caps[c][slot])
<1> DEFINE slot == At("SHARED", Right(c).id + job[c].i)
           v == JobVSpace(c)
           to == At("SHARED", job[c].shared)
           place == [vs |-> v.n, page |-> job[c].page]
           mapped == [caps EXCEPT ![c][slot].at = place]
           root == PdRoot(c, job[c].id)
           own == OwnRoot(c)
           copied == CopyTo(mapped, root, to, own, slot)
<1>1. IInv /\ job[c].pc = "shared" /\ Active(c) /\ Building(c)
  BY DEF MapShared, Wired, Active, Building
<1>2. \/ UNCHANGED caps
      \/ caps' = mapped
      \/ CanTransfer(mapped, root, to, own, slot) /\ caps' = copied
  BY DEF MapShared
<1>3. GoodCap(own) /\ own.n = c
  BY <1>1, WiredJob
<1>4. GoodCaps(caps)
  BY <1>1 DEF IInv, KernelOK
<1>5. Right(c).id + job[c].i \in SharedIdx /\ slot \in Slot /\ place \in Place
  <2>1. job[c].k <= Len(Program(c).rights) /\ Right(c).type = "memory"
        /\ job[c].i \in Nat /\ job[c].i < Right(c).pages
    BY <1>1, JobType DEF JobOK, Program, Right, Job
  <2>2. Right(c).id + job[c].i \in SharedIdx
    BY <1>1, <2>1, RightType
  <2> QED
    BY <1>1, <2>2, SharedSlots, JobCaps, JobType, PlaceType DEF Job
<1>6. GoodCaps(mapped) /\ Marks(caps, mapped, c, slot)
  <2> HIDE DEF slot, place
  <2> QED
    BY <1>4, <1>5, MapMarks
<1> SUFFICES ASSUME NEW x \in CNode, NEW y \in Slot
             PROVE  \/ caps'[x][y] = caps[x][y]
                    \/ y = slot /\ SameObject(caps'[x][y], caps[x][y])
                    \/ y = to /\ SameObject(caps'[x][y], caps[c][slot])
  BY <1>5
<1>7. CASE UNCHANGED caps
  BY <1>7
<1>8. CASE caps' = mapped
  <2> HIDE DEF mapped, slot
  <2> QED
    BY <1>6, <1>8 DEF Marks
<1>9. CASE CanTransfer(mapped, root, to, own, slot) /\ caps' = copied
  <2>1. Adds(mapped, copied, root.n, to, c, slot)
    <3>1. Adds(mapped, copied, root.n, to, own.n, slot)
      <4> HIDE DEF mapped, own, slot, to, root
      <4> QED
        BY <1>3, <1>5, <1>6, <1>9, CopyAdds
    <3> QED
      BY <1>3, <3>1
  <2> HIDE DEF mapped, copied, root, slot, to
  <2>2. SameObject(mapped[c][slot], caps[c][slot])
    BY <1>5, <1>6 DEF Marks, SameObject
  <2>3. \/ caps'[x][y] = mapped[x][y]
        \/ y = to /\ SameObject(caps'[x][y], mapped[c][slot])
    BY <1>9, <2>1 DEF Adds
  <2> QED
    BY <1>6, <2>2, <2>3 DEF Marks, SameObject
<1> QED
  BY <1>2, <1>7, <1>8, <1>9

LEMMA MapSharedCaps ==
    ASSUME Wired, NEW c \in CNode, MapShared(c) PROVE CapsStep(c)
<1> SUFFICES ASSUME NEW x \in CNode, NEW y \in Slot PROVE SlotStep(c, x, y)
  BY DEF CapsStep
<1> DEFINE slot == At("SHARED", Right(c).id + job[c].i)
           to == At("SHARED", job[c].shared)
<1>1. NotPool(to) /\ to # TempSlot /\ ~StillOffered(c, slot)
  BY NotPoolSlots
<1>2. /\ slot \in Slot
      /\ \/ caps'[x][y] = caps[x][y]
         \/ y = slot /\ SameObject(caps'[x][y], caps[x][y])
         \/ y = to /\ SameObject(caps'[x][y], caps[c][slot])
  BY MapSharedCopies
<1>3. CASE y = to /\ SameObject(caps'[x][y], caps[c][slot])
  <2> HIDE DEF to, slot
  <2> QED
    BY <1>1, <1>2, <1>3 DEF SlotStep
<1> QED
  BY <1>2, <1>3 DEF SlotStep

LEMMA MoveIrqHandlerCaps ==
    ASSUME Wired, NEW c \in CNode, MoveIrqHandler(c) PROVE CapsStep(c)
<1> DEFINE to == At("IRQ", Right(c).childId)
           from == At("IRQ", Right(c).parentId)
           root == PdRoot(c, Target(c))
           own == OwnRoot(c)
<1>1. IInv /\ job[c].pc = "irqmove" /\ Active(c)
  BY DEF MoveIrqHandler, Wired, Active
<1>2. \/ UNCHANGED caps
      \/ CanTransfer(caps, root, to, own, from) /\ caps' = MoveTo(caps, root, to, own, from)
  BY DEF MoveIrqHandler
<1>3. GoodCap(own) /\ own.n = c
  BY <1>1, WiredJob
<1>4. GoodCaps(caps)
  BY <1>1 DEF IInv, KernelOK
<1>5. from \in Slot
  BY <1>1, IrqJob, ChannelSlots DEF ChannelArea
<1>7. NotPool(to) /\ NotPool(from) /\ to # TempSlot /\ from # TempSlot /\ ~StillOffered(c, from)
  BY NotPoolSlots DEF ChannelArea
<1>8. CASE UNCHANGED caps
  BY <1>8 DEF CapsStep, SlotStep
<1>9. CASE CanTransfer(caps, root, to, own, from) /\ caps' = MoveTo(caps, root, to, own, from)
  <2> HIDE DEF root, own, to, from
  <2>1. Moves(caps, caps', root.n, to, own.n, from)
    BY <1>3, <1>4, <1>5, <1>9, MoveMoves
  <2> QED
    BY <1>3, <1>5, <1>7, <2>1, NullCapGood DEF Moves, CapsStep, SlotStep, SameObject, Full
<1> QED
  BY <1>2, <1>8, <1>9

----------------------------------------------------------------------------
(* What a step of one PD leaves alone *)

\* Only the call and the pools of c go on.
OnlyJobOf(c) ==
    /\ \E new : Step(c, new)
    /\ \/ UNCHANGED alloc
       \/ \E k \in PoolKind : alloc' = [alloc EXCEPT ![c][k] = @ + 1]
       \/ \E m : alloc' = [alloc EXCEPT ![c] = [k \in PoolKind |->
                                IF m[k] THEN alloc[c][k] + 1 ELSE alloc[c][k]]]

LEMMA EnterJob ==
    ASSUME NEW c \in CNode, NEW p, NEW id, Enter(c, p, id) PROVE OnlyJobOf(c)
<1>1. \E new : Step(c, new)
  BY Zenon DEF Enter, Fail
<1>2. "cnode" \in PoolKind
  BY DEF PoolKind
<1>3. UNCHANGED alloc \/ alloc' = [alloc EXCEPT ![c]["cnode"] = @ + 1]
  BY DEF Enter
<1> QED
  BY <1>1, <1>2, <1>3 DEF OnlyJobOf

LEMMA StepJob ==
    ASSUME Wired, NEW c \in CNode, PdCreateStep(c) PROVE OnlyJobOf(c)
<1>1. \E new : Step(c, new)
  <2>1. CASE MovePoolCap(c)
    BY <2>1, Zenon DEF MovePoolCap, Fail
  <2>2. CASE AllocateObjects(c)
    BY <2>2, Zenon DEF AllocateObjects, Fail
  <2>3. CASE AssignAsid(c)
    BY <2>3, Zenon DEF AssignAsid, Fail
  <2>4. CASE CopyFixedCap(c)
    BY <2>4, Zenon DEF CopyFixedCap, Fail, Goto
  <2>5. CASE SetSpace(c) \/ BindNotification(c)
    BY <2>5, Zenon DEF SetSpace, BindNotification, Fail, Goto
  <2>6. CASE NextPage(c) \/ MapTable(c)
    BY <2>6, Zenon DEF NextPage, MapTable, Fail
  <2>7. CASE MapPage(c)
    BY <2>7, Zenon DEF MapPage, Fail
  <2>8. CASE WriteHandle(c) \/ SetIpcBuffer(c)
    BY <2>8, Zenon DEF WriteHandle, SetIpcBuffer, Fail
  <2>9. CASE SetUpScheduling(c) \/ MintChannel(c) \/ SetUpRegion(c)
    BY <2>9, Zenon DEF SetUpScheduling, MintChannel, SetUpRegion, Crash, Goto
  <2>10. CASE MapShared(c)
    BY <2>10, Zenon DEF MapShared, Fail
  <2>11. CASE MintIrqBadge(c) \/ SetIrqTarget(c) \/ MoveIrqHandler(c)
    BY <2>11, Zenon DEF MintIrqBadge, SetIrqTarget, MoveIrqHandler, Crash, Goto
  <2>12. CASE SkipControl(c) \/ UnknownRight(c) \/ Restart(c)
    BY <2>12, Zenon DEF SkipControl, UnknownRight, Restart, Fail, Crash, Goto
  <2> QED
    BY <2>1, <2>2, <2>3, <2>4, <2>5, <2>6, <2>7, <2>8, <2>9, <2>10, <2>11, <2>12
       DEF PdCreateStep
<1>2. \/ UNCHANGED alloc
      \/ \E k \in PoolKind : alloc' = [alloc EXCEPT ![c][k] = @ + 1]
      \/ \E m : alloc' = [alloc EXCEPT ![c] = [k \in PoolKind |->
                                IF m[k] THEN alloc[c][k] + 1 ELSE alloc[c][k]]]
  <2>1. CASE AllocateObjects(c)
    <3> DEFINE Taken == {m \in 1 .. 4 : \A l \in 1 .. m : ~Exhausted(c, AllocateOrder[l])}
               m == [k \in PoolKind |-> \E i \in Taken : AllocateOrder[i] = k]
    <3>1. alloc' = [alloc EXCEPT ![c] = [k \in PoolKind |->
                      IF \E i \in Taken : AllocateOrder[i] = k
                      THEN alloc[c][k] + 1 ELSE alloc[c][k]]]
      BY <2>1 DEF AllocateObjects
    <3>2. \A k \in PoolKind : m[k] <=> \E i \in Taken : AllocateOrder[i] = k
      BY Zenon
    <3>3. [k \in PoolKind |-> IF \E i \in Taken : AllocateOrder[i] = k
                              THEN alloc[c][k] + 1 ELSE alloc[c][k]]
          = [k \in PoolKind |-> IF m[k] THEN alloc[c][k] + 1 ELSE alloc[c][k]]
      <4> HIDE DEF m, Taken
      <4> QED
        BY <3>2, Zenon
    <3>4. alloc' = [alloc EXCEPT ![c] = [k \in PoolKind |->
                                IF m[k] THEN alloc[c][k] + 1 ELSE alloc[c][k]]]
      BY <3>1, <3>3, Zenon
    <3> HIDE DEF m
    <3> QED
      BY <3>4, Zenon
  <2>2. CASE MovePoolCap(c)
    <3>1. MoveOrder[job[c].k] \in PoolKind
      <4>1. job[c].pc = "move" /\ IInv
        BY <2>2 DEF MovePoolCap, Wired
      <4>2. job[c] \in Job /\ JobOK(job[c], alloc[c], image[c])
        BY <4>1, JobType
      <4> QED
        BY <4>1, <4>2, MoveOrderKinds DEF JobOK, Job
    <3> QED
      BY <2>2, <3>1, Zenon DEF MovePoolCap
  <2>3. CASE MapTable(c)
    <3>1. TableKind[job[c].level] \in PoolKind
      <4>1. job[c].level \in 1 .. 3
        BY JobType DEF Wired, Job
      <4> QED
        BY <4>1 DEF TableKind, PoolKind
    <3> QED
      BY <2>3, <3>1, Zenon DEF MapTable
  <2>4. CASE MapPage(c)
    <3>1. "page" \in PoolKind
      BY DEF PoolKind
    <3> QED
      BY <2>4, <3>1, Zenon DEF MapPage
  <2>5. CASE ~(AllocateObjects(c) \/ MovePoolCap(c) \/ MapTable(c) \/ MapPage(c))
    BY <2>5, Zenon DEF PdCreateStep, AssignAsid, CopyFixedCap, SetSpace, BindNotification,
       NextPage, WriteHandle, SetIpcBuffer, SetUpScheduling, MintChannel, SetUpRegion,
       MapShared, MintIrqBadge, SetIrqTarget, MoveIrqHandler, SkipControl, UnknownRight, Restart
  <2> QED
    BY <2>1, <2>2, <2>3, <2>4, <2>5
<1> QED
  BY <1>1, <1>2 DEF OnlyJobOf

LEMMA AllocGrows ==
    ASSUME IInv, NEW c \in CNode, OnlyJobOf(c)
    PROVE  /\ \A d \in CNode \ {c} : job'[d] = job[d] /\ alloc'[d] = alloc[d]
           /\ \A d \in CNode, k \in PoolKind : alloc'[d][k] \in Nat /\ alloc'[d][k] >= alloc[d][k]
<1>1. job \in [CNode -> Job] /\ alloc \in [CNode -> [PoolKind -> Nat]]
  BY DEF IInv, JobsOK, PdsOK
<1>2. \A d \in CNode \ {c} : job'[d] = job[d]
  BY <1>1 DEF OnlyJobOf, Step
<1>3. CASE UNCHANGED alloc
  BY <1>1, <1>2, <1>3
<1>4. ASSUME NEW k \in PoolKind, alloc' = [alloc EXCEPT ![c][k] = @ + 1]
      PROVE  /\ \A d \in CNode \ {c} : alloc'[d] = alloc[d]
             /\ \A d \in CNode, m \in PoolKind : alloc'[d][m] \in Nat /\ alloc'[d][m] >= alloc[d][m]
  BY <1>1, <1>4
<1>5. ASSUME NEW f, alloc' = [alloc EXCEPT ![c] = [k \in PoolKind |->
                                IF f[k] THEN alloc[c][k] + 1 ELSE alloc[c][k]]]
      PROVE  /\ \A d \in CNode \ {c} : alloc'[d] = alloc[d]
             /\ \A d \in CNode, m \in PoolKind : alloc'[d][m] \in Nat /\ alloc'[d][m] >= alloc[d][m]
  BY <1>1, <1>5
<1> QED
  BY <1>2, <1>3, <1>4, <1>5 DEF OnlyJobOf

----------------------------------------------------------------------------
(* What every action does to the threads *)

LEMMA JobObjects ==
    ASSUME Wired, NEW c \in CNode, Building(c)
    PROVE  /\ Full(Thread(c)) => Thread(c).n \in ObjNum("tcb") /\ Thread(c) = MkCap("tcb", Thread(c).n)
           /\ Full(Ntfn(c)) => Ntfn(c) = MkCap("ntfn", Ntfn(c).n)
           /\ Full(Sc(c)) => Sc(c) = MkCap("sc", Sc(c).n)
           /\ Full(NewSpace(c)) => NewSpace(c).n \in ObjNum("vspace")
                                   /\ NewSpace(c) = MkCap("vspace", NewSpace(c).n)
           /\ Full(NewRoot(c)) => NewRoot(c).n \in CNode /\ NewRoot(c) = MkCap("cnode", NewRoot(c).n)
<1>1. PoolPlain /\ Active(c)
  BY WiredObjects DEF Wired, PoolOK
<1>2. /\ job[c].tcb \in PoolIndex("tcb") /\ job[c].ntfn \in PoolIndex("ntfn")
      /\ job[c].sc \in PoolIndex("sc") /\ job[c].vspace \in PoolIndex("vspace")
      /\ job[c].cnode \in PoolIndex("cnode")
  BY <1>1, WiredObjects, WiredJob
<1> QED
  BY <1>1, <1>2 DEF PoolPlain, PoolKind, Thread, Ntfn, Sc, NewSpace, NewRoot, CNode

LEMMA RootObject ==
    ASSUME Wired, NEW c \in CNode, Active(c), Full(NewRoot(c))
    PROVE  NewRoot(c).n \in CNode /\ NewRoot(c) = MkCap("cnode", NewRoot(c).n)
<1>1. PoolPlain /\ job[c].cnode \in PoolIndex("cnode")
  BY WiredJob, SMTT(30) DEF Wired, PoolOK
<1> QED
  BY <1>1 DEF PoolPlain, PoolKind, NewRoot, CNode

\* Past the binding of the notification everything that the PD runs on is there.
LEMMA BoundObjects ==
    ASSUME Wired, NEW c \in CNode, Bound(c)
    PROVE  /\ Building(c) /\ Active(c)
           /\ LET id == job[c].id
                  new == NewRoot(c).n
              IN  /\ Full(Thread(c)) /\ Full(Ntfn(c)) /\ Full(Sc(c)) /\ Full(NewSpace(c)) /\ Full(NewRoot(c))
                  /\ caps[new][InputSlot] = Ntfn(c)
                  /\ caps[new][At("CHAN", id)] = Ntfn(c) /\ caps[c][At("CHAN", id)] = Ntfn(c)
                  /\ caps[new][At("TCB", id)] = Thread(c) /\ caps[c][At("TCB", id)] = Thread(c)
                  /\ caps[new][At("SC", id)] = Sc(c) /\ caps[c][At("SC", id)] = Sc(c)
                  /\ caps[new][At("CNODE", id)] = NewRoot(c) /\ caps[c][At("CNODE", id)] = NewRoot(c)
                  /\ caps[new][At("VSPACE", id)] = NewSpace(c) /\ caps[c][At("VSPACE", id)] = NewSpace(c)
                  /\ tcb[Thread(c).n].cspace = new /\ tcb[Thread(c).n].vspace = NewSpace(c).n
                  /\ tcb[Thread(c).n].bound = Ntfn(c).n
<1>1. Building(c) /\ Active(c) /\ Spaced(c) /\ \A m : Copied(c, m)
  BY DEF Bound, Spaced, Copied, Building, Active
<1>2. FixedCopied(c) /\ ThreadSet(c)
  BY DEF Wired, JobWired
<1>3. \A m \in 1 .. 13 : RowHeld(c, m)
  BY <1>1, <1>2 DEF FixedCopied
<1>4. RowHeld(c, 2) /\ RowHeld(c, 3) /\ RowHeld(c, 4) /\ RowHeld(c, 6) /\ RowHeld(c, 7) /\ RowHeld(c, 8)
      /\ RowHeld(c, 9) /\ RowHeld(c, 10) /\ RowHeld(c, 11) /\ RowHeld(c, 12) /\ RowHeld(c, 13)
  BY <1>3
<1> QED
  BY <1>1, <1>2, <1>4 DEF RowHeld, ThreadSet, Holds, InNew

ThreadStep(c) ==
    \A n \in ObjNum("tcb") : tcb'[n] = tcb[n] \/ (Building(c) /\ Full(Thread(c)) /\ n = Thread(c).n)

ImageStep(c) ==
    \A d \in CNode :
        \/ image'[d] = image[d]
        \/ /\ Bound(c) /\ d = NewRoot(c).n
           /\ image'[d] = [id |-> job[c].id, tcb |-> Thread(c).n, program |-> Program(c)]
           /\ tcb' = [tcb EXCEPT ![Thread(c).n].running = TRUE]

LEMMA ThreadSteps ==
    ASSUME Wired, NEW c \in CNode, PdCreateStep(c) PROVE ThreadStep(c)
<1>1. \A x : Full(x) <=> x.kind # "null"
  BY DEF Full
<1>2. tcb \in [ObjNum("tcb") -> Tcb]
  BY WiredTypes
<1>3. ASSUME NEW t, NEW r, tcb' = [tcb EXCEPT ![t] = r], Building(c), Full(Thread(c)), t = Thread(c).n
      PROVE ThreadStep(c)
  BY <1>2, <1>3 DEF ThreadStep
<1>4. CASE UNCHANGED tcb
  BY <1>4 DEF ThreadStep
<1>5. CASE SetSpace(c) /\ ~UNCHANGED tcb
  <2>1. Building(c) /\ Thread(c).kind = "tcb"
    BY <1>5, Zenon DEF SetSpace, Building, Thread
  <2>2. \E r : tcb' = [tcb EXCEPT ![Thread(c).n] = r]
    <3>1. tcb' = [tcb EXCEPT ![Thread(c).n].cspace = NewRoot(c).n,
                             ![Thread(c).n].vspace = caps[c][At("vspace", job[c].vspace)].n]
      BY <1>5, Zenon DEF SetSpace, Thread
    <3> DEFINE t == Thread(c).n
               r == [tcb[t] EXCEPT !.cspace = NewRoot(c).n, !.vspace = caps[c][At("vspace", job[c].vspace)].n]
    <3>2. tcb' = [tcb EXCEPT ![t] = r]
      <4>1. tcb' = [tcb EXCEPT ![t].cspace = NewRoot(c).n,
                             ![t].vspace = caps[c][At("vspace", job[c].vspace)].n]
        BY <3>1
      <4> HIDE DEF t
      <4> QED
        BY <4>1, <1>2
    <3> HIDE DEF r
    <3> QED
      BY <3>2
  <2> QED
    BY <1>1, <1>3, <2>1, <2>2
<1>6. CASE BindNotification(c) /\ ~UNCHANGED tcb
  <2>1. Building(c) /\ Thread(c).kind = "tcb"
    BY <1>6, Zenon DEF BindNotification, Building, Thread
  <2>2. tcb' = [tcb EXCEPT ![Thread(c).n] =
                    [tcb[Thread(c).n] EXCEPT !.bound = caps[c][At("ntfn", job[c].ntfn)].n]]
    BY <1>2, <1>6, Zenon DEF BindNotification, Thread
  <2> QED
    BY <1>1, <1>3, <2>1, <2>2, Zenon
<1> DEFINE t == caps[c][At("TCB", Target(c))]
<1>7. ASSUME Bound(c) PROVE t = Thread(c) /\ Full(Thread(c)) /\ Building(c)
  BY <1>7, BoundObjects DEF Target
<1>8. CASE SetIpcBuffer(c) /\ ~UNCHANGED tcb
  <2>1. Bound(c)
    BY <1>8 DEF SetIpcBuffer, Bound, Spaced, Building
  <2>2. tcb' = [tcb EXCEPT ![t.n] = [tcb[t.n] EXCEPT !.ipc = caps[c][At("page", alloc[c]["page"] - 1)].n]]
    BY <1>2, <1>8 DEF SetIpcBuffer
  <2> QED
    BY <1>3, <1>7, <2>1, <2>2
<1>9. CASE SetUpScheduling(c) /\ ~UNCHANGED tcb
  <2>1. Bound(c)
    BY <1>9 DEF SetUpScheduling, RightIs, Bound, Spaced, Building
  <2>2. \E r : tcb' = [tcb EXCEPT ![t.n] = r]
    <3> DEFINE s == caps[c][At("sc", alloc[c]["sc"] - 1)].n
               mcp == Right(c).mcp
               n == t.n
               r == [tcb[n] EXCEPT !.sc = s, !.mcp = mcp]
    <3>1. tcb' = [tcb EXCEPT ![n].sc = s, ![n].mcp = mcp]
      BY <1>9 DEF SetUpScheduling
    <3>2. tcb' = [tcb EXCEPT ![n] = r]
      <4> HIDE DEF n, s, mcp
      <4> QED
        BY <1>2, <3>1
    <3> HIDE DEF r
    <3> QED
      BY <3>2
  <2> QED
    BY <1>3, <1>7, <2>1, <2>2, ZenonT(60)
<1>10. CASE Restart(c) /\ ~UNCHANGED tcb
  <2>1. Bound(c)
    BY <1>10 DEF Restart, RightIs, Bound, Spaced, Building
  <2>2. tcb' = [tcb EXCEPT ![t.n] = [tcb[t.n] EXCEPT !.running = TRUE]]
    BY <1>2, <1>10 DEF Restart
  <2> QED
    BY <1>3, <1>7, <2>1, <2>2
<1>11. PdCreateStep(c) => UNCHANGED tcb \/ SetSpace(c) \/ BindNotification(c) \/ SetIpcBuffer(c)
          \/ SetUpScheduling(c) \/ Restart(c)
  BY Zenon DEF PdCreateStep, MovePoolCap, AllocateObjects, AssignAsid, CopyFixedCap, NextPage,
     MapTable, MapPage, WriteHandle, MintChannel, SetUpRegion, MapShared, MintIrqBadge,
     SetIrqTarget, MoveIrqHandler, SkipControl, UnknownRight, threads
<1> QED
  BY <1>4, <1>5, <1>6, <1>8, <1>9, <1>10, <1>11

LEMMA RestartStarts ==
    ASSUME Wired, NEW c \in CNode, Restart(c)
    PROVE  /\ Bound(c)
           /\ tcb' = [tcb EXCEPT ![Thread(c).n].running = TRUE]
           /\ image' = [image EXCEPT ![NewRoot(c).n] =
                  [id |-> job[c].id, tcb |-> Thread(c).n, program |-> Program(c)]]
           /\ job'[c].pc = "idle" /\ UNCHANGED <<caps, frames, alloc>>
<1>1. Bound(c)
  BY DEF Restart, Bound, Spaced, Building
<1>2. caps[c][At("TCB", Target(c))] = Thread(c) /\ tcb[Thread(c).n].cspace = NewRoot(c).n
  BY <1>1, BoundObjects DEF Target
<1>3. Thread(c).kind = "tcb"
  BY <1>1, BoundObjects, JobObjects DEF MkCap
<1>4. Step(c, [job[c] EXCEPT !.pc = "idle", !.ret = 0])
  BY <1>2, <1>3 DEF Restart
<1>5. job'[c].pc = "idle"
  BY <1>4, WiredTypes DEF Step, Job
<1> QED
  BY <1>1, <1>2, <1>3, <1>5 DEF Restart, Target, space

LEMMA ImageSteps ==
    ASSUME Wired, NEW c \in CNode, PdCreateStep(c) PROVE ImageStep(c)
<1>1. CASE UNCHANGED image
  BY <1>1 DEF ImageStep
<1>2. CASE Restart(c)
  <2>1. image \in [CNode -> {NoImage} \cup [id : PdId, tcb : Nat, program : AnyProgram]]
    BY DEF Wired, IInv, PdsOK
  <2> QED
    BY <1>2, <2>1, RestartStarts DEF ImageStep
<1>3. PdCreateStep(c) => UNCHANGED image \/ Restart(c)
  BY Zenon DEF PdCreateStep, MovePoolCap, AllocateObjects, AssignAsid, CopyFixedCap, NextPage,
     MapTable, MapPage, WriteHandle, MintChannel, SetUpRegion, MapShared, MintIrqBadge,
     SetIrqTarget, MoveIrqHandler, SkipControl, UnknownRight, threads, SetSpace, BindNotification,
     SetIpcBuffer, SetUpScheduling
<1> QED
  BY <1>1, <1>2, <1>3

----------------------------------------------------------------------------
(* The pools *)

LEMMA CapsSteps ==
    ASSUME Wired, NEW c \in CNode, PdCreateStep(c), ~MovePoolCap(c) PROVE CapsStep(c)
<1>1. CASE UNCHANGED caps
  BY <1>1 DEF CapsStep, SlotStep
<1>2. UNCHANGED caps \/ CopyFixedCap(c) \/ MapPage(c) \/ WriteHandle(c) \/ MintChannel(c)
      \/ MapShared(c) \/ MintIrqBadge(c) \/ MoveIrqHandler(c)
  BY Zenon DEF PdCreateStep, AllocateObjects, AssignAsid, SetSpace, BindNotification, NextPage,
     MapTable, SetIpcBuffer, SetUpScheduling, SetUpRegion, SetIrqTarget, SkipControl,
     UnknownRight, Restart
<1> QED
  BY <1>1, <1>2, CopyFixedCapCaps, MapPageCaps, WriteHandleCaps, MintChannelCaps,
     MapSharedCaps, MintIrqBadgeCaps, MoveIrqHandlerCaps

\* The capability that a pool gives away: it is the next one of the pool of c, and
\* goes to the pool of the new PD.
LEMMA MovePoolCapMoves ==
    ASSUME Wired, NEW c \in CNode, MovePoolCap(c)
    PROVE  /\ Active(c) /\ job[c].pc = "move"
           /\ \/ UNCHANGED caps
              \/ \E k \in PoolKind, i \in Nat :
                    /\ alloc[c][k] \in PoolIndex(k) /\ alloc'[c][k] = alloc[c][k] + 1
                    /\ Full(NewRoot(c)) /\ NewRoot(c).n \in CNode
                    /\ Full(caps[c][At(k, alloc[c][k])])
                    /\ ~Full(caps[NewRoot(c).n][At(k, i)])
                    /\ Moves(caps, caps', NewRoot(c).n, At(k, i), c, At(k, alloc[c][k]))
<1> DEFINE k == MoveOrder[job[c].k]
           i == job[c].i
           to == At(k, i)
           from == At(k, alloc[c][k])
<1>1. IInv /\ Active(c) /\ job[c].pc = "move"
  BY DEF MovePoolCap, Active, Wired
<1>2. job[c] \in Job /\ JobOK(job[c], alloc[c], image[c]) /\ GoodCap(OwnRoot(c)) /\ OwnRoot(c).n = c
      /\ GoodCap(NewRoot(c))
  BY <1>1, WiredJob
<1>3. k \in PoolKind /\ i \in Nat
  BY <1>1, <1>2, MoveOrderKinds DEF JobOK, Job
<1>4. \/ UNCHANGED caps
      \/ /\ ~Exhausted(c, k) /\ CanTransfer(caps, NewRoot(c), to, OwnRoot(c), from)
         /\ caps' = MoveTo(caps, NewRoot(c), to, OwnRoot(c), from)
         /\ alloc' = [alloc EXCEPT ![c][k] = @ + 1]
  BY DEF MovePoolCap
<1>5. CASE ~Exhausted(c, k) /\ CanTransfer(caps, NewRoot(c), to, OwnRoot(c), from)
         /\ caps' = MoveTo(caps, NewRoot(c), to, OwnRoot(c), from)
         /\ alloc' = [alloc EXCEPT ![c][k] = @ + 1]
  <2>1. from \in Slot /\ alloc[c][k] < PoolSize(k)
    BY <1>1, <1>3, <1>5, PoolCapType
  <2>2. alloc[c][k] \in PoolIndex(k) /\ alloc'[c][k] = alloc[c][k] + 1
    <3>1. PoolSize(k) \in Nat
      BY <1>3, PoolSizeType
    <3>2. alloc \in [CNode -> [PoolKind -> Nat]]
      BY <1>1 DEF IInv, PdsOK
    <3> HIDE DEF k
    <3>3. alloc[c][k] \in Nat
      BY <1>3, <3>2
    <3>4. alloc[c][k] \in PoolIndex(k)
      BY <2>1, <3>1, <3>3 DEF PoolIndex
    <3>5. alloc'[c][k] = alloc[c][k] + 1
      BY <1>3, <1>5, <3>2
    <3> QED
      BY <3>4, <3>5
  <2>3. GoodCaps(caps)
    BY <1>1 DEF IInv, KernelOK
  <2> HIDE DEF to, from, k, i
  <2>4. Moves(caps, caps', NewRoot(c).n, to, c, from)
    BY <1>2, <1>5, <2>1, <2>3, MoveMoves
  <2>5. /\ Full(NewRoot(c)) /\ NewRoot(c).n \in CNode
        /\ Full(caps[c][from]) /\ ~Full(caps[NewRoot(c).n][to])
    BY <1>2, <1>5 DEF CanTransfer, GoodCap, Full
  <2> QED
    BY <1>1, <1>3, <2>2, <2>4, <2>5 DEF to, from
<1> QED
  BY <1>1, <1>4, <1>5

LEMMA PoolsKept ==
    ASSUME NEW c, CapsStep(c), NEW d \in CNode, NEW k \in PoolKind, NEW i \in PoolIndex(k)
    PROVE  /\ SameObject(caps'[d][At(k, i)], caps[d][At(k, i)])
           /\ k # "page" => caps'[d][At(k, i)] = caps[d][At(k, i)]
<1>1. At(k, i) \in Slot
  BY PoolSizeType, PoolSlots DEF PoolIndex
<1>2. SlotStep(c, d, At(k, i))
  BY <1>1 DEF CapsStep
<1>3. ~NotPool(At(k, i))
  BY DEF NotPool
<1>4. ASSUME NEW m, At(k, i) = At("page", m) \/ At(k, i) = At("SHARED", m) PROVE k = "page"
  BY <1>4 DEF At, PoolKind
<1> QED
  BY <1>2, <1>3, <1>4 DEF SlotStep, SameObject

\* What a running PD has taken from its pools stays there.
UsedKept ==
    \A d \in CNode, k \in PoolKind : \A i \in PoolIndex(k) :
        Live(d) /\ i < alloc[d][k] =>
            /\ SameObject(caps'[d][At(k, i)], caps[d][At(k, i)])
            /\ k # "page" => caps'[d][At(k, i)] = caps[d][At(k, i)]

TempKept(c) == \A d \in CNode \ {c} : caps'[d][TempSlot] = caps[d][TempSlot]

LEMMA UsedSteps ==
    ASSUME Wired, NEW c \in CNode, PdCreateStep(c) PROVE UsedKept /\ TempKept(c)
<1>1. CASE ~MovePoolCap(c)
  <2>1. CapsStep(c)
    BY <1>1, CapsSteps
  <2>2. UsedKept
    BY <2>1, PoolsKept DEF UsedKept
  <2>3. TempKept(c)
    <3>1. TempSlot \in Slot /\ \A i : TempSlot # At("page", i) /\ TempSlot # At("SHARED", i)
      BY FixedSlots DEF TempSlot, At
    <3> QED
      BY <2>1, <3>1 DEF CapsStep, SlotStep, TempKept
  <2> QED
    BY <2>2, <2>3
<1>2. CASE MovePoolCap(c) /\ ~UNCHANGED caps
  <2> DEFINE n == NewRoot(c).n
  <2>1. PICK k \in PoolKind, i \in Nat :
           /\ alloc[c][k] \in PoolIndex(k) /\ alloc'[c][k] = alloc[c][k] + 1
           /\ Full(NewRoot(c)) /\ n \in CNode
           /\ Full(caps[c][At(k, alloc[c][k])])
           /\ ~Full(caps[n][At(k, i)])
           /\ Moves(caps, caps', n, At(k, i), c, At(k, alloc[c][k]))
    BY <1>2, MovePoolCapMoves
  <2>2. ~Live(n)
    BY <1>2, <2>1, MovePoolCapMoves DEF Wired, JobWired
  <2> HIDE DEF n
  <2>3. ASSUME NEW d \in CNode, NEW m \in PoolKind, NEW a \in PoolIndex(m), Live(d), a < alloc[d][m]
        PROVE  caps'[d][At(m, a)] = caps[d][At(m, a)]
    <3>1. At(m, a) \in Slot
      BY PoolSizeType, PoolSlots DEF PoolIndex
    <3>2. ~(d = c /\ At(m, a) = At(k, alloc[c][k]))
      <4>1. At(m, a) = At(k, alloc[c][k]) => m = k /\ a = alloc[c][k]
        BY DEF At
      <4>2. a \in Int
        BY DEF PoolIndex
      <4> QED
        BY <2>3, <4>1, <4>2
    <3>3. d # n
      BY <2>2, <2>3
    <3> QED
      BY <2>1, <3>1, <3>2, <3>3 DEF Moves
  <2>4. TempKept(c)
    <3>1. TempSlot \in Slot /\ \A a : TempSlot # At(k, a)
      BY FixedSlots, NotPoolSlots DEF TempSlot, FixedArea, NotPool
    <3> QED
      BY <2>1, <3>1 DEF Moves, TempKept
  <2> QED
    BY <2>3, <2>4 DEF UsedKept, SameObject
<1>3. CASE UNCHANGED caps
  BY <1>3 DEF UsedKept, TempKept, SameObject
<1> QED
  BY <1>1, <1>2, <1>3

\* The same facts, over the whole pool.
LEMMA PoolFacts ==
    ASSUME Wired
    PROVE  /\ \A d \in CNode, k \in PoolKind : \A i \in PoolIndex(k) :
                 /\ At(k, i) \in Slot
                 /\ Full(caps[d][At(k, i)]) => caps[d][At(k, i)].kind = k
                 /\ i >= alloc[d][k] /\ Full(caps[d][At(k, i)]) =>
                       \A e \in CNode, s \in Slot :
                          SameObject(caps[e][s], caps[d][At(k, i)]) => e = d /\ s = At(k, i)
           /\ \A d \in CNode : \A i \in PoolIndex("tcb") :
                 i >= alloc[d]["tcb"] /\ Full(caps[d][At("tcb", i)]) => tcb[caps[d][At("tcb", i)].n].sc = None
<1>1. \A d \in CNode, k \in PoolKind : alloc[d][k] \in Nat
  BY DEF Wired, IInv, PdsOK
<1>2. \A d \in CNode, k \in PoolKind : \A i \in PoolIndex(k) :
         i >= alloc[d][k] => i \in alloc[d][k] .. PoolSize(k) - 1
  BY <1>1 DEF PoolIndex
<1>3. PoolFresh /\ PoolPlain /\ FreshThreads
  BY DEF Wired, PoolOK
<1>4. \A k \in PoolKind : \A i \in PoolIndex(k) : At(k, i) \in Slot
  BY PoolSizeType, PoolSlots DEF PoolIndex
<1>5. "tcb" \in PoolKind
  BY DEF PoolKind
<1> QED
  BY <1>2, <1>3, <1>4, <1>5 DEF PoolFresh, PoolPlain, FreshThreads, Full

LEMMA FreshIndex ==
    ASSUME IInv', NEW d \in CNode, NEW k \in PoolKind, NEW i \in alloc'[d][k] .. PoolSize(k) - 1
    PROVE  i \in PoolIndex(k) /\ i >= alloc'[d][k]
<1>1. alloc'[d][k] \in Nat
  BY DEF IInv, PdsOK
<1> QED
  BY <1>1 DEF PoolIndex

\* No thread that a pool offers is touched.
LEMMA OfferedThreads ==
    ASSUME Wired, NEW c \in CNode, ThreadStep(c), NEW d \in CNode, NEW i \in PoolIndex("tcb"),
           Full(caps[d][At("tcb", i)]), ~(d = c /\ i < alloc[c]["tcb"])
    PROVE  tcb'[caps[d][At("tcb", i)].n] = tcb[caps[d][At("tcb", i)].n]
<1> DEFINE x == caps[d][At("tcb", i)]
<1>1. x.n \in ObjNum("tcb") /\ x.kind = "tcb"
  BY DEF Wired, PoolOK, PoolPlain, PoolKind
<1>2. CASE tcb'[x.n] # tcb[x.n]
  <2>1. Building(c) /\ Full(Thread(c)) /\ x.n = Thread(c).n
    BY <1>1, <1>2 DEF ThreadStep
  <2>2. job[c].tcb \in PoolIndex("tcb") /\ job[c].tcb < alloc[c]["tcb"]
    BY <2>1, WiredObjects
  <2>3. SameObject(x, Thread(c))
    BY <1>1, <2>1, JobObjects DEF SameObject, MkCap
  <2>4. d = c /\ i = job[c].tcb
    BY <2>2, <2>3 DEF Wired, PoolOK, PoolDistinct, PoolKind, Thread
  <2> QED
    BY <2>2, <2>4
<1> QED
  BY <1>2

LEMMA PoolByCaps ==
    ASSUME Wired, IInv', NEW c \in CNode, CapsStep(c), ThreadStep(c), OnlyJobOf(c)
    PROVE  PoolOK'
<1> DEFINE P(d, k, i) == caps[d][At(k, i)]
           Q(d, k, i) == caps'[d][At(k, i)]
<1>1. \A d \in CNode, k \in PoolKind : \A i \in PoolIndex(k) :
         SameObject(Q(d, k, i), P(d, k, i)) /\ (k # "page" => Q(d, k, i) = P(d, k, i))
  BY PoolsKept
<1>2. PoolPlain'
  BY <1>1 DEF Wired, PoolOK, PoolPlain, SameObject, Full, PoolIndex
<1>3. PoolDistinct'
  <2> SUFFICES ASSUME NEW d \in CNode, NEW e \in CNode, NEW k \in PoolKind,
                      NEW i \in PoolIndex(k), NEW m \in PoolIndex(k),
                      Full(Q(d, k, i)), SameObject(Q(d, k, i), Q(e, k, m))
               PROVE  d = e /\ i = m
    BY DEF PoolDistinct, PoolIndex, Full, SameObject
  <2>1. SameObject(Q(d, k, i), P(d, k, i)) /\ SameObject(Q(e, k, m), P(e, k, m))
    BY <1>1
  <2>2. Full(P(d, k, i)) /\ SameObject(P(d, k, i), P(e, k, m))
    BY <2>1 DEF Full, SameObject
  <2> QED
    BY <2>2 DEF Wired, PoolOK, PoolDistinct
<1>4. \A d \in CNode, k \in PoolKind : alloc'[d][k] \in Nat /\ alloc'[d][k] >= alloc[d][k]
      /\ alloc[d][k] \in Nat
  BY AllocGrows DEF Wired, IInv, PdsOK
<1>5. PoolFresh'
  <2> SUFFICES ASSUME NEW d \in CNode, NEW k \in PoolKind, NEW i \in alloc'[d][k] .. PoolSize(k) - 1,
                      Full(Q(d, k, i))
               PROVE  /\ Q(d, k, i).kind = k
                      /\ \A x \in CNode, y \in Slot :
                            SameObject(caps'[x][y], Q(d, k, i)) => x = d /\ y = At(k, i)
    BY Zenon DEF PoolFresh, Full, SameObject
  <2>1. i \in PoolIndex(k) /\ i >= alloc'[d][k] /\ i >= alloc[d][k]
    BY <1>4, FreshIndex
  <2>2. SameObject(Q(d, k, i), P(d, k, i)) /\ Full(P(d, k, i))
    BY <1>1, <2>1 DEF SameObject, Full
  <2>3. Q(d, k, i).kind = k
    BY <2>1, <2>2, PoolFacts DEF SameObject
  <2>4. ASSUME NEW x \in CNode, NEW y \in Slot, SameObject(caps'[x][y], Q(d, k, i)) PROVE x = d /\ y = At(k, i)
    <3>1. SameObject(caps'[x][y], P(d, k, i)) /\ Full(caps'[x][y])
      BY <2>2, <2>4 DEF SameObject, Full
    <3>2. \/ SameObject(caps'[x][y], caps[x][y])
          \/ \E e \in CNode, r \in Slot : ~StillOffered(e, r) /\ SameObject(caps'[x][y], caps[e][r])
      BY <3>1 DEF CapsStep, SlotStep, SameObject
    <3>3. CASE SameObject(caps'[x][y], caps[x][y])
      <4>1. SameObject(caps[x][y], P(d, k, i))
        BY <3>1, <3>3 DEF SameObject
      <4> QED
        BY <2>1, <2>2, <4>1, PoolFacts
    <3>4. ASSUME NEW e \in CNode, NEW r \in Slot, ~StillOffered(e, r), SameObject(caps'[x][y], caps[e][r])
          PROVE  FALSE
      <4>1. SameObject(caps[e][r], P(d, k, i))
        BY <3>1, <3>4 DEF SameObject
      <4>2. e = d /\ r = At(k, i)
        BY <2>1, <2>2, <4>1, PoolFacts
      <4> QED
        BY <2>1, <3>4, <4>2 DEF StillOffered
    <3> QED
      BY <3>2, <3>3, <3>4
  <2> QED
    BY <2>3, <2>4
<1>6. FreshThreads'
  <2> SUFFICES ASSUME NEW d \in CNode, NEW i \in alloc'[d]["tcb"] .. PoolSize("tcb") - 1,
                      Full(Q(d, "tcb", i))
               PROVE  tcb'[Q(d, "tcb", i).n].sc = None
    BY DEF FreshThreads, Full
  <2>1. i \in PoolIndex("tcb") /\ i >= alloc'[d]["tcb"] /\ i >= alloc[d]["tcb"] /\ alloc[d]["tcb"] \in Nat
    BY <1>4, FreshIndex DEF PoolKind
  <2>2. Q(d, "tcb", i) = P(d, "tcb", i)
    BY <1>1, <2>1 DEF PoolKind
  <2>3. ~(d = c /\ i < alloc[c]["tcb"])
    BY <2>1 DEF PoolIndex
  <2>4. tcb'[P(d, "tcb", i).n] = tcb[P(d, "tcb", i).n]
    BY <2>1, <2>2, <2>3, OfferedThreads
  <2> QED
    BY <2>1, <2>2, <2>4, PoolFacts
<1> QED
  BY <1>2, <1>3, <1>5, <1>6 DEF PoolOK

LEMMA PoolByMove ==
    ASSUME Wired, IInv', NEW c \in CNode, MovePoolCap(c), OnlyJobOf(c)
    PROVE  PoolOK'
<1>1. UNCHANGED tcb
  BY DEF MovePoolCap, threads
<1>2. CASE UNCHANGED caps
  <2>1. CapsStep(c) /\ ThreadStep(c)
    BY <1>1, <1>2 DEF CapsStep, SlotStep, ThreadStep
  <2> QED
    BY <2>1, PoolByCaps
<1>3. CASE ~UNCHANGED caps
  <2> DEFINE n == NewRoot(c).n
  <2>1. PICK k \in PoolKind, i \in Nat :
           /\ alloc[c][k] \in PoolIndex(k) /\ alloc'[c][k] = alloc[c][k] + 1
           /\ Full(NewRoot(c)) /\ n \in CNode
           /\ Full(caps[c][At(k, alloc[c][k])])
           /\ ~Full(caps[n][At(k, i)])
           /\ Moves(caps, caps', n, At(k, i), c, At(k, alloc[c][k]))
    BY <1>3, MovePoolCapMoves
  <2> HIDE DEF n
  <2> DEFINE o == alloc[c][k]
             from == At(k, o)
             moved == caps[c][from]
             P(d, m, a) == caps[d][At(m, a)]
             Q(d, m, a) == caps'[d][At(m, a)]
             New(d, m, a) == d = n /\ m = k /\ a = i
             Gone(d, m, a) == d = c /\ m = k /\ a = o
  <2>2. \A d \in CNode, m \in PoolKind : \A a \in PoolIndex(m) :
           Q(d, m, a) = IF Gone(d, m, a) THEN NullCap ELSE IF New(d, m, a) THEN moved ELSE P(d, m, a)
    <3>1. \A m \in PoolKind : \A a \in PoolIndex(m) : At(m, a) \in Slot
      BY PoolFacts
    <3>2. \A m, a, b : At(m, a) = At(k, b) <=> m = k /\ a = b
      BY DEF At
    <3> QED
      BY <2>1, <3>1, <3>2 DEF Moves
  <2>3. /\ Full(moved) /\ ~Full(NullCap) /\ from \in Slot /\ o \in PoolIndex(k) /\ moved.kind = k
        /\ \A e \in CNode, s \in Slot : SameObject(caps[e][s], moved) => e = c /\ s = from
    <3>1. o >= alloc[c][k]
      BY <2>1 DEF PoolIndex
    <3> QED
      BY <2>1, <3>1, PoolFacts, NullCapGood DEF Full
  <2>4. \A d \in CNode, m \in PoolKind : alloc'[d][m] \in Nat /\ alloc'[d][m] >= alloc[d][m]
        /\ alloc[d][m] \in Nat
    BY AllocGrows DEF Wired, IInv, PdsOK
  <2>5. PoolPlain'
    <3>1. k # "page" => moved = MkCap(k, moved.n)
      BY <2>3 DEF Wired, PoolOK, PoolPlain
    <3>2. moved.n \in ObjNum(k)
      BY <2>3 DEF Wired, PoolOK, PoolPlain
    <3> SUFFICES ASSUME NEW d \in CNode, NEW m \in PoolKind, NEW a \in PoolIndex(m), Full(Q(d, m, a))
                 PROVE  /\ Q(d, m, a).kind = m /\ Q(d, m, a).n \in ObjNum(m)
                        /\ m # "page" => Q(d, m, a) = MkCap(m, Q(d, m, a).n)
      BY DEF PoolPlain, Full, PoolIndex
    <3>3. Q(d, m, a) = P(d, m, a) \/ (m = k /\ Q(d, m, a) = moved)
      BY <2>2, <2>3
    <3> HIDE DEF moved
    <3> QED
      BY <2>3, <3>1, <3>2, <3>3 DEF Wired, PoolOK, PoolPlain
  <2>6. PoolDistinct'
    <3> SUFFICES ASSUME NEW d \in CNode, NEW e \in CNode, NEW m \in PoolKind,
                        NEW a \in PoolIndex(m), NEW b \in PoolIndex(m),
                        Full(Q(d, m, a)), SameObject(Q(d, m, a), Q(e, m, b))
                 PROVE  d = e /\ a = b
      BY DEF PoolDistinct, PoolIndex, Full, SameObject
    <3>1. Full(Q(e, m, b))
      BY DEF Full, SameObject
    <3>2. ~Gone(d, m, a) /\ ~Gone(e, m, b)
      BY <2>2, <2>3, <3>1
    <3>3. \A x \in CNode : \A y \in PoolIndex(m) : SameObject(P(x, m, y), moved) => Gone(x, m, y)
      <4>1. \A y \in PoolIndex(m) : At(m, y) \in Slot /\ (At(m, y) = from => m = k /\ y = o)
        BY PoolFacts DEF At
      <4> HIDE DEF from, moved
      <4> QED
        BY <2>3, <4>1
    <3>4. CASE New(d, m, a) /\ New(e, m, b)
      BY <3>4
    <3>5. CASE New(d, m, a) /\ ~New(e, m, b)
      <4>1. Q(d, m, a) = moved /\ Q(e, m, b) = P(e, m, b)
        BY <2>2, <3>2, <3>5
      <4>2. SameObject(P(e, m, b), moved)
        BY <4>1 DEF SameObject
      <4> QED
        BY <3>2, <3>3, <4>2
    <3>6. CASE ~New(d, m, a) /\ New(e, m, b)
      <4>1. Q(d, m, a) = P(d, m, a) /\ Q(e, m, b) = moved
        BY <2>2, <3>2, <3>6, ZenonT(60)
      <4> QED
        BY <3>2, <3>3, <4>1
    <3>7. CASE ~New(d, m, a) /\ ~New(e, m, b)
      <4>1. Q(d, m, a) = P(d, m, a) /\ Q(e, m, b) = P(e, m, b)
        BY <2>2, <3>2, <3>7
      <4> QED
        BY <4>1 DEF Wired, PoolOK, PoolDistinct
    <3> QED
      BY <3>4, <3>5, <3>6, <3>7
  <2>7. PoolFresh'
    <3> SUFFICES ASSUME NEW d \in CNode, NEW m \in PoolKind, NEW a \in alloc'[d][m] .. PoolSize(m) - 1,
                        Full(Q(d, m, a))
                 PROVE  /\ Q(d, m, a).kind = m
                        /\ \A x \in CNode, y \in Slot :
                              SameObject(caps'[x][y], Q(d, m, a)) => x = d /\ y = At(m, a)
      BY Zenon DEF PoolFresh, Full, SameObject
    <3>1. a \in PoolIndex(m) /\ a >= alloc'[d][m] /\ a >= alloc[d][m]
      BY <2>4, FreshIndex
    <3>2. Q(d, m, a).kind = m
      BY <2>5, <3>1 DEF PoolPlain, Full, PoolIndex
    <3>3. \A x \in CNode, y \in Slot :
             caps'[x][y] = IF x = c /\ y = from THEN NullCap
                        ELSE IF x = n /\ y = At(k, i) THEN moved ELSE caps[x][y]
      BY <2>1 DEF Moves
    <3>4. ASSUME NEW x \in CNode, NEW y \in Slot, SameObject(caps'[x][y], Q(d, m, a)) PROVE x = d /\ y = At(m, a)
      <4>1. Full(caps'[x][y]) /\ ~(x = c /\ y = from)
        BY <2>3, <3>3, <3>4 DEF Full, SameObject
      <4>2. ~Gone(d, m, a)
        BY <2>2, <2>3, <3>1
      <4>3. CASE x = n /\ y = At(k, i)
        <5>1. caps'[x][y] = moved
          BY <3>3, <4>1, <4>3
        <5>2. CASE New(d, m, a)
          BY <4>3, <5>2
        <5>3. CASE ~New(d, m, a)
          <6>1. Q(d, m, a) = P(d, m, a)
            BY <2>2, <3>1, <4>2, <5>3
          <6>2. SameObject(P(d, m, a), moved)
            BY <3>4, <5>1, <6>1 DEF SameObject
          <6>3. d = c /\ At(m, a) = from
            BY <2>3, <3>1, <6>2, PoolFacts
          <6> QED
            BY <4>2, <6>3 DEF At
        <5> QED
          BY <5>2, <5>3
      <4>4. CASE ~(x = n /\ y = At(k, i))
        <5>1. caps'[x][y] = caps[x][y]
          BY <3>3, <4>1, <4>4
        <5>2. CASE New(d, m, a)
          <6>1. Q(d, m, a) = moved
            BY <2>2, <3>1, <4>2, <5>2
          <6>2. SameObject(caps[x][y], moved)
            BY <3>4, <5>1, <6>1
          <6> QED
            BY <2>3, <4>1, <6>2
        <5>3. CASE ~New(d, m, a)
          <6>1. Q(d, m, a) = P(d, m, a)
            BY <2>2, <3>1, <4>2, <5>3
          <6> QED
            BY <3>1, <3>4, <5>1, <6>1, PoolFacts
        <5> QED
          BY <5>2, <5>3
      <4> QED
        BY <4>3, <4>4
    <3> QED
      BY <3>2, <3>4
  <2>8. FreshThreads'
    <3> SUFFICES ASSUME NEW d \in CNode, NEW a \in alloc'[d]["tcb"] .. PoolSize("tcb") - 1,
                        Full(Q(d, "tcb", a))
                 PROVE  tcb[Q(d, "tcb", a).n].sc = None
      BY <1>1 DEF FreshThreads, Full
    <3>1. "tcb" \in PoolKind
      BY DEF PoolKind
    <3>2. a \in PoolIndex("tcb") /\ a >= alloc[d]["tcb"]
      BY <2>4, <3>1, FreshIndex
    <3>3. Q(d, "tcb", a) = P(d, "tcb", a) \/ (k = "tcb" /\ Q(d, "tcb", a) = moved)
      BY <2>2, <2>3, <3>1, <3>2
    <3>4. k = "tcb" => tcb[moved.n].sc = None
      <4>1. o >= alloc[c][k]
        BY <2>3 DEF PoolIndex
      <4> QED
        BY <2>3, <4>1, PoolFacts
    <3> QED
      BY <3>2, <3>3, <3>4, PoolFacts
  <2> QED
    BY <2>5, <2>6, <2>7, <2>8 DEF PoolOK
<1> QED
  BY <1>2, <1>3

----------------------------------------------------------------------------
(* What a step of one PD keeps of the others *)

Kept(c) ==
    /\ \A d \in CNode \ {c} : job'[d] = job[d] /\ alloc'[d] = alloc[d]
    /\ \A d \in CNode, k \in PoolKind : alloc'[d][k] \in Nat /\ alloc'[d][k] >= alloc[d][k]
    /\ HandlesKept /\ UsedKept /\ TempKept(c) /\ ThreadStep(c) /\ ImageStep(c)

LEMMA StepFrame ==
    ASSUME Wired, NEW c \in CNode, PdCreateStep(c) PROVE Kept(c)
<1>1. IInv /\ [Next]_vars
  BY DEF Wired, Next
<1>2. HandlesKept
  BY <1>1, NextKeepsHandles
<1>3. OnlyJobOf(c) /\ UsedKept /\ TempKept(c) /\ ThreadStep(c) /\ ImageStep(c)
  BY StepJob, UsedSteps, ThreadSteps, ImageSteps
<1> QED
  BY <1>1, <1>2, <1>3, AllocGrows DEF Kept

\* A call that has only begun has nothing to disturb.
LEMMA EnterFrame ==
    ASSUME Wired, NEW c \in CNode, NEW p \in Programs, NEW id \in PdId, Enter(c, p, id)
    PROVE  Kept(c) /\ UNCHANGED <<caps, tcb, image, frames>> /\ OnlyJobOf(c) /\ CapsStep(c)
<1>1. UNCHANGED <<caps, tcb, image, frames>>
  BY DEF Enter, threads, space
<1>2. IInv /\ OnlyJobOf(c)
  BY EnterJob DEF Wired
<1>3. HandlesKept /\ UsedKept /\ TempKept(c) /\ ThreadStep(c) /\ ImageStep(c) /\ CapsStep(c)
  BY <1>1 DEF HandlesKept, UsedKept, TempKept, ThreadStep, ImageStep, SameObject, CapsStep, SlotStep
<1> QED
  BY <1>1, <1>2, <1>3, AllocGrows DEF Kept

----------------------------------------------------------------------------
(* The PDs that run *)

\* Two calls never work on the same object.
LEMMA ObjectsApart ==
    ASSUME Wired, NEW c \in CNode, NEW d \in CNode \ {c}
    PROVE  /\ Active(c) /\ Active(d) /\ Full(NewRoot(d)) => NewRoot(c).n # NewRoot(d).n \/ ~Full(NewRoot(c))
           /\ Building(c) /\ Building(d) /\ Full(Thread(c)) /\ Full(Thread(d)) => Thread(c).n # Thread(d).n
           /\ Building(c) /\ Building(d) /\ Full(NewSpace(c)) /\ Full(NewSpace(d)) =>
                 NewSpace(c).n # NewSpace(d).n
<1>1. PoolDistinct /\ PoolPlain
  BY DEF Wired, PoolOK
<1>2. ASSUME Active(c), Active(d), Full(NewRoot(d)), Full(NewRoot(c)) PROVE NewRoot(c).n # NewRoot(d).n
  <2>1. job[c].cnode \in PoolIndex("cnode") /\ job[d].cnode \in PoolIndex("cnode")
    BY <1>2, WiredJob
  <2>2. NewRoot(c).kind = "cnode" /\ NewRoot(d).kind = "cnode"
    BY <1>1, <1>2, <2>1, PoolFacts DEF NewRoot, PoolKind
  <2> QED
    BY <1>1, <1>2, <2>1, <2>2 DEF PoolDistinct, NewRoot, SameObject, PoolKind
<1>3. ASSUME Building(c), Building(d), Full(Thread(c)), Full(Thread(d)) PROVE Thread(c).n # Thread(d).n
  <2>1. job[c].tcb \in PoolIndex("tcb") /\ job[d].tcb \in PoolIndex("tcb")
    BY <1>3, WiredObjects
  <2>2. SameObject(Thread(c), Thread(d)) \/ Thread(c).n # Thread(d).n
    BY <1>3, JobObjects DEF SameObject, MkCap
  <2> QED
    BY <1>1, <1>3, <2>1, <2>2 DEF PoolDistinct, Thread, PoolKind
<1>4. ASSUME Building(c), Building(d), Full(NewSpace(c)), Full(NewSpace(d)) PROVE NewSpace(c).n # NewSpace(d).n
  <2>1. job[c].vspace \in PoolIndex("vspace") /\ job[d].vspace \in PoolIndex("vspace")
    BY <1>4, WiredObjects
  <2>2. SameObject(NewSpace(c), NewSpace(d)) \/ NewSpace(c).n # NewSpace(d).n
    BY <1>4, JobObjects DEF SameObject, MkCap
  <2> QED
    BY <1>1, <1>4, <2>1, <2>2 DEF PoolDistinct, NewSpace, PoolKind
<1> QED
  BY <1>2, <1>3, <1>4

LEMMA LiveUntouched ==
    ASSUME Wired, NEW c \in CNode, ThreadStep(c), ImageStep(c), NEW d \in CNode, Live(d)
    PROVE  image'[d] = image[d] /\ tcb'[image[d].tcb] = tcb[image[d].tcb] /\ SelfKnown(d)
           /\ image[d].tcb \in ObjNum("tcb")
<1>1. SelfKnown(d) /\ image[d].tcb \in ObjNum("tcb")
  BY DEF Wired, LiveOK, SelfKnown
<1>2. CASE image'[d] # image[d]
  <2>1. Bound(c) /\ d = NewRoot(c).n
    BY <1>2 DEF ImageStep
  <2>2. Full(NewRoot(c)) /\ Active(c)
    BY <2>1, BoundObjects
  <2> QED
    BY <2>1, <2>2 DEF Wired, JobWired
<1>3. CASE tcb'[image[d].tcb] # tcb[image[d].tcb]
  <2>1. Building(c) /\ Full(Thread(c)) /\ image[d].tcb = Thread(c).n
    BY <1>1, <1>3 DEF ThreadStep
  <2> QED
    BY <2>1 DEF Wired, JobWired, ObjectsFree
<1> QED
  BY <1>1, <1>2, <1>3

LEMMA InputIsHandle == Handle(InputSlot)
<1>1. InputSlot # TempSlot /\ \A k \in PoolKind \cup {"IRQ", "SHARED"} : \A i : InputSlot # At(k, i)
  BY DEF InputSlot, TempSlot, At, PoolKind
<1> QED
  BY <1>1, FixedSlots DEF Handle

\* A PD that a step starts is the one that its call has wired.
LEMMA StartedKnown ==
    ASSUME Wired, IInv', NEW c \in CNode, Kept(c), NEW d \in CNode, image'[d] # image[d]
    PROVE  /\ Bound(c) /\ d = NewRoot(c).n /\ Live(d)' /\ ~Live(d)
           /\ image'[d].tcb = Thread(c).n /\ tcb'[Thread(c).n].vspace = NewSpace(c).n
           /\ SelfKnown(d)' /\ SelfSignalled(d)'
<1> DEFINE t == Thread(c).n
           id == job[c].id
<1>1. /\ Bound(c) /\ d = NewRoot(c).n
      /\ image'[d] = [id |-> id, tcb |-> t, program |-> Program(c)]
      /\ tcb' = [tcb EXCEPT ![t].running = TRUE]
  BY DEF Kept, ImageStep
<1>2. Live(d)' /\ image'[d].id = id /\ image'[d].tcb = t /\ id \in PdId
  <2>1. id \in PdId /\ id \in Nat
    BY <1>1, BoundObjects, WiredJob, CapSpaceAssumption
  <2>2. image'[d].id # NoImage.id
    BY <1>1, <2>1 DEF NoImage, None
  <2> QED
    BY <1>1, <2>1, <2>2 DEF Live
<1>3. ~Live(d)
  BY <1>1, BoundObjects DEF Wired, JobWired
<1>4. /\ Full(Thread(c)) /\ t \in ObjNum("tcb") /\ Thread(c) = MkCap("tcb", t)
      /\ NewRoot(c) = MkCap("cnode", d) /\ Ntfn(c) = MkCap("ntfn", Ntfn(c).n)
      /\ Sc(c) = MkCap("sc", Sc(c).n) /\ NewSpace(c) = MkCap("vspace", NewSpace(c).n)
      /\ Full(NewRoot(c)) /\ Full(Ntfn(c)) /\ Full(Sc(c)) /\ Full(NewSpace(c))
      /\ NewSpace(c).n \in VSpace
  BY <1>1, BoundObjects, JobObjects DEF VSpace
<1>5. /\ tcb'[t].cspace = d /\ tcb'[t].vspace = NewSpace(c).n /\ tcb'[t].bound = Ntfn(c).n
      /\ tcb'[t].running /\ tcb'[t].sc = tcb[t].sc
  <2>1. tcb \in [ObjNum("tcb") -> Tcb] /\ tcb[t].cspace = d /\ tcb[t].vspace = NewSpace(c).n
        /\ tcb[t].bound = Ntfn(c).n
    BY <1>1, BoundObjects, WiredTypes
  <2>2. tcb'[t] = [tcb[t] EXCEPT !.running = TRUE] /\ tcb[t] \in Tcb
    BY <1>1, <1>4, <2>1
  <2> QED
    BY <2>1, <2>2 DEF Tcb
<1>6. tcb[t].sc # None => tcb[t].sc = Sc(c).n
  <2>1. ObjectsFree(c)
    BY <1>1, BoundObjects DEF Wired, JobWired
  <2> QED
    BY <1>4, <2>1 DEF ObjectsFree
<1>7. /\ caps'[d][InputSlot] = Ntfn(c) /\ caps'[d][At("CHAN", id)] = Ntfn(c)
      /\ caps'[d][At("TCB", id)] = Thread(c) /\ caps'[d][At("SC", id)] = Sc(c)
      /\ caps'[d][At("CNODE", id)] = NewRoot(c) /\ caps'[d][At("VSPACE", id)] = NewSpace(c)
  <2>1. /\ caps[d][InputSlot] = Ntfn(c) /\ caps[d][At("CHAN", id)] = Ntfn(c)
        /\ caps[d][At("TCB", id)] = Thread(c) /\ caps[d][At("SC", id)] = Sc(c)
        /\ caps[d][At("CNODE", id)] = NewRoot(c) /\ caps[d][At("VSPACE", id)] = NewSpace(c)
    BY <1>1, BoundObjects
  <2>2. Handle(InputSlot) /\ \A a \in PdArea : Handle(At(a, id))
    BY <1>2, PdSlotIsHandle, InputIsHandle
  <2>3. \A s : Handle(s) /\ Full(caps[d][s]) => caps'[d][s] = caps[d][s]
    BY DEF Kept, HandlesKept, Full, Handle
  <2> QED
    BY <1>4, <2>1, <2>2, <2>3 DEF PdArea
<1>8. SelfKnown(d)' /\ SelfSignalled(d)'
  BY <1>1, <1>2, <1>4, <1>5, <1>6, <1>7 DEF SelfKnown, SelfSignalled, Full
<1> QED
  BY <1>1, <1>2, <1>3, <1>5, <1>8

\* One that ran before keeps what it has.
LEMMA LiveKept ==
    ASSUME Wired, NEW c \in CNode, Kept(c), NEW d \in CNode, Live(d)
    PROVE  SelfKnown(d)' /\ (SelfSignalled(d) => SelfSignalled(d)')
<1> DEFINE id == image[d].id
           t == image[d].tcb
<1>1. image'[d] = image[d] /\ tcb'[t] = tcb[t] /\ SelfKnown(d)
  BY LiveUntouched DEF Kept
<1>2. id \in PdId
  BY <1>1 DEF SelfKnown
<1>3. \A s \in {InputSlot, At("CHAN", id), At("TCB", id), At("SC", id), At("CNODE", id), At("VSPACE", id)} :
         Full(caps[d][s]) => caps'[d][s] = caps[d][s]
  <2>1. \A s : Handle(s) /\ Full(caps[d][s]) => caps'[d][s] = caps[d][s]
    BY DEF Kept, HandlesKept, Full, Handle
  <2>2. Handle(InputSlot) /\ \A a \in PdArea : Handle(At(a, id))
    BY <1>2, PdSlotIsHandle, InputIsHandle
  <2> QED
    BY <2>1, <2>2 DEF PdArea
<1>4. \A k \in {"tcb", "sc", "cnode", "vspace", "ntfn"} : \A n : Full(MkCap(k, n))
  BY DEF Full, MkCap
<1>5. SelfKnown(d)'
  BY <1>1, <1>2, <1>3, <1>4 DEF SelfKnown
<1>6. ASSUME SelfSignalled(d) PROVE SelfSignalled(d)'
  BY <1>1, <1>2, <1>3, <1>4, <1>6 DEF SelfSignalled
<1> QED
  BY <1>5, <1>6

LEMMA LiveSteps ==
    ASSUME Wired, IInv', NEW c \in CNode, Kept(c) PROVE LiveOK'
<1>1. \A d \in Given : d \in CNode /\ Live(d)
  BY ObjectNumbers DEF Wired, LiveOK, Given, CNode, PoolKind
<1>2. \A d \in CNode : Live(d) => image'[d] = image[d]
  BY LiveUntouched DEF Kept
<1>3. \A d \in Given : Live(d)'
  BY <1>1, <1>2 DEF Live
<1>4. ASSUME NEW d \in CNode, Live(d)'
      PROVE  SelfKnown(d)' /\ (d \notin Given => SelfSignalled(d)')
  <2>1. CASE Live(d)
    <3>1. d \notin Given => SelfSignalled(d)
      BY <2>1 DEF Wired, LiveOK
    <3> QED
      BY <2>1, <3>1, LiveKept
  <2>2. CASE ~Live(d)
    <3>1. image'[d] # image[d]
      BY <1>4, <2>2 DEF Live
    <3> QED
      BY <3>1, StartedKnown
  <2> QED
    BY <2>1, <2>2
<1> QED
  BY <1>3, <1>4 DEF LiveOK, Given

----------------------------------------------------------------------------
(* The calls that go on *)

\* A step keeps what a call has taken, and what it has copied.
LEMMA RootStays ==
    ASSUME Wired, NEW c \in CNode, Kept(c), NEW d \in CNode, Active(d),
           job'[d].cnode = job[d].cnode
    PROVE  NewRoot(d)' = NewRoot(d)
<1>1. job[d].cnode \in PoolIndex("cnode") /\ job[d].cnode < alloc[d]["cnode"] /\ Live(d)
  BY WiredJob, OwnIsOwn
<1> QED
  BY <1>1 DEF Kept, UsedKept, NewRoot, PoolKind

LEMMA ObjectsStay ==
    ASSUME Wired, NEW c \in CNode, Kept(c), NEW d \in CNode, Building(d),
           SameObjects(job[d], job'[d])
    PROVE  /\ Thread(d)' = Thread(d) /\ Ntfn(d)' = Ntfn(d) /\ Sc(d)' = Sc(d)
           /\ NewSpace(d)' = NewSpace(d) /\ NewRoot(d)' = NewRoot(d)
<1>1. Active(d) /\ Live(d)
  BY WiredObjects, OwnIsOwn
<1>2. NewRoot(d)' = NewRoot(d)
  BY <1>1, RootStays DEF SameObjects
<1>3. ASSUME NEW k \in {"tcb", "ntfn", "sc", "vspace"}, NEW i \in PoolIndex(k), i < alloc[d][k]
      PROVE  caps'[d][At(k, i)] = caps[d][At(k, i)]
  BY <1>1, <1>3 DEF Kept, UsedKept, PoolKind
<1>4. /\ job[d].tcb \in PoolIndex("tcb") /\ job[d].tcb < alloc[d]["tcb"]
      /\ job[d].ntfn \in PoolIndex("ntfn") /\ job[d].ntfn < alloc[d]["ntfn"]
      /\ job[d].sc \in PoolIndex("sc") /\ job[d].sc < alloc[d]["sc"]
      /\ job[d].vspace \in PoolIndex("vspace") /\ job[d].vspace < alloc[d]["vspace"]
  BY WiredObjects
<1> QED
  BY <1>2, <1>3, <1>4 DEF Thread, Ntfn, Sc, NewSpace, SameObjects

LEMMA RowStays ==
    ASSUME Wired, NEW c \in CNode, Kept(c), NEW d \in CNode, Building(d),
           SameObjects(job[d], job'[d]), job'[d].id = job[d].id,
           NEW m \in 1 .. 13, RowHeld(d, m)
    PROVE  RowHeld(d, m)'
<1> DEFINE id == job[d].id
           new == NewRoot(d).n
<1>1. /\ Thread(d)' = Thread(d) /\ Ntfn(d)' = Ntfn(d) /\ Sc(d)' = Sc(d)
      /\ NewSpace(d)' = NewSpace(d) /\ NewRoot(d)' = NewRoot(d)
  BY ObjectsStay
<1>2. id \in PdId
  BY WiredObjects, WiredJob
<1>3. Full(NewRoot(d)) => new \in CNode
  BY JobObjects
<1>4. \A e \in CNode : \A s, x : Handle(s) /\ Holds(e, s, x) => Full(x) /\ caps'[e][s] = x
  BY DEF Kept, HandlesKept, Holds, Full, Handle
<1>5. Handle(InputSlot) /\ \A a \in PdArea : Handle(At(a, id))
  BY <1>2, PdSlotIsHandle, InputIsHandle
<1>6. \A s, x : Handle(s) /\ InNew(d, s, x) => Full(NewRoot(d)) /\ Full(x) /\ caps'[new][s] = x
  BY <1>3, <1>4 DEF InNew
<1> QED
  BY <1>1, <1>4, <1>5, <1>6 DEF RowHeld, Holds, InNew, PdArea, Full

LEMMA CopiesStay ==
    ASSUME Wired, NEW c \in CNode, Kept(c), NEW d \in CNode, Building(d),
           SameObjects(job[d], job'[d]), job'[d].id = job[d].id,
           \A m \in 1 .. 13 : Copied(d, m)' => Copied(d, m)
    PROVE  FixedCopied(d)'
<1>1. FixedCopied(d)
  BY DEF Wired, JobWired
<1>2. \A m \in 1 .. 13 : RowHeld(d, m) => RowHeld(d, m)'
  BY RowStays
<1> QED
  BY <1>1, <1>2 DEF FixedCopied

LEMMA FreeStays ==
    ASSUME Wired, IInv', NEW c \in CNode, Kept(c), NEW d \in CNode, Building(d),
           SameObjects(job[d], job'[d]), alloc'[d]["sc"] = alloc[d]["sc"],
           d # c \/ UNCHANGED image,
           Full(Thread(d)) =>
              \/ tcb'[Thread(d).n].sc = tcb[Thread(d).n].sc
              \/ Full(Sc(d)) /\ tcb'[Thread(d).n].sc = Sc(d).n
    PROVE  ObjectsFree(d)'
<1> DEFINE T == Thread(d)
<1>1. /\ Thread(d)' = Thread(d) /\ Sc(d)' = Sc(d) /\ NewSpace(d)' = NewSpace(d)
  BY ObjectsStay
<1>2. ObjectsFree(d)
  BY DEF Wired, JobWired
<1>3. /\ job'[d].tcb < alloc'[d]["tcb"] /\ job'[d].ntfn < alloc'[d]["ntfn"]
      /\ job'[d].vspace < alloc'[d]["vspace"] /\ alloc'[d]["sc"] = job'[d].sc + 1
  <2>1. \A k \in {"tcb", "ntfn", "vspace"} :
           alloc'[d][k] \in Nat /\ alloc'[d][k] >= alloc[d][k] /\ alloc[d][k] \in Nat
    BY DEF Kept, PoolKind, Wired, IInv, PdsOK
  <2>2. job[d].tcb \in Nat /\ job[d].ntfn \in Nat /\ job[d].vspace \in Nat
    BY WiredObjects DEF PoolIndex
  <2> QED
    BY <1>2, <2>1, <2>2 DEF ObjectsFree, SameObjects
<1>4. ASSUME NEW e \in CNode, Live(e)'
      PROVE  \/ Live(e) /\ image'[e] = image[e] /\ tcb'[image[e].tcb] = tcb[image[e].tcb]
             \/ /\ d # c /\ Bound(c) /\ image'[e].tcb = Thread(c).n
                /\ tcb'[Thread(c).n].vspace = NewSpace(c).n
  <2>1. CASE Live(e)
    BY <2>1, LiveUntouched DEF Kept
  <2>2. CASE ~Live(e)
    <3>1. image'[e] # image[e]
      BY <1>4, <2>2 DEF Live
    <3>2. d # c
      BY <3>1
    <3> QED
      BY <3>1, <3>2, StartedKnown
  <2> QED
    BY <2>1, <2>2
<1>5. d # c /\ Bound(c) => /\ Building(c) /\ Full(Thread(c)) /\ Full(NewSpace(c))
  BY BoundObjects
<1>6. ASSUME Full(T), NEW e \in CNode, Live(e)' PROVE image'[e].tcb # T.n
  <2>1. Live(e) => image[e].tcb # T.n
    BY <1>2, <1>6 DEF ObjectsFree
  <2>2. d # c /\ Bound(c) => Thread(c).n # T.n
    BY <1>5, <1>6, ObjectsApart
  <2> QED
    BY <1>4, <1>6, <2>1, <2>2
<1>7. ASSUME Full(NewSpace(d)), NEW e \in CNode, Live(e)'
      PROVE  tcb'[image'[e].tcb].vspace # NewSpace(d).n
  <2>1. Live(e) => tcb[image[e].tcb].vspace # NewSpace(d).n
    BY <1>2, <1>7 DEF ObjectsFree
  <2>2. d # c /\ Bound(c) => NewSpace(c).n # NewSpace(d).n
    BY <1>5, <1>7, ObjectsApart
  <2> QED
    BY <1>4, <1>7, <2>1, <2>2
<1>8. Full(T) => tcb'[T.n].sc = None \/ (Full(Sc(d)) /\ tcb'[T.n].sc = Sc(d).n)
  BY <1>2 DEF ObjectsFree
<1> HIDE DEF T
<1>9. Full(Thread(d)') => /\ \A e \in CNode : Live(e)' => image'[e].tcb # Thread(d)'.n
                          /\ \/ tcb'[Thread(d)'.n].sc = None
                             \/ Full(Sc(d)') /\ tcb'[Thread(d)'.n].sc = Sc(d)'.n
  BY <1>1, <1>6, <1>8 DEF T
<1>10. Full(NewSpace(d)') =>
           \A e \in CNode : Live(e)' => tcb'[image'[e].tcb].vspace # NewSpace(d)'.n
  BY <1>1, <1>7
<1> QED
  BY <1>3, <1>9, <1>10 DEF ObjectsFree, Full

\* The steps of one PD disturb no other PD's call.
LEMMA OthersStay ==
    ASSUME Wired, IInv', NEW c \in CNode, Kept(c), NEW d \in CNode \ {c}
    PROVE  JobWired(d)' /\ TempOK(d)'
<1>1. JobWired(d) /\ TempOK(d) /\ job'[d] = job[d] /\ alloc'[d] = alloc[d]
  BY DEF Wired, Kept
<1>2. Live(d) => Live(d)' /\ image'[d] = image[d] /\ tcb'[image[d].tcb] = tcb[image[d].tcb]
  BY LiveUntouched DEF Kept, Live
<1>3. ~Live(d)' => job'[d].pc = "idle"
  BY <1>1, <1>2 DEF JobWired
<1>4. ASSUME Active(d)'
      PROVE  /\ job'[d].cnode < alloc'[d]["cnode"]
             /\ Full(NewRoot(d)') => ~Live(NewRoot(d).n)'
  <2>1. Active(d)
    BY <1>1, <1>4 DEF Active
  <2>2. NewRoot(d)' = NewRoot(d)
    BY <1>1, <2>1, RootStays
  <2>3. ASSUME Full(NewRoot(d)), image'[NewRoot(d).n] # image[NewRoot(d).n] PROVE FALSE
    <3>1. Bound(c) /\ NewRoot(d).n = NewRoot(c).n
      <4>1. NewRoot(d).n \in CNode
        BY <2>1, <2>3, RootObject
      <4> QED
        BY <2>3, <4>1 DEF Kept, ImageStep
    <3>2. Active(c) /\ Full(NewRoot(c))
      BY <3>1, BoundObjects
    <3> QED
      BY <2>1, <2>3, <3>1, <3>2, ObjectsApart
  <2> QED
    BY <1>1, <2>1, <2>2, <2>3 DEF JobWired, Live
<1>5. SameObjects(job[d], job'[d])
  BY <1>1 DEF SameObjects
<1>6. ASSUME Building(d), Full(Thread(d)) PROVE tcb'[Thread(d).n] = tcb[Thread(d).n]
  <2>1. Thread(d).n \in ObjNum("tcb")
    BY <1>6, JobObjects
  <2> QED
    BY <1>6, <2>1, ObjectsApart DEF Kept, ThreadStep
<1>7. Building(d)' => ObjectsFree(d)'
  <2>1. Building(d)' => Building(d)
    BY <1>1 DEF Building
  <2> QED
    BY <1>1, <1>5, <1>6, <2>1, FreeStays
<1>8. FixedCopied(d)'
  <2>1. CASE ~Building(d)
    BY <1>1, <2>1 DEF FixedCopied, Copied, Building
  <2>2. CASE Building(d)
    <3>1. \A m : Copied(d, m)' <=> Copied(d, m)
      BY <1>1 DEF Copied, Building
    <3> QED
      BY <1>1, <1>5, <2>2, <3>1, CopiesStay
  <2> QED
    BY <2>1, <2>2
<1>9. ThreadSet(d)'
  <2>1. (Spaced(d)' <=> Spaced(d)) /\ (Bound(d)' <=> Bound(d))
    BY <1>1 DEF Spaced, Bound, Building
  <2>2. ASSUME Spaced(d)
        PROVE  /\ Thread(d)' = Thread(d) /\ Ntfn(d)' = Ntfn(d) /\ NewSpace(d)' = NewSpace(d)
               /\ NewRoot(d)' = NewRoot(d) /\ tcb'[Thread(d).n] = tcb[Thread(d).n]
    <3>1. Building(d) /\ Copied(d, 6)
      BY <2>2 DEF Spaced, Copied
    <3>2. Full(Thread(d))
      BY <1>1, <3>1 DEF JobWired, FixedCopied, RowHeld, InNew, Holds
    <3> QED
      BY <1>5, <1>6, <3>1, <3>2, ObjectsStay
  <2>3. Bound(d) => Spaced(d)
    BY DEF Bound
  <2> QED
    BY <1>1, <2>1, <2>2, <2>3 DEF JobWired, ThreadSet
<1>10. MapsForNew(d)' => ~job'[d].own
  BY <1>1 DEF MapsForNew, JobWired
<1>11. JobWired(d)'
  BY <1>3, <1>4, <1>7, <1>8, <1>9, <1>10 DEF JobWired, Full, Live
<1>12. TempOK(d)'
  <2>1. caps'[d][TempSlot] = caps[d][TempSlot]
    BY DEF Kept, TempKept
  <2> QED
    BY <1>1, <1>2, <2>1 DEF TempOK
<1> QED
  BY <1>11, <1>12

----------------------------------------------------------------------------
(* Where a call stands after its own step *)

\* The call goes on with the same objects, under the same id.
Follows(j, new) == SameObjects(j, new) /\ new.id = j.id

LatePc == {"segment", "tables", "page", "window", "ipcmap", "ipcbuffer", "right",
           "shared", "irqtarget", "irqmove"}

ForNew(j) ==
    \/ j.pc \in {"page", "ipcmap", "shared"}
    \/ j.pc = "tables" /\ j.then \in {"page", "ipcmap", "shared"}

\* A call that has bound the notification ends, or goes on with its pages and
\* access rights, which are mapped for the new PD.
LateJob(c) ==
    \/ job'[c].pc \in {"idle", "crashed"}
    \/ /\ Follows(job[c], job'[c]) /\ job'[c].pc \in LatePc
       /\ ForNew(job'[c]) => ~job'[c].own

LEMMA StepAt ==
    ASSUME Wired, NEW c \in CNode
    PROVE  /\ \A new : Step(c, new) => job'[c] = new
           /\ job[c] \in Job
  BY WiredTypes DEF Step

LEMMA StepPc ==
    ASSUME Wired, NEW c \in CNode, NEW pc, Goto(c, pc)
    PROVE  /\ Follows(job[c], job'[c]) /\ job'[c].pc = pc
           /\ job'[c].own = job[c].own /\ job'[c].then = job[c].then
<1>1. job'[c] = [job[c] EXCEPT !.pc = pc] /\ job[c] \in Job
  BY StepAt DEF Goto
<1> QED
  BY <1>1 DEF Job, Follows, SameObjects

LEMMA StepEnds ==
    ASSUME Wired, NEW c \in CNode, Fail(c) \/ Crash(c)
    PROVE  job'[c].pc \in {"idle", "crashed"} /\ (Fail(c) => job'[c].pc = "idle")
<1>1. ASSUME Fail(c) PROVE job'[c].pc = "idle"
  <2>1. job'[c] = [job[c] EXCEPT !.pc = "idle", !.ret = -1] /\ job[c] \in Job
    BY <1>1, StepAt DEF Fail
  <2> QED
    BY <2>1 DEF Job
<1> QED
  BY <1>1, StepPc DEF Crash

LEMMA StepTables ==
    ASSUME Wired, NEW c \in CNode, NEW page, NEW own, NEW then,
           Step(c, Tables(job[c], page, own, then))
    PROVE  Follows(job[c], job'[c]) /\ job'[c].pc = "tables" /\ job'[c].own = own
           /\ job'[c].then = then
<1>1. job'[c] = Tables(job[c], page, own, then) /\ job[c] \in Job
  BY StepAt
<1> QED
  BY <1>1 DEF Job, Follows, SameObjects, Tables

LEMMA NextRightFollows ==
    ASSUME NEW j \in Job PROVE Follows(j, NextRight(j)) /\ NextRight(j).pc = "right"
  BY DEF Job, Follows, SameObjects, NextRight

LEMMA NextPageJob ==
    ASSUME Wired, NEW c \in CNode, NextPage(c) PROVE LateJob(c)
<1>1. CASE Fail(c)
  BY <1>1, StepEnds DEF LateJob
<1>2. CASE \E page, then : then \in {"page", "ipcmap"} /\ Step(c, Tables(job[c], page, FALSE, then))
  BY <1>2, StepTables DEF LateJob, LatePc, ForNew
<1> QED
  BY <1>1, <1>2 DEF NextPage

LEMMA MapTableJob ==
    ASSUME Wired, NEW c \in CNode, MapTable(c) PROVE LateJob(c)
<1> DEFINE j == job[c]
<1>1. CASE Fail(c)
  BY <1>1, StepEnds DEF LateJob
<1>2. ForNew(j) => ~j.own
  BY DEF Wired, JobWired, MapsForNew, ForNew
<1>3. j \in Job /\ j.pc = "tables" /\ j.then \in {"page", "ipcmap", "window", "shared"}
  BY JobType DEF Wired, MapTable, JobOK
<1>4. CASE Step(c, [j EXCEPT !.level = @ + 1])
  <2>1. job'[c] = [j EXCEPT !.level = @ + 1]
    BY <1>4, StepAt
  <2>2. Follows(j, job'[c]) /\ job'[c].pc = "tables" /\ job'[c].own = j.own /\ job'[c].then = j.then
    BY <1>3, <2>1 DEF Job, Follows, SameObjects
  <2> QED
    BY <1>2, <1>3, <2>2 DEF LateJob, LatePc, ForNew
<1>5. CASE Goto(c, j.then)
  <2>1. Follows(j, job'[c]) /\ job'[c].pc = j.then /\ job'[c].own = j.own
    BY <1>3, <1>5, StepPc
  <2> QED
    BY <1>2, <1>3, <2>1 DEF LateJob, LatePc, ForNew
<1> QED
  BY <1>1, <1>4, <1>5 DEF MapTable, Goto

LEMMA MapPageJob ==
    ASSUME Wired, NEW c \in CNode, MapPage(c) PROVE LateJob(c)
<1> DEFINE j == job[c]
<1>1. CASE Fail(c)
  BY <1>1, StepEnds DEF LateJob
<1>2. CASE \E pc \in {"ipcbuffer", "window"} : Goto(c, pc)
  BY <1>2, StepPc DEF LateJob, LatePc, ForNew
<1>3. CASE Step(c, Tables(j, TempPage, TRUE, "window"))
  <2>1. Follows(j, job'[c]) /\ job'[c].pc = "tables" /\ job'[c].then = "window"
    BY <1>3, StepTables
  <2> QED
    BY <2>1 DEF LateJob, LatePc, ForNew
<1> QED
  BY <1>1, <1>2, <1>3 DEF MapPage, Goto

LEMMA WriteHandleJob ==
    ASSUME Wired, NEW c \in CNode, WriteHandle(c) PROVE LateJob(c)
<1> DEFINE j == job[c]
<1>1. CASE Fail(c)
  BY <1>1, StepEnds DEF LateJob
<1>2. CASE Step(c, [j EXCEPT !.pc = "segment", !.k = @ + 1])
  <2>1. job'[c] = [j EXCEPT !.pc = "segment", !.k = @ + 1] /\ j \in Job
    BY <1>2, StepAt
  <2>2. Follows(j, job'[c]) /\ job'[c].pc = "segment"
    BY <2>1 DEF Job, Follows, SameObjects
  <2> QED
    BY <2>2 DEF LateJob, LatePc, ForNew
<1> QED
  BY <1>1, <1>2 DEF WriteHandle

LEMMA SetIpcBufferJob ==
    ASSUME Wired, NEW c \in CNode, SetIpcBuffer(c) PROVE LateJob(c)
<1> DEFINE j == job[c]
<1>1. CASE Fail(c)
  BY <1>1, StepEnds DEF LateJob
<1>2. CASE Step(c, [j EXCEPT !.pc = "right", !.k = 1, !.i = 0])
  <2>1. job'[c] = [j EXCEPT !.pc = "right", !.k = 1, !.i = 0] /\ j \in Job
    BY <1>2, StepAt
  <2>2. Follows(j, job'[c]) /\ job'[c].pc = "right"
    BY <2>1 DEF Job, Follows, SameObjects
  <2> QED
    BY <2>2 DEF LateJob, LatePc, ForNew
<1> QED
  BY <1>1, <1>2 DEF SetIpcBuffer

LEMMA RightJobs ==
    ASSUME Wired, NEW c \in CNode,
           SetUpScheduling(c) \/ MintChannel(c) \/ SkipControl(c) \/ UnknownRight(c)
           \/ MoveIrqHandler(c) \/ MintIrqBadge(c) \/ SetIrqTarget(c)
    PROVE  LateJob(c)
<1> DEFINE j == job[c]
<1>1. CASE Fail(c) \/ Crash(c)
  BY <1>1, StepEnds DEF LateJob
<1>2. CASE Step(c, NextRight(j))
  BY <1>2, StepAt, NextRightFollows DEF LateJob, LatePc, ForNew
<1>3. CASE Step(c, [j EXCEPT !.i = 1]) /\ j.pc = "right"
  <2>1. job'[c] = [j EXCEPT !.i = 1] /\ j \in Job
    BY <1>3, StepAt
  <2>2. Follows(j, job'[c]) /\ job'[c].pc = "right"
    BY <1>3, <2>1 DEF Job, Follows, SameObjects
  <2> QED
    BY <2>2 DEF LateJob, LatePc, ForNew
<1>4. CASE \E pc \in {"irqtarget", "irqmove"} : Goto(c, pc)
  BY <1>4, StepPc DEF LateJob, LatePc, ForNew
<1>5. CASE SetUpScheduling(c) \/ SkipControl(c) \/ UnknownRight(c)
  BY <1>1, <1>2, <1>5, Zenon DEF SetUpScheduling, SkipControl, UnknownRight
<1>6. CASE MintChannel(c)
  BY <1>1, <1>2, <1>3, <1>6 DEF MintChannel, RightIs
<1>7. CASE MoveIrqHandler(c) \/ SetIrqTarget(c)
  BY <1>1, <1>2, <1>4, <1>7 DEF MoveIrqHandler, SetIrqTarget
<1>8. CASE MintIrqBadge(c)
  BY <1>1, <1>4, <1>8 DEF MintIrqBadge
<1> QED
  BY <1>5, <1>6, <1>7, <1>8

LEMMA RegionJobs ==
    ASSUME Wired, NEW c \in CNode, SetUpRegion(c) \/ MapShared(c) PROVE LateJob(c)
<1> DEFINE j == job[c]
<1>1. CASE Fail(c)
  BY <1>1, StepEnds DEF LateJob
<1>2. CASE Step(c, NextRight(j))
  BY <1>2, StepAt, NextRightFollows DEF LateJob, LatePc, ForNew
<1>3. CASE \E page : Step(c, Tables(j, page, FALSE, "shared"))
  BY <1>3, StepTables DEF LateJob, LatePc, ForNew
<1>4. CASE Step(c, [j EXCEPT !.pc = "right", !.i = @ + 1, !.shared = @ + 1])
  <2>1. job'[c] = [j EXCEPT !.pc = "right", !.i = @ + 1, !.shared = @ + 1] /\ j \in Job
    BY <1>4, StepAt
  <2>2. Follows(j, job'[c]) /\ job'[c].pc = "right"
    BY <2>1 DEF Job, Follows, SameObjects
  <2> QED
    BY <2>2 DEF LateJob, LatePc, ForNew
<1>5. CASE SetUpRegion(c)
  BY <1>2, <1>3, <1>5 DEF SetUpRegion
<1>6. CASE MapShared(c)
  BY <1>1, <1>4, <1>6 DEF MapShared
<1> QED
  BY <1>5, <1>6

LEMMA JobEnds ==
    ASSUME Wired, NEW c \in CNode, Kept(c), Live(c), job'[c].pc \in {"idle", "crashed"}
    PROVE  JobWired(c)'
<1>1. Live(c)'
  BY LiveUntouched DEF Kept, Live
<1>2. ~Building(c)' /\ ~Active(c)'
  BY DEF Building, Active
<1>3. FixedCopied(c)' /\ ThreadSet(c)' /\ ~MapsForNew(c)'
  BY <1>2 DEF FixedCopied, ThreadSet, Copied, Spaced, Bound, Building, MapsForNew
<1> QED
  BY <1>1, <1>2, <1>3 DEF JobWired

\* The new CSpace is that of no PD that runs.
LEMMA RootFree ==
    ASSUME Wired, NEW c \in CNode, Kept(c), Active(c), UNCHANGED image,
           job'[c].cnode = job[c].cnode
    PROVE  /\ Live(c)' /\ job'[c].cnode < alloc'[c]["cnode"]
           /\ Full(NewRoot(c)') => ~Live(NewRoot(c).n)'
<1>1. Live(c) /\ JobWired(c)
  BY OwnIsOwn DEF Wired
<1>2. NewRoot(c)' = NewRoot(c)
  BY RootStays
<1>3. job[c].cnode \in Nat /\ alloc[c]["cnode"] \in Nat /\ alloc'[c]["cnode"] \in Nat
      /\ alloc'[c]["cnode"] >= alloc[c]["cnode"]
  BY WiredJob DEF Kept, PoolKind, PoolIndex
<1> QED
  BY <1>1, <1>2, <1>3 DEF JobWired, Live

\* What the last steps keep of the thread.
ThreadLate(c) ==
    LET t == Thread(c).n IN
    /\ tcb'[t].cspace = tcb[t].cspace /\ tcb'[t].vspace = tcb[t].vspace
    /\ tcb'[t].bound = tcb[t].bound /\ tcb'[t].sc \in {tcb[t].sc, Sc(c).n}

LEMMA LateStays ==
    ASSUME Wired, IInv', NEW c \in CNode, Kept(c), Bound(c), LateJob(c), UNCHANGED image,
           alloc'[c]["sc"] = alloc[c]["sc"], ThreadLate(c)
    PROVE  JobWired(c)'
<1>1. Building(c) /\ Active(c) /\ Live(c) /\ Full(Thread(c)) /\ Full(Sc(c))
  BY BoundObjects, OwnIsOwn
<1>2. CASE job'[c].pc \in {"idle", "crashed"}
  BY <1>1, <1>2, JobEnds
<1>3. CASE job'[c].pc \notin {"idle", "crashed"}
  <2>1. SameObjects(job[c], job'[c]) /\ job'[c].id = job[c].id /\ job'[c].pc \in LatePc
        /\ (ForNew(job'[c]) => ~job'[c].own)
    BY <1>3 DEF LateJob, Follows
  <2>2. /\ Live(c)' /\ job'[c].cnode < alloc'[c]["cnode"]
        /\ Full(NewRoot(c)') => ~Live(NewRoot(c).n)'
    BY <1>1, <2>1, RootFree DEF SameObjects
  <2>3. ObjectsFree(c)'
    BY <1>1, <2>1, FreeStays DEF ThreadLate
  <2>4. \A m : Copied(c, m)
    BY <1>1 DEF Copied, Bound, Spaced
  <2>5. FixedCopied(c)'
    BY <1>1, <2>1, <2>4, CopiesStay
  <2>6. Thread(c)' = Thread(c) /\ Ntfn(c)' = Ntfn(c) /\ NewSpace(c)' = NewSpace(c) /\ NewRoot(c)' = NewRoot(c)
    BY <1>1, <2>1, ObjectsStay
  <2>7. ThreadSet(c)'
    BY <2>6, BoundObjects DEF ThreadLate, ThreadSet
  <2>8. MapsForNew(c)' => ~job'[c].own
    BY <2>1 DEF MapsForNew, ForNew
  <2> QED
    BY <2>2, <2>3, <2>5, <2>7, <2>8 DEF JobWired, Full, Live
<1> QED
  BY <1>2, <1>3

LEMMA LateSteps ==
    ASSUME Wired, IInv', NEW c \in CNode, Kept(c),
           \/ NextPage(c) \/ MapTable(c) \/ MapPage(c) \/ WriteHandle(c) \/ SetIpcBuffer(c)
           \/ SetUpScheduling(c) \/ MintChannel(c) \/ SetUpRegion(c) \/ MapShared(c)
           \/ MintIrqBadge(c) \/ SetIrqTarget(c) \/ MoveIrqHandler(c)
           \/ SkipControl(c) \/ UnknownRight(c)
    PROVE  Bound(c) /\ JobWired(c)'
<1>1. Bound(c)
  BY Zenon DEF NextPage, MapTable, MapPage, WriteHandle, SetIpcBuffer, SetUpScheduling, MintChannel,
         SetUpRegion, MapShared, MintIrqBadge, SetIrqTarget, MoveIrqHandler, SkipControl,
         UnknownRight, RightIs, Bound, Spaced, Building
<1>2. LateJob(c)
  BY NextPageJob, MapTableJob, MapPageJob, WriteHandleJob, SetIpcBufferJob, RightJobs, RegionJobs
<1>3. UNCHANGED image
  BY Zenon DEF NextPage, MapTable, MapPage, WriteHandle, SetIpcBuffer, SetUpScheduling, MintChannel,
         SetUpRegion, MapShared, MintIrqBadge, SetIrqTarget, MoveIrqHandler, SkipControl,
         UnknownRight, threads
<1>4. alloc'[c]["sc"] = alloc[c]["sc"]
  <2>1. CASE UNCHANGED alloc
    BY <2>1
  <2>2. alloc \in [CNode -> [PoolKind -> Nat]] /\ {"pud", "pd", "pt", "page", "sc"} \subseteq PoolKind
    BY DEF Wired, IInv, PdsOK, PoolKind
  <2>3. ASSUME NEW k \in {"pud", "pd", "pt", "page"}, alloc' = [alloc EXCEPT ![c][k] = @ + 1]
        PROVE  alloc'[c]["sc"] = alloc[c]["sc"]
    BY <2>2, <2>3
  <2>4. UNCHANGED alloc \/ MapTable(c) \/ MapPage(c)
    BY Zenon DEF NextPage, WriteHandle, SetIpcBuffer, SetUpScheduling, MintChannel,
         SetUpRegion, MapShared, MintIrqBadge, SetIrqTarget, MoveIrqHandler, SkipControl, UnknownRight
  <2>5. CASE MapTable(c)
    <3>1. TableKind[job[c].level] \in {"pud", "pd", "pt", "page"}
      <4>1. job[c].level \in 1 .. 3
        BY JobType DEF Wired, Job
      <4> QED
        BY <4>1 DEF TableKind
    <3> QED
      BY <2>1, <2>3, <2>5, <3>1, Zenon DEF MapTable
  <2>6. CASE MapPage(c)
    BY <2>1, <2>3, <2>6, Zenon DEF MapPage
  <2> QED
    BY <2>1, <2>4, <2>5, <2>6
<1>5. ThreadLate(c)
  <2> DEFINE t == Thread(c).n
  <2>1. CASE UNCHANGED tcb
    BY <2>1 DEF ThreadLate
  <2>2. /\ tcb \in [ObjNum("tcb") -> Tcb] /\ t \in ObjNum("tcb")
        /\ caps[c][At("TCB", Target(c))].n = t
        /\ Sc(c).n = caps[c][At("sc", alloc[c]["sc"] - 1)].n
    <3>1. alloc[c]["sc"] = job[c].sc + 1 /\ job[c].sc \in Nat
      BY <1>1, BoundObjects, WiredObjects DEF PoolIndex
    <3>2. alloc[c]["sc"] - 1 = job[c].sc
      BY <3>1
    <3>3. caps[c][At("TCB", Target(c))] = Thread(c) /\ t \in ObjNum("tcb")
      BY <1>1, BoundObjects, JobObjects DEF Target
    <3>4. Sc(c).n = caps[c][At("sc", alloc[c]["sc"] - 1)].n
      BY <3>2, Zenon DEF Sc
    <3> QED
      BY <3>3, <3>4, WiredTypes
  <2>3. CASE SetIpcBuffer(c) /\ ~UNCHANGED tcb
    <3>1. PICK n : tcb' = [tcb EXCEPT ![t].ipc = n]
      BY <2>2, <2>3 DEF SetIpcBuffer
    <3> HIDE DEF t
    <3>2. tcb'[t] = [tcb[t] EXCEPT !.ipc = n] /\ tcb[t] \in Tcb
      BY <2>2, <3>1
    <3>3. tcb'[t].cspace = tcb[t].cspace /\ tcb'[t].vspace = tcb[t].vspace
          /\ tcb'[t].bound = tcb[t].bound /\ tcb'[t].sc = tcb[t].sc
      BY <3>2 DEF Tcb
    <3> QED
      BY <3>3 DEF ThreadLate, t
  <2>4. CASE SetUpScheduling(c) /\ ~UNCHANGED tcb
    <3> DEFINE s == Sc(c).n
    <3>1. PICK n : tcb' = [tcb EXCEPT ![t].sc = s, ![t].mcp = n]
      BY <2>2, <2>4, Zenon DEF SetUpScheduling
    <3> HIDE DEF t, s
    <3>2. tcb'[t] = [tcb[t] EXCEPT !.sc = s, !.mcp = n] /\ tcb[t] \in Tcb
      BY <2>2, <3>1
    <3>3. tcb'[t].cspace = tcb[t].cspace /\ tcb'[t].vspace = tcb[t].vspace
          /\ tcb'[t].bound = tcb[t].bound /\ tcb'[t].sc = s
      BY <3>2 DEF Tcb
    <3> QED
      BY <3>3 DEF ThreadLate, t, s
  <2>5. UNCHANGED tcb \/ SetIpcBuffer(c) \/ SetUpScheduling(c)
    BY Zenon DEF NextPage, MapTable, MapPage, WriteHandle, MintChannel, threads,
         SetUpRegion, MapShared, MintIrqBadge, SetIrqTarget, MoveIrqHandler, SkipControl, UnknownRight
  <2> QED
    BY <2>1, <2>3, <2>4, <2>5
<1> QED
  BY <1>1, <1>2, <1>3, <1>4, <1>5, LateStays

----------------------------------------------------------------------------
(* The calls, step by step: from the pools to the first copies *)

\* An offered object is none that a running PD runs on.
LEMMA OfferedUnused ==
    ASSUME Wired, NEW c \in CNode, NEW k \in {"cnode", "tcb", "vspace"}, NEW i \in PoolIndex(k),
           i >= alloc[c][k], Full(caps[c][At(k, i)]), NEW d \in CNode, Live(d)
    PROVE  LET n == caps[c][At(k, i)].n IN
           /\ k = "cnode" => n # d
           /\ k = "tcb" => image[d].tcb # n
           /\ k = "vspace" => tcb[image[d].tcb].vspace # n
<1> DEFINE x == caps[c][At(k, i)]
           id == image[d].id
<1>1. k \in PoolKind /\ x.kind = k
  BY PoolFacts DEF PoolKind
<1>2. \A e \in CNode, s \in Slot : SameObject(caps[e][s], x) => s = At(k, i)
  BY <1>1, PoolFacts
<1>3. SelfKnown(d)
  BY DEF Wired, LiveOK
<1>4. \A a \in PdArea : At(a, id) \in Slot /\ At(a, id) # At(k, i)
  BY <1>3, PdSlots DEF SelfKnown, PdArea, At
<1>5. \A a \in PdArea : ~SameObject(caps[d][At(a, id)], x)
  BY <1>2, <1>4
<1>6. k = "cnode" => x.n # d
  BY <1>1, <1>3, <1>5 DEF SelfKnown, SameObject, MkCap, PdArea
<1>7. k = "tcb" => image[d].tcb # x.n
  BY <1>1, <1>3, <1>5 DEF SelfKnown, SameObject, MkCap, PdArea
<1>8. k = "vspace" => tcb[image[d].tcb].vspace # x.n
  BY <1>1, <1>3, <1>5 DEF SelfKnown, SameObject, MkCap, PdArea
<1> QED
  BY <1>6, <1>7, <1>8

LEMMA EnterJobWired ==
    ASSUME Wired, NEW c \in CNode, NEW p \in Programs, NEW id \in PdId, Enter(c, p, id)
    PROVE  JobWired(c)'
<1>1. Kept(c) /\ UNCHANGED <<caps, tcb, image, frames>>
  BY EnterFrame
<1>2. Live(c) /\ Live(c)'
  BY <1>1 DEF Enter, HandlesInput, Live
<1>3. CASE Fail(c)
  BY <1>1, <1>2, <1>3, StepEnds, JobEnds
<1>4. CASE ~Fail(c)
  <2> DEFINE i == alloc[c]["cnode"]
             new == [NoJob EXCEPT !.pc = IF HasControl(p) THEN "move" ELSE "allocate",
                       !.program = p, !.id = id, !.cnode = i]
  <2>1. Step(c, new) /\ alloc' = [alloc EXCEPT ![c]["cnode"] = @ + 1] /\ ~Exhausted(c, "cnode")
    BY <1>4 DEF Enter
  <2>2. job'[c] = new
    BY <2>1, StepAt
  <2>3. job'[c].pc \in {"move", "allocate"} /\ job'[c].cnode = i
    BY <2>2 DEF NoJob
  <2>4. i \in PoolIndex("cnode") /\ i < alloc'[c]["cnode"]
    <3>1. i \in Nat /\ i < PoolSize("cnode") /\ PoolSize("cnode") \in Nat
      BY <2>1, PoolCapType, PoolSizeType DEF Wired, IInv, PdsOK, PoolKind
    <3>2. alloc'[c]["cnode"] = i + 1
      BY <2>1 DEF Wired, IInv, PdsOK, PoolKind
    <3> QED
      BY <3>1, <3>2 DEF PoolIndex
  <2>5. Full(NewRoot(c)') => ~Live(NewRoot(c).n)'
    <3>1. NewRoot(c)' = caps[c][At("cnode", i)]
      BY <1>1, <2>3 DEF NewRoot
    <3>2. i >= alloc[c]["cnode"]
      BY <2>4 DEF PoolIndex
    <3>3. ASSUME Full(caps[c][At("cnode", i)]) PROVE ~Live(caps[c][At("cnode", i)].n)
      <4>1. caps[c][At("cnode", i)].n \in CNode
        BY <2>4, <3>3 DEF Wired, PoolOK, PoolPlain, PoolKind, CNode
      <4> QED
        BY <2>4, <3>2, <3>3, <4>1, OfferedUnused
    <3> QED
      BY <1>1, <3>1, <3>3 DEF Live
  <2>6. ~Building(c)' /\ ~MapsForNew(c)'
    BY <2>3 DEF Building, MapsForNew
  <2>7. FixedCopied(c)' /\ ThreadSet(c)'
    BY <2>6 DEF FixedCopied, ThreadSet, Copied, Spaced, Bound
  <2> QED
    BY <1>2, <2>3, <2>4, <2>5, <2>6, <2>7 DEF JobWired, Full, Live
<1> QED
  BY <1>3, <1>4

LEMMA MovePoolCapJobWired ==
    ASSUME Wired, NEW c \in CNode, MovePoolCap(c), Kept(c)
    PROVE  JobWired(c)'
<1> DEFINE j == job[c]
<1>1. Active(c) /\ Live(c) /\ UNCHANGED image /\ j \in Job
  BY OwnIsOwn, StepAt DEF MovePoolCap, Active, threads
<1>2. CASE Fail(c)
  BY <1>1, <1>2, StepEnds, JobEnds
<1>3. CASE ~Fail(c)
  <2>1. job'[c].pc \in {"move", "allocate"} /\ job'[c].cnode = j.cnode
    <3>1. j.pc = "move" /\ \E new \in {[j EXCEPT !.i = @ + 1], [j EXCEPT !.i = 0, !.k = @ + 1],
                       [j EXCEPT !.pc = "allocate"]} : Step(c, new)
      BY <1>3 DEF MovePoolCap
    <3>2. PICK new \in {[j EXCEPT !.i = @ + 1], [j EXCEPT !.i = 0, !.k = @ + 1],
                       [j EXCEPT !.pc = "allocate"]} : job'[c] = new
      BY <3>1, StepAt
    <3> QED
      BY <1>1, <3>1, <3>2, ZenonT(60) DEF Job
  <2>2. /\ Live(c)' /\ job'[c].cnode < alloc'[c]["cnode"]
        /\ Full(NewRoot(c)') => ~Live(NewRoot(c).n)'
    BY <1>1, <2>1, RootFree
  <2>3. ~Building(c)' /\ ~MapsForNew(c)'
    BY <2>1 DEF Building, MapsForNew
  <2>4. FixedCopied(c)' /\ ThreadSet(c)'
    BY <2>3 DEF FixedCopied, ThreadSet, Copied, Spaced, Bound
  <2> QED
    BY <2>2, <2>3, <2>4 DEF JobWired, Full, Live
<1> QED
  BY <1>2, <1>3

LEMMA AllocateObjectsJobWired ==
    ASSUME Wired, IInv', NEW c \in CNode, AllocateObjects(c), Kept(c)
    PROVE  JobWired(c)'
<1> DEFINE j == job[c]
           Taken == {m \in 1 .. 4 : \A l \in 1 .. m : ~Exhausted(c, AllocateOrder[l])}
<1>1. Active(c) /\ Live(c) /\ UNCHANGED <<caps, tcb, image>> /\ j \in Job
  BY OwnIsOwn, StepAt DEF AllocateObjects, Active, threads
<1>2. CASE Fail(c)
  BY <1>1, <1>2, StepEnds, JobEnds
<1>3. CASE ~Fail(c)
  <2>1. /\ Taken = 1 .. 4
        /\ Step(c, [j EXCEPT !.pc = "asid", !.tcb = alloc[c]["tcb"], !.ntfn = alloc[c]["ntfn"],
                             !.sc = alloc[c]["sc"], !.vspace = alloc[c]["vspace"]])
        /\ alloc' = [alloc EXCEPT ![c] = [k \in PoolKind |->
                        IF \E m \in Taken : AllocateOrder[m] = k
                        THEN alloc[c][k] + 1 ELSE alloc[c][k]]]
    BY <1>3 DEF AllocateObjects
  <2>2. /\ job'[c].pc = "asid" /\ job'[c].cnode = j.cnode
        /\ job'[c].tcb = alloc[c]["tcb"] /\ job'[c].ntfn = alloc[c]["ntfn"]
        /\ job'[c].sc = alloc[c]["sc"] /\ job'[c].vspace = alloc[c]["vspace"]
    <3>1. job'[c] = [j EXCEPT !.pc = "asid", !.tcb = alloc[c]["tcb"], !.ntfn = alloc[c]["ntfn"],
                             !.sc = alloc[c]["sc"], !.vspace = alloc[c]["vspace"]]
      BY <2>1, StepAt
    <3> QED
      BY <1>1, <3>1 DEF Job
  <2>3. \A k \in {"tcb", "ntfn", "sc", "vspace"} :
           k \in PoolKind /\ alloc[c][k] \in PoolIndex(k) /\ alloc'[c][k] = alloc[c][k] + 1
    <3>1. /\ AllocateOrder[1] = "tcb" /\ AllocateOrder[2] = "ntfn"
          /\ AllocateOrder[3] = "sc" /\ AllocateOrder[4] = "vspace"
      BY DEF AllocateOrder
    <3>2. \A l \in 1 .. 4 : ~Exhausted(c, AllocateOrder[l])
      <4>1. 4 \in Taken
        BY <2>1
      <4> QED
        BY <4>1
    <3>3. ~Exhausted(c, "tcb") /\ ~Exhausted(c, "ntfn") /\ ~Exhausted(c, "sc")
          /\ ~Exhausted(c, "vspace")
      BY <3>1, <3>2
    <3>4. \A k \in {"tcb", "ntfn", "sc", "vspace"} :
             k \in PoolKind /\ \E m \in Taken : AllocateOrder[m] = k
      <4> HIDE DEF Taken
      <4> QED
        BY <2>1, <3>1 DEF PoolKind
    <3>5. alloc \in [CNode -> [PoolKind -> Nat]]
      BY DEF Wired, IInv, PdsOK
    <3>6. ASSUME NEW k \in {"tcb", "ntfn", "sc", "vspace"}
          PROVE  k \in PoolKind /\ alloc[c][k] \in PoolIndex(k) /\ alloc'[c][k] = alloc[c][k] + 1
      <4>1. alloc'[c][k] = alloc[c][k] + 1
        <5> HIDE DEF Taken
        <5> QED
          BY <2>1, <3>4, <3>5
      <4>2. k \in PoolKind /\ ~Exhausted(c, k) /\ alloc[c][k] \in Nat /\ PoolSize(k) \in Nat
        BY <3>3, <3>4, <3>5, PoolSizeType
      <4>3. alloc[c][k] < PoolSize(k)
        BY <4>2 DEF Exhausted
      <4> QED
        BY <4>1, <4>2, <4>3 DEF PoolIndex
    <3> QED
      BY <3>6
  <2>4. /\ Live(c)' /\ job'[c].cnode < alloc'[c]["cnode"]
        /\ Full(NewRoot(c)') => ~Live(NewRoot(c).n)'
    BY <1>1, <2>2, RootFree
  <2>5. ObjectsFree(c)'
    <3> DEFINE T == caps[c][At("tcb", alloc[c]["tcb"])]
               V == caps[c][At("vspace", alloc[c]["vspace"])]
    <3>1. Thread(c)' = T /\ NewSpace(c)' = V
      BY <1>1, <2>2 DEF Thread, NewSpace
    <3>2. alloc[c]["tcb"] >= alloc[c]["tcb"] /\ alloc[c]["vspace"] >= alloc[c]["vspace"]
      BY <2>3 DEF PoolIndex
    <3>3. ASSUME Full(T)
          PROVE  tcb[T.n].sc = None /\ \A d \in CNode : Live(d) => image[d].tcb # T.n
      BY <2>3, <3>2, <3>3, PoolFacts, OfferedUnused
    <3>4. ASSUME Full(V) PROVE \A d \in CNode : Live(d) => tcb[image[d].tcb].vspace # V.n
      BY <2>3, <3>2, <3>4, OfferedUnused
    <3> HIDE DEF T, V
    <3>5. /\ Full(T) => /\ \A d \in CNode : Live(d)' => image'[d].tcb # T.n
                        /\ tcb'[T.n].sc = None
          /\ Full(V) => \A d \in CNode : Live(d)' => tcb'[image'[d].tcb].vspace # V.n
      BY <1>1, <3>3, <3>4 DEF Live
    <3>6. /\ job'[c].tcb < alloc'[c]["tcb"] /\ job'[c].ntfn < alloc'[c]["ntfn"]
          /\ job'[c].vspace < alloc'[c]["vspace"] /\ alloc'[c]["sc"] = job'[c].sc + 1
      BY <2>2, <2>3 DEF PoolIndex
    <3> QED
      BY <3>1, <3>5, <3>6 DEF ObjectsFree, Full
  <2>6. ~MapsForNew(c)' /\ FixedCopied(c)' /\ ThreadSet(c)'
    BY <2>2 DEF MapsForNew, FixedCopied, ThreadSet, Copied, Spaced, Bound
  <2> QED
    BY <2>4, <2>5, <2>6 DEF JobWired, Full, Live
<1> QED
  BY <1>2, <1>3

LEMMA EarlyStays ==
    ASSUME Wired, IInv', NEW c \in CNode, Kept(c), Building(c), UNCHANGED <<image, alloc>>,
           Follows(job[c], job'[c]), ~MapsForNew(c)',
           Full(Thread(c)) => tcb'[Thread(c).n].sc = tcb[Thread(c).n].sc,
           FixedCopied(c)', ThreadSet(c)'
    PROVE  JobWired(c)'
<1>1. Active(c) /\ SameObjects(job[c], job'[c]) /\ job'[c].cnode = job[c].cnode
  BY WiredObjects DEF Follows, SameObjects
<1>2. /\ Live(c)' /\ job'[c].cnode < alloc'[c]["cnode"]
      /\ Full(NewRoot(c)') => ~Live(NewRoot(c).n)'
  BY <1>1, RootFree
<1>3. ObjectsFree(c)'
  BY <1>1, FreeStays
<1> QED
  BY <1>2, <1>3 DEF JobWired, Full, Live

LEMMA AssignAsidJobWired ==
    ASSUME Wired, IInv', NEW c \in CNode, AssignAsid(c), Kept(c)
    PROVE  JobWired(c)'
<1> DEFINE j == job[c]
<1>1. Building(c) /\ Active(c) /\ Live(c) /\ UNCHANGED <<tcb, image, alloc>> /\ j \in Job
  BY OwnIsOwn, StepAt DEF AssignAsid, Active, Building, threads
<1>2. CASE Fail(c)
  BY <1>1, <1>2, StepEnds, JobEnds
<1>3. CASE Step(c, [j EXCEPT !.pc = "fixed", !.k = 1])
  <2>1. job'[c] = [j EXCEPT !.pc = "fixed", !.k = 1]
    BY <1>3, StepAt
  <2>2. Follows(j, job'[c]) /\ job'[c].pc = "fixed" /\ job'[c].k = 1
    BY <1>1, <2>1 DEF Job, Follows, SameObjects
  <2>3. ~MapsForNew(c)' /\ FixedCopied(c)' /\ ThreadSet(c)'
    BY <2>2 DEF MapsForNew, FixedCopied, Copied, ThreadSet, Spaced, Bound
  <2> QED
    BY <1>1, <2>2, <2>3, EarlyStays
<1> QED
  BY <1>2, <1>3 DEF AssignAsid

\* A copy of a capability that is as the tool made it is the same capability.
LEMMA PlainCopy ==
    ASSUME Wired, NEW droot, NEW ds \in Slot, NEW sroot, NEW ss \in Slot,
           GoodCap(droot), GoodCap(sroot), CanTransfer(caps, droot, ds, sroot, ss),
           caps' = CopyTo(caps, droot, ds, sroot, ss), caps[sroot.n][ss].at = Unmapped
    PROVE  caps'[droot.n][ds] = caps[sroot.n][ss] /\ Full(caps[sroot.n][ss])
<1> DEFINE x == caps[sroot.n][ss]
<1>1. droot.n \in CNode /\ sroot.n \in CNode /\ Full(x)
  BY DEF CanTransfer, GoodCap, Full
<1>2. caps'[droot.n][ds] = Minted(x, x.badge)
  BY <1>1, WiredTypes, MintAt DEF CopyTo
<1>3. x \in Cap /\ x.at = Unmapped
  BY <1>1, WiredTypes
<1> HIDE DEF x
<1>4. Minted(x, x.badge) = x
  BY <1>3 DEF Minted, Cap
<1> QED
  BY <1>1, <1>2, <1>4 DEF x

LEMMA FixedRows ==
    ASSUME NEW c
    PROVE  LET f == FixedCaps(c)
               j == job[c]
           IN  /\ f[2] = Row("new", InputSlot, "own", At("ntfn", j.ntfn))
               /\ f[3] = Row("new", At("CHAN", j.id), "new", InputSlot)
               /\ f[4] = Row("own", At("CHAN", j.id), "new", InputSlot)
               /\ f[6] = Row("new", At("TCB", j.id), "own", At("tcb", j.tcb))
               /\ f[7] = Row("own", At("TCB", j.id), "own", At("tcb", j.tcb))
               /\ f[8] = Row("new", At("SC", j.id), "own", At("sc", j.sc))
               /\ f[9] = Row("own", At("SC", j.id), "own", At("sc", j.sc))
               /\ f[10] = Row("new", At("CNODE", j.id), "own", At("cnode", j.cnode))
               /\ f[11] = Row("own", At("CNODE", j.id), "own", At("cnode", j.cnode))
               /\ f[12] = Row("new", At("VSPACE", j.id), "own", At("vspace", j.vspace))
               /\ f[13] = Row("own", At("VSPACE", j.id), "own", At("vspace", j.vspace))
  BY DEF FixedCaps

\* Where the next copy of FixedCaps comes from.
Copying(c, into, dst, of, src) ==
    LET row == FixedCaps(c)[job[c].k] IN
    row.into = into /\ row.dst = dst /\ row.of = of /\ row.src = src

\* A copy into the new CSpace, and one into the caller's own.
LEMMA RowCopied ==
    ASSUME Wired, NEW c \in CNode, CopyFixedCap(c), ~Fail(c),
           NEW into \in {"own", "new"}, NEW dst \in Slot, NEW of \in {"own", "new"}, NEW src,
           Copying(c, into, dst, of, src),
           NEW x, x = caps[IF of = "own" THEN c ELSE NewRoot(c).n][src],
           Full(x) => x.at = Unmapped
    PROVE  /\ Full(x)
           /\ into = "new" => Full(NewRoot(c)) /\ caps'[NewRoot(c).n][dst] = x
           /\ into = "own" => caps'[c][dst] = x
<1> DEFINE Root(who) == IF who = "own" THEN OwnRoot(c) ELSE NewRoot(c)
<1>1. OwnRoot(c).n = c /\ GoodCap(OwnRoot(c)) /\ GoodCap(NewRoot(c)) /\ job[c].pc = "fixed" /\ IInv
  <2>1. Active(c)
    BY DEF CopyFixedCap, Active
  <2> QED
    BY <2>1, WiredJob DEF CopyFixedCap, Wired
<1>2. /\ CanTransfer(caps, Root(into), dst, Root(of), src)
      /\ caps' = CopyTo(caps, Root(into), dst, Root(of), src)
  BY DEF CopyFixedCap, Copying
<1>3. GoodCap(Root(into)) /\ GoodCap(Root(of)) /\ x = caps[Root(of).n][src]
  BY <1>1
<1>4. Root(into).kind = "cnode"
  BY <1>2 DEF CanTransfer
<1>5. Full(x)
  BY <1>2, <1>3 DEF CanTransfer, Full
<1>6. src \in Slot
  BY <1>1, FixedCapsType DEF Copying
<1>7. caps'[Root(into).n][dst] = x
  <2> HIDE DEF Root
  <2> QED
    BY <1>2, <1>3, <1>5, <1>6, PlainCopy
<1> QED
  BY <1>1, <1>4, <1>5, <1>7 DEF Full

LEMMA NextRowHeld ==
    ASSUME Wired, NEW c \in CNode, Kept(c), CopyFixedCap(c), ~Fail(c), Follows(job[c], job'[c]),
           NEW m, m = job[c].k
    PROVE  RowHeld(c, m)'
<1> DEFINE j == job[c]
           id == job[c].id
           new == NewRoot(c).n
           Put(e, s, x) == Full(x) /\ caps'[e][s] = x
<1>1. Building(c) /\ Active(c) /\ j.pc = "fixed" /\ IInv
  BY DEF CopyFixedCap, Building, Active, Wired
<1>2. /\ Thread(c)' = Thread(c) /\ Ntfn(c)' = Ntfn(c) /\ Sc(c)' = Sc(c)
      /\ NewSpace(c)' = NewSpace(c) /\ NewRoot(c)' = NewRoot(c) /\ job'[c].id = id
  BY <1>1, ObjectsStay DEF Follows
<1>3. \A x \in {Thread(c), Ntfn(c), Sc(c), NewRoot(c), NewSpace(c)} : Full(x) => x.at = Unmapped
  <2>1. \A k, n : MkCap(k, n).at = Unmapped
    BY DEF MkCap
  <2> QED
    BY <1>1, <2>1, JobObjects
<1>4. InputSlot \in Slot /\ \A a \in PdArea : At(a, id) \in Slot
  BY <1>1, WiredJob, PdSlots, FixedSlots
<1>5. j.k \in 1 .. 13
  BY <1>1, FixedCapsType
<1>6. ASSUME NEW s \in Slot, NEW x \in {Thread(c), Ntfn(c), Sc(c), NewRoot(c), NewSpace(c)},
             NEW src, x = caps[c][src], NEW into \in {"new", "own"}, Copying(c, into, s, "own", src)
      PROVE  /\ into = "new" => Full(NewRoot(c)) /\ Put(new, s, x)
             /\ into = "own" => Put(c, s, x)
  BY <1>3, <1>6, RowCopied
<1>7. ASSUME NEW s \in Slot, j.k \in 3 .. 4, NEW into \in {"new", "own"},
             Copying(c, into, s, "new", InputSlot)
      PROVE  /\ into = "new" => Full(NewRoot(c)) /\ Put(new, s, Ntfn(c))
             /\ into = "own" => Put(c, s, Ntfn(c))
  <2>1. Copied(c, 2)
    BY <1>1, <1>7 DEF Copied
  <2>2. caps[new][InputSlot] = Ntfn(c)
    BY <2>1 DEF Wired, JobWired, FixedCopied, RowHeld, InNew, Holds
  <2> QED
    BY <1>3, <1>7, <2>2, RowCopied
<1> HIDE DEF Put
<1>8. /\ j.k = 2 => Copying(c, "new", InputSlot, "own", At("ntfn", j.ntfn))
      /\ j.k = 3 => Copying(c, "new", At("CHAN", id), "new", InputSlot)
      /\ j.k = 4 => Copying(c, "own", At("CHAN", id), "new", InputSlot)
      /\ j.k = 6 => Copying(c, "new", At("TCB", id), "own", At("tcb", j.tcb))
      /\ j.k = 7 => Copying(c, "own", At("TCB", id), "own", At("tcb", j.tcb))
      /\ j.k = 8 => Copying(c, "new", At("SC", id), "own", At("sc", j.sc))
      /\ j.k = 9 => Copying(c, "own", At("SC", id), "own", At("sc", j.sc))
      /\ j.k = 10 => Copying(c, "new", At("CNODE", id), "own", At("cnode", j.cnode))
      /\ j.k = 11 => Copying(c, "own", At("CNODE", id), "own", At("cnode", j.cnode))
      /\ j.k = 12 => Copying(c, "new", At("VSPACE", id), "own", At("vspace", j.vspace))
      /\ j.k = 13 => Copying(c, "own", At("VSPACE", id), "own", At("vspace", j.vspace))
  <2>1. \A into, dst, of, src :
           FixedCaps(c)[j.k] = Row(into, dst, of, src) => Copying(c, into, dst, of, src)
    BY DEF Copying, Row
  <2> QED
    BY <2>1, FixedRows
<1>9. /\ Thread(c) = caps[c][At("tcb", j.tcb)] /\ Ntfn(c) = caps[c][At("ntfn", j.ntfn)]
      /\ Sc(c) = caps[c][At("sc", j.sc)] /\ NewRoot(c) = caps[c][At("cnode", j.cnode)]
      /\ NewSpace(c) = caps[c][At("vspace", j.vspace)]
  BY DEF Thread, Ntfn, Sc, NewRoot, NewSpace
<1>10. /\ j.k = 2 => Full(NewRoot(c)) /\ Put(new, InputSlot, Ntfn(c))
       /\ j.k = 3 => Full(NewRoot(c)) /\ Put(new, At("CHAN", id), Ntfn(c))
       /\ j.k = 4 => Put(c, At("CHAN", id), Ntfn(c))
  BY <1>4, <1>6, <1>7, <1>8, <1>9 DEF PdArea
<1>11. /\ j.k = 6 => Full(NewRoot(c)) /\ Put(new, At("TCB", id), Thread(c))
       /\ j.k = 7 => Put(c, At("TCB", id), Thread(c))
       /\ j.k = 8 => Full(NewRoot(c)) /\ Put(new, At("SC", id), Sc(c))
       /\ j.k = 9 => Put(c, At("SC", id), Sc(c))
  BY <1>4, <1>6, <1>8, <1>9 DEF PdArea
<1>12. /\ j.k = 10 => Full(NewRoot(c)) /\ Put(new, At("CNODE", id), NewRoot(c))
       /\ j.k = 11 => Put(c, At("CNODE", id), NewRoot(c))
       /\ j.k = 12 => Full(NewRoot(c)) /\ Put(new, At("VSPACE", id), NewSpace(c))
       /\ j.k = 13 => Put(c, At("VSPACE", id), NewSpace(c))
  BY <1>4, <1>6, <1>8, <1>9 DEF PdArea
<1>13. \A s, x : /\ Full(NewRoot(c)) /\ Put(new, s, x) => Full(NewRoot(c)') /\ Full(x) /\ caps'[NewRoot(c)'.n][s] = x
                 /\ Put(c, s, x) => Full(x) /\ caps'[c][s] = x
  BY <1>2 DEF Put
<1> QED
  BY <1>2, <1>5, <1>10, <1>11, <1>12, <1>13 DEF RowHeld, InNew, Holds, Full

----------------------------------------------------------------------------
(* The thread of the new PD *)

LEMMA CopyFixedCapJobWired ==
    ASSUME Wired, IInv', NEW c \in CNode, CopyFixedCap(c), Kept(c)
    PROVE  JobWired(c)'
<1> DEFINE j == job[c]
<1>1. /\ Building(c) /\ Active(c) /\ Live(c) /\ UNCHANGED <<tcb, image, alloc>> /\ j \in Job
      /\ j.pc = "fixed" /\ j.k \in 1 .. 13 /\ Len(FixedCaps(c)) = 13 /\ IInv
  <2>1. Building(c) /\ Active(c) /\ j.pc = "fixed" /\ IInv /\ UNCHANGED <<tcb, image, alloc>>
    BY DEF CopyFixedCap, Active, Building, threads, Wired
  <2> QED
    BY <2>1, OwnIsOwn, StepAt, FixedCapsType
<1>2. CASE Fail(c)
  BY <1>1, <1>2, StepEnds, JobEnds
<1>3. CASE ~Fail(c)
  <2>1. /\ Follows(j, job'[c])
        /\ \/ job'[c].pc = "fixed" /\ job'[c].k = j.k + 1
           \/ job'[c].pc = "space" /\ j.k = 13
    <3>1. CASE j.k < 13 /\ Step(c, [j EXCEPT !.k = @ + 1])
      <4>1. job'[c] = [j EXCEPT !.k = @ + 1]
        BY <3>1, StepAt
      <4> QED
        BY <1>1, <4>1 DEF Job, Follows, SameObjects
    <3>2. CASE ~(j.k < 13) /\ Goto(c, "space")
      BY <1>1, <3>2, StepPc
    <3> QED
      BY <1>1, <1>3, <3>1, <3>2 DEF CopyFixedCap
  <2>2. SameObjects(j, job'[c]) /\ job'[c].id = j.id
    BY <2>1 DEF Follows
  <2>3. ~MapsForNew(c)' /\ ThreadSet(c)'
    BY <2>1 DEF MapsForNew, ThreadSet, Spaced, Bound
  <2>4. FixedCopied(c)'
    <3>1. ASSUME NEW m \in 1 .. 13, Copied(c, m)' PROVE RowHeld(c, m)'
      <4>1. m = j.k \/ Copied(c, m)
        BY <1>1, <2>1, <3>1 DEF Copied, Building
      <4>2. CASE m = j.k
        BY <1>3, <2>1, <4>2, NextRowHeld
      <4>3. CASE Copied(c, m)
        <5>1. RowHeld(c, m)
          BY <4>3 DEF Wired, JobWired, FixedCopied
        <5> QED
          BY <1>1, <2>2, <5>1, RowStays
      <4> QED
        BY <4>1, <4>2, <4>3
    <3> QED
      BY <3>1 DEF FixedCopied
  <2> QED
    BY <1>1, <2>1, <2>3, <2>4, EarlyStays
<1> QED
  BY <1>2, <1>3

LEMMA SetSpaceJobWired ==
    ASSUME Wired, IInv', NEW c \in CNode, SetSpace(c), Kept(c)
    PROVE  JobWired(c)'
<1> DEFINE j == job[c]
<1>1. /\ Building(c) /\ Active(c) /\ Live(c) /\ UNCHANGED <<image, alloc>> /\ j \in Job
      /\ j.pc = "space"
  BY OwnIsOwn, StepAt, Zenon DEF SetSpace, Active, Building, threads
<1>2. CASE Fail(c)
  BY <1>1, <1>2, StepEnds, JobEnds
<1>3. CASE ~Fail(c)
  <2> DEFINE t == Thread(c).n
             n == NewRoot(c).n
             v == NewSpace(c).n
  <2>1. tcb' = [tcb EXCEPT ![t].cspace = n, ![t].vspace = v] /\ Goto(c, "bind")
    BY <1>3, Zenon DEF SetSpace, Thread, NewSpace
  <2>2. Follows(j, job'[c]) /\ job'[c].pc = "bind"
    BY <2>1, StepPc
  <2>3. t \in ObjNum("tcb") /\ tcb \in [ObjNum("tcb") -> Tcb]
    <3>1. Full(Thread(c))
      BY <1>3, Zenon DEF SetSpace, Thread, Full
    <3> QED
      BY <1>1, <3>1, JobObjects, WiredTypes
  <2>4. tcb'[t].cspace = n /\ tcb'[t].vspace = v /\ tcb'[t].sc = tcb[t].sc
    <3> HIDE DEF t, n, v
    <3>1. tcb'[t] = [tcb[t] EXCEPT !.cspace = n, !.vspace = v] /\ tcb[t] \in Tcb
      BY <2>1, <2>3
    <3> QED
      BY <3>1 DEF Tcb
  <2>5. /\ Thread(c)' = Thread(c) /\ NewSpace(c)' = NewSpace(c) /\ NewRoot(c)' = NewRoot(c)
    BY <1>1, <2>2, ObjectsStay DEF Follows
  <2>6. ~MapsForNew(c)' /\ ThreadSet(c)'
    BY <2>2, <2>4, <2>5 DEF MapsForNew, ThreadSet, Bound
  <2>7. FixedCopied(c)'
    <3>1. \A m \in 1 .. 13 : Copied(c, m)
      BY <1>1 DEF Copied, Building
    <3> QED
      BY <1>1, <2>2, <3>1, CopiesStay DEF Follows
  <2> QED
    BY <1>1, <2>2, <2>4, <2>6, <2>7, EarlyStays
<1> QED
  BY <1>2, <1>3

LEMMA BindNotificationJobWired ==
    ASSUME Wired, IInv', NEW c \in CNode, BindNotification(c), Kept(c)
    PROVE  JobWired(c)'
<1> DEFINE j == job[c]
<1>1. /\ Building(c) /\ Active(c) /\ Live(c) /\ UNCHANGED <<image, alloc>> /\ j \in Job
      /\ j.pc = "bind"
  BY OwnIsOwn, StepAt, Zenon DEF BindNotification, Active, Building, threads
<1>2. CASE Fail(c)
  BY <1>1, <1>2, StepEnds, JobEnds
<1>3. CASE ~Fail(c)
  <2> DEFINE t == Thread(c).n
             n == Ntfn(c).n
  <2>1. tcb' = [tcb EXCEPT ![t].bound = n] /\ Step(c, [j EXCEPT !.pc = "segment", !.k = 1])
    BY <1>3, Zenon DEF BindNotification, Thread, Ntfn
  <2>2. Follows(j, job'[c]) /\ job'[c].pc = "segment"
    <3>1. job'[c] = [j EXCEPT !.pc = "segment", !.k = 1]
      BY <2>1, StepAt
    <3> QED
      BY <1>1, <3>1 DEF Job, Follows, SameObjects
  <2>3. t \in ObjNum("tcb") /\ tcb \in [ObjNum("tcb") -> Tcb]
    <3>1. Full(Thread(c))
      BY <1>3, Zenon DEF BindNotification, Thread, Full
    <3> QED
      BY <1>1, <3>1, JobObjects, WiredTypes
  <2>4. tcb'[t].cspace = tcb[t].cspace /\ tcb'[t].vspace = tcb[t].vspace /\ tcb'[t].sc = tcb[t].sc
        /\ tcb'[t].bound = n
    <3> HIDE DEF t, n
    <3>1. tcb'[t] = [tcb[t] EXCEPT !.bound = n] /\ tcb[t] \in Tcb
      BY <2>1, <2>3
    <3> QED
      BY <3>1 DEF Tcb
  <2>5. /\ Thread(c)' = Thread(c) /\ NewSpace(c)' = NewSpace(c) /\ NewRoot(c)' = NewRoot(c)
        /\ Ntfn(c)' = Ntfn(c)
    BY <1>1, <2>2, ObjectsStay DEF Follows
  <2>6. tcb[t].cspace = NewRoot(c).n /\ tcb[t].vspace = NewSpace(c).n
    BY <1>1 DEF Wired, JobWired, ThreadSet, Spaced
  <2>7. ~MapsForNew(c)' /\ ThreadSet(c)'
    BY <2>2, <2>4, <2>5, <2>6 DEF MapsForNew, ThreadSet
  <2>8. FixedCopied(c)'
    <3>1. \A m \in 1 .. 13 : Copied(c, m)
      BY <1>1 DEF Copied, Building
    <3> QED
      BY <1>1, <2>2, <3>1, CopiesStay DEF Follows
  <2> QED
    BY <1>1, <2>2, <2>4, <2>7, <2>8, EarlyStays
<1> QED
  BY <1>2, <1>3

LEMMA StepJobWired ==
    ASSUME Wired, IInv', NEW c \in CNode, PdCreateStep(c), Kept(c)
    PROVE  JobWired(c)'
<1>1. CASE Restart(c)
  <2>1. Bound(c) /\ job'[c].pc = "idle"
    BY <1>1, RestartStarts
  <2>2. Live(c)
    BY <2>1, BoundObjects, OwnIsOwn
  <2> QED
    BY <2>1, <2>2, JobEnds
<1> QED
  BY <1>1, MovePoolCapJobWired, AllocateObjectsJobWired, AssignAsidJobWired,
     CopyFixedCapJobWired, SetSpaceJobWired, BindNotificationJobWired, LateSteps DEF PdCreateStep

----------------------------------------------------------------------------
(* The temporary slot *)

LEMMA MintElsewhere ==
    ASSUME NEW cs, Shaped(cs), NEW droot, NEW ds, NEW sroot, NEW ss, NEW badge,
           NEW e \in CNode, NEW r \in Slot, r # ds
    PROVE  MintTo(cs, droot, ds, sroot, ss, badge)[e][r] = cs[e][r]
  BY MintAt

LEMMA CopyElsewhere ==
    ASSUME NEW cs, Shaped(cs), NEW droot, NEW ds, NEW sroot, NEW ss,
           NEW e \in CNode, NEW r \in Slot, r # ds
    PROVE  CopyTo(cs, droot, ds, sroot, ss)[e][r] = cs[e][r]
  BY MintElsewhere DEF CopyTo

LEMMA MoveElsewhere ==
    ASSUME NEW cs, Shaped(cs), NEW droot, NEW ds, NEW sroot, NEW ss,
           NEW e \in CNode, NEW r \in Slot, r # ds, r # ss
    PROVE  MoveTo(cs, droot, ds, sroot, ss)[e][r] = cs[e][r]
  BY MoveAt

LEMMA TempApart ==
    /\ TempSlot \in Slot
    /\ \A a \in PoolKind \cup PdArea \cup ChannelArea \cup {"SHARED", "INPUT", "ASID_POOL", "SCHED_CONTROL"} : \A i :
          TempSlot # At(a, i)
  BY FixedSlots DEF TempSlot, At, PoolKind, PdArea, ChannelArea

TempSame(c) == caps'[c][TempSlot] = caps[c][TempSlot]

LEMMA TempCopyFixedCap ==
    ASSUME Wired, NEW c \in CNode, CopyFixedCap(c) PROVE TempSame(c)
<1>1. CASE UNCHANGED caps
  BY <1>1 DEF TempSame
<1>2. ASSUME NEW droot, NEW sroot, NEW src,
             caps' = CopyTo(caps, droot, FixedCaps(c)[job[c].k].dst, sroot, src)
      PROVE  TempSame(c)
  <2>1. job[c].k \in 1 .. 13
    BY FixedCapsType DEF Wired, CopyFixedCap
  <2>2. \A k \in 1 .. 13 : \E a \in PdArea \cup {"INPUT", "ASID_POOL", "SCHED_CONTROL"} : \E i :
            FixedCaps(c)[k].dst = At(a, i)
    BY FixedCapsPlaces, Zenon
  <2>3. TempSlot # FixedCaps(c)[job[c].k].dst
    BY <2>1, <2>2, TempApart, ZenonT(60)
  <2> DEFINE ds == FixedCaps(c)[job[c].k].dst
  <2>4. Shaped(caps) /\ TempSlot \in Slot /\ TempSlot # ds
    BY <2>3, WiredTypes, TempApart
  <2> HIDE DEF ds
  <2>5. CopyTo(caps, droot, ds, sroot, src)[c][TempSlot] = caps[c][TempSlot]
    BY <2>4, CopyElsewhere
  <2> QED
    BY <1>2, <2>5 DEF TempSame, ds
<1> QED
  BY <1>1, <1>2 DEF CopyFixedCap

LEMMA TempMaps ==
    ASSUME Wired, NEW c \in CNode, NEW d, NEW s, s # TempSlot, NEW p
    PROVE  LET cs2 == [caps EXCEPT ![d][s].at = p] IN
           Shaped(cs2) /\ cs2[c][TempSlot] = caps[c][TempSlot]
  BY WiredTypes, TempApart DEF Shaped

LEMMA TempMoves ==
    ASSUME Wired, NEW c \in CNode,
           MovePoolCap(c) \/ MapPage(c) \/ MintChannel(c) \/ MapShared(c) \/ MoveIrqHandler(c)
    PROVE  TempSame(c)
<1>1. CASE UNCHANGED caps
  BY <1>1 DEF TempSame
<1>2. CASE MovePoolCap(c)
  <2> DEFINE n == NewRoot(c).n
  <2>1. ASSUME NEW k \in PoolKind, NEW i, NEW m, Moves(caps, caps', n, At(k, i), c, At(k, m))
        PROVE  TempSame(c)
    BY <2>1, TempApart DEF Moves, TempSame
  <2> QED
    BY <1>1, <1>2, <2>1, MovePoolCapMoves
<1>3. CASE MapPage(c)
  <2>1. ASSUME NEW i, NEW p, caps' = [caps EXCEPT ![c][At("page", i)].at = p] PROVE TempSame(c)
    <3>1. TempSlot # At("page", i)
      BY TempApart DEF PoolKind
    <3> QED
      BY <2>1, <3>1, TempMaps DEF TempSame
  <2> QED
    BY <1>1, <1>3, <2>1, Zenon DEF MapPage
<1>4. CASE MintChannel(c)
  <2>1. ASSUME NEW droot, NEW i, NEW sroot, NEW ss, NEW badge,
               caps' = MintTo(caps, droot, At("OUT", i), sroot, ss, badge)
        PROVE  TempSame(c)
    <3>1. Shaped(caps) /\ TempSlot \in Slot /\ TempSlot # At("OUT", i)
      BY WiredTypes, TempApart DEF ChannelArea
    <3>2. MintTo(caps, droot, At("OUT", i), sroot, ss, badge)[c][TempSlot] = caps[c][TempSlot]
      BY <3>1, MintElsewhere
    <3> QED
      BY <2>1, <3>2 DEF TempSame
  <2> QED
    BY <1>1, <1>4, <2>1 DEF MintChannel
<1>5. CASE MapShared(c)
  <2> DEFINE slot == At("SHARED", Right(c).id + job[c].i)
             mapped(p) == [caps EXCEPT ![c][slot].at = p]
  <2>1. TempSlot # slot /\ TempSlot # At("SHARED", job[c].shared)
    BY TempApart
  <2>2. \A p : Shaped(mapped(p)) /\ mapped(p)[c][TempSlot] = caps[c][TempSlot]
    <3> HIDE DEF slot
    <3> QED
      BY <2>1, TempMaps
  <2>3. \/ UNCHANGED caps
        \/ \E p : caps' = mapped(p)
        \/ \E p, droot, sroot : caps' = CopyTo(mapped(p), droot, At("SHARED", job[c].shared), sroot, slot)
    BY <1>5, Zenon DEF MapShared
  <2> HIDE DEF mapped, slot
  <2> QED
    <3>1. ASSUME NEW p, NEW droot, NEW sroot
          PROVE  CopyTo(mapped(p), droot, At("SHARED", job[c].shared), sroot, slot)[c][TempSlot]
                    = mapped(p)[c][TempSlot]
      BY <2>1, <2>2, TempApart, CopyElsewhere
    <3> QED
      BY <1>1, <2>2, <2>3, <3>1 DEF TempSame
<1>6. CASE MoveIrqHandler(c)
  <2>1. ASSUME NEW droot, NEW i, NEW sroot, NEW m,
               caps' = MoveTo(caps, droot, At("IRQ", i), sroot, At("IRQ", m))
        PROVE  TempSame(c)
    <3>1. Shaped(caps) /\ TempSlot \in Slot /\ TempSlot # At("IRQ", i) /\ TempSlot # At("IRQ", m)
      BY WiredTypes, TempApart DEF ChannelArea
    <3>2. MoveTo(caps, droot, At("IRQ", i), sroot, At("IRQ", m))[c][TempSlot] = caps[c][TempSlot]
      BY <3>1, MoveElsewhere
    <3> QED
      BY <2>1, <3>2 DEF TempSame
  <2> QED
    BY <1>1, <1>6, <2>1 DEF MoveIrqHandler
<1> QED
  BY <1>2, <1>3, <1>4, <1>5, <1>6

\* WriteHandle maps its page at TempPage of the caller's own VSpace.
LEMMA TempWriteHandle ==
    ASSUME Wired, NEW c \in CNode, WriteHandle(c)
    PROVE  caps'[c][TempSlot].at \in {Unmapped, [vs |-> OwnVSpace(c).n, page |-> TempPage]}
<1> DEFINE own == OwnRoot(c)
           from == At("page", alloc[c]["page"] - 1)
           emptied == [caps EXCEPT ![own.n][TempSlot] = NullCap]
           copied == CopyTo(emptied, own, TempSlot, own, from)
           place == [vs |-> OwnVSpace(c).n, page |-> TempPage]
           placed == [copied EXCEPT ![own.n][TempSlot].at = place]
<1>1. IInv /\ job[c].pc = "window" /\ Active(c)
  BY DEF WriteHandle, Wired, Active
<1>2. \/ caps' = emptied
      \/ CanTransfer(emptied, own, TempSlot, own, from) /\ caps' = placed
  BY DEF WriteHandle
<1>3. GoodCap(own) /\ own.n = c /\ GoodCaps(caps) /\ TempSlot \in Slot
  BY <1>1, WiredJob, TempApart DEF IInv, KernelOK
<1>4. GoodCaps(emptied) /\ Drops(caps, emptied, own.n, TempSlot)
  BY <1>3, ClearDrops
<1>5. emptied[c][TempSlot].at = Unmapped
  BY <1>3, <1>4 DEF Drops, NullCap, MkCap
<1>6. CASE CanTransfer(emptied, own, TempSlot, own, from) /\ caps' = placed
  <2>1. from \in Slot
    <3>1. alloc[c]["page"] \in Nat /\ alloc[c]["page"] > 0 /\ alloc[c]["page"] <= PoolSize("page")
      BY <1>1, JobType DEF JobOK, IInv, PdsOK, PoolKind
    <3>2. alloc[c]["page"] - 1 \in Nat /\ alloc[c]["page"] - 1 < PoolSize("page")
      BY <3>1, PoolSizeType DEF PoolKind
    <3> QED
      BY <3>2, PoolSlots DEF PoolKind
  <2>2. GoodCaps(copied)
    <3> HIDE DEF emptied, own, from
    <3> QED
      BY <1>3, <1>4, <1>6, <2>1, CopyAdds
  <2> HIDE DEF copied, place
  <2>3. placed[c][TempSlot].at = place
    BY <1>3, <2>2 DEF GoodCaps, Cap
  <2> QED
    BY <1>6, <2>3 DEF place
<1> QED
  BY <1>2, <1>5, <1>6

LEMMA TempMintIrqBadge ==
    ASSUME Wired, NEW c \in CNode, MintIrqBadge(c)
    PROVE  caps'[c][TempSlot].at = Unmapped
<1> DEFINE own == OwnRoot(c)
           from == At("CHAN", Target(c))
           badge == Badge(Right(c).childId)
           emptied == [caps EXCEPT ![own.n][TempSlot] = NullCap]
<1>1. IInv /\ Active(c)
  BY DEF MintIrqBadge, RightIs, Wired, Active
<1>2. \/ caps' = emptied
      \/ caps' = MintTo(emptied, own, TempSlot, own, from, badge)
  BY DEF MintIrqBadge
<1>3. GoodCap(own) /\ own.n = c /\ GoodCaps(caps) /\ TempSlot \in Slot /\ from \in Slot
  BY <1>1, WiredJob, TempApart, PdSlots DEF IInv, KernelOK, PdArea
<1>4. GoodCaps(emptied) /\ Drops(caps, emptied, own.n, TempSlot)
  BY <1>3, ClearDrops
<1>5. emptied[c][TempSlot].at = Unmapped
  BY <1>3, <1>4 DEF Drops, NullCap, MkCap
<1>6. MintTo(emptied, own, TempSlot, own, from, badge)[c][TempSlot].at = Unmapped
  <2> DEFINE x == emptied[own.n][from]
  <2> HIDE DEF emptied
  <2>1. Shaped(emptied) /\ x \in Cap
    BY <1>3, <1>4 DEF GoodCaps, Shaped
  <2>2. MintTo(emptied, own, TempSlot, own, from, badge)[c][TempSlot] = Minted(x, badge)
    BY <1>3, <2>1, MintAt
  <2> HIDE DEF x
  <2>3. Minted(x, badge).at = Unmapped
    BY <2>1 DEF Minted, Cap
  <2> QED
    BY <2>2, <2>3
<1> QED
  BY <1>2, <1>5, <1>6

LEMMA TempStep ==
    ASSUME Wired, NEW c \in CNode, PdCreateStep(c), Kept(c) PROVE TempOK(c)'
<1>1. CASE caps'[c][TempSlot] = caps[c][TempSlot]
  <2>1. TempOK(c)
    BY DEF Wired
  <2>2. Live(c) => Live(c)' /\ image'[c] = image[c] /\ tcb'[image[c].tcb] = tcb[image[c].tcb]
    BY LiveUntouched DEF Kept, Live
  <2> QED
    BY <1>1, <2>1, <2>2 DEF TempOK
<1>2. CASE WriteHandle(c)
  <2>1. Active(c)
    BY <1>2 DEF WriteHandle, Active
  <2>2. Live(c) /\ OwnVSpace(c).n = tcb[image[c].tcb].vspace
    BY <2>1, OwnIsOwn, SMTT(30)
  <2>3. UNCHANGED <<tcb, image>>
    BY <1>2 DEF WriteHandle, threads
  <2> QED
    BY <1>2, <2>2, <2>3, TempWriteHandle, SMTT(30) DEF TempOK, Live
<1>3. CASE MintIrqBadge(c)
  BY <1>3, TempMintIrqBadge DEF TempOK
<1>4. CASE UNCHANGED caps
  BY <1>1, <1>4
<1>5. UNCHANGED caps \/ CopyFixedCap(c) \/ MapPage(c) \/ WriteHandle(c) \/ MintChannel(c)
      \/ MapShared(c) \/ MintIrqBadge(c) \/ MoveIrqHandler(c) \/ MovePoolCap(c)
  BY Zenon DEF PdCreateStep, AllocateObjects, AssignAsid, SetSpace, BindNotification, NextPage,
     MapTable, SetIpcBuffer, SetUpScheduling, SetUpRegion, SetIrqTarget, SkipControl,
     UnknownRight, Restart
<1> QED
  BY <1>1, <1>2, <1>3, <1>4, <1>5, TempCopyFixedCap, TempMoves DEF TempSame

\* The steps of pd_create (sel4cp.h:1087-1350), of any loader, keep all of it.
LEMMA NextKeepsWired == Wired /\ [Next]_vars => Wired'
<1> SUFFICES ASSUME Wired, [Next]_vars PROVE Wired'
  OBVIOUS
<1>1. IInv'
  BY NextKeeps DEF Wired
<1>2. ASSUME NEW c \in CNode, PdCreateStep(c) PROVE Wired'
  <2>1. Kept(c) /\ OnlyJobOf(c)
    BY <1>2, StepFrame, StepJob
  <2>2. PoolOK'
    <3>1. CASE MovePoolCap(c)
      BY <1>1, <2>1, <3>1, PoolByMove
    <3>2. CASE ~MovePoolCap(c)
      BY <1>1, <1>2, <2>1, <3>2, CapsSteps, PoolByCaps DEF Kept
    <3> QED
      BY <3>1, <3>2
  <2>3. LiveOK'
    BY <1>1, <2>1, LiveSteps
  <2>4. JobWired(c)' /\ TempOK(c)'
    BY <1>1, <1>2, <2>1, StepJobWired, TempStep
  <2>5. \A d \in CNode \ {c} : JobWired(d)' /\ TempOK(d)'
    BY <1>1, <2>1, OthersStay
  <2> QED
    BY <1>1, <2>2, <2>3, <2>4, <2>5 DEF Wired
<1>3. ASSUME NEW c \in CNode, NEW p \in Programs, NEW id \in PdId, Enter(c, p, id) PROVE Wired'
  <2>1. Kept(c) /\ UNCHANGED <<caps, tcb, image, frames>> /\ OnlyJobOf(c) /\ CapsStep(c)
    BY <1>3, EnterFrame
  <2>2. PoolOK'
    BY <1>1, <2>1, PoolByCaps DEF Kept
  <2>3. LiveOK'
    BY <1>1, <2>1, LiveSteps
  <2>4. JobWired(c)'
    BY <1>3, EnterJobWired
  <2>5. TempOK(c)'
    BY <2>1 DEF Wired, TempOK, Live
  <2>6. \A d \in CNode \ {c} : JobWired(d)' /\ TempOK(d)'
    BY <1>1, <2>1, OthersStay
  <2> QED
    BY <1>1, <2>2, <2>3, <2>4, <2>5, <2>6 DEF Wired
<1>4. CASE UNCHANGED vars
  <2>1. PoolOK'
    BY <1>4 DEF vars, Wired, PoolOK, PoolPlain, PoolDistinct, PoolFresh, FreshThreads
  <2>2. LiveOK'
    BY <1>4 DEF vars, Wired, LiveOK, SelfKnown, SelfSignalled, Live
  <2>3. ASSUME NEW c \in CNode PROVE JobWired(c)' /\ TempOK(c)'
    <3>1. JobWired(c) /\ TempOK(c)
      BY DEF Wired
    <3>2. /\ Live(c)' = Live(c) /\ Active(c)' = Active(c) /\ Building(c)' = Building(c)
          /\ Spaced(c)' = Spaced(c) /\ Bound(c)' = Bound(c) /\ MapsForNew(c)' = MapsForNew(c)
          /\ NewRoot(c)' = NewRoot(c)
      BY <1>4 DEF vars, Live, Active, Building, Spaced, Bound, MapsForNew, NewRoot
    <3>3. ObjectsFree(c)' = ObjectsFree(c)
      BY <1>4 DEF vars, ObjectsFree, Thread, Sc, NewSpace, Live
    <3>4. ASSUME NEW m \in 1 .. 13 PROVE Copied(c, m)' = Copied(c, m) /\ RowHeld(c, m)' = RowHeld(c, m)
      BY <1>4 DEF vars, Copied, Building, RowHeld, InNew, Holds, Ntfn, Thread, Sc, NewSpace, NewRoot
    <3>5. FixedCopied(c)'
      BY <3>1, <3>4 DEF JobWired, FixedCopied
    <3>6. ThreadSet(c)'
      BY <1>4, <3>1, <3>2 DEF vars, JobWired, ThreadSet, Thread, Ntfn, NewSpace
    <3> QED
      BY <1>4, <3>1, <3>2, <3>3, <3>5, <3>6 DEF vars, JobWired, TempOK, Live
  <2> QED
    BY <1>1, <2>1, <2>2, <2>3 DEF Wired
<1> QED
  BY <1>2, <1>3, <1>4 DEF Next

----------------------------------------------------------------------------
(* The system at boot *)

LEMMA SlotOfPool ==
    ASSUME NEW s \in Slot, s[1] \in PoolKind
    PROVE  \E i \in PoolIndex(s[1]) : s = At(s[1], i) /\ s[2] = i
<1>1. s \in PoolSlot
  BY DEF Slot, PoolKind, PdArea, ChannelArea, FixedArea
<1>2. PICK k \in PoolKind : s \in {k} \X (0 .. PoolSize(k) - 1)
  BY <1>1 DEF PoolSlot
<1>3. s = <<k, s[2]>> /\ s[1] = k /\ s[2] \in 0 .. PoolSize(k) - 1
  BY <1>2
<1> QED
  BY <1>3 DEF PoolIndex, At

\* A capability that the tool made is one of a pool, the root's own, or pong's.
LEMMA RootCapOrigin ==
    ASSUME NEW s \in Slot, RootCap(s).kind \in PoolKind
    PROVE  \/ s[1] \in PoolKind /\ RootCap(s) = MkCap(s[1], s[2] + 1)
           \/ RootCap(s).n = 0 \/ RootCap(s).n = StaticNum(RootCap(s).kind)
<1>1. \A k, n : MkCap(k, n).kind = k /\ MkCap(k, n).n = n
  BY DEF MkCap
<1>2. {"ep", "fault", "asid", "control", "irq", "shared", "null"} \cap PoolKind = {}
  BY DEF PoolKind
<1>3. NullCap.kind = "null"
  BY DEF NullCap, MkCap
<1> QED
  BY <1>1, <1>2, <1>3 DEF RootCap

LEMMA StaticCapOrigin ==
    ASSUME NEW s \in Slot, Full(StaticCap(s))
    PROVE  StaticCap(s).n = StaticNum(StaticCap(s).kind) /\ s[1] \notin PoolKind /\ s # TempSlot
<1>1. \A k, n : MkCap(k, n).kind = k /\ MkCap(k, n).n = n
  BY DEF MkCap
<1>2. ~Full(NullCap)
  BY DEF NullCap, MkCap, Full
<1>3. s = InputSlot \/ s[1] \in PdArea
  BY <1>2 DEF StaticCap
<1>4. s[1] \notin PoolKind /\ s # TempSlot
  BY <1>3 DEF InputSlot, TempSlot, At, PdArea, PoolKind
<1>5. StaticCap(s).n = StaticNum(StaticCap(s).kind)
  BY <1>1, <1>2 DEF StaticCap
<1> QED
  BY <1>4, <1>5

LEMMA BootCaps ==
    ASSUME Init
    PROVE  /\ \A s \in Slot : caps[0][s] = RootCap(s) /\ caps[StaticNum("cnode")][s] = StaticCap(s)
           /\ \A c \in CNode \ Given, s \in Slot : caps[c][s] = NullCap
           /\ Given \subseteq CNode /\ 0 # StaticNum("cnode")
<1>1. PoolSize("cnode") \in Nat \ {0} /\ StaticNum("cnode") = PoolSize("cnode") + 1
  BY PoolSizeType DEF PoolKind, StaticNum
<1>2. Given \subseteq CNode /\ 0 # StaticNum("cnode")
  BY <1>1, ObjectNumbers DEF Given, CNode, PoolKind
<1> QED
  BY <1>2 DEF Init, Given

LEMMA BootPools ==
    ASSUME Init, NEW c \in CNode, NEW k \in PoolKind, NEW i \in PoolIndex(k)
    PROVE  /\ At(k, i) \in Slot
           /\ caps[c][At(k, i)] = IF c = 0 THEN MkCap(k, i + 1) ELSE NullCap
<1>1. At(k, i) \in Slot
  BY PoolSlots, PoolSizeType DEF PoolIndex
<1>2. RootCap(At(k, i)) = MkCap(k, i + 1)
  <2> DEFINE s == At(k, i)
  <2>1. s[1] = k /\ s[2] = i
    BY DEF At
  <2>2. /\ s \notin {InputSlot, At("CHAN", RootId)} /\ s # FaultSlot /\ s # AsidSlot
        /\ s # ControlSlot /\ s # At("IRQ", RootImage.irq) /\ k # "SHARED"
        /\ k \notin {"TCB", "CNODE", "VSPACE"} /\ k \notin PdArea
    BY DEF At, InputSlot, FaultSlot, AsidSlot, ControlSlot, PdArea, PoolKind
  <2> HIDE DEF s
  <2>3. RootCap(s) = MkCap(k, i + 1)
    BY <2>1, <2>2 DEF RootCap
  <2> QED
    BY <2>3 DEF s
<1>3. StaticCap(At(k, i)) = NullCap
  <2>1. At(k, i) # InputSlot /\ At(k, i)[1] \notin PdArea
    BY DEF At, InputSlot, PdArea, PoolKind
  <2> QED
    BY <2>1 DEF StaticCap
<1> QED
  BY <1>1, <1>2, <1>3, BootCaps DEF Given

\* Nothing outside the pools is an object of the pools.
LEMMA BootOrigin ==
    ASSUME Init, NEW d \in CNode, NEW s \in Slot, NEW k \in PoolKind, NEW i \in PoolIndex(k),
           SameObject(caps[d][s], MkCap(k, i + 1))
    PROVE  d = 0 /\ s = At(k, i)
<1>1. caps[d][s].kind = k /\ caps[d][s].n = i + 1
  BY DEF SameObject, MkCap
<1>2. i + 1 # 0 /\ i + 1 # StaticNum(k) /\ i \in Nat
  BY PoolSizeType DEF PoolIndex, StaticNum
<1>3. Full(caps[d][s])
  BY <1>1 DEF Full, PoolKind
<1>4. d = 0
  <2>1. CASE d = StaticNum("cnode")
    BY <1>1, <1>2, <1>3, <2>1, BootCaps, StaticCapOrigin
  <2>2. CASE d \notin Given
    BY <1>3, <2>2, BootCaps DEF Full, NullCap, MkCap
  <2> QED
    BY <2>1, <2>2 DEF Given
<1>5. s[1] \in PoolKind /\ caps[0][s] = MkCap(s[1], s[2] + 1)
  BY <1>1, <1>2, <1>4, BootCaps, RootCapOrigin
<1>6. PICK m \in PoolIndex(s[1]) : s = At(s[1], m) /\ s[2] = m
  BY <1>5, SlotOfPool
<1>7. s[1] = k /\ m + 1 = i + 1
  BY <1>1, <1>4, <1>5, <1>6 DEF MkCap
<1> QED
  BY <1>2, <1>4, <1>6, <1>7 DEF PoolIndex

LEMMA BootThreads ==
    ASSUME Init
    PROVE  /\ \A i \in PoolIndex("tcb") : tcb[i + 1].sc = None
           /\ tcb[0].running /\ tcb[0].cspace = 0 /\ tcb[0].vspace = 0
           /\ LET t == tcb[StaticNum("tcb")] IN
              t.running /\ t.cspace = StaticNum("cnode") /\ t.vspace = StaticNum("vspace")
<1>1. PoolSize("tcb") \in Nat \ {0} /\ StaticNum("tcb") = PoolSize("tcb") + 1
  BY PoolSizeType DEF PoolKind, StaticNum
<1>2. 0 \in ObjNum("tcb") /\ StaticNum("tcb") \in ObjNum("tcb")
      /\ \A i \in PoolIndex("tcb") : i + 1 \in ObjNum("tcb") /\ i \in Nat /\ i + 1 <= PoolSize("tcb")
  BY <1>1, ObjectNumbers DEF PoolKind, PoolIndex
<1>3. \A i \in PoolIndex("tcb") : tcb[i + 1] = NoTcb
  BY <1>1, <1>2 DEF Init
<1>4. tcb[0].running /\ tcb[0].cspace = 0 /\ tcb[0].vspace = 0
  BY <1>1, <1>2 DEF Init
<1>5. LET t == tcb[StaticNum("tcb")] IN
      t.running /\ t.cspace = StaticNum("cnode") /\ t.vspace = StaticNum("vspace")
  BY <1>1, <1>2 DEF Init
<1> QED
  BY <1>3, <1>4, <1>5 DEF NoTcb

LEMMA InitPoolOK == Init => PoolOK
<1> SUFFICES ASSUME Init PROVE PoolOK
  OBVIOUS
<1>1. ~Full(NullCap) /\ \A k \in PoolKind : \A n : Full(MkCap(k, n))
  BY DEF NullCap, MkCap, Full, PoolKind
<1>2. \A c \in CNode, k \in PoolKind : \A i \in PoolIndex(k) :
         /\ At(k, i) \in Slot
         /\ Full(caps[c][At(k, i)]) => c = 0 /\ caps[c][At(k, i)] = MkCap(k, i + 1)
  BY <1>1, BootPools
<1> DEFINE Plain(k, n) == MkCap(k, n).kind = k /\ MkCap(k, n).n = n
<1>3. \A k, n : Plain(k, n)
  BY DEF MkCap
<1>4. PoolPlain
  <2>1. \A k \in PoolKind : \A i \in PoolIndex(k) : i + 1 \in ObjNum(k)
    BY ObjectNumbers DEF PoolIndex
  <2> QED
    BY <1>2, <1>3, <2>1 DEF PoolPlain
<1>5. \A c \in CNode, k \in PoolKind : \A i \in PoolIndex(k) :
         Full(caps[c][At(k, i)]) =>
            \A d \in CNode, s \in Slot :
               SameObject(caps[d][s], caps[c][At(k, i)]) => d = c /\ s = At(k, i)
  BY <1>2, BootOrigin
<1>6. PoolDistinct
  <2> SUFFICES ASSUME NEW c \in CNode, NEW d \in CNode, NEW k \in PoolKind, NEW i \in PoolIndex(k),
                      NEW m \in PoolIndex(k), Full(caps[c][At(k, i)]),
                      SameObject(caps[c][At(k, i)], caps[d][At(k, m)])
               PROVE  c = d /\ i = m
    BY DEF PoolDistinct
  <2>1. SameObject(caps[d][At(k, m)], caps[c][At(k, i)])
    BY DEF SameObject
  <2>2. d = c /\ At(k, m) = At(k, i)
    BY <1>2, <1>5, <2>1
  <2> QED
    BY <2>2 DEF At
<1>7. \A c \in CNode, k \in PoolKind : alloc[c][k] = 0
  BY DEF Init
<1>8. PoolFresh
  <2> SUFFICES ASSUME NEW c \in CNode, NEW k \in PoolKind, NEW i \in PoolIndex(k),
                      Full(caps[c][At(k, i)])
               PROVE  /\ caps[c][At(k, i)].kind = k
                      /\ \A d \in CNode, s \in Slot :
                            SameObject(caps[d][s], caps[c][At(k, i)]) => d = c /\ s = At(k, i)
    BY <1>7, Zenon DEF PoolFresh, PoolIndex, Full
  <2> QED
    BY <1>2, <1>5, <1>3
<1>9. FreshThreads
  <2>1. \A c \in CNode : \A i \in PoolIndex("tcb") :
           Full(caps[c][At("tcb", i)]) => tcb[caps[c][At("tcb", i)].n].sc = None
    BY <1>2, <1>3, BootThreads DEF PoolKind
  <2> QED
    BY <1>7, <2>1 DEF FreshThreads, PoolIndex, PoolKind
<1> QED
  BY <1>4, <1>6, <1>8, <1>9 DEF PoolOK

\* The static PDs, as the tool leaves them.
LEMMA InitLiveOK == Init => LiveOK
<1> SUFFICES ASSUME Init PROVE LiveOK
  OBVIOUS
<1>1. Given \subseteq CNode /\ 0 # StaticNum("cnode") /\ 0 \in CNode /\ StaticNum("cnode") \in CNode
  BY BootCaps DEF Given
<1>2. /\ image[0] = [id |-> RootId, tcb |-> 0, program |-> RootImage]
      /\ image[StaticNum("cnode")] =
            [id |-> StaticId, tcb |-> StaticNum("tcb"), program |-> StaticImage]
      /\ \A c \in CNode \ Given : image[c] = NoImage
  BY <1>1 DEF Init, Given
<1>3. RootId \in PdId /\ StaticId \in PdId /\ RootId # None /\ StaticId # None
  <2>1. \A n \in PdId : n \in Nat
    BY CapSpaceAssumption
  <2>2. None \notin Nat
    BY DEF None
  <2> QED
    BY <2>1, <2>2, LayoutAssumption
<1>4. Live(0) /\ Live(StaticNum("cnode")) /\ \A c \in CNode \ Given : ~Live(c)
  BY <1>2, <1>3 DEF Live, NoImage
<1>5. /\ 0 \in ObjNum("tcb") /\ StaticNum("tcb") \in ObjNum("tcb")
      /\ 0 \in VSpace /\ StaticNum("vspace") \in VSpace
  BY ObjectNumbers DEF PoolKind, VSpace
<1>6. \A k, n : Full(MkCap(k, n)) <=> k # "null"
  BY DEF Full, MkCap
<1>7. \A a \in PdArea : \A id :
         /\ At(a, id)[1] = a /\ At(a, id)[2] = id /\ a \notin PoolKind
         /\ At(a, id) # InputSlot /\ (a # "CHAN" => At(a, id) # At("CHAN", RootId))
  BY DEF At, PdArea, PoolKind, InputSlot
<1>8. KindIn["TCB"] = "tcb" /\ KindIn["CNODE"] = "cnode" /\ KindIn["VSPACE"] = "vspace" /\ KindIn["CHAN"] = "ntfn"
  BY DEF KindIn
<1>9. SelfKnown(0)
  <2>1. /\ RootCap(At("CNODE", RootId)) = MkCap("cnode", 0)
        /\ RootCap(At("TCB", RootId)) = MkCap("tcb", 0)
        /\ RootCap(At("VSPACE", RootId)) = MkCap("vspace", 0)
    <3>1. \A a \in {"TCB", "CNODE", "VSPACE"} :
             LET s == At(a, RootId) IN
             /\ s[1] = a /\ s[2] = RootId /\ a \notin PoolKind
             /\ s \notin {InputSlot, At("CHAN", RootId)}
      BY <1>7 DEF PdArea
    <3>2. ASSUME NEW a \in {"TCB", "CNODE", "VSPACE"}
          PROVE  RootCap(At(a, RootId)) = MkCap(KindIn[a], 0)
      <4> DEFINE s == At(a, RootId)
      <4>1. s[1] = a /\ s[2] = RootId /\ a \notin PoolKind /\ s \notin {InputSlot, At("CHAN", RootId)}
            /\ RootId # StaticId /\ s # FaultSlot /\ s # AsidSlot /\ s # ControlSlot
            /\ s # At("IRQ", RootImage.irq) /\ a # "SHARED"
        BY <3>1, LayoutAssumption DEF FaultSlot, AsidSlot, ControlSlot, At
      <4> HIDE DEF s
      <4>2. RootCap(s) = MkCap(KindIn[s[1]], 0)
        BY <4>1 DEF RootCap
      <4> QED
        BY <4>1, <4>2 DEF s
    <3> QED
      BY <1>8, <3>2
  <2>2. RootCap(At("CHAN", RootId)) = MkCap("ep", 0) /\ RootCap(InputSlot) = MkCap("ep", 0)
    <3>2. ASSUME NEW s \in {InputSlot, At("CHAN", RootId)} PROVE RootCap(s) = MkCap("ep", 0)
      <4>1. s[1] \notin PoolKind /\ s[1] \notin {"TCB", "CNODE", "VSPACE"} /\ s[1] # "SHARED"
            /\ (s[1] \in PdArea => s[2] # StaticId) /\ s # FaultSlot /\ s # AsidSlot
            /\ s # ControlSlot /\ s # At("IRQ", RootImage.irq)
        BY LayoutAssumption
           DEF InputSlot, FaultSlot, AsidSlot, ControlSlot, At, PoolKind, PdArea
      <4> QED
        BY <3>2, <4>1 DEF RootCap
    <3> QED
      BY <3>2
  <2>3. InputSlot \in Slot /\ \A a \in PdArea : At(a, RootId) \in Slot
    BY <1>3, PdSlots, FixedSlots
  <2>4. /\ caps[0][At("CNODE", RootId)] = MkCap("cnode", 0)
        /\ caps[0][At("TCB", RootId)] = MkCap("tcb", 0)
        /\ caps[0][At("VSPACE", RootId)] = MkCap("vspace", 0)
        /\ Full(caps[0][At("CHAN", RootId)]) /\ Full(caps[0][InputSlot])
    BY <1>6, <2>1, <2>2, <2>3, BootCaps DEF PdArea
  <2>5. image[0].id = RootId /\ image[0].tcb = 0
    BY <1>2
  <2> QED
    BY <1>3, <1>5, <2>4, <2>5, BootThreads DEF SelfKnown
<1>10. SelfKnown(StaticNum("cnode"))
  <2> DEFINE c == StaticNum("cnode")
  <2>1. /\ StaticCap(At("CNODE", StaticId)) = MkCap("cnode", c)
        /\ StaticCap(At("TCB", StaticId)) = MkCap("tcb", StaticNum("tcb"))
        /\ StaticCap(At("VSPACE", StaticId)) = MkCap("vspace", StaticNum("vspace"))
        /\ StaticCap(At("CHAN", StaticId)) = MkCap("ntfn", StaticNum("ntfn"))
        /\ StaticCap(InputSlot) = MkCap("ntfn", StaticNum("ntfn"))
    BY <1>7, <1>8 DEF StaticCap, PdArea
  <2>2. InputSlot \in Slot /\ \A a \in PdArea : At(a, StaticId) \in Slot
    BY <1>3, PdSlots, FixedSlots
  <2> HIDE DEF c
  <2>3. /\ caps[c][At("CNODE", StaticId)] = MkCap("cnode", c)
        /\ caps[c][At("TCB", StaticId)] = MkCap("tcb", StaticNum("tcb"))
        /\ caps[c][At("VSPACE", StaticId)] = MkCap("vspace", StaticNum("vspace"))
        /\ Full(caps[c][At("CHAN", StaticId)]) /\ Full(caps[c][InputSlot])
    BY <1>6, <2>1, <2>2, BootCaps DEF PdArea, c
  <2>4. image[c].id = StaticId /\ image[c].tcb = StaticNum("tcb")
    BY <1>2 DEF c
  <2> QED
    BY <1>3, <1>5, <2>3, <2>4, BootThreads DEF SelfKnown, c
<1> QED
  BY <1>1, <1>4, <1>9, <1>10 DEF LiveOK, Given

LEMMA InitWired == Init => Wired
<1> SUFFICES ASSUME Init PROVE Wired
  OBVIOUS
<1>1. IInv /\ PoolOK /\ LiveOK
  BY InitIInv, InitPoolOK, InitLiveOK
<1>2. ASSUME NEW c \in CNode PROVE JobWired(c)
  <2>1. job[c] = NoJob /\ NoJob.pc = "idle"
    BY DEF Init, NoJob
  <2>2. ~Active(c) /\ ~Building(c)
    BY <2>1 DEF Active, Building
  <2> QED
    BY <2>1, <2>2 DEF JobWired, FixedCopied, ThreadSet, Copied, Spaced, Bound, MapsForNew
<1>3. ASSUME NEW c \in CNode PROVE TempOK(c)
  <2>1. NullCap.at = Unmapped
    BY DEF NullCap, MkCap
  <2>2. RootCap(TempSlot) = NullCap
    <3>1. /\ TempSlot[1] \notin PoolKind /\ TempSlot[1] \notin {"TCB", "CNODE", "VSPACE"}
          /\ TempSlot[1] \notin PdArea /\ TempSlot[1] # "SHARED"
          /\ TempSlot \notin {InputSlot, At("CHAN", RootId)} /\ TempSlot # FaultSlot
          /\ TempSlot # AsidSlot /\ TempSlot # ControlSlot /\ TempSlot # At("IRQ", RootImage.irq)
      BY DEF TempSlot, At, PoolKind, PdArea, InputSlot, FaultSlot, AsidSlot, ControlSlot
    <3> QED
      BY <3>1 DEF RootCap
  <2>3. StaticCap(TempSlot) = NullCap
    <3>1. TempSlot # InputSlot /\ TempSlot[1] \notin PdArea
      BY DEF TempSlot, InputSlot, At, PdArea
    <3> QED
      BY <3>1 DEF StaticCap
  <2>4. caps[c][TempSlot] = NullCap
    BY <2>2, <2>3, BootCaps, FixedSlots DEF Given
  <2> QED
    BY <2>1, <2>4 DEF TempOK
<1> QED
  BY <1>1, <1>2, <1>3 DEF Wired

\* So a PD that runs, whoever made it and whatever calls failed in between, has
\* its own thread and spaces under its id.
LEMMA WiredHolds == Spec => []Wired
  BY InitWired, NextKeepsWired, PTL DEF Spec

\* What an alloc_state still offers (sel4cp.h:856-878, 1095-1146) is of the kind that its
\* pool is for, and no other capability of the system is to the same object: a
\* share that is moved to a new PD, and calls that fail half way, hand out no
\* object twice.
THEOREM PoolsStayFresh == Spec => []PoolFresh
<1>1. Wired => PoolFresh
  BY DEF Wired, PoolOK
<1> QED
  BY <1>1, WiredHolds, PTL

\* A loaded PD that runs finds itself under its id: the copies of the thread, the
\* CSpace, the VSpace and the notification (sel4cp.h:1154-1323), written one by one
\* by a call that other loaders overtake, are those of the thread that Restart
\* started, in the CSpace that it runs with.
THEOREM LoadedFindsItself == Spec => []LoadedIsWired
<1>1. Wired => LoadedIsWired
  <2> SUFFICES ASSUME Wired, NEW c \in Loaded
               PROVE  SelfKnown(c) /\ SelfSignalled(c)
    BY DEF LoadedIsWired, SelfKnown, SelfSignalled
  <2>1. c \in CNode /\ c \notin Given /\ Live(c)
    BY DEF Loaded, Given, Live
  <2> QED
    BY <2>1 DEF Wired, LiveOK
<1> QED
  BY <1>1, WiredHolds, PTL

----------------------------------------------------------------------------
(* The memory of the PDs that run *)

\* No page of v outside the window changes.
SpaceKept(v) == \A p \in Page \ {TempPage} : frames'[v][p] = frames[v][p]

\* Pages are mapped in a VSpace of which no running PD's thread runs.
LEMMA JobSpaceFree ==
    ASSUME Wired, NEW c \in CNode, Bound(c), ~job[c].own, NEW d \in CNode, Live(d)
    PROVE  tcb[image[d].tcb].vspace # JobVSpace(c).n
<1>1. /\ Building(c) /\ Full(NewSpace(c))
      /\ caps[c][At("VSPACE", Target(c))] = NewSpace(c)
  BY BoundObjects DEF Target
<1>2. JobVSpace(c) = NewSpace(c)
  BY <1>1 DEF JobVSpace
<1> QED
  BY <1>1, <1>2 DEF Wired, JobWired, ObjectsFree

LEMMA MappedKeeps ==
    ASSUME Wired, NEW v, NEW p, NEW f, NEW w, frames' = Mapped(v, p, f, w),
           NEW u \in VSpace, u # v.n \/ p = TempPage
    PROVE  SpaceKept(u)
<1>1. \A q \in VSpace : frames[q] \in [Page -> [kind : PoolKind \cup OtherKind, n : Nat, w : BOOLEAN]]
  BY DEF Wired, IInv, KernelOK
<1>2. DOMAIN frames = VSpace
  BY DEF Wired, IInv, KernelOK
<1> DEFINE x == [kind |-> f.kind, n |-> f.n, w |-> w]
           a == v.n
<1>3. frames' = [frames EXCEPT ![a][p] = x]
  BY DEF Mapped
<1> HIDE DEF x, a
<1>4. \A q \in Page \ {TempPage} : frames'[u][q] = frames[u][q]
  BY <1>1, <1>2, <1>3, SMTT(30) DEF a
<1> QED
  BY <1>4 DEF SpaceKept

\* So when the capability in the temporary slot is deleted.
LEMMA WithoutKeeps ==
    ASSUME Wired, NEW c \in CNode, frames' = WithoutMapping(caps[c][TempSlot]),
           NEW u \in VSpace
    PROVE  SpaceKept(u)
<1> DEFINE f == caps[c][TempSlot]
<1>1. f.at # Unmapped => f.at.page = TempPage
  <2>1. TempOK(c)
    BY DEF Wired
  <2> QED
    BY <2>1 DEF TempOK
<1>2. CASE UNCHANGED frames
  BY <1>2 DEF SpaceKept
<1>3. CASE f.at # Unmapped /\ frames' = [frames EXCEPT ![f.at.vs][f.at.page] = NoFrame]
  <2> DEFINE a == f.at.vs
             x == NoFrame
  <2>1. frames' = [frames EXCEPT ![a][TempPage] = x]
    BY <1>1, <1>3
  <2>2. /\ DOMAIN frames = VSpace
        /\ \A q \in VSpace : frames[q] \in [Page -> [kind : PoolKind \cup OtherKind, n : Nat, w : BOOLEAN]]
    BY DEF Wired, IInv, KernelOK
  <2> HIDE DEF a, x
  <2> QED
    BY <2>1, <2>2 DEF SpaceKept
<1> QED
  BY <1>2, <1>3 DEF WithoutMapping

LEMMA SpacesKept ==
    ASSUME Wired, NEW c \in CNode, PdCreateStep(c), NEW d \in CNode, Live(d),
           tcb[image[d].tcb].vspace \in VSpace
    PROVE  SpaceKept(tcb[image[d].tcb].vspace)
<1> DEFINE u == tcb[image[d].tcb].vspace
<1>1. CASE UNCHANGED frames
  BY <1>1 DEF SpaceKept
<1>2. CASE MapPage(c) \/ MapShared(c)
  <2>1. Bound(c) /\ ~job[c].own
    BY <1>2 DEF MapPage, MapShared, Bound, Spaced, Building, Wired, JobWired, MapsForNew
  <2>2. u # JobVSpace(c).n
    BY <2>1, JobSpaceFree
  <2>3. UNCHANGED frames \/ \E p, f, w : frames' = Mapped(JobVSpace(c), p, f, w)
    BY <1>2, Zenon DEF MapPage, MapShared
  <2> HIDE DEF u
  <2> QED
    BY <1>1, <2>2, <2>3, MappedKeeps, SMTT(30) DEF u
<1>3. CASE WriteHandle(c) \/ MintIrqBadge(c)
  <2>1. OwnRoot(c).n = c
    BY <1>3, OwnIsOwn, ZenonT(60) DEF WriteHandle, MintIrqBadge, RightIs, Active
  <2>2. \/ frames' = WithoutMapping(caps[c][TempSlot])
        \/ \E f : frames' = Mapped(OwnVSpace(c), TempPage, f, TRUE)
    BY <1>3, <2>1 DEF WriteHandle, MintIrqBadge
  <2> QED
    BY <2>2, MappedKeeps, WithoutKeeps, Zenon
<1>4. UNCHANGED frames \/ MapPage(c) \/ MapShared(c) \/ WriteHandle(c) \/ MintIrqBadge(c)
  BY Zenon DEF PdCreateStep, MovePoolCap, AllocateObjects, AssignAsid, CopyFixedCap, SetSpace,
     BindNotification, NextPage, MapTable, SetIpcBuffer, SetUpScheduling, MintChannel,
     SetUpRegion, SetIrqTarget, MoveIrqHandler, SkipControl, UnknownRight, Restart, space
<1> QED
  BY <1>1, <1>2, <1>3, <1>4

\* Building a PD, by whichever loaders at once, changes neither the thread nor the
\* program of a PD that runs, and no page of its memory but the window through
\* which a loader writes (sel4cp.h:589-642).
THEOREM RunningPdsUndisturbed == Spec => RunningUndisturbed
<1> DEFINE Undisturbed ==
       \A c \in CNode : image[c] # NoImage =>
          LET t == image[c].tcb IN
          /\ image'[c] = image[c] /\ tcb'[t] = tcb[t]
          /\ \A p \in Page \ {TempPage} :
                frames'[tcb[t].vspace][p] = frames[tcb[t].vspace][p]
<1>1. ASSUME Wired, NEW d \in CNode, Live(d) PROVE tcb[image[d].tcb].vspace \in VSpace
  BY <1>1 DEF Wired, LiveOK, SelfKnown
<1>2. ASSUME Wired, NEW c \in CNode, PdCreateStep(c) PROVE Undisturbed
  BY <1>1, <1>2, StepFrame, LiveUntouched, SpacesKept DEF Kept, SpaceKept, Live
<1>3. ASSUME NEW c, NEW p, NEW id, Enter(c, p, id) PROVE Undisturbed
  BY <1>3 DEF Enter, threads, space
<1>4. Wired /\ [Next]_vars => [Undisturbed]_vars
  BY <1>2, <1>3 DEF Next
<1> QED
  BY <1>4, WiredHolds, PTL DEF Spec, RunningUndisturbed

----------------------------------------------------------------------------
(* The numbers of the slots: IdAssumption is used from here on only. *)

\* The two halves of a slot.
LEMMA SlotParts ==
    ASSUME NEW s \in LayoutSlot
    PROVE  /\ s = <<s[1], s[2]>> /\ s[2] \in Nat
           /\ \/ s[1] \in PoolKind /\ s[2] < PoolSize(s[1])
              \/ s[1] \in PdArea \cup IdArea /\ s[2] < 64
              \/ s[1] = "SHARED"
              \/ s[1] \in SingleArea /\ s[2] = 0
<1>1. CASE s \in PoolSlot
  <2>1. PICK k \in PoolKind : s \in {k} \X (0 .. PoolSize(k) - 1)
    BY <1>1 DEF PoolSlot
  <2>2. s[1] = k /\ s[2] \in 0 .. PoolSize(k) - 1 /\ s = <<s[1], s[2]>>
    BY <2>1
  <2> QED
    BY <2>2, PoolSizeType
<1>2. CASE s \in PdArea \X PdId
  <2>1. PICK a \in PdArea, i \in PdId : s = <<a, i>>
    BY <1>2
  <2>2. i \in 0 .. 63
    BY IdAssumption
  <2> QED
    BY <2>1, <2>2
<1>3. CASE s \in IdArea \X ChannelId
  <2>1. PICK a \in IdArea, i \in ChannelId : s = <<a, i>>
    BY <1>3
  <2>2. i \in 0 .. 63
    BY IdAssumption
  <2> QED
    BY <2>1, <2>2
<1>4. CASE s \in {"SHARED"} \X SharedIdx
  <2>1. s[1] = "SHARED" /\ s[2] \in SharedIdx /\ s = <<s[1], s[2]>>
    BY <1>4
  <2> QED
    BY <2>1, CapSpaceAssumption
<1>5. CASE s \in SingleArea \X {0}
  <2>1. s[1] \in SingleArea /\ s[2] = 0 /\ s = <<s[1], s[2]>>
    BY <1>5
  <2> QED
    BY <2>1
<1> QED
  <2>1. s \in Slot => s \in PoolSlot \/ s \in PdArea \X PdId \/ s \in IdArea \X ChannelId
                      \/ s \in {"SHARED"} \X SharedIdx \/ s \in SingleArea \X {0}
    BY DEF Slot, IdArea, ChannelArea, SingleArea, FixedArea
  <2> QED
    BY <1>1, <1>2, <1>3, <1>4, <1>5, <2>1 DEF LayoutSlot

\* The bases of the areas that hold more than one slot, in the order of the
\* code, each after the end of the one before.
LEMMA AreasFollow ==
    /\ Base("OUT") = 10 /\ Base("OUT_EP") = 74 /\ Base("IRQ") = 138 /\ Base("TCB") = 202
    /\ Base("SC") = 266 /\ Base("CHAN") = 330 /\ Base("CNODE") = 394
    /\ Base("VSPACE") = 458 /\ Base("tcb") = 522
    /\ Base("ntfn") = Base("tcb") + PoolSize("tcb")
    /\ Base("cnode") = Base("ntfn") + PoolSize("ntfn")
    /\ Base("sc") = Base("cnode") + PoolSize("cnode")
    /\ Base("vspace") = Base("sc") + PoolSize("sc")
    /\ Base("pud") = Base("vspace") + PoolSize("vspace")
    /\ Base("pd") = Base("pud") + PoolSize("pud")
    /\ Base("pt") = Base("pd") + PoolSize("pd")
    /\ Base("page") = Base("pt") + PoolSize("pt")
    /\ Base("SHARED") = Base("page") + PoolSize("page")
  BY DEF Base, BASE_OUTPUT_NOTIFICATION_CAP, BASE_OUTPUT_ENDPOINT_CAP, BASE_IRQ_CAP,
     BASE_TCB_CAP, BASE_SCHED_CONTEXT_CAP, BASE_UNBADGED_CHANNEL_CAP, BASE_CNODE_CAP,
     BASE_VSPACE_CAP, BASE_TCB_POOL, BASE_NOTIFICATION_POOL, BASE_CNODE_POOL,
     BASE_SCHEDCONTEXT_POOL, BASE_VSPACE_POOL, BASE_PAGE_UPPER_DIRECTORY_POOL,
     BASE_PAGE_DIRECTORY_POOL, BASE_PAGE_TABLE_POOL, BASE_PAGE_POOL,
     BASE_SHARED_MEMORY_REGION_PAGES

LEMMA BaseType == ASSUME NEW s \in LayoutSlot PROVE Base(s[1]) \in Nat
<1>1. \A k \in PoolKind : PoolSize(k) \in Nat
  BY PoolSizeType
<1>2. \A k \in PoolKind : Base(k) \in Nat
  BY <1>1, AreasFollow DEF PoolKind
<1>3. \A a \in PdArea \cup IdArea \cup {"SHARED"} : Base(a) \in Nat
  BY <1>1, <1>2, AreasFollow DEF PdArea, IdArea, ChannelArea, PoolKind
<1>4. \A a \in SingleArea : Base(a) \in 1 .. 9
  BY DEF Base, SingleArea, FixedArea
<1> QED
  BY <1>2, <1>3, <1>4, SlotParts

\* The areas lie one after the other, and the slots of an area inside it.
LEMMA SlotRange ==
    ASSUME NEW s \in LayoutSlot
    PROVE  /\ Number(s) \in Nat
           /\ s[1] \in SingleArea => Number(s) = Base(s[1]) /\ Number(s) < Base("OUT")
           /\ s[1] \notin SingleArea => Number(s) >= Base(s[1])
           /\ s[1] \in PdArea \cup IdArea => Number(s) < Base(s[1]) + 64
           /\ s[1] \in PoolKind => Number(s) < Base(s[1]) + PoolSize(s[1])
<1>1. \A k \in PoolKind : PoolSize(k) \in Nat
  BY PoolSizeType
<1>2. Base(s[1]) \in Nat
  BY BaseType
<1>3. \A a \in SingleArea : Base(a) \in 1 .. 9
  BY DEF Base, SingleArea, FixedArea
<1>4. s[1] \in SingleArea => s[2] = 0
  BY SlotParts DEF SingleArea, FixedArea, PoolKind, PdArea, IdArea, ChannelArea
<1>5. s[1] \in PdArea \cup IdArea => s[2] < 64
  BY SlotParts DEF SingleArea, FixedArea, PoolKind, PdArea, IdArea, ChannelArea
<1>6. s[1] \in PoolKind => s[2] < PoolSize(s[1])
  BY SlotParts DEF SingleArea, FixedArea, PoolKind, PdArea, IdArea, ChannelArea
<1>7. s[2] \in Nat
  BY SlotParts
<1> QED
  BY <1>1, <1>2, <1>3, <1>4, <1>5, <1>6, <1>7, AreasFollow DEF Number

\* No two slots coincide, whatever the sizes of the pools: a capability put
\* into a slot of one area never lands in another's (sel4cp.h:49-72).
THEOREM LayoutInjective == \A s, t \in LayoutSlot : Distinct(s, t)
<1> SUFFICES ASSUME NEW s \in LayoutSlot, NEW t \in LayoutSlot, Number(s) = Number(t)
             PROVE  s = t
  BY DEF Distinct
<1>1. s[1] = t[1]
  <2>1. \A k \in PoolKind : PoolSize(k) \in Nat
    BY PoolSizeType
  <2>2. s[1] \in PoolKind \cup PdArea \cup IdArea \cup SingleArea \cup {"SHARED"}
    BY SlotParts
  <2>3. t[1] \in PoolKind \cup PdArea \cup IdArea \cup SingleArea \cup {"SHARED"}
    BY SlotParts, SMTT(30)
  <2>4. s[1] \in SingleArea \/ t[1] \in SingleArea => s[1] = t[1]
    <3>1. \A a \in PoolKind \cup PdArea \cup IdArea \cup {"SHARED"} :
              Base(a) \in Nat /\ Base(a) >= Base("OUT")
      BY <2>1, AreasFollow DEF PoolKind, PdArea, IdArea, ChannelArea
    <3>2. s[1] \in SingleArea <=> t[1] \in SingleArea
      BY <2>2, <2>3, <3>1, SlotRange, AreasFollow
    <3>3. \A a, b \in SingleArea : Base(a) = Base(b) => a = b
      BY DEF Base, SingleArea, FixedArea
    <3> QED
      BY <3>2, <3>3, SlotRange
  <2>5. s[1] \notin SingleArea /\ t[1] \notin SingleArea => s[1] = t[1]
    BY <2>1, <2>2, <2>3, SlotRange, AreasFollow
       DEF SingleArea, FixedArea, PoolKind, PdArea, IdArea, ChannelArea
  <2> QED
    BY <2>4, <2>5
<1>2. s[2] = t[2]
  <2>1. Base(s[1]) \in Nat
    BY BaseType
  <2> QED
    BY <1>1, <2>1, SlotParts DEF Number
<1> QED
  BY <1>1, <1>2, SlotParts
=============================================================================

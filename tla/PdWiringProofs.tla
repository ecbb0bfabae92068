---------------------------- MODULE PdWiringProofs ----------------------------
(* Proofs about what pd_create sets up, for any number of loaders at once:    *)
(* channels come in pairs (invariant Linked), the UART interrupt and the role *)
(* of the loader are handed on, never shared (HandedOver, OneRole), and the   *)
(* memory of a loaded PD is the program that was sent for it (Imaged).        *)
EXTENDS PdCreateProofs

----------------------------------------------------------------------------
(* The channels *)

\* A CNode that a pool offers is empty.
EmptyFresh ==
    \A c \in CNode : \A i \in PoolIndex("cnode") :
        LET x == caps[c][At("cnode", i)] IN
        i >= alloc[c]["cnode"] /\ Full(x) => \A s \in Slot : ~Full(caps[x.n][s])

Root(x) == x.kind = "cnode"

\* A CSpace has one id, whoever knows it.
NamedOnce ==
    \A c, d \in CNode, a, b \in PdId :
        LET x == caps[c][At("CNODE", a)] IN
        Root(x) /\ SameObject(x, caps[d][At("CNODE", b)]) => a = b

\* What a PD is signalled through is what it waits for.
ChanIsInput ==
    \A d \in CNode, a \in PdId :
        LET x == caps[d][At("CNODE", a)] IN
        Root(x) /\ Full(caps[x.n][At("CHAN", a)]) =>
            SameObject(caps[x.n][At("CHAN", a)], caps[x.n][InputSlot])

\* The capability signals the channel m of b.
Signals(x, b, m) == Full(x) /\ SameObject(x, caps[b][InputSlot]) /\ x.badge = Badge(m)

Paired(a, i) ==
    \E b \in CNode, m \in ChannelId :
        /\ Signals(caps[a][At("OUT", i)], b, m)
        /\ Signals(caps[b][At("OUT", m)], a, i)

\* The first mint of a channel has been made, the second is next.
Pending(c, i) ==
    /\ RightIs(c, "channel") /\ job[c].i # 0 /\ i = Right(c).ownId
    /\ Root(PdRoot(c, Right(c).target))
    /\ Signals(caps[NewRoot(c).n][At("OUT", i)], PdRoot(c, Right(c).target).n, Right(c).targetId)

\* Nobody knows the new CSpace before the call gives it its id.
JobNamed(c) ==
    Active(c) /\ Full(NewRoot(c)) =>
        \A d \in CNode, a \in PdId :
            SameObject(caps[d][At("CNODE", a)], NewRoot(c)) => a = job[c].id /\ Copied(c, 10)

JobPaired(c) ==
    /\ Active(c) /\ Full(NewRoot(c)) =>
          \A i \in ChannelId :
              Full(caps[NewRoot(c).n][At("OUT", i)]) => Paired(NewRoot(c).n, i) \/ Pending(c, i)
    /\ RightIs(c, "channel") /\ job[c].i # 0 => Pending(c, Right(c).ownId)

OutsPaired ==
    \A a \in Loaded, i \in ChannelId : Full(caps[a][At("OUT", i)]) => Paired(a, i)

Linked ==
    /\ Wired /\ EmptyFresh /\ NamedOnce /\ ChanIsInput /\ OutsPaired
    /\ \A c \in CNode : JobNamed(c) /\ JobPaired(c)

----------------------------------------------------------------------------
(* What a step does to the slots that connect PDs *)

Link(s) == s[1] \in {"CNODE", "CHAN", "OUT", "INPUT"}

\* The CSpaces that a call writes to.
Reached(c, x) ==
    \/ x = c
    \/ \E s \in Slot : /\ NotPool(s) \/ s = At("cnode", job[c].cnode)
                       /\ Root(caps[c][s]) /\ caps[c][s].n = x

\* A step of c that connects nothing.
Quiet(c) ==
    \A x \in CNode, s \in Slot : caps'[x][s] = caps[x][s] \/ (Reached(c, x) /\ ~Link(s))

LEMMA LinkSlots ==
    /\ InputSlot \in Slot /\ Link(InputSlot) /\ ~Link(TempSlot)
    /\ \A i : Link(At("CNODE", i)) /\ Link(At("CHAN", i)) /\ Link(At("OUT", i))
              /\ ~Link(At("IRQ", i)) /\ ~Link(At("SHARED", i))
    /\ \A k \in PoolKind : \A i : ~Link(At(k, i))
    /\ \A a \in PdId : At("CNODE", a) \in Slot /\ At("CHAN", a) \in Slot
    /\ \A i \in ChannelId : At("OUT", i) \in Slot
<1>1. \A a \in PdId : At("CNODE", a) \in Slot /\ At("CHAN", a) \in Slot
  BY PdSlots DEF PdArea
<1>2. \A i \in ChannelId : At("OUT", i) \in Slot
  BY ChannelSlots DEF ChannelArea
<1> QED
  BY <1>1, <1>2, FixedSlots DEF Link, At, InputSlot, TempSlot, PoolKind

LEMMA RootsReached ==
    ASSUME Wired, NEW c \in CNode, Active(c)
    PROVE  /\ OwnRoot(c).n = c /\ Reached(c, c)
           /\ Root(NewRoot(c)) => Reached(c, NewRoot(c).n)
           /\ \A pd \in PdId : Root(PdRoot(c, pd)) => Reached(c, PdRoot(c, pd).n)
<1>1. OwnRoot(c).n = c
  BY OwnIsOwn
<1>2. At("cnode", job[c].cnode) \in Slot
  BY JobCaps DEF Active, Wired
<1>3. \A pd \in PdId : At("CNODE", pd) \in Slot /\ NotPool(At("CNODE", pd))
  BY LinkSlots, NotPoolSlots DEF PdArea
<1> QED
  BY <1>1, <1>2, <1>3 DEF Reached, NewRoot, PdRoot

\* cs2 is cs but for slots of d that are no link.
Calm(cs, cs2, d) == \A e \in CNode, r \in Slot : cs2[e][r] = cs[e][r] \/ (e = d /\ ~Link(r))

LEMMA PutQuiet ==
    ASSUME NEW cs, Shaped(cs), NEW d, NEW s, NEW x, ~Link(s), NEW e \in CNode, NEW r \in Slot
    PROVE  [cs EXCEPT ![d][s] = x][e][r] = cs[e][r] \/ (e = d /\ ~Link(r))
  BY DEF Shaped

LEMMA MapQuiet ==
    ASSUME NEW cs, Shaped(cs), NEW d, NEW s, NEW p, ~Link(s)
    PROVE  Shaped([cs EXCEPT ![d][s].at = p]) /\ Calm(cs, [cs EXCEPT ![d][s].at = p], d)
<1> DEFINE x == [cs[d][s] EXCEPT !.at = p]
           cs2 == [cs EXCEPT ![d][s].at = p]
<1>1. CASE d \in CNode /\ s \in Slot
  <2>1. cs2 = [cs EXCEPT ![d][s] = x]
    BY <1>1 DEF Shaped
  <2> HIDE DEF x
  <2> QED
    BY <2>1, PutQuiet DEF Shaped, Calm
<1>2. CASE ~(d \in CNode /\ s \in Slot)
  BY <1>2 DEF Shaped, Calm
<1> QED
  BY <1>1, <1>2

LEMMA MintCalm ==
    ASSUME NEW cs, Shaped(cs), NEW droot, NEW ds, ~Link(ds), NEW sroot, NEW ss, NEW badge
    PROVE  Calm(cs, MintTo(cs, droot, ds, sroot, ss, badge), droot.n)
           /\ Shaped(MintTo(cs, droot, ds, sroot, ss, badge))
<1>1. Calm(cs, MintTo(cs, droot, ds, sroot, ss, badge), droot.n)
  BY MintAt DEF Calm
<1>2. Shaped(MintTo(cs, droot, ds, sroot, ss, badge))
  BY DEF Shaped, MintTo
<1> QED
  BY <1>1, <1>2

LEMMA CopyCalm ==
    ASSUME NEW cs, Shaped(cs), NEW droot, NEW ds, ~Link(ds), NEW sroot, NEW ss
    PROVE  Calm(cs, CopyTo(cs, droot, ds, sroot, ss), droot.n)
           /\ Shaped(CopyTo(cs, droot, ds, sroot, ss))
  BY MintCalm DEF CopyTo

LEMMA MoveSlots ==
    ASSUME NEW cs, Shaped(cs), NEW droot, NEW ds, NEW sroot, NEW ss
    PROVE  \A e \in CNode, r \in Slot :
              \/ MoveTo(cs, droot, ds, sroot, ss)[e][r] = cs[e][r]
              \/ (e = droot.n /\ r = ds) \/ (e = sroot.n /\ r = ss)
  BY MoveAt

LEMMA QuietMoves ==
    ASSUME Wired, NEW c \in CNode,
           MovePoolCap(c) \/ MapPage(c) \/ MapShared(c) \/ MoveIrqHandler(c)
    PROVE  Quiet(c)
<1>1. CASE UNCHANGED caps
  BY <1>1 DEF Quiet
<1>2. CASE MovePoolCap(c)
  <2> DEFINE n == NewRoot(c).n
  <2>1. Active(c) /\ Reached(c, c)
    BY <1>2, MovePoolCapMoves, RootsReached
  <2>2. ASSUME NEW k \in PoolKind, NEW i, NEW m, Full(NewRoot(c)),
               Moves(caps, caps', n, At(k, i), c, At(k, m))
        PROVE  Quiet(c)
    <3>1. Reached(c, n)
      <4>1. NewRoot(c) = MkCap("cnode", NewRoot(c).n)
        BY <2>1, <2>2, RootObject
      <4>2. \A x : MkCap("cnode", x).kind = "cnode"
        BY DEF MkCap
      <4>3. Root(NewRoot(c))
        BY <4>1, <4>2 DEF Root
      <4> QED
        BY <2>1, <4>3, RootsReached
    <3>2. ~Link(At(k, i)) /\ ~Link(At(k, m))
      BY LinkSlots
    <3> HIDE DEF n
    <3> QED
      BY <2>1, <2>2, <3>1, <3>2 DEF Moves, Quiet
  <2> QED
    BY <1>1, <1>2, <2>2, MovePoolCapMoves
<1>3. CASE MapPage(c)
  <2>1. ASSUME NEW i, NEW p, caps' = [caps EXCEPT ![c][At("page", i)].at = p] PROVE Quiet(c)
    <3>1. ~Link(At("page", i)) /\ Shaped(caps)
      BY LinkSlots, WiredTypes DEF PoolKind
    <3>2. Reached(c, c)
      BY <1>3, RootsReached DEF MapPage, Active
    <3>3. Calm(caps, caps', c)
      BY <2>1, <3>1, MapQuiet
    <3> QED
      BY <3>2, <3>3 DEF Quiet, Calm
  <2> QED
    BY <1>1, <1>3, <2>1, Zenon DEF MapPage
<1>4. CASE MapShared(c)
  <2> DEFINE slot == At("SHARED", Right(c).id + job[c].i)
             to == At("SHARED", job[c].shared)
             root == PdRoot(c, job[c].id)
             mapped(p) == [caps EXCEPT ![c][slot].at = p]
  <2>1. ~Link(slot) /\ ~Link(to)
    BY LinkSlots, SMTT(30)
  <2>2. Active(c) /\ Reached(c, c)
    BY <1>4, RootsReached DEF MapShared, Active
  <2>3. Root(root) => Reached(c, root.n)
    BY <2>2, RootsReached, WiredJob
  <2>4. ASSUME NEW p PROVE Shaped(mapped(p)) /\ Calm(caps, mapped(p), c)
    <3>1. Shaped(caps)
      BY WiredTypes
    <3> HIDE DEF slot
    <3> QED
      BY <2>1, <3>1, MapQuiet
  <2>5. \/ UNCHANGED caps
        \/ \E p : caps' = mapped(p)
        \/ \E p, sroot : Root(root) /\ caps' = CopyTo(mapped(p), root, to, sroot, slot)
    BY <1>4, Zenon DEF MapShared, CanTransfer, Root
  <2> HIDE DEF mapped, slot, root, to
  <2>6. ASSUME NEW p, NEW sroot, Root(root), caps' = CopyTo(mapped(p), root, to, sroot, slot)
        PROVE  Quiet(c)
    <3>1. Shaped(mapped(p)) /\ Calm(caps, mapped(p), c)
      BY <2>4
    <3>2. Calm(mapped(p), caps', root.n)
      BY <2>1, <2>6, <3>1, CopyCalm
    <3> QED
      BY <2>2, <2>3, <2>6, <3>1, <3>2 DEF Quiet, Calm
  <2> QED
    BY <1>1, <2>2, <2>4, <2>5, <2>6 DEF Quiet, Calm
<1>5. CASE MoveIrqHandler(c)
  <2> DEFINE root == PdRoot(c, Target(c))
  <2>1. ASSUME NEW i, NEW m, Root(root),
               caps' = MoveTo(caps, root, At("IRQ", i), OwnRoot(c), At("IRQ", m))
        PROVE  Quiet(c)
    <3>1. Active(c)
      BY <1>5 DEF MoveIrqHandler, Active
    <3>2. Reached(c, c) /\ Reached(c, root.n) /\ OwnRoot(c).n = c
      BY <2>1, <3>1, RootsReached, WiredJob
    <3>3. Shaped(caps) /\ ~Link(At("IRQ", i)) /\ ~Link(At("IRQ", m))
      BY WiredTypes, LinkSlots
    <3> HIDE DEF root
    <3>4. \A e \in CNode, r \in Slot :
             \/ caps'[e][r] = caps[e][r]
             \/ (e = root.n /\ r = At("IRQ", i)) \/ (e = OwnRoot(c).n /\ r = At("IRQ", m))
      BY <2>1, <3>3, MoveSlots
    <3> QED
      BY <3>2, <3>3, <3>4 DEF Quiet
  <2> QED
    BY <1>1, <1>5, <2>1 DEF MoveIrqHandler, CanTransfer, Root
<1> QED
  BY <1>2, <1>3, <1>4, <1>5

\* The temporary slot is emptied and filled again.
LEMMA QuietTemp ==
    ASSUME Wired, NEW c \in CNode, WriteHandle(c) \/ MintIrqBadge(c)
    PROVE  Quiet(c)
<1> DEFINE own == OwnRoot(c)
           emptied == [caps EXCEPT ![own.n][TempSlot] = NullCap]
<1>1. Active(c)
  BY Zenon DEF WriteHandle, MintIrqBadge, RightIs, Active
<1>2. own.n = c /\ Reached(c, c)
  BY <1>1, RootsReached
<1>3. GoodCaps(caps) /\ Shaped(caps) /\ ~Link(TempSlot) /\ TempSlot \in Slot
  BY WiredTypes, LinkSlots, TempApart DEF IInv, KernelOK
<1>4. Drops(caps, emptied, own.n, TempSlot) /\ Shaped(emptied)
  <2>1. GoodCaps(emptied) /\ Drops(caps, emptied, own.n, TempSlot)
    BY <1>3, ClearDrops
  <2> HIDE DEF emptied
  <2> QED
    BY <2>1 DEF GoodCaps, Shaped
<1>5. \A e \in CNode, r \in Slot : emptied[e][r] = caps[e][r] \/ (e = c /\ r = TempSlot)
  <2> HIDE DEF emptied
  <2> QED
    BY <1>2, <1>4 DEF Drops
<1>6. ASSUME NEW from, NEW badge, caps' = MintTo(emptied, own, TempSlot, own, from, badge)
      PROVE  Quiet(c)
  <2> HIDE DEF emptied, own
  <2>1. Calm(emptied, caps', own.n)
    BY <1>3, <1>4, <1>6, MintCalm
  <2> QED
    BY <1>2, <1>3, <1>5, <2>1 DEF Quiet, Calm
<1>7. CASE caps' = emptied
  <2> HIDE DEF emptied
  <2> QED
    BY <1>2, <1>3, <1>5, <1>7 DEF Quiet
<1>8. ASSUME NEW from, NEW p,
             caps' = [CopyTo(emptied, own, TempSlot, own, from) EXCEPT ![own.n][TempSlot].at = p]
      PROVE  Quiet(c)
  <2> DEFINE copied == CopyTo(emptied, own, TempSlot, own, from)
  <2>1. Shaped(copied) /\ Calm(emptied, copied, own.n)
    <3> HIDE DEF emptied, own
    <3> QED
      BY <1>3, <1>4, CopyCalm
  <2> HIDE DEF copied, emptied, own
  <2>2. caps' = [copied EXCEPT ![own.n][TempSlot].at = p]
    BY <1>8 DEF copied
  <2>3. Calm(copied, caps', own.n)
    BY <1>3, <2>1, <2>2, MapQuiet
  <2> QED
    BY <1>2, <1>3, <1>5, <2>1, <2>3 DEF Quiet, Calm
<1>9. CASE WriteHandle(c)
  <2> DEFINE from == At("page", alloc[c]["page"] - 1)
             p == [vs |-> OwnVSpace(c).n, page |-> TempPage]
  <2>1. \/ caps' = emptied
        \/ caps' = [CopyTo(emptied, own, TempSlot, own, from) EXCEPT ![own.n][TempSlot].at = p]
    BY <1>9, Zenon DEF WriteHandle
  <2> HIDE DEF emptied, own, from, p
  <2> QED
    BY <1>7, <1>8, <2>1
<1>10. CASE MintIrqBadge(c)
  <2>1. \/ caps' = emptied
        \/ caps' = MintTo(emptied, own, TempSlot, own, At("CHAN", Target(c)), Badge(Right(c).childId))
    BY <1>10 DEF MintIrqBadge
  <2> HIDE DEF emptied, own
  <2> QED
    BY <1>6, <1>7, <2>1
<1> QED
  BY <1>9, <1>10

LEMMA QuietSteps ==
    ASSUME Wired, NEW c \in CNode, PdCreateStep(c), ~CopyFixedCap(c), ~MintChannel(c)
    PROVE  Quiet(c)
<1>1. CASE UNCHANGED caps
  BY <1>1 DEF Quiet
<1>2. UNCHANGED caps \/ MapPage(c) \/ WriteHandle(c) \/ MapShared(c) \/ MintIrqBadge(c)
      \/ MoveIrqHandler(c) \/ MovePoolCap(c)
  BY Zenon DEF PdCreateStep, AllocateObjects, AssignAsid, SetSpace, BindNotification, NextPage,
     MapTable, SetIpcBuffer, SetUpScheduling, SetUpRegion, SetIrqTarget, SkipControl,
     UnknownRight, Restart
<1> QED
  BY <1>1, <1>2, QuietMoves, QuietTemp

----------------------------------------------------------------------------
(* The copies of the fixed capabilities *)

\* The links that a copy of FixedCaps makes.
NewLink(c, x, y) ==
    LET id == job[c].id
        m == job[c].k
        new == NewRoot(c)
    IN  /\ job[c].pc = "fixed" /\ Root(new) /\ ~Full(caps[x][y])
        /\ \/ m = 2 /\ x = new.n /\ y = InputSlot
           \/ m = 3 /\ x = new.n /\ y = At("CHAN", id)
           \/ m = 4 /\ x = c /\ y = At("CHAN", id)
           \/ /\ (m = 10 /\ x = new.n) \/ (m = 11 /\ x = c)
              /\ y = At("CNODE", id) /\ SameObject(caps'[x][y], new)

LEMMA LinkRows ==
    ASSUME NEW c, NEW m \in 1 .. 13, NEW row, row = FixedCaps(c)[m], Link(row.dst)
    PROVE  LET id == job[c].id IN
           \/ m = 2 /\ row.into = "new" /\ row.dst = InputSlot /\ row.of = "own"
           \/ m = 3 /\ row.into = "new" /\ row.dst = At("CHAN", id) /\ row.of = "new"
           \/ m = 4 /\ row.into = "own" /\ row.dst = At("CHAN", id) /\ row.of = "new"
           \/ /\ (m = 10 /\ row.into = "new") \/ (m = 11 /\ row.into = "own")
              /\ row.dst = At("CNODE", id) /\ row.of = "own" /\ row.src = At("cnode", job[c].cnode)
<1> DEFINE f == FixedCaps(c)
           j == job[c]
<1>1. /\ f[1].dst = ControlSlot /\ f[5].dst = AsidSlot
      /\ f[6].dst = At("TCB", j.id) /\ f[7].dst = At("TCB", j.id)
      /\ f[8].dst = At("SC", j.id) /\ f[9].dst = At("SC", j.id)
      /\ f[12].dst = At("VSPACE", j.id) /\ f[13].dst = At("VSPACE", j.id)
  BY DEF FixedCaps, Row
<1>2. \A a \in {"SCHED_CONTROL", "ASID_POOL", "TCB", "SC", "VSPACE"} : \A i : ~Link(At(a, i))
  BY DEF Link, At
<1>3. m \notin {1, 5, 6, 7, 8, 9, 12, 13}
  <2> HIDE DEF f
  <2> QED
    BY <1>1, <1>2 DEF ControlSlot, AsidSlot, f
<1>4. \A into, dst, of, src :
         Row(into, dst, of, src).into = into /\ Row(into, dst, of, src).dst = dst
         /\ Row(into, dst, of, src).of = of /\ Row(into, dst, of, src).src = src
  BY DEF Row
<1>5. CASE m = 2
  BY <1>4, <1>5, FixedRows
<1>6. CASE m = 3
  BY <1>4, <1>6, FixedRows
<1>7. CASE m = 4
  BY <1>4, <1>7, FixedRows
<1>8. CASE m = 10
  BY <1>4, <1>8, FixedRows
<1>9. CASE m = 11
  BY <1>4, <1>9, FixedRows
<1> QED
  BY <1>3, <1>5, <1>6, <1>7, <1>8, <1>9

LEMMA CopyLinks ==
    ASSUME Wired, NEW c \in CNode, CopyFixedCap(c), NEW x \in CNode, NEW y \in Slot,
           caps'[x][y] # caps[x][y]
    PROVE  Reached(c, x) /\ (Link(y) => NewLink(c, x, y))
<1> DEFINE m == job[c].k
           row == FixedCaps(c)[m]
           root(who) == IF who = "own" THEN OwnRoot(c) ELSE NewRoot(c)
<1>1. Active(c) /\ job[c].pc = "fixed" /\ IInv
  BY DEF CopyFixedCap, Active, Wired
<1>2. /\ CanTransfer(caps, root(row.into), row.dst, root(row.of), row.src)
      /\ caps' = CopyTo(caps, root(row.into), row.dst, root(row.of), row.src)
  BY DEF CopyFixedCap
<1>3. m \in 1 .. 13 /\ row.src \in Slot
  BY <1>1, FixedCapsType
<1>4. /\ GoodCap(NewRoot(c)) /\ GoodCap(OwnRoot(c)) /\ OwnRoot(c).n = c /\ GoodCaps(caps)
      /\ job[c].id \in PdId
  BY <1>1, WiredJob DEF IInv, KernelOK
<1>5. Adds(caps, caps', root(row.into).n, row.dst, root(row.of).n, row.src)
  <2>1. GoodCap(root(row.of))
    BY <1>4
  <2> HIDE DEF root, row
  <2> QED
    BY <1>2, <1>3, <1>4, <2>1, CopyAdds
<1>6. x = root(row.into).n /\ y = row.dst /\ SameObject(caps'[x][y], caps[root(row.of).n][row.src])
  <2> HIDE DEF root, row
  <2> QED
    BY <1>5 DEF Adds
<1>7. Root(root(row.into)) /\ Root(root(row.of)) /\ ~Full(caps[x][y])
  <2> HIDE DEF root, row
  <2> QED
    BY <1>2, <1>6 DEF CanTransfer, Root, Full
<1>8. Reached(c, x)
  <2>1. \A who : Root(root(who)) => Reached(c, root(who).n)
    BY <1>1, <1>4, RootsReached
  <2> HIDE DEF root, row
  <2> QED
    BY <1>6, <1>7, <2>1
<1>9. CASE Link(y)
  <2>1. Link(row.dst)
    BY <1>6, <1>9, Zenon
  <2> DEFINE id == job[c].id
  <2>2. \/ m = 2 /\ row.into = "new" /\ row.dst = InputSlot /\ row.of = "own"
        \/ m = 3 /\ row.into = "new" /\ row.dst = At("CHAN", id) /\ row.of = "new"
        \/ m = 4 /\ row.into = "own" /\ row.dst = At("CHAN", id) /\ row.of = "new"
        \/ /\ (m = 10 /\ row.into = "new") \/ (m = 11 /\ row.into = "own")
           /\ row.dst = At("CNODE", id) /\ row.of = "own" /\ row.src = At("cnode", job[c].cnode)
    BY <1>3, <2>1, LinkRows
  <2>3. /\ row.into = "new" => x = NewRoot(c).n /\ Root(NewRoot(c))
        /\ row.into = "own" => x = c
        /\ row.of = "new" => Root(NewRoot(c))
    BY <1>4, <1>6, <1>7, Zenon
  <2>4. row.of = "own" /\ row.src = At("cnode", job[c].cnode) =>
            SameObject(caps'[x][y], NewRoot(c)) /\ Full(NewRoot(c))
    <3>1. Full(caps[root(row.of).n][row.src])
      <4> HIDE DEF root, row
      <4> QED
        BY <1>2 DEF CanTransfer, Full
    <3> QED
      BY <1>4, <1>6, <3>1, Zenon DEF NewRoot
  <2>5. Full(NewRoot(c)) => Root(NewRoot(c))
    <3>1. \A n : MkCap("cnode", n).kind = "cnode"
      BY DEF MkCap
    <3>2. Full(NewRoot(c)) => NewRoot(c) = MkCap("cnode", NewRoot(c).n)
      BY <1>1, RootObject
    <3> QED
      BY <3>1, <3>2 DEF Root
  <2> HIDE DEF root, row
  <2> QED
    BY <1>1, <1>6, <1>7, <1>8, <2>2, <2>3, <2>4, <2>5 DEF NewLink
<1> QED
  BY <1>8, <1>9

----------------------------------------------------------------------------
(* Minting the two ends of a channel *)

\* The step fills the slot s of d with x, and changes no other.
Puts(d, s, x) ==
    /\ ~Full(caps[d][s]) /\ caps'[d][s] = x
    /\ \A e \in CNode, r \in Slot : caps'[e][r] = caps[e][r] \/ (e = d /\ r = s)

LEMMA MintPuts ==
    ASSUME Wired, NEW droot, droot.n \in CNode, NEW ds \in Slot, NEW sroot, NEW ss, NEW badge,
           CanTransfer(caps, droot, ds, sroot, ss),
           caps' = MintTo(caps, droot, ds, sroot, ss, badge)
    PROVE  Puts(droot.n, ds, Minted(caps[sroot.n][ss], badge))
<1>1. Shaped(caps) /\ ~Full(caps[droot.n][ds])
  BY WiredTypes DEF CanTransfer, Full
<1>2. \A e \in CNode, r \in Slot : caps'[e][r] = IF e = droot.n /\ r = ds
                                               THEN Minted(caps[sroot.n][ss], badge)
                                               ELSE caps[e][r]
  BY <1>1, MintAt
<1> QED
  BY <1>1, <1>2 DEF Puts

\* The target of the channel that a call sets up, as the caller knows it.
Peer(c) == PdRoot(c, Right(c).target)

LEMMA ChannelFacts ==
    ASSUME Wired, NEW c \in CNode, RightIs(c, "channel")
    PROVE  /\ Active(c) /\ Bound(c) /\ Root(NewRoot(c)) /\ NewRoot(c).n \in CNode
           /\ PdRoot(c, Target(c)) = NewRoot(c) /\ Target(c) \in PdId
           /\ Right(c).target \in PdId
           /\ Right(c).ownId \in ChannelId /\ Right(c).targetId \in ChannelId
           /\ Root(Peer(c)) => Peer(c).n \in CNode
           /\ caps[NewRoot(c).n][At("CHAN", Target(c))] = caps[NewRoot(c).n][InputSlot]
           /\ Full(caps[NewRoot(c).n][InputSlot])
<1>1. Active(c) /\ Building(c) /\ Bound(c) /\ IInv
  BY DEF RightIs, Active, Building, Bound, Spaced, Wired
<1>2. /\ Target(c) \in PdId /\ Right(c).target \in PdId
      /\ Right(c).ownId \in ChannelId /\ Right(c).targetId \in ChannelId
  BY <1>1, RightJob, RightType DEF Allocated
<1>3. Full(NewRoot(c)) /\ PdRoot(c, Target(c)) = NewRoot(c)
      /\ caps[NewRoot(c).n][At("CHAN", Target(c))] = caps[NewRoot(c).n][InputSlot]
      /\ Full(caps[NewRoot(c).n][InputSlot])
  BY <1>1, BoundObjects DEF Target, PdRoot
<1>4. NewRoot(c).n \in CNode /\ NewRoot(c) = MkCap("cnode", NewRoot(c).n)
  BY <1>1, <1>3, RootObject
<1>5. \A n : MkCap("cnode", n).kind = "cnode"
  BY DEF MkCap
<1>6. Root(NewRoot(c))
  BY <1>4, <1>5 DEF Root
<1>7. Root(Peer(c)) => Peer(c).n \in CNode
  BY <1>1, <1>2, PdRootType DEF Peer, Root, GoodCap
<1> QED
  BY <1>1, <1>2, <1>3, <1>4, <1>6, <1>7

LEMMA MintJob ==
    ASSUME Wired, NEW c \in CNode, MintChannel(c)
    PROVE  LET t == Peer(c)
               new == NewRoot(c)
               r == Right(c)
           IN
           /\ RightIs(c, "channel")
           /\ \/ UNCHANGED caps /\ job'[c].pc = "crashed"
              \/ /\ job[c].i = 0 /\ job'[c].i = 1 /\ job'[c].k = job[c].k
                 /\ job'[c].program = job[c].program
                 /\ Follows(job[c], job'[c]) /\ job'[c].pc = "right"
                 /\ Root(t) /\ Full(caps[t.n][At("CHAN", r.target)])
                 /\ Puts(new.n, At("OUT", r.ownId),
                         Minted(caps[t.n][At("CHAN", r.target)], Badge(r.targetId)))
              \/ /\ job[c].i # 0 /\ job'[c].i = 0
                 /\ Follows(job[c], job'[c]) /\ job'[c].pc = "right"
                 /\ Root(t) /\ Full(caps[new.n][At("CHAN", Target(c))])
                 /\ Puts(t.n, At("OUT", r.targetId),
                         Minted(caps[new.n][At("CHAN", Target(c))], Badge(r.ownId)))
<1> DEFINE r == Right(c)
           t == Peer(c)
           new == NewRoot(c)
           can == CanTransfer(caps, PdRoot(c, Target(c)), At("OUT", r.ownId), t, At("CHAN", r.target))
           canBack == CanTransfer(caps, t, At("OUT", r.targetId), PdRoot(c, Target(c)), At("CHAN", Target(c)))
<1>1. RightIs(c, "channel")
  BY DEF MintChannel
<1>2. job[c] \in Job /\ job \in [CNode -> Job]
  BY WiredTypes
<1>3. At("OUT", r.ownId) \in Slot /\ At("OUT", r.targetId) \in Slot /\ new.n \in CNode
      /\ (Root(t) => t.n \in CNode) /\ PdRoot(c, Target(c)) = new
  BY <1>1, ChannelFacts, LinkSlots
<1>4. \/ UNCHANGED caps /\ Crash(c)
      \/ /\ job[c].i = 0 /\ Step(c, [job[c] EXCEPT !.i = 1]) /\ can
         /\ caps' = MintTo(caps, PdRoot(c, Target(c)), At("OUT", r.ownId), t, At("CHAN", r.target),
                           Badge(r.targetId))
      \/ /\ job[c].i # 0 /\ Step(c, NextRight(job[c])) /\ canBack
         /\ caps' = MintTo(caps, t, At("OUT", r.targetId), PdRoot(c, Target(c)), At("CHAN", Target(c)),
                           Badge(r.ownId))
  BY Zenon DEF MintChannel, Peer
<1>5. ASSUME Crash(c) PROVE job'[c].pc = "crashed"
  BY <1>5, StepPc DEF Crash
<1>6. ASSUME Step(c, [job[c] EXCEPT !.i = 1])
      PROVE  job'[c].i = 1 /\ job'[c].k = job[c].k /\ job'[c].program = job[c].program
             /\ Follows(job[c], job'[c]) /\ job'[c].pc = "right"
  BY <1>1, <1>2, <1>6 DEF Step, Job, Follows, SameObjects, RightIs
<1>7. ASSUME Step(c, NextRight(job[c]))
      PROVE  job'[c].i = 0 /\ Follows(job[c], job'[c]) /\ job'[c].pc = "right"
  BY <1>2, <1>7 DEF Step, Job, Follows, SameObjects, NextRight
<1>8. ASSUME can, caps' = MintTo(caps, PdRoot(c, Target(c)), At("OUT", r.ownId), t, At("CHAN", r.target),
                           Badge(r.targetId))
      PROVE  /\ Root(t) /\ Full(caps[t.n][At("CHAN", r.target)])
             /\ Puts(new.n, At("OUT", r.ownId),
                         Minted(caps[t.n][At("CHAN", r.target)], Badge(r.targetId)))
  <2>1. Root(t) /\ Full(caps[t.n][At("CHAN", r.target)])
    BY <1>8 DEF CanTransfer, Root, Full
  <2> HIDE DEF t, r
  <2> QED
    BY <1>3, <1>8, <2>1, MintPuts
<1>9. ASSUME canBack, caps' = MintTo(caps, t, At("OUT", r.targetId), PdRoot(c, Target(c)), At("CHAN", Target(c)),
                           Badge(r.ownId))
      PROVE  /\ Root(t) /\ Full(caps[new.n][At("CHAN", Target(c))])
             /\ Puts(t.n, At("OUT", r.targetId),
                         Minted(caps[new.n][At("CHAN", Target(c))], Badge(r.ownId)))
  <2>1. Root(t) /\ Full(caps[new.n][At("CHAN", Target(c))])
    BY <1>3, <1>9 DEF CanTransfer, Root, Full
  <2> HIDE DEF t, r
  <2> QED
    BY <1>3, <1>9, <2>1, MintPuts
<1> HIDE DEF t, r, new, can, canBack
<1>10. CASE UNCHANGED caps /\ Crash(c)
  BY <1>1, <1>5, <1>10
<1>11. CASE /\ job[c].i = 0 /\ Step(c, [job[c] EXCEPT !.i = 1]) /\ can
            /\ caps' = MintTo(caps, PdRoot(c, Target(c)), At("OUT", r.ownId), t, At("CHAN", r.target),
                              Badge(r.targetId))
  BY <1>1, <1>6, <1>8, <1>11, Zenon DEF t, r, new
<1>12. CASE /\ job[c].i # 0 /\ Step(c, NextRight(job[c])) /\ canBack
            /\ caps' = MintTo(caps, t, At("OUT", r.targetId), PdRoot(c, Target(c)), At("CHAN", Target(c)),
                              Badge(r.ownId))
  BY <1>1, <1>7, <1>9, <1>12, Zenon DEF t, r, new
<1> QED
  BY <1>4, <1>10, <1>11, <1>12

\* A minted capability designates what its source does, under the badge.
LEMMA MintedIs ==
    ASSUME NEW x \in Cap, NEW b, NEW z
    PROVE  /\ Minted(x, b).kind = x.kind /\ Minted(x, b).badge = b
           /\ Full(Minted(x, b)) <=> Full(x)
           /\ SameObject(Minted(x, b), z) <=> SameObject(x, z)
<1>1. Minted(x, b).kind = x.kind /\ Minted(x, b).n = x.n /\ Minted(x, b).badge = b
  BY DEF Minted, Cap
<1> QED
  BY <1>1 DEF Full, SameObject

\* The first mint of a channel leaves the second to be made, the second pairs both
\* ends.
Pairs(c, x, i) ==
    \/ /\ x = NewRoot(c).n /\ Active(c) /\ Full(NewRoot(c))
       /\ job[c].i = 0 /\ i = Right(c).ownId
    \/ Paired(x, i)'

LEMMA ChannelMinted ==
    ASSUME Linked, NEW c \in CNode, MintChannel(c), NewRoot(c)' = NewRoot(c)
    PROVE  /\ \A x \in CNode, y \in Slot :
                 caps'[x][y] = caps[x][y] \/ \E i \in ChannelId : y = At("OUT", i) /\ Pairs(c, x, i)
           /\ Active(c)' /\ job[c].i = 0 => Pending(c, Right(c).ownId)' /\ Right(c)' = Right(c)
           /\ Active(c)' /\ job[c].i # 0 =>
                 /\ job'[c].i = 0
                 /\ \A x \in CNode, i \in ChannelId :
                       x = NewRoot(c).n /\ i = Right(c).ownId => Paired(x, i)'
<1> DEFINE r == Right(c)
           t == Peer(c)
           new == NewRoot(c)
           id == Target(c)
           out == Minted(caps[t.n][At("CHAN", r.target)], Badge(r.targetId))
           back == Minted(caps[new.n][At("CHAN", id)], Badge(r.ownId))
<1>1. Wired /\ ChanIsInput /\ JobPaired(c)
  BY DEF Linked
<1>2. /\ RightIs(c, "channel")
      /\ \/ UNCHANGED caps /\ job'[c].pc = "crashed"
         \/ /\ job[c].i = 0 /\ job'[c].i = 1 /\ job'[c].k = job[c].k
            /\ job'[c].program = job[c].program
            /\ Follows(job[c], job'[c]) /\ job'[c].pc = "right"
            /\ Root(t) /\ Full(caps[t.n][At("CHAN", r.target)])
            /\ Puts(new.n, At("OUT", r.ownId), out)
         \/ /\ job[c].i # 0 /\ job'[c].i = 0
            /\ Follows(job[c], job'[c]) /\ job'[c].pc = "right"
            /\ Root(t) /\ Full(caps[new.n][At("CHAN", id)])
            /\ Puts(t.n, At("OUT", r.targetId), back)
  BY <1>1, MintJob, Zenon
<1>3. /\ Active(c) /\ Root(new) /\ new.n \in CNode /\ PdRoot(c, id) = new /\ id \in PdId
      /\ r.target \in PdId /\ r.ownId \in ChannelId /\ r.targetId \in ChannelId
      /\ Root(t) => t.n \in CNode
      /\ caps[new.n][At("CHAN", id)] = caps[new.n][InputSlot]
      /\ Full(caps[new.n][InputSlot])
  BY <1>1, <1>2, ChannelFacts
<1>4. /\ InputSlot \in Slot /\ At("OUT", r.ownId) \in Slot /\ At("OUT", r.targetId) \in Slot
      /\ At("CHAN", r.target) \in Slot /\ At("CHAN", id) \in Slot /\ At("CNODE", r.target) \in Slot
      /\ \A i : InputSlot # At("OUT", i) /\ \A m : At("CNODE", m) # At("OUT", i)
  BY <1>3, LinkSlots DEF InputSlot, At
<1>5. \A x \in CNode, s \in Slot : caps[x][s] \in Cap
  BY <1>1, WiredTypes
<1>6. CASE UNCHANGED caps /\ job'[c].pc = "crashed"
  BY <1>6 DEF Active
<1>7. CASE /\ job[c].i = 0 /\ job'[c].i = 1 /\ job'[c].k = job[c].k
           /\ job'[c].program = job[c].program
           /\ Follows(job[c], job'[c]) /\ job'[c].pc = "right"
           /\ Root(t) /\ Full(caps[t.n][At("CHAN", r.target)])
           /\ Puts(new.n, At("OUT", r.ownId), out)
  <2>1. SameObject(caps[t.n][At("CHAN", r.target)], caps[t.n][InputSlot])
    BY <1>1, <1>3, <1>7, Zenon DEF ChanIsInput, Peer, PdRoot
  <2> HIDE DEF r, t, new, id, out
  <2>0. PICK x \in CNode, n \in CNode, i \in ChannelId, m \in ChannelId, a \in PdId :
           x = t.n /\ n = new.n /\ i = r.ownId /\ m = r.targetId /\ a = r.target
    BY <1>3, <1>7
  <2>2. Full(out) /\ SameObject(out, caps[x][InputSlot]) /\ out.badge = Badge(m)
    BY <1>3, <1>4, <1>5, <1>7, <2>0, <2>1, MintedIs DEF out
  <2>3. caps'[x][InputSlot] = caps[x][InputSlot] /\ caps'[n][At("OUT", i)] = out
        /\ caps'[c][At("CNODE", a)] = caps[c][At("CNODE", a)]
    BY <1>3, <1>4, <1>7, <2>0 DEF Puts
  <2>4. Signals(caps[n][At("OUT", i)], x, m)'
    BY <2>2, <2>3 DEF Signals
  <2>5. RightIs(c, "channel")' /\ Right(c)' = Right(c)
    BY <1>2, <1>7 DEF RightIs, Right, Program
  <2>6. PdRoot(c, a)' = t
    BY <2>0, <2>3 DEF PdRoot, t, Peer, r
  <2>7. Pending(c, Right(c).ownId)'
    BY <1>3, <1>7, <2>0, <2>4, <2>5, <2>6 DEF Pending, new, r
  <2>8. Full(NewRoot(c))
    BY <1>3 DEF Root, Full, new
  <2> QED
    BY <1>3, <1>7, <2>5, <2>7, <2>8 DEF Pairs, Puts, new, r
<1>8. CASE /\ job[c].i # 0 /\ job'[c].i = 0
           /\ Follows(job[c], job'[c]) /\ job'[c].pc = "right"
           /\ Root(t) /\ Full(caps[new.n][At("CHAN", id)])
           /\ Puts(t.n, At("OUT", r.targetId), back)
  <2>1. Signals(caps[new.n][At("OUT", r.ownId)], t.n, r.targetId)
    BY <1>1, <1>2, <1>8 DEF JobPaired, Pending, Peer
  <2> HIDE DEF r, t, new, id, back
  <2>0. PICK x \in CNode, n \in CNode, i \in ChannelId, m \in ChannelId :
           x = t.n /\ n = new.n /\ i = r.ownId /\ m = r.targetId
    BY <1>3, <1>8
  <2>2. Full(back) /\ SameObject(back, caps[n][InputSlot]) /\ back.badge = Badge(i)
    <3>1. caps[n][InputSlot] \in Cap
      BY <1>4, <1>5
    <3>2. SameObject(caps[n][InputSlot], caps[n][InputSlot])
      BY DEF SameObject
    <3> QED
      BY <1>3, <2>0, <3>1, <3>2, MintedIs DEF back
  <2>3. /\ caps'[x][InputSlot] = caps[x][InputSlot] /\ caps'[n][InputSlot] = caps[n][InputSlot]
        /\ caps'[x][At("OUT", m)] = back
        /\ caps'[n][At("OUT", i)] = caps[n][At("OUT", i)]
    BY <1>3, <1>4, <1>8, <2>0, <2>1 DEF Puts, Signals
  <2>4. Signals(caps[n][At("OUT", i)], x, m)'
    BY <2>0, <2>1, <2>3 DEF Signals
  <2>5. Signals(caps[x][At("OUT", m)], n, i)'
    BY <2>2, <2>3 DEF Signals
  <2>6. Paired(x, m)' /\ Paired(n, i)'
    BY <2>4, <2>5 DEF Paired
  <2>7. \A e \in CNode, y \in Slot : caps'[e][y] = caps[e][y] \/ (e = x /\ y = At("OUT", m))
    BY <1>8, <2>0 DEF Puts
  <2>8. \A e \in CNode, y \in Slot :
           caps'[e][y] = caps[e][y] \/ \E k \in ChannelId : y = At("OUT", k) /\ Pairs(c, e, k)
    BY <2>6, <2>7 DEF Pairs
  <2>9. \A e \in CNode, k \in ChannelId : e = NewRoot(c).n /\ k = Right(c).ownId => Paired(e, k)'
    BY <2>0, <2>6 DEF new, r
  <2> QED
    BY <1>8, <2>8, <2>9
<1> QED
  BY <1>2, <1>6, <1>7, <1>8

----------------------------------------------------------------------------
(* The CNodes that the pools offer *)

\* A call does not write to a CNode that a pool still offers.
LEMMA FreshUntouched ==
    ASSUME Wired, NEW c \in CNode, Active(c), NEW x \in CNode, Reached(c, x),
           NEW d \in CNode, NEW i \in PoolIndex("cnode"), i >= alloc[d]["cnode"],
           Full(caps[d][At("cnode", i)])
    PROVE  caps[d][At("cnode", i)].n # x
<1> DEFINE y == caps[d][At("cnode", i)]
<1>1. "cnode" \in PoolKind /\ Live(c)
  BY OwnIsOwn DEF PoolKind
<1>2. y.kind = "cnode" /\ \A e \in CNode, s \in Slot : SameObject(caps[e][s], y) => e = d /\ s = At("cnode", i)
  BY <1>1, PoolFacts
<1>3. CASE x = c
  BY <1>1, <1>3, OfferedUnused
<1>4. ASSUME NEW s \in Slot, NotPool(s) \/ s = At("cnode", job[c].cnode),
             Root(caps[c][s]), caps[c][s].n = x, y.n = x
      PROVE  FALSE
  <2>1. SameObject(caps[c][s], y)
    BY <1>2, <1>4 DEF Root, SameObject
  <2>2. c = d /\ s = At("cnode", i)
    BY <1>2, <2>1
  <2>3. s = At("cnode", job[c].cnode)
    BY <1>1, <1>4, <2>2 DEF NotPool
  <2>4. i = job[c].cnode
    BY <2>2, <2>3 DEF At
  <2>5. job[c].cnode < alloc[c]["cnode"] /\ job[c].cnode \in Nat /\ alloc[c]["cnode"] \in Nat
    BY <1>1, WiredJob DEF PoolIndex
  <2> QED
    BY <2>2, <2>4, <2>5
<1> QED
  BY <1>3, <1>4 DEF Reached

LEMMA StepReaches ==
    ASSUME Wired, NEW c \in CNode, PdCreateStep(c), NEW x \in CNode, NEW y \in Slot,
           caps'[x][y] # caps[x][y]
    PROVE  Reached(c, x)
<1>1. CASE CopyFixedCap(c)
  BY <1>1, CopyLinks
<1>2. CASE MintChannel(c)
  <2>1. RightIs(c, "channel") /\ \E s, z : \/ Puts(NewRoot(c).n, s, z)
                                           \/ Root(Peer(c)) /\ Puts(Peer(c).n, s, z)
    BY <1>2, MintJob
  <2>2. x = NewRoot(c).n \/ (Root(Peer(c)) /\ x = Peer(c).n)
    BY <2>1 DEF Puts
  <2>3. Active(c) /\ Root(NewRoot(c)) /\ Right(c).target \in PdId
    BY <2>1, ChannelFacts
  <2> QED
    BY <2>2, <2>3, RootsReached DEF Peer
<1>3. CASE ~CopyFixedCap(c) /\ ~MintChannel(c)
  BY <1>3, QuietSteps DEF Quiet
<1> QED
  BY <1>1, <1>2, <1>3

LEMMA StepIsActive == ASSUME NEW c, PdCreateStep(c) PROVE Active(c)
  BY Zenon DEF PdCreateStep, Active, RightIs, MovePoolCap, AllocateObjects, AssignAsid, CopyFixedCap, SetSpace,
     BindNotification, NextPage, MapTable, MapPage, WriteHandle, SetIpcBuffer, SetUpScheduling,
     MintChannel, SetUpRegion, MapShared, MintIrqBadge, SetIrqTarget, MoveIrqHandler,
     SkipControl, UnknownRight, Restart

\* What a pool offers, some pool offered before.
LEMMA OfferOrigin ==
    ASSUME Wired, NEW c \in CNode, PdCreateStep(c) \/ CapsStep(c), OnlyJobOf(c),
           NEW s \in PoolKind, NEW d \in CNode, NEW i \in PoolIndex(s),
           i >= alloc'[d][s], Full(caps'[d][At(s, i)])
    PROVE  \E e \in CNode : \E j \in PoolIndex(s) :
              /\ j >= alloc[e][s]
              /\ SameObject(caps[e][At(s, j)], caps'[d][At(s, i)])
              /\ s # "page" => caps[e][At(s, j)] = caps'[d][At(s, i)]
<1>1. i \in Nat
  BY PoolSizeType DEF PoolIndex
<1>2. alloc[d][s] \in Nat /\ alloc'[d][s] \in Nat /\ alloc'[d][s] >= alloc[d][s]
  BY <1>1, AllocGrows, WiredTypes DEF Wired
<1>3. i >= alloc[d][s]
  BY <1>1, <1>2
<1>4. CASE CapsStep(c)
  <2>1. /\ SameObject(caps'[d][At(s, i)], caps[d][At(s, i)])
        /\ s # "page" => caps'[d][At(s, i)] = caps[d][At(s, i)]
    BY <1>4, PoolsKept
  <2> QED
    BY <1>3, <2>1 DEF SameObject
<1>5. CASE UNCHANGED caps
  BY <1>3, <1>5 DEF SameObject
<1>6. CASE MovePoolCap(c) /\ ~UNCHANGED caps
  <2> DEFINE n == NewRoot(c).n
  <2>1. PICK k \in PoolKind, m \in Nat :
           /\ alloc[c][k] \in PoolIndex(k) /\ alloc'[c][k] = alloc[c][k] + 1
           /\ Moves(caps, caps', n, At(k, m), c, At(k, alloc[c][k]))
    BY <1>6, MovePoolCapMoves
  <2> HIDE DEF n
  <2>2. At(s, i) \in Slot
    BY PoolFacts
  <2>3. \/ d = c /\ At(s, i) = At(k, alloc[c][k]) /\ caps'[d][At(s, i)] = NullCap
        \/ d = n /\ At(s, i) = At(k, m) /\ caps'[d][At(s, i)] = caps[c][At(k, alloc[c][k])]
        \/ caps'[d][At(s, i)] = caps[d][At(s, i)]
    BY <2>1, <2>2 DEF Moves
  <2>4. caps'[d][At(s, i)] # NullCap
    BY NullCapGood DEF Full
  <2>5. At(s, i) = At(k, m) => k = s
    BY DEF At
  <2>6. alloc[c][s] \in Nat
    BY WiredTypes
  <2> QED
    BY <1>3, <2>1, <2>3, <2>4, <2>5, <2>6 DEF SameObject
<1> QED
  BY <1>4, <1>5, <1>6, CapsSteps

LEMMA EmptyFreshKept ==
    ASSUME Wired, EmptyFresh, NEW c \in CNode, OnlyJobOf(c),
           PdCreateStep(c) \/ UNCHANGED caps
    PROVE  EmptyFresh'
<1> SUFFICES ASSUME NEW d \in CNode, NEW i \in PoolIndex("cnode"), i >= alloc'[d]["cnode"],
                    Full(caps'[d][At("cnode", i)]), NEW s \in Slot
             PROVE  ~Full(caps'[caps'[d][At("cnode", i)].n][s])
  BY DEF EmptyFresh
<1>1. CapsStep(c) \/ PdCreateStep(c)
  BY DEF CapsStep, SlotStep
<1>2. PICK e \in CNode : \E j \in PoolIndex("cnode") :
              j >= alloc[e]["cnode"] /\ caps[e][At("cnode", j)] = caps'[d][At("cnode", i)]
  BY <1>1, OfferOrigin DEF PoolKind
<1>3. PICK j \in PoolIndex("cnode") :
              j >= alloc[e]["cnode"] /\ caps[e][At("cnode", j)] = caps'[d][At("cnode", i)]
  BY <1>2
<1> DEFINE y == caps'[d][At("cnode", i)]
<1>4. ~Full(caps[y.n][s])
  BY <1>3 DEF EmptyFresh
<1>5. y.n \in CNode
  <2>1. "cnode" \in PoolKind
    BY DEF PoolKind
  <2>2. At("cnode", j) \in Slot /\ caps[e][At("cnode", j)].kind = "cnode"
    BY <1>3, <2>1, PoolFacts
  <2> QED
    BY <1>3, <2>2, WiredTypes
<1>6. caps'[y.n][s] = caps[y.n][s]
  <2>1. PdCreateStep(c) => Active(c)
    BY StepIsActive
  <2> HIDE DEF y
  <2>2. Reached(c, y.n) /\ PdCreateStep(c) => FALSE
    BY <1>3, <1>5, <2>1, FreshUntouched DEF y
  <2> QED
    BY <1>5, <2>2, StepReaches
<1> QED
  BY <1>4, <1>6

----------------------------------------------------------------------------
(* Where a step takes its call *)

\* A call of c that goes on is still about the same PD, and forgets no copy.
Advances(c) ==
    Active(c)' => /\ job'[c].cnode = job[c].cnode /\ job'[c].id = job[c].id
                  /\ Copied(c, 10) => Copied(c, 10)'
                  /\ CopyFixedCap(c) /\ job[c].k \in {10, 11} => Copied(c, 10)'

\* A call comes to an entry of the table at its beginning.
Arrives(c) == job'[c].pc = "right" => job'[c].i = 0 \/ ~RightIs(c, "channel")'

LEMMA LateAdvances ==
    ASSUME NEW c, LateJob(c), ~CopyFixedCap(c) PROVE Advances(c)
<1>1. CASE job'[c].pc \in {"idle", "crashed"}
  BY <1>1 DEF Advances, Active
<1>2. CASE Follows(job[c], job'[c]) /\ job'[c].pc \in LatePc
  BY <1>2 DEF Advances, Follows, SameObjects, Copied, Building, LatePc
<1> QED
  BY <1>1, <1>2 DEF LateJob

LEMMA EarlyAdvances ==
    ASSUME Wired, NEW c \in CNode,
           \/ MovePoolCap(c) \/ AllocateObjects(c) \/ AssignAsid(c) \/ CopyFixedCap(c)
           \/ SetSpace(c) \/ BindNotification(c)
    PROVE  Advances(c) /\ job'[c].pc # "right"
<1> DEFINE j == job[c]
           new == job'[c]
<1>1. j \in Job /\ \A x : Step(c, x) => job'[c] = x
  BY StepAt
<1>2. CASE Fail(c)
  BY <1>2, StepEnds DEF Advances, Active
<1>3. CASE MovePoolCap(c)
  <2>1. j.pc = "move"
    BY <1>3 DEF MovePoolCap
  <2>2. \/ Fail(c) \/ Step(c, [j EXCEPT !.i = @ + 1]) \/ Step(c, [j EXCEPT !.i = 0, !.k = @ + 1])
        \/ Step(c, [j EXCEPT !.pc = "allocate"])
    BY <1>3, Zenon DEF MovePoolCap
  <2>3. Fail(c) \/ (new.cnode = j.cnode /\ new.id = j.id /\ new.pc \in {"move", "allocate"})
    BY <1>1, <2>1, <2>2 DEF Job
  <2> QED
    BY <1>2, <1>3, <2>1, <2>3 DEF Advances, Copied, Building, CopyFixedCap
<1>4. CASE AllocateObjects(c)
  <2>1. j.pc = "allocate"
    BY <1>4 DEF AllocateObjects
  <2>2. \/ Fail(c)
        \/ \E t, n, s, v : Step(c, [j EXCEPT !.pc = "asid", !.tcb = t, !.ntfn = n, !.sc = s, !.vspace = v])
    BY <1>4, Zenon DEF AllocateObjects
  <2>3. Fail(c) \/ (new.cnode = j.cnode /\ new.id = j.id /\ new.pc = "asid")
    BY <1>1, <2>2, Zenon DEF Job
  <2> QED
    BY <1>2, <1>4, <2>1, <2>3 DEF Advances, Copied, Building, CopyFixedCap
<1>5. CASE AssignAsid(c)
  <2>1. j.pc = "asid" /\ (Fail(c) \/ Step(c, [j EXCEPT !.pc = "fixed", !.k = 1]))
    BY <1>5 DEF AssignAsid
  <2>2. Fail(c) \/ (new.cnode = j.cnode /\ new.id = j.id /\ new.pc = "fixed")
    BY <1>1, <2>1 DEF Job
  <2> QED
    BY <1>2, <1>5, <2>1, <2>2 DEF Advances, Copied, Building, CopyFixedCap
<1>6. CASE CopyFixedCap(c)
  <2>1. j.pc = "fixed" /\ (Fail(c) \/ Step(c, [j EXCEPT !.k = @ + 1]) \/ Goto(c, "space"))
    BY <1>6 DEF CopyFixedCap
  <2>2. \/ Fail(c)
        \/ (new.cnode = j.cnode /\ new.id = j.id /\ new.pc = "fixed" /\ new.k = j.k + 1)
        \/ (new.cnode = j.cnode /\ new.id = j.id /\ new.pc = "space")
    BY <1>1, <2>1 DEF Job, Goto
  <2>3. j.k \in Nat
    BY <1>1 DEF Job
  <2> QED
    BY <1>2, <2>1, <2>2, <2>3 DEF Advances, Copied, Building
<1>7. CASE SetSpace(c) \/ BindNotification(c)
  <2>1. j.pc \in {"space", "bind"}
        /\ (Fail(c) \/ Goto(c, "bind") \/ Step(c, [j EXCEPT !.pc = "segment", !.k = 1]))
    BY <1>7, Zenon DEF SetSpace, BindNotification
  <2>2. Fail(c) \/ (new.cnode = j.cnode /\ new.id = j.id /\ new.pc \in {"bind", "segment"})
    <3>1. CASE Goto(c, "bind")
      BY <3>1, StepPc DEF Follows, SameObjects
    <3>2. CASE Step(c, [j EXCEPT !.pc = "segment", !.k = 1])
      BY <1>1, <3>2 DEF Job
    <3> QED
      BY <2>1, <3>1, <3>2
  <2> QED
    BY <1>2, <1>7, <2>1, <2>2 DEF Advances, Copied, Building, CopyFixedCap
<1> QED
  BY <1>3, <1>4, <1>5, <1>6, <1>7

LEMMA LateArrives ==
    ASSUME Wired, NEW c \in CNode,
           \/ NextPage(c) \/ MapTable(c) \/ MapPage(c) \/ WriteHandle(c) \/ SetIpcBuffer(c)
           \/ SetUpScheduling(c) \/ SetUpRegion(c) \/ MapShared(c)
           \/ MintIrqBadge(c) \/ SetIrqTarget(c) \/ MoveIrqHandler(c)
           \/ SkipControl(c) \/ UnknownRight(c)
    PROVE  Arrives(c)
<1> DEFINE j == job[c]
           new == job'[c]
<1>1. j \in Job /\ \A x : Step(c, x) => job'[c] = x
  BY StepAt
<1>2. CASE Fail(c) \/ Crash(c)
  BY <1>2, StepEnds DEF Arrives
<1>3. CASE Step(c, NextRight(j))
  BY <1>1, <1>3 DEF Arrives, NextRight, Job
<1>4. CASE \E page, own, then : Step(c, Tables(j, page, own, then))
  BY <1>4, StepTables DEF Arrives
<1>5. CASE \E pc \in Pc \ {"right"} : Goto(c, pc)
  BY <1>5, StepPc DEF Arrives
<1>6. CASE NextPage(c) \/ SetUpScheduling(c) \/ SetUpRegion(c) \/ MoveIrqHandler(c)
           \/ SkipControl(c) \/ UnknownRight(c)
  BY <1>2, <1>3, <1>4, <1>6, Zenon
     DEF NextPage, SetUpScheduling, SetUpRegion, MoveIrqHandler, SkipControl, UnknownRight
<1>7. CASE SetIrqTarget(c) \/ MintIrqBadge(c) \/ MapPage(c)
  BY <1>2, <1>4, <1>5, <1>7 DEF SetIrqTarget, MintIrqBadge, MapPage, Goto, Pc
<1>8. CASE MapTable(c)
  <2>1. j.pc = "tables" /\ j.then \in {"page", "ipcmap", "window", "shared"}
    BY <1>8, JobType, Zenon DEF Wired, MapTable, JobOK
  <2>2. Fail(c) \/ Step(c, [j EXCEPT !.level = @ + 1]) \/ Goto(c, j.then)
    BY <1>8 DEF MapTable, Goto
  <2>3. CASE Step(c, [j EXCEPT !.level = @ + 1])
    BY <1>1, <2>1, <2>3 DEF Job, Arrives
  <2> QED
    BY <1>2, <1>5, <2>1, <2>2, <2>3 DEF Pc
<1>9. CASE WriteHandle(c)
  <2>1. Fail(c) \/ Step(c, [j EXCEPT !.pc = "segment", !.k = @ + 1])
    BY <1>9, Zenon DEF WriteHandle
  <2> QED
    BY <1>1, <1>2, <2>1, Zenon DEF Job, Arrives
<1>10. CASE SetIpcBuffer(c)
  <2>1. Fail(c) \/ Step(c, [j EXCEPT !.pc = "right", !.k = 1, !.i = 0])
    BY <1>10 DEF SetIpcBuffer
  <2> QED
    BY <1>1, <1>2, <2>1 DEF Job, Arrives
<1>11. CASE MapShared(c)
  <2>1. Fail(c) \/ Step(c, [j EXCEPT !.pc = "right", !.i = @ + 1, !.shared = @ + 1])
    BY <1>11 DEF MapShared
  <2>2. j.program.rights[j.k].type = "memory"
    BY <1>11, JobType, Zenon DEF Wired, MapShared, JobOK
  <2>3. CASE Step(c, [j EXCEPT !.pc = "right", !.i = @ + 1, !.shared = @ + 1])
    <3>1. new.k = j.k /\ new.program = j.program
      BY <1>1, <2>3 DEF Job
    <3> QED
      BY <2>2, <3>1 DEF Arrives, RightIs, Program
  <2> QED
    BY <1>2, <2>1, <2>3
<1> QED
  BY <1>6, <1>7, <1>8, <1>9, <1>10, <1>11

LEMMA StepAdvances ==
    ASSUME Wired, NEW c \in CNode, PdCreateStep(c)
    PROVE  /\ Active(c) /\ Advances(c)
           /\ ~MintChannel(c) => Arrives(c) /\ ~RightIs(c, "channel")
<1>1. Active(c)
  BY StepIsActive
<1>2. CASE \/ MovePoolCap(c) \/ AllocateObjects(c) \/ AssignAsid(c) \/ CopyFixedCap(c)
           \/ SetSpace(c) \/ BindNotification(c)
  <2>1. job[c].pc # "right"
    BY <1>2, Zenon DEF MovePoolCap, AllocateObjects, AssignAsid, CopyFixedCap, SetSpace, BindNotification
  <2> QED
    BY <1>1, <1>2, <2>1, EarlyAdvances DEF Arrives, RightIs
<1>3. CASE Restart(c)
  <2>1. job'[c].pc = "idle" /\ job[c].k > Len(Program(c).rights)
    BY <1>3, RestartStarts, Zenon DEF Restart
  <2>2. job[c].k \in Nat /\ Len(Program(c).rights) \in Nat
    <3>1. job[c] \in Job
      BY WiredTypes
    <3> QED
      BY <3>1, ProgramAssumption DEF Job, AnyProgram, Program
  <2> QED
    BY <1>1, <2>1, <2>2 DEF Advances, Active, Arrives, RightIs
<1>4. CASE \/ NextPage(c) \/ MapTable(c) \/ MapPage(c) \/ WriteHandle(c) \/ SetIpcBuffer(c)
           \/ SetUpScheduling(c) \/ SetUpRegion(c) \/ MapShared(c)
           \/ MintIrqBadge(c) \/ SetIrqTarget(c) \/ MoveIrqHandler(c)
           \/ SkipControl(c) \/ UnknownRight(c) \/ MintChannel(c)
  <2>1. LateJob(c)
    BY <1>4, NextPageJob, MapTableJob, MapPageJob, WriteHandleJob, SetIpcBufferJob, RightJobs, RegionJobs
  <2>2. ~CopyFixedCap(c)
    BY <1>4, Zenon DEF NextPage, MapTable, MapPage, WriteHandle, SetIpcBuffer, SetUpScheduling, SetUpRegion,
       MapShared, MintIrqBadge, SetIrqTarget, MoveIrqHandler, SkipControl, UnknownRight, MintChannel,
       RightIs, CopyFixedCap
  <2>3. Advances(c)
    BY <2>1, <2>2, LateAdvances
  <2>4. ~MintChannel(c) => ~RightIs(c, "channel")
    BY <1>4, Zenon DEF NextPage, MapTable, MapPage, WriteHandle, SetIpcBuffer, SetUpScheduling, SetUpRegion,
       MapShared, MintIrqBadge, SetIrqTarget, MoveIrqHandler, SkipControl, UnknownRight, RightIs
  <2> QED
    BY <1>1, <1>4, <2>3, <2>4, LateArrives
<1> QED
  BY <1>2, <1>3, <1>4 DEF PdCreateStep

----------------------------------------------------------------------------
(* Ids, and what a PD waits for *)

\* The only ids that a step gives are those of its own new CSpace.
Named(c, x, a) ==
    /\ Root(NewRoot(c)) /\ CopyFixedCap(c) /\ job[c].k \in {10, 11} /\ a = job[c].id
    /\ SameObject(caps'[x][At("CNODE", a)], NewRoot(c))

LEMMA IdSteps ==
    ASSUME Wired, NEW c \in CNode, PdCreateStep(c), NEW x \in CNode, NEW a \in PdId
    PROVE  caps'[x][At("CNODE", a)] = caps[x][At("CNODE", a)] \/ Named(c, x, a)
<1>1. At("CNODE", a) \in Slot /\ Link(At("CNODE", a))
  BY LinkSlots
<1>2. CASE CopyFixedCap(c)
  <2>1. CASE NewLink(c, x, At("CNODE", a))
    <3>1. At("CNODE", a) # InputSlot /\ \A i : At("CNODE", a) # At("CHAN", i)
      BY DEF At, InputSlot
    <3>2. \A i : At("CNODE", a) = At("CNODE", i) => a = i
      BY DEF At
    <3> QED
      BY <1>2, <2>1, <3>1, <3>2 DEF NewLink, Named
  <2> QED
    BY <1>1, <1>2, <2>1, CopyLinks
<1>3. CASE MintChannel(c)
  <2>1. UNCHANGED caps \/ \E n, i, z : Puts(n, At("OUT", i), z)
    BY <1>3, MintJob
  <2>2. \A i : At("CNODE", a) # At("OUT", i)
    BY DEF At
  <2> QED
    BY <1>1, <2>1, <2>2 DEF Puts
<1>4. CASE ~CopyFixedCap(c) /\ ~MintChannel(c)
  BY <1>1, <1>4, QuietSteps DEF Quiet
<1> QED
  BY <1>2, <1>3, <1>4

LEMMA NamedOnceKept ==
    ASSUME Linked, NEW c \in CNode, PdCreateStep(c)
    PROVE  NamedOnce'
<1>1. Wired /\ NamedOnce /\ JobNamed(c) /\ Active(c)
  BY StepIsActive DEF Linked
<1>2. \A x \in CNode, a \in PdId :
         caps'[x][At("CNODE", a)] = caps[x][At("CNODE", a)] \/ Named(c, x, a)
  BY <1>1, IdSteps
<1>3. \A x \in CNode, a \in PdId :
         Root(NewRoot(c)) /\ SameObject(caps[x][At("CNODE", a)], NewRoot(c)) => a = job[c].id
  BY <1>1 DEF JobNamed, Root, Full
<1> DEFINE new == NewRoot(c)
           I(x, a) == caps[x][At("CNODE", a)]
           J(x, a) == caps'[x][At("CNODE", a)]
<1>4. SUFFICES ASSUME NEW x \in CNode, NEW y \in CNode, NEW a \in PdId, NEW b \in PdId,
                      Root(J(x, a)), SameObject(J(x, a), J(y, b))
               PROVE  a = b
  BY DEF NamedOnce
<1>5. CASE J(x, a) = I(x, a) /\ J(y, b) = I(y, b)
  BY <1>1, <1>4, <1>5 DEF NamedOnce
<1>6. CASE Named(c, x, a) /\ Named(c, y, b)
  BY <1>6 DEF Named
<1>7. CASE Named(c, x, a) /\ J(y, b) = I(y, b)
  <2>1. SameObject(I(y, b), new) /\ Root(new) /\ a = job[c].id
    BY <1>4, <1>7 DEF Named, SameObject
  <2> QED
    BY <1>3, <2>1
<1>8. CASE J(x, a) = I(x, a) /\ Named(c, y, b)
  <2>1. SameObject(I(x, a), new) /\ Root(new) /\ b = job[c].id
    BY <1>4, <1>8 DEF Named, SameObject
  <2> QED
    BY <1>3, <2>1
<1> QED
  BY <1>2, <1>5, <1>6, <1>7, <1>8

LEMMA JobNamedKept ==
    ASSUME Linked, NEW c \in CNode, PdCreateStep(c), Kept(c), NEW d \in CNode
    PROVE  JobNamed(d)'
<1>1. Wired /\ JobNamed(d) /\ Active(c) /\ Advances(c)
  BY StepAdvances DEF Linked
<1> SUFFICES ASSUME Active(d)', Full(NewRoot(d)'), NEW x \in CNode, NEW a \in PdId,
                    SameObject(caps'[x][At("CNODE", a)], NewRoot(d)')
             PROVE  a = job'[d].id /\ Copied(d, 10)'
  BY DEF JobNamed
<1>2. caps'[x][At("CNODE", a)] = caps[x][At("CNODE", a)] \/ Named(c, x, a)
  BY <1>1, IdSteps
<1>3. CASE d = c
  <2>1. job'[c].cnode = job[c].cnode /\ job'[c].id = job[c].id
        /\ (Copied(c, 10) => Copied(c, 10)')
        /\ (CopyFixedCap(c) /\ job[c].k \in {10, 11} => Copied(c, 10)')
    BY <1>1, <1>3 DEF Advances
  <2>2. NewRoot(c)' = NewRoot(c)
    BY <1>1, <2>1, RootStays
  <2>3. CASE caps'[x][At("CNODE", a)] = caps[x][At("CNODE", a)]
    BY <1>1, <1>3, <2>1, <2>2, <2>3 DEF JobNamed
  <2>4. CASE Named(c, x, a)
    BY <1>3, <2>1, <2>4 DEF Named
  <2> QED
    BY <1>2, <2>3, <2>4
<1>4. CASE d # c
  <2>1. job'[d] = job[d] /\ Active(d)
    BY <1>4 DEF Kept, Active
  <2>2. NewRoot(d)' = NewRoot(d)
    BY <1>1, <2>1, RootStays
  <2>3. ~Named(c, x, a)
    <3>1. SUFFICES ASSUME Named(c, x, a) PROVE FALSE
      OBVIOUS
    <3>2. SameObject(NewRoot(c), NewRoot(d)) /\ Root(NewRoot(c))
      BY <2>2, <3>1 DEF Named, SameObject
    <3> QED
      BY <1>1, <1>4, <2>1, <2>2, <3>2, ObjectsApart DEF SameObject, Root, Full
  <2>4. Copied(d, 10)' = Copied(d, 10)
    BY <2>1 DEF Copied, Building
  <2> QED
    BY <1>1, <1>2, <2>1, <2>2, <2>3, <2>4 DEF JobNamed
<1> QED
  BY <1>3, <1>4

LEMMA ChannelSteps ==
    ASSUME Wired, NEW c \in CNode, PdCreateStep(c), NEW x \in CNode, NEW a \in PdId
    PROVE  \/ /\ caps'[x][At("CHAN", a)] = caps[x][At("CHAN", a)]
              /\ caps'[x][InputSlot] = caps[x][InputSlot]
           \/ /\ Root(NewRoot(c)) /\ job[c].pc = "fixed" /\ job[c].k \in {2, 3} /\ x = NewRoot(c).n
           \/ /\ job[c].pc = "fixed" /\ job[c].k = 4 /\ x = c /\ a = job[c].id
              /\ ~Full(caps[c][At("CHAN", a)])
<1>1. /\ At("CHAN", a) \in Slot /\ Link(At("CHAN", a)) /\ InputSlot \in Slot /\ Link(InputSlot)
      /\ InputSlot # At("CHAN", a)
  BY LinkSlots DEF At, InputSlot
<1>2. CASE CopyFixedCap(c)
  <2>1. \A i : At("CHAN", a) = At("CHAN", i) => a = i
    BY DEF At
  <2>2. \A i : At("CHAN", a) # At("CNODE", i) /\ InputSlot # At("CNODE", i) /\ InputSlot # At("CHAN", i)
    BY DEF At, InputSlot
  <2>3. CASE NewLink(c, x, At("CHAN", a))
    BY <2>1, <2>2, <2>3, <1>1 DEF NewLink
  <2>4. CASE NewLink(c, x, InputSlot)
    BY <2>2, <2>4 DEF NewLink
  <2> QED
    BY <1>1, <1>2, <2>3, <2>4, CopyLinks
<1>3. CASE MintChannel(c)
  <2>1. UNCHANGED caps \/ \E n, i, z : Puts(n, At("OUT", i), z)
    BY <1>3, MintJob
  <2>2. \A i : At("CHAN", a) # At("OUT", i) /\ InputSlot # At("OUT", i)
    BY DEF At, InputSlot
  <2> QED
    BY <1>1, <2>1, <2>2 DEF Puts
<1>4. CASE ~CopyFixedCap(c) /\ ~MintChannel(c)
  BY <1>1, <1>4, QuietSteps DEF Quiet
<1> QED
  BY <1>2, <1>3, <1>4

LEMMA ChanIsInputKept ==
    ASSUME Linked, IInv', NEW c \in CNode, PdCreateStep(c)
    PROVE  ChanIsInput'
<1>1. Wired /\ JobNamed(c) /\ Active(c) /\ NamedOnce /\ ChanIsInput /\ JobWired(c)
  BY StepIsActive DEF Linked, Wired
<1> SUFFICES ASSUME NEW d \in CNode, NEW a \in PdId, Root(caps'[d][At("CNODE", a)]),
                    Full(caps'[caps'[d][At("CNODE", a)].n][At("CHAN", a)])
             PROVE  SameObject(caps'[caps'[d][At("CNODE", a)].n][At("CHAN", a)],
                               caps'[caps'[d][At("CNODE", a)].n][InputSlot])
  BY DEF ChanIsInput
<1> DEFINE new == NewRoot(c)
           y == caps[d][At("CNODE", a)]
           z == caps'[d][At("CNODE", a)]
<1>2. PICK n \in CNode : n = z.n
  <2>1. At("CNODE", a) \in Slot
    BY LinkSlots
  <2> QED
    BY <2>1 DEF IInv, KernelOK, GoodCaps, Root
<1>3. z = y \/ Named(c, d, a)
  BY <1>1, IdSteps
<1> DEFINE Kept2 == /\ caps'[n][At("CHAN", a)] = caps[n][At("CHAN", a)]
                    /\ caps'[n][InputSlot] = caps[n][InputSlot]
<1>4. \/ Kept2
      \/ /\ Root(new) /\ job[c].pc = "fixed" /\ job[c].k \in {2, 3} /\ n = new.n
      \/ /\ job[c].pc = "fixed" /\ job[c].k = 4 /\ n = c /\ a = job[c].id
         /\ ~Full(caps[c][At("CHAN", a)])
  BY <1>1, ChannelSteps, SMTT(30)
<1>5. CASE Named(c, d, a)
  <2>1. /\ job[c].k \in {10, 11} /\ job[c].pc = "fixed" /\ a = job[c].id
        /\ SameObject(z, new) /\ Kept2
    <3>1. job[c].k \in {10, 11} /\ a = job[c].id /\ SameObject(z, new)
      BY <1>5, Zenon DEF Named
    <3>2. job[c].pc = "fixed"
      BY <1>5, Zenon DEF Named, CopyFixedCap
    <3> HIDE DEF z, new, Kept2
    <3>3. Kept2
      BY <1>4, <3>1
    <3> QED
      BY <3>1, <3>2, <3>3
  <2>2. Copied(c, 2) /\ Copied(c, 3)
    BY <2>1, SMTT(60) DEF Copied, Building
  <2>3. RowHeld(c, 2) /\ RowHeld(c, 3)
    BY <1>1, <2>2, SMTT(60) DEF JobWired, FixedCopied
  <2>4. caps[new.n][At("CHAN", a)] = caps[new.n][InputSlot] /\ new.n = n
    BY <1>2, <2>1, <2>3 DEF RowHeld, InNew, Holds, SameObject
  <2> HIDE DEF new
  <2>5. caps'[n][At("CHAN", a)] = caps'[n][InputSlot]
    BY <2>1, <2>4, Zenon
  <2>6. SameObject(caps'[n][At("CHAN", a)], caps'[n][InputSlot])
    BY <2>5, Zenon DEF SameObject
  <2> QED
    BY <1>2, <2>6, Zenon
<1>6. CASE z = y /\ Kept2
  BY <1>1, <1>2, <1>6 DEF ChanIsInput
<1>7. CASE z = y /\ Root(new) /\ job[c].pc = "fixed" /\ job[c].k \in {2, 3} /\ n = new.n
  <2>1. SameObject(y, new) /\ Full(new)
    BY <1>2, <1>7 DEF SameObject, Root, Full
  <2>2. Copied(c, 10)
    BY <1>1, <2>1 DEF JobNamed
  <2> QED
    BY <1>7, <2>2 DEF Copied
<1>8. CASE z = y /\ n = c /\ ~Full(caps[c][At("CHAN", a)])
  <2>1. SelfKnown(c)
    BY <1>1, OwnIsOwn
  <2>2. image[c].id \in PdId /\ caps[c][At("CNODE", image[c].id)] = MkCap("cnode", c)
        /\ Full(caps[c][At("CHAN", image[c].id)])
    BY <2>1 DEF SelfKnown
  <2>3. SameObject(y, caps[c][At("CNODE", image[c].id)])
    <3>1. MkCap("cnode", c).kind = "cnode" /\ MkCap("cnode", c).n = c
      BY DEF MkCap
    <3>2. caps[c][At("CNODE", image[c].id)].kind = "cnode" /\ caps[c][At("CNODE", image[c].id)].n = c
      BY <2>2, <3>1
    <3> QED
      BY <1>2, <1>8, <3>2 DEF SameObject, Root
  <2>4. a = image[c].id
    BY <1>1, <1>8, <2>2, <2>3 DEF NamedOnce
  <2> QED
    BY <1>8, <2>2, <2>4, Zenon
<1> QED
  BY <1>3, <1>4, <1>5, <1>6, <1>7, <1>8

----------------------------------------------------------------------------
(* The ends of the channels *)

LEMMA OutIsHandle ==
    /\ Handle(InputSlot) /\ InputSlot \in Slot
    /\ \A i \in ChannelId : Handle(At("OUT", i)) /\ At("OUT", i) \in Slot
    /\ \A a \in PdId : Handle(At("CNODE", a)) /\ At("CNODE", a) \in Slot
  BY InputIsHandle, LinkSlots, PdSlotIsHandle DEF Handle, At, PdArea

LEMMA SignalsKept ==
    ASSUME HandlesKept, NEW a \in CNode, NEW i \in ChannelId, NEW b \in CNode, NEW m,
           Signals(caps[a][At("OUT", i)], b, m)
    PROVE  Signals(caps[a][At("OUT", i)], b, m)'
<1>1. Full(caps[a][At("OUT", i)]) /\ Full(caps[b][InputSlot])
  BY DEF Signals, SameObject, Full
<1>2. caps'[a][At("OUT", i)] = caps[a][At("OUT", i)] /\ caps'[b][InputSlot] = caps[b][InputSlot]
  BY <1>1, OutIsHandle DEF HandlesKept, Full
<1> QED
  BY <1>2 DEF Signals

LEMMA PairedKept ==
    ASSUME HandlesKept, NEW a \in CNode, NEW i \in ChannelId, Paired(a, i)
    PROVE  Paired(a, i)'
<1>1. PICK b \in CNode, m \in ChannelId :
        /\ Signals(caps[a][At("OUT", i)], b, m)
        /\ Signals(caps[b][At("OUT", m)], a, i)
  BY DEF Paired
<1>2. Signals(caps[a][At("OUT", i)], b, m)' /\ Signals(caps[b][At("OUT", m)], a, i)'
  BY <1>1, SignalsKept
<1> QED
  BY <1>2 DEF Paired

\* The slots through which PDs signal: only MintChannel fills them.
LEMMA OutSteps ==
    ASSUME Linked, NEW c \in CNode, PdCreateStep(c), Kept(c), NEW x \in CNode, NEW i \in ChannelId
    PROVE  \/ caps'[x][At("OUT", i)] = caps[x][At("OUT", i)]
           \/ MintChannel(c) /\ Pairs(c, x, i)
<1>1. Wired /\ Active(c) /\ Advances(c)
  BY StepAdvances DEF Linked
<1>2. At("OUT", i) \in Slot /\ Link(At("OUT", i))
  BY LinkSlots
<1>3. CASE CopyFixedCap(c)
  <2>1. At("OUT", i) # InputSlot /\ \A m : At("OUT", i) # At("CHAN", m) /\ At("OUT", i) # At("CNODE", m)
    BY DEF At, InputSlot
  <2> QED
    BY <1>1, <1>2, <1>3, <2>1, CopyLinks DEF NewLink
<1>4. CASE MintChannel(c)
  <2>1. UNCHANGED caps \/ NewRoot(c)' = NewRoot(c)
    <3>1. CASE Active(c)'
      BY <1>1, <3>1, RootStays DEF Advances
    <3>2. CASE ~Active(c)'
      BY <1>1, <1>4, <3>2, MintJob DEF Active
    <3> QED
      BY <3>1, <3>2
  <2>2. \A m : At("OUT", i) = At("OUT", m) => i = m
    BY DEF At
  <2> QED
    BY <1>2, <1>4, <2>1, <2>2, ChannelMinted
<1>5. CASE ~CopyFixedCap(c) /\ ~MintChannel(c)
  BY <1>1, <1>2, <1>5, QuietSteps DEF Quiet
<1> QED
  BY <1>3, <1>4, <1>5

\* The pending mint of a channel stays the next step of its call.
LEMMA PendingKept ==
    ASSUME Wired, NEW c \in CNode, Kept(c), NEW d \in CNode, job'[d] = job[d], NEW i \in ChannelId,
           Pending(d, i)
    PROVE  Pending(d, i)'
<1>1. RightIs(d, "channel") /\ RightIs(d, "channel")' /\ Right(d)' = Right(d)
  BY Zenon DEF Pending, RightIs, Right, Program
<1>2. Active(d) /\ Right(d).target \in PdId /\ NewRoot(d).n \in CNode
      /\ (Root(Peer(d)) => Peer(d).n \in CNode)
  BY <1>1, ChannelFacts
<1>3. NewRoot(d)' = NewRoot(d)
  BY <1>2, RootStays
<1>4. Root(Peer(d))
  BY DEF Pending, Peer
<1>5. PICK a \in PdId, x \in CNode, n \in CNode : a = Right(d).target /\ x = Peer(d).n /\ n = NewRoot(d).n
  BY <1>2, <1>4
<1>6. caps'[d][At("CNODE", a)] = caps[d][At("CNODE", a)]
  <2>1. Full(caps[d][At("CNODE", a)])
    BY <1>4, <1>5 DEF Peer, PdRoot, Root, Full
  <2> QED
    BY <2>1, OutIsHandle DEF Kept, HandlesKept, Full
<1>7. PICK m : m = Right(d).targetId
  OBVIOUS
<1>8. Signals(caps[n][At("OUT", i)], x, m)
  BY <1>5, <1>7 DEF Pending, Peer
<1>9. Signals(caps[n][At("OUT", i)], x, m)'
  BY <1>8, SignalsKept DEF Kept
<1>10. PdRoot(d, a)' = PdRoot(d, a)
  BY <1>6 DEF PdRoot
<1> QED
  BY <1>1, <1>3, <1>4, <1>5, <1>7, <1>9, <1>10 DEF Pending, Peer

LEMMA OwnJobPaired ==
    ASSUME Linked, NEW c \in CNode, PdCreateStep(c), Kept(c)
    PROVE  JobPaired(c)'
<1>1. Wired /\ JobPaired(c) /\ Active(c) /\ Advances(c) /\ HandlesKept
  BY StepAdvances DEF Linked, Kept
<1>2. CASE ~Active(c)'
  BY <1>2 DEF JobPaired, Active, RightIs
<1>3. CASE Active(c)'
  <2>1. NewRoot(c)' = NewRoot(c)
    BY <1>1, <1>3, RootStays DEF Advances
  <2>2. ASSUME Full(NewRoot(c)), NEW i \in ChannelId, NEW n \in CNode, n = NewRoot(c).n,
               Full(caps'[n][At("OUT", i)])
        PROVE  Paired(n, i)' \/ Pending(c, i)'
    <3>1. CASE caps'[n][At("OUT", i)] = caps[n][At("OUT", i)]
      <4>1. Paired(n, i) \/ Pending(c, i)
        BY <1>1, <2>2, <3>1 DEF JobPaired
      <4>2. CASE Paired(n, i)
        BY <1>1, <4>2, PairedKept
      <4>3. CASE Pending(c, i)
        <5>1. RightIs(c, "channel") /\ job[c].i # 0 /\ i = Right(c).ownId
          BY <4>3 DEF Pending
        <5>2. MintChannel(c)
          BY <1>1, <5>1, StepAdvances
        <5> QED
          BY <1>3, <2>1, <2>2, <5>1, <5>2, ChannelMinted
      <4> QED
        BY <4>1, <4>2, <4>3
    <3>2. CASE MintChannel(c) /\ Pairs(c, n, i)
      <4>1. Paired(n, i)' \/ (job[c].i = 0 /\ i = Right(c).ownId)
        BY <3>2 DEF Pairs
      <4> QED
        BY <1>3, <2>1, <3>2, <4>1, ChannelMinted
    <3> QED
      BY <3>1, <3>2, OutSteps
  <2>3. ASSUME RightIs(c, "channel")', job'[c].i # 0
        PROVE  Pending(c, Right(c).ownId)'
    <3>1. MintChannel(c)
      BY <1>1, <2>3, StepAdvances DEF Arrives, RightIs
    <3> QED
      BY <1>3, <2>1, <2>3, <3>1, ChannelMinted
  <2>4. ASSUME Full(NewRoot(c)) PROVE NewRoot(c).n \in CNode
    BY <1>1, <2>4, RootObject
  <2>5. PICK n : n = NewRoot(c).n
    OBVIOUS
  <2>6. ASSUME Full(NewRoot(c)), NEW i \in ChannelId, Full(caps'[n][At("OUT", i)])
        PROVE  Paired(n, i)' \/ Pending(c, i)'
    BY <2>2, <2>4, <2>5, <2>6
  <2> QED
    BY <2>1, <2>3, <2>5, <2>6 DEF JobPaired
<1> QED
  BY <1>2, <1>3

LEMMA OtherJobPaired ==
    ASSUME Linked, NEW c \in CNode, PdCreateStep(c), Kept(c), NEW d \in CNode \ {c}
    PROVE  JobPaired(d)'
<1>1. Wired /\ JobPaired(d) /\ Active(c) /\ HandlesKept /\ job'[d] = job[d]
  BY StepAdvances DEF Linked, Kept
<1>2. CASE ~Active(d)'
  BY <1>2 DEF JobPaired, Active, RightIs
<1>3. CASE Active(d)'
  <2>1. NewRoot(d)' = NewRoot(d) /\ Active(d)
    BY <1>1, <1>3, RootStays DEF Active
  <2>2. ASSUME Full(NewRoot(d)), NEW i \in ChannelId, NEW n \in CNode, n = NewRoot(d).n,
               Full(caps'[n][At("OUT", i)])
        PROVE  Paired(n, i)' \/ Pending(d, i)'
    <3>1. CASE caps'[n][At("OUT", i)] = caps[n][At("OUT", i)]
      <4>1. Paired(n, i) \/ Pending(d, i)
        BY <1>1, <2>1, <2>2, <3>1 DEF JobPaired
      <4> QED
        BY <1>1, <4>1, PairedKept, PendingKept
    <3>2. CASE Pairs(c, n, i)
      <4>1. ~(Full(NewRoot(c)) /\ n = NewRoot(c).n)
        BY <1>1, <2>1, <2>2, ObjectsApart
      <4> QED
        BY <3>2, <4>1 DEF Pairs
    <3> QED
      BY <3>1, <3>2, OutSteps
  <2>3. ASSUME RightIs(d, "channel")', job'[d].i # 0
        PROVE  Pending(d, Right(d).ownId)'
    <3>1. RightIs(d, "channel") /\ Right(d)' = Right(d)
      BY <1>1, <2>3 DEF RightIs, Right, Program
    <3>2. PICK i \in ChannelId : i = Right(d).ownId
      BY <1>1, <3>1, ChannelFacts
    <3>3. Pending(d, i)
      BY <1>1, <2>3, <3>1, <3>2 DEF JobPaired
    <3>4. Pending(d, i)'
      BY <1>1, <3>3, PendingKept
    <3> QED
      BY <3>1, <3>2, <3>4
  <2>4. ASSUME Full(NewRoot(d)) PROVE NewRoot(d).n \in CNode
    BY <1>1, <2>1, <2>4, RootObject
  <2>5. PICK n : n = NewRoot(d).n
    OBVIOUS
  <2>6. ASSUME Full(NewRoot(d)), NEW i \in ChannelId, Full(caps'[n][At("OUT", i)])
        PROVE  Paired(n, i)' \/ Pending(d, i)'
    BY <2>2, <2>4, <2>5, <2>6
  <2> QED
    BY <2>1, <2>3, <2>5, <2>6 DEF JobPaired
<1> QED
  BY <1>2, <1>3

LEMMA OutsPairedKept ==
    ASSUME Linked, NEW c \in CNode, PdCreateStep(c), Kept(c)
    PROVE  OutsPaired'
<1>1. Wired /\ JobPaired(c) /\ OutsPaired /\ Active(c) /\ HandlesKept /\ JobWired(c)
  BY StepAdvances DEF Linked, Kept, Wired
<1> SUFFICES ASSUME NEW a \in CNode \ Given, image'[a] # NoImage, NEW i \in ChannelId,
                    Full(caps'[a][At("OUT", i)])
             PROVE  Paired(a, i)'
  BY DEF OutsPaired, Loaded, Given
<1>2. CASE Live(a)
  <2>1. CASE caps'[a][At("OUT", i)] = caps[a][At("OUT", i)]
    <3>1. Paired(a, i)
      BY <1>1, <1>2, <2>1 DEF OutsPaired, Loaded, Live, Given
    <3> QED
      BY <1>1, <3>1, PairedKept
  <2>2. CASE Pairs(c, a, i)
    <3>1. ~(Active(c) /\ Full(NewRoot(c)) /\ a = NewRoot(c).n)
      BY <1>1, <1>2 DEF JobWired
    <3> QED
      BY <2>2, <3>1 DEF Pairs
  <2> QED
    BY <2>1, <2>2, OutSteps
<1>3. CASE ~Live(a)
  <2>1. Bound(c) /\ a = NewRoot(c).n /\ image' # image
    BY <1>3 DEF Kept, ImageStep, Live
  <2>2. Restart(c)
    BY <2>1, Zenon DEF PdCreateStep, threads, MovePoolCap, AllocateObjects, AssignAsid, CopyFixedCap, SetSpace,
       BindNotification, NextPage, MapTable, MapPage, WriteHandle, SetIpcBuffer, SetUpScheduling,
       MintChannel, SetUpRegion, MapShared, MintIrqBadge, SetIrqTarget, MoveIrqHandler,
       SkipControl, UnknownRight
  <2>3. UNCHANGED caps /\ ~MintChannel(c)
    <3>1. UNCHANGED caps
      BY <1>1, <2>2, RestartStarts
    <3>2. job'[c].pc = "idle"
      BY <1>1, <2>2, RestartStarts
    <3>3. MintChannel(c) => job'[c].pc # "idle"
      BY <1>1, MintJob
    <3> QED
      BY <3>1, <3>2, <3>3
  <2>4. ~RightIs(c, "channel")
    BY <1>1, <2>3, StepAdvances
  <2>5. Full(NewRoot(c))
    BY <1>1, <2>1, BoundObjects
  <2>6. Paired(a, i)
    BY <1>1, <2>1, <2>3, <2>4, <2>5 DEF JobPaired, Pending
  <2> QED
    BY <1>1, <2>6, PairedKept
<1> QED
  BY <1>2, <1>3

\* A call that begins takes a CNode that nobody knows, and has made no channel.
LEMMA EnterLinked ==
    ASSUME Linked, NEW c \in CNode, NEW p \in Programs, NEW id \in PdId, Enter(c, p, id)
    PROVE  /\ EmptyFresh' /\ NamedOnce' /\ ChanIsInput' /\ OutsPaired'
           /\ \A d \in CNode : JobNamed(d)' /\ JobPaired(d)'
<1>1. /\ Wired /\ Kept(c) /\ OnlyJobOf(c) /\ UNCHANGED <<caps, tcb, image, frames>>
      /\ EmptyFresh /\ NamedOnce /\ ChanIsInput /\ OutsPaired
      /\ \A d \in CNode : JobNamed(d) /\ JobPaired(d)
  BY EnterFrame DEF Linked
<1>2. EmptyFresh'
  BY <1>1, EmptyFreshKept
<1>3. NamedOnce' /\ ChanIsInput'
  BY <1>1 DEF NamedOnce, ChanIsInput
<1>4. \A a \in CNode, i \in ChannelId : Paired(a, i)' = Paired(a, i)
  BY <1>1 DEF Paired, Signals
<1>5. OutsPaired'
  BY <1>1, <1>4 DEF OutsPaired, Loaded
<1>6. ASSUME NEW d \in CNode \ {c} PROVE JobNamed(d)' /\ JobPaired(d)'
  <2>1. job'[d] = job[d] /\ JobNamed(d) /\ JobPaired(d)
    BY <1>1 DEF Kept
  <2>2. NewRoot(d)' = NewRoot(d) /\ Active(d)' = Active(d)
    BY <1>1, <2>1 DEF NewRoot, Active
  <2>3. Copied(d, 10)' = Copied(d, 10)
    BY <2>1 DEF Copied, Building
  <2>4. RightIs(d, "channel")' = RightIs(d, "channel") /\ Right(d)' = Right(d)
    BY <2>1 DEF RightIs, Right, Program
  <2>5. JobNamed(d)'
    BY <1>1, <2>1, <2>2, <2>3 DEF JobNamed
  <2>6. \A i \in ChannelId : Pending(d, i)' = Pending(d, i)
    BY <1>1, <2>1, <2>2, <2>4 DEF Pending, PdRoot, Signals
  <2>7. CASE Active(d) /\ Full(NewRoot(d))
    <3>1. NewRoot(d).n \in CNode
      <4>1. At("cnode", job[d].cnode) \in Slot /\ job[d].cnode \in PoolIndex("cnode") /\ "cnode" \in PoolKind
        BY <1>1, <2>7, WiredJob, PoolFacts DEF PoolKind
      <4>2. NewRoot(d).kind = "cnode"
        BY <1>1, <2>7, <4>1, PoolFacts DEF NewRoot
      <4> QED
        BY <1>1, <4>1, <4>2, WiredTypes DEF NewRoot
    <3>2. PICK n \in CNode : n = NewRoot(d).n
      BY <3>1
    <3>3. \A i \in ChannelId : Full(caps[n][At("OUT", i)]) => Paired(n, i) \/ Pending(d, i)
      BY <2>1, <2>7, <3>2 DEF JobPaired
    <3>4. RightIs(d, "channel") /\ job[d].i # 0 => Pending(d, Right(d).ownId)
      BY <2>1 DEF JobPaired
    <3>5. \A i \in ChannelId : Full(caps'[n][At("OUT", i)]) => Paired(n, i)' \/ Pending(d, i)'
      BY <1>1, <1>4, <2>6, <3>3
    <3>6. NewRoot(d)'.n = n
      BY <2>2, <3>2
    <3>7. RightIs(d, "channel")' /\ job'[d].i # 0 => Pending(d, Right(d).ownId)'
      BY <1>1, <2>1, <2>2, <2>4, <3>4 DEF Pending, PdRoot, Signals
    <3> QED
      BY <2>5, <3>5, <3>6, <3>7 DEF JobPaired
  <2>8. CASE ~(Active(d) /\ Full(NewRoot(d)))
    <3>1. RightIs(d, "channel") /\ job[d].i # 0 => Pending(d, Right(d).ownId)
      BY <2>1 DEF JobPaired
    <3>2. RightIs(d, "channel")' /\ job'[d].i # 0 => Pending(d, Right(d).ownId)'
      BY <1>1, <2>1, <2>2, <2>4, <3>1 DEF Pending, PdRoot, Signals
    <3> QED
      BY <2>2, <2>5, <2>8, <3>2 DEF JobPaired, Full
  <2> QED
    BY <2>7, <2>8
<1>7. CASE Fail(c)
  <2>1. ~Active(c)' /\ ~RightIs(c, "channel")'
    BY <1>1, <1>7, StepEnds DEF Active, RightIs
  <2>2. JobNamed(c)' /\ JobPaired(c)'
    BY <2>1 DEF JobNamed, JobPaired
  <2> QED
    BY <1>2, <1>3, <1>5, <1>6, <2>2
<1>8. CASE ~Fail(c)
  <2> DEFINE i == alloc[c]["cnode"]
             new == [NoJob EXCEPT !.pc = IF HasControl(p) THEN "move" ELSE "allocate",
                       !.program = p, !.id = id, !.cnode = i]
             x == caps[c][At("cnode", i)]
  <2>1. Step(c, new) /\ ~Exhausted(c, "cnode")
    BY <1>8 DEF Enter
  <2>2. job'[c] = new
    BY <1>1, <2>1, StepAt
  <2>3. job'[c].pc \in {"move", "allocate"} /\ job'[c].cnode = i
    BY <2>2 DEF NoJob
  <2>4. i \in PoolIndex("cnode") /\ i >= alloc[c]["cnode"] /\ "cnode" \in PoolKind
    <3>1. i \in Nat /\ i < PoolSize("cnode") /\ PoolSize("cnode") \in Nat
      BY <1>1, <2>1, PoolCapType, PoolSizeType DEF Wired, IInv, PdsOK, PoolKind
    <3> QED
      BY <3>1 DEF PoolIndex, PoolKind
  <2> HIDE DEF new, i
  <2>5. NewRoot(c)' = x
    BY <1>1, <2>3 DEF NewRoot
  <2>6. ~RightIs(c, "channel")'
    BY <2>3 DEF RightIs
  <2>7. ASSUME Full(x) PROVE \A d \in CNode, a \in PdId : ~SameObject(caps[d][At("CNODE", a)], x)
    <3>1. \A d \in CNode, s \in Slot : SameObject(caps[d][s], x) => s = At("cnode", i)
      BY <1>1, <2>4, <2>7, PoolFacts
    <3>2. \A a \in PdId : At("CNODE", a) \in Slot /\ At("CNODE", a) # At("cnode", i)
      BY LinkSlots, Zenon DEF At
    <3> QED
      BY <3>1, <3>2
  <2>8. ASSUME Full(x) PROVE \A s \in Slot : ~Full(caps[x.n][s])
    BY <1>1, <2>4, <2>8 DEF EmptyFresh
  <2>9. JobNamed(c)'
    BY <1>1, <2>5, <2>7 DEF JobNamed, Full
  <2>10. Full(x) => \A m \in ChannelId : ~Full(caps'[NewRoot(c)'.n][At("OUT", m)])
    BY <1>1, <2>5, <2>8, LinkSlots
  <2>11. JobPaired(c)'
    BY <2>5, <2>6, <2>10 DEF JobPaired, Full
  <2> QED
    BY <1>2, <1>3, <1>5, <1>6, <2>9, <2>11
<1> QED
  BY <1>7, <1>8

\* So do the channels: a call mints both ends, one after the other, and whatever
\* other loaders do in between, nobody runs with only one of them.
LEMMA NextKeepsLinked == Linked /\ [Next]_vars => Linked'
<1> SUFFICES ASSUME Linked, [Next]_vars PROVE Linked'
  OBVIOUS
<1>1. Wired' /\ IInv' /\ Wired
  BY NextKeepsWired DEF Linked, Wired
<1>2. ASSUME NEW c \in CNode, PdCreateStep(c) PROVE Linked'
  <2>1. Kept(c) /\ OnlyJobOf(c) /\ EmptyFresh
    BY <1>1, <1>2, StepFrame, StepJob DEF Linked
  <2>2. EmptyFresh'
    BY <1>1, <1>2, <2>1, EmptyFreshKept
  <2>3. NamedOnce' /\ ChanIsInput' /\ OutsPaired'
    BY <1>1, <1>2, <2>1, NamedOnceKept, ChanIsInputKept, OutsPairedKept
  <2>4. \A d \in CNode : JobNamed(d)'
    BY <1>2, <2>1, JobNamedKept
  <2>5. \A d \in CNode : JobPaired(d)'
    BY <1>2, <2>1, OwnJobPaired, OtherJobPaired
  <2> QED
    BY <1>1, <2>2, <2>3, <2>4, <2>5 DEF Linked
<1>3. ASSUME NEW c \in CNode, NEW p \in Programs, NEW id \in PdId, Enter(c, p, id) PROVE Linked'
  BY <1>1, <1>3, EnterLinked DEF Linked
<1>4. CASE UNCHANGED vars
  <2>1. EmptyFresh' /\ NamedOnce' /\ ChanIsInput'
    BY <1>4 DEF Linked, vars, EmptyFresh, NamedOnce, ChanIsInput
  <2>2. OutsPaired'
    BY <1>4 DEF Linked, vars, OutsPaired, Loaded, Paired, Signals
  <2>3. ASSUME NEW d \in CNode PROVE JobNamed(d)' /\ JobPaired(d)'
    <3>1. JobNamed(d) /\ JobPaired(d)
      BY DEF Linked
    <3>2. JobNamed(d)'
      BY <1>4, <3>1 DEF vars, JobNamed, Active, NewRoot, Copied, Building
    <3>3. JobPaired(d)'
      BY <1>4, <3>1, Zenon DEF vars, JobPaired, Active, NewRoot, Paired, Signals, Pending, RightIs, Right,
                        Program, PdRoot
    <3> QED
      BY <3>2, <3>3
  <2> QED
    BY <1>1, <2>1, <2>2, <2>3 DEF Linked
<1> QED
  BY <1>2, <1>3, <1>4 DEF Next

----------------------------------------------------------------------------
(* The channels at boot *)

\* The roots that the tool gave: its own and pong's to the root, pong's to pong.
LEMMA BootRoots ==
    ASSUME Init, NEW d \in CNode, NEW a \in PdId, Root(caps[d][At("CNODE", a)])
    PROVE  \/ a = RootId /\ caps[d][At("CNODE", a)].n = 0
           \/ a = StaticId /\ caps[d][At("CNODE", a)].n = StaticNum("cnode")
<1> DEFINE s == At("CNODE", a)
<1>1. s \in Slot
  BY LinkSlots
<1>2. ~Root(NullCap)
  BY DEF NullCap, MkCap, Root
<1>3. /\ s[1] = "CNODE" /\ s[2] = a /\ s # InputSlot /\ s[1] \notin PoolKind /\ s[1] \in PdArea \ {"SC"}
      /\ s # At("CHAN", RootId) /\ s # FaultSlot /\ s # AsidSlot /\ s # ControlSlot
      /\ s # At("IRQ", RootImage.irq)
  BY DEF At, InputSlot, FaultSlot, AsidSlot, ControlSlot, PoolKind, PdArea
<1>4. KindIn["CNODE"] = "cnode"
  BY DEF KindIn
<1>5. \A k, n : MkCap(k, n).kind = k /\ MkCap(k, n).n = n
  BY DEF MkCap
<1> HIDE DEF s
<1>6. CASE d = 0
  <2>1. Root(RootCap(s))
    BY <1>1, <1>6, BootCaps DEF s
  <2>2. \/ a = RootId /\ RootCap(s).n = 0
        \/ a = StaticId /\ RootCap(s).n = StaticNum("cnode")
    BY <1>2, <1>3, <1>4, <1>5, <2>1, LayoutAssumption DEF RootCap
  <2> QED
    BY <1>1, <1>6, <2>2, BootCaps DEF s
<1>7. CASE d = StaticNum("cnode")
  <2>1. Root(StaticCap(s))
    BY <1>1, <1>7, BootCaps DEF s
  <2>2. a = StaticId /\ StaticCap(s).n = StaticNum("cnode")
    BY <1>2, <1>3, <1>4, <1>5, <2>1 DEF StaticCap
  <2> QED
    BY <1>1, <1>7, <2>2, BootCaps DEF s
<1>8. CASE d \notin Given
  BY <1>1, <1>2, <1>8, BootCaps DEF s
<1> QED
  BY <1>6, <1>7, <1>8 DEF Given

LEMMA BootChannels ==
    ASSUME Init
    PROVE  /\ caps[0][At("CHAN", RootId)] = caps[0][InputSlot]
           /\ caps[StaticNum("cnode")][At("CHAN", StaticId)] = caps[StaticNum("cnode")][InputSlot]
<1>1. RootId \in PdId /\ StaticId \in PdId /\ RootId # StaticId
  BY LayoutAssumption
<1>2. InputSlot \in Slot /\ At("CHAN", RootId) \in Slot /\ At("CHAN", StaticId) \in Slot
  BY <1>1, LinkSlots
<1>3. ASSUME NEW s \in {InputSlot, At("CHAN", RootId)} PROVE RootCap(s) = MkCap("ep", 0)
  <2>1. s[1] \notin PoolKind /\ s[1] \notin {"TCB", "CNODE", "VSPACE"} /\ s[1] # "SHARED"
        /\ (s[1] \in PdArea => s[2] # StaticId) /\ s # FaultSlot /\ s # AsidSlot
        /\ s # ControlSlot /\ s # At("IRQ", RootImage.irq)
    BY LayoutAssumption
       DEF InputSlot, FaultSlot, AsidSlot, ControlSlot, At, PoolKind, PdArea
  <2> QED
    BY <1>3, <2>1 DEF RootCap
<1>4. StaticCap(InputSlot) = MkCap("ntfn", StaticNum("ntfn"))
  BY DEF StaticCap
<1>5. StaticCap(At("CHAN", StaticId)) = MkCap("ntfn", StaticNum("ntfn"))
  <2> DEFINE s == At("CHAN", StaticId)
  <2>1. s[1] = "CHAN" /\ s[1] \in PdArea \ {"SC"} /\ s[2] = StaticId /\ s # InputSlot
    BY DEF At, PdArea, InputSlot
  <2>2. KindIn["CHAN"] = "ntfn"
    BY DEF KindIn
  <2> HIDE DEF s
  <2>3. StaticCap(s) = MkCap("ntfn", StaticNum("ntfn"))
    BY <2>1, <2>2 DEF StaticCap
  <2> QED
    BY <2>3 DEF s
<1> QED
  BY <1>2, <1>3, <1>4, <1>5, BootCaps

\* The tool gives no channel to a pool's CNode, and to nobody a PD's id twice.
LEMMA InitLinked == Init => Linked
<1> SUFFICES ASSUME Init PROVE Linked
  OBVIOUS
<1>1. Wired /\ 0 # StaticNum("cnode") /\ RootId # StaticId
  BY InitWired, BootCaps, LayoutAssumption
<1>2. EmptyFresh
  <2> SUFFICES ASSUME NEW c \in CNode, NEW i \in PoolIndex("cnode"),
                      Full(caps[c][At("cnode", i)]), NEW s \in Slot
               PROVE  ~Full(caps[caps[c][At("cnode", i)].n][s])
    BY DEF EmptyFresh
  <2>1. "cnode" \in PoolKind
    BY DEF PoolKind
  <2>2. \A k, n : MkCap(k, n).n = n
    BY DEF MkCap
  <2>3. ~Full(NullCap)
    BY DEF NullCap, MkCap, Full
  <2>4. caps[c][At("cnode", i)].n = i + 1
    BY <2>1, <2>2, <2>3, BootPools
  <2>5. i + 1 \in CNode \ Given
    <3>1. i \in Nat /\ i + 1 <= PoolSize("cnode") /\ PoolSize("cnode") \in Nat
      BY <2>1, PoolSizeType DEF PoolIndex
    <3> QED
      BY <3>1 DEF CNode, ObjNum, Given, StaticNum
  <2> QED
    BY <2>3, <2>4, <2>5, BootCaps
<1>3. NamedOnce
  BY <1>1, BootRoots DEF NamedOnce, SameObject, Root
<1>4. ChanIsInput
  BY BootRoots, BootChannels DEF ChanIsInput, SameObject
<1>5. OutsPaired
  <2>1. \A c \in CNode \ Given : image[c] = NoImage
    BY DEF Init, Given
  <2> QED
    BY <2>1 DEF OutsPaired, Loaded, Given
<1>6. ASSUME NEW c \in CNode PROVE JobNamed(c) /\ JobPaired(c)
  <2>1. job[c].pc = "idle"
    BY DEF Init, NoJob
  <2> QED
    BY <2>1 DEF JobNamed, JobPaired, Active, RightIs
<1> QED
  BY <1>1, <1>2, <1>3, <1>4, <1>5, <1>6 DEF Linked

LEMMA LinkedHolds == Spec => []Linked
  BY InitLinked, NextKeepsLinked, PTL DEF Spec

\* Every channel of a loaded PD (sel4cp.h:253-291) works in both directions: it
\* signals the notification that the PD at its other end waits on, and that PD
\* calls notified() with the id under which it signals back, when that id is below
\* 31 (from there on the int shift of lines 265 and 283 makes another badge). It
\* holds although the two ends are minted in two steps, in the CSpaces of two PDs,
\* by a call that may fail between them, and although the target is found by an id
\* that several calls may have used.
THEOREM ChannelsAlwaysPaired == Spec => []ChannelsPaired
<1>1. Linked => ChannelsPaired
  <2>1. ASSUME NEW x, NEW b, NEW m \in ChannelId, Signals(x, b, m)
        PROVE  SameObject(x, caps[b][InputSlot]) /\ Names(x.badge, m)
    BY <2>1, BadgeType, CapSpaceAssumption DEF Signals
  <2>2. OutsPaired => ChannelsPaired
    <3> SUFFICES ASSUME OutsPaired, NEW a \in Loaded, NEW i \in ChannelId,
                        Full(caps[a][At("OUT", i)])
                 PROVE  \E b \in CNode, m \in ChannelId :
                            /\ SameObject(caps[a][At("OUT", i)], caps[b][InputSlot])
                            /\ Names(caps[a][At("OUT", i)].badge, m)
                            /\ SameObject(caps[b][At("OUT", m)], caps[a][InputSlot])
                            /\ Names(caps[b][At("OUT", m)].badge, i)
      BY DEF ChannelsPaired, Full
    <3>1. Paired(a, i)
      BY DEF OutsPaired
    <3> QED
      BY <2>1, <3>1, Zenon DEF Paired
  <2> QED
    BY <2>2 DEF Linked
<1> QED
  BY <1>1, LinkedHolds, PTL

----------------------------------------------------------------------------
(* Who answers the UART interrupt                                            *)

HasIrq(d, i) == caps[d][At("IRQ", i)].kind = "irq"

\* The interrupt signals notification n, under id i.
Targets(x, n, i) == x.kind = "ntfn" /\ x.n = n /\ Names(x.badge, i)

\* There is one handler capability.
IrqOnce ==
    \A d, e \in CNode, i, m \in ChannelId : HasIrq(d, i) /\ HasIrq(e, m) => d = e /\ i = m

\* A notification is bound to one thread.
BoundOnce ==
    \A t, u \in ObjNum("tcb") : tcb[t].bound # None /\ tcb[t].bound = tcb[u].bound => t = u

\* A PD that runs answers what it is notified of, but while it hands it over.
IrqAnswered(d) ==
    Live(d) /\ job[d].pc \notin {"irqmove", "crashed"} =>
        \A i \in ChannelId : HasIrq(d, i) => Targets(irqTarget, tcb[image[d].tcb].bound, i)

\* A PD under construction was given the handler after the interrupt.
IrqGiven(c) ==
    Active(c) /\ Full(NewRoot(c)) =>
        \A i \in ChannelId : HasIrq(NewRoot(c).n, i) => Bound(c) /\ Targets(irqTarget, Ntfn(c).n, i)

\* The three steps of sel4cp_internal_set_up_irq.
IrqMoving(c) ==
    /\ job[c].pc = "irqtarget" => Targets(caps[c][TempSlot], Ntfn(c).n, Right(c).childId)
    /\ job[c].pc = "irqmove" => /\ HasIrq(c, Right(c).parentId)
                                /\ Targets(irqTarget, Ntfn(c).n, Right(c).childId)

HandedOver ==
    /\ Linked /\ BoundOnce /\ IrqOnce
    /\ \A c \in CNode : IrqAnswered(c) /\ IrqGiven(c) /\ IrqMoving(c)

\* The PD that creates PDs, or is notified of the interrupt.
Notified(c) == Live(c) /\ irqTarget.n = tcb[image[c].tcb].bound
HasRole(c)  == Active(c) \/ Notified(c)
OneRole == \A c, d \in CNode : HasRole(c) /\ HasRole(d) => c = d

LEMMA IrqSlots ==
    /\ \A i \in ChannelId : At("IRQ", i) \in Slot
    /\ \A a : a # "IRQ" => \A i, m : At("IRQ", i) # At(a, m)
    /\ \A i : At("IRQ", i) # TempSlot
    /\ \A i, m : At("IRQ", i) = At("IRQ", m) => i = m
<1>1. \A i \in ChannelId : At("IRQ", i) \in Slot
  BY ChannelSlots DEF ChannelArea
<1> QED
  BY <1>1 DEF At, TempSlot

\* No capability is put into a slot of area a, taken from one or changed there
\* between cs and cs2.
Spares(a, cs, cs2) == \A e \in CNode, s \in Slot : s[1] = a => cs2[e][s] = cs[e][s]

LEMMA AreaOf == \A a, i : At(a, i)[1] = a
  BY DEF At

LEMMA MintSpares ==
    ASSUME NEW a, NEW cs, Shaped(cs), NEW droot, NEW ds, ds[1] # a, NEW sroot, NEW ss, NEW badge
    PROVE  Spares(a, cs, MintTo(cs, droot, ds, sroot, ss, badge))
  BY MintElsewhere DEF Spares

LEMMA CopySpares ==
    ASSUME NEW a, NEW cs, Shaped(cs), NEW droot, NEW ds, ds[1] # a, NEW sroot, NEW ss
    PROVE  Spares(a, cs, CopyTo(cs, droot, ds, sroot, ss)) /\ Shaped(CopyTo(cs, droot, ds, sroot, ss))
<1>1. Shaped(CopyTo(cs, droot, ds, sroot, ss))
  BY DEF Shaped, CopyTo, MintTo
<1> QED
  BY <1>1, MintSpares DEF CopyTo

LEMMA PutSpares ==
    ASSUME NEW a, NEW cs, Shaped(cs), NEW d, NEW s, s[1] # a
    PROVE  /\ \A x : LET cs2 == [cs EXCEPT ![d][s] = x] IN Spares(a, cs, cs2) /\ Shaped(cs2)
           /\ \A p : LET cs2 == [cs EXCEPT ![d][s].at = p] IN Spares(a, cs, cs2) /\ Shaped(cs2)
<1>1. ASSUME NEW x PROVE LET cs2 == [cs EXCEPT ![d][s] = x] IN Spares(a, cs, cs2) /\ Shaped(cs2)
  BY DEF Shaped, Spares
<1>2. ASSUME NEW p PROVE LET cs2 == [cs EXCEPT ![d][s].at = p] IN Spares(a, cs, cs2) /\ Shaped(cs2)
  BY DEF Shaped, Spares
<1> QED
  BY <1>1, <1>2

LEMMA SparesBoth ==
    ASSUME NEW a, NEW cs, NEW cs2, NEW cs3, Spares(a, cs, cs2), Spares(a, cs2, cs3)
    PROVE  Spares(a, cs, cs3)
  BY DEF Spares

\* Handler capabilities move in the last step of set_up_irq, regions are shared when
\* their pages are mapped, and no other step touches the slots of either.
LEMMA AreasSpared ==
    ASSUME Wired, NEW c \in CNode, PdCreateStep(c), NEW a \in {"IRQ", "SHARED"},
           a = "IRQ" => ~MoveIrqHandler(c), a = "SHARED" => ~MapShared(c)
    PROVE  Spares(a, caps, caps')
<1>1. CASE UNCHANGED caps
  BY <1>1 DEF Spares
<1>2. Shaped(caps)
  BY WiredTypes
<1>0. /\ TempSlot[1] # a /\ \A i : At("page", i)[1] # a /\ At("OUT", i)[1] # a
      /\ \A k \in PoolKind : \A i : At(k, i)[1] # a
  BY AreaOf DEF TempSlot, PoolKind
<1>3. CASE CopyFixedCap(c)
  <2> DEFINE ds == FixedCaps(c)[job[c].k].dst
  <2>1. job[c].k \in 1 .. 13
    BY <1>3, FixedCapsType, SMTT(30) DEF Wired, CopyFixedCap
  <2>2. \A k \in 1 .. 13 : \E area \in PdArea \cup {"INPUT", "ASID_POOL", "SCHED_CONTROL"} : \E i :
            FixedCaps(c)[k].dst = At(area, i)
    BY FixedCapsPlaces, Zenon
  <2>3. ds[1] # a
    BY <2>1, <2>2, AreaOf, ZenonT(60) DEF PdArea
  <2>4. UNCHANGED caps \/ \E droot, sroot, ss : caps' = CopyTo(caps, droot, ds, sroot, ss)
    BY <1>3, Zenon DEF CopyFixedCap
  <2> HIDE DEF ds
  <2> QED
    BY <1>1, <1>2, <2>3, <2>4, CopySpares
<1>4. CASE MovePoolCap(c)
  <2> DEFINE n == NewRoot(c).n
  <2>1. ASSUME NEW k \in PoolKind, NEW i, NEW m, Moves(caps, caps', n, At(k, i), c, At(k, m))
        PROVE  Spares(a, caps, caps')
    BY <1>0, <2>1 DEF Moves, Spares
  <2> QED
    BY <1>1, <1>4, <2>1, MovePoolCapMoves
<1>5. CASE MapPage(c)
  <2>1. UNCHANGED caps \/ \E i, p : caps' = [caps EXCEPT ![c][At("page", i)].at = p]
    BY <1>5, Zenon DEF MapPage
  <2>2. ASSUME NEW i, NEW p, caps' = [caps EXCEPT ![c][At("page", i)].at = p]
        PROVE  Spares(a, caps, caps')
    <3> DEFINE s == At("page", i)
    <3>1. s[1] # a /\ caps' = [caps EXCEPT ![c][s].at = p]
      BY <1>0, <2>2
    <3> HIDE DEF s
    <3> QED
      BY <1>2, <3>1, PutSpares
  <2> QED
    BY <1>1, <2>1, <2>2
<1>6. CASE MintChannel(c)
  <2>1. UNCHANGED caps \/ \E droot, i, sroot, ss, badge :
                             caps' = MintTo(caps, droot, At("OUT", i), sroot, ss, badge)
    BY <1>6, Zenon DEF MintChannel
  <2> QED
    BY <1>0, <1>1, <1>2, <2>1, MintSpares
<1>7. CASE MapShared(c)
  <2> DEFINE slot == At("SHARED", Right(c).id + job[c].i)
             mapped(p) == [caps EXCEPT ![c][slot].at = p]
  <2>1. \/ UNCHANGED caps
        \/ \E p : caps' = mapped(p)
        \/ \E p, droot, sroot : caps' = CopyTo(mapped(p), droot, At("SHARED", job[c].shared), sroot, slot)
    BY <1>7, Zenon DEF MapShared
  <2>2. slot[1] # a /\ At("SHARED", job[c].shared)[1] # a
    BY <1>7, AreaOf
  <2>3. \A p : Spares(a, caps, mapped(p)) /\ Shaped(mapped(p))
    <3> HIDE DEF slot
    <3> QED
      BY <1>2, <2>2, PutSpares
  <2> HIDE DEF mapped, slot
  <2>4. \A p, droot, sroot : Spares(a, caps, CopyTo(mapped(p), droot, At("SHARED", job[c].shared), sroot, slot))
    BY <2>2, <2>3, CopySpares, SparesBoth
  <2> QED
    BY <1>1, <2>1, <2>3, <2>4
<1>8. CASE WriteHandle(c) \/ MintIrqBadge(c)
  <2> DEFINE own == OwnRoot(c)
             emptied == [caps EXCEPT ![own.n][TempSlot] = NullCap]
             copied == CopyTo(emptied, own, TempSlot, own, At("page", alloc[c]["page"] - 1))
             placed == [copied EXCEPT ![own.n][TempSlot].at = [vs |-> OwnVSpace(c).n, page |-> TempPage]]
  <2>1. \/ caps' = emptied \/ caps' = placed
        \/ \E ss, badge : caps' = MintTo(emptied, own, TempSlot, own, ss, badge)
    BY <1>8, Zenon DEF WriteHandle, MintIrqBadge
  <2>3. Spares(a, caps, emptied) /\ Shaped(emptied)
    BY <1>0, <1>2, PutSpares
  <2> HIDE DEF emptied, own
  <2>4. Spares(a, emptied, copied) /\ Shaped(copied)
    BY <1>0, <2>3, CopySpares
  <2> HIDE DEF copied
  <2>5. Spares(a, copied, placed)
    BY <1>0, <2>4, PutSpares
  <2>6. \A ss, badge : Spares(a, emptied, MintTo(emptied, own, TempSlot, own, ss, badge))
    BY <1>0, <2>3, MintSpares
  <2> HIDE DEF placed
  <2> QED
    BY <2>1, <2>3, <2>4, <2>5, <2>6, SparesBoth
<1>9. CASE MoveIrqHandler(c)
  <2> DEFINE to == At("IRQ", Right(c).childId)
             from == At("IRQ", Right(c).parentId)
  <2>1. UNCHANGED caps \/ \E droot, sroot : caps' = MoveTo(caps, droot, to, sroot, from)
    BY <1>9, Zenon DEF MoveIrqHandler
  <2>2. to[1] # a /\ from[1] # a
    BY <1>9, AreaOf
  <2> HIDE DEF to, from
  <2> QED
    BY <1>1, <1>2, <2>1, <2>2, MoveElsewhere DEF Spares
<1>10. UNCHANGED caps \/ CopyFixedCap(c) \/ MapPage(c) \/ WriteHandle(c) \/ MintChannel(c)
      \/ MapShared(c) \/ MintIrqBadge(c) \/ MovePoolCap(c) \/ MoveIrqHandler(c)
  BY Zenon DEF PdCreateStep, AllocateObjects, AssignAsid, SetSpace, BindNotification, NextPage,
     MapTable, SetIpcBuffer, SetUpScheduling, SetUpRegion, SetIrqTarget, SkipControl,
     UnknownRight, Restart
<1> QED
  BY <1>1, <1>3, <1>4, <1>5, <1>6, <1>7, <1>8, <1>9, <1>10

LEMMA HandlersSpared ==
    ASSUME Wired, NEW c \in CNode, PdCreateStep(c), ~MoveIrqHandler(c),
           NEW e \in CNode, NEW i \in ChannelId
    PROVE  caps'[e][At("IRQ", i)] = caps[e][At("IRQ", i)]
<1>1. Spares("IRQ", caps, caps')
  BY AreasSpared
<1> QED
  BY <1>1, IrqSlots, AreaOf DEF Spares

LEMMA TargetKept ==
    ASSUME NEW c \in CNode, PdCreateStep(c), ~SetIrqTarget(c) PROVE UNCHANGED irqTarget
  BY Zenon DEF PdCreateStep, MovePoolCap, AllocateObjects, AssignAsid, CopyFixedCap, SetSpace,
     BindNotification, NextPage, MapTable, MapPage, WriteHandle, SetIpcBuffer, SetUpScheduling,
     MintChannel, SetUpRegion, MapShared, MintIrqBadge, MoveIrqHandler, SkipControl,
     UnknownRight, Restart

----------------------------------------------------------------------------
(* The three steps of set_up_irq *)

\* Only by them does a call come to the second and the third.
LEMMA OtherPc ==
    ASSUME Wired, NEW c \in CNode, PdCreateStep(c), ~MintIrqBadge(c), ~SetIrqTarget(c)
    PROVE  job'[c].pc \notin {"irqtarget", "irqmove"}
<1> DEFINE j == job[c]
           Apart == job'[c].pc \notin {"irqtarget", "irqmove"}
<1>1. j \in Job /\ \A x : Step(c, x) => job'[c] = x
  BY StepAt
<1>2. CASE Fail(c) \/ Crash(c)
  BY <1>2, StepEnds
<1>3. CASE Step(c, NextRight(j))
  BY <1>1, <1>3 DEF NextRight, Job
<1>4. CASE \E page, own, then : Step(c, Tables(j, page, own, then))
  BY <1>4, StepTables
<1>5. CASE \E pc \in Pc \ {"irqtarget", "irqmove"} : Goto(c, pc)
  BY <1>5, StepPc
<1>6. CASE NextPage(c) \/ SetUpScheduling(c) \/ SetUpRegion(c) \/ MoveIrqHandler(c)
           \/ SkipControl(c) \/ UnknownRight(c)
  BY <1>2, <1>3, <1>4, <1>6, Zenon
     DEF NextPage, SetUpScheduling, SetUpRegion, MoveIrqHandler, SkipControl, UnknownRight
<1>7. CASE MapPage(c)
  BY <1>2, <1>4, <1>5, <1>7 DEF MapPage, Goto, Pc
<1>8. CASE MapTable(c)
  <2>1. j.pc = "tables" /\ j.then \in {"page", "ipcmap", "window", "shared"}
    BY <1>8, JobType DEF Wired, MapTable, JobOK
  <2>2. Fail(c) \/ Step(c, [j EXCEPT !.level = @ + 1]) \/ Goto(c, j.then)
    BY <1>8 DEF MapTable, Goto
  <2>3. CASE Step(c, [j EXCEPT !.level = @ + 1])
    BY <1>1, <2>1, <2>3 DEF Job
  <2> QED
    BY <1>2, <1>5, <2>1, <2>2, <2>3 DEF Pc
<1>9. CASE WriteHandle(c) \/ SetIpcBuffer(c) \/ MapShared(c)
  <2>1. \/ Fail(c) \/ Step(c, [j EXCEPT !.pc = "segment", !.k = @ + 1])
        \/ Step(c, [j EXCEPT !.pc = "right", !.k = 1, !.i = 0])
        \/ Step(c, [j EXCEPT !.pc = "right", !.i = @ + 1, !.shared = @ + 1])
    BY <1>9, Zenon DEF WriteHandle, SetIpcBuffer, MapShared
  <2> QED
    BY <1>1, <1>2, <2>1, ZenonT(60) DEF Job
<1>10. CASE MintChannel(c)
  <2>1. j.pc = "right" /\ (Crash(c) \/ Step(c, NextRight(j)) \/ Step(c, [j EXCEPT !.i = 1]))
    BY <1>10 DEF MintChannel, RightIs
  <2> QED
    BY <1>1, <1>2, <1>3, <2>1 DEF Job
<1>11. CASE Restart(c)
  BY <1>11, RestartStarts
<1>12. CASE SetSpace(c) \/ BindNotification(c) \/ AssignAsid(c)
  <2>1. \/ Fail(c) \/ Goto(c, "bind") \/ Step(c, [j EXCEPT !.pc = "segment", !.k = 1])
        \/ Step(c, [j EXCEPT !.pc = "fixed", !.k = 1])
    BY <1>12, Zenon DEF SetSpace, BindNotification, AssignAsid
  <2> QED
    BY <1>1, <1>2, <1>5, <2>1, ZenonT(60) DEF Job, Pc
<1>13. CASE CopyFixedCap(c)
  <2>1. j.pc = "fixed" /\ (Fail(c) \/ Step(c, [j EXCEPT !.k = @ + 1]) \/ Goto(c, "space"))
    BY <1>13 DEF CopyFixedCap
  <2> QED
    BY <1>1, <1>2, <1>5, <2>1 DEF Job, Pc
<1>14. CASE MovePoolCap(c)
  <2>1. j.pc = "move"
    BY <1>14 DEF MovePoolCap
  <2>2. \/ Fail(c) \/ Step(c, [j EXCEPT !.i = @ + 1]) \/ Step(c, [j EXCEPT !.i = 0, !.k = @ + 1])
        \/ Step(c, [j EXCEPT !.pc = "allocate"])
    BY <1>14, Zenon DEF MovePoolCap
  <2> QED
    BY <1>1, <1>2, <2>1, <2>2 DEF Job
<1>15. CASE AllocateObjects(c)
  <2>1. \/ Fail(c)
        \/ \E t, n, s, v : Step(c, [j EXCEPT !.pc = "asid", !.tcb = t, !.ntfn = n, !.sc = s, !.vspace = v])
    BY <1>15, Zenon DEF AllocateObjects
  <2> QED
    BY <1>1, <1>2, <2>1, Zenon DEF Job
<1> QED
  BY <1>6, <1>7, <1>8, <1>9, <1>10, <1>11, <1>12, <1>13, <1>14, <1>15, Zenon DEF PdCreateStep

\* The new CSpace is not that of the PD that builds it, and nobody runs with it.
LEMMA NewIsNotOwn ==
    ASSUME Wired, NEW c \in CNode, Active(c), Full(NewRoot(c))
    PROVE  NewRoot(c).n \in CNode /\ ~Live(NewRoot(c).n) /\ NewRoot(c).n # c
<1>1. Live(c)
  BY OwnIsOwn
<1> QED
  BY <1>1, RootObject DEF Wired, JobWired

LEMMA IrqBadgeMinted ==
    ASSUME Wired, NEW c \in CNode, MintIrqBadge(c)
    PROVE  /\ Bound(c) /\ Right(c)' = Right(c) /\ job'[c].pc # "irqmove"
           /\ job'[c].pc = "irqtarget" => Targets(caps'[c][TempSlot], Ntfn(c).n, Right(c).childId)
<1> DEFINE own == OwnRoot(c)
           from == At("CHAN", Target(c))
           badge == Badge(Right(c).childId)
           emptied == [caps EXCEPT ![own.n][TempSlot] = NullCap]
<1>1. IInv /\ Bound(c) /\ Active(c)
  BY DEF MintIrqBadge, RightIs, Wired, Active, Bound, Spaced, Building
<1>2. \/ Crash(c)
      \/ Goto(c, "irqtarget") /\ caps' = MintTo(emptied, own, TempSlot, own, from, badge)
  BY DEF MintIrqBadge
<1>3. GoodCap(own) /\ own.n = c /\ GoodCaps(caps) /\ TempSlot \in Slot /\ from \in Slot
      /\ TempSlot # from
  BY <1>1, WiredJob, TempApart, PdSlots DEF IInv, KernelOK, PdArea
<1>4. Ntfn(c) = MkCap("ntfn", Ntfn(c).n) /\ caps[c][from] = Ntfn(c)
  BY <1>1, BoundObjects, JobObjects DEF Target
<1>5. GoodCaps(emptied) /\ Drops(caps, emptied, own.n, TempSlot)
  BY <1>3, ClearDrops
<1>6. emptied[c][from] = MkCap("ntfn", Ntfn(c).n)
  BY <1>3, <1>4, <1>5 DEF Drops
<1>7. Targets(MintTo(emptied, own, TempSlot, own, from, badge)[c][TempSlot], Ntfn(c).n, Right(c).childId)
  <2> HIDE DEF emptied
  <2>1. Shaped(emptied)
    BY <1>5 DEF GoodCaps, Shaped
  <2>2. MintTo(emptied, own, TempSlot, own, from, badge)[c][TempSlot] = Minted(emptied[own.n][from], badge)
    BY <1>3, <2>1, MintAt
  <2>3. Right(c).childId \in Nat
    <3>1. RightIs(c, "irq")
      BY DEF MintIrqBadge
    <3>2. Right(c).type = "irq" /\ job[c].pc = "right" /\ job[c].k <= Len(Program(c).rights)
      BY <1>1, <3>1, RightJob
    <3> QED
      BY <1>1, <3>1, <3>2, RightType, CapSpaceAssumption
  <2>4. Names(badge, Right(c).childId)
    BY <2>3, BadgeType
  <2>5. \A n, b, i : Names(b, i) => Targets(Minted(MkCap("ntfn", n), b), n, i)
    BY DEF MkCap, Minted, Targets
  <2> HIDE DEF own, from, badge
  <2> QED
    BY <1>3, <1>6, <2>2, <2>4, <2>5
<1>8. Right(c)' = Right(c)
  <2>1. job[c] \in Job /\ \E pc : job'[c] = [job[c] EXCEPT !.pc = pc]
    BY <1>2, StepAt DEF Crash, Goto
  <2> QED
    BY <2>1 DEF Job, Right, Program
<1>9. job'[c].pc \in {"crashed", "irqtarget"} /\ (Crash(c) => job'[c].pc = "crashed")
  BY <1>2, StepPc DEF Crash
<1> QED
  BY <1>1, <1>2, <1>7, <1>8, <1>9

LEMMA IrqTargetSet ==
    ASSUME Wired, NEW c \in CNode, IrqMoving(c), SetIrqTarget(c)
    PROVE  /\ Bound(c) /\ Right(c)' = Right(c) /\ UNCHANGED <<caps, tcb, image, alloc>>
           /\ Right(c).parentId \in ChannelId
           /\ \/ job'[c].pc = "crashed" /\ UNCHANGED irqTarget
              \/ /\ job'[c].pc = "irqmove" /\ HasIrq(c, Right(c).parentId)
                 /\ Targets(irqTarget', Ntfn(c).n, Right(c).childId)
<1>1. job[c].pc = "irqtarget" /\ UNCHANGED <<caps, tcb, image, alloc>> /\ IInv
  BY DEF SetIrqTarget, threads, Wired
<1>2. Bound(c)
  BY <1>1 DEF Bound, Spaced, Building
<1>3. \/ Crash(c) /\ UNCHANGED irqTarget
      \/ Goto(c, "irqmove") /\ HasIrq(c, Right(c).parentId) /\ irqTarget' = caps[c][TempSlot]
  BY DEF SetIrqTarget, HasIrq
<1>4. Right(c)' = Right(c)
  <2>1. job[c] \in Job /\ \E pc : job'[c] = [job[c] EXCEPT !.pc = pc]
    BY <1>3, StepAt DEF Crash, Goto
  <2> QED
    BY <2>1 DEF Job, Right, Program
<1>5. (Crash(c) => job'[c].pc = "crashed") /\ (Goto(c, "irqmove") => job'[c].pc = "irqmove")
  BY StepPc DEF Crash
<1> QED
  BY <1>1, <1>2, <1>3, <1>4, <1>5, IrqJob DEF IrqMoving

LEMMA HandlerMoved ==
    ASSUME Wired, NEW c \in CNode, IrqMoving(c), MoveIrqHandler(c)
    PROVE  LET n == NewRoot(c).n
               from == At("IRQ", Right(c).parentId)
               to == At("IRQ", Right(c).childId)
           IN  /\ Bound(c) /\ UNCHANGED <<tcb, image, alloc, irqTarget>>
               /\ n \in CNode /\ ~Live(n) /\ n # c
               /\ Right(c).parentId \in ChannelId /\ Right(c).childId \in ChannelId
               /\ HasIrq(c, Right(c).parentId)
               /\ \/ UNCHANGED caps /\ job'[c].pc = "crashed"
                  \/ Moves(caps, caps', n, to, c, from) /\ job'[c].pc = "right"
<1> DEFINE to == At("IRQ", Right(c).childId)
           from == At("IRQ", Right(c).parentId)
           root == PdRoot(c, Target(c))
           own == OwnRoot(c)
<1>1. IInv /\ job[c].pc = "irqmove" /\ UNCHANGED <<tcb, image, alloc, irqTarget>>
  BY DEF MoveIrqHandler, Wired, threads
<1>2. Bound(c)
  BY <1>1 DEF Bound, Spaced, Building
<1>3. \/ UNCHANGED caps /\ Crash(c)
      \/ /\ CanTransfer(caps, root, to, own, from) /\ caps' = MoveTo(caps, root, to, own, from)
         /\ Step(c, NextRight(job[c]))
  BY DEF MoveIrqHandler
<1>4. Right(c).parentId \in ChannelId /\ Right(c).childId \in ChannelId
  BY <1>1, IrqJob
<1>5. Active(c) /\ Full(NewRoot(c)) /\ root = NewRoot(c)
  BY <1>2, BoundObjects DEF PdRoot, Target
<1>6. NewRoot(c).n \in CNode /\ ~Live(NewRoot(c).n) /\ NewRoot(c).n # c
  BY <1>5, NewIsNotOwn
<1>7. HasIrq(c, Right(c).parentId)
  BY <1>1 DEF IrqMoving
<1>8. GoodCap(own) /\ own.n = c /\ GoodCaps(caps) /\ from \in Slot
  BY <1>1, <1>4, <1>5, WiredJob, IrqSlots DEF IInv, KernelOK
<1>9. CanTransfer(caps, root, to, own, from) /\ caps' = MoveTo(caps, root, to, own, from)
      => Moves(caps, caps', NewRoot(c).n, to, c, from)
  <2> HIDE DEF own, to, from
  <2> QED
    BY <1>5, <1>8, MoveMoves
<1>10. (Crash(c) => job'[c].pc = "crashed") /\ (Step(c, NextRight(job[c])) => job'[c].pc = "right")
  BY StepPc, StepAt, NextRightFollows DEF Crash
<1> QED
  BY <1>1, <1>2, <1>3, <1>4, <1>6, <1>7, <1>9, <1>10

\* A call that has bound the notification goes on with the same objects.
LEMMA BoundGoesOn ==
    ASSUME Wired, NEW c \in CNode, PdCreateStep(c), Kept(c), Bound(c), Active(c)'
    PROVE  Bound(c)' /\ Ntfn(c)' = Ntfn(c) /\ NewRoot(c)' = NewRoot(c)
<1>1. CASE \/ MovePoolCap(c) \/ AllocateObjects(c) \/ AssignAsid(c) \/ CopyFixedCap(c)
           \/ SetSpace(c) \/ BindNotification(c)
  BY <1>1, Zenon DEF MovePoolCap, AllocateObjects, AssignAsid, CopyFixedCap, SetSpace, BindNotification,
              Bound, Spaced, Building
<1>2. CASE Restart(c)
  BY <1>2, RestartStarts DEF Active
<1>3. CASE \/ NextPage(c) \/ MapTable(c) \/ MapPage(c) \/ WriteHandle(c) \/ SetIpcBuffer(c)
           \/ SetUpScheduling(c) \/ SetUpRegion(c) \/ MapShared(c)
           \/ MintIrqBadge(c) \/ SetIrqTarget(c) \/ MoveIrqHandler(c)
           \/ SkipControl(c) \/ UnknownRight(c) \/ MintChannel(c)
  <2>1. LateJob(c)
    BY <1>3, NextPageJob, MapTableJob, MapPageJob, WriteHandleJob, SetIpcBufferJob, RightJobs, RegionJobs
  <2>2. SameObjects(job[c], job'[c]) /\ job'[c].pc \in LatePc
    BY <2>1 DEF LateJob, Active, Follows
  <2>3. Bound(c)'
    BY <2>2 DEF LatePc, Bound, Spaced, Building
  <2>4. Building(c)
    BY DEF Bound, Spaced
  <2> QED
    BY <2>2, <2>3, <2>4, ObjectsStay
<1> QED
  BY <1>1, <1>2, <1>3 DEF PdCreateStep

\* Where the handler capability is after a step.
LEMMA HandlerSteps ==
    ASSUME Wired, IrqOnce, NEW c \in CNode, IrqMoving(c), PdCreateStep(c)
    PROVE  \/ /\ \A d \in CNode, i \in ChannelId : HasIrq(d, i)' <=> HasIrq(d, i)
              /\ MoveIrqHandler(c) => job'[c].pc = "crashed"
           \/ /\ MoveIrqHandler(c) /\ job'[c].pc = "right"
              /\ \A d \in CNode, i \in ChannelId :
                    HasIrq(d, i)' => d = NewRoot(c).n /\ i = Right(c).childId
<1>1. CASE ~MoveIrqHandler(c)
  BY <1>1, HandlersSpared DEF HasIrq
<1>2. CASE MoveIrqHandler(c)
  <2> DEFINE n == NewRoot(c).n
             from == At("IRQ", Right(c).parentId)
             to == At("IRQ", Right(c).childId)
  <2>1. /\ Right(c).parentId \in ChannelId /\ Right(c).childId \in ChannelId
        /\ HasIrq(c, Right(c).parentId)
        /\ \/ UNCHANGED caps /\ job'[c].pc = "crashed"
           \/ Moves(caps, caps', n, to, c, from) /\ job'[c].pc = "right"
    BY <1>2, HandlerMoved
  <2>2. ASSUME Moves(caps, caps', n, to, c, from), NEW d \in CNode, NEW i \in ChannelId, HasIrq(d, i)'
        PROVE  d = n /\ i = Right(c).childId
    <3>1. NullCap.kind # "irq"
      BY DEF NullCap, MkCap
    <3>2. ~(d = c /\ i = Right(c).parentId)
      BY <2>1, <2>2, <3>1, IrqSlots DEF Moves, HasIrq
    <3>3. ~HasIrq(d, i)
      BY <2>1, <3>2 DEF IrqOnce
    <3>4. At("IRQ", i) \in Slot
      BY IrqSlots
    <3>5. d = n /\ At("IRQ", i) = to
      BY <2>2, <3>1, <3>3, <3>4 DEF Moves, HasIrq
    <3> QED
      BY <3>5, IrqSlots
  <2>3. CASE UNCHANGED caps /\ job'[c].pc = "crashed"
    BY <2>3 DEF HasIrq
  <2>4. CASE Moves(caps, caps', n, to, c, from) /\ job'[c].pc = "right"
    BY <1>2, <2>2, <2>4
  <2> QED
    BY <2>1, <2>3, <2>4
<1> QED
  BY <1>1, <1>2

LEMMA IrqOnceKept ==
    ASSUME Wired, IrqOnce, NEW c \in CNode, IrqMoving(c), PdCreateStep(c)
    PROVE  IrqOnce'
<1> SUFFICES ASSUME NEW d \in CNode, NEW e \in CNode, NEW i \in ChannelId, NEW m \in ChannelId,
                    HasIrq(d, i)', HasIrq(e, m)'
             PROVE  d = e /\ i = m
  BY DEF IrqOnce
<1> QED
  BY HandlerSteps DEF IrqOnce

\* The interrupt changes its target only through the handler capability.
LEMMA TargetSteps ==
    ASSUME Wired, NEW c \in CNode, IrqMoving(c), PdCreateStep(c)
    PROVE  \/ UNCHANGED irqTarget /\ (SetIrqTarget(c) => job'[c].pc = "crashed")
           \/ /\ SetIrqTarget(c) /\ job'[c].pc = "irqmove" /\ UNCHANGED <<caps, tcb, image>>
              /\ Bound(c) /\ Right(c)' = Right(c)
              /\ Right(c).parentId \in ChannelId /\ HasIrq(c, Right(c).parentId)
              /\ Targets(irqTarget', Ntfn(c).n, Right(c).childId)
<1>1. CASE SetIrqTarget(c)
  BY <1>1, IrqTargetSet
<1>2. CASE ~SetIrqTarget(c)
  BY <1>2, TargetKept
<1> QED
  BY <1>1, <1>2

LEMMA AtIrqMove ==
    ASSUME NEW c \in CNode, PdCreateStep(c), job[c].pc = "irqmove" PROVE MoveIrqHandler(c)
  BY DEF PdCreateStep, MovePoolCap, AllocateObjects, AssignAsid, CopyFixedCap, SetSpace,
     BindNotification, NextPage, MapTable, MapPage, WriteHandle, SetIpcBuffer, SetUpScheduling,
     MintChannel, SetUpRegion, MapShared, MintIrqBadge, SetIrqTarget, SkipControl,
     UnknownRight, Restart, RightIs

LEMMA IrqAnsweredKept ==
    ASSUME Wired, IInv', IrqOnce, NEW c \in CNode, PdCreateStep(c), Kept(c), IrqMoving(c), IrqGiven(c),
           NEW d \in CNode, IrqAnswered(d)
    PROVE  IrqAnswered(d)'
<1> SUFFICES ASSUME Live(d)', job'[d].pc \notin {"irqmove", "crashed"},
                    NEW i \in ChannelId, HasIrq(d, i)'
             PROVE  Targets(irqTarget, tcb[image[d].tcb].bound, i)'
  BY DEF IrqAnswered
<1>1. Active(c)
  BY StepIsActive
<1>2. CASE image'[d] # image[d]
  <2>1. /\ Bound(c) /\ d = NewRoot(c).n /\ ~Live(d) /\ image'[d].tcb = Thread(c).n
        /\ tcb' = [tcb EXCEPT ![Thread(c).n].running = TRUE]
    BY <1>2, StartedKnown DEF Kept, ImageStep
  <2>2. /\ Full(Thread(c)) /\ Full(NewRoot(c)) /\ tcb[Thread(c).n].bound = Ntfn(c).n
        /\ Thread(c).n \in ObjNum("tcb") /\ tcb \in [ObjNum("tcb") -> Tcb]
    BY <2>1, BoundObjects, JobObjects, WiredTypes
  <2>3. tcb'[Thread(c).n].bound = Ntfn(c).n
    BY <2>1, <2>2 DEF Tcb
  <2>4. ~SetIrqTarget(c) /\ ~MoveIrqHandler(c)
    BY <1>2 DEF SetIrqTarget, MoveIrqHandler, threads
  <2>5. UNCHANGED irqTarget /\ HasIrq(d, i)
    BY <2>4, TargetKept, HandlerSteps
  <2>6. Targets(irqTarget, Ntfn(c).n, i)
    BY <1>1, <2>1, <2>2, <2>5 DEF IrqGiven
  <2> QED
    BY <2>1, <2>3, <2>5, <2>6 DEF Targets
<1>3. CASE image'[d] = image[d]
  <2>1. Live(d) /\ tcb'[image[d].tcb] = tcb[image[d].tcb]
    BY <1>3, LiveUntouched DEF Kept, Live
  <2>2. HasIrq(d, i) /\ (MoveIrqHandler(c) => job'[c].pc = "crashed")
    <3>1. CASE MoveIrqHandler(c) /\ d = NewRoot(c).n
      BY <2>1, <3>1, HandlerMoved
    <3> QED
      BY <3>1, HandlerSteps
  <2>3. UNCHANGED irqTarget
    BY <2>2, TargetSteps DEF IrqOnce
  <2>4. job[d].pc \notin {"irqmove", "crashed"}
    <3>1. CASE d = c
      BY <1>1, <2>2, <3>1, AtIrqMove DEF Active
    <3>2. CASE d # c
      BY <3>2 DEF Kept
    <3> QED
      BY <3>1, <3>2
  <2> QED
    BY <1>3, <2>1, <2>2, <2>3, <2>4 DEF IrqAnswered, Targets
<1> QED
  BY <1>2, <1>3

LEMMA IrqGivenKept ==
    ASSUME Wired, IrqOnce, NEW c \in CNode, PdCreateStep(c), Kept(c), IrqMoving(c),
           NEW d \in CNode, IrqGiven(d)
    PROVE  IrqGiven(d)'
<1> SUFFICES ASSUME Active(d)', Full(NewRoot(d)'), NEW i \in ChannelId, HasIrq(NewRoot(d).n, i)'
             PROVE  Bound(d)' /\ Targets(irqTarget', Ntfn(d)'.n, i)
  BY DEF IrqGiven, Targets, Full
<1>1. Active(c) /\ Live(c)
  BY StepIsActive, OwnIsOwn
<1>2. Active(d) /\ job'[d].cnode = job[d].cnode
  <2>1. CASE d = c
    BY <1>1, <2>1, StepAdvances DEF Advances
  <2>2. CASE d # c
    BY <2>2 DEF Kept, Active
  <2> QED
    BY <2>1, <2>2
<1>3. NewRoot(d)' = NewRoot(d)
  BY <1>2, RootStays
<1>4. Full(NewRoot(d)) /\ NewRoot(d).n \in CNode /\ ~Live(NewRoot(d).n) /\ NewRoot(d).n # c
  BY <1>1, <1>2, <1>3, NewIsNotOwn
<1>5. PICK n \in CNode : n = NewRoot(d).n /\ HasIrq(n, i)'
  BY <1>3, <1>4 DEF HasIrq
<1>6. ASSUME Bound(d) PROVE Bound(d)' /\ Ntfn(d)' = Ntfn(d)
  <2>1. CASE d = c
    BY <1>6, <2>1, BoundGoesOn
  <2>2. CASE d # c
    <3>1. job'[d] = job[d]
      BY <2>2 DEF Kept
    <3>2. Building(d) /\ SameObjects(job[d], job'[d])
      BY <1>6, <3>1 DEF Bound, Spaced, SameObjects
    <3>3. Bound(d)'
      BY <1>6, <3>1 DEF Bound, Spaced, Building
    <3> QED
      BY <3>2, <3>3, ObjectsStay
  <2> QED
    BY <2>1, <2>2
<1>7. CASE HasIrq(n, i)
  <2>1. Bound(d) /\ Targets(irqTarget, Ntfn(d).n, i)
    BY <1>2, <1>4, <1>5, <1>7 DEF IrqGiven
  <2>2. UNCHANGED irqTarget
    BY <1>4, <1>5, <1>7, TargetSteps DEF IrqOnce
  <2> QED
    BY <1>6, <2>1, <2>2
<1>8. CASE ~HasIrq(n, i)
  <2>1. MoveIrqHandler(c) /\ NewRoot(d).n = NewRoot(c).n /\ i = Right(c).childId
    BY <1>5, <1>8, HandlerSteps
  <2>2. Bound(c) /\ Full(NewRoot(c)) /\ UNCHANGED irqTarget
    BY <2>1, HandlerMoved, BoundObjects
  <2>3. d = c
    BY <1>1, <1>2, <1>4, <2>1, <2>2, ObjectsApart
  <2>4. Targets(irqTarget, Ntfn(c).n, i)
    BY <2>1 DEF MoveIrqHandler, IrqMoving
  <2> QED
    BY <1>6, <2>2, <2>3, <2>4
<1> QED
  BY <1>7, <1>8

LEMMA IrqMovingKept ==
    ASSUME Wired, IrqOnce, NEW c \in CNode, PdCreateStep(c), Kept(c), IrqMoving(c),
           NEW d \in CNode, IrqMoving(d)
    PROVE  IrqMoving(d)'
<1>1. CASE d # c
  <2>1. job'[d] = job[d] /\ caps'[d][TempSlot] = caps[d][TempSlot]
    BY <1>1 DEF Kept, TempKept
  <2>2. ASSUME job[d].pc \in {"irqtarget", "irqmove"}
        PROVE  /\ Ntfn(d)' = Ntfn(d) /\ Right(d)' = Right(d) /\ Right(d).parentId \in ChannelId
    <3>1. Building(d) /\ SameObjects(job[d], job'[d])
      BY <2>1, <2>2 DEF Building, SameObjects
    <3> QED
      BY <2>1, <2>2, <3>1, ObjectsStay, IrqJob DEF Right, Program, Wired
  <2>3. ASSUME job[d].pc = "irqmove"
        PROVE  HasIrq(d, Right(d).parentId)' /\ UNCHANGED irqTarget
    <3>1. HasIrq(d, Right(d).parentId) /\ Right(d).parentId \in ChannelId /\ Right(d)' = Right(d)
      BY <2>2, <2>3 DEF IrqMoving
    <3>2. UNCHANGED irqTarget
      BY <1>1, <3>1, TargetSteps DEF IrqOnce
    <3>3. ~MoveIrqHandler(c)
      <4>1. MoveIrqHandler(c) => HasIrq(c, Right(c).parentId) /\ Right(c).parentId \in ChannelId
        BY HandlerMoved
      <4> QED
        BY <1>1, <3>1, <4>1 DEF IrqOnce
    <3>4. caps'[d][At("IRQ", Right(d).parentId)] = caps[d][At("IRQ", Right(d).parentId)]
      BY <3>1, <3>3, HandlersSpared
    <3> QED
      BY <3>1, <3>2, <3>4 DEF HasIrq
  <2> QED
    BY <2>1, <2>2, <2>3 DEF IrqMoving, Targets
<1>2. CASE d = c
  <2>1. ASSUME job'[c].pc \in {"irqtarget", "irqmove"}, Bound(c) PROVE Ntfn(c)' = Ntfn(c)
    BY <2>1, BoundGoesOn DEF Active
  <2>2. CASE MintIrqBadge(c)
    BY <1>2, <2>1, <2>2, IrqBadgeMinted DEF IrqMoving, Targets
  <2>3. CASE SetIrqTarget(c)
    <3>1. /\ Bound(c) /\ Right(c)' = Right(c) /\ UNCHANGED caps
          /\ \/ job'[c].pc = "crashed"
             \/ /\ job'[c].pc = "irqmove" /\ HasIrq(c, Right(c).parentId)
                /\ Targets(irqTarget', Ntfn(c).n, Right(c).childId)
      BY <2>3, IrqTargetSet
    <3> QED
      BY <1>2, <2>1, <3>1 DEF IrqMoving, HasIrq, Targets
  <2>4. CASE ~MintIrqBadge(c) /\ ~SetIrqTarget(c)
    BY <1>2, <2>4, OtherPc DEF IrqMoving
  <2> QED
    BY <2>2, <2>3, <2>4
<1> QED
  BY <1>1, <1>2

\* Only the binding of a notification changes what a thread is bound to.
LEMMA BoundsKept ==
    ASSUME Wired, NEW c \in CNode, PdCreateStep(c), ~BindNotification(c), NEW t \in ObjNum("tcb")
    PROVE  tcb'[t].bound = tcb[t].bound
<1>1. tcb \in [ObjNum("tcb") -> Tcb] /\ tcb[t] \in Tcb
  BY WiredTypes
<1>2. CASE UNCHANGED tcb
  BY <1>2
<1>3. ASSUME NEW u, NEW r, tcb' = [tcb EXCEPT ![u] = r], u \in ObjNum("tcb") => r.bound = tcb[u].bound
      PROVE  tcb'[t].bound = tcb[t].bound
  BY <1>1, <1>3
<1>4. CASE SetSpace(c) /\ ~UNCHANGED tcb
  <2> DEFINE u == Thread(c).n
             x == NewRoot(c).n
             y == caps[c][At("vspace", job[c].vspace)].n
             r == [tcb[u] EXCEPT !.cspace = x, !.vspace = y]
  <2>1. tcb' = [tcb EXCEPT ![u].cspace = x, ![u].vspace = y]
    BY <1>4, Zenon DEF SetSpace, Thread
  <2>2. tcb' = [tcb EXCEPT ![u] = r]
    <3> HIDE DEF u, x, y
    <3> QED
      BY <1>1, <2>1
  <2>3. u \in ObjNum("tcb") => r.bound = tcb[u].bound
    <3> HIDE DEF u, x, y
    <3> QED
      BY <1>1 DEF Tcb
  <2> HIDE DEF r, u
  <2> QED
    BY <1>3, <2>2, <2>3
<1>5. CASE SetUpScheduling(c) /\ ~UNCHANGED tcb
  <2> DEFINE u == caps[c][At("TCB", Target(c))].n
             x == caps[c][At("sc", alloc[c]["sc"] - 1)].n
             y == Right(c).mcp
             r == [tcb[u] EXCEPT !.sc = x, !.mcp = y]
  <2>1. tcb' = [tcb EXCEPT ![u].sc = x, ![u].mcp = y]
    BY <1>5, Zenon DEF SetUpScheduling
  <2>2. tcb' = [tcb EXCEPT ![u] = r]
    <3> HIDE DEF u, x, y
    <3> QED
      BY <1>1, <2>1
  <2>3. u \in ObjNum("tcb") => r.bound = tcb[u].bound
    <3> HIDE DEF u, x, y
    <3> QED
      BY <1>1 DEF Tcb
  <2> HIDE DEF r, u
  <2> QED
    BY <1>3, <2>2, <2>3
<1>6. CASE SetIpcBuffer(c) /\ ~UNCHANGED tcb
  <2> DEFINE u == caps[c][At("TCB", Target(c))].n
             x == caps[c][At("page", alloc[c]["page"] - 1)].n
             r == [tcb[u] EXCEPT !.ipc = x]
  <2>1. tcb' = [tcb EXCEPT ![u] = r]
    BY <1>1, <1>6 DEF SetIpcBuffer
  <2>2. u \in ObjNum("tcb") => r.bound = tcb[u].bound
    <3> HIDE DEF u, x
    <3> QED
      BY <1>1 DEF Tcb
  <2> HIDE DEF r, u
  <2> QED
    BY <1>3, <2>1, <2>2
<1>7. CASE Restart(c) /\ ~UNCHANGED tcb
  <2> DEFINE u == caps[c][At("TCB", Target(c))].n
             r == [tcb[u] EXCEPT !.running = TRUE]
  <2>1. tcb' = [tcb EXCEPT ![u] = r]
    BY <1>1, <1>7 DEF Restart
  <2>2. u \in ObjNum("tcb") => r.bound = tcb[u].bound
    <3> HIDE DEF u
    <3> QED
      BY <1>1 DEF Tcb
  <2> HIDE DEF r, u
  <2> QED
    BY <1>3, <2>1, <2>2
<1>8. UNCHANGED tcb \/ SetSpace(c) \/ SetIpcBuffer(c) \/ SetUpScheduling(c) \/ Restart(c)
  BY Zenon DEF PdCreateStep, MovePoolCap, AllocateObjects, AssignAsid, CopyFixedCap, NextPage,
     MapTable, MapPage, WriteHandle, MintChannel, SetUpRegion, MapShared, MintIrqBadge,
     SetIrqTarget, MoveIrqHandler, SkipControl, UnknownRight, threads
<1> QED
  BY <1>2, <1>4, <1>5, <1>6, <1>7, <1>8

LEMMA BoundOnceKept ==
    ASSUME Wired, BoundOnce, NEW c \in CNode, PdCreateStep(c) PROVE BoundOnce'
<1>1. CASE ~BindNotification(c)
  BY <1>1, BoundsKept DEF BoundOnce
<1>2. CASE BindNotification(c)
  <2>1. tcb \in [ObjNum("tcb") -> Tcb]
    BY WiredTypes
  <2> DEFINE t == Thread(c).n
             n == caps[c][At("ntfn", job[c].ntfn)].n
  <2>2. \/ UNCHANGED tcb
        \/ /\ tcb' = [tcb EXCEPT ![t].bound = n]
           /\ \A u \in ObjNum("tcb") : tcb[u].bound # n
    BY <1>2, Zenon DEF BindNotification, Thread
  <2>3. CASE UNCHANGED tcb
    BY <2>3 DEF BoundOnce
  <2>4. ASSUME tcb' = [tcb EXCEPT ![t].bound = n], \A u \in ObjNum("tcb") : tcb[u].bound # n
        PROVE  BoundOnce'
    <3> HIDE DEF t, n
    <3>1. \A u \in ObjNum("tcb") : tcb'[u].bound = IF u = t THEN n ELSE tcb[u].bound
      BY <2>1, <2>4 DEF Tcb
    <3> QED
      BY <2>4, <3>1 DEF BoundOnce
  <2> QED
    BY <2>2, <2>3, <2>4
<1> QED
  BY <1>1, <1>2

\* A call that begins has an empty CSpace to build.
LEMMA EnterRoot ==
    ASSUME Linked, NEW c \in CNode, NEW p \in Programs, NEW id \in PdId, Enter(c, p, id)
    PROVE  /\ job[c].pc = "idle" /\ job'[c].pc \in {"idle", "move", "allocate"}
           /\ Active(c)' /\ Full(NewRoot(c)') => \A s \in Slot : ~Full(caps[NewRoot(c)'.n][s])
<1>1. Wired /\ EmptyFresh /\ job[c].pc = "idle" /\ UNCHANGED caps
  BY DEF Linked, Enter
<1>2. CASE Fail(c)
  BY <1>1, <1>2, StepEnds DEF Active
<1>3. CASE ~Fail(c)
  <2> DEFINE i == alloc[c]["cnode"]
             new == [NoJob EXCEPT !.pc = IF HasControl(p) THEN "move" ELSE "allocate",
                       !.program = p, !.id = id, !.cnode = i]
  <2>1. Step(c, new) /\ ~Exhausted(c, "cnode")
    BY <1>3 DEF Enter
  <2>2. job'[c] = new
    BY <1>1, <2>1, StepAt
  <2>3. job'[c].pc \in {"move", "allocate"} /\ job'[c].cnode = i
    BY <2>2 DEF NoJob
  <2>4. i \in PoolIndex("cnode") /\ i >= alloc[c]["cnode"]
    <3>1. i \in Nat /\ i < PoolSize("cnode") /\ PoolSize("cnode") \in Nat
      BY <1>1, <2>1, PoolCapType, PoolSizeType DEF Wired, IInv, PdsOK, PoolKind
    <3> QED
      BY <3>1 DEF PoolIndex
  <2> HIDE DEF new, i
  <2>5. NewRoot(c)' = caps[c][At("cnode", i)]
    BY <1>1, <2>3 DEF NewRoot
  <2> QED
    BY <1>1, <2>3, <2>4, <2>5 DEF EmptyFresh
<1> QED
  BY <1>2, <1>3

LEMMA EnterHandedOver ==
    ASSUME HandedOver, NEW c \in CNode, NEW p \in Programs, NEW id \in PdId, Enter(c, p, id)
    PROVE  BoundOnce' /\ IrqOnce' /\ \A d \in CNode : IrqAnswered(d)' /\ IrqGiven(d)' /\ IrqMoving(d)'
<1>1. /\ Linked /\ Wired /\ UNCHANGED <<caps, tcb, image, irqTarget>>
      /\ \A d \in CNode \ {c} : job'[d] = job[d]
  <2>1. Linked /\ Wired
    BY DEF HandedOver, Linked
  <2> QED
    BY <2>1, EnterFrame, Zenon DEF Enter, Kept
<1>2. BoundOnce' /\ IrqOnce'
  BY <1>1 DEF HandedOver, BoundOnce, IrqOnce, HasIrq
<1>3. job[c].pc = "idle" /\ job'[c].pc \in {"idle", "move", "allocate"}
  BY <1>1, EnterRoot
<1>4. ASSUME NEW d \in CNode PROVE IrqAnswered(d)'
  BY <1>1, <1>3 DEF HandedOver, IrqAnswered, Live, HasIrq, Targets
<1>5. ASSUME NEW d \in CNode PROVE IrqGiven(d)'
  <2>1. CASE d = c
    <3>1. Active(c)' /\ Full(NewRoot(c)') => \A s \in Slot : ~Full(caps[NewRoot(c)'.n][s])
      BY <1>1, EnterRoot
    <3>3. ASSUME Active(c)', Full(NewRoot(c)'), NEW i \in ChannelId PROVE ~HasIrq(NewRoot(c).n, i)'
      BY <1>1, <3>1, <3>3, IrqSlots DEF HasIrq, Full
    <3> QED
      BY <2>1, <3>3 DEF IrqGiven, Full
  <2>2. CASE d # c
    <3>1. job'[d] = job[d] /\ IrqGiven(d)
      BY <1>1, <2>2 DEF HandedOver
    <3>2. NewRoot(d)' = NewRoot(d) /\ Ntfn(d)' = Ntfn(d) /\ Active(d)' = Active(d) /\ Bound(d)' = Bound(d)
      BY <1>1, <3>1 DEF NewRoot, Ntfn, Active, Bound, Spaced, Building
    <3> QED
      BY <1>1, <3>1, <3>2 DEF IrqGiven, HasIrq, Targets, Full
  <2> QED
    BY <2>1, <2>2
<1>6. ASSUME NEW d \in CNode PROVE IrqMoving(d)'
  <2>1. CASE d = c
    BY <1>3, <2>1 DEF IrqMoving
  <2>2. CASE d # c
    <3>1. job'[d] = job[d] /\ IrqMoving(d)
      BY <1>1, <2>2 DEF HandedOver
    <3>2. Ntfn(d)' = Ntfn(d) /\ Right(d)' = Right(d)
      BY <1>1, <3>1 DEF Ntfn, Right, Program
    <3> QED
      BY <1>1, <3>1, <3>2 DEF IrqMoving, HasIrq, Targets
  <2> QED
    BY <2>1, <2>2
<1> QED
  BY <1>2, <1>4, <1>5, <1>6

\* The steps of pd_create hand the interrupt over from the PD that calls it to the
\* one that is being built, and whatever other loaders do, to no third.
LEMMA NextKeepsHandedOver == HandedOver /\ [Next]_vars => HandedOver'
<1> SUFFICES ASSUME HandedOver, [Next]_vars PROVE HandedOver'
  OBVIOUS
<1>1. Linked' /\ Linked /\ Wired /\ IInv'
  BY NextKeepsLinked DEF HandedOver, Linked, Wired
<1>2. ASSUME NEW c \in CNode, PdCreateStep(c) PROVE HandedOver'
  <2>1. Kept(c) /\ IrqOnce /\ BoundOnce
    BY <1>1, <1>2, StepFrame DEF HandedOver
  <2>2. \A d \in CNode : IrqAnswered(d) /\ IrqGiven(d) /\ IrqMoving(d)
    BY DEF HandedOver
  <2>3. BoundOnce' /\ IrqOnce'
    BY <1>1, <1>2, <2>1, <2>2, BoundOnceKept, IrqOnceKept
  <2>4. \A d \in CNode : IrqAnswered(d)'
    BY <1>1, <1>2, <2>1, <2>2, IrqAnsweredKept
  <2>5. \A d \in CNode : IrqGiven(d)' /\ IrqMoving(d)'
    BY <1>1, <1>2, <2>1, <2>2, IrqGivenKept, IrqMovingKept
  <2> QED
    BY <1>1, <2>3, <2>4, <2>5 DEF HandedOver
<1>3. ASSUME NEW c \in CNode, NEW p \in Programs, NEW id \in PdId, Enter(c, p, id) PROVE HandedOver'
  BY <1>1, <1>3, EnterHandedOver DEF HandedOver
<1>4. CASE UNCHANGED vars
  <2>1. BoundOnce' /\ IrqOnce'
    BY <1>4 DEF HandedOver, vars, BoundOnce, IrqOnce, HasIrq
  <2>2. ASSUME NEW d \in CNode PROVE IrqAnswered(d)' /\ IrqGiven(d)' /\ IrqMoving(d)'
    <3>1. IrqAnswered(d)' /\ IrqMoving(d)'
      BY <1>4, Zenon DEF HandedOver, vars, IrqAnswered, IrqMoving, Live, HasIrq, Targets, Ntfn, Right, Program
    <3>2. IrqGiven(d)'
      BY <1>4 DEF HandedOver, vars, IrqGiven, Active, Bound, Spaced, Building, NewRoot, Ntfn, HasIrq,
                  Targets, Full
    <3> QED
      BY <3>1, <3>2
  <2> QED
    BY <1>1, <2>1, <2>2 DEF HandedOver
<1> QED
  BY <1>2, <1>3, <1>4 DEF Next

\* The tool gives the root the one handler, and lets the interrupt signal the root.
LEMMA BootIrq ==
    ASSUME Init, NEW d \in CNode, NEW i \in ChannelId, HasIrq(d, i)
    PROVE  d = 0 /\ i = RootImage.irq
<1> DEFINE s == At("IRQ", i)
<1>1. s \in Slot /\ (s = At("IRQ", RootImage.irq) => i = RootImage.irq)
  BY IrqSlots
<1>2. /\ s[1] = "IRQ" /\ s[1] \notin PoolKind /\ s[1] \notin PdArea
      /\ s \notin {InputSlot, At("CHAN", RootId)} /\ s # FaultSlot /\ s # AsidSlot /\ s # ControlSlot
  BY DEF At, InputSlot, FaultSlot, AsidSlot, ControlSlot, PoolKind, PdArea
<1>3. NullCap.kind # "irq"
  BY DEF NullCap, MkCap
<1> HIDE DEF s
<1>4. StaticCap(s) = NullCap
  BY <1>2 DEF StaticCap
<1>5. s # At("IRQ", RootImage.irq) => RootCap(s) = NullCap
  BY <1>2 DEF RootCap, PdArea
<1>6. caps[d][s].kind = "irq"
  BY DEF HasIrq, s
<1>7. d = 0
  BY <1>1, <1>3, <1>4, <1>6, BootCaps DEF Given
<1> QED
  BY <1>1, <1>3, <1>5, <1>6, <1>7, BootCaps

LEMMA BootBound ==
    ASSUME Init
    PROVE  /\ \A t \in ObjNum("tcb") : tcb[t].bound =
                 IF t = 0 THEN 0 ELSE IF t = StaticNum("tcb") THEN StaticNum("ntfn") ELSE None
           /\ StaticNum("ntfn") # 0
<1>1. StaticNum("ntfn") # 0
  BY PoolSizeType DEF PoolKind, StaticNum
<1>2. ASSUME NEW t \in ObjNum("tcb")
      PROVE  tcb[t].bound = IF t = 0 THEN 0 ELSE IF t = StaticNum("tcb") THEN StaticNum("ntfn") ELSE None
  <2>1. CASE t = 0
    BY <2>1 DEF Init
  <2>2. CASE t # 0 /\ t = StaticNum("tcb")
    BY <2>2 DEF Init
  <2>3. CASE t # 0 /\ t # StaticNum("tcb")
    BY <2>3 DEF Init, NoTcb
  <2> QED
    BY <2>1, <2>2, <2>3
<1> QED
  BY <1>1, <1>2

LEMMA BootNotified ==
    ASSUME Init
    PROVE  /\ image[0].tcb = 0 /\ 0 \in ObjNum("tcb") /\ 0 \in CNode /\ tcb[0].bound = 0
           /\ Targets(irqTarget, 0, RootImage.irq)
           /\ \A c \in CNode : ~Active(c) /\ job[c].pc = "idle"
<1>1. 0 \in CNode /\ 0 \in ObjNum("tcb")
  BY ObjectNumbers DEF CNode, PoolKind
<1>2. image[0].tcb = 0
  <2>1. 0 # StaticNum("cnode")
    BY BootCaps
  <2>2. image[0] = [id |-> RootId, tcb |-> 0, program |-> RootImage]
    BY <1>1, <2>1 DEF Init
  <2> QED
    BY <2>2
<1>3. Targets(irqTarget, 0, RootImage.irq)
  BY DEF Init, Targets, MkCap, Names
<1>4. \A c \in CNode : ~Active(c) /\ job[c].pc = "idle"
  BY DEF Init, NoJob, Active
<1> QED
  BY <1>1, <1>2, <1>3, <1>4, BootBound

LEMMA InitHandedOver == Init => HandedOver
<1> SUFFICES ASSUME Init PROVE HandedOver
  OBVIOUS
<1>1. Linked /\ IrqOnce
  BY InitLinked, BootIrq DEF IrqOnce
<1>2. BoundOnce
  BY BootBound DEF BoundOnce
<1>3. ASSUME NEW c \in CNode PROVE IrqAnswered(c) /\ IrqGiven(c) /\ IrqMoving(c)
  <2>1. IrqAnswered(c)
    BY BootIrq, BootNotified DEF IrqAnswered
  <2>2. IrqGiven(c) /\ IrqMoving(c)
    BY BootNotified DEF IrqGiven, IrqMoving
  <2> QED
    BY <2>1, <2>2
<1> QED
  BY <1>1, <1>2, <1>3 DEF HandedOver

LEMMA HandedOverHolds == Spec => []HandedOver
  BY InitHandedOver, NextKeepsHandedOver, PTL DEF Spec

\* A PD that runs and holds the handler of the UART interrupt, so that it can
\* acknowledge it (notified() of root.c and child.c), is the one that the interrupt
\* signals, and its event loop calls notified() with the id that it acknowledges,
\* when that id is below 31 (sel4cp.h:309 is an int shift). The three invocations of
\* sel4cp_internal_set_up_irq (sel4cp.h:319-358) redirect the interrupt before the
\* handler moves, with whatever ids the access rights name, and the calls of other
\* loaders fall in between.
THEOREM HandlerIsNotified == Spec => []AckerIsNotified
<1>1. HandedOver => AckerIsNotified
  BY DEF HandedOver, IrqAnswered, AckerIsNotified, Live, HasIrq, Targets
<1> QED
  BY <1>1, HandedOverHolds, PTL

----------------------------------------------------------------------------
(* One loader *)

\* A program that creates PDs waits for the files on the UART interrupt.
EveryLoaderWaits == \A p \in AnyProgram : p.creates # {} => p.irq # None

LEMMA InputNotified ==
    ASSUME EveryLoaderWaits, IInv, NEW c \in CNode, HandlesInput(c) PROVE Notified(c)
<1>1. Live(c) /\ image[c].program \in AnyProgram
  BY DEF HandlesInput, Live, IInv, PdsOK
<1> QED
  BY <1>1 DEF HandlesInput, EveryLoaderWaits, Notified

\* An interrupt signals one notification, and that is bound to one thread.
LEMMA NotifiedOnce ==
    HandedOver => \A d, e \in CNode : Notified(d) /\ Notified(e) => d = e
<1> SUFFICES ASSUME HandedOver, NEW d \in CNode, NEW e \in CNode, Notified(d), Notified(e)
             PROVE  d = e
  OBVIOUS
<1>1. SelfKnown(d) /\ SelfKnown(e) /\ BoundOnce /\ irqTarget \in Cap
  BY DEF HandedOver, Linked, Wired, LiveOK, Notified, IInv, KernelOK, GoodCap
<1>2. irqTarget.n # None
  BY <1>1 DEF Cap, None
<1>3. image[d].tcb = image[e].tcb
  BY <1>1, <1>2 DEF Notified, BoundOnce, SelfKnown
<1> QED
  BY <1>1, <1>3 DEF SelfKnown

LEMMA NotifiedOnceNext ==
    HandedOver' => (\A d, e \in CNode : Notified(d) /\ Notified(e) => d = e)'
  BY NotifiedOnce, PTL

\* While a call goes on, no PD but its caller becomes the one that is notified.
LEMMA NoneNotified ==
    ASSUME HandedOver, NEW c \in CNode, PdCreateStep(c), Active(c)', NEW e \in CNode, Notified(e)'
    PROVE  Notified(e)
<1>1. Wired /\ BoundOnce /\ IrqMoving(c)
  BY DEF HandedOver, Linked
<1>2. UNCHANGED image
  <2>1. ~Restart(c)
    BY <1>1, RestartStarts DEF Active
  <2> QED
    BY <2>1, Zenon DEF PdCreateStep, MovePoolCap, AllocateObjects, AssignAsid, CopyFixedCap, NextPage,
       MapTable, MapPage, WriteHandle, MintChannel, SetUpRegion, MapShared, MintIrqBadge,
       SetIrqTarget, MoveIrqHandler, SkipControl, UnknownRight, threads, SetSpace, BindNotification,
       SetIpcBuffer, SetUpScheduling
<1>3. Live(e) /\ tcb'[image[e].tcb] = tcb[image[e].tcb] /\ image[e].tcb \in ObjNum("tcb")
  BY <1>1, <1>2, StepFrame, LiveUntouched DEF Kept, Notified, Live
<1>4. CASE UNCHANGED irqTarget
  BY <1>2, <1>3, <1>4 DEF Notified
<1>5. CASE Bound(c) /\ Targets(irqTarget', Ntfn(c).n, Right(c).childId)
  <2>1. /\ Full(Thread(c)) /\ Thread(c).n \in ObjNum("tcb") /\ tcb[Thread(c).n].bound = Ntfn(c).n
        /\ Ntfn(c).n \in Nat /\ ObjectsFree(c)
    <3>1. Full(Ntfn(c)) /\ Full(Thread(c)) /\ tcb[Thread(c).n].bound = Ntfn(c).n /\ Building(c)
      BY <1>1, <1>5, BoundObjects
    <3>2. Thread(c).n \in ObjNum("tcb")
      BY <1>1, <3>1, JobObjects
    <3>3. Ntfn(c).n \in Nat
      <4>1. IInv'
        BY NextKeeps DEF HandedOver, Linked, Wired, Next
      <4>2. irqTarget' \in Cap
        BY <4>1 DEF IInv, KernelOK, GoodCap
      <4> QED
        BY <1>5, <4>2 DEF Targets, Cap
    <3> QED
      BY <1>1, <3>1, <3>2, <3>3 DEF Wired, JobWired
  <2>2. tcb[image[e].tcb].bound = tcb[Thread(c).n].bound /\ tcb[Thread(c).n].bound # None
    BY <1>2, <1>3, <1>5, <2>1 DEF Notified, Targets, None
  <2>3. image[e].tcb = Thread(c).n
    BY <1>1, <1>3, <2>1, <2>2 DEF BoundOnce
  <2> QED
    BY <1>3, <2>1, <2>3 DEF ObjectsFree
<1> QED
  BY <1>1, <1>4, <1>5, TargetSteps

LEMMA NextKeepsOneRole ==
    ASSUME EveryLoaderWaits PROVE HandedOver /\ OneRole /\ [Next]_vars => OneRole'
<1> SUFFICES ASSUME HandedOver, OneRole, [Next]_vars, NEW d \in CNode, NEW e \in CNode,
                    HasRole(d)', HasRole(e)'
             PROVE  d = e
  BY DEF OneRole
<1>1. HandedOver' /\ IInv /\ Wired
  BY NextKeepsHandedOver DEF HandedOver, Linked, Wired
<1>2. CASE Notified(d)' /\ Notified(e)'
  BY <1>1, <1>2, NotifiedOnceNext
<1>3. ASSUME NEW c \in CNode, PdCreateStep(c), NEW f \in CNode, NEW g \in CNode, Active(f)', HasRole(g)'
      PROVE  f = g
  <2>1. Active(c) /\ Kept(c)
    BY <1>1, <1>3, StepIsActive, StepFrame
  <2>2. \A h \in CNode : Active(h)' => h = c
    <3>1. ASSUME NEW h \in CNode, Active(h)', h # c PROVE Active(h)
      BY <2>1, <3>1 DEF Kept, Active
    <3> QED
      BY <2>1, <3>1 DEF OneRole, HasRole
  <2>3. f = c /\ Active(c)'
    BY <1>3, <2>2
  <2>4. Notified(g)' => Notified(g)
    BY <1>3, <2>3, NoneNotified
  <2> QED
    BY <1>3, <2>1, <2>2, <2>3, <2>4 DEF OneRole, HasRole
<1>4. ASSUME NEW c \in CNode, NEW p \in Programs, NEW id \in PdId, Enter(c, p, id) PROVE d = e
  <2>1. HasRole(c)
    BY <1>1, <1>4, InputNotified DEF Enter, HasRole
  <2>2. UNCHANGED <<caps, tcb, image, irqTarget>> /\ Kept(c)
    BY <1>1, <1>4, EnterFrame, Zenon DEF Enter
  <2>3. \A h \in CNode : HasRole(h)' => HasRole(h)
    BY <2>1, <2>2 DEF Kept, HasRole, Active, Notified, Live
  <2> QED
    BY <2>3 DEF OneRole
<1>5. CASE UNCHANGED vars
  BY <1>5 DEF OneRole, HasRole, Active, Notified, Live, vars
<1> QED
  BY <1>2, <1>3, <1>4, <1>5 DEF Next, HasRole

LEMMA InitOneRole == Init => OneRole
  BY InitHandedOver, NotifiedOnce, BootNotified DEF OneRole, HasRole

\* As long as every loader waits for its files on the UART interrupt, as root.c and
\* child.c do, one PD at a time is in pd_create or is the next to enter it: the
\* interrupt right hands the role on with the UART, and no step of the hand-over,
\* no failed call and no crash leaves two PDs to read from it.
THEOREM OneLoaderAtATime ==
    ASSUME EveryLoaderWaits PROVE Spec => []OneLoader
<1>1. HandedOver /\ OneRole => OneLoader
  <2> SUFFICES ASSUME HandedOver, OneRole, NEW c \in CNode,
                      job[c].pc \notin {"idle", "crashed"} \/ HandlesInput(c)
               PROVE  HasRole(c)
    BY DEF OneLoader, OneRole
  <2>1. IInv
    BY DEF HandedOver, Linked, Wired
  <2> QED
    BY <2>1, InputNotified DEF HasRole, Active
<1>2. HandedOver /\ OneRole /\ [Next]_vars => OneRole'
  BY NextKeepsOneRole
<1> QED
  BY <1>1, <1>2, InitOneRole, HandedOverHolds, PTL DEF Spec

----------------------------------------------------------------------------
(* The memory of a loaded PD *)

\* Regions are shared through the slots of regions, and nothing else is.
SharedOnly ==
    \A c \in CNode, i \in SharedIdx :
        LET x == caps[c][At("SHARED", i)] IN Full(x) => x.kind = "shared"

\* A pool still offers page frame n.
Offers(n) ==
    \E c \in CNode : \E i \in PoolIndex("page") :
        i >= alloc[c]["page"] /\ Full(caps[c][At("page", i)]) /\ caps[c][At("page", i)].n = n

\* A page frame is mapped at one place, but for the windows of the loaders, and
\* no pool offers it any more.
PagesOnce ==
    \A v, u \in VSpace, p, q \in Page \ {TempPage} :
        LET f == frames[v][p]
            g == frames[u][q]
        IN  /\ f.kind = "page" => f.n \in ObjNum("page") /\ ~Offers(f.n)
            /\ f.kind = "page" /\ SameObject(f, g) => v = u /\ p = q

\* Nothing was written to a frame that a pool offers.
FreshBlank == \A n \in ObjNum("page") : Offers(n) => memory[n] = NoContent

\* The first m pages of program p are in the memory of a VSpace with pages f, and
\* frame n of it is the IPC buffer.
Written(f, mem, p, m) ==
    \A k \in 1 .. m :
        LET x == f[p.pages[k]] IN
        x.kind = "page" /\ mem[x.n] = [program |-> p.name, k |-> k]
Buffer(f, mem, p, n) == f[p.ipc].kind = "page" /\ f[p.ipc].n = n /\ mem[n] = NoContent
Complete(f, mem, p, n) == Written(f, mem, p, Len(p.pages)) /\ Buffer(f, mem, p, n)

\* The call of c is at pc, or is setting up the paging structures for it.
Toward(c, pc) == job[c].pc = pc \/ (job[c].pc = "tables" /\ job[c].then = pc)

\* The page that the call of c took last.
LastPage(c) == caps[c][At("page", alloc[c]["page"] - 1)]

\* What sel4cp_internal_pd_load_elf has done when the call of c is where it is.
JobImage(c) ==
    LET j == job[c]
        p == Program(c)
        f == frames[NewSpace(c).n]
    IN  /\ Active(c) => p \in Programs
        /\ j.pc = "segment" \/ Toward(c, "page") \/ Toward(c, "window") =>
              j.k <= Len(p.pages) + 1 /\ Written(f, memory, p, j.k - 1)
        /\ Toward(c, "page") => j.k <= Len(p.pages) /\ j.page = p.pages[j.k]
        /\ Toward(c, "window") =>
              /\ j.k <= Len(p.pages)
              /\ f[p.pages[j.k]].kind = "page" /\ f[p.pages[j.k]].n = LastPage(c).n
        /\ Toward(c, "ipcmap") => Written(f, memory, p, Len(p.pages)) /\ j.page = p.ipc
        /\ j.pc = "ipcbuffer" => Complete(f, memory, p, LastPage(c).n)
        /\ j.pc \in {"right", "irqtarget", "irqmove"} \/ Toward(c, "shared") =>
              Complete(f, memory, p, tcb[Thread(c).n].ipc)
        /\ Toward(c, "shared") =>
              j.page # p.ipc /\ \A k \in 1 .. Len(p.pages) : j.page # p.pages[k]

LiveImage(c) ==
    c \in Loaded =>
        LET t == tcb[image[c].tcb] IN
        /\ image[c].program \in Programs
        /\ Complete(frames[t.vspace], memory, image[c].program, t.ipc)

Imaged ==
    /\ Wired /\ SharedOnly /\ PagesOnce /\ FreshBlank
    /\ \A c \in CNode : JobImage(c) /\ LiveImage(c)

----------------------------------------------------------------------------
(* What a step does to the memory *)

FrameRec == [kind : PoolKind \cup OtherKind, n : Nat, w : BOOLEAN]

\* The VSpace for which a call maps pages is the one that it has taken.
LEMMA LoadedSpace ==
    ASSUME Wired, NEW c \in CNode, MapsForNew(c)
    PROVE  /\ Bound(c) /\ Building(c) /\ Active(c) /\ JobVSpace(c) = NewSpace(c)
<1>1. Bound(c) /\ ~job[c].own
  BY DEF Bound, Spaced, Building, Wired, JobWired, MapsForNew
<1> QED
  BY <1>1, BoundObjects DEF JobVSpace, Target

LEMMA BoundSpace ==
    ASSUME Wired, NEW c \in CNode, Bound(c)
    PROVE  NewSpace(c).n \in VSpace /\ Thread(c).n \in ObjNum("tcb")
  BY BoundObjects, JobObjects DEF VSpace

LEMMA MappedAt ==
    ASSUME Wired, NEW a, NEW q, NEW f, NEW w, frames' = Mapped(a, q, f, w),
           NEW v \in VSpace, NEW p \in Page
    PROVE  frames'[v][p] = IF v = a.n /\ p = q THEN [kind |-> f.kind, n |-> f.n, w |-> w]
                                               ELSE frames[v][p]
<1> DEFINE x == [kind |-> f.kind, n |-> f.n, w |-> w]
           u == a.n
<1>1. frames' = [frames EXCEPT ![u][q] = x]
  BY DEF Mapped
<1>2. DOMAIN frames = VSpace /\ \A i \in VSpace : DOMAIN frames[i] = Page
  BY DEF Wired, IInv, KernelOK
<1> HIDE DEF x, u
<1>3. frames'[v][p] = IF v = u /\ p = q THEN x ELSE frames[v][p]
  BY <1>1, <1>2
<1> QED
  BY <1>3 DEF x, u

LEMMA FrameSteps ==
    ASSUME Wired, NEW c \in CNode, PdCreateStep(c),
           NEW v \in VSpace, NEW p \in Page \ {TempPage}, frames'[v][p] # frames[v][p]
    PROVE  (MapPage(c) \/ MapShared(c)) /\ v = NewSpace(c).n /\ p = job[c].page
<1>1. CASE MapPage(c) \/ MapShared(c)
  <2>1. JobVSpace(c) = NewSpace(c)
    BY <1>1, LoadedSpace DEF MapPage, MapShared, MapsForNew
  <2>2. UNCHANGED frames \/ \E f, w : frames' = Mapped(JobVSpace(c), job[c].page, f, w)
    BY <1>1, Zenon DEF MapPage, MapShared
  <2>3. ASSUME NEW f, NEW w, frames' = Mapped(NewSpace(c), job[c].page, f, w)
        PROVE  v = NewSpace(c).n /\ p = job[c].page
    <3> DEFINE a == NewSpace(c)
               q == job[c].page
    <3> HIDE DEF a, q
    <3>1. p \in Page /\ frames' = Mapped(a, q, f, w)
      BY <2>3 DEF a, q
    <3>2. frames'[v][p] = IF v = a.n /\ p = q THEN [kind |-> f.kind, n |-> f.n, w |-> w]
                                              ELSE frames[v][p]
      BY <3>1, MappedAt
    <3> QED
      BY <3>2 DEF a, q
  <2> QED
    BY <1>1, <2>1, <2>2, <2>3, SMTT(30)
<1>2. CASE WriteHandle(c) \/ MintIrqBadge(c)
  <2>1. OwnRoot(c).n = c
    BY <1>2, OwnIsOwn, ZenonT(60) DEF WriteHandle, MintIrqBadge, RightIs, Active
  <2>2. \/ frames' = WithoutMapping(caps[c][TempSlot])
        \/ \E f : frames' = Mapped(OwnVSpace(c), TempPage, f, TRUE)
    BY <1>2, <2>1 DEF WriteHandle, MintIrqBadge
  <2>3. ASSUME NEW f, frames' = Mapped(OwnVSpace(c), TempPage, f, TRUE) PROVE SpaceKept(v)
    BY <2>3, MappedKeeps
  <2>4. SpaceKept(v)
    BY <2>2, <2>3, WithoutKeeps
  <2> QED
    BY <2>4 DEF SpaceKept
<1>3. UNCHANGED frames \/ MapPage(c) \/ MapShared(c) \/ WriteHandle(c) \/ MintIrqBadge(c)
  BY Zenon DEF PdCreateStep, MovePoolCap, AllocateObjects, AssignAsid, CopyFixedCap, SetSpace,
     BindNotification, NextPage, MapTable, SetIpcBuffer, SetUpScheduling, MintChannel,
     SetUpRegion, SetIrqTarget, MoveIrqHandler, SkipControl, UnknownRight, Restart, space
<1> QED
  BY <1>1, <1>2, <1>3

\* Only sel4cp_internal_allocate_page_with_write_handle writes, and only to the frame
\* that it allocated.
LEMMA MemorySteps ==
    ASSUME Wired, NEW c \in CNode, PdCreateStep(c)
    PROVE  \/ UNCHANGED memory /\ (WriteHandle(c) => Fail(c))
           \/ /\ WriteHandle(c)
              /\ memory' = [memory EXCEPT ![LastPage(c).n] =
                               [program |-> Program(c).name, k |-> job[c].k]]
<1>1. CASE WriteHandle(c) /\ ~(UNCHANGED memory /\ Fail(c))
  <2> DEFINE own == OwnRoot(c)
             from == At("page", alloc[c]["page"] - 1)
             emptied == [caps EXCEPT ![own.n][TempSlot] = NullCap]
             copied == CopyTo(emptied, own, TempSlot, own, from)
             f == copied[own.n][TempSlot]
  <2>1. /\ memory' = [memory EXCEPT ![f.n] = [program |-> Program(c).name, k |-> job[c].k]]
        /\ CanTransfer(emptied, own, TempSlot, own, from)
    BY <1>1 DEF WriteHandle, Program
  <2>2. f.n = LastPage(c).n
    <3>1. own.n = c /\ TempSlot \in Slot /\ Shaped(caps)
      BY <1>1, OwnIsOwn, FixedSlots, WiredTypes DEF WriteHandle, Active
    <3>2. from # TempSlot
      BY TempApart DEF PoolKind
    <3>3. GoodCaps(caps) /\ GoodCaps(emptied) /\ GoodCap(own)
      BY <1>1, ClearDrops, OwnCaps DEF Wired, IInv, KernelOK, WriteHandle
    <3>4. emptied[c][from] = caps[c][from]
      BY <3>1, <3>2 DEF Shaped
    <3>5. from \in Slot
      <4>1. alloc[c]["page"] \in Nat /\ alloc[c]["page"] > 0 /\ alloc[c]["page"] <= PoolSize("page")
        BY <1>1, WiredTypes, JobType DEF PoolKind, JobOK, WriteHandle
      <4>2. "page" \in PoolKind /\ PoolSize("page") \in Nat
        BY PoolSizeType DEF PoolKind
      <4> QED
        BY <4>1, <4>2, PoolSlots, SMTT(30)
    <3> HIDE DEF emptied, from, own
    <3>6. copied[c][TempSlot] = [emptied[c][from] EXCEPT !.at = Unmapped, !.badge = emptied[c][from].badge]
      <4>1. Shaped(emptied)
        BY <3>3 DEF GoodCaps, Shaped
      <4>2. \A b : MintTo(emptied, own, TempSlot, own, from, b)[c][TempSlot] = Minted(emptied[c][from], b)
        BY <3>1, <4>1, MintAt
      <4> QED
        BY <3>1, <4>2, Zenon DEF CopyTo, Minted
    <3>7. caps[c][from] \in Cap
      BY <3>5, WiredTypes
    <3> QED
      BY <3>1, <3>4, <3>6, <3>7, ZenonT(60) DEF LastPage, Cap, from
  <2> QED
    BY <1>1, <2>1, <2>2, ZenonT(60)
<1>2. WriteHandle(c) \/ UNCHANGED memory
  BY Zenon DEF PdCreateStep, MovePoolCap, AllocateObjects, AssignAsid, CopyFixedCap, SetSpace,
     BindNotification, NextPage, MapTable, MapPage, SetIpcBuffer, SetUpScheduling, MintChannel,
     SetUpRegion, MapShared, MintIrqBadge, SetIrqTarget, MoveIrqHandler, SkipControl, UnknownRight,
     Restart, space
<1> QED
  BY <1>1, <1>2

\* Only sel4cp_internal_set_up_tcb_ipc_buffer sets the IPC buffer of a thread.
LEMMA IpcKept ==
    ASSUME Wired, NEW c \in CNode, PdCreateStep(c), ~SetIpcBuffer(c), NEW t \in ObjNum("tcb")
    PROVE  tcb'[t].ipc = tcb[t].ipc
<1>1. tcb \in [ObjNum("tcb") -> Tcb] /\ tcb[t] \in Tcb
  BY WiredTypes
<1>2. CASE UNCHANGED tcb
  BY <1>2
<1>3. ASSUME NEW u, NEW r, tcb' = [tcb EXCEPT ![u] = r], u \in ObjNum("tcb") => r.ipc = tcb[u].ipc
      PROVE  tcb'[t].ipc = tcb[t].ipc
  BY <1>1, <1>3
<1>4. CASE SetSpace(c) /\ ~UNCHANGED tcb
  <2> DEFINE u == Thread(c).n
             x == NewRoot(c).n
             y == caps[c][At("vspace", job[c].vspace)].n
             r == [tcb[u] EXCEPT !.cspace = x, !.vspace = y]
  <2>1. tcb' = [tcb EXCEPT ![u].cspace = x, ![u].vspace = y]
    BY <1>4 DEF SetSpace, Thread
  <2>2. tcb' = [tcb EXCEPT ![u] = r]
    <3> HIDE DEF u, x, y
    <3> QED
      BY <1>1, <2>1
  <2>3. u \in ObjNum("tcb") => r.ipc = tcb[u].ipc
    <3> HIDE DEF u, x, y
    <3> QED
      BY <1>1 DEF Tcb
  <2> HIDE DEF r, u
  <2> QED
    BY <1>3, <2>2, <2>3
<1>5. CASE SetUpScheduling(c) /\ ~UNCHANGED tcb
  <2> DEFINE u == caps[c][At("TCB", Target(c))].n
             x == caps[c][At("sc", alloc[c]["sc"] - 1)].n
             y == Right(c).mcp
             r == [tcb[u] EXCEPT !.sc = x, !.mcp = y]
  <2>1. tcb' = [tcb EXCEPT ![u].sc = x, ![u].mcp = y]
    BY <1>5 DEF SetUpScheduling
  <2>2. tcb' = [tcb EXCEPT ![u] = r]
    <3> HIDE DEF u, x, y
    <3> QED
      BY <1>1, <2>1
  <2>3. u \in ObjNum("tcb") => r.ipc = tcb[u].ipc
    <3> HIDE DEF u, x, y
    <3> QED
      BY <1>1 DEF Tcb
  <2> HIDE DEF r, u
  <2> QED
    BY <1>3, <2>2, <2>3
<1>6. CASE BindNotification(c) /\ ~UNCHANGED tcb
  <2> DEFINE u == Thread(c).n
             x == caps[c][At("ntfn", job[c].ntfn)].n
             r == [tcb[u] EXCEPT !.bound = x]
  <2>1. tcb' = [tcb EXCEPT ![u] = r]
    BY <1>1, <1>6, Zenon DEF BindNotification, Thread
  <2>2. u \in ObjNum("tcb") => r.ipc = tcb[u].ipc
    <3> HIDE DEF u, x
    <3> QED
      BY <1>1 DEF Tcb
  <2> HIDE DEF r, u
  <2> QED
    BY <1>3, <2>1, <2>2
<1>7. CASE Restart(c) /\ ~UNCHANGED tcb
  <2> DEFINE u == caps[c][At("TCB", Target(c))].n
             r == [tcb[u] EXCEPT !.running = TRUE]
  <2>1. tcb' = [tcb EXCEPT ![u] = r]
    BY <1>1, <1>7 DEF Restart
  <2>2. u \in ObjNum("tcb") => r.ipc = tcb[u].ipc
    <3> HIDE DEF u
    <3> QED
      BY <1>1 DEF Tcb
  <2> HIDE DEF r, u
  <2> QED
    BY <1>3, <2>1, <2>2
<1>8. UNCHANGED tcb \/ SetSpace(c) \/ BindNotification(c) \/ SetUpScheduling(c) \/ Restart(c)
  BY Zenon DEF PdCreateStep, MovePoolCap, AllocateObjects, AssignAsid, CopyFixedCap, NextPage,
     MapTable, MapPage, WriteHandle, MintChannel, SetUpRegion, MapShared, MintIrqBadge,
     SetIrqTarget, MoveIrqHandler, SkipControl, UnknownRight, threads
<1> QED
  BY <1>2, <1>4, <1>5, <1>6, <1>7, <1>8

----------------------------------------------------------------------------
(* What the pools offer *)

LEMMA PageKind == "page" \in PoolKind
  BY DEF PoolKind

LEMMA OffersKept ==
    ASSUME Wired, NEW c \in CNode, PdCreateStep(c) \/ CapsStep(c), OnlyJobOf(c), NEW n, Offers(n)'
    PROVE  Offers(n)
<1>1. PICK d \in CNode : \E i \in PoolIndex("page") :
         i >= alloc'[d]["page"] /\ Full(caps'[d][At("page", i)]) /\ caps'[d][At("page", i)].n = n
  BY DEF Offers, Full, PoolIndex, PoolSize
<1>2. PICK i \in PoolIndex("page") :
         i >= alloc'[d]["page"] /\ Full(caps'[d][At("page", i)]) /\ caps'[d][At("page", i)].n = n
  BY <1>1
<1>3. \E e \in CNode : \E j \in PoolIndex("page") :
         j >= alloc[e]["page"] /\ SameObject(caps[e][At("page", j)], caps'[d][At("page", i)])
  <2> HIDE DEF PoolIndex
  <2> QED
    BY <1>2, PageKind, OfferOrigin
<1> QED
  BY <1>2, <1>3 DEF Offers, SameObject, Full

LEMMA OfferedPage ==
    ASSUME Wired, NEW n, Offers(n) PROVE n \in ObjNum("page")
  BY PageKind DEF Offers, Wired, PoolOK, PoolPlain

\* The frame that a call takes is offered by no pool any more.
LEMMA TakenPage ==
    ASSUME Wired, NEW c \in CNode, MapPage(c), alloc'[c]["page"] = alloc[c]["page"] + 1,
           alloc[c]["page"] \in PoolIndex("page"), Full(PoolCap(c, "page")),
           NEW n, n = PoolCap(c, "page").n
    PROVE  Offers(n) /\ ~Offers(n)'
<1> DEFINE a == alloc[c]["page"]
<1>1. Offers(n)
  <2>1. a >= a /\ a \in Nat
    BY PageKind, WiredTypes
  <2> QED
    BY <2>1 DEF Offers, PoolCap
<1>2. CapsStep(c)
  BY MapPageCaps
<1>3. ASSUME NEW d \in CNode, NEW i \in PoolIndex("page"), i >= alloc'[d]["page"],
             Full(caps'[d][At("page", i)]), caps'[d][At("page", i)].n = n
      PROVE  FALSE
  <2>1. SameObject(caps'[d][At("page", i)], caps[d][At("page", i)])
    BY <1>2, PageKind, PoolsKept
  <2>2. Full(caps[d][At("page", i)]) /\ At("page", i) \in Slot
    BY <1>3, <2>1, PoolFacts, PageKind DEF SameObject, Full
  <2>3. SameObject(caps[d][At("page", i)], PoolCap(c, "page"))
    <3>1. caps[d][At("page", i)].kind = "page" /\ PoolCap(c, "page").kind = "page"
      BY <2>2, PoolFacts, PageKind DEF PoolCap
    <3> QED
      BY <1>3, <2>1, <3>1 DEF SameObject
  <2>4. d = c /\ At("page", i) = At("page", a)
    <3>1. a >= a
      BY PageKind, WiredTypes
    <3> QED
      BY <2>2, <2>3, <3>1, PoolFacts, PageKind DEF PoolCap
  <2>5. i = a
    BY <2>4 DEF At
  <2> QED
    BY <1>3, <2>4, <2>5, PageKind, WiredTypes
<1>4. ~Offers(n)'
  BY <1>3 DEF Offers, Full, PoolIndex, PoolSize
<1> QED
  BY <1>1, <1>4

LEMMA SharedOnlyKept ==
    ASSUME Wired, SharedOnly, NEW c \in CNode, PdCreateStep(c) PROVE SharedOnly'
<1> SUFFICES ASSUME NEW x \in CNode, NEW i \in SharedIdx, Full(caps'[x][At("SHARED", i)])
             PROVE  caps'[x][At("SHARED", i)].kind = "shared"
  BY DEF SharedOnly, Full
<1>1. At("SHARED", i) \in Slot /\ At("SHARED", i)[1] = "SHARED"
  BY SharedSlots, AreaOf
<1>2. CASE caps'[x][At("SHARED", i)] = caps[x][At("SHARED", i)]
  BY <1>2 DEF SharedOnly
<1>3. CASE MapShared(c)
  <2> DEFINE slot == At("SHARED", Right(c).id + job[c].i)
  <2>1. /\ Right(c).id + job[c].i \in SharedIdx
        /\ \/ caps'[x][At("SHARED", i)] = caps[x][At("SHARED", i)]
           \/ SameObject(caps'[x][At("SHARED", i)], caps[x][At("SHARED", i)])
           \/ SameObject(caps'[x][At("SHARED", i)], caps[c][slot])
    BY <1>1, <1>3, MapSharedCopies
  <2> QED
    BY <2>1 DEF SharedOnly, SameObject, Full
<1>4. CASE ~MapShared(c)
  <2>1. Spares("SHARED", caps, caps')
    BY <1>4, AreasSpared
  <2> QED
    BY <1>1, <1>2, <2>1 DEF Spares
<1> QED
  BY <1>3, <1>4

\* sel4cp_internal_allocate_page fails, or maps the page that the pool offers next.
LEMMA PageMapped ==
    ASSUME Wired, NEW c \in CNode, MapPage(c), ~Fail(c)
    PROVE  LET n == PoolCap(c, "page").n
               v == NewSpace(c).n
           IN  /\ v \in VSpace /\ n \in ObjNum("page")
               /\ frames'[v][job[c].page].kind = "page" /\ frames'[v][job[c].page].n = n
               /\ Offers(n) /\ LastPage(c)'.n = n
               /\ \A x : x = n => ~Offers(x)'
<1> DEFINE f == PoolCap(c, "page")
           a == alloc[c]["page"]
           slot == At("page", a)
           place == [vs |-> NewSpace(c).n, page |-> job[c].page]
<1>1. /\ JobVSpace(c) = NewSpace(c) /\ NewSpace(c).n \in VSpace
      /\ Active(c) /\ job[c].page \in Page
  BY LoadedSpace, BoundSpace, WiredJob DEF MapPage, MapsForNew, Job
<1>2. /\ ~Exhausted(c, "page") /\ CanMapPage(f, NewSpace(c), job[c].page, asids, tables)
      /\ frames' = Mapped(NewSpace(c), job[c].page, f, TRUE)
      /\ caps' = [caps EXCEPT ![c][slot].at = place]
      /\ alloc' = [alloc EXCEPT ![c]["page"] = @ + 1]
  BY <1>1 DEF MapPage
<1>3. a \in Nat /\ a \in PoolIndex("page") /\ alloc'[c]["page"] = a + 1 /\ slot \in Slot
  <2>1. a \in Nat /\ PoolSize("page") \in Nat
    BY PageKind, PoolSizeType, WiredTypes
  <2>2. alloc'[c]["page"] = a + 1
    BY <1>2, PageKind, WiredTypes
  <2> QED
    BY <1>2, <2>1, <2>2, PageKind, PoolFacts DEF Exhausted, PoolIndex
<1>4. f = caps[c][slot]
  BY DEF PoolCap
<1>5. Full(f) /\ f.kind = "page" /\ f.n \in ObjNum("page")
  <2>1. Full(f)
    BY <1>2 DEF CanMapPage, Full
  <2> QED
    BY <1>3, <1>4, <2>1, PageKind DEF Wired, PoolOK, PoolPlain
<1>6. frames'[NewSpace(c).n][job[c].page].kind = f.kind /\ frames'[NewSpace(c).n][job[c].page].n = f.n
  <2> DEFINE u == NewSpace(c)
             q == job[c].page
  <2>1. PICK w : frames' = Mapped(u, q, f, w)
    BY <1>2, Zenon
  <2>2. u.n \in VSpace /\ q \in Page
    BY <1>1
  <2> HIDE DEF u, q, f
  <2>3. frames'[u.n][q] = [kind |-> f.kind, n |-> f.n, w |-> w]
    BY <2>1, <2>2, MappedAt
  <2> QED
    BY <2>3 DEF u, q
<1>7. LastPage(c)'.n = f.n
  <2>1. LastPage(c)' = caps'[c][slot]
    BY <1>3 DEF LastPage
  <2>2. SameObject(caps'[c][slot], caps[c][slot])
    BY <1>3, PageKind, MapPageCaps, PoolsKept
  <2> QED
    BY <1>4, <2>1, <2>2 DEF SameObject
<1> QED
  BY <1>1, <1>3, <1>5, <1>6, <1>7, TakenPage

\* No page frame is mapped for an access right.
LEMMA SharedMapped ==
    ASSUME Wired, SharedOnly, NEW c \in CNode, MapShared(c)
    PROVE  \/ UNCHANGED frames
           \/ /\ NewSpace(c).n \in VSpace
              /\ frames'[NewSpace(c).n][job[c].page].kind = "shared"
<1> DEFINE f == caps[c][At("SHARED", Right(c).id + job[c].i)]
           u == NewSpace(c)
           q == job[c].page
<1>1. JobVSpace(c) = u /\ u.n \in VSpace /\ q \in Page
  BY LoadedSpace, BoundSpace, WiredJob DEF MapShared, MapsForNew, Job
<1>2. \/ UNCHANGED frames
      \/ /\ f.kind \in {"page", "shared"}
         /\ \E w : frames' = Mapped(u, q, f, w)
  BY <1>1, Zenon DEF MapShared, CanMapPage
<1>3. Right(c).id + job[c].i \in SharedIdx
  BY MapSharedCopies
<1>4. f.kind \in {"page", "shared"} => f.kind = "shared"
  BY <1>3 DEF SharedOnly, Full
<1>5. ASSUME NEW w, frames' = Mapped(u, q, f, w) PROVE frames'[u.n][q].kind = f.kind
  <2> HIDE DEF u, q, f
  <2>1. frames'[u.n][q] = [kind |-> f.kind, n |-> f.n, w |-> w]
    BY <1>1, <1>5, MappedAt
  <2> QED
    BY <2>1
<1> QED
  BY <1>1, <1>2, <1>4, <1>5

\* The pages that a step leaves without a new page frame.
LEMMA NewFrames ==
    ASSUME Wired, SharedOnly, NEW c \in CNode, PdCreateStep(c),
           NEW v \in VSpace, NEW p \in Page \ {TempPage},
           frames'[v][p] # frames[v][p], frames'[v][p].kind = "page"
    PROVE  MapPage(c) /\ ~Fail(c) /\ v = NewSpace(c).n /\ p = job[c].page
<1>1. (MapPage(c) \/ MapShared(c)) /\ v = NewSpace(c).n /\ p = job[c].page
  BY FrameSteps
<1>2. ~MapShared(c)
  BY <1>1, SharedMapped
<1>3. MapPage(c) /\ Fail(c) => UNCHANGED frames
  <2> SUFFICES ASSUME MapPage(c), Fail(c), ~UNCHANGED frames PROVE FALSE
    OBVIOUS
  <2>1. alloc' = [alloc EXCEPT ![c]["page"] = @ + 1] /\ job[c].pc \in {"page", "ipcmap"}
    BY DEF MapPage
  <2>2. \/ Goto(c, "ipcbuffer") \/ Goto(c, "window") \/ Step(c, Tables(job[c], TempPage, TRUE, "window"))
    BY DEF MapPage, Goto
  <2>3. job'[c].pc \in {"ipcbuffer", "window", "tables"}
    BY <2>2, StepPc, StepTables, ZenonT(60)
  <2> QED
    BY <2>3, StepEnds
<1> QED
  BY <1>1, <1>2, <1>3

----------------------------------------------------------------------------
(* What a step keeps of the memory *)

LEMMA PagesOnceKept ==
    ASSUME Wired, SharedOnly, PagesOnce, NEW c \in CNode, PdCreateStep(c) PROVE PagesOnce'
<1>1. ASSUME NEW v \in VSpace, NEW p \in Page \ {TempPage}, frames'[v][p].kind = "page",
             NEW n, n = frames'[v][p].n
      PROVE  /\ n \in ObjNum("page") /\ ~Offers(n)'
             /\ \/ frames'[v][p] = frames[v][p] /\ ~Offers(n)
                \/ v = NewSpace(c).n /\ p = job[c].page /\ Offers(n)
  <2>1. CASE frames'[v][p] = frames[v][p]
    <3>1. n \in ObjNum("page") /\ ~Offers(n)
      BY <1>1, <2>1 DEF PagesOnce
    <3>2. OnlyJobOf(c)
      BY StepJob
    <3> QED
      BY <2>1, <3>1, <3>2, OffersKept
  <2>2. CASE frames'[v][p] # frames[v][p]
    <3>1. MapPage(c) /\ ~Fail(c) /\ v = NewSpace(c).n /\ p = job[c].page
      BY <1>1, <2>2, NewFrames
    <3> QED
      BY <1>1, <3>1, PageMapped
  <2> QED
    BY <2>1, <2>2
<1>2. ASSUME NEW v \in VSpace, NEW u \in VSpace, NEW p \in Page \ {TempPage},
             NEW q \in Page \ {TempPage}, frames'[v][p].kind = "page",
             SameObject(frames'[v][p], frames'[u][q])
      PROVE  v = u /\ p = q
  <2> DEFINE n == frames'[v][p].n
  <2>1. frames'[u][q].kind = "page" /\ frames'[u][q].n = n
    BY <1>2 DEF SameObject
  <2>2. \/ frames'[v][p] = frames[v][p] /\ ~Offers(n)
        \/ v = NewSpace(c).n /\ p = job[c].page /\ Offers(n)
    BY <1>1, <1>2
  <2>3. \/ frames'[u][q] = frames[u][q] /\ ~Offers(n)
        \/ u = NewSpace(c).n /\ q = job[c].page /\ Offers(n)
    BY <1>1, <2>1
  <2>4. CASE frames'[v][p] = frames[v][p] /\ frames'[u][q] = frames[u][q]
    BY <1>2, <2>4 DEF PagesOnce
  <2> QED
    BY <2>2, <2>3, <2>4
<1> SUFFICES ASSUME NEW v \in VSpace, NEW u \in VSpace, NEW p \in Page \ {TempPage},
                    NEW q \in Page \ {TempPage}
             PROVE  /\ frames'[v][p].kind = "page" =>
                          frames'[v][p].n \in ObjNum("page") /\ \A n : n = frames'[v][p].n => ~Offers(n)'
                    /\ frames'[v][p].kind = "page" /\ SameObject(frames'[v][p], frames'[u][q]) =>
                          v = u /\ p = q
  BY DEF PagesOnce, SameObject
<1> QED
  BY <1>1, <1>2

\* A page of program p: one of its segments, or that of the IPC buffer.
LEMMA ProgramPages ==
    ASSUME ProgramsApart, NEW p \in Programs
    PROVE  /\ Len(p.pages) \in Nat
           /\ \A k \in 1 .. Len(p.pages) : p.pages[k] \in Page \ {TempPage, p.ipc}
           /\ p.ipc \in Page \ {TempPage}
           /\ \A k, m \in 1 .. Len(p.pages) : p.pages[k] = p.pages[m] => k = m
<1>1. p.pages \in Seq(Page) /\ p.ipc \in Page
  BY ProgramFacts DEF AnyProgram
<1> QED
  BY <1>1 DEF ProgramsApart

\* The frame to which a call is about to write is the page that it maps last.
LEMMA WindowPage ==
    ASSUME ProgramsApart, Wired, NEW c \in CNode, JobImage(c), job[c].pc = "window"
    PROVE  LET v == NewSpace(c).n
               q == Program(c).pages[job[c].k]
           IN  /\ Program(c) \in Programs /\ job[c].k \in 1 .. Len(Program(c).pages)
               /\ v \in VSpace /\ q \in Page \ {TempPage}
               /\ frames[v][q].kind = "page" /\ frames[v][q].n = LastPage(c).n
<1>1. Active(c) /\ Bound(c) /\ Toward(c, "window")
  BY DEF Active, Bound, Spaced, Building, Toward
<1>2. Program(c) \in Programs /\ job[c].k <= Len(Program(c).pages)
      /\ frames[NewSpace(c).n][Program(c).pages[job[c].k]].kind = "page"
      /\ frames[NewSpace(c).n][Program(c).pages[job[c].k]].n = LastPage(c).n
  BY <1>1 DEF JobImage
<1>3. job[c].k \in Nat \ {0}
  BY <1>1, WiredJob DEF Job
<1>4. job[c].k \in 1 .. Len(Program(c).pages)
  BY <1>2, <1>3, ProgramPages
<1> QED
  BY <1>1, <1>2, <1>4, BoundSpace, ProgramPages

LEMMA FreshBlankKept ==
    ASSUME ProgramsApart, Wired, PagesOnce, FreshBlank, NEW c \in CNode, JobImage(c), PdCreateStep(c)
    PROVE  FreshBlank'
<1> SUFFICES ASSUME NEW n \in ObjNum("page"), Offers(n)' PROVE memory'[n] = NoContent
  BY DEF FreshBlank, ObjNum, PoolSize
<1>1. Offers(n)
  BY StepJob, OffersKept
<1>2. memory[n] = NoContent
  BY <1>1 DEF FreshBlank
<1>3. memory' # memory => n # LastPage(c).n
  <2> SUFFICES ASSUME memory' # memory PROVE ~Offers(LastPage(c).n)
    BY <1>1
  <2>1. job[c].pc = "window"
    BY MemorySteps, Zenon DEF WriteHandle
  <2> QED
    BY <2>1, WindowPage DEF PagesOnce
<1>4. memory \in [ObjNum("page") -> Content]
  BY DEF Wired, IInv, KernelOK
<1>5. \/ UNCHANGED memory
      \/ \E x : memory' = [memory EXCEPT ![LastPage(c).n] = x]
  BY MemorySteps
<1> QED
  BY <1>2, <1>3, <1>4, <1>5

\* A page keeps its frame and its content but in the step that maps or writes it.
LEMMA ContentKept ==
    ASSUME ProgramsApart, Wired, PagesOnce, NEW c \in CNode, JobImage(c), PdCreateStep(c),
           NEW v \in VSpace, NEW p \in Page \ {TempPage}, frames[v][p].kind = "page",
           MapPage(c) \/ MapShared(c) => v # NewSpace(c).n \/ p # job[c].page,
           WriteHandle(c) => v # NewSpace(c).n \/ p # Program(c).pages[job[c].k]
    PROVE  frames'[v][p] = frames[v][p] /\ memory'[frames[v][p].n] = memory[frames[v][p].n]
<1>1. frames'[v][p] = frames[v][p]
  BY FrameSteps
<1>2. memory \in [ObjNum("page") -> Content] /\ frames[v][p].n \in ObjNum("page")
  BY DEF Wired, IInv, KernelOK, PagesOnce
<1>3. memory' # memory => frames[v][p].n # LastPage(c).n
  <2> SUFFICES ASSUME memory' # memory, frames[v][p].n = LastPage(c).n PROVE FALSE
    OBVIOUS
  <2>1. WriteHandle(c) /\ job[c].pc = "window"
    BY MemorySteps, ZenonT(60) DEF WriteHandle
  <2> DEFINE u == NewSpace(c).n
             q == Program(c).pages[job[c].k]
  <2>2. /\ u \in VSpace /\ q \in Page \ {TempPage}
        /\ frames[u][q].kind = "page" /\ frames[u][q].n = LastPage(c).n
    BY <2>1, WindowPage
  <2> HIDE DEF u, q
  <2>3. v = u /\ p = q
    BY <2>2 DEF PagesOnce, SameObject
  <2> QED
    BY <2>1, <2>3 DEF u, q
<1>4. \/ UNCHANGED memory
      \/ \E x : memory' = [memory EXCEPT ![LastPage(c).n] = x]
  BY MemorySteps
<1> QED
  BY <1>1, <1>2, <1>3, <1>4

\* Neither a mapping nor a write of the step of c is at page q of VSpace v.
Untouched(c, v, q) ==
    /\ MapPage(c) \/ MapShared(c) => v # NewSpace(c).n \/ q # job[c].page
    /\ WriteHandle(c) => v # NewSpace(c).n \/ q # Program(c).pages[job[c].k]

LEMMA WrittenKept ==
    ASSUME ProgramsApart, Wired, PagesOnce, NEW c \in CNode, JobImage(c), PdCreateStep(c),
           NEW v \in VSpace, NEW p \in Programs, NEW m \in Nat, m <= Len(p.pages),
           Written(frames[v], memory, p, m), \A k \in 1 .. m : Untouched(c, v, p.pages[k])
    PROVE  Written(frames'[v], memory', p, m)
<1> SUFFICES ASSUME NEW k \in 1 .. m
             PROVE  /\ frames'[v][p.pages[k]].kind = "page"
                    /\ memory'[frames'[v][p.pages[k]].n] = [program |-> p.name, k |-> k]
  BY DEF Written
<1>1. p.pages[k] \in Page \ {TempPage}
  BY ProgramPages
<1>2. /\ frames[v][p.pages[k]].kind = "page"
      /\ memory[frames[v][p.pages[k]].n] = [program |-> p.name, k |-> k]
  BY DEF Written
<1>3. frames'[v][p.pages[k]] = frames[v][p.pages[k]]
      /\ memory'[frames[v][p.pages[k]].n] = memory[frames[v][p.pages[k]].n]
  <2> DEFINE q == p.pages[k]
  <2>1. Untouched(c, v, q) /\ q \in Page \ {TempPage} /\ frames[v][q].kind = "page"
    BY <1>1, <1>2
  <2> HIDE DEF q
  <2>2. frames'[v][q] = frames[v][q] /\ memory'[frames[v][q].n] = memory[frames[v][q].n]
    BY <2>1, ContentKept DEF Untouched
  <2> QED
    BY <2>2 DEF q
<1> QED
  BY <1>2, <1>3

LEMMA CompleteKept ==
    ASSUME ProgramsApart, Wired, PagesOnce, NEW c \in CNode, JobImage(c), PdCreateStep(c),
           NEW v \in VSpace, NEW p \in Programs, NEW n, Complete(frames[v], memory, p, n),
           Untouched(c, v, p.ipc), \A k \in 1 .. Len(p.pages) : Untouched(c, v, p.pages[k])
    PROVE  Complete(frames'[v], memory', p, n)
<1>1. Len(p.pages) \in Nat /\ p.ipc \in Page \ {TempPage}
  BY ProgramPages
<1>2. Written(frames'[v], memory', p, Len(p.pages))
  BY <1>1, WrittenKept DEF Complete
<1>3. Buffer(frames'[v], memory', p, n)
  <2> DEFINE q == p.ipc
  <2>1. Untouched(c, v, q) /\ q \in Page \ {TempPage} /\ Buffer(frames[v], memory, p, n)
    BY <1>1 DEF Complete
  <2>2. frames[v][q].kind = "page" /\ frames[v][q].n = n /\ memory[n] = NoContent
    BY <2>1 DEF Buffer
  <2> HIDE DEF q
  <2>3. frames'[v][q] = frames[v][q] /\ memory'[frames[v][q].n] = memory[frames[v][q].n]
    BY <2>1, <2>2, ContentKept DEF Untouched
  <2> QED
    BY <2>2, <2>3 DEF Buffer, q
<1> QED
  BY <1>2, <1>3 DEF Complete

\* Only a call that has bound its notification maps or writes.
LEMMA TouchesBound ==
    ASSUME Wired, NEW c \in CNode, MapPage(c) \/ MapShared(c) \/ WriteHandle(c) PROVE Bound(c)
  BY Zenon DEF MapPage, MapShared, WriteHandle, Bound, Spaced, Building

----------------------------------------------------------------------------
(* The memory of the PDs that run, and of the others that are being loaded *)

LEMMA OtherSpaces ==
    ASSUME Wired, NEW c \in CNode, Bound(c), NEW d \in CNode
    PROVE  /\ Live(d) => tcb[image[d].tcb].vspace # NewSpace(c).n
           /\ d # c /\ Bound(d) => NewSpace(d).n # NewSpace(c).n
<1>1. Building(c) /\ Full(NewSpace(c)) /\ (Bound(d) => Building(d) /\ Full(NewSpace(d)))
  BY BoundObjects
<1>2. Live(d) => tcb[image[d].tcb].vspace # NewSpace(c).n
  BY <1>1 DEF Wired, JobWired, ObjectsFree
<1> QED
  BY <1>1, <1>2, ObjectsApart

LEMMA RunningImageKept ==
    ASSUME ProgramsApart, Wired, PagesOnce, NEW c \in CNode, JobImage(c), PdCreateStep(c),
           NEW d \in CNode, LiveImage(d), d \in Loaded
    PROVE  LiveImage(d)'
<1> DEFINE v == tcb[image[d].tcb].vspace
           n == tcb[image[d].tcb].ipc
           p == image[d].program
<1>1. Live(d) /\ v \in VSpace /\ p \in Programs /\ Complete(frames[v], memory, p, n)
  BY DEF Loaded, Live, Wired, LiveOK, SelfKnown, LiveImage
<1>2. image'[d] = image[d] /\ tcb'[image[d].tcb] = tcb[image[d].tcb]
  BY <1>1, StepFrame, LiveUntouched DEF Kept
<1>3. Bound(c) => v # NewSpace(c).n
  BY <1>1, OtherSpaces
<1> HIDE DEF v, n, p
<1>4. \A q : Untouched(c, v, q)
  BY <1>3, TouchesBound DEF Untouched
<1>5. Complete(frames'[v], memory', p, n)
  BY <1>1, <1>4, CompleteKept
<1> QED
  BY <1>1, <1>2, <1>5 DEF LiveImage, v, n, p

\* A PD that starts runs in the memory that the call has completed.
LEMMA StartedImage ==
    ASSUME Wired, NEW c \in CNode, JobImage(c), Restart(c), NEW d \in CNode, image'[d] # image[d]
    PROVE  LiveImage(d)'
<1>1. /\ Bound(c) /\ UNCHANGED <<frames, memory>>
      /\ tcb' = [tcb EXCEPT ![Thread(c).n].running = TRUE]
      /\ image' = [image EXCEPT ![NewRoot(c).n] =
             [id |-> job[c].id, tcb |-> Thread(c).n, program |-> Program(c)]]
  BY RestartStarts, Zenon DEF Restart, space
<1>2. image'[d].tcb = Thread(c).n /\ image'[d].program = Program(c)
  <2> DEFINE n == NewRoot(c).n
             x == [id |-> job[c].id, tcb |-> Thread(c).n, program |-> Program(c)]
  <2>1. image'[d] = x
    <3> HIDE DEF n, x
    <3> QED
      BY <1>1 DEF n, x, Wired, IInv, PdsOK
  <2> QED
    BY <2>1
<1> DEFINE t == Thread(c).n
<1>3. t \in ObjNum("tcb") /\ tcb[t].vspace = NewSpace(c).n
  BY <1>1, BoundSpace, BoundObjects
<1>4. tcb'[t].vspace = tcb[t].vspace /\ tcb'[t].ipc = tcb[t].ipc
  <2>1. tcb[t] \in Tcb /\ tcb \in [ObjNum("tcb") -> Tcb]
    BY <1>3, WiredTypes
  <2> HIDE DEF t
  <2> QED
    BY <1>1, <1>3, <2>1 DEF Tcb, t
<1>5. job[c].pc = "right" /\ Active(c)
  BY DEF Restart, Active
<1>6. Program(c) \in Programs /\ Complete(frames[NewSpace(c).n], memory, Program(c), tcb[t].ipc)
  BY <1>5 DEF JobImage
<1> HIDE DEF t
<1> QED
  BY <1>1, <1>2, <1>3, <1>4, <1>6 DEF LiveImage, t

LEMMA LiveImageKept ==
    ASSUME ProgramsApart, Wired, PagesOnce, NEW c \in CNode, JobImage(c), PdCreateStep(c),
           NEW d \in CNode, LiveImage(d)
    PROVE  LiveImage(d)'
<1>1. CASE image'[d] # image[d]
  <2>1. UNCHANGED image \/ Restart(c)
    BY Zenon DEF PdCreateStep, MovePoolCap, AllocateObjects, AssignAsid, CopyFixedCap, SetSpace,
       BindNotification, NextPage, MapTable, MapPage, WriteHandle, SetIpcBuffer, SetUpScheduling,
       MintChannel, SetUpRegion, MapShared, MintIrqBadge, SetIrqTarget, MoveIrqHandler, SkipControl,
       UnknownRight, threads
  <2> QED
    BY <1>1, <2>1, StartedImage
<1>2. CASE image'[d] = image[d] /\ d \in Loaded
  BY <1>2, RunningImageKept
<1>3. CASE image'[d] = image[d] /\ d \notin Loaded
  BY <1>3 DEF Loaded, LiveImage
<1> QED
  BY <1>1, <1>2, <1>3

\* The page that a call took last stays what it is while others work.
LEMMA LastPageStays ==
    ASSUME Wired, NEW c \in CNode, Kept(c), NEW d \in CNode, Active(d),
           alloc'[d]["page"] = alloc[d]["page"], alloc[d]["page"] > 0
    PROVE  LastPage(d)'.n = LastPage(d).n
<1> DEFINE i == alloc[d]["page"] - 1
<1>1. i \in PoolIndex("page") /\ i < alloc[d]["page"]
  <2>1. alloc[d]["page"] \in Nat /\ alloc[d]["page"] <= PoolSize("page") /\ PoolSize("page") \in Nat
    BY PageKind, PoolSizeType, WiredTypes
  <2> QED
    BY <2>1 DEF PoolIndex
<1>2. Live(d)
  BY DEF Wired, JobWired, Active
<1> HIDE DEF i
<1>3. SameObject(caps'[d][At("page", i)], caps[d][At("page", i)])
  BY <1>1, <1>2, PageKind DEF Kept, UsedKept
<1>4. LastPage(d) = caps[d][At("page", i)] /\ LastPage(d)' = caps'[d][At("page", i)]
  BY DEF LastPage, i
<1> QED
  BY <1>3, <1>4 DEF SameObject

\* The calls that have pages to look after.
Loading(c) ==
    \/ job[c].pc \in {"segment", "ipcbuffer", "right", "irqtarget", "irqmove"}
    \/ \E pc \in {"page", "window", "ipcmap", "shared"} : Toward(c, pc)

LEMMA LoadingBound ==
    ASSUME Wired, NEW c \in CNode, Loading(c) PROVE Bound(c) /\ Building(c) /\ Active(c)
<1>1. Bound(c)
  BY DEF Loading, Toward, Bound, Spaced, Building
<1> QED
  BY <1>1, BoundObjects

LEMMA OtherImageKept ==
    ASSUME ProgramsApart, Wired, PagesOnce, NEW c \in CNode, JobImage(c), PdCreateStep(c),
           NEW d \in CNode \ {c}, JobImage(d)
    PROVE  JobImage(d)'
<1>1. Kept(c) /\ job'[d] = job[d] /\ alloc'[d] = alloc[d]
  BY StepFrame, SMTT(30) DEF Kept
<1>2. CASE ~Loading(d)
  <2>1. Active(d) => Program(d) \in Programs
    BY DEF JobImage
  <2>2. ~Loading(d)' /\ (Active(d)' => Active(d)) /\ Program(d)' = Program(d)
    BY <1>1, <1>2, SMTT(30) DEF Loading, Toward, Active, Program
  <2> QED
    BY <2>1, <2>2 DEF JobImage, Loading
<1>3. CASE Loading(d)
  <2> DEFINE v == NewSpace(d).n
             n == tcb[Thread(d).n].ipc
             j == job[d]
             p == Program(d)
  <2>1. Bound(d) /\ Building(d) /\ Active(d) /\ v \in VSpace /\ p \in Programs /\ j \in Job
    BY <1>3, LoadingBound, BoundSpace, WiredJob DEF JobImage
  <2>2. NewSpace(d)' = NewSpace(d) /\ Thread(d)' = Thread(d)
    BY <1>1, <2>1, ObjectsStay DEF SameObjects
  <2>3. tcb'[Thread(d).n].ipc = tcb[Thread(d).n].ipc
    <3>1. Full(Thread(d)) /\ Thread(d).n \in ObjNum("tcb")
      BY <2>1, BoundObjects, BoundSpace
    <3>2. Building(c) /\ Full(Thread(c)) => Thread(d).n # Thread(c).n
      BY <2>1, <3>1, ObjectsApart
    <3> QED
      BY <1>1, <3>1, <3>2 DEF Kept, ThreadStep
  <2>4. Bound(c) => v # NewSpace(c).n
    BY <2>1, OtherSpaces
  <2>5. \A q : Untouched(c, v, q)
    <3> HIDE DEF v
    <3> QED
      BY <2>4, TouchesBound DEF Untouched
  <2>6. Toward(d, "window") \/ j.pc = "ipcbuffer" =>
           LastPage(d)'.n = LastPage(d).n
    <3>1. Toward(d, "window") \/ j.pc = "ipcbuffer" => alloc[d]["page"] > 0
      BY <2>1, WiredJob DEF JobOK, Toward
    <3> QED
      BY <1>1, <2>1, <3>1, LastPageStays
  <2> HIDE DEF v, n
  <2>7. ASSUME NEW m \in Nat, m <= Len(p.pages), Written(frames[v], memory, p, m)
        PROVE  Written(frames'[v], memory', p, m)
    BY <2>1, <2>5, <2>7, WrittenKept
  <2>8. ASSUME NEW x, Complete(frames[v], memory, p, x)
        PROVE  Complete(frames'[v], memory', p, x)
    BY <2>1, <2>5, <2>8, CompleteKept
  <2>9. Len(p.pages) \in Nat /\ j.k \in Nat \ {0}
    BY <2>1, ProgramPages DEF Job
  <2>10. ASSUME Toward(d, "window")
         PROVE  /\ frames'[v][p.pages[j.k]] = frames[v][p.pages[j.k]]
                /\ j.k <= Len(p.pages)
                /\ frames[v][p.pages[j.k]].kind = "page"
                /\ frames[v][p.pages[j.k]].n = LastPage(d).n
    <3> DEFINE q == p.pages[j.k]
    <3>1. j.k <= Len(p.pages) /\ frames[v][q].kind = "page" /\ frames[v][q].n = LastPage(d).n
      BY <2>10 DEF JobImage, v
    <3>2. q \in Page \ {TempPage} /\ Untouched(c, v, q)
      BY <2>1, <2>5, <2>9, <3>1, ProgramPages
    <3> HIDE DEF q
    <3>3. frames'[v][q] = frames[v][q]
      BY <2>1, <3>1, <3>2, ContentKept DEF Untouched
    <3> QED
      BY <3>1, <3>3, SMTT(30) DEF q
  <2>11. /\ job'[d] = j /\ Program(d)' = p /\ frames'[NewSpace(d)'.n] = frames'[v]
         /\ tcb'[Thread(d)'.n].ipc = n
         /\ \A pc : Toward(d, pc)' <=> Toward(d, pc)
    BY <1>1, <2>2, <2>3 DEF Program, Toward, v, n
  <2>12. /\ j.pc = "segment" \/ Toward(d, "page") \/ Toward(d, "window") =>
               j.k <= Len(p.pages) + 1 /\ Written(frames'[v], memory', p, j.k - 1)
         /\ Toward(d, "ipcmap") => Written(frames'[v], memory', p, Len(p.pages))
         /\ j.pc = "ipcbuffer" => Complete(frames'[v], memory', p, LastPage(d).n)
         /\ j.pc \in {"right", "irqtarget", "irqmove"} \/ Toward(d, "shared") =>
               Complete(frames'[v], memory', p, n)
    <3>1. /\ j.pc = "segment" \/ Toward(d, "page") \/ Toward(d, "window") =>
                 j.k <= Len(p.pages) + 1 /\ Written(frames[v], memory, p, j.k - 1)
          /\ Toward(d, "ipcmap") => Written(frames[v], memory, p, Len(p.pages))
          /\ j.pc = "ipcbuffer" => Complete(frames[v], memory, p, LastPage(d).n)
          /\ j.pc \in {"right", "irqtarget", "irqmove"} \/ Toward(d, "shared") =>
                 Complete(frames[v], memory, p, n)
      BY ZenonT(60) DEF JobImage, v, n
    <3> HIDE DEF p, j
    <3> QED
      BY <2>7, <2>8, <2>9, <3>1
  <2> QED
    BY <2>1, <2>6, <2>10, <2>11, <2>12 DEF JobImage
<1> QED
  BY <1>2, <1>3

----------------------------------------------------------------------------
(* The memory that a call is loading, after its own step *)

\* A call is about one program.
LEMMA SameProgram ==
    ASSUME Wired, NEW c \in CNode, PdCreateStep(c) PROVE job'[c].program = job[c].program
<1> DEFINE j == job[c]
           Same == job'[c].program = j.program
<1>1. j \in Job /\ \A x : Step(c, x) => job'[c] = x
  BY StepAt
<1>2. CASE Fail(c) \/ Crash(c) \/ \E pc : Goto(c, pc)
  BY <1>1, <1>2 DEF Job, Fail, Crash, Goto
<1>3. CASE Step(c, NextRight(j)) \/ \E page, own, then : Step(c, Tables(j, page, own, then))
  BY <1>1, <1>3, Zenon DEF Job, NextRight, Tables
<1>4. CASE \/ NextPage(c) \/ SetUpScheduling(c) \/ SetUpRegion(c) \/ MoveIrqHandler(c)
           \/ SkipControl(c) \/ UnknownRight(c)
  BY <1>2, <1>3, <1>4, Zenon
     DEF NextPage, SetUpScheduling, SetUpRegion, MoveIrqHandler, SkipControl, UnknownRight
<1>5. CASE SetIrqTarget(c) \/ MintIrqBadge(c) \/ SetSpace(c)
  BY <1>2, <1>5, Zenon DEF SetIrqTarget, MintIrqBadge, SetSpace
<1>6. CASE MovePoolCap(c)
  <2>1. \/ Fail(c) \/ Step(c, [j EXCEPT !.i = @ + 1]) \/ Step(c, [j EXCEPT !.i = 0, !.k = @ + 1])
        \/ Step(c, [j EXCEPT !.pc = "allocate"])
    BY <1>6, Zenon DEF MovePoolCap
  <2> QED
    BY <1>1, <1>2, <2>1 DEF Job
<1>7. CASE AllocateObjects(c)
  <2>1. \/ Fail(c)
        \/ \E t, n, s, v : Step(c, [j EXCEPT !.pc = "asid", !.tcb = t, !.ntfn = n, !.sc = s, !.vspace = v])
    BY <1>7, Zenon DEF AllocateObjects
  <2> QED
    BY <1>1, <1>2, <2>1, Zenon DEF Job
<1>8. CASE AssignAsid(c) \/ CopyFixedCap(c) \/ BindNotification(c)
  <2>1. \/ Fail(c) \/ Step(c, [j EXCEPT !.pc = "fixed", !.k = 1]) \/ Step(c, [j EXCEPT !.k = @ + 1])
        \/ Goto(c, "space") \/ Step(c, [j EXCEPT !.pc = "segment", !.k = 1])
    BY <1>8, Zenon DEF AssignAsid, CopyFixedCap, BindNotification
  <2> QED
    BY <1>1, <1>2, <2>1, Zenon DEF Job
<1>9. CASE MapTable(c)
  <2>1. Fail(c) \/ Step(c, [j EXCEPT !.level = @ + 1]) \/ Goto(c, j.then)
    BY <1>9 DEF MapTable, Goto
  <2> QED
    BY <1>1, <1>2, <2>1 DEF Job
<1>10. CASE MapPage(c)
  BY <1>2, <1>3, <1>10 DEF MapPage, Goto
<1>11. CASE WriteHandle(c) \/ SetIpcBuffer(c) \/ MapShared(c)
  <2>1. \/ Fail(c) \/ Step(c, [j EXCEPT !.pc = "segment", !.k = @ + 1])
        \/ Step(c, [j EXCEPT !.pc = "right", !.k = 1, !.i = 0])
        \/ Step(c, [j EXCEPT !.pc = "right", !.i = @ + 1, !.shared = @ + 1])
    BY <1>11, Zenon DEF WriteHandle, SetIpcBuffer, MapShared
  <2> QED
    BY <1>1, <1>2, <2>1, Zenon DEF Job
<1>12. CASE MintChannel(c)
  <2>1. Crash(c) \/ Step(c, NextRight(j)) \/ Step(c, [j EXCEPT !.i = 1])
    BY <1>12 DEF MintChannel
  <2> QED
    BY <1>1, <1>2, <1>3, <2>1 DEF Job
<1>13. CASE Restart(c)
  <2>1. Crash(c) \/ Step(c, [j EXCEPT !.pc = "idle", !.ret = 0])
    BY <1>13 DEF Restart
  <2> QED
    BY <1>1, <1>2, <2>1 DEF Job
<1> QED
  BY <1>4, <1>5, <1>6, <1>7, <1>8, <1>9, <1>10, <1>11, <1>12, <1>13 DEF PdCreateStep

\* A call that has no pages to look after, or none any more.
LEMMA NoImageYet ==
    ASSUME Wired, NEW c \in CNode, JobImage(c), PdCreateStep(c), ~Loading(c)' PROVE JobImage(c)'
<1>1. Program(c)' \in Programs
  BY StepIsActive, SameProgram DEF JobImage, Program
<1> QED
  BY <1>1 DEF JobImage, Loading

LEMMA EndsUnloaded ==
    ASSUME NEW c, job'[c].pc \in {"idle", "crashed"} PROVE ~Loading(c)'
  BY SMTT(30) DEF Loading, Toward

\* A call that goes on loads the same program into the same space.
LEMMA SameImage ==
    ASSUME Wired, NEW c \in CNode, JobImage(c), PdCreateStep(c), Bound(c), Active(c)'
    PROVE  /\ Program(c)' = Program(c) /\ Program(c) \in Programs
           /\ NewSpace(c)' = NewSpace(c) /\ Thread(c)' = Thread(c)
           /\ NewSpace(c).n \in VSpace /\ Thread(c).n \in ObjNum("tcb")
<1>1. Kept(c) /\ Building(c) /\ Active(c)
  BY StepFrame, BoundObjects
<1>2. SameObjects(job[c], job'[c])
  <2>1. CASE \/ MovePoolCap(c) \/ AllocateObjects(c) \/ AssignAsid(c) \/ CopyFixedCap(c)
             \/ SetSpace(c) \/ BindNotification(c)
    BY <2>1, Zenon DEF MovePoolCap, AllocateObjects, AssignAsid, CopyFixedCap, SetSpace, BindNotification,
                Bound, Spaced, Building
  <2>2. CASE Restart(c)
    BY <2>2, RestartStarts DEF Active
  <2>3. CASE \/ NextPage(c) \/ MapTable(c) \/ MapPage(c) \/ WriteHandle(c) \/ SetIpcBuffer(c)
             \/ SetUpScheduling(c) \/ SetUpRegion(c) \/ MapShared(c)
             \/ MintIrqBadge(c) \/ SetIrqTarget(c) \/ MoveIrqHandler(c)
             \/ SkipControl(c) \/ UnknownRight(c) \/ MintChannel(c)
    BY <2>3, NextPageJob, MapTableJob, MapPageJob, WriteHandleJob, SetIpcBufferJob, RightJobs,
       RegionJobs DEF LateJob, Active, Follows
  <2> QED
    BY <2>1, <2>2, <2>3 DEF PdCreateStep
<1> QED
  BY <1>1, <1>2, SameProgram, ObjectsStay, BoundSpace DEF Program, JobImage

LEMMA TablesFields ==
    ASSUME Wired, NEW c \in CNode, NEW page, NEW own, NEW then,
           Step(c, Tables(job[c], page, own, then))
    PROVE  /\ job'[c].pc = "tables" /\ job'[c].then = then
           /\ job'[c].page = page /\ job'[c].k = job[c].k
<1>1. job'[c] = Tables(job[c], page, own, then) /\ job[c] \in Job
  BY StepAt
<1> QED
  BY <1>1 DEF Job, Tables

LEMMA BindNotificationImage ==
    ASSUME Wired, NEW c \in CNode, JobImage(c), BindNotification(c) PROVE JobImage(c)'
<1> DEFINE j == job[c]
<1>1. j \in Job /\ PdCreateStep(c) /\ Active(c)
  BY StepAt, Zenon DEF PdCreateStep, BindNotification, Active
<1>2. CASE Fail(c)
  BY <1>1, <1>2, StepEnds, EndsUnloaded, NoImageYet
<1>3. CASE ~Fail(c)
  <2>1. Step(c, [j EXCEPT !.pc = "segment", !.k = 1])
    BY <1>3, Zenon DEF BindNotification
  <2>2. job'[c] = [j EXCEPT !.pc = "segment", !.k = 1]
    BY <2>1, StepAt
  <2>3. job'[c].pc = "segment" /\ job'[c].k = 1
    BY <1>1, <2>2 DEF Job
  <2>4. Program(c)' \in Programs /\ Len(Program(c)'.pages) \in Nat
    <3>1. Program(c)' = Program(c) /\ Program(c) \in Programs
      BY <1>1, SameProgram DEF Program, JobImage
    <3> QED
      BY <3>1, ProgramFacts DEF AnyProgram
  <2>5. \A f, mem, p : Written(f, mem, p, 0)
    BY DEF Written
  <2> QED
    BY <2>3, <2>4, <2>5 DEF JobImage, Toward
<1> QED
  BY <1>2, <1>3

LEMMA NextPageImage ==
    ASSUME ProgramsApart, Wired, NEW c \in CNode, JobImage(c), NextPage(c) PROVE JobImage(c)'
<1> DEFINE j == job[c]
           p == Program(c)
           v == NewSpace(c).n
<1>1. j \in Job /\ PdCreateStep(c) /\ Active(c) /\ j.pc = "segment" /\ Bound(c)
      /\ UNCHANGED <<frames, memory>>
  BY StepAt DEF PdCreateStep, NextPage, Active, Bound, Spaced, Building, space
<1>2. CASE Fail(c)
  BY <1>1, <1>2, StepEnds, EndsUnloaded, NoImageYet
<1>3. CASE ~Fail(c)
  <2>1. \/ j.k <= Len(p.pages) /\ Step(c, Tables(j, p.pages[j.k], FALSE, "page"))
        \/ ~(j.k <= Len(p.pages)) /\ Step(c, Tables(j, p.ipc, FALSE, "ipcmap"))
    BY <1>3 DEF NextPage, Program
  <2>2. \/ /\ j.k <= Len(p.pages) /\ job'[c].pc = "tables" /\ job'[c].then = "page"
           /\ job'[c].page = p.pages[j.k] /\ job'[c].k = j.k
        \/ /\ ~(j.k <= Len(p.pages)) /\ job'[c].pc = "tables" /\ job'[c].then = "ipcmap"
           /\ job'[c].page = p.ipc
    <3>1. CASE j.k <= Len(p.pages) /\ Step(c, Tables(j, p.pages[j.k], FALSE, "page"))
      <4> DEFINE q == p.pages[j.k]
      <4> HIDE DEF q
      <4> QED
        BY <3>1, TablesFields, ZenonT(60) DEF q
    <3>2. CASE ~(j.k <= Len(p.pages)) /\ Step(c, Tables(j, p.ipc, FALSE, "ipcmap"))
      <4> DEFINE q == p.ipc
      <4> HIDE DEF q
      <4> QED
        BY <3>2, TablesFields, ZenonT(60) DEF q
    <3> QED
      BY <2>1, <3>1, <3>2
  <2>3. Active(c)' /\ j.k \in Nat \ {0}
    BY <1>1, <2>2 DEF Active, Job
  <2>4. Program(c)' = p /\ p \in Programs /\ NewSpace(c)' = NewSpace(c)
    BY <1>1, <2>3, SameImage
  <2>5. j.k <= Len(p.pages) + 1 /\ Written(frames[v], memory, p, j.k - 1) /\ Len(p.pages) \in Nat
    BY <1>1, <2>4, ProgramPages DEF JobImage
  <2>6. ~(j.k <= Len(p.pages)) => j.k - 1 = Len(p.pages)
    BY <2>3, <2>5
  <2>7. Written(frames'[NewSpace(c)'.n], memory', Program(c)', j.k - 1)
    BY <1>1, <2>4, <2>5
  <2> HIDE DEF p, v
  <2> QED
    BY <2>2, <2>3, <2>4, <2>5, <2>6, <2>7 DEF JobImage, Toward
<1> QED
  BY <1>2, <1>3

LEMMA MapTableImage ==
    ASSUME Wired, NEW c \in CNode, JobImage(c), MapTable(c) PROVE JobImage(c)'
<1> DEFINE j == job[c]
<1>1. j \in Job /\ PdCreateStep(c) /\ Active(c) /\ j.pc = "tables" /\ Bound(c)
      /\ j.then \in {"page", "ipcmap", "window", "shared"} /\ UNCHANGED <<frames, memory, caps, tcb>>
  BY StepAt, JobType DEF PdCreateStep, MapTable, Active, Bound, Spaced, Building, threads, Wired, JobOK
<1>2. CASE Fail(c)
  BY <1>1, <1>2, StepEnds, EndsUnloaded, NoImageYet
<1>3. CASE ~Fail(c)
  <2>1. Step(c, [j EXCEPT !.level = @ + 1]) \/ Step(c, [j EXCEPT !.pc = j.then])
    BY <1>3 DEF MapTable
  <2>2. /\ job'[c].pc \in {"tables", j.then} /\ job'[c].then = j.then
        /\ job'[c].page = j.page /\ job'[c].k = j.k
    BY <1>1, <2>1, StepAt DEF Job
  <2>3. Active(c)'
    BY <1>1, <2>2 DEF Active
  <2>4. Program(c)' = Program(c) /\ NewSpace(c)' = NewSpace(c) /\ Thread(c)' = Thread(c)
        /\ Program(c) \in Programs
    BY <1>1, <2>3, SameImage
  <2>5. alloc'[c]["page"] = alloc[c]["page"]
    <3>1. j.level \in 1 .. 3
      BY <1>1 DEF Job
    <3>2. TableKind[j.level] \in {"pud", "pd", "pt"}
      BY <3>1 DEF TableKind
    <3>3. alloc \in [CNode -> [PoolKind -> Nat]] /\ {"pud", "pd", "pt", "page"} \subseteq PoolKind
      BY DEF Wired, IInv, PdsOK, PoolKind
    <3>4. UNCHANGED alloc \/ \E k \in {"pud", "pd", "pt"} : alloc' = [alloc EXCEPT ![c][k] = @ + 1]
      BY <3>2, Zenon DEF MapTable
    <3> QED
      BY <3>3, <3>4
  <2>6. LastPage(c)' = LastPage(c)
    BY <1>1, <2>5 DEF LastPage
  <2>7. \A pc \in {"page", "ipcmap", "window", "shared"} : Toward(c, pc)' => Toward(c, pc)
    BY <1>1, <2>2 DEF Toward
  <2>8. job'[c].pc \notin {"segment", "ipcbuffer", "right", "irqtarget", "irqmove"}
    BY <1>1, <2>2
  <2> QED
    BY <1>1, <2>2, <2>4, <2>6, <2>7, <2>8 DEF JobImage
<1> QED
  BY <1>2, <1>3

\* sel4cp_internal_allocate_page: the page is that of the program, or the IPC buffer.
LEMMA MapPageImage ==
    ASSUME ProgramsApart, Wired, PagesOnce, FreshBlank, NEW c \in CNode, JobImage(c), MapPage(c)
    PROVE  JobImage(c)'
<1> DEFINE j == job[c]
           p == Program(c)
           v == NewSpace(c).n
           n == PoolCap(c, "page").n
<1>1. /\ j \in Job /\ PdCreateStep(c) /\ Active(c) /\ j.pc \in {"page", "ipcmap"} /\ Bound(c)
      /\ UNCHANGED memory
  BY StepAt DEF PdCreateStep, MapPage, Active, Bound, Spaced, Building
<1>2. CASE Fail(c)
  BY <1>1, <1>2, StepEnds, EndsUnloaded, NoImageYet
<1>3. CASE ~Fail(c)
  <2>1. \/ j.pc = "ipcmap" /\ Step(c, [j EXCEPT !.pc = "ipcbuffer"])
        \/ /\ j.pc = "page"
           /\ Step(c, [j EXCEPT !.pc = "window"]) \/ Step(c, Tables(j, TempPage, TRUE, "window"))
    BY <1>1, <1>3 DEF MapPage
  <2>2. \/ j.pc = "ipcmap" /\ job'[c].pc = "ipcbuffer"
        \/ /\ j.pc = "page" /\ job'[c].k = j.k
           /\ job'[c].pc = "window" \/ (job'[c].pc = "tables" /\ job'[c].then = "window")
    <3>1. CASE j.pc = "ipcmap" /\ Step(c, [j EXCEPT !.pc = "ipcbuffer"])
      BY <1>1, <3>1, StepAt DEF Job
    <3>2. CASE j.pc = "page" /\ Step(c, [j EXCEPT !.pc = "window"])
      BY <1>1, <3>2, StepAt DEF Job
    <3>3. CASE j.pc = "page" /\ Step(c, Tables(j, TempPage, TRUE, "window"))
      BY <3>3, TablesFields, ZenonT(60)
    <3> QED
      BY <2>1, <3>1, <3>2, <3>3
  <2>3. Active(c)' /\ j.k \in Nat \ {0}
    BY <1>1, <2>2 DEF Active, Job
  <2>4. Program(c)' = p /\ p \in Programs /\ NewSpace(c)' = NewSpace(c) /\ v \in VSpace
    BY <1>1, <2>3, SameImage
  <2>5. /\ Len(p.pages) \in Nat
        /\ \A k \in 1 .. Len(p.pages) : p.pages[k] \in Page \ {TempPage, p.ipc}
        /\ \A k, m \in 1 .. Len(p.pages) : p.pages[k] = p.pages[m] => k = m
    BY <2>4, ProgramPages
  <2>6. /\ frames'[v][j.page].kind = "page" /\ frames'[v][j.page].n = n
        /\ n \in ObjNum("page") /\ Offers(n) /\ LastPage(c)'.n = n
    BY <1>3, PageMapped
  <2>7. ~WriteHandle(c)
    BY <1>1 DEF WriteHandle
  <2>8. CASE j.pc = "page"
    <3>1. j.k \in 1 .. Len(p.pages) /\ j.page = p.pages[j.k] /\ Written(frames[v], memory, p, j.k - 1)
      BY <2>3, <2>5, <2>8 DEF JobImage, Toward
    <3>2. j.k - 1 \in Nat /\ j.k - 1 <= Len(p.pages) /\ j.k <= Len(p.pages) + 1
      BY <2>3, <2>5, <3>1
    <3>3. \A k \in 1 .. j.k - 1 : Untouched(c, v, p.pages[k])
      BY <2>3, <2>5, <2>7, <3>1 DEF Untouched
    <3> HIDE DEF p, v, n
    <3>4. Written(frames'[v], memory', p, j.k - 1)
      BY <1>1, <2>4, <3>1, <3>2, <3>3, WrittenKept
    <3>5. /\ frames'[NewSpace(c)'.n] = frames'[v] /\ Program(c)' = p /\ job'[c].k = j.k
          /\ job'[c].pc = "window" \/ (job'[c].pc = "tables" /\ job'[c].then = "window")
      BY <2>2, <2>4, <2>8 DEF v
    <3>6. /\ ~Toward(c, "page")' /\ ~Toward(c, "ipcmap")' /\ ~Toward(c, "shared")'
          /\ job'[c].pc \notin {"segment", "ipcbuffer", "right", "irqtarget", "irqmove"}
      BY <3>5 DEF Toward
    <3>7. j.k <= Len(p.pages) /\ frames'[v][p.pages[j.k]].kind = "page"
          /\ frames'[v][p.pages[j.k]].n = LastPage(c)'.n
      BY <2>5, <2>6, <3>1
    <3> QED
      BY <2>4, <3>2, <3>4, <3>5, <3>6, <3>7, Zenon DEF JobImage
  <2>9. CASE j.pc = "ipcmap"
    <3>1. j.page = p.ipc /\ Written(frames[v], memory, p, Len(p.pages))
      BY <2>9 DEF JobImage, Toward, Active
    <3>2. \A k \in 1 .. Len(p.pages) : Untouched(c, v, p.pages[k])
      BY <2>5, <2>7, <3>1 DEF Untouched
    <3>3. memory'[n] = NoContent
      BY <1>1, <2>6 DEF FreshBlank
    <3> HIDE DEF p, v, n
    <3>4. Written(frames'[v], memory', p, Len(p.pages))
      BY <1>1, <2>4, <2>5, <3>1, <3>2, WrittenKept
    <3>5. Complete(frames'[v], memory', p, n)
      BY <2>6, <3>1, <3>3, <3>4 DEF Complete, Buffer
    <3>6. /\ frames'[NewSpace(c)'.n] = frames'[v] /\ Program(c)' = p /\ job'[c].pc = "ipcbuffer"
      BY <2>2, <2>4, <2>9 DEF v
    <3> QED
      BY <2>4, <2>6, <3>5, <3>6 DEF JobImage, Toward
  <2> QED
    BY <1>1, <2>8, <2>9
<1> QED
  BY <1>2, <1>3

\* The bytes of the page go to the frame that was mapped for it.
LEMMA WriteHandleImage ==
    ASSUME ProgramsApart, Wired, PagesOnce, NEW c \in CNode, JobImage(c), WriteHandle(c)
    PROVE  JobImage(c)'
<1> DEFINE j == job[c]
           p == Program(c)
           v == NewSpace(c).n
           q == p.pages[j.k]
           n == LastPage(c).n
<1>1. j \in Job /\ PdCreateStep(c) /\ Active(c) /\ j.pc = "window" /\ Bound(c)
  BY StepAt, Zenon DEF PdCreateStep, WriteHandle, Active, Bound, Spaced, Building
<1>2. CASE Fail(c)
  BY <1>1, <1>2, StepEnds, EndsUnloaded, NoImageYet
<1>3. CASE ~Fail(c)
  <2>1. Step(c, [j EXCEPT !.pc = "segment", !.k = @ + 1])
    BY <1>3 DEF WriteHandle
  <2>2. job'[c].pc = "segment" /\ job'[c].k = j.k + 1
    <3>1. job'[c] = [j EXCEPT !.pc = "segment", !.k = @ + 1]
      BY <2>1, StepAt
    <3> QED
      BY <1>1, <3>1 DEF Job
  <2>3. Active(c)' /\ j.k \in Nat \ {0}
    BY <1>1, <2>2 DEF Active, Job
  <2>4. Program(c)' = p /\ p \in Programs /\ NewSpace(c)' = NewSpace(c) /\ v \in VSpace
    BY <1>1, <2>3, SameImage
  <2>5. /\ Len(p.pages) \in Nat
        /\ \A k, m \in 1 .. Len(p.pages) : p.pages[k] = p.pages[m] => k = m
    BY <2>4, ProgramPages
  <2>6. /\ j.k \in 1 .. Len(p.pages) /\ q \in Page \ {TempPage}
        /\ frames[v][q].kind = "page" /\ frames[v][q].n = n
    BY <1>1, WindowPage
  <2>7. memory' = [memory EXCEPT ![n] = [program |-> p.name, k |-> j.k]]
    BY <1>1, <1>3, MemorySteps
  <2>8. ~MapPage(c) /\ ~MapShared(c)
    BY <1>1 DEF MapPage, MapShared
  <2>9. Written(frames[v], memory, p, j.k - 1)
    BY <1>1, <2>4 DEF JobImage, Toward
  <2>10. /\ j.k - 1 \in Nat /\ j.k - 1 <= Len(p.pages) /\ j.k + 1 <= Len(p.pages) + 1
         /\ (j.k + 1) - 1 = j.k
    BY <2>3, <2>5, <2>6
  <2>11. \A k \in 1 .. j.k - 1 : Untouched(c, v, p.pages[k])
    BY <2>3, <2>5, <2>6, <2>8 DEF Untouched
  <2>12. frames'[v][q] = frames[v][q]
    <3> HIDE DEF q, v
    <3> QED
      BY <1>1, <2>4, <2>6, <2>8, FrameSteps
  <2>13. memory'[n] = [program |-> p.name, k |-> j.k]
    <3> DEFINE x == [program |-> p.name, k |-> j.k]
    <3>1. n \in ObjNum("page") /\ memory \in [ObjNum("page") -> Content]
      BY <2>4, <2>6 DEF PagesOnce, Wired, IInv, KernelOK
    <3> HIDE DEF n, x
    <3>2. memory' = [memory EXCEPT ![n] = x]
      BY <2>7 DEF x
    <3>3. memory'[n] = x
      BY <3>1, <3>2
    <3> QED
      BY <3>3 DEF x
  <2> HIDE DEF v, n
  <2>14. Written(frames'[v], memory', p, j.k - 1)
    <3> HIDE DEF p
    <3> QED
      BY <1>1, <2>4, <2>9, <2>10, <2>11, WrittenKept, SMTT(30) DEF p
  <2>15. Written(frames'[v], memory', p, j.k)
    <3>1. \A k \in 1 .. j.k : k \in 1 .. j.k - 1 \/ k = j.k
      BY <2>3
    <3> QED
      BY <2>6, <2>12, <2>13, <2>14, <3>1 DEF Written
  <2>16. frames'[NewSpace(c)'.n] = frames'[v]
    BY <2>4 DEF v
  <2> HIDE DEF p
  <2> QED
    BY <2>2, <2>4, <2>10, <2>15, <2>16, SMTT(30) DEF JobImage, Toward
<1> QED
  BY <1>2, <1>3

LEMMA SetIpcBufferImage ==
    ASSUME Wired, NEW c \in CNode, JobImage(c), SetIpcBuffer(c) PROVE JobImage(c)'
<1> DEFINE j == job[c]
           p == Program(c)
           v == NewSpace(c).n
           t == Thread(c).n
           n == LastPage(c).n
<1>1. /\ j \in Job /\ PdCreateStep(c) /\ Active(c) /\ j.pc = "ipcbuffer" /\ Bound(c)
      /\ UNCHANGED <<frames, memory>>
  BY StepAt DEF PdCreateStep, SetIpcBuffer, Active, Bound, Spaced, Building, space
<1>2. CASE Fail(c)
  BY <1>1, <1>2, StepEnds, EndsUnloaded, NoImageYet
<1>3. CASE ~Fail(c)
  <2>1. /\ Step(c, [j EXCEPT !.pc = "right", !.k = 1, !.i = 0])
        /\ tcb' = [tcb EXCEPT ![caps[c][At("TCB", Target(c))].n].ipc = n]
    BY <1>3 DEF SetIpcBuffer, LastPage
  <2>2. job'[c].pc = "right"
    <3>1. job'[c] = [j EXCEPT !.pc = "right", !.k = 1, !.i = 0]
      BY <2>1, StepAt
    <3> QED
      BY <1>1, <3>1 DEF Job
  <2>3. Active(c)'
    BY <2>2 DEF Active
  <2>4. /\ Program(c)' = p /\ p \in Programs /\ NewSpace(c)' = NewSpace(c)
        /\ Thread(c)' = Thread(c) /\ t \in ObjNum("tcb")
    BY <1>1, <2>3, SameImage
  <2>5. tcb'[t].ipc = n
    <3>1. caps[c][At("TCB", Target(c))] = Thread(c)
      BY <1>1, BoundObjects DEF Target
    <3>2. tcb' = [tcb EXCEPT ![t].ipc = n]
      BY <2>1, <3>1
    <3>3. tcb \in [ObjNum("tcb") -> Tcb] /\ tcb[t] \in Tcb
      BY <2>4, WiredTypes
    <3> HIDE DEF t, n
    <3> QED
      BY <2>4, <3>2, <3>3 DEF Tcb
  <2>6. Complete(frames[v], memory, p, n)
    BY <1>1 DEF JobImage
  <2>7. Complete(frames'[NewSpace(c)'.n], memory', Program(c)', tcb'[Thread(c)'.n].ipc)
    BY <1>1, <2>4, <2>5, <2>6
  <2> QED
    BY <2>2, <2>4, <2>7 DEF JobImage, Toward
<1> QED
  BY <1>2, <1>3

\* An access right does not undo what was loaded, nor does any other step that comes
\* after the IPC buffer.
LEMMA RightsGoOn ==
    ASSUME Wired, NEW c \in CNode,
           \/ SetUpScheduling(c) \/ MintChannel(c) \/ MapShared(c) \/ SkipControl(c)
           \/ MintIrqBadge(c) \/ SetIrqTarget(c) \/ MoveIrqHandler(c) \/ UnknownRight(c)
    PROVE  job'[c].pc \in {"idle", "crashed", "right", "irqtarget", "irqmove"}
<1> DEFINE j == job[c]
<1>1. j \in Job /\ \A x : Step(c, x) => job'[c] = x
  BY StepAt
<1>2. CASE Fail(c) \/ Crash(c)
  BY <1>2, StepEnds
<1>3. CASE Step(c, NextRight(j))
  BY <1>1, <1>3, NextRightFollows
<1>4. CASE \E pc \in {"irqtarget", "irqmove"} : Goto(c, pc)
  BY <1>4, StepPc
<1>5. CASE SetUpScheduling(c) \/ SkipControl(c) \/ UnknownRight(c) \/ MoveIrqHandler(c)
  BY <1>2, <1>3, <1>5, Zenon DEF SetUpScheduling, SkipControl, UnknownRight, MoveIrqHandler
<1>6. CASE MintIrqBadge(c) \/ SetIrqTarget(c)
  BY <1>2, <1>4, <1>6 DEF MintIrqBadge, SetIrqTarget
<1>7. CASE MintChannel(c)
  <2>1. j.pc = "right" /\ (Crash(c) \/ Step(c, NextRight(j)) \/ Step(c, [j EXCEPT !.i = 1]))
    BY <1>7 DEF MintChannel, RightIs
  <2> QED
    BY <1>1, <1>2, <1>3, <2>1 DEF Job
<1>8. CASE MapShared(c)
  <2>1. Fail(c) \/ Step(c, [j EXCEPT !.pc = "right", !.i = @ + 1, !.shared = @ + 1])
    BY <1>8 DEF MapShared
  <2> QED
    BY <1>1, <1>2, <2>1 DEF Job
<1> QED
  BY <1>5, <1>6, <1>7, <1>8

LEMMA RightsKeepComplete ==
    ASSUME ProgramsApart, Wired, PagesOnce, NEW c \in CNode, JobImage(c), Active(c)',
           \/ SetUpScheduling(c) \/ MintChannel(c) \/ MapShared(c) \/ SkipControl(c) \/ SetUpRegion(c)
           \/ MintIrqBadge(c) \/ SetIrqTarget(c) \/ MoveIrqHandler(c)
    PROVE  /\ Program(c)' = Program(c) /\ Program(c) \in Programs
           /\ Complete(frames'[NewSpace(c)'.n], memory', Program(c), tcb'[Thread(c)'.n].ipc)
<1> DEFINE p == Program(c)
           v == NewSpace(c).n
           n == tcb[Thread(c).n].ipc
<1>1. /\ PdCreateStep(c) /\ Bound(c) /\ ~WriteHandle(c) /\ ~MapPage(c) /\ ~SetIpcBuffer(c)
      /\ job[c].pc \in {"right", "shared", "irqtarget", "irqmove"}
      /\ MapShared(c) => job[c].pc = "shared"
  BY Zenon DEF PdCreateStep, SetUpScheduling, MintChannel, MapShared, SkipControl, SetUpRegion, MintIrqBadge,
         SetIrqTarget, MoveIrqHandler, RightIs, WriteHandle, MapPage, SetIpcBuffer, Bound, Spaced, Building
<1>2. /\ Program(c)' = p /\ p \in Programs /\ NewSpace(c)' = NewSpace(c) /\ Thread(c)' = Thread(c)
      /\ v \in VSpace /\ Thread(c).n \in ObjNum("tcb")
  BY <1>1, SameImage
<1>3. Complete(frames[v], memory, p, n)
  BY <1>1 DEF JobImage, Toward
<1>4. tcb'[Thread(c).n].ipc = n
  BY <1>1, <1>2, IpcKept
<1>5. Untouched(c, v, p.ipc) /\ \A k \in 1 .. Len(p.pages) : Untouched(c, v, p.pages[k])
  BY <1>1 DEF Untouched, JobImage, Toward
<1> HIDE DEF p, v, n
<1>6. Complete(frames'[v], memory', p, n)
  BY <1>1, <1>2, <1>3, <1>5, CompleteKept
<1> QED
  BY <1>2, <1>4, <1>6 DEF p, v

LEMMA RightsImage ==
    ASSUME ProgramsApart, Wired, PagesOnce, NEW c \in CNode, JobImage(c),
           \/ SetUpScheduling(c) \/ MintChannel(c) \/ MapShared(c) \/ SkipControl(c)
           \/ MintIrqBadge(c) \/ SetIrqTarget(c) \/ MoveIrqHandler(c) \/ UnknownRight(c)
    PROVE  JobImage(c)'
<1>1. job'[c].pc \in {"idle", "crashed", "right", "irqtarget", "irqmove"} /\ PdCreateStep(c)
  BY RightsGoOn DEF PdCreateStep
<1>2. CASE job'[c].pc \in {"idle", "crashed"}
  BY <1>1, <1>2, EndsUnloaded, NoImageYet, SMTT(30)
<1>3. CASE job'[c].pc \in {"right", "irqtarget", "irqmove"}
  <2>1. Active(c)' /\ ~UnknownRight(c)
    BY <1>3, StepEnds DEF Active, UnknownRight
  <2> QED
    BY <1>3, <2>1, RightsKeepComplete DEF JobImage, Toward
<1> QED
  BY <1>1, <1>2, <1>3

\* The pages of a region are not those of the program.
LEMMA SetUpRegionImage ==
    ASSUME ProgramsApart, Wired, PagesOnce, NEW c \in CNode, JobImage(c), SetUpRegion(c)
    PROVE  JobImage(c)'
<1> DEFINE j == job[c]
           p == Program(c)
           r == Right(c)
           page == r.page + j.i
<1>1. /\ j \in Job /\ PdCreateStep(c) /\ Active(c) /\ j.pc = "right"
      /\ j.k <= Len(p.rights) /\ r.type = "memory" /\ r = p.rights[j.k]
  BY StepAt DEF PdCreateStep, SetUpRegion, RightIs, Active, Right
<1>2. CASE Step(c, NextRight(j))
  <2>1. job'[c].pc = "right"
    BY <1>1, <1>2, StepAt, NextRightFollows
  <2>2. Active(c)'
    BY <2>1 DEF Active
  <2> QED
    BY <2>1, <2>2, RightsKeepComplete DEF JobImage, Toward
<1>3. CASE j.i < r.pages /\ Step(c, Tables(j, page, FALSE, "shared"))
  <2>1. job'[c].pc = "tables" /\ job'[c].then = "shared" /\ job'[c].page = page
    <3> HIDE DEF page
    <3> QED
      BY <1>3, TablesFields, ZenonT(60)
  <2>2. Active(c)'
    BY <2>1 DEF Active
  <2>3. /\ Program(c)' = p /\ p \in Programs
        /\ Complete(frames'[NewSpace(c)'.n], memory', p, tcb'[Thread(c)'.n].ipc)
    BY <2>2, RightsKeepComplete
  <2>4. page # p.ipc /\ \A k \in 1 .. Len(p.pages) : page # p.pages[k]
    <3>1. j.k \in 1 .. Len(p.rights) /\ Len(p.rights) \in Nat
      <4>1. Len(p.rights) \in Nat /\ j.k \in Nat \ {0}
        BY <1>1, <2>3, ProgramAssumption DEF Job
      <4> QED
        BY <1>1, <4>1
    <3>2. j.i \in 0 .. r.pages - 1
      <4>1. r.pages \in Nat /\ j.i \in Nat
        BY <1>1, <2>3, <3>1, ProgramAssumption, SMTT(60) DEF Job
      <4> QED
        BY <1>3, <4>1
    <3> QED
      BY <1>1, <2>3, <3>1, <3>2 DEF ProgramsApart
  <2> QED
    BY <2>1, <2>3, <2>4 DEF JobImage, Toward
<1> QED
  BY <1>2, <1>3 DEF SetUpRegion

LEMMA OwnImageKept ==
    ASSUME ProgramsApart, Wired, PagesOnce, FreshBlank, NEW c \in CNode, JobImage(c), PdCreateStep(c)
    PROVE  JobImage(c)'
<1>1. CASE MovePoolCap(c) \/ AllocateObjects(c) \/ AssignAsid(c) \/ CopyFixedCap(c) \/ SetSpace(c)
  <2> DEFINE j == job[c]
  <2>1. j \in Job /\ \A x : Step(c, x) => job'[c] = x
    BY StepAt
  <2>2. job'[c].pc \in {"idle", "move", "allocate", "asid", "fixed", "space", "bind"}
    <3>1. CASE Fail(c)
      BY <3>1, StepEnds
    <3>2. CASE MovePoolCap(c)
      <4>1. /\ j.pc = "move"
            /\ \/ Fail(c) \/ Step(c, [j EXCEPT !.i = @ + 1]) \/ Step(c, [j EXCEPT !.i = 0, !.k = @ + 1])
               \/ Step(c, [j EXCEPT !.pc = "allocate"])
        BY <3>2, Zenon DEF MovePoolCap
      <4> QED
        BY <2>1, <3>1, <4>1 DEF Job
    <3>3. CASE AllocateObjects(c)
      <4>1. \/ Fail(c)
            \/ \E t, n, s, v : Step(c, [j EXCEPT !.pc = "asid", !.tcb = t, !.ntfn = n, !.sc = s, !.vspace = v])
        BY <3>3, Zenon DEF AllocateObjects
      <4> QED
        BY <2>1, <3>1, <4>1, Zenon DEF Job
    <3>4. CASE AssignAsid(c) \/ CopyFixedCap(c)
      <4>1. \/ Fail(c) \/ Step(c, [j EXCEPT !.pc = "fixed", !.k = 1])
            \/ j.pc = "fixed" /\ Step(c, [j EXCEPT !.k = @ + 1])
            \/ Goto(c, "space")
        BY <3>4 DEF AssignAsid, CopyFixedCap
      <4> QED
        BY <2>1, <3>1, <4>1, StepPc DEF Job
    <3>5. CASE SetSpace(c)
      <4>1. Fail(c) \/ Goto(c, "bind")
        BY <3>5, Zenon DEF SetSpace
      <4> QED
        BY <3>1, <4>1, StepPc
    <3> QED
      BY <1>1, <3>2, <3>3, <3>4, <3>5
  <2>3. ~Loading(c)'
    BY <2>2 DEF Loading, Toward
  <2> QED
    BY <2>3, NoImageYet
<1>2. CASE Restart(c)
  <2>1. job'[c].pc = "idle"
    BY <1>2, RestartStarts
  <2>2. ~Loading(c)'
    BY <2>1, EndsUnloaded
  <2> QED
    BY <2>2, NoImageYet
<1>3. CASE BindNotification(c) \/ NextPage(c) \/ MapTable(c)
  BY <1>3, BindNotificationImage, NextPageImage, MapTableImage
<1>4. CASE MapPage(c) \/ WriteHandle(c) \/ SetIpcBuffer(c)
  BY <1>4, MapPageImage, WriteHandleImage, SetIpcBufferImage
<1>5. CASE SetUpRegion(c)
  BY <1>5, SetUpRegionImage
<1>6. CASE \/ SetUpScheduling(c) \/ MintChannel(c) \/ MapShared(c) \/ SkipControl(c)
           \/ MintIrqBadge(c) \/ SetIrqTarget(c) \/ MoveIrqHandler(c) \/ UnknownRight(c)
  BY <1>6, RightsImage
<1> QED
  BY <1>1, <1>2, <1>3, <1>4, <1>5, <1>6, Zenon DEF PdCreateStep

----------------------------------------------------------------------------
(* From boot on *)

LEMMA EnterImage ==
    ASSUME Imaged, NEW c \in CNode, NEW p \in Programs, NEW id \in PdId, Enter(c, p, id)
    PROVE  /\ SharedOnly' /\ PagesOnce' /\ FreshBlank'
           /\ \A d \in CNode : JobImage(d)' /\ LiveImage(d)'
<1>1. /\ Wired /\ Kept(c) /\ CapsStep(c) /\ OnlyJobOf(c)
      /\ UNCHANGED <<caps, tcb, image, frames, memory>>
  <2>1. Wired
    BY DEF Imaged
  <2> QED
    BY <2>1, EnterFrame, Zenon DEF Enter, space
<1>2. SharedOnly'
  BY <1>1 DEF Imaged, SharedOnly, Full
<1>3. ASSUME NEW n, Offers(n)' PROVE Offers(n)
  BY <1>1, <1>3, OffersKept
<1>4. PagesOnce'
  <2> SUFFICES ASSUME NEW v \in VSpace, NEW u \in VSpace, NEW q \in Page \ {TempPage},
                      NEW r \in Page \ {TempPage}
               PROVE  /\ frames'[v][q].kind = "page" =>
                            frames'[v][q].n \in ObjNum("page") /\ \A n : n = frames'[v][q].n => ~Offers(n)'
                      /\ frames'[v][q].kind = "page" /\ SameObject(frames'[v][q], frames'[u][r]) =>
                            v = u /\ q = r
    BY DEF PagesOnce, SameObject
  <2>1. frames' = frames /\ PagesOnce
    BY <1>1 DEF Imaged
  <2> QED
    BY <1>3, <2>1 DEF PagesOnce
<1>5. FreshBlank'
  <2> SUFFICES ASSUME NEW n \in ObjNum("page"), Offers(n)' PROVE memory'[n] = NoContent
    BY DEF FreshBlank, ObjNum, PoolSize
  <2> QED
    BY <1>1, <1>3 DEF Imaged, FreshBlank
<1>6. ASSUME NEW d \in CNode PROVE LiveImage(d)'
  BY <1>1 DEF Imaged, LiveImage, Loaded, Complete
<1>7. ASSUME NEW d \in CNode \ {c} PROVE JobImage(d)'
  <2>1. job'[d] = job[d] /\ alloc'[d] = alloc[d] /\ JobImage(d)
    BY <1>1 DEF Kept, Imaged
  <2>2. /\ Program(d)' = Program(d) /\ NewSpace(d)' = NewSpace(d) /\ Thread(d)' = Thread(d)
        /\ LastPage(d)' = LastPage(d) /\ Active(d)' = Active(d) /\ \A pc : Toward(d, pc)' = Toward(d, pc)
    BY <1>1, <2>1 DEF Program, NewSpace, Thread, LastPage, Active, Toward
  <2> QED
    BY <1>1, <2>1, <2>2 DEF JobImage
<1>8. JobImage(c)'
  <2>1. CASE Fail(c)
    <3>1. job'[c].pc = "idle"
      BY <1>1, <2>1, StepEnds
    <3> QED
      BY <3>1 DEF JobImage, Active, Toward
  <2>2. CASE ~Fail(c)
    <3> DEFINE new == [NoJob EXCEPT !.pc = IF HasControl(p) THEN "move" ELSE "allocate",
                         !.program = p, !.id = id, !.cnode = alloc[c]["cnode"]]
    <3>1. Step(c, new)
      BY <2>2 DEF Enter
    <3>2. job'[c] = new
      BY <1>1, <3>1, StepAt
    <3>3. job'[c].pc \in {"move", "allocate"} /\ job'[c].program = p
      BY <3>2 DEF NoJob
    <3> QED
      BY <3>3 DEF JobImage, Active, Toward, Program
  <2> QED
    BY <2>1, <2>2
<1> QED
  BY <1>2, <1>4, <1>5, <1>6, <1>7, <1>8

\* The steps of sel4cp_internal_pd_load_elf keep what was loaded, and so do all
\* others.
LEMMA NextKeepsImaged == ASSUME ProgramsApart PROVE Imaged /\ [Next]_vars => Imaged'
<1> SUFFICES ASSUME Imaged, [Next]_vars PROVE Imaged'
  OBVIOUS
<1>1. Wired /\ Wired'
  BY NextKeepsWired DEF Imaged
<1>2. ASSUME NEW c \in CNode, PdCreateStep(c) PROVE Imaged'
  <2>1. SharedOnly /\ PagesOnce /\ FreshBlank /\ \A d \in CNode : JobImage(d) /\ LiveImage(d)
    BY DEF Imaged
  <2>2. SharedOnly' /\ PagesOnce' /\ FreshBlank'
    BY <1>1, <1>2, <2>1, SharedOnlyKept, PagesOnceKept, FreshBlankKept
  <2>3. \A d \in CNode : LiveImage(d)'
    BY <1>1, <1>2, <2>1, LiveImageKept
  <2>4. JobImage(c)'
    BY <1>1, <1>2, <2>1, OwnImageKept
  <2>5. \A d \in CNode \ {c} : JobImage(d)'
    BY <1>1, <1>2, <2>1, OtherImageKept
  <2> QED
    BY <1>1, <2>2, <2>3, <2>4, <2>5 DEF Imaged
<1>3. ASSUME NEW c \in CNode, NEW p \in Programs, NEW id \in PdId, Enter(c, p, id) PROVE Imaged'
  BY <1>1, <1>3, EnterImage DEF Imaged
<1>4. CASE UNCHANGED vars
  <2>1. SharedOnly' /\ FreshBlank'
    BY <1>4 DEF Imaged, vars, SharedOnly, FreshBlank, Full, Offers
  <2>2. PagesOnce'
    <3>1. \A n : Offers(n)' = Offers(n)
      BY <1>4 DEF vars, Offers, Full
    <3>2. frames' = frames /\ PagesOnce
      BY <1>4 DEF Imaged, vars
    <3> QED
      BY <1>4, <3>2 DEF vars, PagesOnce, Offers, Full
  <2>3. ASSUME NEW d \in CNode PROVE JobImage(d)' /\ LiveImage(d)'
    <3>1. LiveImage(d)'
      BY <1>4 DEF Imaged, vars, LiveImage, Loaded, Complete
    <3>2. /\ Program(d)' = Program(d) /\ NewSpace(d)' = NewSpace(d) /\ Thread(d)' = Thread(d)
          /\ LastPage(d)' = LastPage(d) /\ Active(d)' = Active(d) /\ \A pc : Toward(d, pc)' = Toward(d, pc)
      BY <1>4, SMTT(30) DEF vars, Program, NewSpace, Thread, LastPage, Active, Toward
    <3>3. JobImage(d)'
      BY <1>4, <3>2 DEF Imaged, vars, JobImage
    <3> QED
      BY <3>1, <3>3
  <2> QED
    BY <1>1, <2>1, <2>2, <2>3 DEF Imaged
<1> QED
  BY <1>2, <1>3, <1>4 DEF Next

LEMMA InitImaged == Init => Imaged
<1> SUFFICES ASSUME Init PROVE Imaged
  OBVIOUS
<1>1. Wired /\ FreshBlank
  BY InitWired DEF FreshBlank, Init
<1>2. SharedOnly
  <2> SUFFICES ASSUME NEW c \in CNode, NEW i \in SharedIdx, Full(caps[c][At("SHARED", i)])
               PROVE  caps[c][At("SHARED", i)].kind = "shared"
    BY DEF SharedOnly
  <2> DEFINE s == At("SHARED", i)
  <2>1. s \in Slot /\ s[1] = "SHARED"
    BY SharedSlots, AreaOf
  <2>2. ~Full(NullCap)
    BY DEF Full, NullCap, MkCap
  <2>3. /\ s[1] \notin PoolKind /\ s[1] \notin PdArea
        /\ s \notin {InputSlot, At("CHAN", RootId)} /\ s # FaultSlot /\ s # AsidSlot /\ s # ControlSlot
        /\ s # At("IRQ", RootImage.irq)
    BY DEF At, InputSlot, FaultSlot, AsidSlot, ControlSlot, PoolKind, PdArea
  <2> HIDE DEF s
  <2>4. StaticCap(s) = NullCap
    BY <2>3 DEF StaticCap
  <2>5. RootCap(s) = NullCap \/ RootCap(s) = MkCap("shared", s[2])
    BY <2>1, <2>3 DEF RootCap, PdArea
  <2>6. caps[c][s] \in {RootCap(s), StaticCap(s), NullCap}
    BY <2>1, BootCaps DEF Given
  <2> QED
    BY <2>2, <2>4, <2>5, <2>6 DEF MkCap, s
<1>3. PagesOnce
  <2>1. \A v \in VSpace, p \in Page : frames[v][p] = NoFrame
    BY DEF Init
  <2> QED
    BY <2>1 DEF PagesOnce, NoFrame
<1>4. ASSUME NEW c \in CNode PROVE JobImage(c) /\ LiveImage(c)
  <2>1. job[c].pc = "idle"
    BY BootNotified
  <2>2. c \notin Loaded
    <3>1. c \notin Given => image[c] = NoImage
      BY DEF Init, Given
    <3> QED
      BY <3>1 DEF Loaded, Given
  <2> QED
    BY <2>1, <2>2 DEF JobImage, LiveImage, Active, Toward
<1> QED
  BY <1>1, <1>2, <1>3, <1>4 DEF Imaged

\* A loaded PD runs in the memory of the file that was sent for it: the frames that
\* the calls take from pools which they share, map at its pages and fill through a
\* window in their own VSpace (sel4cp.h:562-651, 755-850) hold the pages of that file
\* and no other, whatever regions its access rights map next to them and whatever
\* other calls load or leave half done. It takes a program whose segments, IPC buffer
\* and regions lie on pages of their own.
THEOREM LoadedHoldsImage ==
    ASSUME ProgramsApart PROVE Spec => []LoadedImage
<1>1. Imaged => LoadedImage
  <2> SUFFICES ASSUME Imaged, NEW c \in Loaded, NEW t, t = tcb[image[c].tcb]
               PROVE  LET p == image[c].program
                          FrameAt(page) == frames[t.vspace][page]
                      IN  /\ \A k \in 1 .. Len(p.pages) :
                                /\ FrameAt(p.pages[k]).kind = "page"
                                /\ memory[FrameAt(p.pages[k]).n] = [program |-> p.name, k |-> k]
                          /\ FrameAt(p.ipc).kind = "page" /\ FrameAt(p.ipc).n = t.ipc
                          /\ memory[t.ipc] = NoContent
    BY Zenon DEF LoadedImage
  <2>1. Complete(frames[t.vspace], memory, image[c].program, t.ipc)
    BY DEF Imaged, LiveImage, Loaded
  <2> QED
    BY <2>1, Zenon DEF Complete, Written, Buffer
<1>2. Imaged /\ [Next]_vars => Imaged'
  BY NextKeepsImaged
<1> QED
  BY <1>1, <1>2, InitImaged, PTL DEF Spec
=============================================================================

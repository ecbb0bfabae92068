------------------------------ MODULE CapSpace ------------------------------
(* The CSpace of a protection domain as sel4cp.h:34-72 lays it out, and the  *)
(* kernel's capability invocations on it that sel4cp.h uses. A slot is named *)
(* by the area of the layout that it belongs to and its index in that area   *)
(* (SlotLayout checks that the areas do not overlap).                        *)
EXTENDS Integers

CONSTANTS
    PdTargets,    \* POOL_NUM_PD_TARGETS
    ChildTargets, \* POOL_NUM_PD_TARGETS_CHILD
    PerPd,        \* pool kind -> objects reserved for one loaded PD
    PdId,         \* ids of protection domains
    ChannelId,    \* ids of channels and of interrupts
    SharedIdx,    \* indices of shared memory region pages
    FanOut,       \* entries of a paging structure (512)
    Page          \* page numbers of a VSpace

PoolKind == {"tcb", "ntfn", "cnode", "sc", "vspace", "pud", "pd", "pt", "page"}

ASSUME CapSpaceAssumption ==
    /\ PdTargets \in Nat \ {0} /\ ChildTargets \in 1 .. PdTargets
    /\ PerPd \in [PoolKind -> Nat \ {0}]
    /\ PdId \subseteq Nat /\ ChannelId \subseteq Nat
    /\ SharedIdx \subseteq Nat /\ Page \subseteq Nat
    /\ FanOut \in Nat \ {0}

\* POOL_NUM_TCBS and its like; the same constants in every program, so also in
\* a loaded loader that was given only ChildShare of each kind.
PoolSize(k)   == PdTargets * PerPd[k]
ChildShare(k) == ChildTargets * PerPd[k]

----------------------------------------------------------------------------
(* Slots *)

PdArea      == {"TCB", "SC", "CHAN", "CNODE", "VSPACE"}
ChannelArea == {"OUT", "IRQ"}
FixedArea   == {"INPUT", "FAULT_EP", "ASID_POOL", "SCHED_CONTROL", "TEMP"}

PoolSlot == UNION {{k} \X (0 .. PoolSize(k) - 1) : k \in PoolKind}
Slot     == UNION {PoolSlot,
                   PdArea \X PdId,
                   ChannelArea \X ChannelId,
                   {"SHARED"} \X SharedIdx,
                   FixedArea \X {0}}

At(area, i)   == <<area, i>>
InputSlot     == At("INPUT", 0)
FaultSlot     == At("FAULT_EP", 0)
AsidSlot      == At("ASID_POOL", 0)
ControlSlot   == At("SCHED_CONTROL", 0)
TempSlot      == At("TEMP", 0)

----------------------------------------------------------------------------
(* Capabilities: object n of a kind. Object 0 belongs to the statically      *)
(* configured loader, i+1 comes from slot i of its pool, the one after those *)
(* belongs to the other static PD (pong). CNode n is the CSpace of a PD.     *)

StaticNum(k) == PoolSize(k) + 1
ObjNum(k)    == 0 .. PoolSize(k) + 1
CNode        == ObjNum("cnode")
VSpace       == ObjNum("vspace")

OtherKind == {"null", "ep", "fault", "asid", "control", "irq", "shared"}

Unmapped == [vs |-> -1, page |-> -1]
Place    == [vs : Nat, page : Page] \cup {Unmapped}

\* badge: the bits that a signal through the capability sets in the notification
\* word; at: where the frame that the capability designates is mapped through it;
\* w: whether it may be mapped writable.
Badges == SUBSET (0 .. 63)
Cap    == [kind : PoolKind \cup OtherKind, n : Nat, badge : Badges, at : Place, w : BOOLEAN]

MkCap(k, n) == [kind |-> k, n |-> n, badge |-> {}, at |-> Unmapped, w |-> TRUE]
NullCap     == MkCap("null", 0)

SameObject(a, b) == a.kind = b.kind /\ a.n = b.n

----------------------------------------------------------------------------
(* Invocations, on the capabilities cs of all CSpaces. droot and sroot are   *)
(* the CNode capabilities through which the two slots are named.             *)

\* seL4_CNode_Copy, _Mint and _Move need a full source and an empty target.
CanTransfer(cs, droot, ds, sroot, ss) ==
    /\ droot.kind = "cnode" /\ sroot.kind = "cnode"
    /\ cs[droot.n][ds].kind = "null"
    /\ cs[sroot.n][ss].kind # "null"

\* A minted capability to a frame is not mapped, wherever its source is.
MintTo(cs, droot, ds, sroot, ss, badge) ==
    [cs EXCEPT ![droot.n][ds] =
        [cs[sroot.n][ss] EXCEPT !.at = Unmapped, !.badge = badge]]

CopyTo(cs, droot, ds, sroot, ss) ==
    MintTo(cs, droot, ds, sroot, ss, cs[sroot.n][ss].badge)

\* A moved capability keeps its state and leaves its slot.
MoveTo(cs, droot, ds, sroot, ss) ==
    [[cs EXCEPT ![droot.n][ds] = cs[sroot.n][ss]] EXCEPT ![sroot.n][ss] = NullCap]

\* The number of the paging structure of kind k that page p lies under
\* (sel4cp_internal_mask_bits of its address).
Region(k, p) ==
    CASE k = "pt"  -> p \div FanOut
      [] k = "pd"  -> p \div (FanOut * FanOut)
      [] k = "pud" -> p \div (FanOut * FanOut * FanOut)

\* seL4_ARM_Page_Map of frame capability f into the VSpace of capability v: a
\* frame that is mapped stays where it is, and the page table must be there.
CanMapPage(f, v, p, asids, tables) ==
    /\ f.kind \in {"page", "shared"}
    /\ v.kind = "vspace" /\ v.n \in asids
    /\ f.at # Unmapped => f.at = [vs |-> v.n, page |-> p]
    /\ <<v.n, "pt", Region("pt", p)>> \in tables
=============================================================================

----------------------------- MODULE SlotLayout -----------------------------
(* The number of every slot of CapSpace, and of those that pd_create does    *)
(* not touch: the constants of sel4cp.h:34-72.                               *)
(* CapSpace names a slot by its area and an index; this module says that the *)
(* code, which only adds an index to the base of an area, means the same.    *)
EXTENDS CapSpace

CONSTANT PD_CAP_BITS  \* the size of a PD's CSpace (11)

\* Ids of PDs and channels stay below the 64 slots that an area has for them.
ASSUME IdAssumption == PdId \subseteq 0 .. 63 /\ ChannelId \subseteq 0 .. 63

\* The output endpoints, through which a PD makes protected calls, and the reply
\* capability are slots too, although none is given to a loaded PD.
IdArea     == ChannelArea \cup {"OUT_EP"}
SingleArea == FixedArea \cup {"REPLY"}
LayoutSlot == UNION {Slot, IdArea \X ChannelId, SingleArea \X {0}}

BASE_OUTPUT_NOTIFICATION_CAP == 10
BASE_OUTPUT_ENDPOINT_CAP     == BASE_OUTPUT_NOTIFICATION_CAP + 64
BASE_IRQ_CAP                 == BASE_OUTPUT_ENDPOINT_CAP + 64
BASE_TCB_CAP                 == BASE_IRQ_CAP + 64
BASE_SCHED_CONTEXT_CAP       == BASE_TCB_CAP + 64
BASE_UNBADGED_CHANNEL_CAP    == BASE_SCHED_CONTEXT_CAP + 64
BASE_CNODE_CAP               == BASE_UNBADGED_CHANNEL_CAP + 64
BASE_VSPACE_CAP              == BASE_CNODE_CAP + 64

\* The pools follow one another, each as long as its kind needs.
BASE_TCB_POOL                  == BASE_VSPACE_CAP + 64
BASE_NOTIFICATION_POOL         == BASE_TCB_POOL + PoolSize("tcb")
BASE_CNODE_POOL                == BASE_NOTIFICATION_POOL + PoolSize("ntfn")
BASE_SCHEDCONTEXT_POOL         == BASE_CNODE_POOL + PoolSize("cnode")
BASE_VSPACE_POOL               == BASE_SCHEDCONTEXT_POOL + PoolSize("sc")
BASE_PAGE_UPPER_DIRECTORY_POOL == BASE_VSPACE_POOL + PoolSize("vspace")
BadPageDirectoryPool           == BASE_PAGE_UPPER_DIRECTORY_POOL + PdTargets
BASE_PAGE_DIRECTORY_POOL       == BASE_PAGE_UPPER_DIRECTORY_POOL + PoolSize("pud")
BASE_PAGE_TABLE_POOL           == BASE_PAGE_DIRECTORY_POOL + PoolSize("pd")
BASE_PAGE_POOL                 == BASE_PAGE_TABLE_POOL + PoolSize("pt")
BadSharedPages                 == 2^PD_CAP_BITS
BASE_SHARED_MEMORY_REGION_PAGES == BASE_PAGE_POOL + PoolSize("page")

Base(area) ==
    CASE area = "INPUT"         -> 1
      [] area = "FAULT_EP"      -> 2
      [] area = "REPLY"         -> 4
      [] area = "ASID_POOL"     -> 5
      [] area = "SCHED_CONTROL" -> 6
      [] area = "TEMP"          -> 8
      [] area = "OUT"           -> BASE_OUTPUT_NOTIFICATION_CAP
      [] area = "OUT_EP"        -> BASE_OUTPUT_ENDPOINT_CAP
      [] area = "IRQ"           -> BASE_IRQ_CAP
      [] area = "TCB"           -> BASE_TCB_CAP
      [] area = "SC"            -> BASE_SCHED_CONTEXT_CAP
      [] area = "CHAN"          -> BASE_UNBADGED_CHANNEL_CAP
      [] area = "CNODE"         -> BASE_CNODE_CAP
      [] area = "VSPACE"        -> BASE_VSPACE_CAP
      [] area = "tcb"           -> BASE_TCB_POOL
      [] area = "ntfn"          -> BASE_NOTIFICATION_POOL
      [] area = "cnode"         -> BASE_CNODE_POOL
      [] area = "sc"            -> BASE_SCHEDCONTEXT_POOL
      [] area = "vspace"        -> BASE_VSPACE_POOL
      [] area = "pud"           -> BASE_PAGE_UPPER_DIRECTORY_POOL
      [] area = "pd"            -> BASE_PAGE_DIRECTORY_POOL
      [] area = "pt"            -> BASE_PAGE_TABLE_POOL
      [] area = "page"          -> BASE_PAGE_POOL
      [] area = "SHARED"        -> BASE_SHARED_MEMORY_REGION_PAGES

\* The number that the code computes for a slot.
Number(s) == Base(s[1]) + s[2]

\* Two slots that the code names differently are different slots.
Distinct(s, t) == Number(s) = Number(t) => s = t

\* Every slot lies inside the CSpace of a PD.
Fits(s) == Number(s) < 2^PD_CAP_BITS
=============================================================================

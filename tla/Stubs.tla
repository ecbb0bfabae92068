------------------------------- MODULE Stubs -------------------------------
(***************************************************************************)
(* The invocation stubs of interfaces/sel4_client.h: what each of them     *)
(* puts into the message that it sends to the kernel, and what it takes    *)
(* out of the answer.  A stub is a record                                  *)
(*                                                                         *)
(*   when       the configurations it is compiled in                       *)
(*   label      its invocation label, by name                              *)
(*   extraCaps, length   as it declares them in its message info           *)
(*   params     its parameters after _service, with their widths in bits   *)
(*   caps       the parameters it puts into the capability slots           *)
(*   words      its message registers, each a set of placed parameters     *)
(*   results    the fields it takes from the answer, in order              *)
(*                                                                         *)
(* A word is the set of the pieces of its bits that a parameter fills.     *)
(***************************************************************************)
EXTENDS Integers, Sequences, FiniteSets, TLC

WordBits == 64

\* The types of parameters, as the number of bits that the kernel is to get.  A seL4_Bool
\* is a byte of which one bit counts.
Word == WordBits
CPtr == WordBits
Uint16 == 16
Uint8 == 8
Bool == 1
NoParams == << >>

\* A parameter of `width' bits at bit `at' of its word.
Bits(arg, width, at) == {[arg |-> arg, width |-> width, at |-> at]}
Low(arg, width) == Bits(arg, width, 0)
W(arg) == Low(arg, WordBits)

Stub(when, label, extraCaps, length, params, caps, words, results) ==
    [when |-> when, label |-> label, extraCaps |-> extraCaps, length |-> length,
     params |-> params, caps |-> caps, words |-> words, results |-> results]

Bare(when, label) == Stub(when, label, 0, 0, NoParams, <<>>, <<>>, <<>>)

\* The registers of a thread, in the order of the structure.
UserContext ==
    <<"pc", "sp", "spsr", "x0", "x1", "x2", "x3", "x4", "x5", "x6", "x7", "x8", "x16", "x17",
      "x18", "x29", "x30", "x9", "x10", "x11", "x12", "x13", "x14", "x15", "x19", "x20", "x21",
      "x22", "x23", "x24", "x25", "x26", "x27", "x28", "tpidr_el0", "tpidrro_el0">>

(***************************************************************************)
(* The labels.  The three enumerations follow each other; a label's number *)
(* depends on the labels that the configuration compiles before it.  A     *)
(* configuration is the set of the conditions that hold in it:             *)
(*   mcs, classic   CONFIG_KERNEL_MCS or not                               *)
(*   smp            CONFIG_MAX_NUM_NODES > 1   (classicSmp: and classic)    *)
(*   hyp, smmu, tk1, debugApi   the options of these names                 *)
(*   upper          not a hypervisor with 40 bit physical addresses        *)
(***************************************************************************)
When(condition, labels) == [k \in DOMAIN labels |-> [label |-> labels[k], when |-> condition]]

invocation_label ==
    When("always", <<"InvalidInvocation", "UntypedRetype", "TCBReadRegisters",
           "TCBWriteRegisters", "TCBCopyRegisters">>)
    \o When("classic", <<"TCBConfigure">>)
    \o When("mcs", <<"TCBConfigure">>)
    \o When("always", <<"TCBSetPriority", "TCBSetMCPriority">>)
    \o When("classic", <<"TCBSetSchedParams">>)
    \o When("mcs", <<"TCBSetSchedParams", "TCBSetTimeoutEndpoint">>)
    \o When("always", <<"TCBSetIPCBuffer">>)
    \o When("classic", <<"TCBSetSpace">>)
    \o When("mcs", <<"TCBSetSpace">>)
    \o When("always", <<"TCBSuspend", "TCBResume", "TCBBindNotification",
           "TCBUnbindNotification">>)
    \o When("classicSmp", <<"TCBSetAffinity">>)
    \o When("debugApi", <<"TCBSetBreakpoint", "TCBGetBreakpoint", "TCBUnsetBreakpoint",
           "TCBConfigureSingleStepping">>)
    \o When("always", <<"TCBSetTLSBase", "CNodeRevoke", "CNodeDelete", "CNodeCancelBadgedSends",
           "CNodeCopy", "CNodeMint", "CNodeMove", "CNodeMutate", "CNodeRotate">>)
    \o When("classic", <<"CNodeSaveCaller">>)
    \o When("always", <<"IRQIssueIRQHandler", "IRQAckIRQ", "IRQSetIRQHandler",
           "IRQClearIRQHandler", "DomainSetSet">>)
    \o When("mcs", <<"SchedControlConfigureFlags", "SchedContextBind", "SchedContextUnbind",
           "SchedContextUnbindObject", "SchedContextConsumed", "SchedContextYieldTo">>)

sel4_arch_invocation_label ==
    When("always", <<"ARMVSpaceClean_Data", "ARMVSpaceInvalidate_Data",
           "ARMVSpaceCleanInvalidate_Data", "ARMVSpaceUnify_Instruction">>)
    \o When("upper", <<"ARMPageUpperDirectoryMap", "ARMPageUpperDirectoryUnmap">>)
    \o When("always", <<"ARMPageDirectoryMap", "ARMPageDirectoryUnmap">>)

arch_invocation_label ==
    When("always", <<"ARMPageTableMap", "ARMPageTableUnmap">>)
    \o When("tk1", <<"ARMIOPageTableMap", "ARMIOPageTableUnmap">>)
    \o When("always", <<"ARMPageMap", "ARMPageUnmap">>)
    \o When("tk1", <<"ARMPageMapIO">>)
    \o When("always", <<"ARMPageClean_Data", "ARMPageInvalidate_Data",
           "ARMPageCleanInvalidate_Data", "ARMPageUnify_Instruction", "ARMPageGetAddress",
           "ARMASIDControlMakePool", "ARMASIDPoolAssign">>)
    \o When("hyp", <<"ARMVCPUSetTCB", "ARMVCPUInjectIRQ", "ARMVCPUReadReg", "ARMVCPUWriteReg",
           "ARMVCPUAckVPPI">>)
    \o When("always", <<"ARMIRQIssueIRQHandlerTrigger">>)
    \o When("smp", <<"ARMIRQIssueIRQHandlerTriggerCore">>)
    \o When("smmu", <<"ARMSIDIssueSIDManager", "ARMSIDGetFault", "ARMSIDClearFault",
           "ARMSIDBindCB", "ARMSIDUnbindCB", "ARMCBIssueCBManager", "ARMCBTLBInvalidateAll",
           "ARMCBAssignVspace", "ARMCBUnassignVspace", "ARMCBTLBInvalidate", "ARMCBGetFault",
           "ARMCBClearFault">>)


(***************************************************************************)
(* The stubs, in the order of the header.                                  *)
(***************************************************************************)
ARM_VSpace_Clean_Data == Stub("always", "ARMVSpaceClean_Data", 0, 2,
    [start |-> Word, end |-> Word], <<>>, <<W("start"), W("end")>>, <<>>)
ARM_VSpace_Invalidate_Data == Stub("always", "ARMVSpaceInvalidate_Data", 0, 2,
    [start |-> Word, end |-> Word], <<>>, <<W("start"), W("end")>>, <<>>)
ARM_VSpace_CleanInvalidate_Data == Stub("always", "ARMVSpaceCleanInvalidate_Data", 0, 2,
    [start |-> Word, end |-> Word], <<>>, <<W("start"), W("end")>>, <<>>)
ARM_VSpace_Unify_Instruction == Stub("always", "ARMVSpaceUnify_Instruction", 0, 2,
    [start |-> Word, end |-> Word], <<>>, <<W("start"), W("end")>>, <<>>)
ARM_PageUpperDirectory_Map == Stub("upper", "ARMPageUpperDirectoryMap", 1, 2,
    [vspace |-> CPtr, vaddr |-> Word, attr |-> Word], <<"vspace">>, <<W("vaddr"), W("attr")>>, <<>>)
ARM_PageUpperDirectory_Unmap == Bare("upper", "ARMPageUpperDirectoryUnmap")
ARM_PageDirectory_Map == Stub("always", "ARMPageDirectoryMap", 1, 2,
    [vspace |-> CPtr, vaddr |-> Word, attr |-> Word], <<"vspace">>, <<W("vaddr"), W("attr")>>, <<>>)
ARM_PageDirectory_Unmap == Bare("always", "ARMPageDirectoryUnmap")
ARM_PageTable_Map == Stub("always", "ARMPageTableMap", 1, 2,
    [vspace |-> CPtr, vaddr |-> Word, attr |-> Word], <<"vspace">>, <<W("vaddr"), W("attr")>>, <<>>)
ARM_PageTable_Unmap == Bare("always", "ARMPageTableUnmap")
ARM_IOPageTable_Map == Stub("tk1", "ARMIOPageTableMap", 1, 1,
    [iospace |-> CPtr, ioaddr |-> Word], <<"iospace">>, <<W("ioaddr")>>, <<>>)
ARM_IOPageTable_Unmap == Bare("tk1", "ARMIOPageTableUnmap")
ARM_Page_Map == Stub("always", "ARMPageMap", 1, 3,
    [vspace |-> CPtr, vaddr |-> Word, rights |-> Word, attr |-> Word],
    <<"vspace">>, <<W("vaddr"), W("rights"), W("attr")>>, <<>>)
ARM_Page_Unmap == Bare("always", "ARMPageUnmap")
ARM_Page_MapIO == Stub("tk1", "ARMPageMapIO", 1, 2,
    [iospace |-> CPtr, rights |-> Word, ioaddr |-> Word],
    <<"iospace">>, <<W("rights"), W("ioaddr")>>, <<>>)
ARM_Page_Clean_Data == Stub("always", "ARMPageClean_Data", 0, 2,
    [start_offset |-> Word, end_offset |-> Word],
    <<>>, <<W("start_offset"), W("end_offset")>>, <<>>)
ARM_Page_Invalidate_Data == Stub("always", "ARMPageInvalidate_Data", 0, 2,
    [start_offset |-> Word, end_offset |-> Word],
    <<>>, <<W("start_offset"), W("end_offset")>>, <<>>)
ARM_Page_CleanInvalidate_Data == Stub("always", "ARMPageCleanInvalidate_Data", 0, 2,
    [start_offset |-> Word, end_offset |-> Word],
    <<>>, <<W("start_offset"), W("end_offset")>>, <<>>)
ARM_Page_Unify_Instruction == Stub("always", "ARMPageUnify_Instruction", 0, 2,
    [start_offset |-> Word, end_offset |-> Word],
    <<>>, <<W("start_offset"), W("end_offset")>>, <<>>)
ARM_Page_GetAddress == Stub("always", "ARMPageGetAddress", 0, 0, NoParams, <<>>, <<>>, <<"paddr">>)
ARM_ASIDControl_MakePool == Stub("always", "ARMASIDControlMakePool", 2, 2,
    [untyped |-> CPtr, root |-> CPtr, index |-> Word, depth |-> Uint8],
    <<"untyped", "root">>, <<W("index"), Low("depth", 8)>>, <<>>)
ARM_ASIDPool_Assign == Stub("always", "ARMASIDPoolAssign", 1, 0,
    [vspace |-> CPtr], <<"vspace">>, <<>>, <<>>)
ARM_VCPU_SetTCB == Stub("hyp", "ARMVCPUSetTCB", 1, 0, [tcb |-> CPtr], <<"tcb">>, <<>>, <<>>)
ARM_VCPU_InjectIRQ == Stub("hyp", "ARMVCPUInjectIRQ", 0, 1,
    [virq |-> Uint16, priority |-> Uint8, group |-> Uint8, index |-> Uint8],
    <<>>, <<Bits("virq", 16, 0) \cup Bits("priority", 8, 16)
        \cup Bits("group", 8, 24) \cup Bits("index", 8, 32)>>, <<>>)
ARM_VCPU_ReadRegs == Stub("hyp", "ARMVCPUReadReg", 0, 1,
    [field |-> Word], <<>>, <<W("field")>>, <<"value">>)
ARM_VCPU_WriteRegs == Stub("hyp", "ARMVCPUWriteReg", 0, 2,
    [field |-> Word, value |-> Word], <<>>, <<W("field"), W("value")>>, <<>>)
ARM_VCPU_AckVPPI == Stub("hyp", "ARMVCPUAckVPPI", 0, 1, [irq |-> Word], <<>>, <<W("irq")>>, <<>>)
IRQControl_GetTrigger == Stub("always", "ARMIRQIssueIRQHandlerTrigger", 1, 4,
    [irq |-> Word, trigger |-> Word, root |-> CPtr, index |-> Word, depth |-> Uint8],
    <<"root">>, <<W("irq"), W("trigger"), W("index"), Low("depth", 8)>>, <<>>)
IRQControl_GetTriggerCore == Stub("smp", "ARMIRQIssueIRQHandlerTriggerCore", 1, 5,
    [irq |-> Word, trigger |-> Word, root |-> CPtr, index |-> Word, depth |-> Uint8,
     target |-> Word],
    <<"root">>, <<W("irq"), W("trigger"), W("index"), Low("depth", 8), W("target")>>, <<>>)
ARM_SIDControl_GetSID == Stub("smmu", "ARMSIDIssueSIDManager", 1, 3,
    [sid |-> Word, root |-> CPtr, index |-> Word, depth |-> Uint8],
    <<"root">>, <<W("sid"), W("index"), Low("depth", 8)>>, <<>>)
ARM_SIDControl_GetFault == Stub("smmu", "ARMSIDGetFault", 0, 0,
    NoParams, <<>>, <<>>, <<"status", "syndrome_0", "syndrome_1">>)
ARM_SIDControl_ClearFault == Bare("smmu", "ARMSIDClearFault")
ARM_SID_BindCB == Stub("smmu", "ARMSIDBindCB", 1, 0, [cb |-> CPtr], <<"cb">>, <<>>, <<>>)
ARM_SID_UnbindCB == Bare("smmu", "ARMSIDUnbindCB")
ARM_CBControl_GetCB == Stub("smmu", "ARMCBIssueCBManager", 1, 3,
    [cb |-> Word, root |-> CPtr, index |-> Word, depth |-> Uint8],
    <<"root">>, <<W("cb"), W("index"), Low("depth", 8)>>, <<>>)
ARM_CBControl_TLBInvalidateAll == Bare("smmu", "ARMCBTLBInvalidateAll")
ARM_CB_AssignVspace == Stub("smmu", "ARMCBAssignVspace", 1, 0,
    [vspace |-> CPtr], <<"vspace">>, <<>>, <<>>)
ARM_CB_UnassignVspace == Bare("smmu", "ARMCBUnassignVspace")
ARM_CB_TLBInvalidate == Bare("smmu", "ARMCBTLBInvalidate")
ARM_CB_CBGetFault == Stub("smmu", "ARMCBGetFault", 0, 0,
    NoParams, <<>>, <<>>, <<"status", "address">>)
ARM_CB_CBClearFault == Bare("smmu", "ARMCBClearFault")
Untyped_Retype == Stub("always", "UntypedRetype", 1, 6,
    [type |-> Word, size_bits |-> Word, root |-> CPtr, node_index |-> Word,
     node_depth |-> Word, node_offset |-> Word, num_objects |-> Word],
    <<"root">>, <<W("type"), W("size_bits"), W("node_index"), W("node_depth"),
        W("node_offset"), W("num_objects")>>, <<>>)
TCB_ReadRegisters == Stub("always", "TCBReadRegisters", 0, 2,
    [suspend_source |-> Bool, arch_flags |-> Uint8, count |-> Word], <<>>,
    <<Bits("suspend_source", 1, 0) \cup Bits("arch_flags", 8, 8), W("count")>>, UserContext)
TCB_WriteRegisters == Stub("always", "TCBWriteRegisters", 0, 38,
    [arg \in {"resume_target", "arch_flags", "count"}
                 \cup {UserContext[k] : k \in DOMAIN UserContext} |->
        CASE arg = "resume_target" -> Bool [] arg = "arch_flags" -> Uint8 [] OTHER -> Word],
    <<>>, <<Bits("resume_target", 1, 0) \cup Bits("arch_flags", 8, 8), W("count")>>
        \o [k \in 1..Len(UserContext) |-> W(UserContext[k])], <<>>)
TCB_CopyRegisters == Stub("always", "TCBCopyRegisters", 1, 1,
    [source |-> CPtr, suspend_source |-> Bool, resume_target |-> Bool, transfer_frame |-> Bool,
     transfer_integer |-> Bool, arch_flags |-> Uint8],
    <<"source">>, <<Bits("suspend_source", 1, 0) \cup Bits("resume_target", 1, 1)
        \cup Bits("transfer_frame", 1, 2)
        \cup Bits("transfer_integer", 1, 3) \cup Bits("arch_flags", 8, 8)>>, <<>>)
TCB_Configure_Classic == Stub("classic", "TCBConfigure", 3, 4,
    [fault_ep |-> Word, cspace_root |-> CPtr, cspace_root_data |-> Word, vspace_root |-> CPtr,
     vspace_root_data |-> Word, buffer |-> Word, bufferFrame |-> CPtr],
    <<"cspace_root", "vspace_root", "bufferFrame">>, <<W("fault_ep"), W("cspace_root_data"),
        W("vspace_root_data"), W("buffer")>>, <<>>)
TCB_Configure_MCS == Stub("mcs", "TCBConfigure", 3, 3,
    [cspace_root |-> CPtr, cspace_root_data |-> Word, vspace_root |-> CPtr,
     vspace_root_data |-> Word, buffer |-> Word, bufferFrame |-> CPtr],
    <<"cspace_root", "vspace_root", "bufferFrame">>, <<W("cspace_root_data"),
        W("vspace_root_data"), W("buffer")>>, <<>>)
TCB_SetPriority == Stub("always", "TCBSetPriority", 1, 1,
    [authority |-> CPtr, priority |-> Word], <<"authority">>, <<W("priority")>>, <<>>)
TCB_SetMCPriority == Stub("always", "TCBSetMCPriority", 1, 1,
    [authority |-> CPtr, mcp |-> Word], <<"authority">>, <<W("mcp")>>, <<>>)
TCB_SetSchedParams_Classic == Stub("classic", "TCBSetSchedParams", 1, 2,
    [authority |-> CPtr, mcp |-> Word, priority |-> Word],
    <<"authority">>, <<W("mcp"), W("priority")>>, <<>>)
TCB_SetSchedParams_MCS == Stub("mcs", "TCBSetSchedParams", 3, 2,
    [authority |-> CPtr, mcp |-> Word, priority |-> Word, sched_context |-> CPtr,
     fault_ep |-> CPtr],
    <<"authority", "sched_context", "fault_ep">>, <<W("mcp"), W("priority")>>, <<>>)
TCB_SetTimeoutEndpoint == Stub("mcs", "TCBSetTimeoutEndpoint", 1, 0,
    [timeout_fault_ep |-> CPtr], <<"timeout_fault_ep">>, <<>>, <<>>)
TCB_SetIPCBuffer == Stub("always", "TCBSetIPCBuffer", 1, 1,
    [buffer |-> Word, bufferFrame |-> CPtr], <<"bufferFrame">>, <<W("buffer")>>, <<>>)
TCB_SetSpace_Classic == Stub("classic", "TCBSetSpace", 2, 3,
    [fault_ep |-> Word, cspace_root |-> CPtr, cspace_root_data |-> Word, vspace_root |-> CPtr,
     vspace_root_data |-> Word],
    <<"cspace_root", "vspace_root">>, <<W("fault_ep"), W("cspace_root_data"),
        W("vspace_root_data")>>, <<>>)
TCB_SetSpace_MCS == Stub("mcs", "TCBSetSpace", 3, 2,
    [fault_ep |-> CPtr, cspace_root |-> CPtr, cspace_root_data |-> Word, vspace_root |-> CPtr,
     vspace_root_data |-> Word],
    <<"fault_ep", "cspace_root", "vspace_root">>,
        <<W("cspace_root_data"), W("vspace_root_data")>>, <<>>)
TCB_Suspend == Bare("always", "TCBSuspend")
TCB_Resume == Bare("always", "TCBResume")
TCB_BindNotification == Stub("always", "TCBBindNotification", 1, 0,
    [notification |-> CPtr], <<"notification">>, <<>>, <<>>)
TCB_UnbindNotification == Bare("always", "TCBUnbindNotification")
TCB_SetAffinity == Stub("classicSmp", "TCBSetAffinity", 0, 1,
    [affinity |-> Word], <<>>, <<W("affinity")>>, <<>>)
TCB_SetBreakpoint == Stub("debugApi", "TCBSetBreakpoint", 0, 5,
    [bp_num |-> Uint16, vaddr |-> Word, type |-> Word, size |-> Word, rw |-> Word],
    <<>>, <<Low("bp_num", 16), W("vaddr"), W("type"), W("size"), W("rw")>>, <<>>)
TCB_GetBreakpoint == Stub("debugApi", "TCBGetBreakpoint", 0, 1,
    [bp_num |-> Uint16],
    <<>>, <<Low("bp_num", 16)>>, <<"vaddr", "type", "size", "rw", "is_enabled">>)
TCB_UnsetBreakpoint == Stub("debugApi", "TCBUnsetBreakpoint", 0, 1,
    [bp_num |-> Uint16], <<>>, <<Low("bp_num", 16)>>, <<>>)
TCB_ConfigureSingleStepping == Stub("debugApi", "TCBConfigureSingleStepping", 0, 2,
    [bp_num |-> Uint16, num_instructions |-> Word],
    <<>>, <<Low("bp_num", 16), W("num_instructions")>>, <<"bp_was_consumed">>)
TCB_SetTLSBase == Stub("always", "TCBSetTLSBase", 0, 1,
    [tls_base |-> Word], <<>>, <<W("tls_base")>>, <<>>)
CNode_Revoke == Stub("always", "CNodeRevoke", 0, 2,
    [index |-> Word, depth |-> Uint8], <<>>, <<W("index"), Low("depth", 8)>>, <<>>)
CNode_Delete == Stub("always", "CNodeDelete", 0, 2,
    [index |-> Word, depth |-> Uint8], <<>>, <<W("index"), Low("depth", 8)>>, <<>>)
CNode_CancelBadgedSends == Stub("always", "CNodeCancelBadgedSends", 0, 2,
    [index |-> Word, depth |-> Uint8], <<>>, <<W("index"), Low("depth", 8)>>, <<>>)
CNode_Copy == Stub("always", "CNodeCopy", 1, 5,
    [dest_index |-> Word, dest_depth |-> Uint8, src_root |-> CPtr, src_index |-> Word,
     src_depth |-> Uint8, rights |-> Word],
    <<"src_root">>, <<W("dest_index"), Low("dest_depth", 8), W("src_index"),
        Low("src_depth", 8), W("rights")>>, <<>>)
CNode_Mint == Stub("always", "CNodeMint", 1, 6,
    [dest_index |-> Word, dest_depth |-> Uint8, src_root |-> CPtr, src_index |-> Word,
     src_depth |-> Uint8, rights |-> Word, badge |-> Word],
    <<"src_root">>, <<W("dest_index"), Low("dest_depth", 8), W("src_index"),
        Low("src_depth", 8), W("rights"), W("badge")>>, <<>>)
CNode_Move == Stub("always", "CNodeMove", 1, 4,
    [dest_index |-> Word, dest_depth |-> Uint8, src_root |-> CPtr, src_index |-> Word,
     src_depth |-> Uint8],
    <<"src_root">>,
        <<W("dest_index"), Low("dest_depth", 8), W("src_index"), Low("src_depth", 8)>>, <<>>)
CNode_Mutate == Stub("always", "CNodeMutate", 1, 5,
    [dest_index |-> Word, dest_depth |-> Uint8, src_root |-> CPtr, src_index |-> Word,
     src_depth |-> Uint8, badge |-> Word],
    <<"src_root">>, <<W("dest_index"), Low("dest_depth", 8), W("src_index"),
        Low("src_depth", 8), W("badge")>>, <<>>)
CNode_Rotate == Stub("always", "CNodeRotate", 2, 8,
    [dest_index |-> Word, dest_depth |-> Uint8, dest_badge |-> Word, pivot_root |-> CPtr,
     pivot_index |-> Word, pivot_depth |-> Uint8, pivot_badge |-> Word, src_root |-> CPtr,
     src_index |-> Word, src_depth |-> Uint8],
    <<"pivot_root", "src_root">>, <<W("dest_index"), Low("dest_depth", 8), W("dest_badge"),
        W("pivot_index"), Low("pivot_depth", 8), W("pivot_badge"), W("src_index"),
        Low("src_depth", 8)>>, <<>>)
CNode_SaveCaller == Stub("classic", "CNodeSaveCaller", 0, 2,
    [index |-> Word, depth |-> Uint8], <<>>, <<W("index"), Low("depth", 8)>>, <<>>)
IRQControl_Get == Stub("always", "IRQIssueIRQHandler", 1, 3,
    [irq |-> Word, root |-> CPtr, index |-> Word, depth |-> Uint8],
    <<"root">>, <<W("irq"), W("index"), Low("depth", 8)>>, <<>>)
IRQHandler_Ack == Bare("always", "IRQAckIRQ")
IRQHandler_SetNotification == Stub("always", "IRQSetIRQHandler", 1, 0,
    [notification |-> CPtr], <<"notification">>, <<>>, <<>>)
\* In place of the next one: the label of the method above it.
BadIRQHandler_Clear == Bare("always", "IRQSetIRQHandler")
IRQHandler_Clear == Bare("always", "IRQClearIRQHandler")
DomainSet_Set == Stub("always", "DomainSetSet", 1, 1,
    [domain |-> Uint8, thread |-> CPtr], <<"thread">>, <<Low("domain", 8)>>, <<>>)
\* In place of the next one: the flags are counted twice.
BadSchedControl_ConfigureFlags == Stub("mcs", "SchedControlConfigureFlags", 1, 6,
    [schedcontext |-> CPtr, budget |-> Word, period |-> Word, extra_refills |-> Word,
     badge |-> Word, flags |-> Word], <<"schedcontext">>,
    <<W("budget"), W("period"), W("extra_refills"), W("badge"), W("flags")>>, <<>>)
SchedControl_ConfigureFlags == Stub("mcs", "SchedControlConfigureFlags", 1, 5,
    [schedcontext |-> CPtr, budget |-> Word, period |-> Word, extra_refills |-> Word,
     badge |-> Word, flags |-> Word],
    <<"schedcontext">>,
        <<W("budget"), W("period"), W("extra_refills"), W("badge"), W("flags")>>, <<>>)
SchedContext_Bind == Stub("mcs", "SchedContextBind", 1, 0, [cap |-> CPtr], <<"cap">>, <<>>, <<>>)
SchedContext_Unbind == Bare("mcs", "SchedContextUnbind")
SchedContext_UnbindObject == Stub("mcs", "SchedContextUnbindObject", 1, 0,
    [cap |-> CPtr], <<"cap">>, <<>>, <<>>)
SchedContext_Consumed == Stub("mcs", "SchedContextConsumed", 0, 0,
    NoParams, <<>>, <<>>, <<"consumed">>)
SchedContext_YieldTo == Stub("mcs", "SchedContextYieldTo", 0, 0,
    NoParams, <<>>, <<>>, <<"consumed">>)

AllStubs == {
    ARM_VSpace_Clean_Data, ARM_VSpace_Invalidate_Data, ARM_VSpace_CleanInvalidate_Data,
    ARM_VSpace_Unify_Instruction, ARM_PageUpperDirectory_Map, ARM_PageUpperDirectory_Unmap,
    ARM_PageDirectory_Map, ARM_PageDirectory_Unmap, ARM_PageTable_Map, ARM_PageTable_Unmap,
    ARM_IOPageTable_Map, ARM_IOPageTable_Unmap, ARM_Page_Map, ARM_Page_Unmap, ARM_Page_MapIO,
    ARM_Page_Clean_Data, ARM_Page_Invalidate_Data, ARM_Page_CleanInvalidate_Data,
    ARM_Page_Unify_Instruction, ARM_Page_GetAddress, ARM_ASIDControl_MakePool,
    ARM_ASIDPool_Assign, ARM_VCPU_SetTCB, ARM_VCPU_InjectIRQ, ARM_VCPU_ReadRegs,
    ARM_VCPU_WriteRegs, ARM_VCPU_AckVPPI, IRQControl_GetTrigger, IRQControl_GetTriggerCore,
    ARM_SIDControl_GetSID, ARM_SIDControl_GetFault, ARM_SIDControl_ClearFault, ARM_SID_BindCB,
    ARM_SID_UnbindCB, ARM_CBControl_GetCB, ARM_CBControl_TLBInvalidateAll, ARM_CB_AssignVspace,
    ARM_CB_UnassignVspace, ARM_CB_TLBInvalidate, ARM_CB_CBGetFault, ARM_CB_CBClearFault,
    Untyped_Retype, TCB_ReadRegisters, TCB_WriteRegisters, TCB_CopyRegisters,
    TCB_Configure_Classic, TCB_Configure_MCS, TCB_SetPriority, TCB_SetMCPriority,
    TCB_SetSchedParams_Classic, TCB_SetSchedParams_MCS, TCB_SetTimeoutEndpoint, TCB_SetIPCBuffer,
    TCB_SetSpace_Classic, TCB_SetSpace_MCS, TCB_Suspend, TCB_Resume, TCB_BindNotification,
    TCB_UnbindNotification, TCB_SetAffinity, TCB_SetBreakpoint, TCB_GetBreakpoint,
    TCB_UnsetBreakpoint, TCB_ConfigureSingleStepping, TCB_SetTLSBase, CNode_Revoke, CNode_Delete,
    CNode_CancelBadgedSends, CNode_Copy, CNode_Mint, CNode_Move, CNode_Mutate, CNode_Rotate,
    CNode_SaveCaller, IRQControl_Get, IRQHandler_Ack, IRQHandler_SetNotification,
    IRQHandler_Clear, DomainSet_Set, SchedControl_ConfigureFlags, SchedContext_Bind,
    SchedContext_Unbind, SchedContext_UnbindObject, SchedContext_Consumed, SchedContext_YieldTo}

\* The configuration of this build.
QemuArmVirtDebug == {"always", "mcs", "upper"}

Compiled(config) == {s \in AllStubs : s.when \in config}

Labels(config) ==
    LET InConfig(l) == l.when \in config
    IN  SelectSeq(invocation_label \o sel4_arch_invocation_label \o arch_invocation_label, InConfig)

\* The numbers of a label: one, if it is declared once in the configuration.
LabelNumbers(config, label) == {n \in DOMAIN Labels(config) : Labels(config)[n].label = label}

=============================================================================

---------------------------- MODULE MCKernelCalls ---------------------------
(***************************************************************************)
(* What a thread tells the kernel, and the kernel it, by way of registers  *)
(* and the IPC buffer.  A behaviour is about one of three things:          *)
(*   - invocations: all stubs, in the configuration of this build and in   *)
(*     others that between them compile every stub;                        *)
(*   - faults: a handler that uses stubs with few words, with many, and    *)
(*     with a long answer;                                                 *)
(*   - messages: two threads, any of whose calls may meet.                 *)
(***************************************************************************)
EXTENDS Invocations

CONSTANTS Careless,             \* see Faults
          Threads, Lengths, Nulls   \* see Messages

VARIABLES about,                \* which of the three it is
          thread, mrs, handler, used,
          buffer, local, calls, reply

fault_vars == <<thread, mrs, handler, used>>
message_vars == <<buffer, local, calls, reply>>

Fault == INSTANCE Faults
Message == INSTANCE Messages WITH thread <- calls

ASSUME KernelCallsAssumption == Fault!FaultsConstants /\ Message!MessagesConstants

MCConfigs ==
    {QemuArmVirtDebug,
     {"always", "mcs", "smp", "hyp", "smmu", "debugApi"},
     {"always", "classic", "smp", "classicSmp", "upper", "tk1", "debugApi"}}

\* None, some that fit registers, all of the structure, and more than it has.
MCCounts == {0, 2, 6, 36, 40}

\* A word in a register, and one in the buffer that some stubs use too.
MCUserWords == {0, 4}

MCCareless == {ARM_Page_Map, TCB_WriteRegisters, TCB_ReadRegisters, Untyped_Retype}

MCNulls == {{}, {0, 2}}

CallsInit ==
    /\ about \in {"invocations", "faults", "messages"}
    /\ Init /\ (about # "invocations" => config = QemuArmVirtDebug)
    /\ Fault!Init
    /\ Message!Init

CallsNext ==
    \/ about = "invocations" /\ Next /\ UNCHANGED <<about, fault_vars, message_vars>>
    \/ about = "faults" /\ Fault!Next /\ UNCHANGED <<about, vars, message_vars>>
    \/ about = "messages" /\ Message!Next /\ UNCHANGED <<about, vars, fault_vars>>

CallsSpec == CallsInit /\ [][CallsNext]_<<about, vars, fault_vars, message_vars>>

\* A handler is told what the kernel said about the fault, in spite of what it did before it
\* looked: all of it after calls of the public interface (sel4cp.h:1023-1046) that succeeded,
\* all but the first four registers if an acknowledgement was refused, and the first four
\* registers, so all of a VM fault, after any invocations that succeeded (sel4_client.h); and
\* root prints the address that it was sent (root.c:57).
HandlerTold == Fault!HandlerTold

\* Every register of the thread gets the value that the handler gave for it, whichever part
\* of the structure the answer has (seL4_TimeoutReply_new and seL4_TimeoutReply_Msg).
TimeoutReplyRestores == Fault!TimeoutReplyRestores

\* Whichever two calls of the twenty wrappers of arch/syscalls.h meet, the kernel sends to what
\* the caller has named for it and stores callers nowhere else than in reply objects, and every
\* word of a message arrives as its sender composed it, where the receiver looks for it.  There
\* are two exceptions: seL4_NBSendWaitWithMRs (:461) sends to nothing and stops its caller, and
\* a word beyond the fourth of seL4_Send and its kin may be what was in the buffer before.
MessageDelivered == Message!MessageDelivered
=============================================================================

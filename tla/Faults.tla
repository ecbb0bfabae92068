------------------------------- MODULE Faults -------------------------------
(***************************************************************************)
(* A thread faults, and the kernel sends the fault to its handler as a     *)
(* message.  The handler may ask which fault it is (seL4_getFault) or read *)
(* a message register itself, as root.c does, but it may also make         *)
(* invocations first, which use the same message registers.  It answers a  *)
(* timeout with the registers that the thread is to go on with.            *)
(*                                                                         *)
(* A word is a set of bits.  What the kernel sends in message register k   *)
(* is {k}.                                                                 *)
(***************************************************************************)
EXTENDS Layouts, Stubs

CONSTANT Careless       \* the stubs that a handler may call besides the public interface

FaultsConstants == Careless \subseteq Compiled(QemuArmVirtDebug)

VARIABLES thread,       \* the thread: running, or what its fault is about
          mrs,          \* the message registers in the handler's IPC buffer
          handler,      \* what the handler is doing, and what it has found out
          used          \* what it has done since it received: "nothing", "public", "refusedAck" (and
                      \* nothing but public calls), "stubs", or "refused"

vars == <<thread, mrs, handler, used>>

(***************************************************************************)
(* The messages: which message register holds what, from 0 on, by kind.    *)
(***************************************************************************)
CapFault_Msg ==
    <<"IP", "Addr", "InRecvPhase", "LookupFailureType", "BitsLeft",
      "GuardMismatch_GuardFound", "GuardMismatch_BitsFound">>
UnknownSyscall_Msg ==
    <<"X0", "X1", "X2", "X3", "X4", "X5", "X6", "X7", "FaultIP", "SP", "LR", "SPSR", "Syscall">>
UserException_Msg == <<"FaultIP", "SP", "SPSR", "Number", "Code">>
VMFault_Msg == <<"IP", "Addr", "PrefetchFault", "FSR">>
TimeoutMsg == <<"Data", "Consumed">>

Msg == [CapFault |-> CapFault_Msg, UnknownSyscall |-> UnknownSyscall_Msg,
        UserException |-> UserException_Msg, VMFault |-> VMFault_Msg, Timeout |-> TimeoutMsg]
FaultKinds == DOMAIN Msg

\* FaultIP, SP and SPSR_EL1 are pc, sp and spsr of the structure.  In place of
\* TimeoutReply_Msg: the registers in the order of their numbers.
BadTimeoutReply_Msg ==
    <<"pc", "sp", "spsr", "x0", "x1", "x2", "x3", "x4", "x5", "x6", "x7", "x8", "x9", "x10",
      "x11", "x12", "x13", "x14", "x15", "x16", "x17", "x18", "x19", "x20", "x21", "x22",
      "x23", "x24", "x25", "x26", "x27", "x28", "x29", "x30">>
TimeoutReply_Msg ==
    <<"pc", "sp", "spsr", "x0", "x1", "x2", "x3", "x4", "x5", "x6", "x7", "x8", "x16", "x17",
      "x18", "x29", "x30", "x9", "x10", "x11", "x12", "x13", "x14", "x15", "x19", "x20",
      "x21", "x22", "x23", "x24", "x25", "x26", "x27", "x28">>

LastMR == 37
MR == 0..LastMR
Sent(k) == {k}
Junk == {62}            \* whatever was there
Invoked == {63}         \* what an invocation has put there

Index(names, name) == (CHOOSE i \in DOMAIN names : names[i] = name) - 1
Min2(a, b) == IF a < b THEN a ELSE b

Init ==
    /\ thread = [state |-> "running"]
    /\ mrs = [k \in MR |-> Junk]
    /\ handler = [at |-> "waiting"]
    /\ used = "nothing"

(***************************************************************************)
(* The kernel.  How much a capability fault says depends on why the lookup *)
(* failed.                                                                 *)
(***************************************************************************)
LengthsOf(kind) == IF kind = "CapFault" THEN 4..7 ELSE {Len(Msg[kind])}

Fault(kind, length) ==
    /\ thread.state \in {"running", "restarted"}
    /\ thread' = [state |-> "faulted", kind |-> kind, length |-> length]
    /\ UNCHANGED <<mrs, handler, used>>

(***************************************************************************)
(* The handler.                                                            *)
(***************************************************************************)
\* seL4_Recv and its kin: the first four registers are copied to the buffer; the kernel has
\* written the others.  Whatever else is there is not about this fault.
Recv ==
    /\ handler.at = "waiting"
    /\ thread.state = "faulted"
    /\ mrs' = [k \in MR |-> IF k < thread.length THEN Sent(k) ELSE Junk]
    /\ handler' = [at |-> "received", label |-> Layouts[thread.kind].tag]
    /\ used' = "nothing"
    /\ UNCHANGED thread

\* The registers that an invocation overwrites.  A refusal is written to the first four.
Overwritten(s, refused) ==
    {k \in MR : \/ k > 3 /\ k < Len(s.words)
                \/ k > 3 /\ ~refused /\ k < Len(s.results)
                \/ k <= 3 /\ refused}

Overwrite(s, refused) ==
    mrs' = [k \in MR |-> IF k \in Overwritten(s, refused) THEN Invoked ELSE mrs[k]]

\* sel4cp_irq_ack or sel4cp_pd_stop.  The calls that the platform offers besides, sel4cp_notify
\* and sel4cp_dbg_puts, need registers only, as a call of these does that is not refused.
Public(s) ==
    /\ handler.at = "received"
    /\ s \in {TCB_Suspend, IRQHandler_Ack}
    /\ Overwrite(s, FALSE)
    /\ used' = IF used = "nothing" THEN "public" ELSE used
    /\ UNCHANGED <<thread, handler>>

\* sel4cp_irq_ack of an interrupt whose handler has been handed on: the kernel refuses it, the
\* stub writes the refusal down, and nobody looks at the error.
RefusedAck ==
    /\ handler.at = "received"
    /\ Overwrite(IRQHandler_Ack, TRUE)
    /\ used' = IF used \in {"stubs", "refused"} THEN "refused" ELSE "refusedAck"
    /\ UNCHANGED <<thread, handler>>

\* sel4cp_pd_stop of a PD that it does not know: it crashes.
RefusedStop ==
    /\ handler.at = "received"
    /\ Overwrite(TCB_Suspend, TRUE)
    /\ handler' = [at |-> "crashed", label |-> handler.label]
    /\ UNCHANGED <<thread, used>>

\* Any invocation.
Invocation(s, refused) ==
    /\ handler.at = "received"
    /\ s \in Careless
    /\ Overwrite(s, refused)
    /\ used' = IF refused \/ used \in {"refused", "refusedAck"} THEN "refused" ELSE "stubs"
    /\ UNCHANGED <<thread, handler>>

\* The arguments that seL4_getFault passes to the function that makes the value, and that
\* function's parameters, both in order.
Params ==
    [CapFault |-> <<"IP", "Addr", "InRecvPhase", "LookupFailureType", "MR4", "MR5", "MR6">>,
     UnknownSyscall |-> <<"X0", "X1", "X2", "X3", "X4", "X5", "X6", "X7", "FaultIP", "SP", "LR",
                          "SPSR", "Syscall">>,
     UserException |-> <<"FaultIP", "Stack", "SPSR", "Number", "Code">>,
     Timeout |-> <<"data", "consumed">>,
     VMFault |-> <<"IP", "Addr", "PrefetchFault", "FSR">>]

\* In place of getFault_Reads: two registers of a user exception swapped.
BadGetFault_Reads == [Msg EXCEPT !["UserException"] = <<"SP", "FaultIP", "SPSR", "Number", "Code">>]
getFault_Reads ==
    [CapFault |-> <<"IP", "Addr", "InRecvPhase", "LookupFailureType", "BitsLeft",
                    "GuardMismatch_GuardFound", "GuardMismatch_BitsFound">>,
     UnknownSyscall |-> <<"X0", "X1", "X2", "X3", "X4", "X5", "X6", "X7", "FaultIP", "SP", "LR",
                          "SPSR", "Syscall">>,
     UserException |-> <<"FaultIP", "SP", "SPSR", "Number", "Code">>,
     Timeout |-> <<"Data", "Consumed">>,
     VMFault |-> <<"IP", "Addr", "PrefetchFault", "FSR">>]

GetMR(kind, name) == mrs[Index(Msg[kind], name)]

getFault(label) ==
    LET kind == CHOOSE k \in FaultKinds : Layouts[k].tag = label
    IN  Made(Layouts[kind],
             [f \in DOMAIN Layouts[kind].fields |->
                 GetMR(kind, getFault_Reads[kind][Index(Params[kind], f) + 1])])

Decode ==
    /\ handler.at = "received"
    /\ handler' = [at |-> "decoded", label |-> handler.label, fault |-> getFault(handler.label)]
    /\ UNCHANGED <<thread, mrs, used>>

\* root's fault(): what it prints as the fault address.
PrintAddress ==
    /\ handler.at = "received"
    /\ used = "nothing"
    /\ handler' = [at |-> "printed", label |-> handler.label, address |-> GetMR("CapFault", "Addr")]
    /\ UNCHANGED <<thread, mrs, used>>

\* seL4_TimeoutReply_new, and the reply itself, which takes the first four message
\* registers along; a register's value is its position in the structure.
TimeoutReply(resume, length) ==
    /\ handler.at \in {"received", "decoded", "printed"}
    /\ handler.label = Timeout.tag
    /\ mrs' = [k \in MR |-> IF k < length THEN Sent(k) ELSE mrs[k]]
    /\ handler' = [at |-> "waiting"]
    /\ thread' = [state |-> IF resume THEN "restarted" ELSE "stopped",
                  registers |-> [n \in {TimeoutReply_Msg[i] :
                                          i \in 1..Min2(length, Len(TimeoutReply_Msg))} |->
                                    mrs'[Index(TimeoutReply_Msg, n)]]]
    /\ UNCHANGED used

\* The fault is not answered: the thread stays where it is (root.c, child.c).
NoReply ==
    /\ handler.at \in {"decoded", "printed"}
    /\ handler' = [at |-> "waiting"]
    /\ thread' = [state |-> "stopped"]
    /\ UNCHANGED <<mrs, used>>

Next ==
    \/ \E kind \in FaultKinds : \E length \in LengthsOf(kind) : Fault(kind, length)
    \/ Recv
    \/ \E s \in Compiled(QemuArmVirtDebug) :
           \/ Public(s)
           \/ \E refused \in BOOLEAN : Invocation(s, refused)
    \/ RefusedAck
    \/ RefusedStop
    \/ Decode
    \/ PrintAddress
    \/ \E resume \in BOOLEAN, length \in 0..Len(UserContext) : TimeoutReply(resume, length)
    \/ NoReply

Spec == Init /\ [][Next]_vars

(***************************************************************************)
(* Properties.                                                             *)
(***************************************************************************)

\* The name in the message of what the value calls by another name.
Meaning(f) ==
    CASE f = "MR4" -> "BitsLeft"
      [] f = "MR5" -> "GuardMismatch_GuardFound"
      [] f = "MR6" -> "GuardMismatch_BitsFound"
      [] f = "Stack" -> "SP"
      [] f = "data" -> "Data"
      [] f = "consumed" -> "Consumed"
      [] OTHER -> f

Register(f) == Index(Msg[thread.kind], Meaning(f))

\* The value is of the kind that the kernel sent, and the fields that it has from these
\* message registers are what the kernel sent there.
RightIn(registers) ==
    LET layout == Layouts[thread.kind]
    IN  /\ HasTag(handler.fault, layout)
        /\ \A f \in DOMAIN layout.fields :
               Register(f) \in registers /\ Register(f) < thread.length =>
                   Get(handler.fault, layout.fields[f]) = Sent(Register(f))

\* The registers that are left after what the handler has done.
Left ==
    {k \in MR :
        \/ used \in {"nothing", "public"}
        \/ used = "refusedAck" /\ k > 3
        \/ used = "stubs" /\ k <= 3}

\* A handler that has used nothing but the public interface of the platform since it got
\* the fault (sel4cp.h:1023-1046) finds out all that the kernel said about it, or all but the
\* first four words if an acknowledgement was refused, which it is not told.  Whatever
\* invocations it made, as long as none was refused, the first four words are left: a VM fault
\* can still be decoded (sel4_client.h, faults.h).
DecodedAsLeft == handler.at = "decoded" => RightIn(Left)

\* What root prints as the fault address of a capability or VM fault is that (root.c:57).
AddressPrinted ==
    handler.at = "printed" /\ "Addr" \in {Msg[thread.kind][i] : i \in DOMAIN Msg[thread.kind]} =>
        handler.address = Sent(Register("Addr"))

\* A handler is told what the kernel said about the fault, in spite of what it did before it
\* looked: all of it after calls of the public interface that succeeded, all but the first four
\* registers if an acknowledgement was refused, and the first four registers after any
\* invocations that succeeded; and root prints the address that it was sent.
HandlerTold == DecodedAsLeft /\ AddressPrinted

\* Every register of the thread gets the value that the handler gave for it, whichever part
\* of the structure the answer has (seL4_TimeoutReply_new and seL4_TimeoutReply_Msg).
TimeoutReplyRestores ==
    thread.state = "restarted" =>
        \A n \in DOMAIN thread.registers :
            thread.registers[n] = Sent(Index(UserContext, n))
=============================================================================

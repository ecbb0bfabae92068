------------------------------ MODULE Messages ------------------------------
(***************************************************************************)
(* Threads that send messages to each other with the system calls of       *)
(* sel4/arch/syscalls.h.  A system call puts capabilities, the message     *)
(* info and four words of the message into registers (the arm_sys          *)
(* functions of sel4_arch/syscalls.h), and takes four words out of         *)
(* registers when it returns.  In between, the kernel decides by the       *)
(* number of the call which register names what is sent to, what is        *)
(* received from and which reply object is used.                           *)
(*                                                                         *)
(* Every thread receives from an endpoint of its own and has one reply     *)
(* object.  A word is described by who wrote it where.                     *)
(***************************************************************************)
EXTENDS Integers, FiniteSets

CONSTANTS Threads,
          Lengths,      \* how long their messages are
          Nulls         \* which of the mr pointers may be missing, as sets of numbers

LastWord == 5
InRegister == 0..3
InBuffer == 4..LastWord

MessagesConstants ==
    /\ "nobody" \notin Threads
    /\ Lengths \subseteq 0..LastWord + 1
    /\ Nulls \subseteq SUBSET InRegister

VARIABLES buffer,       \* the message registers in the IPC buffer of each thread
          local,        \* the variables that its mr pointers point to
          thread,       \* what each thread is doing
          reply         \* the thread that waits for each thread's reply, if any

vars == <<buffer, local, thread, reply>>

Old == [of |-> "old", at |-> "", number |-> 0]
Zero == [of |-> "zero", at |-> "", number |-> 0]
Junk == [of |-> "junk", at |-> "", number |-> 0]
Own(t, place, k) == [of |-> t, at |-> place, number |-> k]

(***************************************************************************)
(* The system calls: the number, what is in the registers x0, x6 and x8,   *)
(* where the first four words are taken from, where they are put, and      *)
(* whether the compiler must have written the IPC buffer before (the       *)
(* "memory" clobber).                                                      *)
(***************************************************************************)
arm_sys_send(sys, takes) ==
    [sys |-> sys, x0 |-> "dest", x6 |-> "none", x8 |-> "none", takes |-> takes, puts |-> "none",
     clobber |-> FALSE]
arm_sys_send_null(sys) == arm_sys_send(sys, "none")
arm_sys_recv(sys, x6, puts) ==
    [sys |-> sys, x0 |-> "src", x6 |-> x6, x8 |-> "none", takes |-> "none", puts |-> puts,
     clobber |-> TRUE]
arm_sys_send_recv(sys, x0, x6, words) ==
    [sys |-> sys, x0 |-> x0, x6 |-> x6, x8 |-> "none", takes |-> words, puts |-> words,
     clobber |-> TRUE]
arm_sys_nbsend_recv(sys, x8, x6, words) ==
    [sys |-> sys, x0 |-> "src", x6 |-> x6, x8 |-> x8, takes |-> words, puts |-> words,
     clobber |-> TRUE]

Send == arm_sys_send("Send", "buffer")
SendWithMRs == arm_sys_send("Send", "local")
NBSend == arm_sys_send("NBSend", "buffer")
NBSendWithMRs == arm_sys_send("NBSend", "local")
Recv == arm_sys_recv("Recv", "reply", "buffer")
RecvWithMRs == arm_sys_recv("Recv", "reply", "local")
NBRecv == arm_sys_recv("NBRecv", "reply", "buffer")
Call == arm_sys_send_recv("Call", "dest", "none", "buffer")
CallWithMRs == arm_sys_send_recv("Call", "dest", "none", "local")
ReplyRecv == arm_sys_send_recv("ReplyRecv", "src", "reply", "buffer")
ReplyRecvWithMRs == arm_sys_send_recv("ReplyRecv", "src", "reply", "local")
NBSendRecv == arm_sys_nbsend_recv("NBSendRecv", "dest", "reply", "buffer")
NBSendRecvWithMRs == arm_sys_nbsend_recv("NBSendRecv", "dest", "reply", "local")
NBSendWait == arm_sys_nbsend_recv("NBSendWait", "none", "dest", "buffer")
NBSendWaitWithMRs == arm_sys_nbsend_recv("NBSendRecv", "none", "dest", "local")
Wait == arm_sys_recv("Wait", "none", "buffer")
WaitWithMRs == arm_sys_recv("Wait", "none", "local")
NBWait == arm_sys_recv("NBWait", "none", "buffer")
Poll == NBWait
Signal == arm_sys_send_null("Send")

\* The calls that threads make.
Wrappers ==
    {Send, SendWithMRs, NBSend, NBSendWithMRs, Signal, Recv, RecvWithMRs, NBRecv, Call,
     CallWithMRs, ReplyRecv, ReplyRecvWithMRs, NBSendRecv, NBSendRecvWithMRs, NBSendWait,
     NBSendWaitWithMRs, Wait, WaitWithMRs, NBWait, Poll}

(***************************************************************************)
(* What the kernel makes of the registers.                                 *)
(***************************************************************************)
Invoked(w) == CASE w.sys \in {"Send", "NBSend", "Call"} -> w.x0
                [] w.sys \in {"ReplyRecv", "NBSendWait"} -> w.x6
                [] w.sys = "NBSendRecv" -> w.x8
                [] OTHER -> "none"
ReceivesOn(w) == IF w.sys \in {"Send", "NBSend", "Call"} THEN "none" ELSE w.x0
ReplyObject(w) == IF w.sys \in {"Recv", "NBRecv", "ReplyRecv", "NBSendRecv"} THEN w.x6 ELSE "none"
Sends(w) == w.sys \notin {"Recv", "NBRecv", "Wait", "NBWait"}

User == [at |-> "user"]

Init ==
    /\ buffer = [t \in Threads |-> [k \in 0..LastWord |-> Old]]
    /\ local = [t \in Threads |-> [k \in InRegister |-> Old]]
    /\ thread = [t \in Threads |-> User]
    /\ reply = [t \in Threads |-> "nobody"]

(***************************************************************************)
(* A thread composes a message, where the call will take it from, and      *)
(* makes the call.  Without the clobber any words of the buffer may still  *)
(* be the old ones when the kernel reads them.                             *)
(***************************************************************************)
Place(w, k) == IF k \in InRegister /\ w.takes = "local" THEN "local" ELSE "buffer"

\* In place of Register: the last word is left out.
BadRegister(t, w, length, nulls, k) ==
    CASE w.takes = "buffer" -> buffer'[t][k]
      [] w.takes = "local" /\ k + 1 < length /\ k \notin nulls -> local'[t][k]
      [] OTHER -> Zero
Register(t, w, length, nulls, k) ==
    CASE w.takes = "buffer" -> buffer'[t][k]
      [] w.takes = "local" /\ k < length /\ k \notin nulls -> local'[t][k]
      [] OTHER -> Zero

Enter(t, w, length, nulls, late) ==
    /\ thread[t].at = "user"
    /\ w.takes = "none" => length = 0
    /\ "local" \notin {w.takes, w.puts} => nulls = {}
    /\ late # {} => ~w.clobber
    /\ \A k \in late : k < length
    /\ buffer' = [buffer EXCEPT ![t] = [k \in DOMAIN @ |->
                     IF k < length /\ Place(w, k) = "buffer" THEN Own(t, "buffer", k) ELSE @[k]]]
    /\ local' = [local EXCEPT ![t] = [k \in DOMAIN @ |->
                     IF k < length /\ Place(w, k) = "local" THEN Own(t, "local", k) ELSE @[k]]]
    /\ thread' = [thread EXCEPT ![t] =
           [at |-> IF Sends(w) THEN "sending" ELSE "receiving", call |-> w, nulls |-> nulls,
            info |-> [length |-> length, ordered |-> w.clobber,
                      meant |-> [k \in 0..length - 1 |->
                                    IF w.takes = "local" /\ k \in nulls THEN Zero
                                    ELSE Own(t, Place(w, k), k)],
                      words |-> [k \in 0..LastWord |->
                                    IF k \in InRegister THEN Register(t, w, length, nulls, k)
                                    ELSE IF k \in late THEN Old ELSE buffer'[t][k]]]]]
    /\ UNCHANGED reply

(***************************************************************************)
(* The kernel.                                                             *)
(***************************************************************************)
Others(t) == Threads \ {t}
Receiving(t) == thread[t].at = "receiving" /\ ReceivesOn(thread[t].call) = "src"

\* A thread that has got what it waited for; the kernel has written the words that are not
\* in registers.
Woken(t, info) == [at |-> "woken", call |-> thread[t].call, nulls |-> thread[t].nulls, info |-> info]
WithWords(t, info) ==
    [k \in DOMAIN buffer[t] |->
        IF k \in InBuffer /\ k < info.length THEN info.words[k] ELSE buffer[t][k]]
NoInfo == [length |-> 0, ordered |-> TRUE, meant |-> [k \in {} |-> Zero],
           words |-> [k \in 0..LastWord |-> Junk]]

\* How a thread goes on that has sent: Call waits for the answer, if the receiver's reply
\* object could take note of it, and forever if not; others receive or return.  A thread that
\* names something else for its reply object faults.
AfterSend(t, noted) ==
    CASE thread[t].call.sys = "Call" -> [thread[t] EXCEPT !.at = IF noted THEN "calling" ELSE "stuck"]
      [] thread[t].call.sys # "Call" /\ ReceivesOn(thread[t].call) # "none" ->
             [thread[t] EXCEPT !.at =
                 IF ReplyObject(thread[t].call) \in {"none", "reply"} THEN "receiving" ELSE "stuck"]
      [] OTHER -> Woken(t, NoInfo)

\* Who still waits for the answer to a call when its server receives again, with the same
\* reply object, waits forever.
Forgotten(r) ==
    [t \in Threads |-> IF reply[r] = t /\ ReplyObject(thread[r].call) = "reply"
                       THEN [thread[t] EXCEPT !.at = "stuck"] ELSE thread[t]]

Transfer(s, r) ==
    /\ thread[s].at = "sending"
    /\ thread[s].call.takes # "none"
    /\ Invoked(thread[s].call) = "dest"
    /\ Receiving(r)
    /\ LET noted == ReplyObject(thread[r].call) = "reply"
       IN  /\ thread' = [Forgotten(r) EXCEPT ![r] = Woken(r, thread[s].info),
                                             ![s] = AfterSend(s, noted)]
           /\ reply' = IF noted
                       THEN [reply EXCEPT ![r] = IF thread[s].call.sys = "Call" THEN s ELSE "nobody"]
                       ELSE reply
    /\ buffer' = [buffer EXCEPT ![r] = WithWords(r, thread[s].info)]
    /\ UNCHANGED local

\* A call that does not block and finds nobody, a signal, or nothing at all to send to.
Drop(s) ==
    /\ thread[s].at = "sending"
    /\ \/ thread[s].call.sys \in {"NBSend", "NBSendRecv", "NBSendWait"} /\ \A r \in Others(s) : ~Receiving(r)
       \/ thread[s].call.takes = "none"
       \/ Invoked(thread[s].call) = "none"
    /\ thread' = [thread EXCEPT ![s] = AfterSend(s, FALSE)]
    /\ UNCHANGED <<buffer, local, reply>>

Answer(s) ==
    /\ thread[s].at = "sending"
    /\ Invoked(thread[s].call) = "reply"
    /\ IF reply[s] = "nobody"
       THEN thread' = [thread EXCEPT ![s].at = "receiving"] /\ buffer' = buffer
       ELSE /\ thread' = [thread EXCEPT ![s].at = "receiving", ![reply[s]] = Woken(reply[s], thread[s].info)]
            /\ buffer' = [buffer EXCEPT ![reply[s]] = WithWords(reply[s], thread[s].info)]
    /\ reply' = [reply EXCEPT ![s] = "nobody"]
    /\ UNCHANGED local

FindNothing(t) ==
    /\ thread[t].at = "receiving"
    /\ thread[t].call.sys \in {"NBRecv", "NBWait"}
    /\ \A s \in Others(t) : ~(thread[s].at = "sending" /\ Invoked(thread[s].call) = "dest")
    /\ thread' = [Forgotten(t) EXCEPT ![t] = Woken(t, NoInfo)]
    /\ reply' = IF ReplyObject(thread[t].call) = "reply" THEN [reply EXCEPT ![t] = "nobody"] ELSE reply
    /\ UNCHANGED <<buffer, local>>

(***************************************************************************)
(* The system call returns: it puts the four registers where the caller    *)
(* wants them, however many of them the message has used.                  *)
(***************************************************************************)
Got(t, k) == IF k < thread[t].info.length THEN thread[t].info.words[k] ELSE Junk

Return(t) ==
    /\ thread[t].at = "woken"
    /\ buffer' = IF thread[t].call.puts = "buffer"
                 THEN [buffer EXCEPT ![t] = [k \in DOMAIN @ |-> IF k \in InRegister THEN Got(t, k) ELSE @[k]]]
                 ELSE buffer
    /\ local' = IF thread[t].call.puts = "local"
                THEN [local EXCEPT ![t] = [k \in DOMAIN @ |->
                          IF k \in thread[t].nulls THEN @[k] ELSE Got(t, k)]]
                ELSE local
    /\ thread' = [thread EXCEPT ![t].at = "returned"]
    /\ UNCHANGED reply

\* The caller has used the message.  What is in its memory now is old.
Resume(t) ==
    /\ thread[t].at = "returned"
    /\ thread' = [thread EXCEPT ![t] = User]
    /\ buffer' = [buffer EXCEPT ![t] = [k \in DOMAIN @ |-> Old]]
    /\ local' = [local EXCEPT ![t] = [k \in DOMAIN @ |-> Old]]
    /\ UNCHANGED reply

Next ==
    \E t \in Threads :
        \/ \E w \in Wrappers, length \in Lengths, nulls \in Nulls,
              late \in SUBSET InBuffer :
               Enter(t, w, length, nulls, late)
        \/ \E r \in Others(t) : Transfer(t, r)
        \/ Drop(t)
        \/ Answer(t)
        \/ FindNothing(t)
        \/ Return(t)
        \/ Resume(t)

Spec == Init /\ [][Next]_vars

(***************************************************************************)
(* Properties.                                                             *)
(***************************************************************************)

\* Where a caller finds word k of the message that it has received.
Found(t, k) == IF k \in InRegister /\ thread[t].call.puts = "local" THEN local[t][k] ELSE buffer[t][k]

\* Every word of a message arrives as its sender composed it, where the receiver looks for
\* it, whichever two calls meet.  Only the words beyond the fourth of a call that does not
\* make the compiler write them before (seL4_Send and its kin, sel4_arch/syscalls.h:71) may be
\* the ones that were in the sender's buffer before.
MessageArrives ==
    \A t \in Threads :
        thread[t].at = "returned" =>
            \A k \in DOMAIN thread[t].info.meant :
                \/ k \in InBuffer /\ ~thread[t].info.ordered /\ Found(t, k) = Old
                \/ k \in thread[t].nulls
                \/ Found(t, k) = thread[t].info.meant[k]

\* Whatever the number of the call, the kernel sends to what the caller has named for it (a
\* reply goes to the reply object), and it stores a caller in no other object than the
\* reply object: for every wrapper but one.
InvokedAsNamed ==
    \A t \in Threads :
        thread[t].at \in {"sending", "receiving"} /\ thread[t].call # NBSendWaitWithMRs =>
            LET w == thread[t].call
            IN  /\ Sends(w) => Invoked(w) = IF w.sys = "ReplyRecv" THEN "reply" ELSE "dest"
                /\ ReplyObject(w) \in {"none", "reply"}

\* seL4_NBSendWaitWithMRs makes the system call of another wrapper (arch/syscalls.h:461).  Its
\* message is sent to nothing, and its caller neither receives anything nor goes on.
MessageOfOneLost ==
    \A t \in Threads :
        thread[t].at # "user" /\ thread[t].call = NBSendWaitWithMRs =>
            /\ Invoked(thread[t].call) = "none"
            /\ thread[t].at \in {"sending", "stuck"}

\* A message goes to whom its sender named, and arrives as it was composed, but for those of
\* seL4_NBSendWaitWithMRs, which are lost together with their sender.
MessageDelivered == MessageArrives /\ InvokedAsNamed /\ MessageOfOneLost
=============================================================================

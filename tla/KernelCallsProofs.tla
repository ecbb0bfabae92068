-------------------------- MODULE KernelCallsProofs --------------------------
(***************************************************************************)
(* Proofs about the calls into the kernel: for any number of threads and   *)
(* any messages that they send each other, any invocations in any          *)
(* configuration, and any calls that a fault handler makes before it looks *)
(* at its fault.                                                           *)
(***************************************************************************)
EXTENDS MCKernelCalls, FiniteSetTheorems, TLAPS

(***************************************************************************)
(* Messages between threads.                                               *)
(***************************************************************************)
MessageWord ==
    {Message!Old, Message!Zero, Message!Junk}
    \cup {Message!Own(t, place, k) : t \in Threads, place \in {"buffer", "local"}, k \in 0..5}

\* A word of a message that may be an old one, if nothing made the compiler write it.
MayBeOld(info, k, word) == k \in Message!InBuffer /\ ~info.ordered /\ word = Message!Old

\* Word k of a message is the one its sender meant, or it is such an old one.
Faithful(info) ==
    \A k \in DOMAIN info.meant :
        MayBeOld(info, k, info.words[k]) \/ info.words[k] = info.meant[k]

Info ==
    {info \in [length : 0..6, ordered : BOOLEAN,
               meant : UNION {[0..n - 1 -> MessageWord] : n \in 0..6},
               words : [0..5 -> MessageWord]] :
        DOMAIN info.meant = 0..info.length - 1 /\ Faithful(info)}

Posted ==
    [at : {"sending", "receiving", "calling", "stuck", "woken", "returned"},
     call : Message!Wrappers, nulls : SUBSET Message!InRegister, info : Info]

MessageTypes ==
    /\ buffer \in [Threads -> [0..5 -> MessageWord]]
    /\ local \in [Threads -> [0..3 -> MessageWord]]
    /\ calls \in [Threads -> {Message!User} \cup Posted]
    /\ reply \in [Threads -> Threads \cup {"nobody"}]

\* What the kernel has written for a thread that it has woken is there until it returns.
Delivered(t) ==
    calls[t].at = "woken" =>
        /\ calls[t].call.puts = "none" => calls[t].info.length = 0
        /\ \A k \in Message!InBuffer :
               k < calls[t].info.length => buffer[t][k] = calls[t].info.words[k]

Arrived(t) ==
    calls[t].at = "returned" =>
        \A k \in DOMAIN calls[t].info.meant :
            \/ MayBeOld(calls[t].info, k, Message!Found(t, k))
            \/ k \in calls[t].nulls
            \/ Message!Found(t, k) = calls[t].info.meant[k]

\* A reply object holds a caller that waits for it, and no caller is in two.
RepliesOwed ==
    /\ \A s \in Threads : reply[s] \in Threads => calls[reply[s]].at = "calling"
    /\ \A s, r \in Threads : reply[s] = reply[r] /\ reply[s] # "nobody" => s = r

\* A call whose number is another's sends to nothing, and stops there.
Astray(t) ==
    calls[t].at # "user" /\ calls[t].call = Message!NBSendWaitWithMRs =>
        calls[t].at \in {"sending", "stuck"}

MessageInv ==
    /\ MessageTypes
    /\ \A t \in Threads : Astray(t)
    /\ \A t \in Threads : Delivered(t) /\ Arrived(t)
    /\ \A t \in Threads : calls[t].at = "calling" => calls[t].call.sys = "Call"
    /\ RepliesOwed

WrapperOK(w) ==
    /\ w.takes \in {"none", "buffer", "local"}
    /\ w.puts \in {"none", "buffer", "local"}
    /\ w.clobber \in BOOLEAN
    /\ Message!ReceivesOn(w) = "src" \/ w.sys = "Call" => w.puts # "none"

AsNamed(w) ==
    /\ Message!Sends(w) => Message!Invoked(w) = IF w.sys = "ReplyRecv" THEN "reply" ELSE "dest"
    /\ Message!ReplyObject(w) \in {"none", "reply"}

BothOK(w) == WrapperOK(w) /\ AsNamed(w)

\* What holds of every system call that the threads make, and of all but one.
LEMMA WrapperFacts ==
    \A w \in Message!Wrappers : WrapperOK(w) /\ (w # Message!NBSendWaitWithMRs => AsNamed(w))
<1> USE DEF BothOK, WrapperOK, AsNamed, Message!ReceivesOn, Message!Sends, Message!Invoked,
            Message!ReplyObject
<1>1. ASSUME NEW sys \in {"Send", "NBSend"}, NEW takes \in {"none", "buffer", "local"}
      PROVE  BothOK(Message!arm_sys_send(sys, takes))
  BY DEF Message!arm_sys_send
<1>2. ASSUME NEW sys \in {"Recv", "NBRecv", "Wait", "NBWait"}, NEW x6 \in {"none", "reply"},
             NEW puts \in {"buffer", "local"}
      PROVE  BothOK(Message!arm_sys_recv(sys, x6, puts))
  BY DEF Message!arm_sys_recv
<1>3. ASSUME NEW words \in {"buffer", "local"}
      PROVE  /\ BothOK(Message!arm_sys_send_recv("Call", "dest", "none", words))
             /\ BothOK(Message!arm_sys_send_recv("ReplyRecv", "src", "reply", words))
  BY DEF Message!arm_sys_send_recv
<1>4. ASSUME NEW words \in {"buffer", "local"}
      PROVE  /\ BothOK(Message!arm_sys_nbsend_recv("NBSendRecv", "dest", "reply", words))
             /\ BothOK(Message!arm_sys_nbsend_recv("NBSendWait", "none", "dest", words))
  BY DEF Message!arm_sys_nbsend_recv
<1>9. WrapperOK(Message!NBSendWaitWithMRs)
  BY DEF Message!NBSendWaitWithMRs, Message!arm_sys_nbsend_recv
<1> HIDE DEF BothOK, WrapperOK, AsNamed
<1>5. /\ BothOK(Message!Send) /\ BothOK(Message!SendWithMRs) /\ BothOK(Message!NBSend)
      /\ BothOK(Message!NBSendWithMRs) /\ BothOK(Message!Signal)
  BY <1>1 DEF Message!Send, Message!SendWithMRs, Message!NBSend, Message!NBSendWithMRs,
             Message!Signal, Message!arm_sys_send_null
<1>6. /\ BothOK(Message!Recv) /\ BothOK(Message!RecvWithMRs) /\ BothOK(Message!NBRecv)
      /\ BothOK(Message!Wait) /\ BothOK(Message!WaitWithMRs) /\ BothOK(Message!NBWait)
      /\ BothOK(Message!Poll)
  BY <1>2 DEF Message!Recv, Message!RecvWithMRs, Message!NBRecv, Message!Wait,
             Message!WaitWithMRs, Message!NBWait, Message!Poll
<1>7. /\ BothOK(Message!Call) /\ BothOK(Message!CallWithMRs)
      /\ BothOK(Message!ReplyRecv) /\ BothOK(Message!ReplyRecvWithMRs)
  BY <1>3 DEF Message!Call, Message!CallWithMRs, Message!ReplyRecv, Message!ReplyRecvWithMRs
<1>8. /\ BothOK(Message!NBSendRecv) /\ BothOK(Message!NBSendRecvWithMRs)
      /\ BothOK(Message!NBSendWait)
  BY <1>4 DEF Message!NBSendRecv, Message!NBSendRecvWithMRs, Message!NBSendWait
<1>10. \A w \in Message!Wrappers : BothOK(w) \/ w = Message!NBSendWaitWithMRs
  BY <1>5, <1>6, <1>7, <1>8, Zenon DEF Message!Wrappers
<1> QED
  BY <1>9, <1>10, Zenon DEF BothOK

\* The one is sent to nothing, and its reply object is what it is to be sent to.
LEMMA AstrayFacts ==
    LET w == Message!NBSendWaitWithMRs
    IN  /\ Message!Sends(w) /\ Message!Invoked(w) = "none" /\ w.sys = "NBSendRecv"
        /\ Message!ReceivesOn(w) = "src" /\ Message!ReplyObject(w) = "dest"
BY DEF Message!NBSendWaitWithMRs, Message!arm_sys_nbsend_recv, Message!ReceivesOn, Message!Sends,
       Message!Invoked, Message!ReplyObject

LEMMA InfoParts ==
    ASSUME NEW info \in Info
    PROVE  /\ info.length \in 0..6 /\ info.ordered \in BOOLEAN
           /\ info.meant \in [0..info.length - 1 -> MessageWord]
           /\ info.words \in [0..5 -> MessageWord]
           /\ Faithful(info)
BY DEF Info

LEMMA NoInfoIsInfo == Message!NoInfo \in Info /\ Message!NoInfo.length = 0
<1> DEFINE meant == [k \in {} |-> Message!Zero]
           words == [k \in 0..5 |-> Message!Junk]
<1>1. Message!NoInfo = [length |-> 0, ordered |-> TRUE, meant |-> meant, words |-> words]
  BY DEF Message!NoInfo, Message!LastWord
<1>2. words \in [0..5 -> MessageWord]
  BY DEF MessageWord
<1>3. DOMAIN meant = 0..0 - 1 /\ meant \in [0..0 - 1 -> MessageWord]
  OBVIOUS
<1>4. meant \in UNION {[0..n - 1 -> MessageWord] : n \in 0..6}
  BY <1>3
<1> HIDE DEF meant, words
<1>5. Faithful(Message!NoInfo)
  BY <1>1, <1>3 DEF Faithful
<1> QED
  BY <1>1, <1>2, <1>3, <1>4, <1>5 DEF Info

LEMMA InitMessages == Message!MessagesConstants /\ Message!Init => MessageInv
<1> SUFFICES ASSUME Message!MessagesConstants, Message!Init PROVE MessageInv
  OBVIOUS
<1> USE DEF Message!Init, Message!MessagesConstants
<1>1. MessageTypes
  BY DEF MessageTypes, Message!LastWord, Message!InRegister, MessageWord
<1>2. \A t \in Threads : calls[t].at = "user"
  BY DEF Message!User
<1>3. RepliesOwed
  BY DEF RepliesOwed
<1> QED
  BY <1>1, <1>2, <1>3 DEF MessageInv, Astray, Delivered, Arrived

\* Threads that a step leaves where they were keep their promises.
LEMMA Untouched ==
    ASSUME NEW t \in Threads, calls'[t] = calls[t], buffer'[t] = buffer[t], local'[t] = local[t],
           Delivered(t), Arrived(t)
    PROVE  Delivered(t)' /\ Arrived(t)'
BY DEF Delivered, Arrived, MayBeOld, Message!Found

\* A message as it is when the call that sends it enters the kernel.
Composed(t, w, length, nulls, late) ==
    [length |-> length, ordered |-> w.clobber,
     meant |-> [k \in 0..length - 1 |->
                   IF w.takes = "local" /\ k \in nulls THEN Message!Zero
                   ELSE Message!Own(t, Message!Place(w, k), k)],
     words |-> [k \in 0..Message!LastWord |->
                   IF k \in Message!InRegister THEN Message!Register(t, w, length, nulls, k)
                   ELSE IF k \in late THEN Message!Old ELSE buffer'[t][k]]]

\* A call that takes its message from where the caller has composed it sends what was meant.
LEMMA ComposedIsInfo ==
    ASSUME Message!MessagesConstants, MessageInv,
           NEW t \in Threads, NEW w \in Message!Wrappers, NEW length \in Lengths,
           NEW nulls \in Nulls, NEW late \in SUBSET Message!InBuffer,
           Message!Enter(t, w, length, nulls, late)
    PROVE  /\ Composed(t, w, length, nulls, late) \in Info
           /\ buffer' \in [Threads -> [0..5 -> MessageWord]]
           /\ local' \in [Threads -> [0..3 -> MessageWord]]
           /\ calls' = [calls EXCEPT ![t] =
                  [at |-> IF Message!Sends(w) THEN "sending" ELSE "receiving", call |-> w,
                   nulls |-> nulls, info |-> Composed(t, w, length, nulls, late)]]
<1> DEFINE info == Composed(t, w, length, nulls, late)
           FromBuffer(k) == k < length /\ Message!Place(w, k) = "buffer"
           FromLocal(k) == k < length /\ Message!Place(w, k) = "local"
<1>1. length \in 0..6 /\ nulls \subseteq 0..3
  BY DEF Message!MessagesConstants, Message!LastWord, Message!InRegister
<1>2. /\ buffer \in [Threads -> [0..5 -> MessageWord]]
      /\ local \in [Threads -> [0..3 -> MessageWord]]
  BY DEF MessageInv, MessageTypes
<1>3. WrapperOK(w)
  BY WrapperFacts
<1>4. \A k \in 0..5, place \in {"buffer", "local"} : Message!Own(t, place, k) \in MessageWord
  BY DEF MessageWord
<1>5. Message!Zero \in MessageWord /\ Message!Old \in MessageWord
  BY DEF MessageWord
<1>6. \A k : Message!Place(w, k) \in {"buffer", "local"}
  BY DEF Message!Place
<1>7. buffer'[t] = [k \in 0..5 |-> IF FromBuffer(k) THEN Message!Own(t, "buffer", k) ELSE buffer[t][k]]
      /\ buffer' = [buffer EXCEPT ![t] = buffer'[t]]
  BY <1>2 DEF Message!Enter
<1>8. local'[t] = [k \in 0..3 |-> IF FromLocal(k) THEN Message!Own(t, "local", k) ELSE local[t][k]]
      /\ local' = [local EXCEPT ![t] = local'[t]]
  BY <1>2 DEF Message!Enter
<1>9. buffer'[t] \in [0..5 -> MessageWord] /\ local'[t] \in [0..3 -> MessageWord]
  BY <1>2, <1>4, <1>7, <1>8
<1>10. /\ buffer' \in [Threads -> [0..5 -> MessageWord]]
       /\ local' \in [Threads -> [0..3 -> MessageWord]]
  BY <1>2, <1>7, <1>8, <1>9
<1>11. /\ info.length = length /\ info.ordered = w.clobber
       /\ info.meant = [k \in 0..length - 1 |->
                           IF w.takes = "local" /\ k \in nulls THEN Message!Zero
                           ELSE Message!Own(t, Message!Place(w, k), k)]
       /\ info.words = [k \in 0..5 |->
                           IF k \in Message!InRegister THEN Message!Register(t, w, length, nulls, k)
                           ELSE IF k \in late THEN Message!Old ELSE buffer'[t][k]]
       /\ info = [length |-> info.length, ordered |-> info.ordered, meant |-> info.meant,
                   words |-> info.words]
  BY DEF Composed, Message!LastWord
<1> HIDE DEF info
<1>12. info.meant \in [0..length - 1 -> MessageWord]
  BY <1>1, <1>4, <1>5, <1>6, <1>11
<1>13. info.words \in [0..5 -> MessageWord]
  <2>1. \A k \in Message!InRegister : Message!Register(t, w, length, nulls, k) \in MessageWord
    BY <1>5, <1>9 DEF Message!Register, Message!InRegister
  <2> QED
    BY <1>5, <1>9, <1>11, <2>1
<1>14. ASSUME NEW k \in 0..length - 1
       PROVE  MayBeOld(info, k, info.words[k]) \/ info.words[k] = info.meant[k]
  <2>0. k \in 0..5 /\ k < length /\ w.takes \in {"buffer", "local"}
        /\ info.words[k] = (IF k \in Message!InRegister THEN Message!Register(t, w, length, nulls, k)
                           ELSE IF k \in late THEN Message!Old ELSE buffer'[t][k])
        /\ info.meant[k] = (IF w.takes = "local" /\ k \in nulls THEN Message!Zero
                           ELSE Message!Own(t, Message!Place(w, k), k))
    BY <1>1, <1>3, <1>11 DEF WrapperOK, Message!Enter
  <2>1. CASE k \in Message!InRegister /\ w.takes = "buffer"
    BY <1>7, <2>0, <2>1 DEF Message!Register, Message!Place
  <2>2. CASE k \in Message!InRegister /\ w.takes = "local"
    BY <1>8, <2>0, <2>2 DEF Message!Register, Message!Place, Message!InRegister
  <2>3. CASE k \notin Message!InRegister
    <3>1. k \in Message!InBuffer /\ k \notin nulls /\ Message!Place(w, k) = "buffer"
      BY <1>1, <2>0, <2>3 DEF Message!InRegister, Message!InBuffer, Message!LastWord, Message!Place
    <3>2. CASE k \in late
      <4>1. ~w.clobber
        BY <3>2 DEF Message!Enter
      <4> QED
        BY <1>11, <2>0, <2>3, <3>1, <3>2, <4>1 DEF MayBeOld
    <3>3. CASE k \notin late
      BY <1>7, <2>0, <2>3, <3>1, <3>3
    <3> QED
      BY <3>2, <3>3
  <2> QED
    BY <2>0, <2>1, <2>2, <2>3
<1>15. info \in Info
  <2>1. info.meant \in UNION {[0..n - 1 -> MessageWord] : n \in 0..6}
    BY <1>1, <1>12
  <2>2. w.clobber \in BOOLEAN
    BY <1>3 DEF WrapperOK
  <2>3. DOMAIN info.meant = 0..info.length - 1
    BY <1>11, <1>12
  <2>4. Faithful(info)
    BY <1>11, <1>14, <2>3 DEF Faithful
  <2> QED
    BY <1>1, <1>11, <1>13, <2>1, <2>2, <2>3, <2>4 DEF Info
<1>16. calls' = [calls EXCEPT ![t] =
                  [at |-> IF Message!Sends(w) THEN "sending" ELSE "receiving", call |-> w,
                   nulls |-> nulls, info |-> info]]
  BY DEF Message!Enter, Composed, info
<1> QED
  BY <1>10, <1>15, <1>16 DEF info

LEMMA InACall ==
    ASSUME MessageTypes, NEW t \in Threads, calls[t].at # "user"
    PROVE  calls[t] \in Posted
BY DEF MessageTypes, Message!User

\* A thread that has no words of the kernel in its buffer promises nothing about them.
LEMMA Settled ==
    ASSUME NEW t \in Threads,
           calls'[t].at # "returned", calls'[t].at = "woken" => calls'[t].info.length = 0
    PROVE  Delivered(t)' /\ Arrived(t)'
BY DEF Delivered, Arrived, Message!InBuffer, Message!LastWord

\* The kernel wakes a thread with a message.
LEMMA Wakes ==
    ASSUME MessageTypes, NEW t \in Threads, calls[t] \in Posted, NEW info \in Info,
           calls[t].call.puts = "none" => info.length = 0,
           calls'[t] = Message!Woken(t, info), buffer'[t] = Message!WithWords(t, info)
    PROVE  /\ calls'[t] \in Posted
           /\ buffer'[t] \in [0..5 -> MessageWord]
           /\ Delivered(t)' /\ Arrived(t)'
<1>1. /\ calls'[t] \in Posted /\ calls'[t].at = "woken" /\ calls'[t].info = info
      /\ calls'[t].call = calls[t].call
  BY DEF Posted, Message!Woken
<1>2. info.words \in [0..5 -> MessageWord] /\ info.length \in 0..6
  BY InfoParts
<1>3. buffer[t] \in [0..5 -> MessageWord]
  BY DEF MessageTypes
<1>4. buffer'[t] = [k \in 0..5 |-> IF k \in Message!InBuffer /\ k < info.length
                                  THEN info.words[k] ELSE buffer[t][k]]
  BY <1>3 DEF Message!WithWords
<1>5. Message!InBuffer \subseteq 0..5
  BY DEF Message!InBuffer, Message!LastWord
<1>6. Delivered(t)'
  BY <1>1, <1>4, <1>5 DEF Delivered
<1>7. Arrived(t)'
  BY <1>1 DEF Arrived
<1> QED
  BY <1>1, <1>2, <1>3, <1>4, <1>6, <1>7

\* How a thread goes on that has sent.
LEMMA GoesOn ==
    ASSUME MessageTypes, NEW s \in Threads, calls[s].at = "sending", NEW noted \in BOOLEAN
    PROVE  LET next == Message!AfterSend(s, noted)
           IN  /\ next \in Posted /\ next.at \in {"calling", "stuck", "receiving", "woken"}
               /\ next.call = calls[s].call
               /\ next.at = "woken" => next.info.length = 0
               /\ next.at = "calling" => calls[s].call.sys = "Call"
               /\ noted /\ calls[s].call.sys = "Call" => next.at = "calling"
               /\ calls[s].call = Message!NBSendWaitWithMRs => next.at = "stuck"
<1>1. calls[s] \in Posted
  BY InACall
<1> DEFINE next == Message!AfterSend(s, noted)
<1>2. CASE calls[s].call.sys = "Call"
  <2>1. next = [calls[s] EXCEPT !.at = IF noted THEN "calling" ELSE "stuck"]
    BY <1>2 DEF Message!AfterSend
  <2> QED
    BY <1>1, <1>2, <2>1, AstrayFacts DEF Posted
<1>3. CASE calls[s].call.sys # "Call" /\ Message!ReceivesOn(calls[s].call) # "none"
  <2> DEFINE named == Message!ReplyObject(calls[s].call) \in {"none", "reply"}
  <2>1. next = [calls[s] EXCEPT !.at = IF named THEN "receiving" ELSE "stuck"]
    BY <1>3 DEF Message!AfterSend
  <2>2. calls[s].call = Message!NBSendWaitWithMRs => ~named
    BY AstrayFacts
  <2> HIDE DEF named
  <2> QED
    BY <1>1, <1>3, <2>1, <2>2 DEF Posted
<1>4. CASE calls[s].call.sys # "Call" /\ Message!ReceivesOn(calls[s].call) = "none"
  <2>1. next = Message!Woken(s, Message!NoInfo)
    BY <1>4 DEF Message!AfterSend
  <2> QED
    BY <1>1, <1>4, <2>1, NoInfoIsInfo, AstrayFacts DEF Posted, Message!Woken
<1> QED
  BY <1>2, <1>3, <1>4

\* The callers that a reply object forgets wait forever; nothing else happens to a thread.
LEMMA Forgets ==
    ASSUME MessageInv, NEW r \in Threads, NEW t \in Threads
    PROVE  /\ DOMAIN Message!Forgotten(r) = Threads
           /\ Message!Forgotten(r)[t] \in {Message!User} \cup Posted
           /\ \/ Message!Forgotten(r)[t] = calls[t]
              \/ /\ reply[r] = t /\ Message!ReplyObject(calls[r].call) = "reply"
                 /\ Message!Forgotten(r)[t].at = "stuck"
<1>1. CASE reply[r] = t /\ Message!ReplyObject(calls[r].call) = "reply"
  <2>1. calls[t].at = "calling"
    BY <1>1 DEF MessageInv, RepliesOwed
  <2>2. calls[t] \in Posted
    BY <2>1, InACall DEF MessageInv
  <2>3. Message!Forgotten(r)[t] = [calls[t] EXCEPT !.at = "stuck"]
    BY <1>1 DEF Message!Forgotten
  <2>4. Message!Forgotten(r)[t] \in Posted /\ Message!Forgotten(r)[t].at = "stuck"
    BY <2>2, <2>3 DEF Posted
  <2> QED
    BY <1>1, <2>4 DEF Message!Forgotten
<1>2. CASE ~(reply[r] = t /\ Message!ReplyObject(calls[r].call) = "reply")
  <2>1. Message!Forgotten(r)[t] = calls[t]
    BY <1>2 DEF Message!Forgotten
  <2> QED
    BY <2>1 DEF Message!Forgotten, MessageInv, MessageTypes
<1> QED
  BY <1>1, <1>2

LEMMA EnterKeeps ==
    ASSUME Message!MessagesConstants, MessageInv,
           NEW t \in Threads, NEW w \in Message!Wrappers, NEW length \in Lengths,
           NEW nulls \in Nulls, NEW late \in SUBSET Message!InBuffer,
           Message!Enter(t, w, length, nulls, late)
    PROVE  MessageInv'
<1> DEFINE info == Composed(t, w, length, nulls, late)
           next == [at |-> IF Message!Sends(w) THEN "sending" ELSE "receiving", call |-> w,
                    nulls |-> nulls, info |-> info]
<1>1. /\ info \in Info
      /\ buffer' \in [Threads -> [0..5 -> MessageWord]]
      /\ local' \in [Threads -> [0..3 -> MessageWord]]
      /\ calls' = [calls EXCEPT ![t] = next]
  BY ComposedIsInfo
<1>2. nulls \subseteq Message!InRegister
  BY DEF Message!MessagesConstants
<1> HIDE DEF info
<1>3. /\ next \in Posted /\ next.at \in {"sending", "receiving"}
      /\ next.call = Message!NBSendWaitWithMRs => next.at = "sending"
  BY <1>1, <1>2, AstrayFacts DEF Posted
<1> HIDE DEF next
<1>4. MessageTypes
  BY DEF MessageInv
<1>5. reply' = reply /\ calls[t].at = "user"
  BY DEF Message!Enter
<1>6. calls \in [Threads -> {Message!User} \cup Posted] /\ reply \in [Threads -> Threads \cup {"nobody"}]
  BY <1>4 DEF MessageTypes
<1>7. MessageTypes'
  BY <1>1, <1>3, <1>5, <1>6 DEF MessageTypes
<1>8. calls'[t] = next /\ \A u \in Threads \ {t} : calls'[u] = calls[u]
  BY <1>1, <1>6
<1>9. ASSUME NEW u \in Threads PROVE Delivered(u)' /\ Arrived(u)'
  <2>1. CASE u = t
    BY <1>3, <1>8, <2>1, Settled
  <2>2. CASE u # t
    <3>1. buffer'[u] = buffer[u] /\ local'[u] = local[u]
      BY <2>2, <1>4 DEF Message!Enter, MessageTypes
    <3> QED
      BY <1>8, <2>2, <3>1, Untouched DEF MessageInv
  <2> QED
    BY <2>1, <2>2
<1>10. \A u \in Threads : calls'[u].at = "calling" => calls'[u].call.sys = "Call"
  BY <1>3, <1>8 DEF MessageInv
<1>11. RepliesOwed'
  BY <1>5, <1>6, <1>8 DEF MessageInv, RepliesOwed
<1>12. \A u \in Threads : Astray(u)'
  BY <1>3, <1>8 DEF MessageInv, Astray
<1> QED
  BY <1>7, <1>9, <1>10, <1>11, <1>12 DEF MessageInv

LEMMA TransferKeeps ==
    ASSUME Message!MessagesConstants, MessageInv,
           NEW s \in Threads, NEW r \in Threads, r # s, Message!Transfer(s, r)
    PROVE  MessageInv'
<1> DEFINE noted == Message!ReplyObject(calls[r].call) = "reply"
           info == calls[s].info
<1>1. /\ calls[s].at = "sending" /\ calls[r].at = "receiving"
      /\ Message!ReceivesOn(calls[r].call) = "src"
      /\ calls' = [Message!Forgotten(r) EXCEPT ![r] = Message!Woken(r, info),
                                               ![s] = Message!AfterSend(s, noted)]
      /\ reply' = IF noted
                  THEN [reply EXCEPT ![r] = IF calls[s].call.sys = "Call" THEN s ELSE "nobody"]
                  ELSE reply
      /\ buffer' = [buffer EXCEPT ![r] = Message!WithWords(r, info)]
      /\ local' = local
  BY DEF Message!Transfer, Message!Receiving
<1>2. MessageTypes /\ RepliesOwed /\ "nobody" \notin Threads
  BY DEF MessageInv, Message!MessagesConstants
<1>3. calls[s] \in Posted /\ calls[r] \in Posted
  BY <1>1, <1>2, InACall
<1>4. info \in Info /\ calls[r].call \in Message!Wrappers
  BY <1>3 DEF Posted
<1>5. calls[r].call.puts # "none"
  BY <1>1, <1>4, WrapperFacts DEF WrapperOK
<1> HIDE DEF info
<1>6. noted \in BOOLEAN
  OBVIOUS
<1> HIDE DEF noted
<1>7. /\ calls'[r] = Message!Woken(r, info)
      /\ calls'[s] = Message!AfterSend(s, noted)
      /\ DOMAIN calls' = Threads /\ calls' = [t \in Threads |-> calls'[t]]
      /\ \A t \in Threads \ {r, s} : calls'[t] = Message!Forgotten(r)[t]
  <2>1. DOMAIN Message!Forgotten(r) = Threads
    BY Forgets
  <2> QED
    BY <1>1, <2>1
<1>8. buffer \in [Threads -> [0..5 -> MessageWord]] /\ reply \in [Threads -> Threads \cup {"nobody"}]
  BY <1>2 DEF MessageTypes
<1>9. /\ buffer'[r] = Message!WithWords(r, info)
      /\ \A t \in Threads \ {r} : buffer'[t] = buffer[t]
  BY <1>1, <1>8
<1>10. /\ calls'[r] \in Posted /\ buffer'[r] \in [0..5 -> MessageWord]
       /\ Delivered(r)' /\ Arrived(r)'
  BY <1>2, <1>3, <1>4, <1>5, <1>7, <1>9, Wakes
<1>11. /\ calls'[s] \in Posted
       /\ calls'[s].at \in {"calling", "stuck", "receiving", "woken"}
       /\ calls'[s].at = "woken" => calls'[s].info.length = 0
       /\ calls'[s].call = calls[s].call
       /\ calls'[s].at = "calling" => calls[s].call.sys = "Call"
       /\ noted /\ calls[s].call.sys = "Call" => calls'[s].at = "calling"
  BY <1>1, <1>2, <1>6, <1>7, GoesOn
<1>12. \A t \in Threads \ {r, s} :
          /\ calls'[t] \in {Message!User} \cup Posted
          /\ \/ calls'[t] = calls[t]
             \/ reply[r] = t /\ noted /\ calls'[t].at = "stuck"
  BY <1>7, Forgets DEF noted
<1>13. MessageTypes'
  <2>1. calls' \in [Threads -> {Message!User} \cup Posted]
    BY <1>7, <1>10, <1>11, <1>12
  <2>2. reply' \in [Threads -> Threads \cup {"nobody"}]
    BY <1>1, <1>8
  <2>3. buffer' \in [Threads -> [0..5 -> MessageWord]]
    BY <1>1, <1>8, <1>9, <1>10
  <2> QED
    BY <1>1, <1>2, <2>1, <2>2, <2>3 DEF MessageTypes
<1>14. ASSUME NEW t \in Threads PROVE Delivered(t)' /\ Arrived(t)'
  <2>1. CASE t = r
    BY <1>10, <2>1
  <2>2. CASE t = s
    BY <1>11, <2>2, Settled
  <2>3. CASE t \notin {r, s}
    <3>1. CASE calls'[t] = calls[t]
      BY <1>1, <1>9, <2>3, <3>1, Untouched DEF MessageInv
    <3>2. CASE calls'[t].at = "stuck"
      BY <3>2, Settled
    <3> QED
      BY <1>12, <2>3, <3>1, <3>2
  <2> QED
    BY <2>1, <2>2, <2>3
<1>15. ASSUME NEW t \in Threads, calls'[t].at = "calling" PROVE calls'[t].call.sys = "Call"
  <2>1. CASE t = r
    BY <1>7, <1>15, <2>1 DEF Message!Woken
  <2>2. CASE t = s
    BY <1>11, <1>15, <2>2
  <2>3. CASE t \notin {r, s}
    BY <1>12, <1>15, <2>3 DEF MessageInv
  <2> QED
    BY <2>1, <2>2, <2>3
<1>16. \A x \in Threads : reply[x] # r /\ reply[x] # s
  BY <1>1, <1>2 DEF RepliesOwed
<1>17. RepliesOwed'
  <2>1. CASE noted
    <3>1. /\ reply'[r] = (IF calls[s].call.sys = "Call" THEN s ELSE "nobody")
          /\ \A x \in Threads \ {r} : reply'[x] = reply[x]
      BY <1>1, <1>8, <2>1
    <3>2. ASSUME NEW x \in Threads, reply'[x] \in Threads PROVE calls'[reply'[x]].at = "calling"
      <4>1. CASE x = r
        BY <1>2, <1>11, <2>1, <3>1, <3>2, <4>1
      <4>2. CASE x # r
        <5>1. reply[x] \in Threads \ {r, s} /\ calls[reply[x]].at = "calling" /\ reply[x] # reply[r]
          BY <1>2, <1>16, <3>1, <3>2, <4>2 DEF RepliesOwed
        <5> QED
          BY <1>12, <3>1, <4>2, <5>1
      <4> QED
        BY <4>1, <4>2
    <3>3. \A x, y \in Threads : reply'[x] = reply'[y] /\ reply'[x] # "nobody" => x = y
      BY <1>2, <1>16, <3>1 DEF RepliesOwed
    <3> QED
      BY <3>2, <3>3 DEF RepliesOwed
  <2>2. CASE ~noted
    <3>1. reply' = reply /\ \A t \in Threads \ {r, s} : calls'[t] = calls[t]
      BY <1>1, <1>12, <2>2
    <3> QED
      BY <1>2, <1>16, <3>1 DEF RepliesOwed
  <2> QED
    BY <2>1, <2>2
<1>18. calls[s].call # Message!NBSendWaitWithMRs /\ calls[r].call # Message!NBSendWaitWithMRs
  <2>1. Message!Invoked(calls[s].call) = "dest"
    BY DEF Message!Transfer
  <2> QED
    BY <1>1, <2>1, AstrayFacts DEF MessageInv, Astray
<1>19. ASSUME NEW t \in Threads PROVE Astray(t)'
  <2>1. CASE t = r
    BY <1>7, <1>18, <2>1 DEF Astray, Message!Woken
  <2>2. CASE t = s
    BY <1>11, <1>18, <2>2 DEF Astray
  <2>3. CASE t \notin {r, s}
    BY <1>12, <2>3 DEF MessageInv, Astray
  <2> QED
    BY <2>1, <2>2, <2>3
<1> QED
  BY <1>13, <1>14, <1>15, <1>17, <1>19 DEF MessageInv

\* Steps in which one thread goes on by itself and no message is written.
LEMMA OneGoesOn ==
    ASSUME MessageInv, NEW s \in Threads, calls[s].at # "calling",
           buffer' = buffer, local' = local, reply' = reply,
           calls' = [calls EXCEPT ![s] = calls'[s]],
           calls'[s] \in Posted, calls'[s].at \notin {"returned", "calling"},
           calls'[s].at = "woken" => calls'[s].info.length = 0,
           calls'[s].call = Message!NBSendWaitWithMRs => calls'[s].at \in {"sending", "stuck"}
    PROVE  MessageInv'
<1>1. MessageTypes /\ RepliesOwed
  BY DEF MessageInv
<1>2. \A t \in Threads \ {s} : calls'[t] = calls[t]
  BY <1>1 DEF MessageTypes
<1>3. MessageTypes'
  BY <1>1 DEF MessageTypes
<1>4. ASSUME NEW t \in Threads PROVE Delivered(t)' /\ Arrived(t)'
  <2>1. CASE t = s
    BY <2>1, Settled
  <2>2. CASE t # s
    BY <1>2, <2>2, Untouched DEF MessageInv
  <2> QED
    BY <2>1, <2>2
<1>5. \A t \in Threads : calls'[t].at = "calling" => calls'[t].call.sys = "Call"
  BY <1>2 DEF MessageInv
<1>6. RepliesOwed'
  BY <1>1, <1>2 DEF RepliesOwed
<1>7. \A t \in Threads : Astray(t)'
  BY <1>2 DEF MessageInv, Astray
<1> QED
  BY <1>3, <1>4, <1>5, <1>6, <1>7 DEF MessageInv

LEMMA DropKeeps ==
    ASSUME MessageInv, NEW s \in Threads, Message!Drop(s)
    PROVE  MessageInv'
<1>1. /\ calls[s].at = "sending"
      /\ calls' = [calls EXCEPT ![s] = Message!AfterSend(s, FALSE)]
      /\ buffer' = buffer /\ local' = local /\ reply' = reply
  BY DEF Message!Drop
<1>2. MessageTypes /\ calls'[s] = Message!AfterSend(s, FALSE)
  BY <1>1 DEF MessageInv, MessageTypes
<1>3. /\ calls'[s] \in Posted
      /\ calls'[s].at \in {"calling", "stuck", "receiving", "woken"}
      /\ calls'[s].at = "woken" => calls'[s].info.length = 0
      /\ calls'[s].call = Message!NBSendWaitWithMRs => calls'[s].at = "stuck"
  BY <1>1, <1>2, GoesOn
<1>4. calls'[s].at # "calling"
  <2>1. CASE calls[s].call.sys = "Call"
    <3>1. calls'[s] = [calls[s] EXCEPT !.at = "stuck"]
      BY <1>2, <2>1 DEF Message!AfterSend
    <3>2. calls[s] \in Posted
      BY <1>1, <1>2, InACall
    <3> QED
      BY <3>1, <3>2 DEF Posted
  <2>2. CASE calls[s].call.sys # "Call"
    BY <1>1, <1>2, <2>2, GoesOn
  <2> QED
    BY <2>1, <2>2
<1> QED
  BY <1>1, <1>2, <1>3, <1>4, OneGoesOn

LEMMA AnswerKeeps ==
    ASSUME Message!MessagesConstants, MessageInv, NEW s \in Threads, Message!Answer(s)
    PROVE  MessageInv'
<1> DEFINE info == calls[s].info
<1>1. MessageTypes /\ RepliesOwed /\ "nobody" \notin Threads
  BY DEF MessageInv, Message!MessagesConstants
<1>2. /\ calls[s].at = "sending" /\ reply' = [reply EXCEPT ![s] = "nobody"] /\ local' = local
  BY DEF Message!Answer
<1>3. calls[s] \in Posted
  BY <1>1, <1>2, InACall
<1>4. /\ [calls[s] EXCEPT !.at = "receiving"] \in Posted
      /\ [calls[s] EXCEPT !.at = "receiving"].at = "receiving"
      /\ [calls[s] EXCEPT !.at = "receiving"].call # Message!NBSendWaitWithMRs
  <2>1. Message!Invoked(calls[s].call) = "reply"
    BY DEF Message!Answer
  <2>2. calls[s].call # Message!NBSendWaitWithMRs
    BY <2>1, AstrayFacts
  <2>3. [calls[s] EXCEPT !.at = "receiving"].call = calls[s].call
    BY <1>3 DEF Posted
  <2> QED
    BY <1>3, <2>2, <2>3 DEF Posted
<1>5. /\ reply \in [Threads -> Threads \cup {"nobody"}]
      /\ calls \in [Threads -> {Message!User} \cup Posted]
      /\ buffer \in [Threads -> [0..5 -> MessageWord]]
  BY <1>1 DEF MessageTypes
<1>6. reply'[s] = "nobody" /\ \A x \in Threads \ {s} : reply'[x] = reply[x]
      /\ reply' \in [Threads -> Threads \cup {"nobody"}]
  BY <1>2, <1>5
<1>7. CASE reply[s] = "nobody"
  <2>1. reply' = reply
    BY <1>2, <1>5, <1>7
  <2>2. calls' = [calls EXCEPT ![s].at = "receiving"] /\ buffer' = buffer
    BY <1>7 DEF Message!Answer
  <2>3. calls'[s] = [calls[s] EXCEPT !.at = "receiving"] /\ calls' = [calls EXCEPT ![s] = calls'[s]]
    BY <1>5, <2>2
  <2> QED
    BY <1>2, <1>4, <2>1, <2>2, <2>3, OneGoesOn
<1>8. CASE reply[s] # "nobody"
  <2>0. PICK r \in Threads : r = reply[s]
    BY <1>5, <1>8
  <2>1. r # s /\ calls[r].at = "calling"
    BY <1>1, <1>2, <2>0 DEF RepliesOwed
  <2>2. /\ calls' = [calls EXCEPT ![s].at = "receiving", ![r] = Message!Woken(r, info)]
        /\ buffer' = [buffer EXCEPT ![r] = Message!WithWords(r, info)]
    BY <1>8, <2>0 DEF Message!Answer
  <2>3. /\ calls'[s] = [calls[s] EXCEPT !.at = "receiving"]
        /\ calls'[r] = Message!Woken(r, info)
        /\ \A t \in Threads \ {s, r} : calls'[t] = calls[t]
        /\ buffer'[r] = Message!WithWords(r, info)
        /\ \A t \in Threads \ {r} : buffer'[t] = buffer[t]
    <3> HIDE DEF info
    <3> QED
      BY <1>5, <2>1, <2>2
  <2>4. calls[r] \in Posted
    BY <1>1, <2>1, InACall
  <2>5. calls[r].call \in Message!Wrappers /\ calls[r].call.sys = "Call" /\ info \in Info
    BY <1>3, <2>1, <2>4 DEF Posted, MessageInv
  <2>6. calls[r].call.puts # "none"
    BY <2>5, WrapperFacts DEF WrapperOK
  <2> HIDE DEF info
  <2>7. /\ calls'[r] \in Posted /\ buffer'[r] \in [0..5 -> MessageWord]
        /\ Delivered(r)' /\ Arrived(r)'
    BY <1>1, <2>1, <2>3, <2>4, <2>5, <2>6, Wakes
  <2>8. MessageTypes'
    <3>1. calls' = [t \in Threads |-> calls'[t]] /\ buffer' = [t \in Threads |-> buffer'[t]]
      BY <1>5, <2>2
    <3>2. calls' \in [Threads -> {Message!User} \cup Posted]
      <4>1. \A t \in Threads : calls'[t] \in {Message!User} \cup Posted
        BY <1>4, <1>5, <2>3, <2>7
      <4> QED
        BY <3>1, <4>1
    <3>3. buffer' \in [Threads -> [0..5 -> MessageWord]]
      BY <1>5, <2>3, <2>7, <3>1
    <3> QED
      BY <1>1, <1>2, <1>6, <3>2, <3>3 DEF MessageTypes
  <2>9. ASSUME NEW t \in Threads PROVE Delivered(t)' /\ Arrived(t)'
    <3>1. CASE t = r
      BY <2>7, <3>1
    <3>2. CASE t = s
      BY <1>4, <2>3, <3>2, Settled
    <3>3. CASE t \notin {r, s}
      BY <1>2, <2>3, <3>3, Untouched DEF MessageInv
    <3> QED
      BY <3>1, <3>2, <3>3
  <2>10. calls'[r].at = "woken"
    BY <2>3 DEF Message!Woken
  <2>11. \A t \in Threads : calls'[t].at = "calling" => calls'[t].call.sys = "Call"
    BY <1>4, <2>3, <2>10 DEF MessageInv
  <2>12. RepliesOwed'
    <3>1. \A x \in Threads \ {s} : reply[x] # r /\ reply[x] # s
      BY <1>1, <1>2, <1>8, <2>0, <2>1 DEF RepliesOwed
    <3> QED
      BY <1>1, <1>6, <2>3, <3>1 DEF RepliesOwed
  <2>13. calls'[r].call # Message!NBSendWaitWithMRs
    <3>1. calls[r].call # Message!NBSendWaitWithMRs
      BY <2>1 DEF MessageInv, Astray
    <3> QED
      BY <2>3, <3>1 DEF Message!Woken
  <2>14. \A t \in Threads : Astray(t)'
    BY <1>4, <2>3, <2>13 DEF MessageInv, Astray
  <2> QED
    BY <2>8, <2>9, <2>11, <2>12, <2>14 DEF MessageInv
<1> QED
  BY <1>7, <1>8

LEMMA FindNothingKeeps ==
    ASSUME Message!MessagesConstants, MessageInv, NEW r \in Threads, Message!FindNothing(r)
    PROVE  MessageInv'
<1> DEFINE noted == Message!ReplyObject(calls[r].call) = "reply"
           next == Message!Woken(r, Message!NoInfo)
<1>1. MessageTypes /\ RepliesOwed /\ "nobody" \notin Threads
  BY DEF MessageInv, Message!MessagesConstants
<1>2. /\ calls[r].at = "receiving"
      /\ calls' = [Message!Forgotten(r) EXCEPT ![r] = next]
      /\ reply' = IF noted THEN [reply EXCEPT ![r] = "nobody"] ELSE reply
      /\ buffer' = buffer /\ local' = local
  BY DEF Message!FindNothing
<1>3. calls[r] \in Posted
  BY <1>1, <1>2, InACall
<1>4. next \in Posted /\ next.at = "woken" /\ next.info.length = 0 /\ next.call = calls[r].call
  BY <1>3, NoInfoIsInfo DEF Posted, Message!Woken
<1> HIDE DEF next, noted
<1>5. /\ calls'[r] = next
      /\ calls' = [t \in Threads |-> calls'[t]]
      /\ \A t \in Threads \ {r} : calls'[t] = Message!Forgotten(r)[t]
  <2>1. DOMAIN Message!Forgotten(r) = Threads
    BY Forgets
  <2> QED
    BY <1>2, <2>1
<1>6. \A t \in Threads \ {r} :
          /\ calls'[t] \in {Message!User} \cup Posted
          /\ \/ calls'[t] = calls[t]
             \/ reply[r] = t /\ noted /\ calls'[t].at = "stuck"
  BY <1>5, Forgets DEF noted
<1>7. reply \in [Threads -> Threads \cup {"nobody"}]
  BY <1>1 DEF MessageTypes
<1>8. MessageTypes'
  <2>1. calls' \in [Threads -> {Message!User} \cup Posted]
    BY <1>4, <1>5, <1>6
  <2>2. reply' \in [Threads -> Threads \cup {"nobody"}]
    BY <1>2, <1>7
  <2> QED
    BY <1>1, <1>2, <2>1, <2>2 DEF MessageTypes
<1>9. ASSUME NEW t \in Threads PROVE Delivered(t)' /\ Arrived(t)'
  <2>1. CASE t = r
    BY <1>4, <1>5, <2>1, Settled
  <2>2. CASE t # r /\ calls'[t] = calls[t]
    BY <1>2, <2>2, Untouched DEF MessageInv
  <2>3. CASE t # r /\ calls'[t].at = "stuck"
    BY <2>3, Settled
  <2> QED
    BY <1>6, <2>1, <2>2, <2>3
<1>10. \A t \in Threads : calls'[t].at = "calling" => calls'[t].call.sys = "Call"
  BY <1>4, <1>5, <1>6 DEF MessageInv
<1>11. RepliesOwed'
  <2>1. \A x \in Threads : reply[x] # r
    BY <1>1, <1>2 DEF RepliesOwed
  <2>2. CASE noted
    <3>1. reply'[r] = "nobody" /\ \A x \in Threads \ {r} : reply'[x] = reply[x]
      BY <1>2, <1>7, <2>2
    <3>2. ASSUME NEW x \in Threads, reply'[x] \in Threads PROVE calls'[reply'[x]].at = "calling"
      <4>1. x # r /\ reply'[x] = reply[x] /\ reply[x] # reply[r] /\ reply[x] # r
            /\ calls[reply[x]].at = "calling"
        BY <1>1, <2>1, <3>1, <3>2 DEF RepliesOwed
      <4> QED
        BY <1>6, <3>2, <4>1
    <3> QED
      BY <1>1, <3>1, <3>2 DEF RepliesOwed
  <2>3. CASE ~noted
    BY <1>1, <1>2, <1>6, <2>1, <2>3 DEF RepliesOwed
  <2> QED
    BY <2>2, <2>3
<1>12. ASSUME NEW t \in Threads PROVE Astray(t)'
  <2>1. CASE t = r
    BY <1>2, <1>4, <1>5, <2>1 DEF MessageInv, Astray
  <2>2. CASE t # r
    BY <1>6, <2>2 DEF MessageInv, Astray
  <2> QED
    BY <2>1, <2>2
<1> QED
  BY <1>8, <1>9, <1>10, <1>11, <1>12 DEF MessageInv

\* Where the system call puts the words, the caller looks for them.
LEMMA ReturnKeeps ==
    ASSUME MessageInv, NEW t \in Threads, Message!Return(t)
    PROVE  MessageInv'
<1> DEFINE info == calls[t].info
           w == calls[t].call
<1>1. MessageTypes /\ RepliesOwed /\ Delivered(t)
  BY DEF MessageInv
<1>2. /\ calls[t].at = "woken" /\ reply' = reply
      /\ calls' = [calls EXCEPT ![t].at = "returned"]
  BY DEF Message!Return
<1>3. calls[t] \in Posted
  BY <1>1, <1>2, InACall
<1>4. info \in Info /\ w \in Message!Wrappers
  BY <1>3 DEF Posted
<1>5. /\ info.length \in 0..6 /\ info.meant \in [0..info.length - 1 -> MessageWord]
      /\ info.words \in [0..5 -> MessageWord]
      /\ Faithful(info)
  BY <1>4, InfoParts
<1>6. w.puts \in {"none", "buffer", "local"}
  BY <1>4, WrapperFacts DEF WrapperOK
<1>7. /\ w.puts = "none" => info.length = 0
      /\ \A k \in Message!InBuffer : k < info.length => buffer[t][k] = info.words[k]
  BY <1>1, <1>2 DEF Delivered
<1>8. /\ calls \in [Threads -> {Message!User} \cup Posted]
      /\ buffer \in [Threads -> [0..5 -> MessageWord]]
      /\ local \in [Threads -> [0..3 -> MessageWord]]
  BY <1>1 DEF MessageTypes
<1>9. /\ calls'[t] \in Posted /\ calls'[t].at = "returned" /\ calls'[t].call = w
      /\ calls'[t].nulls = calls[t].nulls /\ calls'[t].info = info
      /\ \A u \in Threads \ {t} : calls'[u] = calls[u]
      /\ calls' \in [Threads -> {Message!User} \cup Posted]
  <2>1. calls'[t] = [calls[t] EXCEPT !.at = "returned"]
        /\ \A u \in Threads \ {t} : calls'[u] = calls[u]
    BY <1>2, <1>8
  <2>2. /\ calls'[t] \in Posted /\ calls'[t].at = "returned" /\ calls'[t].call = w
        /\ calls'[t].nulls = calls[t].nulls /\ calls'[t].info = info
    BY <1>3, <2>1 DEF Posted
  <2>3. calls' = [calls EXCEPT ![t] = calls'[t]]
    BY <1>2, <1>8
  <2>4. calls' \in [Threads -> {Message!User} \cup Posted]
    BY <1>8, <2>2, <2>3
  <2> QED
    BY <2>1, <2>2, <2>4
<1> DEFINE got == [k \in 0..5 |-> IF k \in Message!InRegister THEN Message!Got(t, k) ELSE buffer[t][k]]
           gotLocal == [k \in 0..3 |-> IF k \in calls[t].nulls THEN local[t][k] ELSE Message!Got(t, k)]
<1>10. /\ buffer' = IF w.puts = "buffer" THEN [buffer EXCEPT ![t] = got] ELSE buffer
       /\ local' = IF w.puts = "local" THEN [local EXCEPT ![t] = gotLocal] ELSE local
  BY <1>8 DEF Message!Return
<1>11. \A k \in 0..5 : Message!Got(t, k) \in MessageWord
  BY <1>5 DEF Message!Got, MessageWord
<1>12. got \in [0..5 -> MessageWord] /\ gotLocal \in [0..3 -> MessageWord]
  BY <1>8, <1>11
<1>13. \A k \in 0..5 : k < info.length => Message!Got(t, k) = info.words[k]
  BY DEF Message!Got
<1>14. /\ \A k \in 0..5 : got[k] = IF k \in Message!InRegister THEN Message!Got(t, k) ELSE buffer[t][k]
       /\ \A k \in 0..3 : k \notin calls[t].nulls => gotLocal[k] = Message!Got(t, k)
  OBVIOUS
<1> HIDE DEF got, gotLocal, info, w
<1>15. /\ buffer' \in [Threads -> [0..5 -> MessageWord]]
       /\ local' \in [Threads -> [0..3 -> MessageWord]]
       /\ \A u \in Threads \ {t} : buffer'[u] = buffer[u] /\ local'[u] = local[u]
       /\ buffer'[t] = IF w.puts = "buffer" THEN got ELSE buffer[t]
       /\ local'[t] = IF w.puts = "local" THEN gotLocal ELSE local[t]
  BY <1>8, <1>10, <1>12
<1>16. MessageTypes'
  BY <1>1, <1>2, <1>9, <1>15 DEF MessageTypes
<1>17. Arrived(t)'
  <2> SUFFICES ASSUME NEW k \in 0..info.length - 1, k \notin calls[t].nulls
               PROVE  Message!Found(t, k)' = info.words[k]
    BY <1>5, <1>9 DEF Arrived, Faithful, MayBeOld
  <2>1. k \in 0..5 /\ k < info.length
    BY <1>5
  <2>2. w.puts \in {"buffer", "local"}
    BY <1>6, <1>7, <2>1
  <2>3. Message!Found(t, k)' = IF k \in Message!InRegister /\ w.puts = "local"
                              THEN local'[t][k] ELSE buffer'[t][k]
    BY <1>9 DEF Message!Found
  <2>4. CASE k \in Message!InRegister /\ w.puts = "local"
    BY <1>13, <1>14, <1>15, <2>1, <2>3, <2>4 DEF Message!InRegister
  <2>5. CASE k \in Message!InRegister /\ w.puts = "buffer"
    BY <1>13, <1>14, <1>15, <2>1, <2>3, <2>5
  <2>6. CASE k \notin Message!InRegister
    <3>1. k \in Message!InBuffer
      BY <2>1, <2>6 DEF Message!InRegister, Message!InBuffer, Message!LastWord
    <3> QED
      BY <1>7, <1>14, <1>15, <2>1, <2>3, <2>6, <3>1
  <2> QED
    BY <2>2, <2>4, <2>5, <2>6
<1>18. ASSUME NEW u \in Threads PROVE Delivered(u)' /\ Arrived(u)'
  <2>1. CASE u = t
    BY <1>9, <1>17, <2>1 DEF Delivered
  <2>2. CASE u # t
    BY <1>9, <1>15, <2>2, Untouched DEF MessageInv
  <2> QED
    BY <2>1, <2>2
<1>19. \A u \in Threads : calls'[u].at = "calling" => calls'[u].call.sys = "Call"
  BY <1>9 DEF MessageInv
<1>20. RepliesOwed'
  BY <1>1, <1>2, <1>9 DEF RepliesOwed
<1>21. w # Message!NBSendWaitWithMRs
  BY <1>2 DEF MessageInv, Astray, w
<1>22. \A u \in Threads : Astray(u)'
  BY <1>9, <1>21 DEF MessageInv, Astray
<1> QED
  BY <1>16, <1>18, <1>19, <1>20, <1>22 DEF MessageInv

LEMMA ResumeKeeps ==
    ASSUME MessageInv, NEW t \in Threads, Message!Resume(t)
    PROVE  MessageInv'
<1>1. MessageTypes /\ RepliesOwed
  BY DEF MessageInv
<1>2. /\ calls[t].at = "returned" /\ reply' = reply
      /\ calls' = [calls EXCEPT ![t] = Message!User]
      /\ buffer' = [buffer EXCEPT ![t] = [k \in DOMAIN @ |-> Message!Old]]
      /\ local' = [local EXCEPT ![t] = [k \in DOMAIN @ |-> Message!Old]]
  BY DEF Message!Resume
<1>3. Message!Old \in MessageWord /\ Message!User.at = "user"
  BY DEF MessageWord, Message!User
<1>4. MessageTypes'
  BY <1>1, <1>2, <1>3 DEF MessageTypes
<1>5. /\ calls'[t].at = "user"
      /\ \A u \in Threads \ {t} : calls'[u] = calls[u] /\ buffer'[u] = buffer[u] /\ local'[u] = local[u]
  BY <1>1, <1>2, <1>3 DEF MessageTypes
<1>6. ASSUME NEW u \in Threads PROVE Delivered(u)' /\ Arrived(u)'
  <2>1. CASE u = t
    BY <1>5, <2>1, Settled
  <2>2. CASE u # t
    BY <1>5, <2>2, Untouched DEF MessageInv
  <2> QED
    BY <2>1, <2>2
<1>7. \A u \in Threads : calls'[u].at = "calling" => calls'[u].call.sys = "Call"
  BY <1>5 DEF MessageInv
<1>8. RepliesOwed'
  BY <1>1, <1>2, <1>5 DEF RepliesOwed
<1>9. \A u \in Threads : Astray(u)'
  BY <1>5 DEF MessageInv, Astray
<1> QED
  BY <1>4, <1>6, <1>7, <1>8, <1>9 DEF MessageInv

LEMMA NextMessages == Message!MessagesConstants /\ MessageInv /\ Message!Next => MessageInv'
<1> SUFFICES ASSUME Message!MessagesConstants, MessageInv, Message!Next PROVE MessageInv'
  OBVIOUS
<1>1. PICK t \in Threads :
          \/ \E w \in Message!Wrappers, length \in Lengths, nulls \in Nulls, late \in SUBSET Message!InBuffer :
                 Message!Enter(t, w, length, nulls, late)
          \/ \E r \in Message!Others(t) : Message!Transfer(t, r)
          \/ Message!Drop(t) \/ Message!Answer(t) \/ Message!FindNothing(t)
          \/ Message!Return(t) \/ Message!Resume(t)
  BY Zenon DEF Message!Next
<1>2. \A r \in Message!Others(t) : r \in Threads /\ r # t
  BY DEF Message!Others
<1> QED
  BY <1>1, <1>2, EnterKeeps, TransferKeeps, DropKeeps, AnswerKeeps, FindNothingKeeps,
     ReturnKeeps, ResumeKeeps, Zenon

LEMMA MessagesIdle ==
    ASSUME MessageInv, UNCHANGED message_vars
    PROVE  MessageInv'
<1>1. buffer' = buffer /\ local' = local /\ calls' = calls /\ reply' = reply
  BY DEF message_vars
<1>2. MessageTypes' /\ RepliesOwed'
  BY <1>1 DEF MessageInv, MessageTypes, RepliesOwed
<1>3. \A t \in Threads : Delivered(t)' /\ Arrived(t)'
  BY <1>1, Untouched DEF MessageInv
<1>4. \A t \in Threads : Astray(t)'
  BY <1>1 DEF MessageInv, Astray
<1> QED
  BY <1>1, <1>2, <1>3, <1>4 DEF MessageInv

LEMMA DeliveredFromInv == MessageInv => MessageDelivered
<1> SUFFICES ASSUME MessageInv PROVE MessageDelivered
  OBVIOUS
<1>1. Message!MessageArrives
  BY DEF MessageInv, Arrived, MayBeOld, Message!MessageArrives
<1>2. ASSUME NEW t \in Threads, calls[t].at \in {"sending", "receiving"},
             calls[t].call # Message!NBSendWaitWithMRs
      PROVE  AsNamed(calls[t].call)
  <2>1. calls[t] \in Posted
    BY <1>2, InACall DEF MessageInv
  <2> QED
    BY <1>2, <2>1, WrapperFacts DEF Posted
<1>3. Message!InvokedAsNamed
  BY <1>2, Zenon DEF Message!InvokedAsNamed, AsNamed
<1>4. Message!MessageOfOneLost
  BY AstrayFacts DEF MessageInv, Astray, Message!MessageOfOneLost
<1> QED
  BY <1>1, <1>3, <1>4 DEF MessageDelivered, Message!MessageDelivered

(***************************************************************************)
(* Fault messages.                                                         *)
(***************************************************************************)
FaultKnown ==
    thread.state = "faulted" =>
        thread.kind \in Fault!FaultKinds /\ thread.length \in Fault!LengthsOf(thread.kind)

HandlerKnows ==
    handler.at # "waiting" =>
        /\ thread.state = "faulted"
        /\ handler.label = Fault!Layouts[thread.kind].tag

\* These message registers are still what the kernel sent.
Unspoilt(registers) == \A k \in registers : k < thread.length => mrs[k] = Fault!Sent(k)

StillThere == handler.at = "received" => Unspoilt(Fault!Left)

Uses == {"nothing", "public", "refusedAck", "stubs", "refused"}

FaultsInv ==
    /\ used \in Uses
    /\ mrs \in [Fault!MR -> SUBSET Fault!Bit]
    /\ FaultKnown /\ HandlerKnows /\ StillThere
    /\ HandlerTold /\ TimeoutReplyRestores

Distinct(names) == \A i, j \in DOMAIN names : names[i] = names[j] => i = j

LEMMA IndexOf ==
    ASSUME NEW names, Distinct(names), NEW i \in DOMAIN names
    PROVE  Fault!Index(names, names[i]) = i - 1
<1>1. \A j \in DOMAIN names : names[j] = names[i] => j = i
  BY DEF Distinct
<1>2. (CHOOSE j \in DOMAIN names : names[j] = names[i]) = i
  BY <1>1
<1> QED
  BY <1>2 DEF Fault!Index

\* What seL4_getFault relies on for one kind: it reads each message register once, in order,
\* for the parameter of that place, and the parameters are the fields of the kind.
ReadsInOrder(kind) ==
    /\ Len(Fault!Msg[kind]) \in 1..13
    /\ DOMAIN Fault!Msg[kind] = 1..Len(Fault!Msg[kind])
    /\ DOMAIN Fault!Params[kind] = DOMAIN Fault!Msg[kind]
    /\ Distinct(Fault!Msg[kind]) /\ Distinct(Fault!Params[kind])
    /\ Fault!getFault_Reads[kind] = Fault!Msg[kind]
    /\ \A i \in DOMAIN Fault!Msg[kind] : Fault!Meaning(Fault!Params[kind][i]) = Fault!Msg[kind][i]
    /\ \A f \in DOMAIN Fault!Layouts[kind].fields :
           \E i \in DOMAIN Fault!Msg[kind] : Fault!Params[kind][i] = f

LEMMA CapFaultInOrder == ReadsInOrder("CapFault")
<1>1. /\ Fault!Msg["CapFault"] = Fault!CapFault_Msg
      /\ Fault!getFault_Reads["CapFault"] = Fault!CapFault_Msg
      /\ Fault!Params["CapFault"] =
             <<"IP", "Addr", "InRecvPhase", "LookupFailureType", "MR4", "MR5", "MR6">>
      /\ Fault!Layouts["CapFault"] = Fault!CapFault
  BY DEF Fault!Msg, Fault!getFault_Reads, Fault!Params, Fault!Layouts, Fault!CapFault_Msg
<1>2. DOMAIN Fault!CapFault.fields =
          {"IP", "Addr", "InRecvPhase", "LookupFailureType", "MR4", "MR5", "MR6"}
  BY DEF Fault!CapFault, Fault!FaultKind, Fault!Kind
<1> QED
  BY <1>1, <1>2 DEF ReadsInOrder, Distinct, Fault!CapFault_Msg, Fault!Meaning

LEMMA UnknownSyscallInOrder == ReadsInOrder("UnknownSyscall")
<1>1. /\ Fault!Msg["UnknownSyscall"] = Fault!UnknownSyscall_Msg
      /\ Fault!getFault_Reads["UnknownSyscall"] = Fault!UnknownSyscall_Msg
      /\ Fault!Params["UnknownSyscall"] = Fault!UnknownSyscall_Msg
      /\ Fault!Layouts["UnknownSyscall"] = Fault!UnknownSyscall
  BY DEF Fault!Msg, Fault!getFault_Reads, Fault!Params, Fault!Layouts, Fault!UnknownSyscall_Msg
<1>2. DOMAIN Fault!UnknownSyscall.fields =
          {"X0", "X1", "X2", "X3", "X4", "X5", "X6", "X7", "FaultIP", "SP", "LR", "SPSR",
           "Syscall"}
  BY DEF Fault!UnknownSyscall, Fault!FaultKind, Fault!Kind
<1>3. /\ Distinct(Fault!UnknownSyscall_Msg) /\ Len(Fault!UnknownSyscall_Msg) = 13
      /\ DOMAIN Fault!UnknownSyscall_Msg = 1..13
  BY DEF Distinct, Fault!UnknownSyscall_Msg
<1>4. \A i \in 1..13 : Fault!Meaning(Fault!UnknownSyscall_Msg[i]) = Fault!UnknownSyscall_Msg[i]
  BY DEF Fault!UnknownSyscall_Msg, Fault!Meaning
<1>5. \A f \in DOMAIN Fault!UnknownSyscall.fields : \E i \in 1..13 : Fault!UnknownSyscall_Msg[i] = f
  BY <1>2 DEF Fault!UnknownSyscall_Msg
<1> QED
  BY <1>1, <1>3, <1>4, <1>5 DEF ReadsInOrder

LEMMA UserExceptionInOrder == ReadsInOrder("UserException")
<1>1. /\ Fault!Msg["UserException"] = Fault!UserException_Msg
      /\ Fault!getFault_Reads["UserException"] = Fault!UserException_Msg
      /\ Fault!Params["UserException"] = <<"FaultIP", "Stack", "SPSR", "Number", "Code">>
      /\ Fault!Layouts["UserException"] = Fault!UserException
  BY DEF Fault!Msg, Fault!getFault_Reads, Fault!Params, Fault!Layouts, Fault!UserException_Msg
<1>2. DOMAIN Fault!UserException.fields = {"FaultIP", "Stack", "SPSR", "Number", "Code"}
  BY DEF Fault!UserException, Fault!FaultKind, Fault!Kind
<1> QED
  BY <1>1, <1>2 DEF ReadsInOrder, Distinct, Fault!UserException_Msg, Fault!Meaning

LEMMA VMFaultInOrder == ReadsInOrder("VMFault")
<1>1. /\ Fault!Msg["VMFault"] = Fault!VMFault_Msg
      /\ Fault!getFault_Reads["VMFault"] = Fault!VMFault_Msg
      /\ Fault!Params["VMFault"] = <<"IP", "Addr", "PrefetchFault", "FSR">>
      /\ Fault!Layouts["VMFault"] = Fault!VMFault
  BY DEF Fault!Msg, Fault!getFault_Reads, Fault!Params, Fault!Layouts, Fault!VMFault_Msg
<1>2. DOMAIN Fault!VMFault.fields = {"IP", "Addr", "PrefetchFault", "FSR"}
  BY DEF Fault!VMFault, Fault!FaultKind, Fault!Kind
<1> QED
  BY <1>1, <1>2 DEF ReadsInOrder, Distinct, Fault!VMFault_Msg, Fault!Meaning

LEMMA TimeoutInOrder == ReadsInOrder("Timeout")
<1>1. /\ Fault!Msg["Timeout"] = Fault!TimeoutMsg
      /\ Fault!getFault_Reads["Timeout"] = Fault!TimeoutMsg
      /\ Fault!Params["Timeout"] = <<"data", "consumed">>
      /\ Fault!Layouts["Timeout"] = Fault!Timeout
  BY DEF Fault!Msg, Fault!getFault_Reads, Fault!Params, Fault!Layouts, Fault!TimeoutMsg
<1>2. DOMAIN Fault!Timeout.fields = {"data", "consumed"}
  BY DEF Fault!Timeout, Fault!FaultKind, Fault!Kind
<1> QED
  BY <1>1, <1>2 DEF ReadsInOrder, Distinct, Fault!TimeoutMsg, Fault!Meaning

LEMMA KindNames ==
    Fault!FaultKinds = {"CapFault", "UnknownSyscall", "UserException", "VMFault", "Timeout"}
BY DEF Fault!FaultKinds, Fault!Msg

LEMMA EveryKindInOrder == \A kind \in Fault!FaultKinds : ReadsInOrder(kind)
BY KindNames, CapFaultInOrder, UnknownSyscallInOrder, UserExceptionInOrder, VMFaultInOrder,
   TimeoutInOrder, Zenon

(* Layouts of the kinds *)

\* Every field of a fault kind has a word of its own, and word 0 has the tag.
OwnWords(l) ==
    /\ l.type = "seL4_Fault" /\ l.size = 14 /\ l.tag \subseteq 0..3
    /\ \A f \in DOMAIN l.fields :
           l.fields[f].word \in 1..13 /\ l.fields[f] = Fault!WholeWord(l.fields[f].word)
    /\ \A f, g \in DOMAIN l.fields : l.fields[f].word = l.fields[g].word => f = g

LEMMA KindsHaveOwnWords ==
    \A kind \in Fault!FaultKinds : OwnWords(Fault!Layouts[kind])
<1> USE DEF OwnWords, Fault!FaultKind, Fault!Kind, Fault!WholeWord, Fault!Field
<1>1. OwnWords(Fault!CapFault)
  BY SMTT(60) DEF Fault!CapFault, Fault!CapFault_IP, Fault!CapFault_Addr, Fault!CapFault_InRecvPhase,
         Fault!CapFault_LookupFailureType, Fault!CapFault_MR4, Fault!CapFault_MR5,
         Fault!CapFault_MR6
<1>2. OwnWords(Fault!UnknownSyscall)
  BY SMTT(60) DEF Fault!UnknownSyscall, Fault!UnknownSyscall_X0, Fault!UnknownSyscall_X1,
         Fault!UnknownSyscall_X2, Fault!UnknownSyscall_X3, Fault!UnknownSyscall_X4,
         Fault!UnknownSyscall_X5, Fault!UnknownSyscall_X6, Fault!UnknownSyscall_X7,
         Fault!UnknownSyscall_FaultIP, Fault!UnknownSyscall_SP, Fault!UnknownSyscall_LR,
         Fault!UnknownSyscall_SPSR, Fault!UnknownSyscall_Syscall
<1>3. OwnWords(Fault!UserException)
  BY SMTT(60) DEF Fault!UserException, Fault!UserException_FaultIP, Fault!UserException_Stack,
         Fault!UserException_SPSR, Fault!UserException_Number, Fault!UserException_Code
<1>4. OwnWords(Fault!Timeout)
  BY DEF Fault!Timeout, Fault!Timeout_data, Fault!Timeout_consumed
<1>5. OwnWords(Fault!VMFault)
  BY SMTT(60) DEF Fault!VMFault, Fault!VMFault_IP, Fault!VMFault_Addr, Fault!VMFault_PrefetchFault,
         Fault!VMFault_FSR
<1> HIDE DEF OwnWords
<1> QED
  BY <1>1, <1>2, <1>3, <1>4, <1>5, KindNames DEF Fault!Layouts

LEMMA TagOfKind ==
    ASSUME NEW kind \in Fault!FaultKinds
    PROVE  (CHOOSE k \in Fault!FaultKinds : Fault!Layouts[k].tag = Fault!Layouts[kind].tag) = kind
<1> DEFINE Tag(k) == Fault!Layouts[k].tag
<1>1. /\ Tag("CapFault") = {0} /\ Tag("UnknownSyscall") = {1} /\ Tag("UserException") = {0, 1}
      /\ Tag("Timeout") = {0, 2} /\ Tag("VMFault") = {1, 2}
  BY DEF Fault!Layouts, Fault!CapFault, Fault!UnknownSyscall, Fault!UserException, Fault!Timeout,
         Fault!VMFault, Fault!FaultKind, Fault!Kind
<1> HIDE DEF Tag
<1>2. /\ 0 \in Tag("CapFault") /\ 1 \notin Tag("CapFault") /\ 2 \notin Tag("CapFault")
      /\ 0 \notin Tag("UnknownSyscall") /\ 1 \in Tag("UnknownSyscall") /\ 2 \notin Tag("UnknownSyscall")
      /\ 0 \in Tag("UserException") /\ 1 \in Tag("UserException") /\ 2 \notin Tag("UserException")
      /\ 0 \in Tag("Timeout") /\ 1 \notin Tag("Timeout") /\ 2 \in Tag("Timeout")
      /\ 0 \notin Tag("VMFault") /\ 1 \in Tag("VMFault") /\ 2 \in Tag("VMFault")
  BY <1>1
<1>3. \A k, m \in Fault!FaultKinds : Tag(k) = Tag(m) => k = m
  BY <1>2, KindNames
<1>4. \A k \in Fault!FaultKinds : Tag(k) = Tag(kind) => k = kind
  BY <1>3
<1>5. (CHOOSE k \in Fault!FaultKinds : Tag(k) = Tag(kind)) = kind
  BY <1>4
<1> QED
  BY <1>5 DEF Tag

\* A value that is made of words reads as those words.
LEMMA MadeReads ==
    ASSUME NEW l, OwnWords(l), NEW args, \A f \in DOMAIN l.fields : args[f] \subseteq Fault!Bit
    PROVE  /\ Fault!HasTag(Fault!Made(l, args), l)
           /\ \A f \in DOMAIN l.fields : Fault!Get(Fault!Made(l, args), l.fields[f]) = args[f]
<1> DEFINE InWord(w) == {g \in DOMAIN l.fields : l.fields[g].word = w}
           Content(w) == UNION ({Fault!Shifted(args[f], l.fields[f]) : f \in InWord(w)}
                             \cup {IF w = 0 THEN l.tag ELSE {}})
<1>1. \A w \in 0..13 : Fault!Made(l, args)[w] = Content(w)
  BY DEF Fault!Made, OwnWords
<1>2. Content(0) = l.tag
  <2>1. InWord(0) = {}
    BY DEF OwnWords
  <2> QED
    BY <2>1
<1>3. ASSUME NEW f \in DOMAIN l.fields
      PROVE  Fault!Get(Fault!Made(l, args), l.fields[f]) = args[f]
  <2> DEFINE w == l.fields[f].word
  <2>1. /\ w \in 1..13 /\ InWord(w) = {f} /\ l.fields[f].width = 64 /\ l.fields[f].at = 0
    <3>1. w \in 1..13 /\ l.fields[f] = Fault!WholeWord(w)
      BY DEF OwnWords
    <3>2. InWord(w) = {f}
      BY DEF OwnWords
    <3>3. Fault!WholeWord(w).width = 64 /\ Fault!WholeWord(w).at = 0
      BY DEF Fault!WholeWord, Fault!Field
    <3> QED
      BY <3>1, <3>2, <3>3
  <2>2. Content(w) = Fault!Shifted(args[f], l.fields[f])
    <3> HIDE DEF InWord, w
    <3> QED
      BY <2>1
  <2>3. \A i \in args[f] : i \in 0..63
    BY DEF Fault!Bit
  <2>4. Fault!Shifted(args[f], l.fields[f]) = args[f]
    BY <2>1, <2>3 DEF Fault!Shifted, Fault!LowBits
  <2>5. Fault!Made(l, args)[w] = args[f]
    <3> HIDE DEF w, Content
    <3> QED
      BY <1>1, <2>1, <2>2, <2>4
  <2>6. Fault!Mask(l.fields[f]) = 0..63
    BY <2>1 DEF Fault!Mask
  <2>7. Fault!Get(Fault!Made(l, args), l.fields[f]) = {i - 0 : i \in args[f] \cap 0..63}
    BY <2>1, <2>5, <2>6 DEF Fault!Get
  <2>8. {i - 0 : i \in args[f] \cap 0..63} = args[f]
    BY <2>3
  <2> QED
    BY <2>7, <2>8
<1>4. Fault!HasTag(Fault!Made(l, args), l)
  <2>1. Fault!Made(l, args)[0] = l.tag
    <3> HIDE DEF Content
    <3> QED
      BY <1>1, <1>2
  <2>2. Fault!TagField(l) = [word |-> 0, width |-> 4, at |-> 0]
    BY DEF OwnWords, Fault!TagField, Fault!FaultType, Fault!Field
  <2>3. Fault!Mask(Fault!TagField(l)) = 0..3
    BY <2>2 DEF Fault!Mask
  <2>4. Fault!Get(Fault!Made(l, args), Fault!TagField(l)) = {i - 0 : i \in l.tag \cap 0..3}
    BY <2>1, <2>2, <2>3 DEF Fault!Get
  <2>5. {i - 0 : i \in l.tag \cap 0..3} = l.tag
    BY DEF OwnWords
  <2> QED
    BY <2>4, <2>5 DEF Fault!HasTag
<1> QED
  BY <1>3, <1>4

(* What the handler does *)

\* seL4_getFault finds the kind by the tag and fills every field from the message register
\* that the kernel has sent it in.
LEMMA DecodedRight ==
    ASSUME FaultsInv, handler.at = "received", Unspoilt(Fault!Left),
           handler' = [at |-> "decoded", label |-> handler.label,
                       fault |-> Fault!getFault(handler.label)],
           thread' = thread, used' = used
    PROVE  Fault!RightIn(Fault!Left)'
<1> DEFINE kind == thread.kind
           l == Fault!Layouts[kind]
           Filled(f) == Fault!GetMR(kind, Fault!getFault_Reads[kind][Fault!Index(Fault!Params[kind], f) + 1])
           args == [f \in DOMAIN l.fields |-> Filled(f)]
<1>1. kind \in Fault!FaultKinds /\ thread.length \in Fault!LengthsOf(kind) /\ handler.label = l.tag
  BY DEF FaultsInv, FaultKnown, HandlerKnows
<1>2. Fault!getFault(handler.label) = Fault!Made(l, args)
  <2>1. (CHOOSE k \in Fault!FaultKinds : Fault!Layouts[k].tag = l.tag) = kind
    BY <1>1, TagOfKind
  <2>2. Fault!getFault(l.tag) = Fault!Made(l, args)
    <3> DEFINE found == CHOOSE k \in Fault!FaultKinds : Fault!Layouts[k].tag = l.tag
               Of(k) == Fault!Made(Fault!Layouts[k],
                            [f \in DOMAIN Fault!Layouts[k].fields |->
                                Fault!GetMR(k, Fault!getFault_Reads[k][Fault!Index(Fault!Params[k], f) + 1])])
    <3>1. Fault!getFault(l.tag) = Of(found)
      BY DEF Fault!getFault
    <3>2. Of(kind) = Fault!Made(l, args)
      OBVIOUS
    <3> HIDE DEF Of
    <3> QED
      BY <2>1, <3>1, <3>2
  <2> QED
    BY <1>1, <2>2
<1>3. ReadsInOrder(kind) /\ OwnWords(l)
  BY <1>1, EveryKindInOrder, KindsHaveOwnWords
<1>4. ASSUME NEW f \in DOMAIN l.fields
      PROVE  /\ Fault!Register(f) \in 0..12 /\ Fault!Register(f) < Len(Fault!Msg[kind])
             /\ Filled(f) = mrs[Fault!Register(f)]
  <2>1. PICK i \in DOMAIN Fault!Msg[kind] : Fault!Params[kind][i] = f
    BY <1>3 DEF ReadsInOrder
  <2>2. Fault!Index(Fault!Params[kind], f) = i - 1
    BY <1>3, <2>1, IndexOf DEF ReadsInOrder
  <2>3. Fault!Index(Fault!Msg[kind], Fault!Msg[kind][i]) = i - 1
    BY <1>3, IndexOf DEF ReadsInOrder
  <2>4. /\ Fault!Meaning(f) = Fault!Msg[kind][i] /\ Fault!getFault_Reads[kind][i] = Fault!Msg[kind][i]
        /\ i \in 1..13 /\ i <= Len(Fault!Msg[kind])
    <3>1. i \in 1..Len(Fault!Msg[kind]) /\ Len(Fault!Msg[kind]) \in 1..13
      BY <1>3, <2>1 DEF ReadsInOrder
    <3>2. /\ Fault!getFault_Reads[kind] = Fault!Msg[kind]
          /\ Fault!Meaning(Fault!Params[kind][i]) = Fault!Msg[kind][i]
      BY <1>3, <2>1, Zenon DEF ReadsInOrder
    <3>3. Fault!Meaning(f) = Fault!Msg[kind][i]
      BY <2>1, <3>2, Zenon
    <3>4. i \in 1..13 /\ i <= Len(Fault!Msg[kind])
      <4> HIDE DEF kind
      <4> QED
        BY <3>1
    <3> QED
      BY <3>2, <3>3, <3>4, Zenon
  <2>5. Fault!Register(f) = i - 1
    BY <2>3, <2>4 DEF Fault!Register
  <2>6. Filled(f) = mrs[i - 1]
    <3>1. (i - 1) + 1 = i
      BY <2>4
    <3> QED
      BY <2>2, <2>3, <2>4, <3>1 DEF Fault!GetMR
  <2> QED
    BY <1>3, <2>4, <2>5, <2>6 DEF ReadsInOrder
<1> HIDE DEF Filled
<1>5. \A f \in DOMAIN l.fields : args[f] = mrs[Fault!Register(f)] /\ args[f] \subseteq Fault!Bit
  <2>1. \A k \in 0..12 : mrs[k] \subseteq Fault!Bit
    BY DEF FaultsInv, Fault!MR, Fault!LastMR
  <2>2. \A f \in DOMAIN l.fields : args[f] = Filled(f)
    OBVIOUS
  <2> HIDE DEF args, l
  <2> QED
    BY <1>4, <2>1, <2>2
<1>6. ASSUME NEW f \in DOMAIN l.fields, Fault!Register(f) \in Fault!Left,
             Fault!Register(f) < thread.length
      PROVE  args[f] = Fault!Sent(Fault!Register(f))
  BY <1>5, <1>6 DEF Unspoilt
<1> HIDE DEF args, l
<1>7. /\ Fault!HasTag(Fault!Made(l, args), l)
      /\ \A f \in DOMAIN l.fields : Fault!Get(Fault!Made(l, args), l.fields[f]) = args[f]
  BY <1>3, <1>5, MadeReads
<1>8. handler'.fault = Fault!Made(l, args) /\ thread' = thread
  BY <1>2
<1> QED
  BY <1>6, <1>7, <1>8 DEF Fault!RightIn, Fault!Left, Fault!Register, l

LEMMA MessageLengths ==
    ASSUME NEW kind \in Fault!FaultKinds, NEW length \in Fault!LengthsOf(kind)
    PROVE  length \in 1..13 /\ (kind \in {"CapFault", "VMFault"} => length >= 4)
<1>1. Len(Fault!Msg[kind]) \in 1..13
  BY EveryKindInOrder DEF ReadsInOrder
<1>2. CASE kind = "CapFault"
  BY <1>2 DEF Fault!LengthsOf
<1>3. CASE kind = "VMFault"
  <2>1. Fault!Msg[kind] = Fault!VMFault_Msg
    BY <1>3 DEF Fault!Msg
  <2>2. Len(Fault!Msg[kind]) = 4
    BY <2>1 DEF Fault!VMFault_Msg
  <2>3. length = Len(Fault!Msg[kind])
    BY <1>3 DEF Fault!LengthsOf
  <2> QED
    BY <2>2, <2>3
<1>4. CASE kind \notin {"CapFault", "VMFault"}
  <2>1. length = Len(Fault!Msg[kind])
    BY <1>4 DEF Fault!LengthsOf
  <2> QED
    BY <1>1, <1>4, <2>1
<1> QED
  BY <1>2, <1>3, <1>4

\* The address is the second word of the messages that have one.
LEMMA AddressInSecond ==
    ASSUME NEW kind \in Fault!FaultKinds,
           "Addr" \in {Fault!Msg[kind][i] : i \in DOMAIN Fault!Msg[kind]}
    PROVE  kind \in {"CapFault", "VMFault"} /\ Fault!Index(Fault!Msg[kind], "Addr") = 1
<1>1. kind \in {"CapFault", "VMFault"}
  <2>1. PICK i \in DOMAIN Fault!Msg[kind] : Fault!Msg[kind][i] = "Addr"
    OBVIOUS
  <2>2. kind # "UnknownSyscall"
    BY <2>1 DEF Fault!Msg, Fault!UnknownSyscall_Msg
  <2>3. kind # "UserException"
    BY <2>1 DEF Fault!Msg, Fault!UserException_Msg
  <2>4. kind # "Timeout"
    BY <2>1 DEF Fault!Msg, Fault!TimeoutMsg
  <2> QED
    BY <2>2, <2>3, <2>4, KindNames
<1>2. 2 \in DOMAIN Fault!Msg[kind] /\ Fault!Msg[kind][2] = "Addr"
  BY <1>1 DEF Fault!Msg, Fault!CapFault_Msg, Fault!VMFault_Msg
<1>3. Fault!Index(Fault!Msg[kind], "Addr") = 2 - 1
  BY <1>2, EveryKindInOrder, IndexOf DEF ReadsInOrder
<1> QED
  BY <1>1, <1>3

\* The registers of a thread have different names.
LEMMA RegistersDistinct == Distinct(Fault!UserContext) /\ DOMAIN Fault!UserContext = 1..36
BY SMTT(60) DEF Distinct, Fault!UserContext

LEMMA ReplyInOrder ==
    /\ DOMAIN Fault!TimeoutReply_Msg = 1..34 /\ Len(Fault!TimeoutReply_Msg) = 34
    /\ \A i \in 1..34 : i \in 1..36 /\ Fault!TimeoutReply_Msg[i] = Fault!UserContext[i]
    /\ Distinct(Fault!TimeoutReply_Msg)
<1>1. DOMAIN Fault!TimeoutReply_Msg = 1..34 /\ Len(Fault!TimeoutReply_Msg) = 34
  BY DEF Fault!TimeoutReply_Msg
<1>2. \A i \in 1..34 : Fault!TimeoutReply_Msg[i] = Fault!UserContext[i]
  BY SMTT(60) DEF Fault!TimeoutReply_Msg, Fault!UserContext
<1>3. \A i \in 1..34 : i \in 1..36
  OBVIOUS
<1>4. Distinct(Fault!TimeoutReply_Msg)
  BY <1>1, <1>2, <1>3, RegistersDistinct, ZenonT(60) DEF Distinct
<1> QED
  BY <1>1, <1>2, <1>3, <1>4, Zenon

\* The calls of the public interface put no word of theirs into the message registers.
LEMMA PublicHasNoWords ==
    /\ Len(Fault!TCB_Suspend.words) = 0 /\ Len(Fault!TCB_Suspend.results) = 0
    /\ Len(Fault!IRQHandler_Ack.words) = 0 /\ Len(Fault!IRQHandler_Ack.results) = 0
BY DEF Fault!TCB_Suspend, Fault!IRQHandler_Ack, Fault!Bare, Fault!Stub

LEMMA InitFaults == Fault!Init => FaultsInv
BY DEF Fault!Init, Uses, FaultsInv, Fault!MR, Fault!LastMR, Fault!Junk, Fault!Bit, FaultKnown, HandlerKnows,
       StillThere, HandlerTold, Fault!HandlerTold, Fault!DecodedAsLeft,
       Fault!AddressPrinted, TimeoutReplyRestores, Fault!TimeoutReplyRestores

LEMMA FaultKeeps ==
    ASSUME FaultsInv, NEW kind \in Fault!FaultKinds, NEW length \in Fault!LengthsOf(kind),
           Fault!Fault(kind, length)
    PROVE  FaultsInv'
<1>1. handler.at = "waiting" /\ handler' = handler /\ mrs' = mrs /\ used' = used
  BY DEF Fault!Fault, FaultsInv, HandlerKnows
<1>2. thread' = [state |-> "faulted", kind |-> kind, length |-> length]
  BY DEF Fault!Fault
<1> QED
  BY <1>1, <1>2 DEF FaultsInv, FaultKnown, HandlerKnows,
       StillThere, HandlerTold, Fault!HandlerTold, Fault!DecodedAsLeft,
       Fault!AddressPrinted, TimeoutReplyRestores, Fault!TimeoutReplyRestores

\* As long as the handler has received and found out nothing yet, or has crashed, all that is
\* promised is about the message registers.
LEMMA StillReceived ==
    ASSUME handler'.at \in {"received", "crashed"}, thread'.state = "faulted"
    PROVE  HandlerTold' /\ TimeoutReplyRestores'
BY DEF HandlerTold, Fault!HandlerTold, Fault!DecodedAsLeft,
       Fault!AddressPrinted, TimeoutReplyRestores, Fault!TimeoutReplyRestores

LEMMA LeftRegisters == Fault!Left \subseteq Fault!MR
BY DEF Fault!Left

LEMMA RecvKeeps == ASSUME FaultsInv, Fault!Recv PROVE FaultsInv'
<1>1. /\ thread' = thread /\ thread.state = "faulted" /\ used' = "nothing"
      /\ handler' = [at |-> "received", label |-> Fault!Layouts[thread.kind].tag]
      /\ mrs' = [k \in Fault!MR |-> IF k < thread.length THEN Fault!Sent(k) ELSE Fault!Junk]
  BY DEF Fault!Recv
<1>2. \A k \in Fault!MR : Fault!Sent(k) \in SUBSET Fault!Bit /\ Fault!Junk \in SUBSET Fault!Bit
  BY DEF Fault!MR, Fault!LastMR, Fault!Bit, Fault!Sent, Fault!Junk
<1>3. mrs' \in [Fault!MR -> SUBSET Fault!Bit]
  BY <1>1, <1>2
<1>4. Unspoilt(Fault!Left)'
  BY <1>1 DEF Unspoilt, Fault!Left
<1>5. handler'.at = "received" /\ handler'.label = Fault!Layouts[thread.kind].tag
  BY <1>1
<1> QED
  BY <1>1, <1>3, <1>4, <1>5, StillReceived DEF FaultsInv, FaultKnown, HandlerKnows, StillThere, Uses

\* What is left of the fault after one more call, which has overwritten its share.
LEMMA OverwriteKeeps ==
    ASSUME FaultsInv, handler.at = "received", NEW s, NEW refused \in BOOLEAN,
           Fault!Overwrite(s, refused), thread' = thread, used' \in Uses,
           handler'.at \in {"received", "crashed"}, handler'.label = handler.label,
           handler'.at = "received" =>
               \A k \in Fault!Left' : k \in Fault!Left /\ k \notin Fault!Overwritten(s, refused)
    PROVE  FaultsInv'
<1>1. mrs \in [Fault!MR -> SUBSET Fault!Bit] /\ thread.state = "faulted"
  BY DEF FaultsInv, HandlerKnows
<1>2. mrs' = [k \in Fault!MR |-> IF k \in Fault!Overwritten(s, refused) THEN Fault!Invoked ELSE mrs[k]]
  BY DEF Fault!Overwrite
<1>3. Fault!Invoked \in SUBSET Fault!Bit
  BY DEF Fault!Invoked, Fault!Bit
<1>4. mrs' \in [Fault!MR -> SUBSET Fault!Bit]
  BY <1>1, <1>2, <1>3
<1>5. StillThere'
  <2> SUFFICES ASSUME handler'.at = "received", NEW k \in Fault!Left', k < thread.length
               PROVE  mrs'[k] = Fault!Sent(k)
    BY DEF StillThere, Unspoilt
  <2>1. k \in Fault!Left /\ k \notin Fault!Overwritten(s, refused)
    OBVIOUS
  <2>2. k \in Fault!MR
    BY <2>1, LeftRegisters
  <2>3. mrs[k] = Fault!Sent(k)
    BY <2>1 DEF FaultsInv, StillThere, Unspoilt
  <2> QED
    BY <1>2, <2>1, <2>2, <2>3
<1>6. HandlerTold' /\ TimeoutReplyRestores'
  BY <1>1, StillReceived
<1> QED
  BY <1>1, <1>4, <1>5, <1>6 DEF FaultsInv, FaultKnown, HandlerKnows

LEMMA PublicKeeps ==
    ASSUME FaultsInv, NEW s \in Fault!Compiled(Fault!QemuArmVirtDebug), Fault!Public(s)
    PROVE  FaultsInv'
<1>1. /\ thread' = thread /\ handler' = handler /\ handler.at = "received"
      /\ used' = IF used = "nothing" THEN "public" ELSE used
      /\ s \in {Fault!TCB_Suspend, Fault!IRQHandler_Ack} /\ Fault!Overwrite(s, FALSE)
  BY DEF Fault!Public
<1>2. used' \in Uses /\ \A k \in Fault!Left' : k \in Fault!Left /\ k \in Fault!MR
  BY <1>1 DEF FaultsInv, Uses, Fault!Left
<1>3. Len(s.words) = 0 /\ Len(s.results) = 0
  BY <1>1, PublicHasNoWords
<1>4. \A k \in Fault!MR : ~(k > 3 /\ k < 0)
  BY DEF Fault!MR, Fault!LastMR
<1>5. \A k \in Fault!MR : k \notin Fault!Overwritten(s, FALSE)
  BY <1>3, <1>4 DEF Fault!Overwritten
<1> QED
  BY <1>1, <1>2, <1>5, OverwriteKeeps

\* An acknowledgement that the kernel refuses takes the first four message registers.
LEMMA RefusedAckKeeps == ASSUME FaultsInv, Fault!RefusedAck PROVE FaultsInv'
<1>1. /\ thread' = thread /\ handler' = handler /\ handler.at = "received"
      /\ used' = IF used \in {"stubs", "refused"} THEN "refused" ELSE "refusedAck"
      /\ Fault!Overwrite(Fault!IRQHandler_Ack, TRUE)
  BY DEF Fault!RefusedAck
<1>2. used' \in Uses /\ \A k \in Fault!Left' : k \in Fault!Left /\ k \in Fault!MR /\ k > 3
  BY <1>1 DEF FaultsInv, Uses, Fault!Left, Fault!MR, Fault!LastMR
<1>3. \A k \in Fault!MR : ~(k > 3 /\ k < 0) /\ (k > 3 => ~(k <= 3))
  BY DEF Fault!MR, Fault!LastMR
<1>4. \A k \in Fault!MR : k > 3 => k \notin Fault!Overwritten(Fault!IRQHandler_Ack, TRUE)
  BY <1>3, PublicHasNoWords DEF Fault!Overwritten
<1> QED
  BY <1>1, <1>2, <1>4, OverwriteKeeps

LEMMA RefusedStopKeeps == ASSUME FaultsInv, Fault!RefusedStop PROVE FaultsInv'
<1>1. /\ thread' = thread /\ handler' = [at |-> "crashed", label |-> handler.label]
      /\ handler.at = "received" /\ Fault!Overwrite(Fault!TCB_Suspend, TRUE) /\ used' = used
  BY DEF Fault!RefusedStop
<1>2. handler'.at = "crashed" /\ handler'.label = handler.label /\ used' \in Uses
  BY <1>1 DEF FaultsInv
<1> QED
  BY <1>1, <1>2, OverwriteKeeps

\* An invocation that is not refused leaves the first four message registers.
LEMMA InvocationKeeps ==
    ASSUME FaultsInv, NEW s \in Fault!Compiled(Fault!QemuArmVirtDebug), NEW refused \in BOOLEAN,
           Fault!Invocation(s, refused)
    PROVE  FaultsInv'
<1>1. /\ thread' = thread /\ handler' = handler /\ handler.at = "received"
      /\ used' = IF refused \/ used \in {"refused", "refusedAck"} THEN "refused" ELSE "stubs"
      /\ Fault!Overwrite(s, refused)
  BY DEF Fault!Invocation
<1>2. /\ used' \in Uses
      /\ \A k \in Fault!Left' : k \in Fault!Left /\ k \in Fault!MR /\ k <= 3 /\ ~refused
  BY <1>1 DEF FaultsInv, Uses, Fault!Left, Fault!MR, Fault!LastMR
<1>3. \A k \in Fault!MR : k <= 3 /\ ~refused => k \notin Fault!Overwritten(s, refused)
  BY DEF Fault!Overwritten, Fault!MR, Fault!LastMR
<1> QED
  BY <1>1, <1>2, <1>3, OverwriteKeeps

LEMMA DecodeKeeps == ASSUME FaultsInv, Fault!Decode PROVE FaultsInv'
<1>1. /\ thread' = thread /\ mrs' = mrs /\ used' = used /\ handler.at = "received"
      /\ handler' = [at |-> "decoded", label |-> handler.label,
                     fault |-> Fault!getFault(handler.label)]
  BY DEF Fault!Decode
<1>2. thread.state = "faulted" /\ handler.label = Fault!Layouts[thread.kind].tag
  BY <1>1 DEF FaultsInv, HandlerKnows
<1>3. Fault!RightIn(Fault!Left)'
  BY <1>1, DecodedRight DEF FaultsInv, StillThere
<1>5. handler'.at = "decoded" /\ handler'.label = handler.label
  BY <1>1
<1>6. HandlerTold'
  BY <1>1, <1>3, <1>5 DEF HandlerTold, Fault!HandlerTold, Fault!DecodedAsLeft,
       Fault!AddressPrinted
<1> QED
  BY <1>1, <1>2, <1>5, <1>6 DEF FaultsInv, FaultKnown, HandlerKnows, StillThere, TimeoutReplyRestores,
       Fault!TimeoutReplyRestores

LEMMA PrintAddressKeeps == ASSUME FaultsInv, Fault!PrintAddress PROVE FaultsInv'
<1>1. /\ thread' = thread /\ mrs' = mrs /\ used' = used /\ handler.at = "received"
      /\ used = "nothing"
      /\ handler' = [at |-> "printed", label |-> handler.label,
                     address |-> Fault!GetMR("CapFault", "Addr")]
  BY DEF Fault!PrintAddress
<1>2. /\ thread.state = "faulted" /\ handler.label = Fault!Layouts[thread.kind].tag
      /\ thread.kind \in Fault!FaultKinds /\ thread.length \in Fault!LengthsOf(thread.kind)
      /\ Unspoilt(Fault!MR)
  BY <1>1 DEF FaultsInv, FaultKnown, HandlerKnows, StillThere, Fault!Left
<1>3. /\ handler'.at = "printed" /\ handler'.label = handler.label
      /\ handler'.address = Fault!GetMR("CapFault", "Addr")
  BY <1>1
<1>4. Fault!AddressPrinted'
  <2> SUFFICES ASSUME "Addr" \in {Fault!Msg[thread.kind][i] : i \in DOMAIN Fault!Msg[thread.kind]}
               PROVE  Fault!GetMR("CapFault", "Addr") = Fault!Sent(Fault!Register("Addr"))
    BY <1>1, <1>3 DEF Fault!AddressPrinted, Fault!Register
  <2>1. thread.kind \in {"CapFault", "VMFault"} /\ Fault!Index(Fault!Msg[thread.kind], "Addr") = 1
    BY <1>2, AddressInSecond
  <2>2. Fault!Index(Fault!Msg["CapFault"], "Addr") = 1
    <3>1. "CapFault" \in Fault!FaultKinds
      BY KindNames
    <3>2. 2 \in DOMAIN Fault!Msg["CapFault"] /\ Fault!Msg["CapFault"][2] = "Addr"
      BY DEF Fault!Msg, Fault!CapFault_Msg
    <3> QED
      BY <3>1, <3>2, AddressInSecond
  <2>3. thread.length >= 4 /\ thread.length \in 1..13
    BY <1>2, <2>1, MessageLengths
  <2>4. mrs[1] = Fault!Sent(1)
    BY <1>2, <2>3 DEF Unspoilt, Fault!MR, Fault!LastMR
  <2>5. Fault!Register("Addr") = 1
    BY <2>1 DEF Fault!Register, Fault!Meaning
  <2> QED
    BY <2>2, <2>4, <2>5 DEF Fault!GetMR
<1>5. HandlerTold'
  BY <1>3, <1>4 DEF HandlerTold, Fault!HandlerTold, Fault!DecodedAsLeft
<1> QED
  BY <1>1, <1>2, <1>3, <1>5 DEF FaultsInv, FaultKnown, HandlerKnows, StillThere, TimeoutReplyRestores,
       Fault!TimeoutReplyRestores

\* A handler that waits again has nothing to be told.
LEMMA WaitsAgain ==
    ASSUME handler'.at = "waiting", thread'.state # "faulted", TimeoutReplyRestores',
           mrs' \in [Fault!MR -> SUBSET Fault!Bit], used' \in Uses
    PROVE  FaultsInv'
BY DEF FaultsInv, FaultKnown, HandlerKnows, StillThere, HandlerTold, Fault!HandlerTold,
       Fault!DecodedAsLeft, Fault!AddressPrinted

\* The reply takes the registers from where the kernel looks for them.
LEMMA TimeoutReplyKeeps ==
    ASSUME FaultsInv, NEW resume \in BOOLEAN, NEW length \in 0..Len(Fault!UserContext),
           Fault!TimeoutReply(resume, length)
    PROVE  FaultsInv'
<1> DEFINE answered == {Fault!TimeoutReply_Msg[i] :
                          i \in 1..Fault!Min2(length, Len(Fault!TimeoutReply_Msg))}
           state == IF resume THEN "restarted" ELSE "stopped"
           registers == [n \in answered |-> mrs'[Fault!Index(Fault!TimeoutReply_Msg, n)]]
<1>0. used' \in Uses
  BY DEF Fault!TimeoutReply, FaultsInv
<1>1. /\ handler' = [at |-> "waiting"]
      /\ thread' = [state |-> state, registers |-> registers]
      /\ mrs' = [k \in Fault!MR |-> IF k < length THEN Fault!Sent(k) ELSE mrs[k]]
  BY DEF Fault!TimeoutReply
<1>2. mrs' \in [Fault!MR -> SUBSET Fault!Bit]
  <2>1. \A k \in Fault!MR : Fault!Sent(k) \in SUBSET Fault!Bit
    BY DEF Fault!MR, Fault!LastMR, Fault!Bit, Fault!Sent
  <2> QED
    BY <1>1, <2>1 DEF FaultsInv
<1>3. length \in 0..36
  BY DEF Fault!UserContext
<1>4. Distinct(Fault!TimeoutReply_Msg)
  BY ReplyInOrder, Zenon
<1>5. ASSUME NEW n \in answered
      PROVE  registers[n] = Fault!Sent(Fault!Index(Fault!UserContext, n))
  <2>1. PICK i \in 1..Fault!Min2(length, Len(Fault!TimeoutReply_Msg)) : n = Fault!TimeoutReply_Msg[i]
    OBVIOUS
  <2>2. i \in 1..34 /\ i <= length
    <3>1. i \in 1..Fault!Min2(length, 34)
      BY ReplyInOrder, Zenon
    <3> QED
      BY <1>3, <3>1 DEF Fault!Min2
  <2>3. Fault!Index(Fault!TimeoutReply_Msg, n) = i - 1
    BY <1>4, <2>1, <2>2, IndexOf, ReplyInOrder, Zenon
  <2>4. n = Fault!UserContext[i] /\ i \in DOMAIN Fault!UserContext
    BY <2>1, <2>2, RegistersDistinct, ReplyInOrder, Zenon
  <2>5. Fault!Index(Fault!UserContext, n) = i - 1
    BY <2>4, IndexOf, RegistersDistinct
  <2>6. mrs'[i - 1] = Fault!Sent(i - 1)
    <3>1. i - 1 \in Fault!MR /\ i - 1 < length
      BY <1>3, <2>2 DEF Fault!MR, Fault!LastMR
    <3> QED
      BY <1>1, <3>1
  <2> QED
    BY <2>3, <2>5, <2>6
<1>6. thread'.registers = registers /\ DOMAIN registers = answered
  BY <1>1
<1> HIDE DEF registers, answered
<1>7. TimeoutReplyRestores'
  BY <1>5, <1>6 DEF TimeoutReplyRestores, Fault!TimeoutReplyRestores
<1> QED
  BY <1>0, <1>1, <1>2, <1>7, WaitsAgain

LEMMA NoReplyKeeps == ASSUME FaultsInv, Fault!NoReply PROVE FaultsInv'
<1>1. handler' = [at |-> "waiting"] /\ thread' = [state |-> "stopped"] /\ mrs' = mrs /\ used' = used
  BY DEF Fault!NoReply
<1>2. TimeoutReplyRestores'
  BY <1>1 DEF TimeoutReplyRestores, Fault!TimeoutReplyRestores
<1> QED
  BY <1>1, <1>2, WaitsAgain DEF FaultsInv

LEMMA NextFaults == FaultsInv /\ Fault!Next => FaultsInv'
<1> SUFFICES ASSUME FaultsInv, Fault!Next PROVE FaultsInv'
  OBVIOUS
<1> QED
  BY FaultKeeps, RecvKeeps, PublicKeeps, RefusedAckKeeps, RefusedStopKeeps, InvocationKeeps, DecodeKeeps, PrintAddressKeeps,
     TimeoutReplyKeeps, NoReplyKeeps, Zenon DEF Fault!Next

LEMMA FaultsIdle ==
    ASSUME FaultsInv, UNCHANGED fault_vars
    PROVE  FaultsInv'
BY DEF fault_vars, FaultsInv, FaultKnown, HandlerKnows, StillThere, Unspoilt, HandlerTold,
       Fault!HandlerTold, Fault!DecodedAsLeft, Fault!AddressPrinted,
       Fault!RightIn, Fault!Left, Fault!Register, TimeoutReplyRestores, Fault!TimeoutReplyRestores

(***************************************************************************)
(* Invocations.                                                            *)
(***************************************************************************)
\* The words of the answer lie where the stub takes them from, or where it copies them from
\* after a refusal.
AnswerThere ==
    call.at = "answered" =>
        /\ call.stub \in AllStubs
        /\ call.error => call.words \in 0..5
        /\ ~call.error => call.words \in 0..Len(call.stub.results)
        /\ \A k \in 0..call.words - 1 :
               (IF k \in InRegister THEN call.regs[k] ELSE msg[k])
                   = IF call.error THEN ErrorInfo ELSE Result(call.stub.results[k + 1])
        /\ DOMAIN call.regs = InRegister

InvocationsInv ==
    /\ msg = [k \in 0..LastWord |-> msg[k]]
    /\ call.at = "kernel" => call.stub \in AllStubs /\ call.count \in Nat
    /\ AnswerThere
    /\ ArgumentsArrive
    /\ AnswerArrives

\* The stubs that take results from the answer.
Answering ==
    {ARM_Page_GetAddress, ARM_VCPU_ReadRegs, ARM_SIDControl_GetFault, ARM_CB_CBGetFault,
     TCB_ReadRegisters, TCB_GetBreakpoint, TCB_ConfigureSingleStepping, SchedContext_Consumed,
     SchedContext_YieldTo}

\* No stub takes more results from an answer than a thread has registers, and most take none.
ResultsFit(s) == Len(s.results) \in 0..36

LEMMA EveryResultFits == \A s \in AllStubs : ResultsFit(s)
<1> USE DEF ResultsFit
<1>1. \A s \in Answering : ResultsFit(s)
  BY DEF Answering, ARM_Page_GetAddress, ARM_VCPU_ReadRegs, ARM_SIDControl_GetFault, ARM_CB_CBGetFault,
         TCB_ReadRegisters, TCB_GetBreakpoint, TCB_ConfigureSingleStepping,
         SchedContext_Consumed, SchedContext_YieldTo,
         Stub, UserContext
<1>2. \A s \in {ARM_VSpace_Clean_Data, ARM_VSpace_Invalidate_Data, ARM_VSpace_CleanInvalidate_Data,
              ARM_VSpace_Unify_Instruction, ARM_PageUpperDirectory_Map,
              ARM_PageUpperDirectory_Unmap, ARM_PageDirectory_Map, ARM_PageDirectory_Unmap,
              ARM_PageTable_Map, ARM_PageTable_Unmap, ARM_IOPageTable_Map,
              ARM_IOPageTable_Unmap, ARM_Page_Map, ARM_Page_Unmap, ARM_Page_MapIO} :
          ResultsFit(s)
  BY DEF ARM_VSpace_Clean_Data, ARM_VSpace_Invalidate_Data, ARM_VSpace_CleanInvalidate_Data,
         ARM_VSpace_Unify_Instruction, ARM_PageUpperDirectory_Map, ARM_PageUpperDirectory_Unmap,
         ARM_PageDirectory_Map, ARM_PageDirectory_Unmap, ARM_PageTable_Map, ARM_PageTable_Unmap,
         ARM_IOPageTable_Map, ARM_IOPageTable_Unmap, ARM_Page_Map, ARM_Page_Unmap,
         ARM_Page_MapIO,
         Stub, Bare
<1>3. \A s \in {ARM_Page_Clean_Data, ARM_Page_Invalidate_Data, ARM_Page_CleanInvalidate_Data,
              ARM_Page_Unify_Instruction, ARM_ASIDControl_MakePool, ARM_ASIDPool_Assign,
              ARM_VCPU_SetTCB, ARM_VCPU_InjectIRQ, ARM_VCPU_WriteRegs, ARM_VCPU_AckVPPI,
              IRQControl_GetTrigger, IRQControl_GetTriggerCore, ARM_SIDControl_GetSID,
              ARM_SIDControl_ClearFault, ARM_SID_BindCB} :
          ResultsFit(s)
  BY DEF ARM_Page_Clean_Data, ARM_Page_Invalidate_Data, ARM_Page_CleanInvalidate_Data,
         ARM_Page_Unify_Instruction, ARM_ASIDControl_MakePool, ARM_ASIDPool_Assign,
         ARM_VCPU_SetTCB, ARM_VCPU_InjectIRQ, ARM_VCPU_WriteRegs, ARM_VCPU_AckVPPI,
         IRQControl_GetTrigger, IRQControl_GetTriggerCore, ARM_SIDControl_GetSID,
         ARM_SIDControl_ClearFault, ARM_SID_BindCB,
         Stub, Bare
<1>4. \A s \in {ARM_SID_UnbindCB, ARM_CBControl_GetCB, ARM_CBControl_TLBInvalidateAll, ARM_CB_AssignVspace,
              ARM_CB_UnassignVspace, ARM_CB_TLBInvalidate, ARM_CB_CBClearFault, Untyped_Retype,
              TCB_WriteRegisters, TCB_CopyRegisters, TCB_Configure_Classic, TCB_Configure_MCS,
              TCB_SetPriority, TCB_SetMCPriority, TCB_SetSchedParams_Classic} :
          ResultsFit(s)
  BY DEF ARM_SID_UnbindCB, ARM_CBControl_GetCB, ARM_CBControl_TLBInvalidateAll, ARM_CB_AssignVspace,
         ARM_CB_UnassignVspace, ARM_CB_TLBInvalidate, ARM_CB_CBClearFault, Untyped_Retype,
         TCB_WriteRegisters, TCB_CopyRegisters, TCB_Configure_Classic, TCB_Configure_MCS,
         TCB_SetPriority, TCB_SetMCPriority, TCB_SetSchedParams_Classic,
         Stub, Bare
<1>5. \A s \in {TCB_SetSchedParams_MCS, TCB_SetTimeoutEndpoint, TCB_SetIPCBuffer, TCB_SetSpace_Classic,
              TCB_SetSpace_MCS, TCB_Suspend, TCB_Resume, TCB_BindNotification,
              TCB_UnbindNotification, TCB_SetAffinity, TCB_SetBreakpoint, TCB_UnsetBreakpoint,
              TCB_SetTLSBase, CNode_Revoke, CNode_Delete} :
          ResultsFit(s)
  BY DEF TCB_SetSchedParams_MCS, TCB_SetTimeoutEndpoint, TCB_SetIPCBuffer, TCB_SetSpace_Classic,
         TCB_SetSpace_MCS, TCB_Suspend, TCB_Resume, TCB_BindNotification,
         TCB_UnbindNotification, TCB_SetAffinity, TCB_SetBreakpoint, TCB_UnsetBreakpoint,
         TCB_SetTLSBase, CNode_Revoke, CNode_Delete,
         Stub, Bare
<1>6. \A s \in {CNode_CancelBadgedSends, CNode_Copy, CNode_Mint, CNode_Move, CNode_Mutate, CNode_Rotate,
              CNode_SaveCaller, IRQControl_Get, IRQHandler_Ack, IRQHandler_SetNotification,
              IRQHandler_Clear, DomainSet_Set, SchedControl_ConfigureFlags, SchedContext_Bind,
              SchedContext_Unbind} :
          ResultsFit(s)
  BY DEF CNode_CancelBadgedSends, CNode_Copy, CNode_Mint, CNode_Move, CNode_Mutate, CNode_Rotate,
         CNode_SaveCaller, IRQControl_Get, IRQHandler_Ack, IRQHandler_SetNotification,
         IRQHandler_Clear, DomainSet_Set, SchedControl_ConfigureFlags, SchedContext_Bind,
         SchedContext_Unbind,
         Stub, Bare
<1>7. \A s \in {SchedContext_UnbindObject} :
          ResultsFit(s)
  BY DEF SchedContext_UnbindObject,
         Stub, Bare
<1> HIDE DEF ResultsFit
<1> QED
  BY <1>1, <1>2, <1>3, <1>4, <1>5, <1>6, <1>7 DEF AllStubs, Answering

\* What a stub puts into its message, whatever the values: every parameter in one place and
\* at its full width, and nothing over another.
Marshalled(s) ==
    /\ s.extraCaps \in 0..3 /\ s.length \in 0..38
    /\ Len(s.caps) = s.extraCaps /\ Len(s.words) = s.length
    /\ \A i, j \in 1..s.extraCaps : s.caps[i] = s.caps[j] => i = j
    /\ \A i \in 1..s.extraCaps : s.caps[i] # "old"
    /\ \A k \in 1..s.length : \A p \in s.words[k] :
           /\ p.at + p.width <= WordBits
           /\ \A q \in s.words[k] : ~Overlap(p, q)
           /\ \A m \in 1..s.length : \A q \in s.words[m] : q.arg = p.arg => m = k
           /\ \A i \in 1..s.extraCaps : s.caps[i] # p.arg
    /\ \A arg \in DOMAIN s.params :
           \/ \E i \in 1..s.extraCaps : s.caps[i] = arg
           \/ \E k \in 1..s.length : \E p \in s.words[k] :
                  p.arg = arg /\ p.width = s.params[arg]

\* Most stubs put each parameter into a word or a capability slot of its own.
OneWordEach(s, args) ==
    /\ s.extraCaps \in 0..3 /\ s.length \in 0..38
    /\ Len(s.caps) = s.extraCaps /\ Len(s.words) = s.length /\ Len(args) = s.length
    /\ \A i, j \in 1..s.extraCaps : s.caps[i] = s.caps[j] => i = j
    /\ \A i, j \in 1..s.length : args[i] = args[j] => i = j
    /\ \A i \in 1..s.extraCaps, j \in 1..s.length : s.caps[i] # args[j]
    /\ \A i \in 1..s.extraCaps : s.caps[i] # "old"
    /\ \A k \in 1..s.length : s.words[k] = Low(args[k], s.params[args[k]]) /\ s.params[args[k]] \in 1..64
    /\ \A arg \in DOMAIN s.params :
           (\E i \in 1..s.extraCaps : s.caps[i] = arg) \/ \E k \in 1..s.length : args[k] = arg

LEMMA OneWordEachParameter ==
    \A s \in AllStubs \ {ARM_VCPU_InjectIRQ, TCB_ReadRegisters, TCB_WriteRegisters, TCB_CopyRegisters} :
        \E args : OneWordEach(s, args)
<1> USE DEF OneWordEach, Stub, NoParams, W, CPtr, Word, WordBits, Uint8, Uint16, Bool
<1>1. OneWordEach(ARM_VSpace_Clean_Data, <<"start", "end">>)
  BY DEF ARM_VSpace_Clean_Data
<1>2. OneWordEach(ARM_VSpace_Invalidate_Data, <<"start", "end">>)
  BY DEF ARM_VSpace_Invalidate_Data
<1>3. OneWordEach(ARM_VSpace_CleanInvalidate_Data, <<"start", "end">>)
  BY DEF ARM_VSpace_CleanInvalidate_Data
<1>4. OneWordEach(ARM_VSpace_Unify_Instruction, <<"start", "end">>)
  BY DEF ARM_VSpace_Unify_Instruction
<1>5. OneWordEach(ARM_PageUpperDirectory_Map, <<"vaddr", "attr">>)
  BY DEF ARM_PageUpperDirectory_Map
<1>6. OneWordEach(ARM_PageDirectory_Map, <<"vaddr", "attr">>)
  BY DEF ARM_PageDirectory_Map
<1>7. OneWordEach(ARM_PageTable_Map, <<"vaddr", "attr">>)
  BY DEF ARM_PageTable_Map
<1>8. OneWordEach(ARM_IOPageTable_Map, <<"ioaddr">>)
  BY DEF ARM_IOPageTable_Map
<1>9. OneWordEach(ARM_Page_Map, <<"vaddr", "rights", "attr">>)
  BY DEF ARM_Page_Map
<1>10. OneWordEach(ARM_Page_MapIO, <<"rights", "ioaddr">>)
  BY DEF ARM_Page_MapIO
<1>11. OneWordEach(ARM_Page_Clean_Data, <<"start_offset", "end_offset">>)
  BY DEF ARM_Page_Clean_Data
<1>12. OneWordEach(ARM_Page_Invalidate_Data, <<"start_offset", "end_offset">>)
  BY DEF ARM_Page_Invalidate_Data
<1>13. OneWordEach(ARM_Page_CleanInvalidate_Data, <<"start_offset", "end_offset">>)
  BY DEF ARM_Page_CleanInvalidate_Data
<1>14. OneWordEach(ARM_Page_Unify_Instruction, <<"start_offset", "end_offset">>)
  BY DEF ARM_Page_Unify_Instruction
<1>15. OneWordEach(ARM_ASIDControl_MakePool, <<"index", "depth">>)
  BY DEF ARM_ASIDControl_MakePool
<1>16. OneWordEach(ARM_VCPU_ReadRegs, <<"field">>)
  BY DEF ARM_VCPU_ReadRegs
<1>17. OneWordEach(ARM_VCPU_WriteRegs, <<"field", "value">>)
  BY DEF ARM_VCPU_WriteRegs
<1>18. OneWordEach(ARM_VCPU_AckVPPI, <<"irq">>)
  BY DEF ARM_VCPU_AckVPPI
<1>19. OneWordEach(IRQControl_GetTrigger, <<"irq", "trigger", "index", "depth">>)
  BY DEF IRQControl_GetTrigger
<1>20. OneWordEach(IRQControl_GetTriggerCore, <<"irq", "trigger", "index", "depth", "target">>)
  BY DEF IRQControl_GetTriggerCore
<1>21. OneWordEach(ARM_SIDControl_GetSID, <<"sid", "index", "depth">>)
  BY DEF ARM_SIDControl_GetSID
<1>22. OneWordEach(ARM_CBControl_GetCB, <<"cb", "index", "depth">>)
  BY DEF ARM_CBControl_GetCB
<1>23. OneWordEach(Untyped_Retype, <<"type", "size_bits", "node_index", "node_depth", "node_offset",
          "num_objects">>)
  BY DEF Untyped_Retype
<1>24. OneWordEach(TCB_Configure_Classic, <<"fault_ep", "cspace_root_data", "vspace_root_data",
          "buffer">>)
  BY DEF TCB_Configure_Classic
<1>25. OneWordEach(TCB_Configure_MCS, <<"cspace_root_data", "vspace_root_data", "buffer">>)
  BY DEF TCB_Configure_MCS
<1>26. OneWordEach(TCB_SetPriority, <<"priority">>)
  BY DEF TCB_SetPriority
<1>27. OneWordEach(TCB_SetMCPriority, <<"mcp">>)
  BY DEF TCB_SetMCPriority
<1>28. OneWordEach(TCB_SetSchedParams_Classic, <<"mcp", "priority">>)
  BY DEF TCB_SetSchedParams_Classic
<1>29. OneWordEach(TCB_SetSchedParams_MCS, <<"mcp", "priority">>)
  BY DEF TCB_SetSchedParams_MCS
<1>30. OneWordEach(TCB_SetIPCBuffer, <<"buffer">>)
  BY DEF TCB_SetIPCBuffer
<1>31. OneWordEach(TCB_SetSpace_Classic, <<"fault_ep", "cspace_root_data", "vspace_root_data">>)
  BY DEF TCB_SetSpace_Classic
<1>32. OneWordEach(TCB_SetSpace_MCS, <<"cspace_root_data", "vspace_root_data">>)
  BY DEF TCB_SetSpace_MCS
<1>33. OneWordEach(TCB_SetAffinity, <<"affinity">>)
  BY DEF TCB_SetAffinity
<1>34. OneWordEach(TCB_SetBreakpoint, <<"bp_num", "vaddr", "type", "size", "rw">>)
  BY DEF TCB_SetBreakpoint
<1>35. OneWordEach(TCB_GetBreakpoint, <<"bp_num">>)
  BY DEF TCB_GetBreakpoint
<1>36. OneWordEach(TCB_UnsetBreakpoint, <<"bp_num">>)
  BY DEF TCB_UnsetBreakpoint
<1>37. OneWordEach(TCB_ConfigureSingleStepping, <<"bp_num", "num_instructions">>)
  BY DEF TCB_ConfigureSingleStepping
<1>38. OneWordEach(TCB_SetTLSBase, <<"tls_base">>)
  BY DEF TCB_SetTLSBase
<1>39. OneWordEach(CNode_Revoke, <<"index", "depth">>)
  BY DEF CNode_Revoke
<1>40. OneWordEach(CNode_Delete, <<"index", "depth">>)
  BY DEF CNode_Delete
<1>41. OneWordEach(CNode_CancelBadgedSends, <<"index", "depth">>)
  BY DEF CNode_CancelBadgedSends
<1>42. OneWordEach(CNode_Copy, <<"dest_index", "dest_depth", "src_index", "src_depth", "rights">>)
  BY DEF CNode_Copy
<1>43. OneWordEach(CNode_Mint, <<"dest_index", "dest_depth", "src_index", "src_depth", "rights",
          "badge">>)
  BY DEF CNode_Mint
<1>44. OneWordEach(CNode_Move, <<"dest_index", "dest_depth", "src_index", "src_depth">>)
  BY DEF CNode_Move
<1>45. OneWordEach(CNode_Mutate, <<"dest_index", "dest_depth", "src_index", "src_depth", "badge">>)
  BY DEF CNode_Mutate
<1>46. OneWordEach(CNode_Rotate, <<"dest_index", "dest_depth", "dest_badge", "pivot_index",
          "pivot_depth", "pivot_badge", "src_index", "src_depth">>)
  BY DEF CNode_Rotate
<1>47. OneWordEach(CNode_SaveCaller, <<"index", "depth">>)
  BY DEF CNode_SaveCaller
<1>48. OneWordEach(IRQControl_Get, <<"irq", "index", "depth">>)
  BY DEF IRQControl_Get
<1>49. OneWordEach(DomainSet_Set, <<"domain">>)
  BY DEF DomainSet_Set
<1>50. OneWordEach(SchedControl_ConfigureFlags, <<"budget", "period", "extra_refills", "badge",
          "flags">>)
  BY DEF SchedControl_ConfigureFlags
<1>51. /\ OneWordEach(ARM_Page_GetAddress, <<>>)
       /\ OneWordEach(ARM_ASIDPool_Assign, <<>>)
       /\ OneWordEach(ARM_VCPU_SetTCB, <<>>)
       /\ OneWordEach(ARM_SIDControl_GetFault, <<>>)
  BY DEF ARM_Page_GetAddress, ARM_ASIDPool_Assign, ARM_VCPU_SetTCB, ARM_SIDControl_GetFault, Bare
<1>52. /\ OneWordEach(ARM_SID_BindCB, <<>>)
       /\ OneWordEach(ARM_CB_AssignVspace, <<>>)
       /\ OneWordEach(ARM_CB_CBGetFault, <<>>)
       /\ OneWordEach(TCB_SetTimeoutEndpoint, <<>>)
  BY DEF ARM_SID_BindCB, ARM_CB_AssignVspace, ARM_CB_CBGetFault, TCB_SetTimeoutEndpoint, Bare
<1>53. /\ OneWordEach(TCB_BindNotification, <<>>)
       /\ OneWordEach(IRQHandler_SetNotification, <<>>)
       /\ OneWordEach(SchedContext_Bind, <<>>)
       /\ OneWordEach(SchedContext_UnbindObject, <<>>)
  BY DEF TCB_BindNotification, IRQHandler_SetNotification, SchedContext_Bind,
         SchedContext_UnbindObject, Bare
<1>54. /\ OneWordEach(SchedContext_Consumed, <<>>)
       /\ OneWordEach(SchedContext_YieldTo, <<>>)
       /\ OneWordEach(ARM_PageUpperDirectory_Unmap, <<>>)
       /\ OneWordEach(ARM_PageDirectory_Unmap, <<>>)
  BY DEF SchedContext_Consumed, SchedContext_YieldTo, ARM_PageUpperDirectory_Unmap,
         ARM_PageDirectory_Unmap, Bare
<1>55. /\ OneWordEach(ARM_PageTable_Unmap, <<>>)
       /\ OneWordEach(ARM_IOPageTable_Unmap, <<>>)
       /\ OneWordEach(ARM_Page_Unmap, <<>>)
       /\ OneWordEach(ARM_SIDControl_ClearFault, <<>>)
  BY DEF ARM_PageTable_Unmap, ARM_IOPageTable_Unmap, ARM_Page_Unmap, ARM_SIDControl_ClearFault, Bare
<1>56. /\ OneWordEach(ARM_SID_UnbindCB, <<>>)
       /\ OneWordEach(ARM_CBControl_TLBInvalidateAll, <<>>)
       /\ OneWordEach(ARM_CB_UnassignVspace, <<>>)
       /\ OneWordEach(ARM_CB_TLBInvalidate, <<>>)
  BY DEF ARM_SID_UnbindCB, ARM_CBControl_TLBInvalidateAll, ARM_CB_UnassignVspace,
         ARM_CB_TLBInvalidate, Bare
<1>57. /\ OneWordEach(ARM_CB_CBClearFault, <<>>)
       /\ OneWordEach(TCB_Suspend, <<>>)
       /\ OneWordEach(TCB_Resume, <<>>)
       /\ OneWordEach(TCB_UnbindNotification, <<>>)
  BY DEF ARM_CB_CBClearFault, TCB_Suspend, TCB_Resume, TCB_UnbindNotification, Bare
<1>58. /\ OneWordEach(IRQHandler_Ack, <<>>)
       /\ OneWordEach(IRQHandler_Clear, <<>>)
       /\ OneWordEach(SchedContext_Unbind, <<>>)
  BY DEF IRQHandler_Ack, IRQHandler_Clear, SchedContext_Unbind, Bare
<1> HIDE DEF OneWordEach, Stub, NoParams, W, CPtr, Word, WordBits, Uint8, Uint16, Bool
<1> QED
  BY <1>1, <1>2, <1>3, <1>4, <1>5, <1>6, <1>7, <1>8, <1>9, <1>10, <1>11, <1>12, <1>13, <1>14, <1>15,
         <1>16, <1>17, <1>18, <1>19, <1>20, <1>21, <1>22, <1>23, <1>24, <1>25, <1>26, <1>27, <1>28,
         <1>29, <1>30, <1>31, <1>32, <1>33, <1>34, <1>35, <1>36, <1>37, <1>38, <1>39, <1>40, <1>41,
         <1>42, <1>43, <1>44, <1>45, <1>46, <1>47, <1>48, <1>49, <1>50, <1>51, <1>52, <1>53, <1>54,
         <1>55, <1>56, <1>57, <1>58 DEF AllStubs

LEMMA OneWordMarshalled == ASSUME NEW s, NEW args, OneWordEach(s, args) PROVE Marshalled(s)
<1>1. /\ s.extraCaps \in 0..3 /\ s.length \in 0..38
      /\ Len(s.caps) = s.extraCaps /\ Len(s.words) = s.length
      /\ \A i, j \in 1..s.extraCaps : s.caps[i] = s.caps[j] => i = j
      /\ \A i, j \in 1..s.length : args[i] = args[j] => i = j
      /\ \A i \in 1..s.extraCaps, j \in 1..s.length : s.caps[i] # args[j]
      /\ \A i \in 1..s.extraCaps : s.caps[i] # "old"
  BY DEF OneWordEach
<1>2. \A k \in 1..s.length :
          /\ s.words[k] = {[arg |-> args[k], width |-> s.params[args[k]], at |-> 0]}
          /\ s.params[args[k]] \in 1..64
  BY DEF OneWordEach, Low, Bits
<1>3. \A arg \in DOMAIN s.params :
           (\E i \in 1..s.extraCaps : s.caps[i] = arg) \/ \E k \in 1..s.length : args[k] = arg
  BY DEF OneWordEach
<1>4. \A k \in 1..s.length : \A p \in s.words[k] :
          p.arg = args[k] /\ p.width = s.params[args[k]] /\ p.width \in 1..64 /\ p.at = 0
  BY <1>2
<1>5. \A k \in 1..s.length : \A p, q \in s.words[k] : p = q
  BY <1>2
<1>6. \A k \in 1..s.length : \E p \in s.words[k] : p.arg = args[k] /\ p.width = s.params[args[k]]
  <2> TAKE k \in 1..s.length
  <2> DEFINE p == [arg |-> args[k], width |-> s.params[args[k]], at |-> 0]
  <2>1. p \in s.words[k]
    BY <1>2
  <2>2. p.arg = args[k] /\ p.width = s.params[args[k]]
    OBVIOUS
  <2> QED
    BY <2>1, <2>2
<1>7. \A k \in 1..s.length : \A p \in s.words[k] : p.at + p.width <= WordBits
  BY <1>4 DEF WordBits
<1>8. \A k \in 1..s.length : \A p, q \in s.words[k] : ~Overlap(p, q)
  BY <1>5, Zenon DEF Overlap
<1>9. \A k, m \in 1..s.length : \A p \in s.words[k], q \in s.words[m] : q.arg = p.arg => m = k
  BY <1>1, <1>4
<1>10. \A k \in 1..s.length, i \in 1..s.extraCaps : \A p \in s.words[k] : s.caps[i] # p.arg
  BY <1>1, <1>4
<1>11. \A arg \in DOMAIN s.params :
           \/ \E i \in 1..s.extraCaps : s.caps[i] = arg
           \/ \E k \in 1..s.length : \E p \in s.words[k] : p.arg = arg /\ p.width = s.params[arg]
  BY <1>3, <1>6
<1> QED
  BY <1>1, <1>7, <1>8, <1>9, <1>10, <1>11 DEF Marshalled

\* A stub with one word and no capabilities.
LEMMA OneWord ==
    ASSUME NEW s, s.extraCaps = 0, s.length = 1, s.caps = << >>, Len(s.words) = 1,
           \A p, q \in s.words[1] : ~Overlap(p, q),
           \A p \in s.words[1] : p.at + p.width <= WordBits,
           \A arg \in DOMAIN s.params : \E p \in s.words[1] : p.arg = arg /\ p.width = s.params[arg]
    PROVE  Marshalled(s)
BY DEF Marshalled

\* The four stubs that put several parameters into a word, or words after words.
LEMMA InjectMarshalled == Marshalled(ARM_VCPU_InjectIRQ)
<1> DEFINE w == {[arg |-> "virq", width |-> 16, at |-> 0], [arg |-> "priority", width |-> 8, at |-> 16],
                 [arg |-> "group", width |-> 8, at |-> 24], [arg |-> "index", width |-> 8, at |-> 32]}
<1> DEFINE ps == [virq |-> Uint16, priority |-> Uint8, group |-> Uint8, index |-> Uint8]
<1>1. /\ ARM_VCPU_InjectIRQ.extraCaps = 0 /\ ARM_VCPU_InjectIRQ.length = 1
      /\ ARM_VCPU_InjectIRQ.caps = << >> /\ ARM_VCPU_InjectIRQ.words = <<w>>
      /\ ARM_VCPU_InjectIRQ.params = ps
  BY DEF ARM_VCPU_InjectIRQ, Stub, Bits
<1>2. \A p, q \in w : ~Overlap(p, q)
  BY DEF Overlap
<1>3. \A p \in w : p.at + p.width <= WordBits
  BY DEF WordBits
<1>4. \A arg \in DOMAIN ps : \E p \in w : p.arg = arg /\ p.width = ps[arg]
  BY DEF Uint16, Uint8
<1> DEFINE s == ARM_VCPU_InjectIRQ
<1>5. Len(s.words) = 1 /\ s.words[1] = w
  BY <1>1
<1> HIDE DEF w, ps, s
<1> QED
  BY <1>1, <1>2, <1>3, <1>4, <1>5, OneWord DEF s

LEMMA ReadMarshalled == Marshalled(TCB_ReadRegisters)
<1> DEFINE w == {[arg |-> "suspend_source", width |-> 1, at |-> 0], [arg |-> "arch_flags", width |-> 8, at |-> 8]}
<1> DEFINE c == {[arg |-> "count", width |-> 64, at |-> 0]}
<1> DEFINE ps == [suspend_source |-> Bool, arch_flags |-> Uint8, count |-> Word]
<1> DEFINE s == TCB_ReadRegisters
<1>1. /\ s.extraCaps = 0 /\ s.length = 2 /\ s.caps = << >>
      /\ Len(s.words) = 2 /\ s.words[1] = w /\ s.words[2] = c /\ s.params = ps
  BY DEF TCB_ReadRegisters, Stub, Bits, Low, W, WordBits
<1>2. \A p, q \in w : ~Overlap(p, q)
  BY DEF Overlap
<1>3. \A p, q \in c : ~Overlap(p, q)
  BY DEF Overlap
<1>4. \A p \in w \cup c : p.at + p.width <= WordBits
  BY DEF WordBits
<1>5. \A p \in w, q \in c : p.arg # q.arg
  OBVIOUS
<1>6. \A arg \in DOMAIN ps : \E p \in w \cup c : p.arg = arg /\ p.width = ps[arg]
  BY DEF Uint8, Bool, Word, WordBits
<1> HIDE DEF w, c, ps, s
<1>7. Marshalled(s)
  BY <1>1, <1>2, <1>3, <1>4, <1>5, <1>6 DEF Marshalled
<1> QED
  BY <1>7 DEF s

LEMMA CopyMarshalled == Marshalled(TCB_CopyRegisters)
<1> DEFINE w == {[arg |-> "suspend_source", width |-> 1, at |-> 0], [arg |-> "resume_target", width |-> 1, at |-> 1],
                 [arg |-> "transfer_frame", width |-> 1, at |-> 2], [arg |-> "transfer_integer", width |-> 1, at |-> 3],
                 [arg |-> "arch_flags", width |-> 8, at |-> 8]}
<1> DEFINE ps == [source |-> CPtr, suspend_source |-> Bool, resume_target |-> Bool, transfer_frame |-> Bool,
     transfer_integer |-> Bool, arch_flags |-> Uint8]
<1> DEFINE s == TCB_CopyRegisters
<1>1. /\ s.extraCaps = 1 /\ s.length = 1 /\ Len(s.caps) = 1 /\ s.caps[1] = "source"
      /\ Len(s.words) = 1 /\ s.words[1] = w /\ s.params = ps
  BY DEF TCB_CopyRegisters, Stub, Bits
<1>2. \A p, q \in w : ~Overlap(p, q)
  BY DEF Overlap
<1>4. \A p \in w : p.at + p.width <= WordBits
  BY DEF WordBits
<1>5. \A p \in w : p.arg # "source"
  OBVIOUS
<1>6. \A arg \in DOMAIN ps : arg = "source" \/ \E p \in w : p.arg = arg /\ p.width = ps[arg]
  BY DEF Uint8, Bool
<1> HIDE DEF w, ps, s
<1>7. Marshalled(s)
  BY <1>1, <1>2, <1>4, <1>5, <1>6 DEF Marshalled
<1> QED
  BY <1>7 DEF s

LEMMA SeqOfFunction == ASSUME NEW T, NEW n \in Nat, NEW f \in [1..n -> T] PROVE f \in Seq(T) /\ Len(f) = n
OBVIOUS

LEMMA WriteMarshalled == Marshalled(TCB_WriteRegisters)
<1> DEFINE w == {[arg |-> "resume_target", width |-> 1, at |-> 0], [arg |-> "arch_flags", width |-> 8, at |-> 8]}
<1> DEFINE c == {[arg |-> "count", width |-> 64, at |-> 0]}
<1> DEFINE s == TCB_WriteRegisters
<1> DEFINE head == <<Bits("resume_target", 1, 0) \cup Bits("arch_flags", 8, 8), W("count")>>
<1> DEFINE regs == [k \in 1..36 |-> W(UserContext[k])]
<1>a. Len(UserContext) = 36 /\ DOMAIN UserContext = 1..36
  BY DEF UserContext
<1>b. \A i, j \in 1..36 : UserContext[i] = UserContext[j] => i = j
  BY DEF UserContext
<1>c. \A i \in 1..36 : UserContext[i] \notin {"resume_target", "arch_flags", "count"}
  BY DEF UserContext
<1>d. /\ s.extraCaps = 0 /\ s.length = 38 /\ s.caps = << >> /\ s.words = head \o regs
  BY <1>a DEF TCB_WriteRegisters, Stub
<1>e. /\ DOMAIN s.params = {"resume_target", "arch_flags", "count"} \cup {UserContext[k] : k \in 1..36}
      /\ \A arg \in DOMAIN s.params : s.params[arg] =
            IF arg = "resume_target" THEN 1 ELSE IF arg = "arch_flags" THEN 8 ELSE 64
  BY <1>a DEF TCB_WriteRegisters, Stub, Word, WordBits, Bool, Uint8
<1>f. Len(head) = 2 /\ head[1] = w /\ head[2] = c /\ head \in Seq({w, c})
  BY DEF Bits, W, Low, WordBits
<1>g. regs \in Seq({W(UserContext[k]) : k \in 1..36}) /\ Len(regs) = 36
  OBVIOUS
<1>h. \A k \in 1..36 : regs[k] = {[arg |-> UserContext[k], width |-> 64, at |-> 0]}
  BY DEF Bits, W, Low, WordBits
<1> HIDE DEF head, regs, s
<1>1. /\ Len(s.words) = 38 /\ s.words[1] = w /\ s.words[2] = c
      /\ \A k \in 3..38 : s.words[k] = regs[k - 2]
  <2> DEFINE H == {w, c}
  <2> DEFINE R == {W(UserContext[k]) : k \in 1..36}
  <2>1. w \in H \cup R /\ c \in H \cup R
    OBVIOUS
  <2>2. head = <<w, c>>
    BY DEF head, Bits, W, Low, WordBits
  <2>3. regs \in [1..36 -> H \cup R]
    BY DEF regs
  <2> HIDE DEF H, R, w, c
  <2>4. head \in Seq(H \cup R)
    BY <2>1, <2>2
  <2>5. regs \in Seq(H \cup R)
    BY <2>3, SeqOfFunction
  <2>6. Len(head) = 2 /\ Len(regs) = 36
    BY <1>f, <1>g
  <2>7. /\ Len(head \o regs) = Len(head) + Len(regs)
        /\ \A k \in 1..Len(head) + Len(regs) :
               (head \o regs)[k] = IF k <= Len(head) THEN head[k] ELSE regs[k - Len(head)]
    BY <2>4, <2>5
  <2>8. Len(head) + Len(regs) = 38 /\ Len(head) = 2
    BY <2>6
  <2>9. /\ Len(s.words) = 38
        /\ \A k \in 1..38 : s.words[k] = IF k <= 2 THEN head[k] ELSE regs[k - 2]
    <3>1. s.words = head \o regs
      BY <1>d
    <3> QED
      BY <2>7, <2>8, <3>1, Zenon
  <2>10. s.words[1] = head[1] /\ s.words[2] = head[2]
    BY <2>9
  <2>11. \A k \in 3..38 : s.words[k] = regs[k - 2]
    BY <2>9
  <2> QED
    BY <2>9, <2>10, <2>11, <1>f, Zenon
<1>2. \A p, q \in w : ~Overlap(p, q)
  BY DEF Overlap
<1>3. \A p, q \in c : ~Overlap(p, q)
  BY DEF Overlap
<1>4. \A p \in w \cup c : p.at + p.width <= WordBits /\ p.arg \in {"resume_target", "arch_flags", "count"}
  BY DEF WordBits
<1>5. \A p \in w, q \in c : p.arg # q.arg
  OBVIOUS
<1>6. \A k \in 3..38 : \A p \in s.words[k] : p.arg = UserContext[k - 2] /\ p.width = 64 /\ p.at = 0
  BY <1>1, <1>h
<1>7. \A k \in 3..38 : \A p, q \in s.words[k] : p = q
  BY <1>1, <1>h
<1>8. /\ \E p \in w : p.arg = "resume_target" /\ p.width = 1
      /\ \E p \in w : p.arg = "arch_flags" /\ p.width = 8
      /\ \E p \in c : p.arg = "count" /\ p.width = 64
  OBVIOUS
<1>9. \A k \in 3..38 : \E p \in s.words[k] : p.arg = UserContext[k - 2] /\ p.width = 64
  <2> TAKE k \in 3..38
  <2>1. k - 2 \in 1..36
    OBVIOUS
  <2>2. s.words[k] = {[arg |-> UserContext[k - 2], width |-> 64, at |-> 0]}
    BY <2>1, <1>1, <1>h
  <2> QED
    BY <2>2
<1> HIDE DEF w, c
<1>10. \A k \in 1..38 : \A p \in s.words[k] :
           /\ p.at + p.width <= WordBits
           /\ \A q \in s.words[k] : ~Overlap(p, q)
  <2> SUFFICES ASSUME NEW k \in 1..38, NEW p \in s.words[k], NEW q \in s.words[k]
               PROVE  p.at + p.width <= WordBits /\ ~Overlap(p, q)
    OBVIOUS
  <2>1. CASE k = 1
    BY <2>1, <1>1, <1>2, <1>4
  <2>2. CASE k = 2
    BY <2>2, <1>1, <1>3, <1>4
  <2>3. CASE k \in 3..38
    BY <2>3, <1>6, <1>7 DEF Overlap, WordBits
  <2> QED
    BY <2>1, <2>2, <2>3
<1>11. \A k, m \in 1..38 : \A p \in s.words[k], q \in s.words[m] : q.arg = p.arg => m = k
  <2> SUFFICES ASSUME NEW k \in 1..38, NEW m \in 1..38, NEW p \in s.words[k], NEW q \in s.words[m],
                      q.arg = p.arg
               PROVE  m = k
    OBVIOUS
  <2>1. CASE k \in 3..38 /\ m \in 3..38
    <3>1. k - 2 \in 1..36 /\ m - 2 \in 1..36 /\ UserContext[k - 2] = UserContext[m - 2]
      <4>1. p.arg = UserContext[k - 2] /\ q.arg = UserContext[m - 2]
        BY <2>1, <1>6
      <4> QED
        BY <4>1, <2>1
    <3>2. k - 2 = m - 2
      BY <3>1, <1>b
    <3> QED
      BY <3>2
  <2>2. CASE k \in 1..2 /\ m \in 3..38
    BY <2>2, <1>1, <1>4, <1>6, <1>c
  <2>3. CASE m \in 1..2 /\ k \in 3..38
    BY <2>3, <1>1, <1>4, <1>6, <1>c
  <2>4. CASE k \in 1..2 /\ m \in 1..2
    BY <2>4, <1>1, <1>5
  <2> QED
    BY <2>1, <2>2, <2>3, <2>4
<1>12. \A arg \in DOMAIN s.params : \E k \in 1..38 : \E p \in s.words[k] :
                  p.arg = arg /\ p.width = s.params[arg]
  <2> TAKE arg \in DOMAIN s.params
  <2>1. CASE \E i \in 1..36 : arg = UserContext[i]
    <3> PICK i \in 1..36 : arg = UserContext[i]
      BY <2>1
    <3>1. i + 2 \in 3..38 /\ (i + 2) - 2 = i /\ i + 2 \in 1..38
      OBVIOUS
    <3>2. s.params[arg] = 64
      BY <1>c, <1>e
    <3> QED
      BY <3>1, <3>2, <1>9
  <2>2. CASE arg \in {"resume_target", "arch_flags"}
    <3>1. \E p \in s.words[1] : p.arg = arg /\ p.width = s.params[arg]
      BY <2>2, <1>e, <1>8, <1>1
    <3> QED
      BY <3>1
  <2>3. CASE arg = "count"
    <3>1. \E p \in s.words[2] : p.arg = arg /\ p.width = s.params[arg]
      BY <2>3, <1>e, <1>8, <1>1
    <3> QED
      BY <3>1
  <2> QED
    BY <2>1, <2>2, <2>3, <1>e
<1>13. Marshalled(s)
  <2>1. s.extraCaps \in 0..3 /\ s.length \in 0..38 /\ Len(s.caps) = s.extraCaps /\ Len(s.words) = s.length
    BY <1>1, <1>d
  <2>2. 1..s.extraCaps = {} /\ 1..s.length = 1..38
    BY <1>d
  <2> QED
    BY <2>1, <2>2, <1>10, <1>11, <1>12 DEF Marshalled
<1> QED
  BY <1>13 DEF s
LEMMA EveryStubMarshalled == \A s \in AllStubs : Marshalled(s)
<1> TAKE s \in AllStubs
<1>1. CASE s \in {ARM_VCPU_InjectIRQ, TCB_ReadRegisters, TCB_WriteRegisters, TCB_CopyRegisters}
  BY <1>1, InjectMarshalled, ReadMarshalled, WriteMarshalled, CopyMarshalled
<1>2. CASE s \notin {ARM_VCPU_InjectIRQ, TCB_ReadRegisters, TCB_WriteRegisters, TCB_CopyRegisters}
  <2>1. PICK args : OneWordEach(s, args)
    BY <1>2, OneWordEachParameter
  <2> QED
    BY <2>1, OneWordMarshalled
<1> QED
  BY <1>1, <1>2

\* What the kernel finds.
LEMMA Found ==
    ASSUME DOMAIN msg = 0..LastWord, DOMAIN Aged(msg) = 0..LastWord,
           NEW s \in AllStubs, Marshalled(s), NEW count \in Nat, Invoke(s, count)
    PROVE  /\ call'.at = "kernel" /\ call'.stub = s
           /\ \A k \in 0..s.length - 1 : KernelReads(k)' = Argument(s.words[k + 1])
           /\ \A i \in 0..s.extraCaps - 1 : caps'[i] = s.caps[i + 1]
<1>1. /\ msg' = SetMR(Aged(msg), Buffered(s))
      /\ caps' = SetCap(s.caps)
      /\ call' = [at |-> "kernel", stub |-> s, count |-> count, regs |-> Loaded(s)]
  BY DEF Invoke
<1>2. s.extraCaps \in 0..3 /\ s.length \in 0..38 /\ Len(s.caps) = s.extraCaps /\ Len(s.words) = s.length
  BY DEF Marshalled
<1>3. call'.at = "kernel" /\ call'.stub = s /\ call'.regs = Loaded(s)
  BY <1>1
<1>4. /\ DOMAIN Placed(s) = 0..s.length - 1
      /\ \A k \in 0..s.length - 1 : Placed(s)[k] = Argument(s.words[k + 1])
  BY <1>2 DEF Placed
<1>5. \A k \in 0..s.length - 1 : k \in InRegister => Loaded(s)[k] = Placed(s)[k]
  BY <1>2, <1>4 DEF Loaded, InRegister
<1>6. \A k \in 0..s.length - 1 : k \notin InRegister =>
          k \in DOMAIN Buffered(s) /\ Buffered(s)[k] = Placed(s)[k]
  BY <1>2, <1>4 DEF Buffered, InRegister
<1>7. \A k \in 0..LastWord : k \in DOMAIN Buffered(s) => msg'[k] = Buffered(s)[k]
  BY <1>1 DEF SetMR
<1>8. \A k \in 0..s.length - 1 : k \in 0..LastWord
  <2>1. s.length \in 0..38
    BY <1>2
  <2> QED
    BY <2>1 DEF LastWord
<1>9. \A k \in 0..s.length - 1 : KernelReads(k)' = Placed(s)[k]
  <2> SUFFICES ASSUME NEW k \in 0..s.length - 1 PROVE KernelReads(k)' = Placed(s)[k]
    OBVIOUS
  <2>1. KernelReads(k)' = IF k \in InRegister THEN Loaded(s)[k] ELSE msg'[k]
    BY <1>3 DEF KernelReads
  <2> QED
    BY <2>1, <1>5, <1>6, <1>7, <1>8
<1>10. \A i \in 0..s.extraCaps - 1 : caps'[i] = s.caps[i + 1]
  <2>1. caps' = [i \in 0..2 |-> IF i < s.extraCaps THEN s.caps[i + 1] ELSE "old"]
    BY <1>1, <1>2 DEF SetCap
  <2>2. \A i \in 0..s.extraCaps - 1 : i \in 0..2 /\ i < s.extraCaps
    BY <1>2
  <2> QED
    BY <2>1, <2>2
<1> QED
  BY <1>3, <1>4, <1>9, <1>10

\* So every parameter has arrived, once and whole.
LEMMA MarshalledArrives ==
    ASSUME NEW s, Marshalled(s), call'.at = "kernel", call'.stub = s,
           \A k \in 0..s.length - 1 : KernelReads(k)' = Argument(s.words[k + 1]),
           \A i \in 0..s.extraCaps - 1 : caps'[i] = s.caps[i + 1]
    PROVE  ArgumentsArrive'
<1>1. /\ s.extraCaps \in 0..3 /\ s.length \in 0..38
      /\ \A i, j \in 1..s.extraCaps : s.caps[i] = s.caps[j] => i = j
      /\ \A i \in 1..s.extraCaps : s.caps[i] # "old"
      /\ \A k \in 1..s.length : \A p \in s.words[k] :
           /\ p.at + p.width <= WordBits
           /\ \A q \in s.words[k] : ~Overlap(p, q)
           /\ \A m \in 1..s.length : \A q \in s.words[m] : q.arg = p.arg => m = k
           /\ \A i \in 1..s.extraCaps : s.caps[i] # p.arg
      /\ \A arg \in DOMAIN s.params :
           \/ \E i \in 1..s.extraCaps : s.caps[i] = arg
           \/ \E k \in 1..s.length : \E p \in s.words[k] : p.arg = arg /\ p.width = s.params[arg]
  BY DEF Marshalled
<1>2. \A k \in 0..s.length - 1 :
          KernelReads(k)'.from = "call" /\ KernelReads(k)'.of = s.words[k + 1] /\ k + 1 \in 1..s.length
  BY <1>1 DEF Argument
<1>3. \A i \in 0..s.extraCaps - 1 : caps'[i] = s.caps[i + 1] /\ i + 1 \in 1..s.extraCaps
  BY <1>1
<1>4. ASSUME NEW arg \in DOMAIN s.params
      PROVE  Cardinality(CapPlaces(arg)') + Cardinality(WordPlaces(arg)') = 1
  <2> DEFINE C == {i \in 0..s.extraCaps - 1 : caps'[i] = arg}
  <2> DEFINE M == {k \in 0..s.length - 1 :
                       \E p \in KernelReads(k)'.of : p.arg = arg /\ p.width = s.params[arg]}
  <2>1. CapPlaces(arg)' = C /\ WordPlaces(arg)' = M
    BY DEF CapPlaces, WordPlaces
  <2>2. CASE \E i \in 1..s.extraCaps : s.caps[i] = arg
    <3> PICK i \in 1..s.extraCaps : s.caps[i] = arg
      BY <2>2
    <3>1. C = {i - 1}
      BY <1>1, <1>3
    <3>2. M = {}
      BY <1>1, <1>2
    <3> HIDE DEF C, M
    <3>3. Cardinality({i - 1}) = 1 /\ Cardinality({}) = 0
      BY FS_Singleton, FS_EmptySet, Zenon
    <3>4. Cardinality(C) = 1 /\ Cardinality(M) = 0
      BY <3>1, <3>2, <3>3
    <3>5. Cardinality(C) + Cardinality(M) = 1
      BY <3>4
    <3> QED
      BY <2>1, <3>5
  <2>3. CASE \E k \in 1..s.length : \E p \in s.words[k] : p.arg = arg /\ p.width = s.params[arg]
    <3> PICK k \in 1..s.length : \E p \in s.words[k] : p.arg = arg /\ p.width = s.params[arg]
      BY <2>3
    <3>1. C = {}
      BY <1>1, <1>3
    <3>2. M = {k - 1}
      <4>1. k - 1 \in 0..s.length - 1 /\ (k - 1) + 1 = k
        BY <1>1
      <4>2. k - 1 \in M
        BY <4>1, <1>2
      <4>3. \A j \in M : j + 1 = k
        BY <1>1, <1>2
      <4>4. \A j \in M : j = k - 1
        BY <4>3
      <4> QED
        BY <4>2, <4>4, Zenon
    <3> HIDE DEF C, M
    <3>3. Cardinality({k - 1}) = 1 /\ Cardinality({}) = 0
      BY FS_Singleton, FS_EmptySet, Zenon
    <3>4. Cardinality(M) = 1 /\ Cardinality(C) = 0
      BY <3>1, <3>2, <3>3
    <3>5. Cardinality(C) + Cardinality(M) = 1
      BY <3>4
    <3> QED
      BY <2>1, <3>5
  <2> QED
    BY <2>2, <2>3, <1>1
<1>5. \A k \in 0..s.length - 1 :
          /\ KernelReads(k)'.from = "call"
          /\ \A p, q \in KernelReads(k)'.of : ~Overlap(p, q) /\ p.at + p.width <= WordBits
  BY <1>1, <1>2
<1>6. \A i \in 0..s.extraCaps - 1 : caps'[i] # "old"
  BY <1>1, <1>3
<1> QED
  BY <1>4, <1>5, <1>6 DEF ArgumentsArrive

LEMMA CountWords ==
    ASSUME NEW n \in Nat
    PROVE  Cardinality(0..n - 1) = n
<1>1. Cardinality(0..n - 1) = IF 0 > n - 1 THEN 0 ELSE (n - 1) - 0 + 1
  BY FS_Interval
<1> QED
  BY <1>1

LEMMA InitInvocations == Init => InvocationsInv
BY DEF Init, InvocationsInv, AnswerThere, ArgumentsArrive, AnswerArrives, Idle

\* Writing words into the buffer.
LEMMA SetWords ==
    ASSUME NEW buf, DOMAIN buf = 0..LastWord, NEW words
    PROVE  /\ DOMAIN SetMR(buf, words) = 0..LastWord
           /\ SetMR(buf, words) = [k \in 0..LastWord |-> SetMR(buf, words)[k]]
           /\ \A k \in 0..LastWord :
                  SetMR(buf, words)[k] = IF k \in DOMAIN words THEN words[k] ELSE buf[k]
BY DEF SetMR

LEMMA Written ==
    ASSUME DOMAIN msg = 0..LastWord, NEW words, msg' = SetMR(msg, words)
    PROVE  /\ msg' = [k \in 0..LastWord |-> msg'[k]]
           /\ \A k \in 0..LastWord : msg'[k] = IF k \in DOMAIN words THEN words[k] ELSE msg[k]
<1>1. msg' = [k \in 0..LastWord |-> IF k \in DOMAIN words THEN words[k] ELSE msg[k]]
  BY DEF SetMR
<1>2. \A k \in 0..LastWord : msg'[k] = IF k \in DOMAIN words THEN words[k] ELSE msg[k]
  BY <1>1
<1> QED
  BY <1>1, <1>2

LEMMA AgedWords ==
    ASSUME NEW buf, DOMAIN buf = 0..LastWord
    PROVE  /\ DOMAIN Aged(buf) = 0..LastWord
           /\ Aged(buf) = [k \in 0..LastWord |-> Aged(buf)[k]]
           /\ \A k \in 0..LastWord : buf[k] = User => Aged(buf)[k] = User
BY DEF Aged

LEMMA MsgDomain == InvocationsInv => DOMAIN msg = 0..LastWord
<1> SUFFICES ASSUME InvocationsInv PROVE DOMAIN msg = 0..LastWord
  OBVIOUS
<1>1. msg = [k \in 0..LastWord |-> msg[k]]
  BY DEF InvocationsInv
<1> QED
  BY <1>1

\* What one step of an invocation keeps: the invariant, and a message that waits to be sent.
StepKeeps == /\ InvocationsInv'
         /\ \A k \in InRegister :
                msg[k] = User => msg'[k] = User \/ (call.at = "answered" /\ call.error)

LEMMA RegistersAreWords == InRegister \subseteq 0..LastWord /\ 4 \in 0..LastWord
BY DEF InRegister, LastWord

LEMMA NotAsked == call'.at # "kernel" => ArgumentsArrive'
BY DEF ArgumentsArrive

\* While no answer is on its way, only the words matter.
LEMMA Quiet ==
    ASSUME call'.at \in {"idle", "kernel"}, ArgumentsArrive', msg' = [k \in 0..LastWord |-> msg'[k]],
           call'.at = "kernel" => call'.stub \in AllStubs /\ call'.count \in Nat
    PROVE  InvocationsInv'
BY DEF InvocationsInv, AnswerThere, AnswerArrives

LEMMA MrSetKeeps == ASSUME InvocationsInv, NEW j \in UserWords, MrSet(j) PROVE StepKeeps
<1> DEFINE words == [i \in {j} |-> User]
<1>1. call.at = "idle" /\ call' = call /\ msg' = SetMR(msg, words)
  BY DEF MrSet
<1>2. DOMAIN words = {j} /\ words[j] = User
  OBVIOUS
<1> HIDE DEF words
<1>3. /\ msg' = [k \in 0..LastWord |-> msg'[k]]
      /\ \A k \in 0..LastWord : msg'[k] = IF k \in {j} THEN words[k] ELSE msg[k]
  BY <1>1, <1>2, MsgDomain, Written
<1> QED
  BY <1>1, <1>2, <1>3, NotAsked, Quiet, RegistersAreWords DEF StepKeeps

LEMMA InvokeKeeps ==
    ASSUME InvocationsInv, NEW s \in AllStubs, NEW count \in Nat, Invoke(s, count)
    PROVE  StepKeeps
<1>1. /\ msg' = SetMR(Aged(msg), Buffered(s))
      /\ call' = [at |-> "kernel", stub |-> s, count |-> count, regs |-> Loaded(s)]
  BY DEF Invoke
<1>2. /\ msg' = [k \in 0..LastWord |-> msg'[k]]
      /\ \A k \in 0..LastWord :
             msg'[k] = IF k \in DOMAIN Buffered(s) THEN Buffered(s)[k] ELSE Aged(msg)[k]
  BY <1>1, MsgDomain, AgedWords, SetWords
<1>3. DOMAIN Buffered(s) \cap InRegister = {}
  BY DEF Buffered, InRegister
<1>4. \A k \in InRegister : msg[k] = User => msg'[k] = User
  BY <1>2, <1>3, MsgDomain, AgedWords, RegistersAreWords
<1>5. call'.at = "kernel" /\ call'.stub = s /\ call'.count = count
  BY <1>1
<1>6. ArgumentsArrive'
  <2>1. Marshalled(s)
    BY EveryStubMarshalled
  <2>2. /\ \A k \in 0..s.length - 1 : KernelReads(k)' = Argument(s.words[k + 1])
        /\ \A i \in 0..s.extraCaps - 1 : caps'[i] = s.caps[i + 1]
    BY <2>1, MsgDomain, AgedWords, Found
  <2> QED
    BY <1>5, <2>1, <2>2, MarshalledArrives
<1> QED
  BY <1>2, <1>4, <1>5, <1>6, Quiet DEF StepKeeps

\* The kernel's words lie in registers and in the buffer, as many as there are.
LEMMA AnswerPlaced ==
    ASSUME InvocationsInv, NEW n \in 0..36, NEW words, DOMAIN words = 0..n - 1,
           NEW error \in BOOLEAN, Answer(words, error),
           error => n \in 0..5, ~error => n \in 0..Len(call.stub.results),
           \A k \in 0..n - 1 :
               words[k] = IF error THEN ErrorInfo ELSE Result(call.stub.results[k + 1])
    PROVE  StepKeeps
<1> DEFINE upper == [k \in {j \in DOMAIN words : j > 3} |-> words[k]]
           regs == [k \in InRegister |-> IF k \in DOMAIN words THEN words[k] ELSE Junk]
<1>1. /\ call.at = "kernel" /\ msg' = SetMR(msg, upper)
      /\ call' = [at |-> "answered", stub |-> call.stub, count |-> call.count, error |-> error,
                  words |-> Cardinality(DOMAIN words), regs |-> regs]
  BY DEF Answer
<1>2. Cardinality(DOMAIN words) = n
  BY CountWords
<1>3. /\ call'.at = "answered" /\ call'.stub = call.stub /\ call'.error = error
      /\ call'.words = n /\ call'.regs = regs
  BY <1>1, <1>2
<1>4. call.stub \in AllStubs
  BY <1>1 DEF InvocationsInv
<1>5. DOMAIN upper = {j \in 0..n - 1 : j > 3} /\ \A k \in DOMAIN upper : upper[k] = words[k]
  OBVIOUS
<1>6. DOMAIN regs = InRegister /\ \A k \in InRegister : k \in 0..n - 1 => regs[k] = words[k]
  OBVIOUS
<1> HIDE DEF upper, regs
<1>7. /\ msg' = [k \in 0..LastWord |-> msg'[k]]
      /\ \A k \in 0..LastWord : msg'[k] = IF k \in DOMAIN upper THEN upper[k] ELSE msg[k]
  BY <1>1, MsgDomain, Written
<1>8. ASSUME NEW k \in 0..n - 1
      PROVE  (IF k \in InRegister THEN regs[k] ELSE msg'[k]) = words[k]
  <2>1. CASE k \in InRegister
    BY <1>6, <2>1
  <2>2. CASE k \notin InRegister
    <3>1. k > 3 /\ k \in 0..LastWord
      BY <2>2 DEF InRegister, LastWord
    <3>2. k \in DOMAIN upper
      BY <1>5, <3>1
    <3> QED
      BY <1>5, <1>7, <2>2, <3>1
  <2> QED
    BY <2>1, <2>2
<1>9. AnswerThere'
  BY <1>3, <1>4, <1>6, <1>8 DEF AnswerThere
<1>10. \A k \in InRegister : k \notin DOMAIN upper
  BY <1>5 DEF InRegister
<1>11. \A k \in InRegister : msg'[k] = msg[k]
  BY <1>7, <1>10, RegistersAreWords
<1>12. InvocationsInv'
  BY <1>3, <1>7, <1>9, NotAsked DEF InvocationsInv, AnswerArrives
<1> QED
  BY <1>11, <1>12 DEF StepKeeps

LEMMA RefuseKeeps == ASSUME InvocationsInv, NEW n \in 0..5, Refuse(n) PROVE StepKeeps
<1> DEFINE words == [k \in 0..n - 1 |-> ErrorInfo]
<1>1. Answer(words, TRUE)
  BY DEF Refuse
<1>2. DOMAIN words = 0..n - 1 /\ \A k \in 0..n - 1 : words[k] = ErrorInfo
  OBVIOUS
<1>3. n \in 0..36
  OBVIOUS
<1> HIDE DEF words
<1> QED
  BY <1>1, <1>2, <1>3, AnswerPlaced

LEMMA SucceedKeeps == ASSUME InvocationsInv, Succeed PROVE StepKeeps
<1> DEFINE n == Answered
           words == [k \in 0..Answered - 1 |-> Result(call.stub.results[k + 1])]
<1>1. call.at = "kernel" /\ Answer(words, FALSE)
  BY DEF Succeed
<1>2. call.stub \in AllStubs /\ call.count \in Nat
  BY <1>1 DEF InvocationsInv
<1>3. Len(call.stub.results) \in 0..36
  BY <1>2, EveryResultFits DEF ResultsFit
<1>4. n \in 0..Len(call.stub.results)
  <2>1. CASE call.stub = TCB_ReadRegisters
    <3>1. call.stub.results = UserContext
      BY <2>1 DEF TCB_ReadRegisters, Stub
    <3>2. n = Smaller(call.count, Len(call.stub.results))
      BY <2>1, <3>1 DEF Answered
    <3> HIDE DEF n
    <3> QED
      BY <1>2, <1>3, <3>2 DEF Smaller
  <2>2. CASE call.stub # TCB_ReadRegisters
    <3>1. n = Len(call.stub.results)
      BY <2>2 DEF Answered
    <3> QED
      BY <1>3, <3>1
  <2> QED
    BY <2>1, <2>2
<1>5. PICK m \in 0..36 : m = n
  <2>1. n \in 0..36
    <3>1. \A m \in 0..36 : \A i \in 0..m : i \in 0..36
      OBVIOUS
    <3> HIDE DEF n
    <3> QED
      BY <1>3, <1>4, <3>1, Zenon
  <2> QED
    BY <2>1
<1>6. /\ DOMAIN words = 0..m - 1
      /\ \A k \in 0..m - 1 : words[k] = Result(call.stub.results[k + 1])
  BY <1>5
<1>7. m \in 0..Len(call.stub.results)
  BY <1>4, <1>5
<1>8. PICK w : w = words
  OBVIOUS
<1> HIDE DEF words
<1> QED
  BY <1>1, <1>6, <1>7, <1>8, AnswerPlaced

\* The stub takes the words from where the kernel has put them.
LEMMA ReturnKeepsAnswer == ASSUME InvocationsInv, Return PROVE StepKeeps
<1> DEFINE s == call.stub
           taken == IF call.error /\ s # TCB_ReadRegisters THEN << >> ELSE Unmarshal(s, msg')
<1>1. /\ call.at = "answered" /\ msg' = ErrorToBuffer
      /\ call' = [at |-> "returned", stub |-> s, count |-> call.count,
                  error |-> call.error, words |-> call.words, results |-> taken]
  BY DEF Return
<1>2. /\ call'.at = "returned" /\ call'.stub = s /\ call'.error = call.error
      /\ call'.words = call.words /\ call'.results = taken
  BY <1>1
<1>3. /\ s \in AllStubs /\ DOMAIN call.regs = InRegister
      /\ call.error => call.words \in 0..5
      /\ ~call.error => call.words \in 0..Len(s.results)
      /\ \A k \in 0..call.words - 1 :
             (IF k \in InRegister THEN call.regs[k] ELSE msg[k])
                 = IF call.error THEN ErrorInfo ELSE Result(s.results[k + 1])
  BY <1>1 DEF InvocationsInv, AnswerThere
<1>4. Len(s.results) \in 0..36
  BY <1>3, EveryResultFits DEF ResultsFit
<1>5. msg = [k \in 0..LastWord |-> msg[k]]
  BY DEF InvocationsInv
<1>6. CASE call.error
  <2>1. /\ msg' = [k \in 0..LastWord |-> msg'[k]]
        /\ \A k \in 0..LastWord : msg'[k] = IF k \in InRegister THEN call.regs[k] ELSE msg[k]
    <3>1. msg' = SetMR(msg, call.regs)
      BY <1>1, <1>6 DEF ErrorToBuffer
    <3> QED
      BY <1>3, <3>1, MsgDomain, Written
  <2>2. \A k \in 0..call.words - 1 : k \in 0..LastWord
    BY <1>3, <1>6 DEF LastWord
  <2>3. AnswerArrives'
    BY <1>2, <1>3, <1>6, <2>1, <2>2 DEF AnswerArrives
  <2>4. InvocationsInv'
    BY <1>2, <2>1, <2>3, NotAsked DEF InvocationsInv, AnswerThere
  <2> QED
    BY <1>1, <1>6, <2>4 DEF StepKeeps
<1>7. CASE ~call.error
  <2>1. msg' = msg
    BY <1>1, <1>7 DEF ErrorToBuffer
  <2>2. \A k \in 0..Len(s.results) - 1 :
            taken[k] = IF k \in InRegister THEN call.regs[k] ELSE msg[k]
    BY <1>7, <2>1 DEF Unmarshal
  <2>3. \A k \in 0..call.words - 1 : k \in 0..Len(s.results) - 1
    <3> HIDE DEF s
    <3> QED
      BY <1>3, <1>4, <1>7
  <2> HIDE DEF taken, s
  <2>4. \A k \in 0..call.words - 1 : taken[k] = Result(s.results[k + 1])
    BY <1>3, <1>7, <2>2, <2>3
  <2>5. AnswerArrives'
    BY <1>2, <1>7, <2>4 DEF AnswerArrives
  <2>6. InvocationsInv'
    BY <1>2, <1>5, <2>1, <2>5, NotAsked DEF InvocationsInv, AnswerThere
  <2> QED
    BY <2>1, <2>6 DEF StepKeeps
<1> QED
  BY <1>6, <1>7

LEMMA ResumeKeepsMessage == ASSUME InvocationsInv, Resume PROVE StepKeeps
<1>1. call' = Idle /\ msg' = Aged(msg)
  BY DEF Resume
<1>2. /\ msg' = [k \in 0..LastWord |-> msg'[k]]
      /\ \A k \in 0..LastWord : msg[k] = User => msg'[k] = User
  BY <1>1, MsgDomain, AgedWords
<1>3. call'.at = "idle"
  BY <1>1 DEF Idle
<1> QED
  BY <1>2, <1>3, NotAsked, Quiet, RegistersAreWords DEF StepKeeps

LEMMA NextInvocations == Counts \subseteq Nat /\ InvocationsInv /\ Next => StepKeeps
<1> SUFFICES ASSUME Counts \subseteq Nat, InvocationsInv, Next PROVE StepKeeps
  OBVIOUS
<1>1. 0 \in Nat /\ \A n \in Counts : n \in Nat
  OBVIOUS
<1> QED
  BY <1>1, MrSetKeeps, InvokeKeeps, SucceedKeeps, RefuseKeeps, ReturnKeepsAnswer,
     ResumeKeepsMessage, Zenon DEF Next

LEMMA InvocationsIdle == ASSUME InvocationsInv, UNCHANGED vars PROVE InvocationsInv'
<1>1. msg' = msg /\ caps' = caps /\ call' = call
  BY DEF vars
<1>2. ArgumentsArrive'
  <2>1. \A k : KernelReads(k)' = KernelReads(k)
    BY <1>1 DEF KernelReads
  <2>2. \A arg : CapPlaces(arg)' = CapPlaces(arg) /\ WordPlaces(arg)' = WordPlaces(arg)
    BY <1>1, <2>1 DEF CapPlaces, WordPlaces
  <2> QED
    BY <1>1, <2>1, <2>2 DEF InvocationsInv, ArgumentsArrive
<1> QED
  BY <1>1, <1>2 DEF InvocationsInv, AnswerThere, AnswerArrives

(***************************************************************************)
(* The three together.                                                     *)
(***************************************************************************)
CallsInv == MessageInv /\ FaultsInv /\ InvocationsInv

LEMMA NextCalls ==
    ASSUME CallsInv, [CallsNext]_<<about, vars, fault_vars, message_vars>>
    PROVE  /\ CallsInv'
           /\ \/ StepKeeps
              \/ UNCHANGED vars
<1>0. Message!MessagesConstants /\ Counts \subseteq Nat
  BY KernelCallsAssumption, InvocationAssumption
<1>1. CASE Next /\ UNCHANGED <<about, fault_vars, message_vars>>
  BY <1>0, <1>1, NextInvocations, FaultsIdle, MessagesIdle DEF CallsInv, StepKeeps
<1>2. CASE Fault!Next /\ UNCHANGED <<about, vars, message_vars>>
  BY <1>2, NextFaults, InvocationsIdle, MessagesIdle DEF CallsInv
<1>3. CASE Message!Next /\ UNCHANGED <<about, vars, fault_vars>>
  BY <1>0, <1>3, NextMessages, InvocationsIdle, FaultsIdle DEF CallsInv
<1>4. CASE UNCHANGED <<about, vars, fault_vars, message_vars>>
  BY <1>4, InvocationsIdle, FaultsIdle, MessagesIdle DEF CallsInv
<1> QED
  BY <1>1, <1>2, <1>3, <1>4 DEF CallsNext

\* What every state of a thread, a handler and an invocation satisfies.
THEOREM AlwaysCalls == CallsSpec => []CallsInv
<1>1. CallsInit => CallsInv
  BY KernelCallsAssumption, InitMessages, InitFaults, InitInvocations DEF CallsInit, CallsInv
<1>2. CallsInv /\ [CallsNext]_<<about, vars, fault_vars, message_vars>> => CallsInv'
  BY NextCalls
<1> QED
  BY <1>1, <1>2, PTL DEF CallsSpec

\* A handler is told what the kernel said about the fault: all of it after calls of the public
\* interface that succeeded, all but the first four registers after a refused sel4cp_irq_ack
\* (sel4cp.h:1034), the first four after any invocations of which none was refused; nothing is
\* said of other refusals.  What root.c:57 prints is the address that it was sent.
THEOREM AlwaysHandlerTold == CallsSpec => []HandlerTold
<1>1. CallsInv => HandlerTold
  BY DEF CallsInv, FaultsInv
<1> QED
  BY <1>1, AlwaysCalls, PTL

\* Every register of a timed out thread gets the value that the handler gave for it, for
\* every length of the reply (seL4_TimeoutReply_new, seL4_TimeoutReply_Msg).
THEOREM AlwaysTimeoutReplyRestores == CallsSpec => []TimeoutReplyRestores
<1>1. CallsInv => TimeoutReplyRestores
  BY DEF CallsInv, FaultsInv
<1> QED
  BY <1>1, AlwaysCalls, PTL

\* For any number of threads, whichever two calls of the wrappers of sel4/arch/syscalls.h meet:
\* a message goes to whom its sender named and arrives as it was composed, but for words beyond
\* the fourth of seL4_Send and its kin, which may be the old ones of the sender's buffer, and
\* for the messages of seL4_NBSendWaitWithMRs (:461), which are lost and stop their sender.
THEOREM AlwaysMessageDelivered == CallsSpec => []MessageDelivered
<1>1. CallsInv => MessageDelivered
  BY DeliveredFromInv DEF CallsInv
<1> QED
  BY <1>1, AlwaysCalls, PTL

\* In every configuration, from every stub: each parameter is in exactly one of the words and
\* capabilities that the kernel reads, whole, next to no other, and nothing that the kernel
\* reads is left from an earlier call (sel4_client.h).
THEOREM AlwaysArgumentsArrive == CallsSpec => []ArgumentsArrive
<1>1. CallsInv => ArgumentsArrive
  BY DEF CallsInv, InvocationsInv
<1> QED
  BY <1>1, AlwaysCalls, PTL

\* In every configuration, after every stub: what the caller has in hand is the kernel's
\* answer to its call, or the explanation of its refusal (sel4_client.h).
THEOREM AlwaysAnswerArrives == CallsSpec => []AnswerArrives
<1>1. CallsInv => AnswerArrives
  BY DEF CallsInv, InvocationsInv
<1> QED
  BY <1>1, AlwaysCalls, PTL

\* The first four words of a message that a thread has prepared survive every invocation
\* that is not refused, in every configuration (sel4cp_mr_set, sel4_client.h).
THEOREM AlwaysMessageKept == CallsSpec => MessageKept
<1> DEFINE Kept == \A k \in InRegister :
                       msg[k] = User => msg'[k] = User \/ (call.at = "answered" /\ call.error)
<1>1. CallsInv /\ [CallsNext]_<<about, vars, fault_vars, message_vars>> => [Kept]_vars
  BY NextCalls DEF StepKeeps
<1> QED
  BY <1>1, AlwaysCalls, PTL DEF CallsSpec, MessageKept
=============================================================================

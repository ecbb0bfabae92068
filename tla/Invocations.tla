---------------------------- MODULE Invocations ----------------------------
(***************************************************************************)
(* A thread that makes one invocation after the other through the stubs of *)
(* sel4_client.h, and keeps a message of its own in its IPC buffer in      *)
(* between.  The stub puts capabilities and the words from the fifth on    *)
(* into the IPC buffer, and the first four words into registers; the       *)
(* kernel reads as many of both as the message info declares, answers      *)
(* likewise, and the stub takes the results out.  A word is where it comes *)
(* from and, if it was composed for this call, what it is composed of.     *)
(***************************************************************************)
EXTENDS Stubs

CONSTANTS Configs,      \* the configurations to look at
          Counts,       \* how many registers a caller of ReadRegisters asks for
          UserWords     \* the message registers that the thread may be using itself

ASSUME InvocationAssumption ==
    /\ \A config \in Configs : "always" \in config
    /\ Counts \subseteq Nat
    /\ UserWords \subseteq 0..37

VARIABLES config,       \* the configuration that the program is built in
          msg,          \* the words of the IPC buffer
          caps,         \* the capability slots of the IPC buffer
          call          \* the invocation, as far as it has come

vars == <<config, msg, caps, call>>

(***************************************************************************)
(* Words.                                                                  *)
(***************************************************************************)
LastWord == 37          \* the last one that any stub uses
InRegister == 0..3

User == [from |-> "user", of |-> {}]
Old == [from |-> "old", of |-> {}]
Zero == [from |-> "zero", of |-> {}]
Junk == [from |-> "junk", of |-> {}]
ErrorInfo == [from |-> "error", of |-> {}]
Argument(pieces) == [from |-> "call", of |-> pieces]
Result(field) == [from |-> "result", of |-> W(field)]

\* What earlier calls left behind is not told apart; the thread's own words are.
Aged(buffer) == [k \in DOMAIN buffer |-> IF buffer[k] = User THEN User ELSE Old]

OldCaps == [i \in 0..2 |-> "old"]

SetMR(buffer, words) == [k \in DOMAIN buffer |-> IF k \in DOMAIN words THEN words[k] ELSE buffer[k]]
SetCap(slots) == [i \in 0..2 |-> IF i < Len(slots) THEN slots[i + 1] ELSE "old"]

Idle == [at |-> "idle"]

Init ==
    /\ config \in Configs
    /\ msg = [k \in 0..LastWord |-> Old]
    /\ caps = OldCaps
    /\ call = Idle

\* The thread prepares a message: sel4cp_mr_set.
MrSet(k) ==
    /\ call.at = "idle"
    /\ msg' = SetMR(msg, [j \in {k} |-> User])
    /\ UNCHANGED <<config, caps, call>>

(***************************************************************************)
(* Marshalling.                                                            *)
(***************************************************************************)

\* The words of the stub as they lie in the message: from the first on, number 0.
Placed(s) == [k \in 0..Len(s.words) - 1 |-> Argument(s.words[k + 1])]

\* In place of Buffered: the words that go to registers are put into the buffer as well.
BadBuffered(s) == [k \in {j \in DOMAIN Placed(s) : j >= 0} |-> Placed(s)[k]]
Buffered(s) == [k \in {j \in DOMAIN Placed(s) : j > 3} |-> Placed(s)[k]]

\* seL4_CallWithMRs loads mr0 .. mr3 as far as the message info says; mr's that the stub
\* has no argument for are 0.
Loaded(s) == [k \in InRegister |->
    IF k < s.length /\ k \in DOMAIN Placed(s) THEN Placed(s)[k] ELSE Zero]

Invoke(s, count) ==
    /\ call.at = "idle"
    /\ s \in Compiled(config)
    /\ msg' = SetMR(Aged(msg), Buffered(s))
    /\ caps' = SetCap(s.caps)
    /\ call' = [at |-> "kernel", stub |-> s, count |-> count, regs |-> Loaded(s)]
    /\ UNCHANGED config

(***************************************************************************)
(* The kernel.  It reads what the message info declares.  An answer has    *)
(* the results of the method, in registers and from the fifth on in the    *)
(* buffer; registers beyond them are junk.  A refusal has up to five words *)
(* that explain it.                                                        *)
(***************************************************************************)
KernelReads(k) == IF k \in InRegister THEN call.regs[k] ELSE msg[k]

Smaller(a, b) == IF a < b THEN a ELSE b

Answered == IF call.stub = TCB_ReadRegisters
            THEN Smaller(call.count, Len(UserContext))
            ELSE Len(call.stub.results)

Answer(words, error) ==
    /\ call.at = "kernel"
    /\ call' = [at |-> "answered", stub |-> call.stub, count |-> call.count, error |-> error,
                words |-> Cardinality(DOMAIN words),
                regs |-> [k \in InRegister |-> IF k \in DOMAIN words THEN words[k] ELSE Junk]]
    /\ msg' = SetMR(msg, [k \in {j \in DOMAIN words : j > 3} |-> words[k]])
    /\ UNCHANGED <<config, caps>>

Succeed == call.at = "kernel"
           /\ Answer([k \in 0..Answered - 1 |-> Result(call.stub.results[k + 1])], FALSE)
Refuse(n) == Answer([k \in 0..n - 1 |-> ErrorInfo], TRUE)

(***************************************************************************)
(* Unmarshalling.  A refusal is copied to the IPC buffer.  The stubs with  *)
(* results then return before they set any; ReadRegisters does not.        *)
(***************************************************************************)
\* In place of Unmarshal: register words from the buffer, where an invocation never puts them.
BadUnmarshal(s, buffer) ==
    [k \in 0..Len(s.results) - 1 |-> buffer[k]]
Unmarshal(s, buffer) ==
    [k \in 0..Len(s.results) - 1 |-> IF k \in InRegister THEN call.regs[k] ELSE buffer[k]]

ErrorToBuffer == IF call.error THEN SetMR(msg, call.regs) ELSE msg

Return ==
    /\ call.at = "answered"
    /\ msg' = ErrorToBuffer
    /\ call' = [at |-> "returned", stub |-> call.stub, count |-> call.count,
                error |-> call.error, words |-> call.words,
                results |-> IF call.error /\ call.stub # TCB_ReadRegisters
                            THEN << >> ELSE Unmarshal(call.stub, msg')]
    /\ UNCHANGED <<config, caps>>

\* The caller has looked at the result.
Resume ==
    /\ call.at = "returned"
    /\ call' = Idle
    /\ msg' = Aged(msg)
    /\ caps' = OldCaps
    /\ UNCHANGED config

Next ==
    \/ \E k \in UserWords : MrSet(k)
    \/ \E s \in AllStubs :
           \/ s # TCB_ReadRegisters /\ Invoke(s, 0)
           \/ \E n \in Counts : s = TCB_ReadRegisters /\ Invoke(s, n)
    \/ Succeed
    \/ \E n \in 0..5 : Refuse(n)
    \/ Return
    \/ Resume

Spec == Init /\ [][Next]_vars

(***************************************************************************)
(* Properties.                                                             *)
(***************************************************************************)

Overlap(p, q) == p # q /\ p.at < q.at + q.width /\ q.at < p.at + p.width

\* The capability slots, and the words, in which the kernel finds a parameter whole.
CapPlaces(arg) == {i \in 0..call.stub.extraCaps - 1 : caps[i] = arg}
WordPlaces(arg) ==
    {k \in 0..call.stub.length - 1 :
        \E p \in KernelReads(k).of : p.arg = arg /\ p.width = call.stub.params[arg]}

\* Every parameter of the invoked method reaches the kernel exactly once and at its full
\* width, no two share a bit, and nothing that the kernel reads was left in a register, in
\* the IPC buffer or in a capability slot by an earlier call (sel4_client.h, all stubs).
ArgumentsArrive ==
    call.at = "kernel" =>
        /\ \A arg \in DOMAIN call.stub.params :
               Cardinality(CapPlaces(arg)) + Cardinality(WordPlaces(arg)) = 1
        /\ \A k \in 0..call.stub.length - 1 :
               /\ KernelReads(k).from = "call"
               /\ \A p, q \in KernelReads(k).of : ~Overlap(p, q) /\ p.at + p.width <= WordBits
        /\ \A i \in 0..call.stub.extraCaps - 1 : caps[i] # "old"

\* The number in the message info tells the kernel which method is meant: in every
\* configuration the label is declared once, and no other method of it has the same one.
LabelTellsMethod ==
    call.at = "kernel" =>
        /\ Cardinality(LabelNumbers(config, call.stub.label)) = 1
        /\ \A s \in Compiled(config) : s.label = call.stub.label => s = call.stub

\* What the caller has in hand afterwards is the kernel's answer to this call: after a
\* success every field that was answered, whether it came in a register or in the buffer,
\* and after a refusal its explanation, in the message registers.
AnswerArrives ==
    call.at = "returned" =>
        \A k \in 0..call.words - 1 :
            IF call.error THEN msg[k] = ErrorInfo
            ELSE call.results[k] = Result(call.stub.results[k + 1])

\* A message that the thread has prepared survives the invocations that it makes before it
\* sends it, as far as its first four words go, unless one of them is refused.
MessageKept ==
    [][\A k \in InRegister :
           msg[k] = User => msg'[k] = User \/ (call.at = "answered" /\ call.error)]_vars
=============================================================================

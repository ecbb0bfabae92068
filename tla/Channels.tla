------------------------------ MODULE Channels ------------------------------
(***************************************************************************)
(* Notifications among protection domains: the badges that                 *)
(* sel4cp_internal_set_up_channel and sel4cp_internal_set_up_irq give to   *)
(* the capabilities they mint, sel4cp_notify and sel4cp_irq_ack, the       *)
(* kernel's notification words, the event loop that turns the word of a PD *)
(* into calls of notified(), and the programs that answer (pong.c) and     *)
(* that ping when they start (child.c).                                    *)
(*                                                                         *)
(* A word of 64 bits is the set of the numbers of its ones.  A PD runs     *)
(* only while no PD of a higher priority is ready, as in configuration.system *)
(* and the scheduling access rights.                                       *)
(***************************************************************************)
EXTENDS Integers

CONSTANTS
    PDs,         \* the protection domains
    Ids,         \* the channel ids that the system description uses
    Static,      \* the PDs that the system is booted with
    Loader,      \* the PD that loads a PD which is not in Static
    Priority,    \* a number for each PD
    Wires,       \* the channels, records [a, ida, b, idb]
    Lines,       \* the interrupt lines of the PDs in Static, records [pd, id]
    Interrupts,  \* the rights to an interrupt of the loader, records [pd, id, parent]
    Ping,        \* how often init() of a PD notifies each id
    Ponging,     \* the PDs that answer each notification on its channel
    NoCap        \* what an empty slot holds

Bits == 0 .. 63

ASSUME ChannelsAssumption ==
    /\ Ids \subseteq Nat
    /\ Static \subseteq PDs /\ Ponging \subseteq PDs
    /\ Loader \in [PDs \ Static -> PDs]
    /\ Priority \in [PDs -> Nat]
    /\ Wires \subseteq [a : PDs \ Static, ida : Ids, b : PDs, idb : Ids]
    /\ Lines \subseteq [pd : Static, id : Ids]
    /\ Interrupts \subseteq [pd : PDs \ Static, id : Ids, parent : Ids]
    /\ Ping \in [PDs -> [Ids -> Nat]]
    /\ NoCap \notin [to : PDs, id : Ids, badge : SUBSET Bits]

VARIABLES
    pc,        \* where each PD is: not loaded, being loaded, in init(),
               \* waiting, or in the event loop with a word in hand
    table,     \* the access rights of a PD that are still to be set up
    caps,      \* caps[p][id] is p's BASE_OUTPUT_NOTIFICATION_CAP + id
    line,      \* an interrupt line is "armed", or "masked" until its ack
    handler,   \* the PD that has its handler, and the id in its CSpace
    word,      \* the notification word of each PD
    badge,     \* the bits that the event loop of a PD still has to look at
    pings,     \* the ids that init() has still to notify
    entered,   \* the function of the program that the event loop called
    sent,      \* history: the ids signalled to a PD since it last received
    due,       \* history: the ids of what it received, until they are notified
    stranded   \* history: the lines handed on while masked, until they are acknowledged

vars == <<pc, table, caps, line, handler, word, badge, pings, entered, sent, due, stranded>>

None == <<>>

-----------------------------------------------------------------------------
(* Badges. *)

(* Without the shift, the number itself. *)
BadBadge(id) ==
    {i \in 0 .. 5 : (id \div (2 ^ i)) % 2 = 1}

(* 1 << id, an int on the left: AArch64 shifts by id % 32, and the result   *)
(* is extended with its sign when it becomes the badge, a 64-bit word.      *)
Badge(id) ==
    LET s == id % 32 IN IF s = 31 THEN 31 .. 63 ELSE {s}

(* The capability by which the other end notifies to on its channel id. *)
Minted(to, id) ==
    [to |-> to, id |-> id, badge |-> Badge(id)]

Init ==
    /\ pc = [p \in PDs |-> IF p \in Static THEN "init" ELSE "file"]
    /\ table = [p \in PDs |-> {w \in Wires : w.a = p} \cup {i \in Interrupts : i.pd = p}]
    /\ caps = [p \in PDs |-> [id \in Ids |-> NoCap]]
    /\ line = [i \in Lines |-> "armed"]
    /\ handler = [i \in Lines |-> i]
    /\ word = [p \in PDs |-> {}]
    /\ badge = [p \in PDs |-> {}]
    /\ pings = Ping
    /\ entered = [p \in PDs |-> None]
    /\ sent = [p \in PDs |-> {}]
    /\ due = [p \in PDs |-> {}]
    /\ stranded = {}

-----------------------------------------------------------------------------
(* Scheduling. *)

(* The PDs that l is loading. *)
Loads(l) ==
    {p \in PDs \ Static : pc[p] = "table" /\ Loader[p] = l}

Running(p) ==
    pc[p] \notin {"file", "table"}

Ready(p) ==
    /\ Running(p)
    /\ pc[p] = "wait" => word[p] # {} \/ Loads(p) # {}

(* No PD of a higher priority is ready. *)
Turn(p) ==
    /\ Running(p)
    /\ \A q \in PDs : Priority[q] > Priority[p] => ~Ready(q)

-----------------------------------------------------------------------------
(* The kernel's part. *)

(* seL4_Signal on a slot: an empty one is an error that only a debug kernel *)
(* prints.  The badge is added to the word of the target.                   *)
Signalled(invoked, w) ==
    [p \in PDs |-> w[p] \cup UNION {c.badge : c \in {d \in invoked \ {NoCap} : d.to = p}}]

Sending(invoked, s) ==
    [p \in PDs |-> s[p] \cup {c.id : c \in {d \in invoked \ {NoCap} : d.to = p}}]

(* sel4cp_notify *)
notify(p, ch) ==
    /\ word' = Signalled({caps[p][ch]}, word)
    /\ sent' = Sending({caps[p][ch]}, sent)

(* The device raises an interrupt: the kernel signals the notification that *)
(* it is registered with, that of the PD which has the handler, and masks   *)
(* the line until the handler acknowledges.                                 *)
Raise(i) ==
    /\ line[i] = "armed"
    /\ line' = [line EXCEPT ![i] = "masked"]
    /\ word' = [word EXCEPT ![handler[i].pd] = @ \cup Badge(handler[i].id)]
    /\ sent' = [sent EXCEPT ![handler[i].pd] = @ \cup {handler[i].id}]
    /\ UNCHANGED <<pc, table, caps, handler, badge, pings, entered, due, stranded>>

-----------------------------------------------------------------------------
(* A loader sets up the access rights of the PD that it creates. *)

(* Each end gets a capability with its own id. *)
Badset_up_channel(c, w) ==
    [c EXCEPT ![w.a][w.ida] = Minted(w.b, w.ida),
              ![w.b][w.idb] = Minted(w.a, w.idb)]

(* Each end gets a capability with the id of the other. *)
set_up_channel(c, w) ==
    [c EXCEPT ![w.a][w.ida] = Minted(w.b, w.idb),
              ![w.b][w.idb] = Minted(w.a, w.ida)]

SetUpChannel(p) ==
    /\ pc[p] = "table" /\ Turn(Loader[p])
    /\ \E w \in table[p] \cap Wires :
          /\ caps' = set_up_channel(caps, w)
          /\ table' = [table EXCEPT ![p] = @ \ {w}]
    /\ UNCHANGED <<pc, line, handler, word, badge, pings, entered, sent, due, stranded>>

(* set_up_irq: the interrupt is registered with the new PD, and the handler *)
(* is moved to it.  Neither acknowledges the interrupt, and a loader that   *)
(* has no such handler crashes.                                             *)
SetUpIrq(p) ==
    /\ pc[p] = "table" /\ Turn(Loader[p])
    /\ \E r \in table[p] \cap Interrupts, i \in Lines :
          /\ handler[i] = [pd |-> Loader[p], id |-> r.parent]
          /\ handler' = [handler EXCEPT ![i] = [pd |-> p, id |-> r.id]]
          /\ table' = [table EXCEPT ![p] = @ \ {r}]
          /\ stranded' = stranded \cup ({i} \cap {j \in Lines : line[j] = "masked"})
    /\ UNCHANGED <<pc, caps, line, word, badge, pings, entered, sent, due>>

(* The end of the table: the new PD is started. *)
Start(p) ==
    /\ pc[p] = "table" /\ Turn(Loader[p])
    /\ table[p] = {}
    /\ pc' = [pc EXCEPT ![p] = "init"]
    /\ UNCHANGED <<table, caps, line, handler, word, badge, pings, entered, sent, due, stranded>>

-----------------------------------------------------------------------------
(* A PD: init(), then the event loop. *)

(* init() notifies each of its ids. *)
StartPing(p) ==
    /\ Turn(p)
    /\ pc[p] = "init"
    /\ \E ch \in Ids :
          /\ pings[p][ch] > 0
          /\ notify(p, ch)
          /\ pings' = [pings EXCEPT ![p][ch] = @ - 1]
    /\ UNCHANGED <<pc, table, caps, line, handler, badge, entered, due, stranded>>

(* init() returns and the event loop waits. *)
EnterLoop(p) ==
    /\ Turn(p)
    /\ pc[p] = "init"
    /\ \A ch \in Ids : pings[p][ch] = 0
    /\ pc' = [pc EXCEPT ![p] = "wait"]
    /\ UNCHANGED <<table, caps, line, handler, word, badge, pings, entered, sent, due, stranded>>

(* Only the lowest bit is looked at. *)
BadTaken(w) == {CHOOSE b \in w : \A c \in w : b <= c}

(* What the event loop takes of the word that it receives. *)
Taken(w) == w

(* The wait returns: the kernel clears the word. *)
Receive(p) ==
    /\ Turn(p)
    /\ pc[p] = "wait" /\ Loads(p) = {}
    /\ word[p] # {}
    /\ badge' = [badge EXCEPT ![p] = Taken(word[p])]
    /\ word' = [word EXCEPT ![p] = {}]
    /\ pc' = [pc EXCEPT ![p] = "handle"]
    /\ entered' = [entered EXCEPT ![p] = None]
    /\ due' = [due EXCEPT ![p] = sent[p]]
    /\ sent' = [sent EXCEPT ![p] = {}]
    /\ UNCHANGED <<table, caps, line, handler, pings, stranded>>

(* The index has moved on before the call.                                  *)
BadCall(bits) ==
    <<"notified", 1 + CHOOSE id \in bits : \A b \in bits : id <= b>>

(* The call that the event loop makes next for the bits in hand: bit 62     *)
(* stands for a fault message and bit 63 for a protected call, whose ids    *)
(* are the low bits; otherwise notified() is called for each bit, from the  *)
(* lowest on.                                                               *)
Call(bits) ==
    IF 62 \in bits THEN <<"fault">>
    ELSE IF 63 \in bits THEN <<"protected">>
    ELSE <<"notified", CHOOSE id \in bits : \A b \in bits : id <= b>>

(* The channel of a call of notified(), as a set of at most one id. *)
Channel(call) ==
    IF call[1] = "notified" THEN {call[2]} ELSE {}

(* What notified(id) signals: pong answers on the same channel. *)
Answer(p, ids) ==
    {caps[p][id] : id \in IF p \in Ponging THEN ids \cap Ids ELSE {}}

(* The acknowledgement names the channel that the root has. *)
BadAcknowledged(p, ids) ==
    {i \in Lines : handler[i].pd = p /\ 0 \in ids}

(* sel4cp_irq_ack in notified(id), for the channels that carry interrupts.  *)
(* One whose handler has been handed on is refused, and the error dropped.  *)
Acknowledged(p, ids) ==
    {i \in Lines : handler[i].pd = p /\ handler[i].id \in ids}

(* The PDs whose file is complete if the character that came with an        *)
(* interrupt is its last one.                                               *)
Completed(p, acknowledged) ==
    {q \in PDs \ Static :
        /\ acknowledged # {} /\ pc[q] = "file" /\ Loader[q] = p
        /\ \A w \in Wires : w.a = q => Running(w.b)}

(* One call, and what the program does in it: with the last character of a  *)
(* file it goes on to load it.                                              *)
Dispatch(p) ==
    /\ Turn(p)
    /\ pc[p] = "handle" /\ Loads(p) = {}
    /\ LET call == Call(badge[p])
           rest == IF call[1] = "notified" THEN badge[p] \ {call[2]} ELSE {}
           acknowledged == Acknowledged(p, Channel(call))
       IN  /\ entered' = [entered EXCEPT ![p] = call]
           /\ badge' = [badge EXCEPT ![p] = rest]
           /\ \E new \in {{}} \cup {{q} : q \in Completed(p, acknowledged)} :
                 pc' = [q \in PDs |-> IF q \in new THEN "table"
                                      ELSE IF q # p THEN pc[q]
                                      ELSE IF rest = {} THEN "wait" ELSE "handle"]
           /\ word' = Signalled(Answer(p, Channel(call)), word)
           /\ sent' = Sending(Answer(p, Channel(call)), sent)
           /\ due' = [due EXCEPT ![p] = @ \ Channel(call)]
           /\ line' = [i \in Lines |-> IF i \in acknowledged THEN "armed" ELSE line[i]]
           /\ stranded' = stranded \ acknowledged
    /\ UNCHANGED <<table, caps, handler, pings>>

Step(p) ==
    \/ StartPing(p) \/ EnterLoop(p) \/ Receive(p) \/ Dispatch(p)

Create(p) ==
    SetUpChannel(p) \/ SetUpIrq(p) \/ Start(p)

Next ==
    \/ \E p \in PDs \ Static : Create(p)
    \/ \E i \in Lines : Raise(i)
    \/ \E p \in PDs : Step(p)

(* The kernel runs a ready PD of the highest priority, and PDs of the same  *)
(* priority in turns.  Nothing makes an interrupt arrive or a file end.     *)
Fairness ==
    /\ \A p \in PDs : WF_vars(Step(p))
    /\ \A p \in PDs \ Static : WF_vars(Create(p))

Spec == Init /\ [][Next]_vars /\ Fairness

-----------------------------------------------------------------------------
(* Properties. *)

(* The type of the state. *)
TypeOK ==
    /\ pc \in [PDs -> {"file", "table", "init", "wait", "handle"}]
    /\ table \in [PDs -> SUBSET (Wires \cup Interrupts)]
    /\ caps \in [PDs -> [Ids -> [to : PDs, id : Ids, badge : SUBSET Bits] \cup {NoCap}]]
    /\ line \in [Lines -> {"armed", "masked"}]
    /\ handler \in [Lines -> [pd : PDs, id : Ids]]
    /\ word \in [PDs -> SUBSET Bits]
    /\ badge \in [PDs -> SUBSET Bits]
    /\ pings \in [PDs -> [Ids -> Nat]]
    /\ entered \in [PDs -> {None, <<"fault">>, <<"protected">>} \cup ({"notified"} \X Bits)]
    /\ sent \in [PDs -> SUBSET Ids]
    /\ due \in [PDs -> SUBSET Ids]
    /\ stranded \in SUBSET Lines

(* No signal is lost and none is invented, whatever was merged in a word    *)
(* while the PD ran something else or was still being loaded: the bits that *)
(* wait for a PD, and those it has in hand, are the ids signalled to it.    *)
SignalsPending ==
    \A p \in PDs : word[p] = sent[p] /\ badge[p] = due[p]

(* The event loop calls nothing but notified() on a channel that was        *)
(* signalled: no other channel, no fault() and no protected() without a     *)
(* message.                                                                 *)
EntersAsSignalled ==
    [][\A p \in PDs :
          entered'[p] \notin {entered[p], None}
              => \E id \in due[p] : entered'[p] = <<"notified", id>>]_vars

(* A masked interrupt is on its way to the PD that can acknowledge it, so   *)
(* that no line stays masked for want of an acknowledgement, unless it was  *)
(* masked when its handler was handed on.  Then the signal is with the PD   *)
(* that has lost the handler, whose acknowledgement is refused              *)
(* (sel4cp.h:1034), and no acknowledgement has succeeded since.             *)
MaskedIsPending ==
    \A i \in Lines :
        line[i] = "masked" =>
            \/ handler[i].id \in sent[handler[i].pd] \cup due[handler[i].pd]
            \/ i \in stranded

(* Every signal to a PD that runs is handled, whatever its priority.        *)
SignalHandled ==
    \A p \in PDs, id \in Ids :
        (id \in sent[p] /\ Running(p)) ~> (entered[p] = <<"notified", id>>)

(* A ping to a PD that answers comes back on the channel it was sent on, as *)
(* child.c expects of pong.c.                                               *)
PingAnswered ==
    \A w \in Wires :
        (Ping[w.a][w.ida] > 0 /\ w.b \in Ponging /\ pc[w.a] = "init")
            ~> (entered[w.a] = <<"notified", w.ida>>)
=============================================================================

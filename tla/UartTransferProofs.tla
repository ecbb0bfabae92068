------------------------- MODULE UartTransferProofs -------------------------
(***************************************************************************)
(* For any number of programs and files of any size, sent at any speed: no *)
(* item is lost or read twice, one program at a time handles the UART, the *)
(* interrupt is lost only to a sender in a hurry, and what is taken and    *)
(* loaded follows FileTransfer step by step.                               *)
(***************************************************************************)
EXTENDS UartTransfer, NaturalsInduction, WellFoundedInduction, TLAPS

Places == {"none", "init", "idle", "clear", "read", "ack", "input", "create"}

TypeOK ==
    /\ sent \in Nat
    /\ uart \in [data : Nat, status : BOOLEAN, mask : BOOLEAN]
    /\ irq \in [masked : BOOLEAN, owner : ProgramSet]
    /\ pending \subseteq ProgramSet
    /\ program \in [ProgramSet -> [at : Places, c : Nat]]
    /\ taken \in Seq(Nat)
    /\ loaded \in Seq([by : ProgramSet, file : Nat])

\* Between the interrupt and its acknowledgement the kernel has it masked, and until the
\* character has been read there is one.
Handling ==
    /\ Handlers # {} => irq.masked
    /\ \A p \in pending : program[p].at \notin {"clear", "read", "ack"}
    /\ uart.status => uart.data # Empty
    /\ \A p \in ProgramSet : p \in pending \/ program[p].at \in {"clear", "read"} => uart.data # Empty

\* A program that runs and is not the first one has been started by the one before it.
Started ==
    \A k \in 1..Len(Programs) - 1 :
        program[Programs[k + 1]].at # "none" => \E i \in DOMAIN loaded : loaded[i].by = Programs[k]

\* One program at a time handles the UART.
Single == \A p, q \in Handlers : p = q

IInv == TypeOK /\ Single /\ Handling /\ Started /\ TakenOnce

LEMMA ProgramSetFacts ==
    /\ Programs[1] \in ProgramSet
    /\ \A p \in ProgramSet : /\ Number(p) \in 1..Len(Programs)
                             /\ Programs[Number(p)] = p
    /\ \A k \in 1..Len(Programs) : Programs[k] \in ProgramSet
<1>1. \A p \in ProgramSet : \E k \in DOMAIN Programs : Programs[k] = p
  BY DEF ProgramSet
<1>2. \A p \in ProgramSet : Number(p) \in DOMAIN Programs /\ Programs[Number(p)] = p
  BY <1>1 DEF Number
<1> QED BY <1>2, UartAssumption DEF ProgramSet

LEMMA GotoFacts ==
    ASSUME TypeOK, NEW p \in ProgramSet, NEW place \in Places, Goto(p, place)
    PROVE  /\ program' \in [ProgramSet -> [at : Places, c : Nat]]
           /\ program'[p].at = place /\ program'[p].c = program[p].c
           /\ \A q \in ProgramSet \ {p} : program'[q] = program[q]
BY DEF TypeOK, Goto

\* Who holds what, and who has the UART, follows from where the programs are.
LEMMA SameHands ==
    ASSUME TakenOnce, sent' = sent, uart'.data = uart.data, taken' = taken,
           \A q \in ProgramSet : Held(q)' = Held(q)
    PROVE  TakenOnce'
BY DEF TakenOnce, Taken, InHands

\* Only pd_create starts a program.
LEMMA NoneStarted ==
    ASSUME Started, loaded' = loaded,
           \A q \in ProgramSet : program'[q].at # "none" => program[q].at # "none"
    PROVE  Started'
<1> SUFFICES ASSUME NEW k \in 1..Len(Programs) - 1, program'[Programs[k + 1]].at # "none"
             PROVE  \E i \in DOMAIN loaded : loaded[i].by = Programs[k]
  BY DEF Started
<1>1. k + 1 \in 1..Len(Programs)
  BY UartAssumption
<1>2. Programs[k + 1] \in ProgramSet
  BY <1>1, ProgramSetFacts
<1> QED BY <1>2 DEF Started

LEMMA InitIInv == Init => IInv
<1> SUFFICES ASSUME Init PROVE IInv
  OBVIOUS
<1>1. \A p \in ProgramSet : /\ program[p].at = IF p = Programs[1] THEN "init" ELSE "none"
                            /\ program[p].c = Empty
  BY DEF Init
<1>2. TypeOK
  BY ProgramSetFacts DEF Init, TypeOK, Places, Empty
<1>3. Handlers = {} /\ pending = {}
  BY <1>1 DEF Init, Handlers
<1>4. Single /\ Handling
  BY <1>1, <1>3 DEF Init, Single, Handling
<1>5. Started
  <2> SUFFICES ASSUME NEW k \in 1..Len(Programs) - 1
               PROVE  program[Programs[k + 1]].at = "none"
    BY DEF Started
  <2>1. k + 1 \in 1..Len(Programs) /\ 1 \in 1..Len(Programs) /\ k + 1 # 1
    BY UartAssumption
  <2>2. Programs[k + 1] # Programs[1] /\ Programs[k + 1] \in ProgramSet
    BY <2>1, UartAssumption, ProgramSetFacts
  <2> QED BY <1>1, <2>2
<1>6. TakenOnce
  <2>1. \A p \in ProgramSet : Held(p) = {}
    BY <1>1 DEF Held
  <2>2. taken = <<>> /\ Taken = {} /\ InHands = {} /\ sent = 0 /\ uart.data = Empty
    BY <2>1 DEF Init, Taken, InHands
  <2> QED BY <2>1, <2>2 DEF TakenOnce, Empty
<1> QED BY <1>2, <1>4, <1>5, <1>6 DEF IInv

LEMMA ReceiveIInv == IInv /\ Receive => IInv'
<1> SUFFICES ASSUME IInv, Receive PROVE IInv'
  OBVIOUS
<1>1. /\ sent \in Nat /\ sent' = sent + 1 /\ uart.data = Empty
      /\ uart' = [uart EXCEPT !.data = sent + 1, !.status = TRUE]
      /\ uart'.data = sent + 1 /\ uart'.status = TRUE
      /\ UNCHANGED <<irq, pending, program, loader, taken, loaded>>
  BY DEF Receive, IInv, TypeOK
<1>2. TypeOK'
  <2>1. uart' \in [data : Nat, status : BOOLEAN, mask : BOOLEAN]
    <3>1. uart' = [data |-> sent + 1, status |-> TRUE, mask |-> uart.mask]
      BY <1>1 DEF IInv, TypeOK
    <3>2. uart.mask \in BOOLEAN /\ sent + 1 \in Nat
      BY <1>1 DEF IInv, TypeOK
    <3> QED BY <3>1, <3>2
  <2> QED BY <1>1, <2>1 DEF IInv, TypeOK
<1>3. Single' /\ Started'
  BY <1>1 DEF IInv, Single, Handlers, Started
<1>4. Handling'
  BY <1>1 DEF IInv, Handling, Handlers, Empty
<1>5. TakenOnce'
  <2> DEFINE H == InHands
  <2>1. 1..sent = Taken \cup H
    BY <1>1 DEF IInv, TakenOnce
  <2>2. sent + 1 \notin Taken \cup H
    BY <1>1, <2>1
  <2>3. 1..sent + 1 = (1..sent) \cup {sent + 1} /\ sent + 1 # Empty
    BY <1>1 DEF Empty
  <2>4. (\A p \in ProgramSet : Held(p)' = Held(p)) /\ Taken' = Taken
    BY <1>1 DEF Held, Taken
  <2>5. H' = H
    BY <2>4 DEF InHands
  <2> HIDE DEF H
  <2>6. 1..sent' = Taken' \cup H' \cup ({uart'.data} \ {Empty})
    BY <1>1, <2>1, <2>3, <2>4, <2>5
  <2>7. uart'.data \notin Taken' \cup H'
    BY <1>1, <2>2, <2>4, <2>5
  <2>8. /\ \A p \in ProgramSet : Held(p)' \cap Taken' = {}
        /\ \A p, q \in ProgramSet : p # q => Held(p)' \cap Held(q)' = {}
        /\ \A i, j \in DOMAIN taken' : taken'[i] = taken'[j] => i = j
    BY <1>1, <2>4 DEF TakenOnce, IInv
  <2> QED BY <2>6, <2>7, <2>8 DEF TakenOnce, H
<1> QED BY <1>2, <1>3, <1>4, <1>5 DEF IInv

LEMMA DeliverIInv == IInv /\ Deliver => IInv'
<1> SUFFICES ASSUME IInv, Deliver PROVE IInv'
  OBVIOUS
<1>1. /\ uart.status /\ irq'.masked = TRUE /\ irq.owner \in ProgramSet
      /\ pending' = pending \cup {irq.owner} /\ ~irq.masked
      /\ UNCHANGED <<sent, uart, program, loader, taken, loaded>>
  BY DEF Deliver, IInv, TypeOK
<1>2. TypeOK'
  BY <1>1 DEF Deliver, IInv, TypeOK
<1>3. Handlers = {} /\ Handlers' = {irq.owner}
  BY <1>1 DEF IInv, Handling, Handlers
<1>4. Single' /\ Started'
  BY <1>1, <1>3 DEF IInv, Single, Started
<1>5. Handling'
  BY <1>1, <1>3 DEF IInv, Handling, Handlers
<1>6. TakenOnce'
  BY <1>1, SameHands DEF IInv, Held
<1> QED BY <1>2, <1>4, <1>5, <1>6 DEF IInv

LEMMA uart_initIInv ==
    ASSUME IInv, NEW p \in ProgramSet, uart_init(p)
    PROVE  IInv'
<1>1. /\ program[p].at = "init" /\ Goto(p, "idle") /\ uart' = [uart EXCEPT !.mask = TRUE]
      /\ uart'.data = uart.data /\ uart'.status = uart.status
      /\ UNCHANGED <<sent, irq, pending, loader, taken, loaded>>
  BY DEF uart_init, IInv, TypeOK
<1>2. /\ program' \in [ProgramSet -> [at : Places, c : Nat]] /\ program'[p].at = "idle"
      /\ \A q \in ProgramSet \ {p} : program'[q] = program[q]
  BY <1>1, GotoFacts DEF IInv, Places
<1>3. TypeOK'
  BY <1>1, <1>2 DEF IInv, TypeOK
<1>4. Handlers' = Handlers /\ \A q \in ProgramSet : Held(q)' = Held(q)
  BY <1>1, <1>2 DEF Handlers, Held
<1>5. Single' /\ Handling'
  <2>1. Single'
    BY <1>4 DEF IInv, Single
  <2>2. \A q \in pending' : program'[q].at \notin {"clear", "read", "ack"}
    BY <1>1, <1>2 DEF IInv, TypeOK, Handling
  <2>3. \A q \in ProgramSet :
            q \in pending' \/ program'[q].at \in {"clear", "read"} => uart'.data # Empty
    BY <1>1, <1>2 DEF IInv, Handling
  <2> QED BY <1>1, <1>4, <2>1, <2>2, <2>3 DEF IInv, Handling
<1>6. Started'
  <2>1. \A q \in ProgramSet : program'[q].at # "none" => program[q].at # "none"
    BY <1>1, <1>2
  <2> QED BY <1>1, <2>1, NoneStarted DEF IInv
<1>7. TakenOnce'
  BY <1>1, <1>4, SameHands DEF IInv
<1> QED BY <1>3, <1>5, <1>6, <1>7 DEF IInv

LEMMA notifiedIInv ==
    ASSUME IInv, NEW p \in ProgramSet, notified(p)
    PROVE  IInv'
<1>1. /\ program[p].at = "idle" /\ Goto(p, "clear") /\ p \in pending
      /\ pending' = pending \ {p}
      /\ UNCHANGED <<sent, uart, irq, loader, taken, loaded>>
  BY DEF notified
<1>2. /\ program' \in [ProgramSet -> [at : Places, c : Nat]] /\ program'[p].at = "clear"
      /\ \A q \in ProgramSet \ {p} : program'[q] = program[q]
  BY <1>1, GotoFacts DEF IInv, Places
<1>3. TypeOK'
  BY <1>1, <1>2 DEF IInv, TypeOK
<1>4. Handlers' = Handlers /\ \A q \in ProgramSet : Held(q)' = Held(q)
  BY <1>1, <1>2 DEF Handlers, Held
<1>5. Single' /\ Handling'
  BY <1>1, <1>2, <1>4 DEF IInv, TypeOK, Single, Handling
<1>6. Started'
  <2>1. \A q \in ProgramSet : program'[q].at # "none" => program[q].at # "none"
    BY <1>1, <1>2
  <2> QED BY <1>1, <2>1, NoneStarted DEF IInv
<1>7. TakenOnce'
  BY <1>1, <1>4, SameHands DEF IInv
<1> QED BY <1>3, <1>5, <1>6, <1>7 DEF IInv

LEMMA uart_handle_irqIInv ==
    ASSUME IInv, NEW p \in ProgramSet, uart_handle_irq(p)
    PROVE  IInv'
<1>1. /\ program[p].at = "clear" /\ Goto(p, "read") /\ uart' = [uart EXCEPT !.status = FALSE]
      /\ uart'.data = uart.data /\ uart'.status = FALSE
      /\ UNCHANGED <<sent, irq, pending, loader, taken, loaded>>
  BY DEF uart_handle_irq, IInv, TypeOK
<1>2. /\ program' \in [ProgramSet -> [at : Places, c : Nat]] /\ program'[p].at = "read"
      /\ \A q \in ProgramSet \ {p} : program'[q] = program[q]
  BY <1>1, GotoFacts DEF IInv, Places
<1>3. TypeOK'
  BY <1>1, <1>2 DEF IInv, TypeOK
<1>4. Handlers' = Handlers /\ \A q \in ProgramSet : Held(q)' = Held(q)
  BY <1>1, <1>2 DEF Handlers, Held
<1>5. Single' /\ Handling'
  BY <1>1, <1>2, <1>4 DEF IInv, TypeOK, Single, Handling
<1>6. Started'
  <2>1. \A q \in ProgramSet : program'[q].at # "none" => program[q].at # "none"
    BY <1>1, <1>2
  <2> QED BY <1>1, <2>1, NoneStarted DEF IInv
<1>7. TakenOnce'
  BY <1>1, <1>4, SameHands DEF IInv
<1> QED BY <1>3, <1>5, <1>6, <1>7 DEF IInv

\* The item goes from the register into the hands of the only handler.
LEMMA uart_get_charIInv ==
    ASSUME IInv, NEW p \in ProgramSet, uart_get_char(p)
    PROVE  IInv'
<1>1. /\ program[p].at = "read" /\ program' = [program EXCEPT ![p] = [at |-> "ack", c |-> uart.data]]
      /\ uart' = [uart EXCEPT !.data = Empty, !.status = FALSE]
      /\ uart'.data = Empty /\ uart'.status = FALSE /\ uart.data \in Nat /\ Empty \in Nat
      /\ UNCHANGED <<sent, irq, pending, loader, taken, loaded>>
  BY DEF uart_get_char, IInv, TypeOK, Empty
<1>2. /\ program'[p] = [at |-> "ack", c |-> uart.data]
      /\ \A q \in ProgramSet \ {p} : program'[q] = program[q]
  BY <1>1 DEF IInv, TypeOK
<1>3. TypeOK'
  <2>1. uart' \in [data : Nat, status : BOOLEAN, mask : BOOLEAN]
    <3>1. uart' = [data |-> Empty, status |-> FALSE, mask |-> uart.mask]
      BY <1>1 DEF IInv, TypeOK
    <3>2. uart.mask \in BOOLEAN
      BY DEF IInv, TypeOK
    <3> QED BY <1>1, <3>1, <3>2
  <2>2. program' \in [ProgramSet -> [at : Places, c : Nat]]
    <3>1. [at |-> "ack", c |-> uart.data] \in [at : Places, c : Nat]
      BY <1>1 DEF Places
    <3> QED BY <1>1, <3>1 DEF IInv, TypeOK
  <2> QED BY <1>1, <2>1, <2>2 DEF IInv, TypeOK
<1>4. Handlers' = Handlers /\ p \in Handlers /\ Handlers = {p}
  BY <1>1, <1>2 DEF Handlers, IInv, Single
<1>5. Single' /\ Handling'
  <2>1. Single'
    BY <1>4 DEF Single
  <2>2. p \notin pending /\ pending' \subseteq Handlers
    BY <1>1 DEF IInv, Handling, Handlers, TypeOK
  <2>3. pending' = {}
    BY <1>4, <2>2, <1>1
  <2>4. \A q \in ProgramSet : program'[q].at \notin {"clear", "read"}
    BY <1>2, <1>4 DEF Handlers
  <2>5. Handlers' # {} => irq'.masked
    BY <1>1, <1>4 DEF IInv, Handling
  <2> QED BY <1>1, <2>1, <2>3, <2>4, <2>5 DEF Handling
<1>6. Started'
  <2>1. \A q \in ProgramSet : program'[q].at # "none" => program[q].at # "none"
    BY <1>1, <1>2
  <2> QED BY <1>1, <2>1, NoneStarted DEF IInv
<1>7. TakenOnce'
  <2>1. uart.data # Empty
    BY <1>1 DEF IInv, Handling
  <2>2. /\ Held(p) = {} /\ Held(p)' = {uart.data}
        /\ \A q \in ProgramSet \ {p} : Held(q)' = Held(q)
    BY <1>1, <1>2 DEF Held
  <2>3. InHands' = InHands \cup {uart.data} /\ Taken' = Taken
    BY <1>1, <2>2 DEF InHands, Taken
  <2>4. 1..sent = Taken \cup InHands \cup {uart.data} /\ Empty \notin 1..sent
    BY <2>1 DEF IInv, TakenOnce, Empty
  <2>5. uart.data \notin Taken \cup InHands
    BY DEF IInv, TakenOnce
  <2>6. 1..sent' = Taken' \cup InHands' \cup ({uart'.data} \ {Empty})
    BY <1>1, <2>3, <2>4
  <2>7. uart'.data \notin Taken' \cup InHands'
    BY <1>1, <2>3, <2>4
  <2>8. \A q \in ProgramSet : Held(q)' \cap Taken' = {}
    BY <2>2, <2>3, <2>5 DEF IInv, TakenOnce
  <2>9. \A q \in ProgramSet \ {p} : Held(q)' \cap Held(p)' = {}
    BY <2>2, <2>5 DEF InHands
  <2>10. \A q, r \in ProgramSet : q # r => Held(q)' \cap Held(r)' = {}
    BY <2>2, <2>9 DEF IInv, TakenOnce
  <2> QED BY <1>1, <2>6, <2>7, <2>8, <2>10 DEF IInv, TakenOnce
<1> QED BY <1>3, <1>5, <1>6, <1>7 DEF IInv

LEMMA irq_ackIInv ==
    ASSUME IInv, NEW p \in ProgramSet, irq_ack(p)
    PROVE  IInv'
<1>1. /\ program[p].at = "ack" /\ Goto(p, "input")
      /\ irq' = irq \/ irq' = [irq EXCEPT !.masked = FALSE]
      /\ UNCHANGED <<sent, uart, pending, loader, taken, loaded>>
  BY DEF irq_ack
<1>2. /\ program' \in [ProgramSet -> [at : Places, c : Nat]]
      /\ program'[p].at = "input" /\ program'[p].c = program[p].c
      /\ \A q \in ProgramSet \ {p} : program'[q] = program[q]
  BY <1>1, GotoFacts DEF IInv, Places
<1>3. TypeOK'
  BY <1>1, <1>2 DEF IInv, TypeOK
<1>4. Handlers = {p} /\ p \notin pending /\ pending \subseteq Handlers
  BY <1>1 DEF IInv, Single, Handling, Handlers, TypeOK
<1>5. Handlers' = {}
  <2>1. ASSUME NEW q \in Handlers' PROVE q \in Handlers /\ q # p
    BY <1>1, <1>2, <1>4, <2>1 DEF Handlers
  <2> QED BY <1>4, <2>1
<1>6. Single' /\ Handling'
  BY <1>1, <1>2, <1>4, <1>5 DEF IInv, Single, Handling
<1>7. Started'
  <2>1. \A q \in ProgramSet : program'[q].at # "none" => program[q].at # "none"
    BY <1>1, <1>2
  <2> QED BY <1>1, <2>1, NoneStarted DEF IInv
<1>8. \A q \in ProgramSet : Held(q)' = Held(q)
  BY <1>1, <1>2 DEF Held
<1>9. TakenOnce'
  BY <1>1, <1>8, SameHands DEF IInv
<1> QED BY <1>3, <1>6, <1>7, <1>9 DEF IInv

\* The item goes from the program's hands into the list.
LEMMA elf_loader_handle_inputIInv ==
    ASSUME IInv, NEW p \in ProgramSet, elf_loader_handle_input(p)
    PROVE  IInv'
<1>1. PICK place \in {"create", "idle"} :
          /\ program[p].at = "input" /\ Goto(p, place)
          /\ taken' = Append(taken, program[p].c)
          /\ UNCHANGED <<sent, uart, irq, pending, loaded>>
  BY DEF elf_loader_handle_input
<1>2. /\ program' \in [ProgramSet -> [at : Places, c : Nat]] /\ program'[p].at = place
      /\ \A q \in ProgramSet \ {p} : program'[q] = program[q]
  BY <1>1, GotoFacts DEF IInv, Places
<1>3. program[p].c \in Nat /\ taken \in Seq(Nat) /\ pending \subseteq ProgramSet
  BY DEF IInv, TypeOK
<1>4. TypeOK'
  BY <1>1, <1>2, <1>3 DEF IInv, TypeOK
<1>5. Handlers' = Handlers
  BY <1>1, <1>2 DEF Handlers
<1>6. Single' /\ Handling'
  <2>1. Single'
    BY <1>5 DEF IInv, Single
  <2>2. \A q \in pending' : program'[q].at \notin {"clear", "read", "ack"}
    BY <1>1, <1>2, <1>3 DEF IInv, Handling
  <2>3. \A q \in ProgramSet :
            q \in pending' \/ program'[q].at \in {"clear", "read"} => uart'.data # Empty
    BY <1>1, <1>2 DEF IInv, Handling
  <2> QED BY <1>1, <1>5, <2>1, <2>2, <2>3 DEF IInv, Handling
<1>7. Started'
  <2>1. \A q \in ProgramSet : program'[q].at # "none" => program[q].at # "none"
    BY <1>1, <1>2
  <2> QED BY <1>1, <2>1, NoneStarted DEF IInv
<1>8. TakenOnce'
  <2> DEFINE c == program[p].c
  <2>1. /\ Held(p) = {c} /\ Held(p)' = {}
        /\ \A q \in ProgramSet \ {p} : Held(q)' = Held(q)
    BY <1>1, <1>2 DEF Held
  <2>2. /\ DOMAIN taken' = 1..Len(taken) + 1 /\ Len(taken) \in Nat
        /\ DOMAIN taken = 1..Len(taken)
        /\ \A i \in 1..Len(taken) : taken'[i] = taken[i]
        /\ taken'[Len(taken) + 1] = c
    BY <1>1, <1>3
  <2> HIDE DEF c
  <2>3. Taken' = Taken \cup {c}
    <3>1. \A t : t \in Taken' <=> \E i \in 1..Len(taken) + 1 : t = taken'[i]
      BY <2>2 DEF Taken
    <3>2. \A t : t \in Taken <=> \E i \in 1..Len(taken) : t = taken[i]
      BY <2>2 DEF Taken
    <3>3. ASSUME NEW t \in Taken' PROVE t \in Taken \cup {c}
      BY <2>2, <3>1, <3>2, <3>3
    <3>4. ASSUME NEW t \in Taken PROVE t \in Taken'
      <4>1. PICK i \in 1..Len(taken) : t = taken[i]
        BY <3>2, <3>4
      <4>2. i \in 1..Len(taken) + 1 /\ t = taken'[i]
        BY <2>2, <4>1
      <4> QED BY <3>1, <4>2
    <3>5. c \in Taken'
      <4>1. Len(taken) + 1 \in 1..Len(taken) + 1
        BY <2>2
      <4> QED BY <2>2, <3>1, <4>1
    <3> QED BY <3>3, <3>4, <3>5
  <2>4. InHands = InHands' \cup {c} /\ c \notin InHands'
    BY <2>1 DEF InHands, IInv, TakenOnce
  <2>5. c \notin Taken
    BY <2>1 DEF IInv, TakenOnce
  <2>6. /\ 1..sent' = Taken' \cup InHands' \cup ({uart'.data} \ {Empty})
        /\ uart'.data \notin Taken' \cup InHands'
    BY <1>1, <2>3, <2>4 DEF IInv, TakenOnce
  <2>7. \A q \in ProgramSet : Held(q)' \cap Taken' = {}
    BY <2>1, <2>3 DEF IInv, TakenOnce
  <2>8. \A q, r \in ProgramSet : q # r => Held(q)' \cap Held(r)' = {}
    BY <2>1 DEF IInv, TakenOnce
  <2>9. ASSUME NEW i \in DOMAIN taken', NEW j \in DOMAIN taken', taken'[i] = taken'[j]
        PROVE  i = j
    <3>1. \A m \in 1..Len(taken) : taken'[m] # c
      BY <2>2, <2>5 DEF Taken
    <3> QED BY <2>2, <2>9, <3>1 DEF IInv, TakenOnce
  <2> QED BY <2>6, <2>7, <2>8, <2>9 DEF TakenOnce
<1> QED BY <1>4, <1>6, <1>7, <1>8 DEF IInv

\* The program that is started has not run before, so that nothing of the one that handles
\* the interrupt changes.
LEMMA pd_createIInv ==
    ASSUME IInv, NEW p \in ProgramSet, pd_create(p)
    PROVE  IInv'
<1>1. /\ program[p].at = "create"
      /\ UNCHANGED <<sent, uart, pending, taken>>
      /\ pending \subseteq ProgramSet
  BY DEF pd_create, IInv, TypeOK
<1>2. /\ program' \in [ProgramSet -> [at : Places, c : Nat]]
      /\ irq' \in [masked : BOOLEAN, owner : ProgramSet] /\ irq'.masked = irq.masked
      /\ loaded' \in Seq([by : ProgramSet, file : Nat])
      /\ \A q \in ProgramSet : \/ program'[q] = program[q]
                               \/ /\ program[q].at \in {"create", "none"}
                                  /\ program'[q].at = "idle"
      /\ Started'
  <2>1. CASE Goto(p, "idle") /\ loaded' = loaded /\ irq' = irq
    <3>1. /\ program' \in [ProgramSet -> [at : Places, c : Nat]] /\ program'[p].at = "idle"
          /\ \A q \in ProgramSet \ {p} : program'[q] = program[q]
      BY <2>1, GotoFacts DEF IInv, Places
    <3>2. Started'
      BY <1>1, <2>1, <3>1, NoneStarted DEF IInv
    <3> QED BY <1>1, <2>1, <3>1, <3>2 DEF IInv, TypeOK
  <2>2. CASE /\ Goto(p, "idle") /\ loaded' = Append(loaded, [by |-> p, file |-> Number(p)])
             /\ irq' = irq
    <3>1. /\ program' \in [ProgramSet -> [at : Places, c : Nat]] /\ program'[p].at = "idle"
          /\ \A q \in ProgramSet \ {p} : program'[q] = program[q]
      BY <2>2, GotoFacts DEF IInv, Places
    <3>2. /\ loaded' \in Seq([by : ProgramSet, file : Nat])
          /\ \A i \in DOMAIN loaded : i \in DOMAIN loaded' /\ loaded'[i] = loaded[i]
      <4>1. [by |-> p, file |-> Number(p)] \in [by : ProgramSet, file : Nat]
        BY ProgramSetFacts
      <4>2. loaded \in Seq([by : ProgramSet, file : Nat])
        BY DEF IInv, TypeOK
      <4> QED BY <2>2, <4>1, <4>2
    <3>3. Started'
      <4> SUFFICES ASSUME NEW k \in 1..Len(Programs) - 1, program'[Programs[k + 1]].at # "none"
                   PROVE  \E i \in DOMAIN loaded' : loaded'[i].by = Programs[k]
        BY DEF Started
      <4>1. Programs[k + 1] \in ProgramSet
        BY UartAssumption, ProgramSetFacts
      <4>2. program[Programs[k + 1]].at # "none"
        BY <1>1, <3>1, <4>1
      <4> QED BY <3>2, <4>2 DEF IInv, Started
    <3> QED BY <1>1, <2>2, <3>1, <3>2, <3>3 DEF IInv, TypeOK
  <2>3. CASE /\ Number(p) < Len(Programs) /\ \A i \in DOMAIN loaded : loaded[i].by # p
             /\ loaded' = Append(loaded, [by |-> p, file |-> Number(p)])
             /\ irq' = HandOver(Programs[Number(p) + 1])
             /\ program' = [program EXCEPT ![p].at = "idle",
                                           ![Programs[Number(p) + 1]].at = "idle"]
    <3> DEFINE child == Programs[Number(p) + 1]
    <3>1. /\ Number(p) \in 1..Len(Programs) - 1 /\ Number(p) + 1 \in 1..Len(Programs)
          /\ Programs[Number(p)] = p /\ child \in ProgramSet
      BY <2>3, UartAssumption, ProgramSetFacts
    <3>2. program[child].at = "none" /\ child # p
      BY <1>1, <2>3, <3>1 DEF IInv, Started
    <3>3. /\ program \in [ProgramSet -> [at : Places, c : Nat]]
          /\ loaded \in Seq([by : ProgramSet, file : Nat])
          /\ irq \in [masked : BOOLEAN, owner : ProgramSet]
      BY DEF IInv, TypeOK
    <3> HIDE DEF child
    <3>4. /\ program' \in [ProgramSet -> [at : Places, c : Nat]]
          /\ program'[p].at = "idle" /\ program'[child].at = "idle"
          /\ \A q \in ProgramSet \ {p, child} : program'[q] = program[q]
      <4>1. program' = [program EXCEPT ![p].at = "idle", ![child].at = "idle"]
        BY <2>3 DEF child
      <4>2. "idle" \in Places
        BY DEF Places
      <4>3. program[p] \in [at : Places, c : Nat] /\ program[child] \in [at : Places, c : Nat]
        BY <3>1, <3>3
      <4> HIDE DEF Places
      <4>4. /\ program'[p] = [program[p] EXCEPT !.at = "idle"]
            /\ program'[child] = [program[child] EXCEPT !.at = "idle"]
            /\ \A q \in ProgramSet \ {p, child} : program'[q] = program[q]
            /\ DOMAIN program' = ProgramSet
        BY <3>1, <3>2, <3>3, <4>1
      <4>5. /\ program'[p] \in [at : Places, c : Nat] /\ program'[p].at = "idle"
            /\ program'[child] \in [at : Places, c : Nat] /\ program'[child].at = "idle"
        BY <4>2, <4>3, <4>4
      <4>6. \A q \in ProgramSet : program'[q] \in [at : Places, c : Nat]
        BY <3>3, <4>4, <4>5
      <4>7. program' = [q \in ProgramSet |-> program'[q]]
        BY <3>3, <4>1
      <4>8. program' \in [ProgramSet -> [at : Places, c : Nat]]
        BY <4>6, <4>7, Zenon
      <4> QED
        BY <4>4, <4>5, <4>8, Zenon
    <3>5. /\ loaded' \in Seq([by : ProgramSet, file : Nat])
          /\ \A i \in DOMAIN loaded : i \in DOMAIN loaded' /\ loaded'[i] = loaded[i]
          /\ Len(loaded) + 1 \in DOMAIN loaded' /\ loaded'[Len(loaded) + 1].by = p
      <4>1. [by |-> p, file |-> Number(p)] \in [by : ProgramSet, file : Nat]
        BY <3>1
      <4>2. loaded' = Append(loaded, [by |-> p, file |-> Number(p)])
        BY <2>3
      <4>3. /\ loaded' \in Seq([by : ProgramSet, file : Nat])
            /\ DOMAIN loaded = 1..Len(loaded) /\ Len(loaded) \in Nat
            /\ DOMAIN loaded' = 1..Len(loaded) + 1
            /\ loaded'[Len(loaded) + 1] = [by |-> p, file |-> Number(p)]
            /\ \A i \in 1..Len(loaded) : loaded'[i] = loaded[i]
        <5> HIDE DEF child
        <5> QED
          BY <3>3, <4>1, <4>2
      <4>4. 1..Len(loaded) \subseteq 1..Len(loaded) + 1 /\ Len(loaded) + 1 \in 1..Len(loaded) + 1
        BY <4>3
      <4> QED
        BY <4>3, <4>4
    <3>6. irq' \in [masked : BOOLEAN, owner : ProgramSet] /\ irq'.masked = irq.masked
      BY <2>3, <3>1, <3>3 DEF HandOver, child
    <3>7. Started'
      <4> SUFFICES ASSUME NEW k \in 1..Len(Programs) - 1, program'[Programs[k + 1]].at # "none"
                   PROVE  \E i \in DOMAIN loaded' : loaded'[i].by = Programs[k]
        BY DEF Started
      <4>1. Programs[k + 1] \in ProgramSet /\ k + 1 \in DOMAIN Programs
        BY UartAssumption, ProgramSetFacts
      <4>2. CASE Programs[k + 1] = child
        <5>1. k \in Int /\ k + 1 \in DOMAIN Programs /\ Number(p) \in Int /\ Number(p) + 1 \in DOMAIN Programs
          BY <3>1, <4>1, UartAssumption
        <5>2. k + 1 = Number(p) + 1
          BY <4>2, <5>1, UartAssumption, Zenon DEF child
        <5>3. k = Number(p)
          BY <5>1, <5>2
        <5> QED BY <3>1, <3>5, <5>3
      <4>3. CASE Programs[k + 1] # child
        <5>1. program[Programs[k + 1]].at # "none"
          BY <1>1, <3>4, <4>1, <4>3
        <5> QED BY <3>5, <5>1 DEF IInv, Started
      <4> QED BY <4>2, <4>3
    <3> QED BY <1>1, <3>2, <3>4, <3>5, <3>6, <3>7
  <2> QED BY <2>1, <2>2, <2>3 DEF pd_create
<1>3. TypeOK'
  BY <1>1, <1>2 DEF IInv, TypeOK
<1>4. Handlers' = Handlers /\ \A q \in ProgramSet : Held(q)' = Held(q)
  BY <1>1, <1>2 DEF Handlers, Held
<1>5. Single' /\ Handling'
  <2>1. Single'
    BY <1>4 DEF IInv, Single
  <2>2. \A q \in pending' : program'[q].at \notin {"clear", "read", "ack"}
    BY <1>1, <1>2 DEF IInv, Handling
  <2>3. \A q \in ProgramSet :
            q \in pending' \/ program'[q].at \in {"clear", "read"} => uart'.data # Empty
    BY <1>1, <1>2 DEF IInv, Handling
  <2> QED BY <1>1, <1>2, <1>4, <2>1, <2>2, <2>3 DEF IInv, Handling
<1>6. TakenOnce'
  BY <1>1, <1>4, SameHands DEF IInv
<1> QED BY <1>2, <1>3, <1>5, <1>6 DEF IInv

LEMMA NextIInv == IInv /\ [Next]_vars => IInv'
<1> SUFFICES ASSUME IInv, [Next]_vars PROVE IInv'
  OBVIOUS
<1>1. ASSUME NEW p \in ProgramSet, Program(p)
      PROVE  IInv'
  BY <1>1, uart_initIInv, notifiedIInv, uart_handle_irqIInv, uart_get_charIInv, irq_ackIInv,
     elf_loader_handle_inputIInv, pd_createIInv DEF Program
<1>2. CASE UNCHANGED vars
  <2>1. \A q \in ProgramSet : Held(q)' = Held(q)
    BY <1>2 DEF vars, Held
  <2>2. TakenOnce'
    BY <1>2, <2>1, SameHands DEF IInv, vars
  <2> QED BY <1>2, <2>2 DEF vars, IInv, TypeOK, Single, Handlers, Handling, Started
<1> QED BY <1>1, <1>2, ReceiveIInv, DeliverIInv DEF Next

\* No item is lost, read twice or made up on its way to the loaders, for any number of
\* programs and files of any size.
THEOREM AlwaysTakenOnce == Spec => []TakenOnce
<1>1. Init => IInv
  BY InitIInv
<1>2. IInv /\ [Next]_vars => IInv'
  BY NextIInv
<1>3. IInv => TakenOnce
  BY DEF IInv
<1> QED BY <1>1, <1>2, <1>3, PTL DEF Spec

(***************************************************************************)
(* Where the items of a file are among all items.                          *)
(***************************************************************************)
LEMMA NatSetInduction ==
    ASSUME NEW T \in SUBSET Nat, 0 \in T, \A n \in T : n + 1 \in T
    PROVE  T = Nat
<1> DEFINE Rest == Nat \ T
<1> SUFFICES ASSUME Rest # {} PROVE FALSE
  OBVIOUS
<1>1. IsWellFoundedOn(OpToRel(<, Nat), Nat)
  BY NatLessThanWellFounded
<1>2. PICK x \in Rest : \A y \in Rest : ~ (<<y, x>> \in OpToRel(<, Nat))
  BY <1>1, WFMin
<1>3. x # 0 /\ x - 1 \in Nat /\ x - 1 < x
  OBVIOUS
<1>4. x - 1 \in T
  BY <1>2, <1>3 DEF OpToRel
<1> QED
  BY <1>3, <1>4

N == Len(Programs)

LEMMA SizesFacts ==
    /\ N \in Nat \ {0} /\ Len(Sizes) = N
    /\ \A k \in 1..N : Sizes[k] \in Nat \ {0}
BY UartAssumption DEF N

\* The recursive function of Ends exists.
LEMMA EndExists ==
    ASSUME NEW n \in Nat
    PROVE  \E e : e = [k \in 0..n |-> IF k = 0 THEN 0 ELSE e[k - 1] + 1 + Sizes[k]]
<1> DEFINE And(x, k) == x + 1 + Sizes[k]
           Fcn(m, e) == e = [k \in 0..m |-> IF k = 0 THEN 0 ELSE And(e[k - 1], k)]
           T == {m \in Nat : \E e : Fcn(m, e)}
<1> HIDE DEF And
<1>1. 0 \in T
  <2>1. Fcn(0, [k \in 0..0 |-> 0])
    OBVIOUS
  <2> QED
    BY <2>1
<1>2. ASSUME NEW m \in T PROVE m + 1 \in T
  <2>1. PICK e : Fcn(m, e)
    OBVIOUS
  <2> DEFINE h == [k \in 0..m + 1 |-> IF k <= m THEN e[k] ELSE And(e[m], m + 1)]
  <2>2. \A k \in 0..m + 1 : h[k] = IF k = 0 THEN 0 ELSE And(h[k - 1], k)
    BY <2>1
  <2>3. Fcn(m + 1, h)
    BY <2>2
  <2>4. \E f : Fcn(m + 1, f)
    <3> HIDE DEF h, Fcn
    <3> QED
      BY <2>3
  <2> QED
    BY <2>4
<1>3. T = Nat
  BY <1>1, <1>2, NatSetInduction
<1>4. \E e : Fcn(n, e)
  BY <1>3
<1> QED
  BY <1>4, Zenon DEF And

End == CHOOSE e : e = [k \in 0..Len(Sizes) |-> IF k = 0 THEN 0 ELSE e[k - 1] + 1 + Sizes[k]]

LEMMA EndFacts ==
    /\ End[0] = 0 /\ \A k \in 0..N : End[k] \in Nat
    /\ \A k \in 1..N : End[k] = End[k - 1] + 1 + Sizes[k]
    /\ Ends = [k \in 1..N |-> End[k]]
<1> DEFINE And(x, k) == x + 1 + Sizes[k]
           Fcn(e) == e = [k \in 0..Len(Sizes) |-> IF k = 0 THEN 0 ELSE And(e[k - 1], k)]
<1>1. Fcn(End)
  <2>1. \E e : Fcn(e)
    BY SizesFacts, EndExists
  <2>2. End = CHOOSE e : Fcn(e)
    BY Zenon DEF End
  <2> HIDE DEF Fcn
  <2> QED
    BY <2>1, <2>2, Zenon
<1>2. Ends = [k \in 1..N |-> End[k]]
  BY SizesFacts, Zenon DEF Ends, End
<1>3. End[0] = 0 /\ \A k \in 1..N : End[k] = And(End[k - 1], k)
  <2> HIDE DEF And
  <2>1. End = [k \in 0..N |-> IF k = 0 THEN 0 ELSE And(End[k - 1], k)]
    BY <1>1, SizesFacts
  <2>2. \A k \in 0..N : End[k] = IF k = 0 THEN 0 ELSE And(End[k - 1], k)
    BY <2>1
  <2> QED
    BY <2>2, SizesFacts
<1> HIDE DEF Fcn
<1> DEFINE T == {m \in Nat : m <= N => End[m] \in Nat}
<1>4. 0 \in T
  BY <1>3
<1>5. ASSUME NEW m \in T PROVE m + 1 \in T
  <2> SUFFICES ASSUME m + 1 <= N PROVE End[m + 1] \in Nat
    OBVIOUS
  <2>1. m + 1 \in 1..N /\ (m + 1) - 1 = m /\ End[m] \in Nat
    BY SizesFacts
  <2>2. End[m + 1] = End[m] + 1 + Sizes[m + 1] /\ Sizes[m + 1] \in Nat
    BY <2>1, <1>3, SizesFacts
  <2> QED
    BY <2>1, <2>2
<1>6. T = Nat
  BY <1>4, <1>5, NatSetInduction
<1>7. \A k \in 0..N : End[k] \in Nat
  <2> TAKE k \in 0..N
  <2>1. k \in T /\ k <= N
    BY <1>6, SizesFacts
  <2> QED
    BY <2>1
<1> QED
  BY <1>2, <1>3, <1>7

\* The items before file k.
Base(k) == Ends[k] - 1 - Sizes[k]

LEMMA EndsOrdered == \A i, j \in 0..N : i <= j => End[i] <= End[j]
<1> DEFINE T == {m \in Nat : m <= N => \A i \in 0..m : End[i] <= End[m]}
<1>1. 0 \in T
  BY EndFacts
<1>2. ASSUME NEW m \in T PROVE m + 1 \in T
  <2> SUFFICES ASSUME m + 1 <= N, NEW i \in 0..m + 1 PROVE End[i] <= End[m + 1]
    OBVIOUS
  <2>1. m + 1 \in 1..N /\ (m + 1) - 1 = m /\ m \in 0..N /\ i \in 0..N
    BY SizesFacts
  <2>2. End[m + 1] = End[m] + 1 + Sizes[m + 1] /\ Sizes[m + 1] \in Nat /\ End[m] \in Nat /\ End[i] \in Nat
    BY <2>1, EndFacts, SizesFacts
  <2>3. CASE i <= m
    <3>1. End[i] <= End[m]
      BY <2>3, <2>1
    <3> QED
      BY <2>2, <3>1
  <2>4. CASE i = m + 1
    BY <2>2, <2>4
  <2> QED
    BY <2>3, <2>4
<1>3. T = Nat
  BY <1>1, <1>2, NatSetInduction
<1> SUFFICES ASSUME NEW i \in 0..N, NEW j \in 0..N, i <= j PROVE End[i] <= End[j]
  OBVIOUS
<1>4. j \in T /\ j <= N /\ i \in 0..j
  BY <1>3, SizesFacts
<1> QED
  BY <1>4

\* One file after the other, up to the last.
LEMMA EndsFacts ==
    /\ Base(1) = 0
    /\ \A k \in 1..N - 1 : Base(k + 1) = Ends[k]
    /\ \A k \in 1..N : /\ Base(k) \in Nat /\ Ends[k] \in Nat
                       /\ Ends[k] = Base(k) + 1 + Sizes[k] /\ Sizes[k] \in Nat \ {0}
                       /\ Ends[k] <= Total
    /\ \A i, j \in 1..N : i < j => Ends[i] <= Base(j)
    /\ Total \in Nat /\ Total = Ends[N]
<1>1. \A k \in 1..N : k - 1 \in 0..N /\ k \in 0..N
  BY SizesFacts
<1>2. \A k \in 1..N : /\ Ends[k] = End[k] /\ End[k - 1] \in Nat /\ End[k] \in Nat
                      /\ End[k] = End[k - 1] + 1 + Sizes[k] /\ Sizes[k] \in Nat \ {0}
  BY <1>1, EndFacts, SizesFacts
<1>3. \A k \in 1..N : Base(k) = End[k - 1]
  BY <1>2 DEF Base
<1>4. N \in 1..N /\ 1 \in 1..N /\ Total = End[N] /\ Total = Ends[N]
  BY <1>2, SizesFacts DEF Total
<1>5. \A k \in 1..N : End[k] <= Total
  <2> TAKE k \in 1..N
  <2>1. k \in 0..N /\ N \in 0..N /\ k <= N
    BY <1>1, <1>4
  <2> QED
    BY <2>1, <1>4, EndsOrdered
<1>6. \A i, j \in 1..N : i < j => End[i] <= End[j - 1]
  BY <1>1, EndsOrdered
<1>7. \A k \in 1..N - 1 : k \in 1..N /\ k + 1 \in 1..N /\ (k + 1) - 1 = k
  BY SizesFacts
<1>8. Base(1) = 0
  BY <1>3, <1>4, EndFacts
<1>9. \A k \in 1..N - 1 : Base(k + 1) = Ends[k]
  BY <1>2, <1>3, <1>7
<1> HIDE DEF Base, Total, N
<1> QED
  BY <1>2, <1>3, <1>4, <1>5, <1>6, <1>8, <1>9

LEMMA FileFacts ==
    ASSUME NEW k \in 1..N, NEW item \in Base(k) + 1..Ends[k]
    PROVE  /\ item # 0 /\ File(item) = k
           /\ IsSizeLine(item) <=> item = Base(k) + 1
<1>1. Base(k) \in Nat /\ Ends[k] \in Nat /\ Ends[k] = Base(k) + 1 + Sizes[k] /\ Sizes[k] \in Nat
  BY EndsFacts
<1>2. item <= Ends[k] /\ item > Ends[k] - 1 - Sizes[k] /\ item \in Nat /\ item # 0
  BY <1>1 DEF Base
<1>3. ASSUME NEW j \in 1..N, item <= Ends[j], item > Ends[j] - 1 - Sizes[j] PROVE j = k
  <2>1. Base(j) \in Nat /\ Ends[j] \in Nat /\ item > Base(j)
    BY <1>3, EndsFacts DEF Base
  <2>2. ~(j < k)
    <3>1. j < k => Ends[j] <= Base(k)
      BY EndsFacts
    <3> QED
      BY <3>1, <2>1, <1>1, <1>2, <1>3 DEF Base
  <2>3. ~(k < j)
    <3>1. k < j => Ends[k] <= Base(j)
      BY EndsFacts
    <3> QED
      BY <3>1, <2>1, <1>1, <1>2, <1>3
  <2> QED
    BY <2>2, <2>3, SizesFacts
<1>4. File(item) = k
  <2>1. \A j \in 1..N : (item <= Ends[j] /\ item > Ends[j] - 1 - Sizes[j]) <=> j = k
    BY <1>2, <1>3
  <2> QED
    BY <2>1, SizesFacts DEF File
<1>5. Ends[k] - Sizes[k] = Base(k) + 1
  BY <1>1
<1> QED
  BY <1>2, <1>4, <1>5 DEF IsSizeLine

LEMMA LenEnds == Ends \in Seq(Nat) /\ Len(Ends) = N
<1>1. Ends \in [1..N -> Nat]
  <2>1. \A k \in 1..N : End[k] \in Nat
    BY EndFacts
  <2> QED
    BY <2>1, EndFacts
<1> QED
  BY <1>1, SizesFacts

(***************************************************************************)
(* The order of loading.  The current file is either on its way to its     *)
(* program, or the interrupt of its first item has gone to the program     *)
(* before: that one takes the item and cannot acknowledge it, so that the  *)
(* interrupt is lost and nothing else ever happens.                        *)
(***************************************************************************)
Fresh == [size |-> 0, got |-> <<>>, junk |-> FALSE]
Current == Len(loaded) + 1

\* The programs have been loaded in order, each by the one before it, and the interrupt
\* belongs to the last one that runs.  The others have not been touched.
LoadsInOrder ==
    /\ Len(loaded) <= N
    /\ \A i \in DOMAIN loaded : loaded[i] = [by |-> Programs[i], file |-> i]
    /\ irq.owner = Programs[IF Current <= N THEN Current ELSE N]
    /\ \A k \in 1..N : k <= Current => program[Programs[k]].at # "none"
    /\ \A k \in 1..N : k > Current =>
           /\ program[Programs[k]].at = "none" /\ Programs[k] \notin pending
           /\ loader[Programs[k]] = Fresh

\* A loader that knows no size has no bytes, and what is in the register has been sent last.
LoaderState == [size : Nat, got : Seq(Nat), junk : BOOLEAN]

Line ==
    /\ sent <= Total
    /\ uart.data # Empty => uart.data = sent
    /\ loader \in [ProgramSet -> LoaderState]
    /\ \A p \in ProgramSet : loader[p].size = 0 => loader[p].got = <<>>

Quiescent(p) == p \notin pending /\ program[p].at \in {"none", "idle"}
OthersQuiet(p) == \A q \in ProgramSet \ {p} : Quiescent(q)
InSequence == \A i \in DOMAIN taken : taken[i] = i
Here(x) == IF x THEN 1 ELSE 0
Holds(p) == program[p].at \in {"ack", "input"}

\* The loader of p has the part of file k that has been taken.
HasPart(p, k) ==
    /\ Len(taken) \in Base(k)..Ends[k]
    /\ Len(taken) = Base(k) => loader[p] = Fresh
    /\ Len(taken) > Base(k) =>
           loader[p] = [size |-> Sizes[k], junk |-> FALSE,
                        got |-> [i \in 1..Len(taken) - Base(k) - 1 |-> Base(k) + 1 + i]]
    /\ Len(taken) = Ends[k] <=> program[p].at = "create"

OnItsWay(p) ==
    /\ Holds(p) => program[p].c = Len(taken) + 1
    /\ sent = Len(taken) + Here(Holds(p)) + Here(uart.data # Empty)

\* All items so far went to the program that they were for, which is the only one at work.
Straight(p, k) == OthersQuiet(p) /\ InSequence /\ HasPart(p, k) /\ OnItsWay(p) /\ ~Lost

\* q, which has just loaded the program that the file is for, is told of its first item ...
Told(q, k) ==
    /\ program[q].at \in {"clear", "read"} \/ (program[q].at = "idle" /\ q \in pending)
    /\ Len(taken) = Base(k) /\ sent = Base(k) + 1 /\ uart.data # Empty
    /\ loader[q] = Fresh

\* ... and reads it ...
Has(q, k) ==
    /\ Holds(q) /\ q \notin pending /\ program[q].c = Base(k) + 1
    /\ Len(taken) = Base(k) /\ loader[q] = Fresh

\* ... and takes it.  Its acknowledgement in between changes nothing.
Stuck(q, k) ==
    /\ Lost /\ hurried
    /\ OthersQuiet(q)
    /\ \/ Told(q, k)
       \/ Has(q, k)
       \/ Quiescent(q) /\ Len(taken) = Base(k) + 1

Way(k) ==
    \/ Straight(Programs[k], k)
    \/ k > 1 /\ Stuck(Programs[k - 1], k)

\* Nothing is left to do.
Done == ~Lost /\ sent = Total /\ uart.data = Empty /\ \A p \in ProgramSet : Quiescent(p)

InOrder == IF Current <= N THEN Way(Current) ELSE Done

\* A file of which something has been sent before the one before it was loaded.
Hurry ==
    /\ hurried \in BOOLEAN
    /\ \A k \in 1..N : sent > Base(k) /\ Current < k => hurried

OrderInv == IInv /\ LoadsInOrder /\ Line /\ Hurry /\ InOrder

LEMMA Apart == \A i, j \in 1..N : Programs[i] = Programs[j] => i = j
BY UartAssumption DEF N

LEMMA InSet == \A k \in 1..N : Programs[k] \in ProgramSet /\ Number(Programs[k]) = k
<1> TAKE k \in 1..N
<1>1. Programs[k] \in ProgramSet
  BY ProgramSetFacts DEF N
<1>2. Number(Programs[k]) \in 1..N /\ Programs[Number(Programs[k])] = Programs[k]
  BY <1>1, ProgramSetFacts DEF N
<1> QED
  BY <1>1, <1>2, Apart

LEMMA CurrentType ==
    ASSUME OrderInv
    PROVE  Current \in Nat \ {0} /\ Len(loaded) \in Nat /\ DOMAIN loaded = 1..Len(loaded)
BY DEF OrderInv, IInv, TypeOK, Current

LEMMA InitOrder == Init => OrderInv
<1> SUFFICES ASSUME Init PROVE OrderInv
  OBVIOUS
<1>1. IInv
  BY InitIInv
<1>2. loaded = <<>> /\ Len(loaded) = 0 /\ Current = 1
  BY DEF Init, Current
<1>3. /\ sent = 0 /\ uart.data = Empty /\ taken = <<>> /\ Len(taken) = 0 /\ pending = {}
      /\ irq.owner = Programs[1]
      /\ \A p \in ProgramSet : /\ program[p].at = IF p = Programs[1] THEN "init" ELSE "none"
                               /\ loader[p] = Fresh
  BY DEF Init, Fresh
<1>4. 1 \in 1..N /\ N \in Nat /\ 1 <= N
  BY SizesFacts
<1>5. \A k \in 1..N : k > 1 => Programs[k] # Programs[1]
  BY <1>4, Apart
<1>6. LoadsInOrder
  BY <1>2, <1>3, <1>4, <1>5, InSet DEF LoadsInOrder
<1>7. Line
  <2>1. loader \in [ProgramSet -> LoaderState]
    BY DEF Init, LoaderState
  <2>2. sent <= Total
    BY <1>3, EndsFacts
  <2> QED
    BY <1>3, <2>1, <2>2 DEF Line, Fresh
<1>8. Straight(Programs[1], 1)
  <2>1. Base(1) = 0 /\ Ends[1] \in Nat /\ Ends[1] > 0
    <3>1. Base(1) = 0 /\ Ends[1] \in Nat /\ Ends[1] = Base(1) + 1 + Sizes[1] /\ Sizes[1] \in Nat
      BY <1>4, EndsFacts
    <3> QED
      BY <3>1
  <2>2. Programs[1] \in ProgramSet
    BY <1>4, InSet
  <2>3. HasPart(Programs[1], 1)
    BY <1>3, <2>1, <2>2 DEF HasPart
  <2>4. OnItsWay(Programs[1])
    BY <1>3, <2>2 DEF OnItsWay, Holds, Here
  <2>5. OthersQuiet(Programs[1]) /\ InSequence
    BY <1>3 DEF OthersQuiet, Quiescent, InSequence
  <2>6. ~Lost
    BY DEF Init, Lost
  <2> QED
    BY <2>3, <2>4, <2>5, <2>6 DEF Straight
<1>9. Hurry
  <2>1. \A k \in 1..N : ~(sent > Base(k))
    <3>1. \A k \in 1..N : Base(k) \in Nat
      BY EndsFacts
    <3> QED
      BY <1>3, <3>1
  <2> QED
    BY <2>1 DEF Hurry, Init
<1>10. InOrder
  BY <1>2, <1>4, <1>8 DEF InOrder, Way
<1> QED
  BY <1>1, <1>6, <1>7, <1>9, <1>10 DEF OrderInv

\* Most steps start and load nobody and leave the loaders alone.
LEMMA LoadsKept ==
    ASSUME OrderInv, loaded' = loaded, irq'.owner = irq.owner,
           \A p \in ProgramSet : program'[p].at = "none" <=> program[p].at = "none",
           \A p \in ProgramSet : p \in pending' => p \in pending \/ program[p].at # "none",
           \A p \in ProgramSet : program[p].at = "none" => loader'[p] = loader[p]
    PROVE  LoadsInOrder'
BY InSet DEF LoadsInOrder, Current, OrderInv

\* The file that is being loaded, with what is known of it.
LEMMA CurrentWay ==
    ASSUME OrderInv, NEW k \in 1..N, k = Current
    PROVE  /\ Way(k) /\ Programs[k] \in ProgramSet
           /\ Base(k) \in Nat /\ Ends[k] \in Nat /\ Ends[k] > Base(k) /\ Len(taken) \in Nat
<1>1. Current <= N
  OBVIOUS
<1>2. Base(k) \in Nat /\ Ends[k] \in Nat /\ Ends[k] = Base(k) + 1 + Sizes[k] /\ Sizes[k] \in Nat
  BY EndsFacts
<1> QED
  BY <1>1, <1>2, InSet DEF OrderInv, InOrder, IInv, TypeOK

LEMMA SameFile ==
    ASSUME OrderInv, Current <= N, loaded' = loaded, \A k \in 1..N : k = Current => Way(k)'
    PROVE  InOrder'
<1>1. Current' = Current /\ (Current <= N => Current \in 1..N)
  BY CurrentType, SizesFacts DEF Current
<1> QED
  BY <1>1 DEF InOrder

LEMMA HurryStep == ASSUME OrderInv, [Next]_vars PROVE Hurry'
<1>1. hurried \in BOOLEAN /\ sent \in Nat /\ \A k \in 1..N : sent > Base(k) /\ Current < k => hurried
  BY DEF OrderInv, Hurry, IInv, TypeOK
<1>2. CASE Receive
  <2>1. /\ sent' = sent + 1 /\ Current' = Current /\ Current = Len(loaded) + 1
        /\ hurried' = (hurried \/ (IsSizeLine(sent + 1) /\ Len(loaded) < File(sent + 1) - 1))
        /\ Len(loaded) \in Nat
    BY <1>2, CurrentType DEF Receive, Current
  <2>2. ASSUME NEW k \in 1..N, sent' > Base(k), Current' < k, ~(sent > Base(k)) PROVE hurried'
    <3>1. Base(k) \in Nat /\ Ends[k] \in Nat /\ Ends[k] = Base(k) + 1 + Sizes[k] /\ Sizes[k] \in Nat
      BY EndsFacts
    <3>2. sent + 1 = Base(k) + 1 /\ sent + 1 \in Base(k) + 1..Ends[k]
      BY <1>1, <2>1, <2>2, <3>1
    <3>3. File(sent + 1) = k /\ IsSizeLine(sent + 1)
      BY <3>2, FileFacts
    <3>4. Len(loaded) < k - 1
      BY <2>1, <2>2
    <3> QED
      BY <2>1, <3>3, <3>4
  <2>3. hurried' \in BOOLEAN /\ (hurried => hurried')
    BY <1>1, <2>1, Zenon
  <2> QED
    BY <1>1, <2>1, <2>2, <2>3 DEF Hurry
<1>3. CASE ~Receive
  <2>1. sent' = sent /\ hurried' = hurried
    BY <1>3 DEF Next, Deliver, Program, uart_init, notified, uart_handle_irq, uart_get_char, irq_ack,
       elf_loader_handle_input, pd_create, vars
  <2>2. \/ loaded' = loaded
        \/ \E p \in ProgramSet : loaded' = Append(loaded, [by |-> p, file |-> Number(p)])
    BY <1>3 DEF Next, Deliver, Program, uart_init, notified, uart_handle_irq, uart_get_char, irq_ack,
       elf_loader_handle_input, pd_create, vars
  <2>3. Len(loaded) \in Nat /\ Len(loaded') \in Nat /\ Len(loaded) <= Len(loaded')
    <3>1. loaded \in Seq([by : ProgramSet, file : Nat])
      BY DEF OrderInv, IInv, TypeOK
    <3>2. \A p \in ProgramSet : [by |-> p, file |-> Number(p)] \in [by : ProgramSet, file : Nat]
      BY ProgramSetFacts
    <3>3. ASSUME NEW p \in ProgramSet, loaded' = Append(loaded, [by |-> p, file |-> Number(p)])
          PROVE  Len(loaded') = Len(loaded) + 1
      <4> DEFINE r == [by |-> p, file |-> Number(p)]
      <4>1. loaded' = Append(loaded, r) /\ r \in [by : ProgramSet, file : Nat]
        BY <3>2, <3>3
      <4> HIDE DEF r
      <4> QED
        BY <3>1, <4>1
    <3>4. Len(loaded) \in Nat
      BY <3>1
    <3>5. Len(loaded') = Len(loaded) \/ Len(loaded') = Len(loaded) + 1
      <4>1. CASE loaded' = loaded
        BY <4>1
      <4>2. CASE \E p \in ProgramSet : loaded' = Append(loaded, [by |-> p, file |-> Number(p)])
        BY <3>3, <4>2
      <4> QED
        BY <2>2, <4>1, <4>2
    <3> QED
      BY <3>4, <3>5
  <2>4. \A k \in 1..N : Current' < k => Current < k
    BY <2>3, SizesFacts DEF Current
  <2> QED
    BY <1>1, <2>1, <2>4 DEF Hurry
<1> QED
  BY <1>2, <1>3

(***************************************************************************)
(* Only pd_create can lose the interrupt, and nothing finds it again.      *)
(***************************************************************************)
LEMMA SameLost ==
    ASSUME Handlers' = Handlers, irq' = irq
    PROVE  Lost' <=> Lost
BY DEF Lost

LEMMA HandlersKept ==
    ASSUME IInv, pending' = pending, NEW p \in ProgramSet,
           \A q \in ProgramSet \ {p} : program'[q] = program[q],
           program[p].at \in {"clear", "read", "ack"} <=> program'[p].at \in {"clear", "read", "ack"}
    PROVE  Handlers' = Handlers
BY DEF Handlers

\* Whoever acknowledges handles the interrupt, and takes the mask off if the handler is its own.
LEMMA AckLost ==
    ASSUME IInv, NEW p \in ProgramSet, irq_ack(p)
    PROVE  (Lost' <=> Lost) /\ (Lost => irq' = irq)
<1>1. /\ program[p].at = "ack" /\ Goto(p, "input") /\ pending' = pending
      /\ irq' = IF irq.owner = p THEN [irq EXCEPT !.masked = FALSE] ELSE irq
      /\ irq \in [masked : BOOLEAN, owner : ProgramSet]
  BY DEF irq_ack, IInv, TypeOK
<1>2. /\ program'[p].at = "input"
      /\ \A q \in ProgramSet \ {p} : program'[q] = program[q]
  BY <1>1, GotoFacts DEF IInv, Places
<1>3. p \in Handlers /\ irq.masked /\ \A q \in Handlers : q = p
  BY <1>1 DEF IInv, Single, Handling, Handlers
<1>4. p \notin pending
  BY <1>1 DEF IInv, Handling
<1>5. Handlers' = {}
  <2>1. ASSUME NEW q \in Handlers' PROVE FALSE
    <3>1. q # p
      BY <1>1, <1>2, <1>4, <2>1 DEF Handlers
    <3>2. q \in Handlers
      BY <1>1, <1>2, <2>1, <3>1 DEF Handlers
    <3> QED
      BY <1>3, <3>1, <3>2
  <2> QED
    BY <2>1
<1>6. CASE irq.owner = p
  <2>1. irq'.masked = FALSE
    BY <1>1, <1>6
  <2> QED
    BY <1>3, <1>6, <2>1 DEF Lost
<1>7. CASE irq.owner # p
  <2>1. irq' = irq
    BY <1>1, <1>7
  <2>2. Lost /\ Lost'
    BY <1>3, <1>5, <1>7, <2>1 DEF Lost
  <2> QED
    BY <2>1, <2>2
<1> QED
  BY <1>6, <1>7

LEMMA DeliverLost == ASSUME IInv, Deliver PROVE ~Lost /\ ~Lost'
<1>1. /\ ~irq.masked /\ irq'.owner = irq.owner /\ irq.owner \in ProgramSet
      /\ pending' = pending \cup {irq.owner}
  BY DEF Deliver, IInv, TypeOK
<1>2. irq'.owner \in Handlers'
  BY <1>1 DEF Handlers
<1> QED
  BY <1>1, <1>2 DEF Lost

\* When everything has been loaded there is no step.
LEMMA Busy == ASSUME OrderInv, Next PROVE Current <= N
<1> SUFFICES ASSUME ~(Current <= N) PROVE FALSE
  OBVIOUS
<1>1. /\ sent = Total /\ uart.data = Empty
      /\ \A p \in ProgramSet : p \notin pending /\ program[p].at \in {"none", "idle"}
  BY DEF OrderInv, InOrder, Done, Quiescent
<1>2. ~Receive
  BY <1>1, EndsFacts DEF Receive
<1>3. ~Deliver
  BY <1>1 DEF Deliver, OrderInv, IInv, Handling
<1>4. ASSUME NEW p \in ProgramSet, Program(p) PROVE FALSE
  BY <1>1, <1>4 DEF Program, uart_init, notified, uart_handle_irq, uart_get_char, irq_ack,
     elf_loader_handle_input, pd_create
<1> QED
  BY <1>2, <1>3, <1>4 DEF Next

LEMMA ReceiveOrder == ASSUME OrderInv, Current <= N, Receive PROVE LoadsInOrder' /\ Line' /\ InOrder'
<1>1. /\ sent < Total /\ uart.data = 0 /\ sent' = sent + 1
      /\ uart'.data = sent + 1 /\ uart'.data # 0
      /\ loaded' = loaded /\ pending' = pending /\ irq' = irq /\ program' = program
      /\ loader' = loader /\ taken' = taken
      /\ sent \in Nat /\ Total \in Nat
  BY EndsFacts DEF Receive, OrderInv, IInv, TypeOK, Empty
<1>5. (Lost' <=> Lost) /\ (hurried => hurried')
  <2>1. Handlers' = Handlers
    BY <1>1 DEF Handlers
  <2> QED
    BY <1>1, <2>1, SameLost DEF Receive
<1>2. LoadsInOrder'
  BY <1>1, LoadsKept
<1>3. Line'
  BY <1>1 DEF Line, OrderInv
<1>4. InOrder'
  <2> SUFFICES ASSUME NEW k \in 1..N, k = Current PROVE Way(k)'
    BY <1>1, SameFile
  <2> DEFINE p == Programs[k]
  <2>1. /\ Way(k) /\ p \in ProgramSet
        /\ Base(k) \in Nat /\ Ends[k] \in Nat /\ Ends[k] > Base(k) /\ Len(taken) \in Nat
    BY CurrentWay
  <2> HIDE DEF p
  <2>2. CASE Straight(p, k)
    <3>1. OthersQuiet(p)' /\ InSequence' /\ HasPart(p, k)' /\ (Holds(p)' <=> Holds(p))
      BY <1>1, <2>2 DEF Straight, OthersQuiet, Quiescent, InSequence, HasPart, Holds
    <3>2. Here(Holds(p))' = Here(Holds(p)) /\ Here(Holds(p)) \in Nat
      BY <1>1 DEF Holds, Here
    <3>3. OnItsWay(p)'
      <4>1. sent = Len(taken) + Here(Holds(p)) + 0 /\ (Holds(p) => program[p].c = Len(taken) + 1)
        BY <1>1, <2>2 DEF Straight, OnItsWay, Here, Empty
      <4>2. Here(uart.data # Empty)' = 1
        BY <1>1 DEF Here, Empty
      <4> QED
        BY <1>1, <2>1, <3>1, <3>2, <4>1, <4>2 DEF OnItsWay
    <3> QED
      BY <1>5, <2>2, <3>1, <3>3 DEF Straight, Way, p
  <2>3. ASSUME NEW q, Stuck(q, k) PROVE Stuck(q, k)'
    <3>1. OthersQuiet(q)' /\ Lost' /\ hurried'
      BY <1>1, <1>5, <2>3 DEF Stuck, OthersQuiet, Quiescent
    <3>2. ~Told(q, k)
      BY <1>1 DEF Told, Empty
    <3>3. Has(q, k) => Has(q, k)'
      BY <1>1 DEF Has, Holds
    <3>4. Quiescent(q) => Quiescent(q)'
      BY <1>1 DEF Quiescent
    <3> QED
      BY <1>1, <2>3, <3>1, <3>2, <3>3, <3>4 DEF Stuck
  <2> QED
    BY <2>1, <2>2, <2>3 DEF Way, p
<1> QED
  BY <1>2, <1>3, <1>4

(***************************************************************************)
(* The steps of an interrupt that move no item.                            *)
(***************************************************************************)
\* A step between two places of a program on its way through an interrupt.
Moves(p) ==
    /\ sent' = sent /\ taken' = taken /\ loaded' = loaded /\ loader' = loader
    /\ uart'.data = uart.data /\ irq'.owner = irq.owner /\ pending' \subseteq pending
    /\ hurried' = hurried /\ (Lost' <=> Lost)
    /\ \A q \in ProgramSet \ {p} : program'[q] = program[q]
    /\ program'[p].c = program[p].c /\ (Holds(p)' <=> Holds(p)) /\ ~Quiescent(p)
    /\ program[p].at \notin {"none", "create"} /\ program'[p].at \notin {"none", "create"}
    /\ program[p].at \in {"idle", "clear", "read"} => program'[p].at \in {"clear", "read"}

LEMMA MovesOrder ==
    ASSUME OrderInv, Current <= N, NEW m \in ProgramSet, Moves(m)
    PROVE  LoadsInOrder' /\ Line' /\ InOrder'
<1>1. /\ sent' = sent /\ taken' = taken /\ loaded' = loaded /\ loader' = loader
      /\ uart'.data = uart.data /\ irq'.owner = irq.owner /\ pending' \subseteq pending
      /\ hurried' = hurried /\ (Lost' <=> Lost)
      /\ \A q \in ProgramSet \ {m} : program'[q] = program[q]
      /\ program'[m].c = program[m].c /\ (Holds(m)' <=> Holds(m)) /\ ~Quiescent(m)
      /\ program[m].at \notin {"none", "create"} /\ program'[m].at \notin {"none", "create"}
      /\ program[m].at \in {"idle", "clear", "read"} => program'[m].at \in {"clear", "read"}
  BY DEF Moves
<1>2. LoadsInOrder'
  <2>1. \A p \in ProgramSet : program'[p].at = "none" <=> program[p].at = "none"
    BY <1>1
  <2> QED
    BY <1>1, <2>1, LoadsKept
<1>3. Line'
  BY <1>1 DEF Line, OrderInv
<1>4. InOrder'
  <2> SUFFICES ASSUME NEW k \in 1..N, k = Current PROVE Way(k)'
    BY <1>1, SameFile
  <2> DEFINE p == Programs[k]
  <2>1. Way(k) /\ p \in ProgramSet
    BY CurrentWay
  <2> HIDE DEF p
  <2>2. ASSUME NEW q \in ProgramSet
        PROVE  (Holds(q)' <=> Holds(q)) /\ program'[q].c = program[q].c
               /\ (program'[q].at = "create" <=> program[q].at = "create")
    <3>1. CASE q = m
      BY <1>1, <3>1
    <3>2. CASE q # m
      BY <1>1, <3>2 DEF Holds
    <3> QED
      BY <3>1, <3>2
  <2>3. \A r : OthersQuiet(r) => m = r
    BY <1>1 DEF OthersQuiet
  <2>4. \A q \in ProgramSet \ {m} : Quiescent(q) => Quiescent(q)'
    BY <1>1 DEF Quiescent
  <2>5. \A r : OthersQuiet(r) => OthersQuiet(r)'
    BY <2>3, <2>4 DEF OthersQuiet
  <2>6. InSequence => InSequence'
    BY <1>1 DEF InSequence
  <2>7. CASE Straight(p, k)
    <3>1. HasPart(p, k)'
      BY <1>1, <2>1, <2>2, <2>7 DEF Straight, HasPart
    <3>2. OnItsWay(p)'
      BY <1>1, <2>1, <2>2, <2>7 DEF Straight, OnItsWay, Here
    <3> QED
      BY <1>1, <2>5, <2>6, <2>7, <3>1, <3>2 DEF Straight, Way, p
  <2>8. CASE k > 1 /\ Stuck(Programs[k - 1], k)
    <3> DEFINE q == Programs[k - 1]
    <3>1. Stuck(q, k)
      BY <2>8
    <3> HIDE DEF q
    <3>2. q = m /\ OthersQuiet(q)'
      BY <2>3, <2>5, <3>1 DEF Stuck
    <3>3. Told(q, k) => Told(q, k)'
      <4> SUFFICES ASSUME Told(q, k) PROVE Told(q, k)'
        OBVIOUS
      <4>1. program'[q].at \in {"clear", "read"}
        BY <1>1, <3>2 DEF Told
      <4> QED
        BY <1>1, <4>1 DEF Told
    <3>4. Has(q, k) => Has(q, k)'
      BY <1>1, <3>2 DEF Has
    <3>5. ~Quiescent(q)
      BY <1>1, <3>2
    <3>6. Stuck(q, k)'
      BY <1>1, <3>1, <3>2, <3>3, <3>4, <3>5 DEF Stuck
    <3> QED
      BY <2>8, <3>6 DEF Way, q
  <2> QED
    BY <2>1, <2>7, <2>8 DEF Way, p
<1> QED
  BY <1>2, <1>3, <1>4

LEMMA uart_initOrder == ASSUME OrderInv, NEW p \in ProgramSet, uart_init(p) PROVE Moves(p)
<1>1. /\ program[p].at = "init" /\ uart' = [uart EXCEPT !.mask = TRUE] /\ Goto(p, "idle")
      /\ UNCHANGED <<sent, irq, pending, loader, taken, loaded, hurried>>
  BY DEF uart_init
<1>2. /\ program'[p].at = "idle" /\ program'[p].c = program[p].c
      /\ \A q \in ProgramSet \ {p} : program'[q] = program[q]
  BY <1>1, GotoFacts DEF OrderInv, IInv, Places
<1>3. uart'.data = uart.data
  BY <1>1 DEF OrderInv, IInv, TypeOK
<1>4. Lost' <=> Lost
  BY <1>1, <1>2, HandlersKept, SameLost DEF OrderInv
<1> QED
  BY <1>1, <1>2, <1>3, <1>4 DEF Moves, Holds, Quiescent

LEMMA notifiedOrder == ASSUME OrderInv, NEW p \in ProgramSet, notified(p) PROVE Moves(p)
<1>1. /\ program[p].at = "idle" /\ p \in pending /\ pending' = pending \ {p} /\ Goto(p, "clear")
      /\ UNCHANGED <<sent, uart, irq, loader, taken, loaded, hurried>>
  BY DEF notified
<1>2. /\ program'[p].at = "clear" /\ program'[p].c = program[p].c
      /\ \A q \in ProgramSet \ {p} : program'[q] = program[q]
  BY <1>1, GotoFacts DEF OrderInv, IInv, Places
<1>3. Handlers' = Handlers
  BY <1>1, <1>2 DEF Handlers
<1>4. Lost' <=> Lost
  BY <1>1, <1>3, SameLost
<1> QED
  BY <1>1, <1>2, <1>4 DEF Moves, Holds, Quiescent

LEMMA uart_handle_irqOrder == ASSUME OrderInv, NEW p \in ProgramSet, uart_handle_irq(p) PROVE Moves(p)
<1>1. /\ program[p].at = "clear" /\ uart' = [uart EXCEPT !.status = FALSE] /\ Goto(p, "read")
      /\ UNCHANGED <<sent, irq, pending, loader, taken, loaded, hurried>>
  BY DEF uart_handle_irq
<1>2. /\ program'[p].at = "read" /\ program'[p].c = program[p].c
      /\ \A q \in ProgramSet \ {p} : program'[q] = program[q]
  BY <1>1, GotoFacts DEF OrderInv, IInv, Places
<1>3. uart'.data = uart.data
  BY <1>1 DEF OrderInv, IInv, TypeOK
<1>4. Lost' <=> Lost
  BY <1>1, <1>2, HandlersKept, SameLost DEF OrderInv
<1> QED
  BY <1>1, <1>2, <1>3, <1>4 DEF Moves, Holds, Quiescent

LEMMA irq_ackOrder == ASSUME OrderInv, NEW p \in ProgramSet, irq_ack(p) PROVE Moves(p)
<1>1. /\ program[p].at = "ack" /\ Goto(p, "input")
      /\ irq' = irq \/ irq' = [irq EXCEPT !.masked = FALSE]
      /\ UNCHANGED <<sent, uart, pending, loader, taken, loaded, hurried>>
  BY DEF irq_ack
<1>2. /\ program'[p].at = "input" /\ program'[p].c = program[p].c
      /\ \A q \in ProgramSet \ {p} : program'[q] = program[q]
  BY <1>1, GotoFacts DEF OrderInv, IInv, Places
<1>3. irq'.owner = irq.owner
  BY <1>1 DEF OrderInv, IInv, TypeOK
<1>4. Lost' <=> Lost
  BY AckLost DEF OrderInv
<1> QED
  BY <1>1, <1>2, <1>3, <1>4 DEF Moves, Holds, Quiescent

LEMMA DeliverOrder == ASSUME OrderInv, Current <= N, Deliver PROVE LoadsInOrder' /\ Line' /\ InOrder'
<1>1. /\ ~irq.masked /\ irq'.owner = irq.owner /\ pending' = pending \cup {irq.owner}
      /\ sent' = sent /\ uart' = uart /\ program' = program
      /\ loader' = loader /\ taken' = taken /\ loaded' = loaded
  BY DEF Deliver, OrderInv, IInv, TypeOK
<1>2. Handlers = {}
  BY <1>1 DEF OrderInv, IInv, Handling
<1>3. Current \in Nat /\ N \in Nat \ {0}
  BY CurrentType, SizesFacts
<1>4. LoadsInOrder'
  <2>1. irq.owner = Programs[IF Current <= N THEN Current ELSE N]
    BY DEF OrderInv, LoadsInOrder
  <2>2. PICK k \in 1..N : k <= Current /\ irq.owner = Programs[k]
    BY <1>3, <2>1, CurrentType
  <2>3. program[irq.owner].at # "none"
    BY <2>2 DEF OrderInv, LoadsInOrder
  <2>4. \A p \in ProgramSet : p \in pending' => p \in pending \/ program[p].at # "none"
    BY <1>1, <2>3
  <2> QED
    BY <1>1, <2>4, LoadsKept
<1>5. Line'
  BY <1>1 DEF Line, OrderInv
<1>6. InOrder'
  <2> SUFFICES ASSUME NEW k \in 1..N, k = Current PROVE Way(k)'
    BY <1>1, SameFile
  <2> DEFINE p == Programs[k]
  <2>1. Way(k) /\ p \in ProgramSet
    BY CurrentWay
  <2>2. irq.owner = p
    BY DEF OrderInv, LoadsInOrder
  <2> HIDE DEF p
  <2>3. CASE Straight(p, k)
    <3>1. OthersQuiet(p)'
      BY <1>1, <2>2, <2>3 DEF Straight, OthersQuiet, Quiescent
    <3>2. InSequence' /\ HasPart(p, k)' /\ OnItsWay(p)'
      BY <1>1, <2>3 DEF Straight, InSequence, HasPart, OnItsWay, Holds, Here
    <3> QED
      BY <3>1, <3>2, DeliverLost DEF Straight, Way, p, OrderInv
  <2>4. ASSUME NEW q, Stuck(q, k) PROVE FALSE
    BY <2>4, DeliverLost DEF Stuck, OrderInv
  <2> QED
    BY <2>1, <2>3, <2>4 DEF Way, p
<1> QED
  BY <1>4, <1>5, <1>6

(***************************************************************************)
(* The character is read.                                                  *)
(***************************************************************************)
\* Every item is of a file.
LEMMA ItemOfFile == \A item \in 1..Total : \E k \in 1..N : item \in Base(k) + 1..Ends[k]
<1> DEFINE T == {m \in Nat : m <= N => \A item \in 1..End[m] : \E k \in 1..N : item \in Base(k) + 1..Ends[k]}
<1>1. 0 \in T
  BY EndFacts
<1>2. ASSUME NEW m \in T PROVE m + 1 \in T
  <2> SUFFICES ASSUME m + 1 <= N, NEW item \in 1..End[m + 1]
               PROVE  \E k \in 1..N : item \in Base(k) + 1..Ends[k]
    OBVIOUS
  <2>1. m + 1 \in 1..N /\ (m + 1) - 1 = m /\ m \in 0..N /\ m + 1 \in 0..N
    BY SizesFacts
  <2>2. End[m] \in Nat /\ End[m + 1] = End[m] + 1 + Sizes[m + 1] /\ Sizes[m + 1] \in Nat
        /\ Ends[m + 1] = End[m + 1]
    BY <2>1, EndFacts, SizesFacts
  <2>3. Base(m + 1) = End[m]
    BY <2>2 DEF Base
  <2>4. CASE item \in 1..End[m]
    BY <2>4, <2>1
  <2>5. CASE item \notin 1..End[m]
    <3>1. item \in Base(m + 1) + 1..Ends[m + 1]
      BY <2>2, <2>3, <2>5
    <3> QED
      BY <3>1, <2>1
  <2> QED
    BY <2>4, <2>5
<1>3. T = Nat
  BY <1>1, <1>2, NatSetInduction
<1>4. N \in T /\ N <= N /\ N \in 1..N
  BY <1>3, SizesFacts
<1>5. Total = End[N]
  BY <1>4, EndFacts, SizesFacts DEF Total
<1> QED
  BY <1>4, <1>5

LEMMA uart_get_charOrder ==
    ASSUME OrderInv, Current <= N, NEW m \in ProgramSet, uart_get_char(m)
    PROVE  LoadsInOrder' /\ Line' /\ InOrder'
<1>1. /\ program[m].at = "read" /\ uart'.data = 0 /\ uart.data # 0
      /\ program'[m].at = "ack" /\ program'[m].c = uart.data
      /\ \A q \in ProgramSet \ {m} : program'[q] = program[q]
      /\ sent' = sent /\ irq' = irq /\ pending' = pending
      /\ loader' = loader /\ taken' = taken /\ loaded' = loaded
      /\ uart.data = sent /\ sent \in Nat
  BY DEF uart_get_char, OrderInv, IInv, TypeOK, Handling, Line, Empty
<1>2. LoadsInOrder'
  <2>1. \A p \in ProgramSet : program'[p].at = "none" <=> program[p].at = "none"
    BY <1>1
  <2> QED
    BY <1>1, <2>1, LoadsKept
<1>3. Line'
  BY <1>1 DEF Line, OrderInv, Empty
<1>4. ~Quiescent(m) /\ ~Holds(m) /\ Holds(m)'
  BY <1>1 DEF Quiescent, Holds
<1>6. (Lost' <=> Lost) /\ hurried' = hurried /\ m \notin pending
  <2>1. Handlers' = Handlers
    BY <1>1, HandlersKept DEF OrderInv
  <2>2. m \notin pending
    BY <1>1 DEF OrderInv, IInv, Handling
  <2> QED
    BY <1>1, <2>1, <2>2, SameLost DEF uart_get_char
<1>5. InOrder'
  <2> SUFFICES ASSUME NEW k \in 1..N, k = Current PROVE Way(k)'
    BY <1>1, SameFile
  <2> DEFINE p == Programs[k]
  <2>1. /\ Way(k) /\ p \in ProgramSet
        /\ Base(k) \in Nat /\ Ends[k] \in Nat /\ Ends[k] > Base(k) /\ Len(taken) \in Nat
    BY CurrentWay
  <2> HIDE DEF p
  <2>3. CASE Straight(p, k)
    <3>1. p = m
      BY <1>4, <2>3 DEF Straight, OthersQuiet
    <3>2. OthersQuiet(p)' /\ InSequence'
      BY <1>1, <2>3, <3>1 DEF Straight, OthersQuiet, Quiescent, InSequence
    <3>3. HasPart(p, k)'
      BY <1>1, <2>3, <3>1 DEF Straight, HasPart
    <3>4. sent = Len(taken) + 1
      BY <1>1, <1>4, <2>1, <2>3, <3>1 DEF Straight, OnItsWay, Here, Empty
    <3>5. OnItsWay(p)'
      BY <1>1, <1>4, <2>1, <3>1, <3>4 DEF OnItsWay, Here, Empty
    <3> QED
      BY <1>6, <2>3, <3>2, <3>3, <3>5 DEF Straight, Way, p
  <2>4. ASSUME NEW q, Stuck(q, k) PROVE Stuck(q, k)'
    <3>1. q = m
      BY <1>4, <2>4 DEF Stuck, OthersQuiet
    <3>2. Lost' /\ hurried' /\ OthersQuiet(q)'
      BY <1>1, <1>6, <2>4, <3>1 DEF Stuck, OthersQuiet, Quiescent
    <3>3. Told(q, k)
      BY <1>4, <2>4, <3>1 DEF Stuck, Has
    <3>4. Has(q, k)'
      BY <1>1, <1>4, <1>6, <3>1, <3>3 DEF Told, Has
    <3> QED
      BY <3>2, <3>4 DEF Stuck
  <2> QED
    BY <2>1, <2>3, <2>4 DEF Way, p
<1> QED
  BY <1>2, <1>3, <1>5

LEMMA FirstLine ==
    ASSUME NEW l, NEW c, l.size = 0, l.junk = FALSE, IsSizeLine(c)
    PROVE  Next_loader(l, c) = [size |-> Sizes[File(c)], got |-> <<>>, junk |-> FALSE]
BY DEF Next_loader

\* What a loader makes of an item that has been sent.
LEMMA NextLoaderType ==
    ASSUME NEW l \in LoaderState, l.size = 0 => l.got = <<>>, NEW c \in 1..Total
    PROVE  Next_loader(l, c) \in LoaderState
           /\ (Next_loader(l, c).size = 0 => Next_loader(l, c).got = <<>>)
<1>1. PICK k \in 1..N : c \in Base(k) + 1..Ends[k]
  BY ItemOfFile
<1>2. File(c) = k /\ Sizes[k] \in Nat
  BY <1>1, FileFacts, EndsFacts
<1>3. c \in Nat
  BY EndsFacts
<1>4. CASE l.size = 0
  <2>1. CASE ~IsSizeLine(c) \/ l.junk
    <3>1. \E j \in BOOLEAN : Next_loader(l, c) = [l EXCEPT !.junk = j]
      BY <1>4, <2>1 DEF Next_loader
    <3> QED
      BY <3>1 DEF LoaderState
  <2>2. CASE IsSizeLine(c) /\ l.junk = FALSE
    <3>1. Next_loader(l, c) = [size |-> Sizes[k], got |-> <<>>, junk |-> FALSE]
      BY <1>2, <1>4, <2>2, FirstLine
    <3> QED
      BY <3>1, <1>2 DEF LoaderState
  <2>3. l.junk \in BOOLEAN
    BY DEF LoaderState
  <2> QED
    BY <2>1, <2>2, <2>3
<1>5. CASE l.size # 0
  <2>1. Next_loader(l, c) = [l EXCEPT !.got = Append(@, c)]
    BY <1>5 DEF Next_loader
  <2>2. /\ l = [size |-> l.size, got |-> l.got, junk |-> l.junk]
        /\ l.size \in Nat /\ l.got \in Seq(Nat) /\ l.junk \in BOOLEAN
    BY DEF LoaderState
  <2>3. Append(l.got, c) \in Seq(Nat)
    BY <1>3, <2>2
  <2>4. Next_loader(l, c) = [size |-> l.size, got |-> Append(l.got, c), junk |-> l.junk]
    BY <2>1, <2>2
  <2> HIDE DEF Next_loader
  <2> QED
    BY <1>5, <2>2, <2>3, <2>4 DEF LoaderState
<1> QED
  BY <1>4, <1>5

\* An item of the file that comes in its turn.
LEMMA NextInOrder ==
    ASSUME NEW k \in 1..N, NEW n \in Nat, n \in Base(k)..Ends[k] - 1, NEW l,
           n = Base(k) => l = Fresh,
           n > Base(k) => l = [size |-> Sizes[k], junk |-> FALSE,
                               got |-> [i \in 1..n - Base(k) - 1 |-> Base(k) + 1 + i]]
    PROVE  /\ Next_loader(l, n + 1) =
                  [size |-> Sizes[k], junk |-> FALSE,
                   got |-> [i \in 1..(n + 1) - Base(k) - 1 |-> Base(k) + 1 + i]]
           /\ Complete(Next_loader(l, n + 1)) <=> n + 1 = Ends[k]
<1>1. Base(k) \in Nat /\ Ends[k] \in Nat /\ Ends[k] = Base(k) + 1 + Sizes[k] /\ Sizes[k] \in Nat \ {0}
  BY EndsFacts
<1> DEFINE b == Base(k)
           s == Sizes[k]
           got(j) == [i \in 1..j |-> b + 1 + i]
           new == [size |-> s, junk |-> FALSE, got |-> got(n - b)]
<1>2. /\ n + 1 \in b + 1..Ends[k] /\ b \in Nat /\ s \in Nat \ {0}
      /\ n - b \in Nat /\ (n + 1) - b - 1 = n - b
  BY <1>1
<1>3. File(n + 1) = k /\ (IsSizeLine(n + 1) <=> n + 1 = b + 1)
  BY <1>2, FileFacts
<1>4. Next_loader(l, n + 1) = new
  <2>1. CASE n = b
    <3>1. got(n - b) = <<>>
      <4>1. 1..n - b = {}
        BY <2>1, <1>2
      <4> QED
        BY <4>1
    <3>2. IsSizeLine(n + 1) /\ Sizes[File(n + 1)] = s
      BY <2>1, <1>3
    <3>3. l.size = 0 /\ l.junk = FALSE
      BY <2>1 DEF Fresh
    <3>4. Next_loader(l, n + 1) = [size |-> Sizes[File(n + 1)], got |-> <<>>, junk |-> FALSE]
      BY <3>2, <3>3, FirstLine
    <3> QED
      BY <3>1, <3>2, <3>4
  <2>2. CASE n > b
    <3>1. l = [size |-> s, junk |-> FALSE, got |-> got(n - b - 1)]
      BY <2>2
    <3>2. Append(got(n - b - 1), n + 1) = got(n - b)
      <4>1. n - b - 1 \in Nat
        BY <2>2, <1>2
      <4>2. got(n - b - 1) \in Seq(Nat) /\ Len(got(n - b - 1)) = n - b - 1
        <5>1. \A i \in 1..n - b - 1 : b + 1 + i \in Nat
          BY <1>2
        <5>2. got(n - b - 1) \in [1..n - b - 1 -> Nat]
          BY <5>1
        <5> QED
          BY <4>1, <5>2
      <4>3. b + 1 + (n - b) = n + 1 /\ (n - b - 1) + 1 = n - b
        BY <1>2
      <4>4. \A i \in 1..n - b : (IF i <= n - b - 1 THEN got(n - b - 1)[i] ELSE n + 1) = got(n - b)[i]
        BY <4>3, <1>2
      <4>5. got(n - b) = [i \in 1..n - b |-> got(n - b)[i]]
        OBVIOUS
      <4> HIDE DEF got
      <4>6. Append(got(n - b - 1), n + 1) =
                [i \in 1..n - b |-> IF i <= n - b - 1 THEN got(n - b - 1)[i] ELSE n + 1]
        <5> DEFINE g == got(n - b - 1)
        <5>1. g \in Seq(Nat) /\ Len(g) = n - b - 1 /\ Len(g) + 1 = n - b
          BY <4>2, <4>3
        <5> HIDE DEF g
        <5>2. Append(g, n + 1) = [i \in 1..Len(g) + 1 |-> IF i <= Len(g) THEN g[i] ELSE n + 1]
          BY <5>1
        <5>3. Append(g, n + 1) = [i \in 1..n - b |-> IF i <= n - b - 1 THEN g[i] ELSE n + 1]
          BY <5>1, <5>2, Zenon
        <5> QED
          BY <5>3 DEF g
      <4> QED
        BY <4>4, <4>5, <4>6
    <3> HIDE DEF got
    <3>3. Next_loader(l, n + 1) = [l EXCEPT !.got = Append(@, n + 1)]
      BY <3>1, <1>2 DEF Next_loader
    <3> QED
      BY <3>1, <3>2, <3>3
  <2> QED
    BY <2>1, <2>2, <1>2
<1>5. Len(got(n - b)) = n - b
  BY <1>2
<1>6. Complete(new) <=> n - b = s
  <2> HIDE DEF got
  <2> QED
    BY <1>2, <1>5 DEF Complete
<1>7. n - b = s <=> n + 1 = Ends[k]
  BY <1>1, <1>2
<1> HIDE DEF new
<1>8. Complete(Next_loader(l, n + 1)) <=> n + 1 = Ends[k]
  BY <1>4, <1>6, <1>7
<1>9. Next_loader(l, n + 1) = [size |-> s, junk |-> FALSE, got |-> got((n + 1) - b - 1)]
  BY <1>2, <1>4 DEF new
<1> QED
  BY <1>8, <1>9

(***************************************************************************)
(* The character is given to the loader.                                   *)
(***************************************************************************)
\* The item that a program is about to give to its loader.
LEMMA InputFacts ==
    ASSUME OrderInv, NEW m \in ProgramSet, elf_loader_handle_input(m)
    PROVE  /\ program[m].at = "input" /\ ~Quiescent(m) /\ Holds(m)
           /\ program[m].c \in 1..sent /\ program[m].c \in 1..Total /\ program[m].c # uart.data
           /\ sent \in Nat /\ loader[m] \in LoaderState
           /\ loader'[m] = Next_loader(loader[m], program[m].c)
           /\ program'[m].at = (IF Complete(loader'[m]) THEN "create" ELSE "idle")
           /\ program'[m].at \in {"create", "idle"}
           /\ \A q \in ProgramSet \ {m} : program'[q] = program[q] /\ loader'[q] = loader[q]
           /\ loader' = [loader EXCEPT ![m] = loader'[m]]
           /\ Len(taken') = Len(taken) + 1 /\ taken'[Len(taken) + 1] = program[m].c
           /\ DOMAIN taken' = 1..Len(taken) + 1 /\ DOMAIN taken = 1..Len(taken) /\ Len(taken) \in Nat
           /\ \A i \in 1..Len(taken) : taken'[i] = taken[i]
           /\ sent' = sent /\ uart' = uart /\ irq' = irq /\ pending' = pending /\ loaded' = loaded
<1> DEFINE c == program[m].c
           l == Next_loader(loader[m], c)
           place == IF Complete(l) THEN "create" ELSE "idle"
<1>1. /\ program[m].at = "input" /\ loader' = [loader EXCEPT ![m] = l] /\ taken' = Append(taken, c)
      /\ Goto(m, place)
      /\ sent' = sent /\ uart' = uart /\ irq' = irq /\ pending' = pending /\ loaded' = loaded
  BY DEF elf_loader_handle_input
<1>2. c \in 1..sent /\ c # uart.data
  <2>1. Held(m) = {c}
    BY <1>1 DEF Held
  <2> QED
    BY <2>1 DEF OrderInv, IInv, TakenOnce, InHands
<1>3. sent \in Nat /\ Total \in Nat /\ sent <= Total /\ taken \in Seq(Nat)
  BY EndsFacts DEF OrderInv, IInv, TypeOK, Line
<1>4. place \in {"create", "idle"} /\ place \in Places
  BY DEF Places
<1> HIDE DEF l
<1>5. program'[m].at = place /\ \A q \in ProgramSet \ {m} : program'[q] = program[q]
  <2> HIDE DEF place
  <2> QED
    BY <1>1, <1>4, GotoFacts DEF OrderInv, IInv
<1>6. loader \in [ProgramSet -> LoaderState]
  BY DEF OrderInv, Line
<1>7. loader'[m] = l /\ \A q \in ProgramSet \ {m} : loader'[q] = loader[q]
  BY <1>1, <1>6
<1>8. c \in 1..Total /\ c \in Nat
  BY <1>2, <1>3
<1>9. /\ Len(taken') = Len(taken) + 1 /\ taken'[Len(taken) + 1] = c
      /\ DOMAIN taken' = 1..Len(taken) + 1 /\ DOMAIN taken = 1..Len(taken) /\ Len(taken) \in Nat
      /\ \A i \in 1..Len(taken) : taken'[i] = taken[i]
  BY <1>1, <1>3, <1>8
<1>10. ~Quiescent(m) /\ Holds(m)
  BY <1>1 DEF Quiescent, Holds
<1> QED
  BY <1>1, <1>2, <1>3, <1>4, <1>5, <1>6, <1>7, <1>8, <1>9, <1>10 DEF l

LEMMA elf_loader_handle_inputOrder ==
    ASSUME OrderInv, Current <= N, NEW m \in ProgramSet, elf_loader_handle_input(m)
    PROVE  LoadsInOrder' /\ Line' /\ InOrder'
<1> DEFINE c == program[m].c
           l == Next_loader(loader[m], c)
<1>1. /\ program[m].at = "input" /\ ~Quiescent(m) /\ Holds(m)
      /\ c \in 1..sent /\ c \in 1..Total /\ c # uart.data
      /\ sent \in Nat /\ loader[m] \in LoaderState
      /\ loader'[m] = l
      /\ program'[m].at = (IF Complete(l) THEN "create" ELSE "idle")
      /\ program'[m].at \in {"create", "idle"}
      /\ \A q \in ProgramSet \ {m} : program'[q] = program[q] /\ loader'[q] = loader[q]
      /\ loader' = [loader EXCEPT ![m] = l]
      /\ Len(taken') = Len(taken) + 1 /\ taken'[Len(taken) + 1] = c
      /\ DOMAIN taken' = 1..Len(taken) + 1 /\ DOMAIN taken = 1..Len(taken) /\ Len(taken) \in Nat
      /\ \A i \in 1..Len(taken) : taken'[i] = taken[i]
      /\ sent' = sent /\ uart' = uart /\ irq' = irq /\ pending' = pending /\ loaded' = loaded
  BY InputFacts, Zenon
<1>2. l \in LoaderState /\ (l.size = 0 => l.got = <<>>)
  <2>1. loader[m].size = 0 => loader[m].got = <<>>
    BY DEF OrderInv, Line
  <2> QED
    BY <1>1, <2>1, NextLoaderType
<1> HIDE DEF c, l
<1>6. (Lost' <=> Lost) /\ hurried' = hurried
  <2>1. Handlers' = Handlers
    BY <1>1, HandlersKept DEF OrderInv
  <2> QED
    BY <1>1, <2>1, SameLost DEF elf_loader_handle_input
<1>3. LoadsInOrder'
  <2>1. \A p \in ProgramSet : program'[p].at = "none" <=> program[p].at = "none"
    BY <1>1
  <2> QED
    BY <1>1, <2>1, LoadsKept
<1>4. Line'
  <2>1. loader' \in [ProgramSet -> LoaderState]
    BY <1>1, <1>2 DEF OrderInv, Line
  <2>2. \A p \in ProgramSet : loader'[p].size = 0 => loader'[p].got = <<>>
    BY <1>1, <1>2 DEF OrderInv, Line
  <2> QED
    BY <1>1, <2>1, <2>2 DEF OrderInv, Line
<1>5. InOrder'
  <2> SUFFICES ASSUME NEW k \in 1..N, k = Current PROVE Way(k)'
    BY <1>1, SameFile
  <2> DEFINE p == Programs[k]
  <2>1. /\ Way(k) /\ p \in ProgramSet
        /\ Base(k) \in Nat /\ Ends[k] \in Nat /\ Ends[k] > Base(k) /\ Len(taken) \in Nat
    BY CurrentWay
  <2> HIDE DEF p
  <2>2. CASE Straight(p, k)
    <3>1. p = m
      BY <1>1, <2>2 DEF Straight, OthersQuiet
    <3> DEFINE n == Len(taken)
    <3>2. /\ c = n + 1 /\ n \in Base(k)..Ends[k] /\ n # Ends[k]
          /\ n = Base(k) => loader[p] = Fresh
          /\ n > Base(k) => loader[p] = [size |-> Sizes[k], junk |-> FALSE,
                                         got |-> [i \in 1..n - Base(k) - 1 |-> Base(k) + 1 + i]]
      BY <1>1, <2>2, <3>1 DEF Straight, OnItsWay, HasPart, c
    <3>3. n \in Nat /\ n \in Base(k)..Ends[k] - 1
      BY <1>1, <2>1, <3>2
    <3>4. /\ l = [size |-> Sizes[k], junk |-> FALSE,
                  got |-> [i \in 1..(n + 1) - Base(k) - 1 |-> Base(k) + 1 + i]]
          /\ Complete(l) <=> n + 1 = Ends[k]
      <4>1. l = Next_loader(loader[p], n + 1)
        BY <3>1, <3>2 DEF l
      <4> HIDE DEF n
      <4> QED
        BY <3>2, <3>3, <4>1, NextInOrder, Zenon
    <3>5. HasPart(p, k)'
      <4>1. n + 1 \in Base(k)..Ends[k] /\ n + 1 # Base(k) /\ n + 1 > Base(k) /\ Len(taken') = n + 1
        BY <1>1, <2>1, <3>3
      <4>2. program'[p].at = "create" <=> n + 1 = Ends[k]
        BY <1>1, <3>1, <3>4
      <4>3. loader'[p] = l
        BY <1>1, <3>1
      <4> HIDE DEF n
      <4> QED
        BY <3>4, <4>1, <4>2, <4>3 DEF HasPart
    <3>6. OthersQuiet(p)'
      BY <1>1, <2>2, <3>1 DEF Straight, OthersQuiet, Quiescent
    <3>7. InSequence'
      BY <1>1, <2>2, <3>2 DEF Straight, InSequence
    <3>8. OnItsWay(p)'
      <4>1. ~Holds(p)' /\ Holds(p)
        BY <1>1, <3>1 DEF Holds
      <4>2. sent = n + 1 + Here(uart.data # Empty) /\ Here(uart.data # Empty)' = Here(uart.data # Empty)
        BY <1>1, <2>2, <4>1 DEF Straight, OnItsWay, Here
      <4>3. Here(uart.data # Empty) \in Nat
        BY DEF Here
      <4>4. Here(Holds(p))' = 0
        BY <4>1 DEF Here
      <4> QED
        BY <1>1, <4>1, <4>2, <4>3, <4>4 DEF OnItsWay
    <3> QED
      BY <1>6, <2>2, <3>5, <3>6, <3>7, <3>8 DEF Straight, Way, p
  <2>3. ASSUME NEW q, Stuck(q, k) PROVE Stuck(q, k)'
    <3>1. q = m
      BY <1>1, <2>3 DEF Stuck, OthersQuiet
    <3>2. Lost' /\ hurried' /\ OthersQuiet(q)'
      BY <1>1, <1>6, <2>3, <3>1 DEF Stuck, OthersQuiet, Quiescent
    <3>3. Has(q, k)
      BY <1>1, <2>3, <3>1 DEF Stuck, Told
    <3>4. /\ c = Base(k) + 1 /\ loader[m] = Fresh /\ m \notin pending /\ Len(taken) = Base(k)
      BY <3>1, <3>3 DEF Has, c
    <3>5. ~Complete(l)
      <4>1. Ends[k] = Base(k) + 1 + Sizes[k] /\ Sizes[k] \in Nat \ {0}
        BY EndsFacts
      <4>2. Base(k) \in Base(k)..Ends[k] - 1 /\ ~(Base(k) > Base(k)) /\ Base(k) + 1 # Ends[k]
        BY <2>1, <4>1
      <4>3. Complete(Next_loader(loader[m], Base(k) + 1)) <=> Base(k) + 1 = Ends[k]
        BY <2>1, <3>4, <4>2, NextInOrder
      <4> QED
        BY <3>4, <4>2, <4>3 DEF l, c
    <3>6. Quiescent(m)'
      BY <1>1, <3>4, <3>5 DEF Quiescent
    <3>7. Len(taken') = Base(k) + 1
      BY <1>1, <3>4
    <3> QED
      BY <3>1, <3>2, <3>6, <3>7 DEF Stuck
  <2> QED
    BY <2>1, <2>2, <2>3 DEF Way, p
<1> QED
  BY <1>3, <1>4, <1>5

(***************************************************************************)
(* The file that has been received is started as the next program.         *)
(***************************************************************************)
\* sel4cp_pd_create succeeds.
CanLoad(p) == IsFile(loader[p].got, Number(p)) /\ \A i \in DOMAIN loaded : loaded[i].by # p

\* The loader is reset either way.
LEMMA CreateFacts ==
    ASSUME OrderInv, NEW m \in ProgramSet, pd_create(m)
    PROVE  /\ program[m].at = "create" /\ ~Quiescent(m) /\ ~Holds(m)
           /\ loader'[m] = Fresh /\ \A q \in ProgramSet \ {m} : loader'[q] = loader[q]
           /\ sent' = sent /\ uart' = uart /\ pending' = pending /\ taken' = taken
           /\ Line'
<1>1. /\ program[m].at = "create" /\ loader' = [loader EXCEPT ![m] = Fresh]
      /\ sent' = sent /\ uart' = uart /\ pending' = pending /\ taken' = taken
  BY DEF pd_create, Fresh
<1>2. loader \in [ProgramSet -> LoaderState] /\ Fresh \in LoaderState /\ Fresh.got = <<>>
  BY DEF OrderInv, Line, LoaderState, Fresh
<1>3. /\ loader'[m] = Fresh /\ \A q \in ProgramSet \ {m} : loader'[q] = loader[q]
      /\ loader' \in [ProgramSet -> LoaderState]
  BY <1>1, <1>2
<1>4. \A p \in ProgramSet : loader'[p].size = 0 => loader'[p].got = <<>>
  BY <1>2, <1>3 DEF OrderInv, Line
<1>5. Line'
  BY <1>1, <1>3, <1>4 DEF OrderInv, Line
<1> QED
  BY <1>1, <1>3, <1>5 DEF Quiescent, Holds

\* What can be loaded is the current file, all of it, and nothing after it has been taken.
LEMMA LoadedFacts ==
    ASSUME OrderInv, Current <= N, NEW m \in ProgramSet, pd_create(m), CanLoad(m)
    PROVE  /\ Number(m) \in 1..N /\ Number(m) = Current /\ m = Programs[Number(m)]
           /\ Straight(m, Number(m)) /\ Len(taken) = Ends[Number(m)]
           /\ loaded' = Append(loaded, [by |-> m, file |-> Number(m)])
<1> DEFINE j == Number(m)
<1>1. program[m].at = "create" /\ ~Quiescent(m)
  BY CreateFacts
<1>2. j \in 1..N /\ m = Programs[j]
  BY ProgramSetFacts DEF N
<1>3. /\ Current \in Nat \ {0} /\ Current = Len(loaded) + 1
      /\ DOMAIN loaded = 1..Len(loaded) /\ Len(loaded) \in Nat
  BY CurrentType DEF Current
<1>4. ~(j > Current)
  BY <1>1, <1>2 DEF OrderInv, LoadsInOrder
<1>5. ~(j \in DOMAIN loaded)
  BY <1>2 DEF OrderInv, LoadsInOrder, CanLoad
<1>6. j = Current
  BY <1>2, <1>3, <1>4, <1>5
<1>7. /\ Way(j) /\ Base(j) \in Nat /\ Ends[j] = Base(j) + 1 + Sizes[j] /\ Sizes[j] \in Nat \ {0}
  BY <1>2, <1>6, CurrentWay, EndsFacts
<1>8. loaded' = Append(loaded, [by |-> m, file |-> j])
  BY DEF pd_create, CanLoad
<1> HIDE DEF j
<1>9. ~Stuck(Programs[j - 1], j)
  <2>1. ASSUME NEW q, Stuck(q, j) PROVE FALSE
    <3>1. q = m
      BY <1>1, <2>1 DEF Stuck, OthersQuiet
    <3> QED
      BY <1>1, <2>1, <3>1 DEF Stuck, Told, Has, Holds
  <2> QED
    BY <2>1
<1>11. Straight(m, j)
  BY <1>2, <1>7, <1>9 DEF Way
<1>12. Len(taken) = Ends[j]
  BY <1>1, <1>11 DEF Straight, HasPart
<1> QED
  BY <1>2, <1>6, <1>8, <1>11, <1>12 DEF j

\* The file is loaded and the next program, if there is one, gets the interrupt.
LEMMA CreateOrder ==
    ASSUME OrderInv, Current <= N, NEW m \in ProgramSet, pd_create(m), CanLoad(m)
    PROVE  LoadsInOrder' /\ InOrder' /\ (Lost' => Number(m) < N)
<1> DEFINE j == Number(m)
           child == Programs[j + 1]
<1>1. /\ program[m].at = "create" /\ ~Quiescent(m) /\ ~Holds(m)
      /\ loader'[m] = Fresh /\ \A q \in ProgramSet \ {m} : loader'[q] = loader[q]
      /\ sent' = sent /\ uart' = uart /\ pending' = pending /\ taken' = taken
  BY CreateFacts
<1>2. /\ j \in 1..N /\ j = Current /\ m = Programs[j]
      /\ Straight(m, j) /\ Len(taken) = Ends[j]
      /\ loaded' = Append(loaded, [by |-> m, file |-> j])
  BY LoadedFacts
<1>3. Len(Programs) = N /\ N \in Nat \ {0}
  BY SizesFacts DEF N
<1>4. /\ program \in [ProgramSet -> [at : Places, c : Nat]]
      /\ irq \in [masked : BOOLEAN, owner : ProgramSet]
      /\ loaded \in Seq([by : ProgramSet, file : Nat])
  BY DEF OrderInv, IInv, TypeOK
<1>5. IF j < N
      THEN irq' = HandOver(child) /\ program' = [program EXCEPT ![m].at = "idle", ![child].at = "idle"]
      ELSE irq' = irq /\ Goto(m, "idle")
  BY <1>3 DEF pd_create, CanLoad
<1> HIDE DEF j
<1>6. /\ Len(loaded') = j /\ DOMAIN loaded' = 1..j /\ Current' = j + 1
      /\ \A i \in 1..j : loaded'[i] = [by |-> Programs[i], file |-> i]
  <2>1. Len(loaded) = j - 1 /\ j - 1 \in Nat /\ DOMAIN loaded = 1..j - 1
    BY <1>2, <1>4 DEF Current
  <2>2. \A i \in 1..j - 1 : loaded[i] = [by |-> Programs[i], file |-> i]
    BY <2>1 DEF OrderInv, LoadsInOrder
  <2>3. [by |-> m, file |-> j] \in [by : ProgramSet, file : Nat]
    BY <1>2
  <2>4. /\ Len(loaded') = Len(loaded) + 1 /\ DOMAIN loaded' = 1..Len(loaded) + 1
        /\ \A i \in 1..Len(loaded) : loaded'[i] = loaded[i]
        /\ loaded'[Len(loaded) + 1] = [by |-> m, file |-> j]
    BY <1>2, <1>4, <2>3
  <2>5. /\ Len(loaded') = j /\ DOMAIN loaded' = 1..j
        /\ \A i \in 1..j - 1 : loaded'[i] = loaded[i]
        /\ loaded'[j] = [by |-> m, file |-> j]
    BY <1>2, <2>1, <2>4
  <2>6. \A i \in 1..j : i = j \/ i \in 1..j - 1
    BY <1>2
  <2> QED
    BY <1>2, <2>2, <2>5, <2>6 DEF Current
<1>9. /\ irq.owner = m /\ ~Lost /\ irq'.masked = irq.masked
      /\ m \notin pending => ~irq.masked
  <2>1. irq.owner = m /\ ~Lost
    BY <1>2 DEF OrderInv, LoadsInOrder, Straight
  <2>2. irq'.masked = irq.masked
    BY <1>4, <1>5 DEF HandOver
  <2> QED
    BY <1>1, <2>1, <2>2 DEF Lost, Handlers
<1>7. CASE j < N
  <2>1. j + 1 \in 1..N /\ j + 1 > Current /\ j + 1 # j
    BY <1>2, <1>3, <1>7
  <2>2. child \in ProgramSet /\ child # m
    BY <1>2, <2>1, InSet, Apart
  <2>3. program[child].at = "none" /\ child \notin pending /\ loader[child] = Fresh
    BY <2>1 DEF OrderInv, LoadsInOrder
  <2> HIDE DEF child
  <2>4. /\ program'[m].at = "idle" /\ program'[child].at = "idle"
        /\ \A q \in ProgramSet \ {m, child} : program'[q] = program[q]
    BY <1>4, <1>5, <1>7, <2>2
  <2>5. irq'.owner = child
    BY <1>4, <1>5, <1>7 DEF HandOver
  <2>6. LoadsInOrder'
    <3>1. \A i \in 1..N : i <= j + 1 => program'[Programs[i]].at # "none"
      <4> SUFFICES ASSUME NEW i \in 1..N, i <= j + 1 PROVE program'[Programs[i]].at # "none"
        OBVIOUS
      <4>1. i <= Current \/ i = j + 1
        BY <1>2
      <4>2. i <= Current => program[Programs[i]].at # "none"
        BY DEF OrderInv, LoadsInOrder
      <4>3. Programs[i] \in ProgramSet /\ (i = j + 1 => Programs[i] = child)
        BY InSet DEF child
      <4> QED
        BY <2>4, <4>1, <4>2, <4>3
    <3>2. ASSUME NEW i \in 1..N, i > j + 1
          PROVE  /\ program'[Programs[i]].at = "none" /\ Programs[i] \notin pending
                 /\ loader'[Programs[i]] = Fresh
      <4>1. i > Current /\ i # j /\ i # j + 1
        BY <1>2, <3>2
      <4>2. Programs[i] \in ProgramSet /\ Programs[i] # m /\ Programs[i] # child
        BY <1>2, <2>1, <4>1, InSet, Apart DEF child
      <4>3. program[Programs[i]].at = "none" /\ Programs[i] \notin pending /\ loader[Programs[i]] = Fresh
        BY <4>1 DEF OrderInv, LoadsInOrder
      <4> QED
        BY <1>1, <2>4, <4>2, <4>3
    <3>3. irq'.owner = Programs[IF Current' <= N THEN Current' ELSE N]
      BY <1>6, <2>1, <2>5 DEF child
    <3>4. Len(loaded') <= N /\ \A i \in DOMAIN loaded' : loaded'[i] = [by |-> Programs[i], file |-> i]
      BY <1>2, <1>3, <1>6, <1>7
    <3> QED
      BY <1>1, <1>6, <3>1, <3>2, <3>3, <3>4, Zenon DEF LoadsInOrder
  <2>7. Base(j + 1) = Len(taken) /\ Ends[j + 1] > Len(taken) /\ Len(taken) \in Nat
    <3>1. j \in 1..N - 1
      BY <1>2, <1>3, <1>7
    <3>2. Base(j + 1) = Ends[j]
      BY <3>1, EndsFacts
    <3>3. Base(j + 1) \in Nat /\ Ends[j + 1] = Base(j + 1) + 1 + Sizes[j + 1] /\ Sizes[j + 1] \in Nat
      BY <2>1, EndsFacts
    <3>4. Ends[j + 1] > Base(j + 1)
      BY <3>3
    <3> QED
      BY <1>2, <3>2, <3>3, <3>4
  <2>8. /\ \A q \in ProgramSet \ {m, child} : Quiescent(q)'
        /\ Quiescent(child)' /\ (m \notin pending => Quiescent(m)')
    BY <1>1, <1>2, <2>3, <2>4 DEF Straight, OthersQuiet, Quiescent
  <2>9. InSequence'
    BY <1>1, <1>2 DEF Straight, InSequence
  <2>10. loader'[child] = Fresh
    BY <1>1, <2>2, <2>3
  <2>11. sent = Len(taken) + Here(uart.data # Empty)
    BY <1>1, <1>2, <2>7 DEF Straight, OnItsWay, Here
  <2>12. CASE m \notin pending
    <3>1. OthersQuiet(child)'
      BY <2>8, <2>12 DEF OthersQuiet
    <3>2. HasPart(child, j + 1)'
      <4>1. Len(taken) \in Base(j + 1)..Ends[j + 1] /\ ~(Len(taken) > Base(j + 1)) /\ Len(taken) # Ends[j + 1]
        <5>1. Ends[j + 1] \in Nat
          BY <2>1, EndsFacts
        <5> QED
          BY <2>7, <5>1
      <4> QED
        BY <1>1, <2>4, <2>10, <4>1 DEF HasPart
    <3>3. OnItsWay(child)'
      <4>1. ~Holds(child)'
        BY <2>4 DEF Holds
      <4>2. Here(Holds(child))' = 0 /\ Here(uart.data # Empty)' = Here(uart.data # Empty)
        BY <1>1, <4>1 DEF Here
      <4>3. Here(uart.data # Empty) \in Nat
        BY DEF Here
      <4> QED
        BY <1>1, <2>7, <2>11, <4>1, <4>2, <4>3 DEF OnItsWay
    <3>4. Straight(child, j + 1)'
      <4>1. ~Lost'
        BY <1>9, <2>12 DEF Lost
      <4> QED
        BY <2>9, <3>1, <3>2, <3>3, <4>1 DEF Straight
    <3>5. Current' <= N
      BY <1>6, <2>1
    <3> QED
      BY <1>6, <1>7, <2>6, <3>4, <3>5 DEF InOrder, Way, child, j
  <2>13. CASE m \in pending
    <3>1. OthersQuiet(m)'
      BY <2>8 DEF OthersQuiet
    <3>2. uart.data # Empty
      BY <2>13 DEF OrderInv, IInv, Handling
    <3>3. sent' = Base(j + 1) + 1
      BY <1>1, <2>7, <2>11, <3>2 DEF Here
    <3>7. Told(m, j + 1)'
      BY <1>1, <2>4, <2>7, <2>13, <3>2, <3>3 DEF Told
    <3>8. hurried'
      <4>1. sent > Base(j + 1) /\ Current < j + 1
        BY <1>1, <1>2, <2>7, <3>3
      <4> QED
        BY <2>1, <4>1 DEF OrderInv, Hurry, pd_create
    <3>9. Lost'
      <4>1. irq'.masked
        <5>1. m \in Handlers
          BY <2>13 DEF Handlers
        <5> QED
          BY <1>9, <5>1 DEF OrderInv, IInv, Handling
      <4>2. child \notin Handlers'
        BY <1>1, <2>3, <2>4 DEF Handlers
      <4> QED
        BY <2>5, <4>1, <4>2 DEF Lost
    <3>4. Stuck(m, j + 1)'
      BY <3>1, <3>7, <3>8, <3>9 DEF Stuck
    <3>5. j + 1 > 1 /\ (j + 1) - 1 = j
      BY <1>2
    <3>6. Way(j + 1)'
      BY <1>2, <3>4, <3>5 DEF Way
    <3>10. Current' <= N
      BY <1>6, <2>1
    <3> QED
      BY <1>6, <1>7, <2>6, <3>6, <3>10 DEF InOrder, j
  <2> QED
    BY <2>12, <2>13
<1>8. CASE j = N
  <2>1. irq' = irq /\ Goto(m, "idle")
    BY <1>3, <1>5, <1>8
  <2>2. /\ program'[m].at = "idle"
        /\ \A q \in ProgramSet \ {m} : program'[q] = program[q]
    BY <2>1, GotoFacts DEF OrderInv, IInv, Places
  <2>3. InOrder' /\ ~Lost'
    <3>1. ~(Current' <= N)
      BY <1>3, <1>6, <1>8
    <3>2. Here(uart.data # Empty) \in {0, 1} /\ (Here(uart.data # Empty) = 0 <=> uart.data = Empty)
      BY DEF Here
    <3>3. sent = Total + Here(uart.data # Empty) /\ sent <= Total /\ Total \in Nat
      <4>1. Here(Holds(m)) = 0 /\ Len(taken) = Total
        BY <1>1, <1>2, <1>8, EndsFacts DEF Here
      <4>2. sent = Len(taken) + Here(Holds(m)) + Here(uart.data # Empty)
        BY <1>2 DEF Straight, OnItsWay
      <4>3. sent <= Total /\ Total \in Nat
        BY EndsFacts DEF OrderInv, Line
      <4> QED
        BY <3>2, <4>1, <4>2, <4>3
    <3>4. uart.data = Empty /\ sent = Total
      BY <3>2, <3>3
    <3>5. pending = {}
      BY <3>4 DEF OrderInv, IInv, TypeOK, Handling
    <3>6. ~Lost'
      BY <1>9, <3>5 DEF Lost
    <3>7. \A q \in ProgramSet : Quiescent(q)'
      BY <1>1, <1>2, <2>2, <3>5 DEF Straight, OthersQuiet, Quiescent
    <3>8. Done'
      BY <1>1, <3>4, <3>6, <3>7 DEF Done
    <3> QED
      BY <3>1, <3>6, <3>8 DEF InOrder
  <2>4. irq.owner = Programs[N]
    BY <1>2, <1>3, <1>8 DEF OrderInv, LoadsInOrder
  <2>5. \A i \in 1..N : program'[Programs[i]].at # "none"
    <3> TAKE i \in 1..N
    <3>1. i <= Current
      BY <1>2, <1>3, <1>8
    <3>2. program[Programs[i]].at # "none" /\ Programs[i] \in ProgramSet
      BY <3>1, InSet DEF OrderInv, LoadsInOrder
    <3> QED
      BY <2>2, <3>2
  <2>6. \A i \in 1..N : ~(i > Current')
    BY <1>3, <1>6, <1>8
  <2>7. Programs[IF Current' <= N THEN Current' ELSE N] = Programs[N]
    <3>1. ~(Current' <= N)
      BY <1>3, <1>6, <1>8
    <3> QED
      BY <3>1
  <2>8. Len(loaded') <= N /\ \A i \in DOMAIN loaded' : loaded'[i] = [by |-> Programs[i], file |-> i]
    BY <1>3, <1>6, <1>8
  <2>9. LoadsInOrder'
    BY <2>1, <2>4, <2>5, <2>6, <2>7, <2>8, Zenon DEF LoadsInOrder
  <2> QED
    BY <2>3, <2>9
<1> QED
  BY <1>2, <1>3, <1>7, <1>8 DEF j

\* What is created is always the current file as it was sent.
LEMMA AlwaysLoads ==
    ASSUME OrderInv, Current <= N, NEW m \in ProgramSet, pd_create(m)
    PROVE  CanLoad(m)
<1>1. program[m].at = "create" /\ ~Quiescent(m) /\ ~Holds(m)
  BY CreateFacts
<1> DEFINE k == Current
           p == Programs[k]
<1>2. k \in 1..N
  BY CurrentType, SizesFacts
<1>3. /\ Way(k) /\ p \in ProgramSet /\ Number(p) = k
      /\ Base(k) \in Nat /\ Ends[k] \in Nat /\ Ends[k] > Base(k) /\ Len(taken) \in Nat
      /\ Ends[k] = Base(k) + 1 + Sizes[k] /\ Sizes[k] \in Nat \ {0}
  BY <1>2, CurrentWay, EndsFacts, InSet
<1>4. \A i \in DOMAIN loaded : loaded[i].by # p
  <2> TAKE i \in DOMAIN loaded
  <2>1. i \in 1..N /\ i # k
    BY CurrentType, SizesFacts DEF Current, OrderInv, LoadsInOrder
  <2>2. loaded[i].by = Programs[i]
    BY DEF OrderInv, LoadsInOrder
  <2> QED
    BY <1>2, <2>1, <2>2, Apart
<1>5. ASSUME NEW q, Stuck(q, k) PROVE FALSE
  BY <1>1, <1>5 DEF Stuck, Told, Has, OthersQuiet
<1>6. Straight(p, k)
  BY <1>3, <1>5 DEF Way
<1> HIDE DEF k, p
<1>7. p = m
  BY <1>1, <1>6 DEF Straight, OthersQuiet
<1>8. Len(taken) = Ends[k] /\ Len(taken) > Base(k)
  BY <1>1, <1>3, <1>6, <1>7 DEF Straight, HasPart
<1>9. loader[p].got = [i \in 1..Len(taken) - Base(k) - 1 |-> Base(k) + 1 + i]
  <2>1. loader[p] = [size |-> Sizes[k], junk |-> FALSE,
                     got |-> [i \in 1..Len(taken) - Base(k) - 1 |-> Base(k) + 1 + i]]
    BY <1>6, <1>8 DEF Straight, HasPart
  <2> QED
    BY <2>1
<1>10. Len(taken) - Base(k) - 1 = Sizes[k] /\ Ends[k] - Sizes[k] = Base(k) + 1
  BY <1>3, <1>8
<1>11. IsFile(loader[p].got, k)
  BY <1>9, <1>10 DEF IsFile
<1> QED
  BY <1>3, <1>4, <1>7, <1>11 DEF CanLoad

LEMMA pd_createOrder ==
    ASSUME OrderInv, Current <= N, NEW m \in ProgramSet, pd_create(m)
    PROVE  LoadsInOrder' /\ Line' /\ InOrder'
BY CreateFacts, CreateOrder, AlwaysLoads

LEMMA NextOrder == OrderInv /\ [Next]_vars => OrderInv'
<1> SUFFICES ASSUME OrderInv, [Next]_vars PROVE OrderInv'
  OBVIOUS
<1>1. IInv' /\ Hurry'
  BY NextIInv, HurryStep DEF OrderInv
<1>2. ASSUME NEW p \in ProgramSet, Program(p), Current <= N PROVE LoadsInOrder' /\ Line' /\ InOrder'
  <2>1. CASE uart_init(p) \/ notified(p) \/ uart_handle_irq(p) \/ irq_ack(p)
    BY <1>2, <2>1, uart_initOrder, notifiedOrder, uart_handle_irqOrder, irq_ackOrder, MovesOrder
  <2>2. CASE uart_get_char(p)
    BY <1>2, <2>2, uart_get_charOrder
  <2>3. CASE elf_loader_handle_input(p)
    BY <1>2, <2>3, elf_loader_handle_inputOrder
  <2>4. CASE pd_create(p)
    BY <1>2, <2>4, pd_createOrder
  <2> QED
    BY <1>2, <2>1, <2>2, <2>3, <2>4 DEF Program
<1>3. ASSUME UNCHANGED vars PROVE LoadsInOrder' /\ Line' /\ InOrder'
  <2>1. /\ sent' = sent /\ uart' = uart /\ irq' = irq /\ pending' = pending /\ program' = program
        /\ loader' = loader /\ taken' = taken /\ loaded' = loaded
    BY <1>3 DEF vars
  <2>2. LoadsInOrder'
    BY <2>1, LoadsKept
  <2>3. Line'
    BY <2>1 DEF Line, OrderInv
  <2>4. InOrder'
    <3>1. hurried' = hurried /\ Current' = Current /\ (Lost' <=> Lost)
      BY <1>3 DEF vars, Current, Lost, Handlers
    <3>2. \A p : (Quiescent(p)' <=> Quiescent(p)) /\ (Holds(p)' <=> Holds(p))
      BY <2>1 DEF Quiescent, Holds
    <3>3. \A p : OthersQuiet(p)' <=> OthersQuiet(p)
      BY <3>2 DEF OthersQuiet
    <3>4. \A p, k : Straight(p, k) => Straight(p, k)'
      BY <2>1, <3>1, <3>2, <3>3 DEF Straight, InSequence, HasPart, OnItsWay, Here
    <3>5. \A q, k : Stuck(q, k) => Stuck(q, k)'
      BY <2>1, <3>1, <3>2, <3>3 DEF Stuck, Told, Has
    <3>6. \A k : Way(k) => Way(k)'
      BY <3>4, <3>5 DEF Way
    <3>7. Done => Done'
      BY <2>1, <3>1, <3>2 DEF Done
    <3> QED
      BY <3>1, <3>6, <3>7 DEF OrderInv, InOrder
  <2> QED
    BY <2>2, <2>3, <2>4
<1>4. LoadsInOrder' /\ Line' /\ InOrder'
  BY <1>2, <1>3, ReceiveOrder, DeliverOrder, Busy DEF Next
<1> QED
  BY <1>1, <1>4 DEF OrderInv

\* The interrupt is lost exactly when the current file has come too early.
LEMMA OrderOneHandler == OrderInv => OneHandler
<1> SUFFICES ASSUME OrderInv, Lost PROVE hurried
  BY DEF OrderInv, IInv, Single, OneHandler
<1>1. Current <= N /\ Way(Current)
  BY DEF OrderInv, InOrder, Done
<1> QED
  BY <1>1 DEF Way, Straight, Stuck

\* One program at a time handles the UART, whatever is sent and however the interrupt
\* changes hands, and the interrupt is lost to its owner only if a file was sent before the
\* one before it had been loaded (sel4cp.h:318, 328, 1034).
THEOREM AlwaysOneHandler == Spec => []OneHandler
<1>1. Init => OrderInv
  BY InitOrder
<1>2. OrderInv /\ [Next]_vars => OrderInv'
  BY NextOrder
<1> QED
  BY <1>1, <1>2, OrderOneHandler, PTL DEF Spec

(***************************************************************************)
(* FileTransfer, step by step.                                             *)
(***************************************************************************)
LEMMA TakeStep ==
    ASSUME OrderInv, Current <= N, NEW m \in ProgramSet, elf_loader_handle_input(m)
    PROVE  Transfer!Take
<1> DEFINE k == Current
<1>1. /\ Len(taken') = Len(taken) + 1 /\ Len(taken) \in Nat /\ loaded' = loaded
      /\ program[m].at = "input" /\ ~Quiescent(m)
  BY InputFacts
<1>2. k \in 1..N /\ k = Len(loaded) + 1 /\ Len(loaded) \in Nat
  BY CurrentType, SizesFacts DEF Current
<1>3. Way(k) /\ Base(k) \in Nat /\ Ends[k] \in Nat /\ Ends[k] > Base(k)
  BY <1>2, CurrentWay
<1>4. Lost' = Lost
  <2>1. Handlers' = Handlers
    BY <1>1, InputFacts, HandlersKept DEF OrderInv
  <2>2. irq' = irq
    BY InputFacts
  <2> QED
    BY <2>1, <2>2 DEF Lost
<1>5. Len(taken) < Ends[k] /\ (Lost => k > 1 /\ Len(taken) = Base(k))
  <2>1. CASE Straight(Programs[k], k)
    <3>1. Programs[k] = m
      BY <1>1, <2>1 DEF Straight, OthersQuiet
    <3> QED
      BY <1>1, <1>3, <2>1, <3>1 DEF Straight, HasPart
  <2>2. CASE k > 1 /\ Stuck(Programs[k - 1], k)
    <3>1. Programs[k - 1] = m
      BY <1>1, <2>2 DEF Stuck, OthersQuiet
    <3>2. Len(taken) = Base(k)
      BY <1>1, <2>2, <3>1 DEF Stuck, Told, Has
    <3> QED
      BY <1>3, <2>2, <3>2
  <2> QED
    BY <1>3, <2>1, <2>2 DEF Way
<1>6. k > 1 => Base(k) = Ends[Len(loaded)]
  <2> SUFFICES ASSUME k > 1 PROVE Base(k) = Ends[Len(loaded)]
    OBVIOUS
  <2>1. Len(loaded) \in 1..N - 1 /\ Len(loaded) + 1 = k
    BY <1>2, SizesFacts
  <2> QED
    BY <2>1, EndsFacts
<1>7. Len(loaded) + 1 <= Len(Programs)
  BY <1>2 DEF N
<1> HIDE DEF k
<1>8. Lost => Len(taken) = Ends[Len(loaded)]
  BY <1>5, <1>6
<1> QED
  BY <1>1, <1>2, <1>4, <1>5, <1>7, <1>8 DEF Transfer!Take, Transfer!Due

LEMMA LoadStep ==
    ASSUME OrderInv, Current <= N, NEW m \in ProgramSet, pd_create(m)
    PROVE  Transfer!Load
<1> DEFINE j == Number(m)
<1>1. /\ j \in 1..N /\ j = Len(loaded) + 1 /\ m = Programs[j] /\ Len(taken) = Ends[j]
      /\ loaded' = Append(loaded, [by |-> m, file |-> j]) /\ ~Lost
  BY LoadedFacts, AlwaysLoads DEF Current, Straight
<1>2. taken' = taken /\ Len(loaded) \in Nat /\ N \in Nat /\ Len(Programs) = N
  BY CreateFacts, CurrentType, SizesFacts DEF N
<1>3. Lost' => j < N
  BY CreateOrder, AlwaysLoads
<1>4. Lost' \in BOOLEAN
  BY DEF OrderInv, IInv, Lost
<1> HIDE DEF j
<1>5. Lost' \in {FALSE, Len(loaded) + 1 < Len(Programs)}
  <2>1. CASE Lost'
    BY <1>1, <1>2, <1>3, <2>1
  <2>2. CASE ~Lost'
    BY <1>4, <2>2
  <2> QED
    BY <2>1, <2>2
<1>6. /\ Len(loaded) + 1 <= Len(Programs) /\ Len(taken) = Ends[Len(loaded) + 1]
      /\ loaded' = Append(loaded, [by |-> Programs[Len(loaded) + 1], file |-> Len(loaded) + 1])
      /\ Len(taken)' = Len(taken) /\ ~Lost
  BY <1>1, <1>2
<1> QED
  BY <1>5, <1>6, Zenon DEF Transfer!Load, Transfer!Due

LEMMA StepTransfer ==
    ASSUME OrderInv, [Next]_vars
    PROVE  [Transfer!Next]_<<Len(taken), loaded, Lost>>
<1>1. ASSUME NEW p \in ProgramSet, Program(p), Current <= N
      PROVE  [Transfer!Next]_<<Len(taken), loaded, Lost>>
  <2>1. CASE uart_init(p) \/ notified(p) \/ uart_handle_irq(p) \/ irq_ack(p)
    <3>1. taken' = taken /\ loaded' = loaded
      BY <2>1 DEF uart_init, notified, uart_handle_irq, irq_ack
    <3>2. Lost' = Lost
      <4>1. Lost' <=> Lost
        BY <2>1, uart_initOrder, notifiedOrder, uart_handle_irqOrder, irq_ackOrder DEF Moves
      <4> QED
        BY <4>1 DEF Lost
    <3> QED
      BY <3>1, <3>2
  <2>2. CASE uart_get_char(p)
    <3>1. /\ program[p].at = "read" /\ taken' = taken /\ loaded' = loaded
          /\ pending' = pending /\ irq' = irq
          /\ program' = [program EXCEPT ![p] = [at |-> "ack", c |-> uart.data]]
      BY <2>2 DEF uart_get_char
    <3>2. Handlers' = Handlers
      BY <3>1 DEF OrderInv, IInv, TypeOK, Handlers
    <3> QED
      BY <3>1, <3>2 DEF Lost
  <2>3. CASE elf_loader_handle_input(p)
    BY <1>1, <2>3, TakeStep DEF Transfer!Next
  <2>4. CASE pd_create(p)
    BY <1>1, <2>4, LoadStep DEF Transfer!Next
  <2> QED
    BY <1>1, <2>1, <2>2, <2>3, <2>4 DEF Program
<1>2. CASE Receive \/ UNCHANGED vars
  <2>1. /\ taken' = taken /\ loaded' = loaded /\ irq' = irq /\ pending' = pending
        /\ program' = program
    BY <1>2 DEF Receive, vars
  <2> QED
    BY <2>1 DEF Lost, Handlers
<1>3. CASE Deliver
  <2>1. taken' = taken /\ loaded' = loaded
    BY <1>3 DEF Deliver
  <2>2. Lost' = Lost
    <3>1. ~Lost /\ ~Lost'
      BY <1>3, DeliverLost DEF OrderInv
    <3> QED
      BY <3>1 DEF Lost
  <2> QED
    BY <2>1, <2>2
<1> QED
  BY <1>1, <1>2, <1>3, Busy DEF Next

\* For any number of programs, files of any size and a sender of any speed, the items of the
\* files are taken one by one, and the only file that is ever loaded is the one that is due,
\* when its last item and none of the next file has been taken, by the program that it is
\* for; once the interrupt is lost at most one size line is still taken and nothing is loaded
\* (root.c:30-42, child.c:29-41, elf_loader.h, sel4cp.h:318, 328, 1034): the steps of
\* TransferImplemented, without its fairness.
THEOREM ImplementsTransfer ==
    Spec => Transfer!Init /\ [][Transfer!Next]_<<Len(taken), loaded, Lost>>
<1>1. Init => OrderInv
  BY InitOrder
<1>2. Init => Transfer!Init
  BY DEF Init, Lost, Transfer!Init
<1>3. OrderInv /\ [Next]_vars => OrderInv'
  BY NextOrder
<1>4. OrderInv /\ [Next]_vars => [Transfer!Next]_<<Len(taken), loaded, Lost>>
  BY StepTransfer
<1> QED
  BY <1>1, <1>2, <1>3, <1>4, PTL DEF Spec
=============================================================================

---------------------------- MODULE UartTransfer ----------------------------
(***************************************************************************)
(* A file comes in over the serial line, one interrupt per character:      *)
(* load_program.sh writes it, the UART holds one character at a time, its  *)
(* interrupt is turned into a notification of the program that owns it,    *)
(* and that program (root.c or child.c) clears the interrupt, reads the    *)
(* character (uart.h), acknowledges the interrupt and gives the character  *)
(* to its loader (elf_loader.h).  A program that has received a file       *)
(* starts it as the next program, which owns the interrupt from then on.   *)
(*                                                                         *)
(* The size line is one item here, as is each byte: ElfLoader has the      *)
(* characters of the line.                                                 *)
(***************************************************************************)
EXTENDS Integers, Sequences, FiniteSets

CONSTANTS Programs,     \* the programs in the order in which they own the interrupt
          Sizes         \* the sizes of the files that are sent, one to each of them

ASSUME UartAssumption ==
    /\ Len(Programs) \in Nat \ {0}
    /\ DOMAIN Programs = 1..Len(Programs)
    /\ Sizes \in Seq(Nat \ {0}) /\ Len(Sizes) = Len(Programs)
    /\ \A i, j \in DOMAIN Programs : Programs[i] = Programs[j] => i = j

VARIABLES sent,         \* how many items the sender has got rid of
          uart,         \* the receive register, its interrupt status and mask
          irq,          \* whether the kernel has the interrupt masked, and whose it is
          pending,      \* the programs that the interrupt has been signalled to
          program,      \* where each program is in notified(), and the character it has read
          loader,       \* the state of its loader
          taken,        \* the items that have been given to loaders
          loaded,       \* the files that have been loaded
          hurried       \* history: whether a file was sent before the last one was loaded

vars == <<sent, uart, irq, pending, program, loader, taken, loaded, hurried>>

ProgramSet == {Programs[k] : k \in DOMAIN Programs}
Number(p) == CHOOSE k \in DOMAIN Programs : Programs[k] = p

(***************************************************************************)
(* Items are numbered from 1 on.  An empty register reads as item 0.       *)
(***************************************************************************)
Ends == LET End[k \in 0..Len(Sizes)] == IF k = 0 THEN 0 ELSE End[k - 1] + 1 + Sizes[k]
        IN  [k \in 1..Len(Sizes) |-> End[k]]
Total == Ends[Len(Sizes)]
File(item) == CHOOSE k \in 1..Len(Sizes) : item <= Ends[k] /\ item > Ends[k] - 1 - Sizes[k]
IsSizeLine(item) == item # 0 /\ item = Ends[File(item)] - Sizes[File(item)]
Empty == 0

Init ==
    /\ sent = 0
    /\ uart = [data |-> Empty, status |-> FALSE, mask |-> FALSE]
    /\ irq = [masked |-> FALSE, owner |-> Programs[1]]
    /\ pending = {}
    /\ program = [p \in ProgramSet |-> [at |-> IF p = Programs[1] THEN "init" ELSE "none",
                                      c |-> Empty]]
    /\ loader = [p \in ProgramSet |-> [size |-> 0, got |-> <<>>, junk |-> FALSE]]
    /\ taken = <<>>
    /\ loaded = <<>>
    /\ hurried = FALSE

(***************************************************************************)
(* The sender, the UART and the kernel.                                    *)
(***************************************************************************)

\* The line is held back until the receive register is empty.  Nothing keeps the sender
\* from beginning the next file before the last one has been reported as loaded.
Receive ==
    /\ sent < Total
    /\ uart.data = Empty
    /\ hurried' = (hurried \/ (IsSizeLine(sent + 1) /\ Len(loaded) < File(sent + 1) - 1))
    /\ sent' = sent + 1
    /\ uart' = [uart EXCEPT !.data = sent + 1, !.status = TRUE]
    /\ UNCHANGED <<irq, pending, program, loader, taken, loaded>>

\* The kernel masks an interrupt that it delivers, until it is acknowledged.
Deliver ==
    /\ uart.status /\ uart.mask
    /\ ~irq.masked
    /\ irq' = [irq EXCEPT !.masked = TRUE]
    /\ pending' = pending \cup {irq.owner}
    /\ UNCHANGED <<sent, uart, program, loader, taken, loaded, hurried>>

(***************************************************************************)
(* The programs.                                                           *)
(***************************************************************************)
Goto(p, place) == program' = [program EXCEPT ![p].at = place]

uart_init(p) ==
    /\ program[p].at = "init"
    /\ uart' = [uart EXCEPT !.mask = TRUE]
    /\ Goto(p, "idle")
    /\ UNCHANGED <<sent, irq, pending, loader, taken, loaded, hurried>>

notified(p) ==
    /\ program[p].at = "idle"
    /\ p \in pending
    /\ pending' = pending \ {p}
    /\ Goto(p, "clear")
    /\ UNCHANGED <<sent, uart, irq, loader, taken, loaded, hurried>>

uart_handle_irq(p) ==
    /\ program[p].at = "clear"
    /\ uart' = [uart EXCEPT !.status = FALSE]
    /\ Goto(p, "read")
    /\ UNCHANGED <<sent, irq, pending, loader, taken, loaded, hurried>>

\* In place of uart_get_char: reading is left to the next interrupt.
Baduart_get_char(p) ==
    /\ program[p].at = "read"
    /\ program' = [program EXCEPT ![p] = [at |-> "ack", c |-> uart.data]]
    /\ UNCHANGED <<sent, uart, irq, pending, loader, taken, loaded, hurried>>

\* Reading the register takes the interrupt status back with it.
uart_get_char(p) ==
    /\ program[p].at = "read"
    /\ program' = [program EXCEPT ![p] = [at |-> "ack", c |-> uart.data]]
    /\ uart' = [uart EXCEPT !.data = Empty, !.status = FALSE]
    /\ UNCHANGED <<sent, irq, pending, loader, taken, loaded, hurried>>

\* In place of irq_ack: the acknowledgement is forgotten after the size line.
Badirq_ack(p) ==
    /\ program[p].at = "ack"
    /\ irq' = [irq EXCEPT !.masked = program[p].c = 1]
    /\ Goto(p, "input")
    /\ UNCHANGED <<sent, uart, pending, loader, taken, loaded, hurried>>

\* A program that has handed the interrupt on has no handler in its slot any more: the kernel
\* refuses its acknowledgement, and sel4cp_irq_ack drops the error.
irq_ack(p) ==
    /\ program[p].at = "ack"
    /\ irq' = IF irq.owner = p THEN [irq EXCEPT !.masked = FALSE] ELSE irq
    /\ Goto(p, "input")
    /\ UNCHANGED <<sent, uart, pending, loader, taken, loaded, hurried>>

\* While no size is known, bytes of a file spoil the size line that they are taken for.
\* Afterwards everything is a byte of the file.
Next_loader(l, c) ==
    IF l.size = 0
    THEN CASE ~IsSizeLine(c) -> [l EXCEPT !.junk = TRUE]
           [] IsSizeLine(c) /\ l.junk -> [l EXCEPT !.junk = FALSE]
           [] OTHER -> [size |-> Sizes[File(c)], got |-> <<>>, junk |-> FALSE]
    ELSE [l EXCEPT !.got = Append(@, c)]

Complete(l) == l.size # 0 /\ Len(l.got) = l.size

elf_loader_handle_input(p) ==
    LET c == program[p].c
        l == Next_loader(loader[p], c)
    IN  /\ program[p].at = "input"
        /\ loader' = [loader EXCEPT ![p] = l]
        /\ taken' = Append(taken, c)
        /\ Goto(p, IF Complete(l) THEN "create" ELSE "idle")
        /\ UNCHANGED <<sent, uart, irq, pending, loaded, hurried>>

\* sel4cp_pd_create: a file that is not one as it was sent cannot be started, and neither can
\* a second program with the id of the first: its slots are taken.  One that can be started
\* gets the interrupt.
IsFile(got, k) == got = [i \in 1..Sizes[k] |-> Ends[k] - Sizes[k] + i]

\* In place of HandOver: the interrupt is acknowledged for the child as well.
BadHandOver(child) == [owner |-> child, masked |-> FALSE]
\* Neither IRQHandler_SetNotification nor moving the handler acknowledges the interrupt.
HandOver(child) == [irq EXCEPT !.owner = child]

pd_create(p) ==
    /\ program[p].at = "create"
    /\ loader' = [loader EXCEPT ![p] = [size |-> 0, got |-> <<>>, junk |-> FALSE]]
    /\ IF IsFile(loader[p].got, Number(p)) /\ \A i \in DOMAIN loaded : loaded[i].by # p
       THEN /\ loaded' = Append(loaded, [by |-> p, file |-> Number(p)])
            /\ IF Number(p) < Len(Programs)
               THEN LET child == Programs[Number(p) + 1]
                    IN  /\ irq' = HandOver(child)
                        /\ program' = [program EXCEPT ![p].at = "idle", ![child].at = "idle"]
               ELSE irq' = irq /\ Goto(p, "idle")
       ELSE loaded' = loaded /\ irq' = irq /\ Goto(p, "idle")
    /\ UNCHANGED <<sent, uart, pending, taken, hurried>>

Program(p) == \/ uart_init(p) \/ notified(p) \/ uart_handle_irq(p) \/ uart_get_char(p)
              \/ irq_ack(p) \/ elf_loader_handle_input(p) \/ pd_create(p)

Next == Receive \/ Deliver \/ \E p \in ProgramSet : Program(p)

\* The sender and the emulated UART go on by themselves, and so do the kernel and every
\* program: nothing of higher priority runs for ever.
Fairness == /\ WF_vars(Receive) /\ WF_vars(Deliver)
            /\ \A p \in ProgramSet : WF_vars(Program(p))

Spec == Init /\ [][Next]_vars /\ Fairness

(***************************************************************************)
(* Properties.                                                             *)
(***************************************************************************)
Handlers == {p \in ProgramSet : p \in pending \/ program[p].at \in {"clear", "read", "ack"}}

\* The interrupt is masked, and the program that could acknowledge it does not know of it.
Lost == irq.masked /\ irq.owner \notin Handlers

Transfer == INSTANCE FileTransfer WITH
    Receivers <- Programs,
    taken <- Len(taken),
    lost <- Lost

\* Items are taken one by one, each file is loaded when its last item has been taken, by the
\* program that it is for and after the file before it.  Every file is loaded in the end,
\* unless the interrupt of a file's size line has gone to the program before: that one takes
\* the line, its acknowledgement is refused (sel4cp.h:1034 after :328), and nothing is taken
\* or loaded ever again.
TransferImplemented == Transfer!Spec

Held(p) == IF program[p].at \in {"ack", "input"} THEN {program[p].c} ELSE {}
InHands == UNION {Held(p) : p \in ProgramSet}
Taken == {taken[i] : i \in DOMAIN taken}

\* However fast the sender is and whoever owns the interrupt, every item that has been sent
\* is in the register, in the hands of one program, or has been taken once; no item is lost,
\* read twice or made up between the line and the loaders (uart.h:20, root.c:32-36).
TakenOnce ==
    /\ 1..sent = Taken \cup InHands \cup ({uart.data} \ {Empty})
    /\ uart.data \notin Taken \cup InHands
    /\ \A p \in ProgramSet : Held(p) \cap Taken = {}
    /\ \A p, q \in ProgramSet : p # q => Held(p) \cap Held(q) = {}
    /\ \A i, j \in DOMAIN taken : taken[i] = taken[j] => i = j

\* The two programs never have the UART between them: from the interrupt to its
\* acknowledgement there is one handler, also while the interrupt changes hands
\* (uart.h:46, root.c:32-34, child.c:31-33, sel4cp.h:318).  It is lost to its owner only if
\* a file was sent before the one before it had been loaded: nothing else that the programs
\* and pd_create do leaves it masked for good.
OneHandler ==
    /\ \A p, q \in Handlers : p = q
    /\ Lost => hurried
=============================================================================

# A TLA+ development of the seL4CP proof of concept

The repository extends the seL4 Core Platform (seL4CP) with protection domains
(PDs) that are created while the system runs. A PD with the right to do so takes
an ELF file that arrives over the UART, builds a new PD from kernel objects it
holds in reserve, gives it the access rights that a table in the file asks for, and
starts it. This directory models that mechanism, checks it with TLC and proves
parts of it with TLAPS. `sel4cp.h` below is
`sel4cp-sdk-1.2.6/board/qemu_arm_virt/debug/include/sel4cp.h`.

## The system

| part | state | operations | works with |
|---|---|---|---|
| ELF receiver, `elf_loader.h` | announced size, size line, buffer and position | `elf_loader_handle_input` per character | called by `root.c`, `child.c` |
| PD creation, `sel4cp.h:191-1350` | `alloc_state`: one index per pool; everything else is kernel state | `sel4cp_pd_create` | invokes the kernel through the CSpace of its PD |
| CSpace layout, `sel4cp.h:34-72` | none | arithmetic on slot numbers | everything that names a capability |
| seL4 kernel | CSpaces, TCBs, scheduling contexts, VSpaces, IRQ target | invocations | not in the repository |
| loader programs, `root.c`, `child.c` | those of the receiver and of pd_create | `init`, `notified`, `fault` | UART, receiver, `sel4cp_pd_create` |
| UART driver, `uart.h` | device registers | `uart_init`, `uart_handle_irq`, `uart_get_char` | called by the loader programs |
| `pong.c`, `memory_reader.c` | none | `init`, `notified` | channels, shared memory |
| event loop, `libsel4cp.a` | none known | dispatches badges to `notified` | binary only |
| sender, `load_program.sh` | none | writes the size line, then the file | UART |
| invocation stubs, `interfaces/sel4_client.h` | the IPC buffer | 85 stubs: marshal, call, unmarshal | every invocation in `sel4cp.h` |
| system call wrappers, `sel4/arch/syscalls.h` | the IPC buffer, registers | `seL4_Send`, `seL4_Recv`, `seL4_Call`, ... | the stubs, the event loop, `sel4cp_notify`, `sel4cp_ppcall` |
| bit field accessors, `shared_types_gen.h`, `types_gen.h` | the words of a value | `_new`, `_get_`, `_set_`, by value and by pointer | message infos, rights, faults |
| fault messages, `faults.h`, `constants.h` | the IPC buffer | `seL4_getFault`, `seL4_TimeoutReply_new` | `fault()` of a program |
| access right patcher (wheel) | none | writes the table into an ELF file | its table is read by `sel4cp.h:647` and `:883` |
| `configuration.system`, the `sel4cp` tool | none at run time | creates the static PDs, the pools and the initial CSpaces | initial state of the system |

**How they interact.** A UART interrupt signals the notification of the PD that
the IRQ handler object names; its event loop calls `notified`, which clears the
interrupt, reads one character, acknowledges, and passes the character on to the
receiver. When the receiver returns a file, `sel4cp_pd_create(id, file)` runs to its
end inside the same call. The files of the repository make a chain: `root_domain`
(id 0) loads `child` (id 1), handing it the interrupt, a share of its pools and a
channel to `pong` (id 2); the child then loads `memory_reader` (id 5).

**What is hard here.** The kernel objects are handed out by index and never
taken back, so a wrong index or a failed call can alias two PDs. The slots of a
CSpace are computed by addition. One call of `pd_create` makes dozens of invocations
on two CSpaces, any of which may be refused, with no roll-back. Loaders run
concurrently: a loaded loader may be created while a PD with a channel to it is
being created by another. The interrupt moves from one PD to another while
characters arrive, and an acknowledgement that comes too late is refused without anybody noticing. Signals merge in one word of 64 bits, where the badge that a
channel was minted with decides what the receiver takes them for. Bytes of a file are
read by address arithmetic, by two readers in one case. Everything the kernel is told goes
through an IPC buffer that messages, results, errors and faults share.

What makes each part correct:

- receiver: files are framed exactly by their size lines; a size that fits is read
  as it is written, as far as there is room for its line; nothing is stored outside the buffer;
- layout: different slots have different numbers, all inside the CSpace;
- pools: what a pool still offers is used nowhere else;
- a created PD: its own slots designate what it runs on, its memory is its file,
  its channels work both ways, its memory regions are those named and no more
  powerful than granted;
- running PDs: are not disturbed by the creation of others;
- hand-over: the PD that can acknowledge the interrupt is the one that is notified;
- serial line: each character is read once, by one program, and every file is loaded in the end, unless the
  interrupt is lost in a hand-over that the sender did not wait for;
- channels: a signal is neither lost nor taken for another, and pings are answered;
- tables and segments: what is applied and loaded is what was asked for and linked;
- stubs and wrappers: what a caller passes is what the kernel gets, and the other way round;
- every call ends, and failing calls say so.

## The modules

| module | models | state |
|---|---|---|
| `ElfLoader` | `elf_loader.h` | `elf_size`, `size_buffer`, `elf_buffer` (with their fill levels), the returned pointer, whether a store left the buffer, and the size line so far |
| `CapSpace` | `sel4cp.h:34-72` as named slots; the kernel's capability operations | none (operators) |
| `SlotLayout` | the numbers of those slots | none (operators) |
| `PdCreate` | `sel4cp.h:191-1350` as run by `root.c` and `child.c` | kernel objects, `alloc_state` and the progress of a call, per PD |
| `UartTransfer` | `load_program.sh`, `uart.h`, `root.c`, `child.c` around a character | the register and status of the UART, the interrupt, the place of each program in `notified`, its loader |
| `FileTransfer` | what a transfer promises; implemented by `UartTransfer` | items taken, files loaded |
| `Channels` | `sel4cp_notify`, `sel4cp_irq_ack`, channel and interrupt set-up, the event loop, `pong.c`, the ping of `child.c` | capabilities and notification word of each PD, interrupt lines and who has their handlers |
| `AccessRights` | the two readers `sel4cp.h:647-761` and `:883-920` over the bytes of the table | the file, the reader, what was applied |
| `ElfSegments` | `sel4cp.h:763-1009`, byte by byte | the loop variables, the pages of the pool, what is mapped, whether the kernel denied something |
| `ProgramFile` | what `sel4cp_pd_create` does with the bytes of a file, in its order: composes `ElfSegments` and `AccessRights` | those of the two |
| `Stubs` | the invocation stubs as data, the labels and configurations | none (operators) |
| `Invocations` | one call of any stub | the IPC buffer, the progress of the call |
| `Layouts` | the bit fields of every type as data, and what the accessors compute | none (operators) |
| `FieldRecord` | a record of fields; implemented by `BitFields` | the fields |
| `BitFields` | constructors and accessors of all types | the words of a value |
| `Faults` | fault messages, their decoding, timeout replies, `fault` of `root.c` | message registers, the thread, the handler |
| `Messages` | the wrappers of `arch/syscalls.h` | IPC buffer, local variables and system call of each thread |
| `MC*` | instances for TLC; `MCKernelCalls` holds `Invocations`, `Faults` and `Messages`, of which each behaviour is about one | |
| `ElfLoaderProofs`, `PdCreateProofs`, `PdWiringProofs`, `ProgramFileProofs`, `UartTransferProofs`, `ChannelsProofs`, `BitFieldsProofs`, `KernelCallsProofs` | theorems | |

`PdCreate` extends `CapSpace`; `SlotLayout` extends `CapSpace` as well and justifies
its main abstraction, that a slot is a pair of an area and an index: the theorem
`LayoutInjective` says that equal numbers mean equal pairs. `Invocations` extends `Stubs`,
`BitFields` extends `Layouts`, and `Faults` extends both. `ProgramFile` extends `ElfSegments` and
instantiates `AccessRights`. `UartTransfer`, `ProgramFile` and `Channels` take a part of what `PdCreate` treats as one step, or one value, and look at it
closely; each says in its header what it leaves to the others.

### ElfLoader

One action per way through `elf_loader_handle_input`: `EndOfSize` (newline),
`StoreDigit`, `DropDigit` (size line full), `StoreByte`, `StoreOutside`. A character is
what the code tells apart: a digit value, the newline, any other byte. `1 << (4 * k)` in
`parse_hex64` is an `int` shift, undefined in C for `k >= 8`. The build that the Makefile
describes (`-O2`, AArch64) emits the 32-bit `lsl`, which takes the amount modulo 32;
`dynamic_programs/child.elf` contains it at 0x201270. `Weight` is that instruction.
After a store outside the buffer nothing is known of the program; the model stops. `line` is a history variable: all
characters of the size line, those that `DropDigit` does not keep included. `MaxLine` bounds it.

### PdCreate

A PD is named by the CNode that is its CSpace. `job[c]` is where the call of
`sel4cp_pd_create` of PD `c` stands, in place of its C stack; `alloc[c]` and `window[c]` are
its `alloc_state`. One action is one kernel invocation with the code up to the next
one; a few invocations that no other PD can observe in between are one action
(`WriteHandle`: delete, copy, map and write through the temporary page; the
structures of one level are one `MapTable`). The order of the actions is the code's:

    Enter -> MovePoolCap* -> AllocateObjects -> AssignAsid -> CopyFixedCap (13 times)
          -> SetSpace -> BindNotification
          -> { NextPage -> MapTable (3) -> MapPage -> [MapTable (3)] -> WriteHandle }*
          -> NextPage -> MapTable (3) -> MapPage -> SetIpcBuffer
          -> { SetUpScheduling | MintChannel (2) | { SetUpRegion -> MapTable (3) -> MapShared }*
               | MintIrqBadge -> SetIrqTarget -> MoveIrqHandler | SkipControl | UnknownRight }*
          -> Restart

A badge is the set of its bits, and `Badge(id)` is what `1 << id` is in this build: an `int` shift, by `id` modulo 32, whose
result is extended with its sign. `Enters(badge, id)` says that the event loop takes a badge for channel `id`.
What the properties say about a badge, they say of ids below 31 (`Names`): for those it is the bit of the id, beyond it is not.

Every action has the refusals of the kernel and of the code as its other
branch: `Fail` where the code returns -1 and leaves everything it did in place,
`Crash` where it calls `sel4cp_internal_crash` and the PD faults. A file is its pages, the
two symbols that the code looks up, and the entries of its access right table.

The kernel side is external: what a copy, mint, move, map, bind or assignment
requires and does is modelled from how the code relies on it. A frame capability
remembers where it is mapped, copies and mints of it are unmapped, deleting one
removes its mapping. A notification is bound to one thread, a scheduling context to one thread.
Derivation, revocation and capability rights other than a frame's writability
do not occur in this code and are left out.

`HandlesInput(c)` stands for the UART: PD `c` receives files while it can run, the
interrupt signals its notification, and the badge is the channel its code expects.

### UartTransfer and FileTransfer

`program[p].at` is the place in `notified`: `uart_handle_irq` clears the status, `uart_get_char` reads,
`irq_ack` acknowledges, `elf_loader_handle_input` takes the character, `pd_create` loads a complete file. Between any two of
them the sender may put the next character into the register and the kernel may deliver
the interrupt to whoever owns it then. The PL011 holds one character, since its FIFO is never switched on,
and the emulator holds back the line until it is read. A size line is one item, like a byte;
`ElfLoader` has its characters. A file that does not arrive as it was sent is not an ELF file, or not the one
meant; `pd_create` refuses it, and a second file of the same loader, whose slots are taken.

The interrupt can be lost when it changes hands. `irq_ack` takes the mask off only for the program that has the handler: `sel4cp_irq_ack`
(`sel4cp.h:1034`) invokes the slot of the caller and drops the error, and after `sel4cp.h:328` root's slot is empty. If the first character of
the next file arrives while root loads the child, after its acknowledgement (`root.c:34`) and before the interrupt signals the child (`sel4cp.h:318`),
it is root that is notified. Neither that call nor the move of the handler takes the mask off (`HandOver`). Root then reads the character, its
acknowledgement is refused, and the child, which could acknowledge, is never notified: `Lost`, for good.

`FileTransfer` has two actions: an item is taken, and a file is loaded when its last item was, in the order
of the files and each by the program that it is for; a load may lose the interrupt, unless it is the last, and then one item of the next file may
still be taken and nothing is loaded any more. `TransferImplemented` says that
`UartTransfer` implements it with `taken` mapped to the number of items taken, and `lost` to `Lost`. The order of items and loads is promised in any case, and that
every file is loaded in the end while the interrupt is not lost. The sender may begin a file before the
last one was loaded; the history variable `hurried` records that it did, and `OneHandler` says that the interrupt is lost to nobody else: a
sender (a person at the keyboard) that waits for each load gets all files loaded.

### Channels

Words are the sets of their bits. `Badge(id)` is the shift that `PdCreate` has as well: bit `id` modulo
32, and for 31 all of the bits 31 to 63. The event loop is in `libsel4cp.a` only; its machine code shows
that it tests bit 62 of the badge (a fault message), then bit 63 (a protected call), and then takes the bits
that are set as channels from the lowest up. It is modelled as external.
`sent` and `due` are history: the ids that were signalled and not yet received, and received but not yet notified.
A PD takes a step only if no PD of a higher priority is ready.

An interrupt line is `armed`, or `masked` from the interrupt to an acknowledgement by the PD that `handler` names. `Dispatch` is one call of `notified()`: an
acknowledgement for a channel whose handler the PD does not have (any more) changes nothing, and with the last character of a file
the PD goes on to load it. `SetUpIrq` hands a line on as it is: neither step of `set_up_irq` unmasks it. The history variable
`stranded` has the lines that were masked at that moment and were not acknowledged since.

### AccessRights

`Serialized`, `Concatenated` and `Patched` are what the `protection_model` package writes; they are external. `Skip` is
the switch of the first reader, `Decoded` that of the second. A byte has `ByteBase` values (8 in the run), so that TLC
can compute with fields of eight bytes; the arithmetic is that of 256.

### ElfSegments

The loops of `sel4cp_internal_pd_load_elf` one byte at a time: `BeginSegment`, `Copy`, `Clear`, each with
`ensure_page_is_allocated`, which takes a page when the write handle is NULL or the address is on a
page boundary. `memory` are the pages of the pool, `mapped` what the new PD sees. `outside` records a write that leaves the page of the write handle.
A load can be refused for two kinds of reasons: those that lie in the file and the pool of pages (`NoPages`, a symbol that is missing), and `Denied`, which stands for the rest
of the error paths of the same functions: no paging structure left, no temporary page, a mapping, a copy or the IPC buffer refused by the kernel. When these happen is
`PdCreate`'s; here they may happen with every page, before or after it was taken, and a page that was taken stays taken. `denied` records it.
`WellLinked` says what `sel4cp.ld` grants of a program: the id is one aligned variable inside the data or inside the zeros of a segment, and
no page that is taken for a later segment, or for the IPC buffer, holds a byte of an earlier one.

### ProgramFile

`ReadControl` (the first reader, before any object is taken), `LoadElf` (the segments and the IPC buffer), `SetUpAccessRights` (the
second reader, only of a program that was loaded). Each part reads the file and writes none of it.

### Stubs, Invocations

A stub is a record of what it declares and what it puts where; the operators of `Stubs` are one per stub, in the
order of the file. `Invoke` puts the capabilities and the words from the fifth on into the IPC buffer and the first four
into registers, as far as the message info says; the kernel (external) reads what the message info declares, and answers or
refuses; `Return` unmarshals. A word in the buffer is told apart by where it comes from.

### Layouts, BitFields, FieldRecord

A word is the set of its one bits, a field a word with a range of bits. `Made`, `Get` and `Put` are what the generated
constructors and accessors compute, by masks and shifts. The abstract `FieldRecord` knows no words: a field has the value
that it was last given, one that does not fit or is meant for another kind stops the program (with assertions) or is cut
to the width (without).

### Faults, Messages

`Faults`: a message register is told apart by what it holds (`Sent(k)`: what the kernel sent there). Between the receipt and the
decoding a handler may call the public interface, or any stub. Of the public calls two can be refused: `sel4cp_pd_stop` then crashes the program (`RefusedStop`), `sel4cp_irq_ack` drops
the error and goes on with the first four message registers overwritten (`RefusedAck`). `Messages`: two threads each make a call of any of the 20 wrappers;
the kernel (external) looks at the number of the call for what each register names, and matches a sender with a receiver, or drops. One wrapper,
`seL4_NBSendWaitWithMRs`, has the number of another: its message goes nowhere. `arm_sys_send` has no "memory" clobber, so any of the words in
the buffer may be written late there, which is a choice of `Enter`.

## What the runs check

Names of the form `Bad*` in the modules are plausible slips in the code; each
property of a passing run is violated when one of them takes the place of the real definition.

| run | instance | result |
|---|---|---|
| `elf_loader` | binary digits, 3-digit ints, room for 4 digits of a size line, lines of up to 6, 3-byte buffer; all inputs | `TypeOK`, `PhaseOK`, `OutsideOnlyIfOversize`, `HandsOverWholeFile`, `ReadsFittingSize` hold |
| `slot_layout` | the real constants; ids at both ends of 0..63; 4 shared pages; the output endpoints and the reply capability too | `SlotsDistinct`, `SlotsFit` hold for all pairs |
| `pd_create` | documented child and reader, and files that fail at each stage | `TypeOK`, `OneLoader`, `AckerIsNotified`, `LoadedIsWired`, `DocumentedLoads`, `CreateTerminates` hold |
| `pd_create_library` | a root that uses two ids, a loader that loads at the same time | `PoolFresh`, `ChannelsPaired`, `LoadedImage`, `HandlesStable`, `RunningUndisturbed` hold |
| `pd_create_start` | a file without access rights | `StartedCanRun` is violated |
| `pd_create_rights` | the documented child | `RightsAttenuated` is violated |
| `pd_create_region` | child without the region, then the reader | `RegionAsNamed` is violated |
| `uart_transfer` | files of 6 and 5 items for root and its child; the sender waits or not, at each file | `TransferImplemented`, `TakenOnce`, `OneHandler` hold |
| `program_file` | text, a header that is not loaded, data and zeros, each ending before, on and after a page boundary; the id in data or zeros; files without a symbol; tables of up to 3 of 9 kinds of entries; two values of the byte before the offset; a table next to the header or behind a gap; denials at every page | `LoadedAsLinked`, `RefusedOnlyIfShort`, `AppliesTable`, `ControlAsListed`, `StaysInFile` hold |
| `kernel_calls` | all stubs in 3 configurations, accepted or refused; all faults of the build, all lengths, all timeout replies, four stubs and refused acknowledgements between; two threads, 20 wrappers, 0, 3 or 6 words, missing pointers, any of the words late | `ArgumentsArrive`, `LabelTellsMethod`, `AnswerArrives`, `MessageKept`, `HandlerTold`, `TimeoutReplyRestores`, `MessageDelivered` hold |
| `bitfields` | all types, with assertions, as built; two values among the fields, then one setting | `Canonical`, `ImplementsRecord` hold |
| `channels` | root, pong, the child, a second loaded PD; ids 0 to 30; repeated pings, interrupts that recur, the line handed on armed or masked | `SignalsPending`, `MaskedIsPending`, `EntersAsSignalled`, `SignalHandled`, `PingAnswered` hold |

**What the violations mean.**

1. *A PD without a scheduling entry never runs* (`sel4cp.h:1017`), and `pd_create` returns 0.
2. *The capability of a read-only region is not read-only* (`sel4cp.h:732`): it is copied with all rights.
3. *Region indices are those of the loader's configuration* (`sel4cp.h:702`). A child that omits
   `test_region` holds the UART page at the index of its first page. When it loads `memory_reader`
   it maps the UART page at the address of `test_region` and fails at the second page, which is the
   null capability of slot 758 that `README.md:100` of the repository shows; the first page was not refused.

**What the properties exclude.** Some properties hold because of a limit that their statement, or the instance,
names. Beyond these limits the code does something else:

- *Oversize files are not refused* (`elf_loader.h:60`). The message is printed, but
  `elf_size` keeps the size, so the file is stored anyway, beyond the buffer; hence `OutsideOnlyIfOversize`.
- *Long size lines are misread* (`elf_loader.h:39` and `:67-70`), against the comment above the function. Digits beyond the 16th
  are dropped, so a longer line denotes another number for the loader, and it takes too few or too many bytes for the file. The weight of a digit
  with eight or more behind it is wrong. `ReadsFittingSize` speaks of lines for which there is room, with any number of zeros in front: those are read as the number that they
  denote if it fits the buffer. The sender of the repository writes no zeros in front, so it is not affected.
- *The serial line can go dead* (`sel4cp.h:318`, `:328`, `:1034`): a character that arrives while root loads the child, before the interrupt is handed on, leaves the interrupt masked for ever,
  as described under `UartTransfer`. `TransferImplemented` and `MaskedIsPending` name this case (`Lost`, `stranded`) and promise that there is no other.
- *Errors crash instead of returning -1* (`sel4cp.h:225-340` against the comment at `:1085`):
  a wrong entry in a file stops the loader. `CreateTerminates` counts that as an end of the call.
- *A load can be refused for reasons that its file does not show* (`sel4cp.h:467-470`, `:544-546`, `:599-602`, `:619-639`, `:790`): `RefusedOnlyIfShort` is about the loads that are not
  denied one of these; that the documented files meet none of them is `DocumentedLoads`.
- *A refused acknowledgement overwrites four message registers* (`sel4cp.h:1034`): a fault handler that made one finds only the words from the fifth on. `HandlerTold` speaks of those.
- *Channel ids from 31 on* (`sel4cp.h:265`). `SEL4CP_MAX_CHANNELS` is 63, but the shift is that of an
  `int`: with id 31 a notification would enter `fault()`, and ids from 32 on are taken modulo 32. `Channels` and `PdCreate` model
  both. The instance and the theorems of `Channels` are about ids up to 30; `ChannelsPaired` and `AckerIsNotified` allow any id and say of a badge what it is for ids up to 30. The repository uses ids up to 4.
- *Segments that share a page* (`sel4cp.h:969`). The second one's page hides the first one's. `sel4cp.ld` aligns
  segments to pages, and so does `MCProgramFile`.
- *`seL4_TCB_ReadRegisters` sets all fields* (`sel4_client.h:2461`), against its comment, also after a refusal. Nothing here calls it;
  `AnswerArrives` speaks of the fields that the kernel answered.
- *root prints an address for every fault* (`root.c:58`): for faults that have none it is a register or a time. `HandlerTold`
  speaks of the faults that have an address there.
- *`seL4_NBSendWaitWithMRs` makes the wrong system call* (`arch/syscalls.h:461`): what it was to invoke is
  taken for a reply object, its message is lost and its caller stops. Nothing here calls it. `MessageDelivered` has it as the one exception (`MessageOfOneLost`).
- *Words beyond the fourth of `seL4_Send` and its kin may be written too late* (`sel4_arch/syscalls.h:57`, no "memory" clobber): the old ones are then sent. `MessageDelivered` allows
  that of these words of these calls, and of nothing else. The programs here send no such message.

**Bounds.** Of `ElfLoader` only the size line is unbounded; `MaxLine` bounds what is sent of it. Three bytes of
buffer, room for four digits of size line, lines of up to six and ints of three digits make every relation
between them occur: sizes below, at and above the buffer, lines shorter and
longer than an int, full size lines, and lines that lose one or two digits. In `PdCreate` each load spends a CNode that is
never returned, so all behaviours are finite without artificial bounds. The root has pools for
three PDs and gives a loader one PD's share (5 and 2 in the code): enough for
the chain of the repository, for exhaustion in the root and in the loaded
loader, and for two concurrent loaders. A page table covers four pages instead of 512;
the program, its IPC buffer and the temporary page share one, as `sel4cp.ld` places them,
and the regions lie elsewhere. `test_region` has two pages (three in the code).
Entries, ids and region indices are those in the tables of the ELF files in
`dynamic_programs/`. In `UartTransfer` what is left to choose is who acts next, and files of a few items are long enough for
every overlap of the end of one with the beginning of the next. In `Channels` each PD is loaded once and pings a bounded
number of times; interrupts recur for ever. In `ProgramFile` three entries put each kind before, between and after others, and
field values occupy low, high and several bytes. Pages of four bytes and an id of two give `ElfSegments` every position of
both; a pool of six pages is enough for some of the programs and short for the others. Every program meets one table, and one
program meets every table, since neither part changes the file that the other reads. The
stubs, types and faults are all there, not samples; one call, one setting or one fault at a time, after
whatever came before, is what they are about. Six message words are two more than fit registers.

**Fairness.** `CreateTerminates` assumes weak fairness of each PD's steps inside
`pd_create`. A call waits for nobody: every step is enabled until the call ends, and the
kernel schedules the thread (the call of a loaded loader of priority 42 gives way to others only while they
have work to do, and pong only answers). Arrival of files is not assumed. `TransferImplemented`
assumes weak fairness of the sender, the UART, the kernel and each program, which go on by themselves: root runs at priority 253 and only
pong is above it, the child is the only PD of its priority with work to do while it receives. `SignalHandled` and `PingAnswered` assume weak fairness of each PD's steps and of each
load, where a step is enabled only while no PD of higher priority is ready: the kernel's scheduler takes turns among
equal priorities. That files or interrupts arrive is not assumed. `FileTransfer` is fair as a whole while the interrupt is not lost. No fairness is assumed anywhere else.

**Deadlock.** The systems really stop: after a store outside the buffer nothing more is modelled,
and no file is received any more after a crash, when the pools are empty, or when
the interrupt was handed to a PD that was not started. A transfer, a load, a scan, a value that was set, a stopped thread, or
two threads that wait for each other stop as well, and so does `channels` once its line is stranded and all signals have been handled. The runs say so in
their configurations; only `slot_layout` is checked for deadlock. That `channels` does not stop too early is what its liveness properties say.

## What is proved

The proofs hold for all values of the constants that satisfy the named
assumptions (`LoaderAssumption`, `FitsIntAssumption`; `CapSpaceAssumption`,
`ProgramAssumption`, `LayoutAssumption`; `IdAssumption`; `ElfSegmentsAssumption`, `ProgramsAssumption`, `TablesAssumption`; `UartAssumption`; `ChannelsAssumption`; `BitFieldsAssumption`; `InvocationAssumption`, `KernelCallsAssumption`), each of which TLC evaluates on its instances.

- **Receiver** (`ElfLoaderProofs`): `TypeCorrect`, `PhasesExclusive`, `WholeFileHandedOver`,
  `OutsideNeedsOversize`. Types alone are not inductive: that a file's buffer is shorter than the announced
  size needs the phases, and the phases need that a parsed size is a natural number,
  which is a sum of digits. The sum and the power are recursive functions; their
  values are shown to exist and to be natural by induction over a set
  (`NatSetInduction`).
- **Layout** (`PdCreateProofs`, at its end): `LayoutInjective`. Each area lies between its base and the next, for every
  size of the pools and all ids below 64, the output endpoints and the reply capability included.
- **pd_create** (`PdCreateProofs`): `TypeCorrect`, from the inductive invariant `IInv == KernelOK /\ PdsOK /\ JobsOK`.
  `TypeOK` alone is not inductive: a step writes through a CNode capability, so `GoodCaps` must say that such
  capabilities name CSpaces; a step names slots computed earlier in the call, so
  `JobOK` keeps, per point of the call, that the indices taken are inside their pools, that at least one page or
  scheduling context was taken before it is named as "the last one", and that the entry being worked
  on is of the kind the step expects. Each of the 21 actions has its lemma.
- **Ids** (`PdCreateProofs`): `IdsNameOnePd`, that `HandlesStable` holds. Copies and mints only go to empty slots; a move
  empties only pool and interrupt slots; deletion concerns only the temporary slot. None of them
  is a slot under the id of a PD, which is where the disjointness of the layout is used.
- **Wiring** (`PdCreateProofs`): `PoolsStayFresh`, `LoadedFindsItself` and `RunningPdsUndisturbed`, for any number of
  loaders at work at once. None of the three is inductive, and none can be had without the others: that a step of one
  loader does not touch the PD of another needs that their objects differ, which needs fresh pools; that a pool stays fresh
  needs that a loader takes from its own pool, hence that the slot under its own id designates its own CSpace, which is
  `LoadedIsWired`; and that this holds when a PD starts needs what its call had done before. The invariant `Wired` says so
  of every point of a call:
  - `PoolOK`: a pool holds objects of its kind, none of them twice, and a thread that is still offered has no scheduling context;
  - `LiveOK`: a PD that runs finds its thread, CSpace and VSpace under its id, a loaded one its notification and scheduling context too
    (`SelfKnown`, `SelfSignalled`; the static PDs are given theirs by the tool, root an endpoint in place of a notification);
  - `JobWired`: what a call has taken is below `alloc_state` and in use by no PD that runs (`ObjectsFree`); the first `m` rows of
    `FixedCaps` hold what they were copied from (`FixedCopied`, row by row); the thread has the new spaces and the notification from the step that
    sets them (`ThreadSet`); and pages and regions are mapped for the new PD, never through the caller's own VSpace;
  - `TempOK`: the temporary slot maps the window of its own PD, so that deleting its capability unmaps nothing else.

  The proof does not go through the actions once per conjunct. Each action is first shown to be a `CapsStep` (every slot keeps what it had, maps the same
  page elsewhere, or receives a copy of an object that no pool offers) or a move between pools; the pools, the running PDs and the
  calls of the other loaders are then followed through any such step, and only the call that takes the step is looked at action by action.
  The parts of `Wired` were checked with TLC on the instances of `pd_create` and `pd_create_library` before they were proved.
- **Pairs of channels** (`PdWiringProofs`): `ChannelsAlwaysPaired`, for any ids; of a badge it says that it is the bit of the id if the id is below 31
  (`Names`), the only ones for which the shift is that. A channel is minted in two steps into the CSpaces of two PDs; the PD at
  the other end is found by its id, and what it is signalled through is copied by its own call, perhaps long ago, perhaps by a call that failed.
  The invariant `Linked` adds to `Wired`:
  - `EmptyFresh`: a CNode that a pool offers is empty, so that a new PD starts without channels;
  - `NamedOnce` and `JobNamed`: a CSpace has one id, whoever knows it, and nobody knows a new one before its call has given it an id. The
    creator keeps the notification of the new PD under the new id in its own CSpace, where it could else be taken for what the creator itself waits for;
  - `ChanIsInput`: the notification under a PD's id in its own CSpace is the one that it waits for. So what its child signals it through, minted from that slot, reaches it;
  - `JobPaired`: of the CSpace that a call builds, every channel is paired but the one of which the call has made the first end (`Pending`), which
    the call either completes or crashes on; a call starts its PD only when no channel is pending, which gives `OutsPaired`.

  The proof uses that each step writes only into CSpaces that its call reaches (`Reached`), and that only `CopyFixedCap` and `MintChannel` fill slots that connect PDs (`Quiet`).
- **The interrupt** (`PdWiringProofs`): `HandlerIsNotified` states `AckerIsNotified`, with `Names` for the badge as above. `set_up_irq` acts in three steps through ids that the access rights name:
  it mints a badged notification in the temporary slot, lets the interrupt signal that, and moves the handler. The invariant `HandedOver` adds to `Linked`:
  - `IrqOnce`, `BoundOnce`: there is one handler capability, and a notification is bound to one thread;
  - `IrqMoving`: between the steps, what is in the temporary slot, and then what the interrupt signals, is the notification of the new PD under the id
    that the handler will have there, and the caller still holds the handler;
  - `IrqGiven`: if the CSpace under construction holds the handler, the interrupt signals the notification of that call, under that id. A second
    interrupt right of the same file cannot break it, because it needs a handler at the caller;
  - `IrqAnswered`: a PD that runs and holds the handler is signalled under its id, unless it is between the second and the third step, or crashed there.

  The step that sets the target is the hard one: any loader could do it, and it is `IrqOnce` that tells that no other PD holds a handler that is now out of date.
- **One loader** (`PdWiringProofs`): `OneLoaderAtATime` states `OneLoader`, under the assumption of the theorem `EveryLoaderWaits`: a program that creates PDs does
  so when the UART interrupt signals it, as `root.c` and `child.c` do (and as the programs of `pd_create` do; those of `pd_create_library` do not, and there
  several PDs load at once). `OneRole` says that at most one PD is inside `pd_create` or is the one that the interrupt signals; it is inductive with `HandedOver`, from
  which `BoundOnce` and `SelfKnown` tell that the interrupt signals one PD. TLC checked `HandedOver` on both instances, and `OneRole` on the first, before they were proved.
- **Memory** (`PdWiringProofs`): `LoadedHoldsImage` states `LoadedImage`, under the assumption of the theorem `ProgramsApart`: the segments, the IPC buffer
  and the temporary page of a program lie on pages of their own, and no region of its access rights on a segment or on the IPC buffer. The code does not check this (a later mapping of the
  same page replaces the earlier one), `sel4cp.ld` and the access rights of the repository see to it, and TLC evaluates it for the programs of every instance.
  The memory of a PD is filled through a page that is at the same time the last one taken from a shared pool, mapped in the VSpace of the new PD, and mapped in the window of
  the caller; the IPC buffer is known only by being the page taken last. The invariant `Imaged` adds to `Wired`:
  - `SharedOnly`: the slots of regions hold nothing but regions, so what `MapShared` maps is no page of a pool;
  - `PagesOnce`: a page frame is mapped at one place outside the windows, and a mapped one is offered by no pool. So a write reaches one page of one PD, and the
    next page is none that holds part of a program;
  - `FreshBlank`: nothing was written to a page that is offered, which is why the IPC buffer holds nothing;
  - `JobImage`: at every point of a call, the pages up to `k` hold their part of the file (`Written`), `LastPage` is the one that the window will show and then the IPC
    buffer, and from there to the start of the PD all of the file is there (`Complete`), also while regions are mapped;
  - `LiveImage`: so it is for a loaded PD, for ever.

  Only `MapPage` and `MapShared` change what is mapped outside the windows (`FrameSteps`), only `WriteHandle` writes, and only to the page last taken (`MemorySteps`), and two calls or PDs
  have different VSpaces (`OtherSpaces`). So the image of every other call and PD is followed through any step at once, and only the call that takes the step
  is looked at action by action. TLC checked `Imaged` on both instances before it was proved.

- **Loading a program** (`ProgramFileProofs`): `AlwaysLoadedAsLinked` and `NeverRefusedWithRoom`, for pages, ids, pools and segments of any size and any number
  of segments, from `ProgramsAssumption`, that the programs are `WellLinked`, and whatever the kernel and the pools of `PdCreate` deny at any page. The code never computes where a byte of a segment lies: it advances a handle, and takes
  a page when the address reaches a multiple of the page size. The invariant `Loading` says that the two agree:
  - `Cursor`: the handle is on the page of the pool that is mapped where the next byte belongs, at its place on the page, and not inside the id, which is
    written as a whole (`InId`). At the end of a page this needs that an aligned id fits on what is left of the page (`AlignedFits`; the division lemmas are proved first);
  - `PagesOK`: no two pages of the PD are one page of the pool, so a write changes nothing that was placed on another page;
  - `Placed`: what was written stays in place, of this segment because later bytes are higher, of an earlier one because their pages are apart (`EarlierApart`).

  `Counted` adds that `page_idx` is the number of pairs of a segment and a page of it that were reached so far (`PagesSoFar`), a set that each new page makes
  larger by one and that never exceeds that of the whole program. That number also bounds what a load takes that is denied half way (the last conjunct of `RefusedOnlyIfShort`); the first one then speaks of the loads that
  end for want of a page, which `Counted` shows to be short of them.
- **The access right table** (`ProgramFileProofs`): `AlwaysAppliesTable`, `AlwaysControlAsListed` and `AlwaysStaysInFile`, for tables of any length, with any
  numbers in their fields, at any place in the file, from `TablesAssumption`, that each field fits its bytes. Nothing but the bytes tells the readers where an entry
  begins, so one wrong width (19, 4, 27, 3 and 1 bytes) turns all later entries into others. The proof goes from the bytes up:
  - the digits of a number (`Digits`), which a load puts together again (`WordOfEight`); the offset is the number that is left when the byte below it, whatever it is, is
    shifted out (`OffsetShifted`);
  - `Finds`: where a serialized access right is stored, both readers find the number of its kind and how much follows, and the second one what it asks for, flags included;
  - `HoldsEntries`: where a table is stored, each entry lies behind the entries before it (`UpTo`, a recursive function: that it exists, and what
    it is, by induction over a set), and `StoredFacts`: there is a table behind the offset, up to the end of the file;
  - the invariant `Reading`: a reader is where the entry after those it has counted begins (`WalksControl`, `WalksSetUp`). `ControlAsListed` is not inductive, and is
    false before the second reader is done: the first one may stop at an entry that it does not know, in front of an entry with the right (`Answered`).

  TLC checked `Reading` on the instance of `program_file` before it was proved.
- **Serial line** (`UartTransferProofs`): `AlwaysTakenOnce`, `AlwaysOneHandler`, for any number of programs, any file sizes, and any speed
  of the sender. That no item is lost or read twice and that one program handles the UART need each other and `Handling`: while anybody handles the UART the interrupt is masked, and
  until the character has been read the register is full, so that it is not read twice; and `Started`: only the program that
  owns the interrupt starts the next, once. That the interrupt is lost only to a sender in a hurry, the other half of `OneHandler`, needs to know
  what each program is about when the interrupt changes hands, so it follows from the invariant of the next theorem.
- **A file after the other** (`UartTransferProofs`): `ImplementsTransfer`, that the steps of `UartTransfer` are steps of `FileTransfer` or change nothing that it
  speaks of, for any number of programs, any file sizes, and any speed of the sender: this is `TransferImplemented` without its fairness. The code
  never compares what it has received with what was meant for it. A sender in a hurry may begin a file while the program before still owns the interrupt, and then the first
  character of the file ends up in the wrong loader. That no file is ever loaded by the wrong program or put together from parts is what the proof is about: either all
  items go to the programs that they are for, or the interrupt is lost and nothing more than that character is taken. The invariant `OrderInv` adds to the one above:
  - `LoadsInOrder`: the programs up to the current one have been loaded in order, each by the one before it; the current one, or the last, owns the interrupt; those that are to
    come have not been touched;
  - `Line`: nothing is sent beyond the last file, and what is in the register was sent last; `Hurry`: if anything of a file was sent before its program was loaded, `hurried` says so;
  - `InOrder`: the current file is in one of two situations, or there is none (`Done`). `Straight`: all items so far went, in order, to the programs that they were for, the current program's
    loader holds exactly what of its file has been taken, nobody else is at work, and the interrupt is not lost. `Stuck`: it is lost, to a sender in a hurry. The program before, which has just
    started the current one, is notified of the first item of the file (`Told`), has read it (`Has`), or has taken it; its acknowledgement in between changes nothing, and after it nobody moves.

  That the items which are taken never exceed those of the files needs counting: taken items are different and were sent (`NotMoreTaken`, by the pigeonhole principle). Where the files begin
  and end among all items (`Ends`, a recursive function) is shown by induction over a set. TLC checked `OrderInv` with three programs before it was proved, including states
  that are `Stuck`.
- **Kernel calls** (`KernelCallsProofs`): the properties of `kernel_calls` but one, `LabelTellsMethod`, for any number of threads, all configurations, messages of every length up to six
  words, and any words. The invariant is `CallsInv == MessageInv /\ FaultsInv /\ InvocationsInv`, of which a step of one part leaves the two others alone:
  - `MessageInv`: `MessageDelivered` is proved for any two of the twenty wrappers. Of calls that have returned it speaks of the words: for these, each message on its way is what its sender meant, but for words that nothing
    made the compiler write (`Faithful`); what the kernel has written for a thread that it has woken stays until the thread copies it (`Delivered`); and a reply object
    holds a caller that waits for it, and no caller is in two (`RepliesOwed`), so no answer goes to a thread that has gone on. `seL4_NBSendWaitWithMRs` never gets further than to send to nothing (`Astray`);
  - `FaultsInv`: a handler finds in the message registers what the kernel sent, all of it after calls of the public interface that succeeded, all but the first four words after refused acknowledgements, the first four words after any invocations of which none was refused (`StillThere`, `HandlerKnows`). That `seL4_getFault` fills each field
    from the register that it was sent in, and a timeout reply gives each register of the thread its value, is proved of each fault kind from its definition;
  - `InvocationsInv`: the words of an answer lie where the stub takes them from, or where it copies them from after a refusal (`AnswerThere`), and no stub takes more words than there are.

  `ArgumentsArrive` rests on `Marshalled`, which says of a stub that each parameter is put into one place, whole, and nothing over another. `EveryStubMarshalled` proves it of each of the 85 stubs from
  its definition: `OneWordEach` covers the 81 that put each parameter into a word or capability of its own, the other four have proofs of their own. `MessageKept` is an
  action property: it follows from the same facts about which registers a stub uses.
- **Channels** (`ChannelsProofs`): `AlwaysSignalsPending`, `AlwaysMaskedIsPending`, `AlwaysEntersAsSignalled`, for all systems with ids up to 30, any number of interrupt lines, and lines that are handed on armed or masked. The
  invariant adds `CapsExact`, that every minted badge is the bit of its id (where the shift and its bound
  enter, as the assumption of the theorems), and `HandlesSome`, that a PD in its event loop has a bit in hand. The action property also needs
  that the lowest bit of a non-empty word exists, by the well-ordering of the naturals.
- **Bit fields** (`BitFieldsProofs`): `AlwaysCanonical`, and the refinement `FieldsImplementRecord`, with and without assertions and for any arguments.
  `WellPlaced` (the fields of a type, and its tag, lie inside the words and do not overlap) is proved of each type from its
  definition; that what is put is what comes out, and that nothing else changes, is proved of `Put`, `Get` and `Made` for any
  layout that is well placed; and the steps of `BitFields` then map to those of `FieldRecord`.

Only model-checked:

- `LabelTellsMethod` says that in each configuration different methods have different numbers. It is not true of arbitrary values of `Configs` (one that has the MCS and the classic
  methods at once), and for those that exist the numbers come from counting the members of a long list, which TLC does for each of them;
- `SlotsDistinct` and `SlotsFit` look at the numbers of the slots of this repository's sizes. That different slots have different numbers is
  `LayoutInjective`, for all sizes; that they fit a CNode is a matter of the sizes;
- `DocumentedLoads` is about the programs that the repository describes;
- `ReadsFittingSize`, what `parse_hex64` computes of lines of every length, is an induction over data, which is out of the prover's reach;
- `CreateTerminates`, `SignalHandled`, `PingAnswered` and the fairness of `TransferImplemented` are liveness, which is out of its reach as well.

`bitfields` runs with the assertions of this build; without them it is the theorems that hold, for both values of `Asserts`.

## What is not modelled, and why

- The kernel beyond what the code relies on, the `sel4cp` tool, `libsel4cp.a` beyond its event loop, `crt0` and the XML side of the
  patcher: not in source form in the repository.
- `sel4cp_pd_stop`, `sel4cp_ppcall`, `sel4cp_mr_get` and the message info wrappers as operations of a PD: no program calls them. What
  they do is in `Faults`, `Messages`, `Invocations` and `BitFields`. The same goes for `uart_put_char` and `uart_put_str`.
- The debug and benchmark system calls, `seL4_Yield`, and the classic (not MCS) system calls: the former have no state, the latter are not compiled.
- A sender that is stopped inside a file: the code has no answer to it that a property could be about.
- Budgets and periods: the code passes them on (`AccessRights`) and does nothing with them.
- Debug output, except root's fault address.

What could follow: `ObjectOwnership`, who owns which kernel object, as an abstract specification that `PdCreate` implements.

----------------------------- MODULE ElfLoader -----------------------------
(* elf_loader.h: the state machine that root.c and child.c feed with one    *)
(* character per UART interrupt. It first collects the hexadecimal size of  *)
(* an ELF file up to a newline, then that many bytes, and hands the file to *)
(* its caller.                                                              *)
(*                                                                          *)
(* A character is what the loader tells apart: a digit 0..Base-1, the       *)
(* newline, or any other byte. Base stands for 16, IntDigits for the 8      *)
(* digits that an int shift covers, SizeDigits for the 16 bytes of          *)
(* size_buffer.                                                             *)
EXTENDS Integers, Sequences

CONSTANTS Base,             \* number of digit values (16)
          IntDigits,        \* digits in the width of an int (32 / 4 = 8)
          SizeDigits,       \* capacity of size_buffer (16)
          ELF_BUFFER_SIZE,  \* capacity of elf_buffer (0x50000)
          MaxLine           \* the longest size line that is sent

ASSUME LoaderAssumption ==
    /\ Base \in Nat /\ Base > 1
    /\ IntDigits \in Nat \ {0}
    /\ SizeDigits \in Nat \ {0}
    /\ ELF_BUFFER_SIZE \in Nat \ {0}
    /\ MaxLine \in Nat

\* A size that fits the buffer fits an int (0x50000 < 2^32).
ASSUME FitsIntAssumption == ELF_BUFFER_SIZE < Base^IntDigits

Digit     == 0 .. Base - 1
Newline   == Base
OtherByte == Base + 1
Char      == 0 .. Base + 1

NoFile == <<>>  \* the NULL that handle_input returns

VARIABLES elf_size,     \* bytes announced, 0 while the size is being read
          size_buffer,  \* its first size_buffer_idx bytes
          elf_buffer,   \* the bytes between elf_buffer and elf_current_vaddr
          returned,     \* the file the last call handed over, or NoFile
          outside,      \* a byte was stored past the end of elf_buffer
          line          \* the characters of the size line so far, kept or not (a history)

vars == <<elf_size, size_buffer, elf_buffer, returned, outside, line>>

TypeOK ==
    /\ elf_size \in Nat
    /\ size_buffer \in Seq(Char) /\ Len(size_buffer) <= SizeDigits
    /\ elf_buffer \in Seq(Char)  /\ Len(elf_buffer) <= ELF_BUFFER_SIZE
    /\ returned \in Seq(Char)    /\ Len(returned) <= ELF_BUFFER_SIZE
    /\ outside \in BOOLEAN
    /\ line \in Seq(Char) /\ Len(line) <= MaxLine

----------------------------------------------------------------------------
(* elf_loader_parse_hex64 *)

\* The weight of the digit with k digits after it: 1 << 4*k is an int shift,
\* and the code's target takes the shift amount modulo the width of an int.
Weight(k) ==
    LET Power[i \in 0 .. k % IntDigits] == IF i = 0 THEN 1 ELSE Base * Power[i - 1]
    IN  Power[k % IntDigits]

\* result after the loop has added up the n terms t[1], ..., t[n].
Total(t, n) ==
    LET Sum[i \in 0 .. n] == IF i = 0 THEN 0 ELSE t[i] + Sum[i - 1]
    IN  Sum[n]

\* The forms named Bad* are plausible slips in the code: the properties of the
\* runs are tried against them.
BadParseHex(s) ==
    IF \A i \in 1 .. Len(s) : s[i] \in Digit
    THEN Total([i \in 1 .. Len(s) |-> s[i] * Weight(i - 1)], Len(s))
    ELSE 0

\* The number that a size line denotes for the loader, the most significant
\* digit first; 0 if a character is no digit.
ParseHex(s) ==
    IF \A i \in 1 .. Len(s) : s[i] \in Digit
    THEN Total([i \in 1 .. Len(s) |-> s[i] * Weight(Len(s) - i)], Len(s))
    ELSE 0

\* What the comment above the function promises.
HexValue(s) ==
    LET Val[i \in 0 .. Len(s)] == IF i = 0 THEN 0 ELSE Base * Val[i - 1] + s[i]
    IN  IF \A i \in 1 .. Len(s) : s[i] \in Digit THEN Val[Len(s)] ELSE 0

----------------------------------------------------------------------------
(* elf_loader_handle_input, one action per way through it *)

Init ==
    /\ elf_size = 0
    /\ size_buffer = <<>> /\ elf_buffer = <<>>
    /\ returned = NoFile
    /\ outside = FALSE
    /\ line = <<>>

\* One more character of a size line, of at most MaxLine.
Sent(c) == Len(line) < MaxLine /\ line' = Append(line, c)

BadEndOfSize(c) ==
    /\ elf_size = 0 /\ c = Newline
    /\ elf_size' = ParseHex(size_buffer)
    /\ line' = <<>>
    /\ returned' = NoFile
    /\ UNCHANGED <<size_buffer, elf_buffer, outside>>

\* The newline ends the size line. A size above ELF_BUFFER_SIZE is reported
\* and the call returns NULL, with elf_size as it was assigned.
EndOfSize(c) ==
    /\ elf_size = 0 /\ c = Newline
    /\ elf_size' = ParseHex(size_buffer)
    /\ size_buffer' = <<>> /\ line' = <<>>
    /\ returned' = NoFile
    /\ UNCHANGED <<elf_buffer, outside>>

BadStoreDigit(c) ==
    /\ elf_size = 0 /\ c # Newline
    /\ Len(size_buffer) <= SizeDigits
    /\ size_buffer' = Append(size_buffer, c)
    /\ Sent(c)
    /\ returned' = NoFile
    /\ UNCHANGED <<elf_size, elf_buffer, outside>>

StoreDigit(c) ==
    /\ elf_size = 0 /\ c # Newline
    /\ Len(size_buffer) < SizeDigits
    /\ size_buffer' = Append(size_buffer, c)
    /\ Sent(c)
    /\ returned' = NoFile
    /\ UNCHANGED <<elf_size, elf_buffer, outside>>

\* size_buffer is full: the character is reported and dropped.
DropDigit(c) ==
    /\ elf_size = 0 /\ c # Newline
    /\ Len(size_buffer) >= SizeDigits
    /\ Sent(c)
    /\ returned' = NoFile
    /\ UNCHANGED <<elf_size, size_buffer, elf_buffer, outside>>

BadStoreByte(c) ==
    /\ elf_size # 0 /\ Len(elf_buffer) < ELF_BUFFER_SIZE
    /\ elf_buffer' = Append(elf_buffer, c)
    /\ IF Len(elf_buffer) + 1 >= elf_size
       THEN returned' = Append(elf_buffer, c) /\ elf_size' = 0
       ELSE returned' = NoFile /\ UNCHANGED elf_size
    /\ UNCHANGED <<size_buffer, outside, line>>

BadLastByte(c) ==
    /\ elf_size # 0 /\ Len(elf_buffer) < ELF_BUFFER_SIZE
    /\ IF Len(elf_buffer) + 1 > elf_size
       THEN /\ returned' = Append(elf_buffer, c)
            /\ elf_buffer' = <<>> /\ elf_size' = 0
       ELSE /\ returned' = NoFile
            /\ elf_buffer' = Append(elf_buffer, c) /\ UNCHANGED elf_size
    /\ UNCHANGED <<size_buffer, outside, line>>

\* A byte of the file. The last one resets the loader and returns the file.
StoreByte(c) ==
    /\ elf_size # 0 /\ Len(elf_buffer) < ELF_BUFFER_SIZE
    /\ IF Len(elf_buffer) + 1 >= elf_size
       THEN /\ returned' = Append(elf_buffer, c)
            /\ elf_buffer' = <<>> /\ elf_size' = 0
       ELSE /\ returned' = NoFile
            /\ elf_buffer' = Append(elf_buffer, c) /\ UNCHANGED elf_size
    /\ UNCHANGED <<size_buffer, outside, line>>

\* The store goes past the end of elf_buffer: nothing is known of the program
\* from here on, so no further call is modelled.
StoreOutside(c) ==
    /\ elf_size # 0 /\ Len(elf_buffer) >= ELF_BUFFER_SIZE
    /\ outside' = TRUE
    /\ UNCHANGED <<elf_size, size_buffer, elf_buffer, returned, line>>

HandleInput(c) ==
    /\ ~outside
    /\ \/ EndOfSize(c)
       \/ StoreDigit(c)
       \/ DropDigit(c)
       \/ StoreByte(c)
       \/ StoreOutside(c)

Next == \E c \in Char : HandleInput(c)

Spec == Init /\ [][Next]_vars

----------------------------------------------------------------------------
(* Properties *)

\* Between two calls the loader is in one of its two phases, never in both:
\* while it reads a size no byte of a file is held, and while it reads a file
\* the size line is empty and the file still lacks a byte. A phase that leaks
\* into the other would prefix the next file, or its size, with stale bytes.
PhaseOK ==
    /\ elf_size = 0 => elf_buffer = <<>>
    /\ elf_size # 0 => size_buffer = <<>> /\ Len(elf_buffer) < elf_size

\* A file is handed over only when it is as long as its announced size, and
\* the call that hands it over is ready for the next size line.
HandsOverWholeFile ==
    [][returned' # NoFile =>
          /\ Len(returned') = elf_size
          /\ elf_size' = 0 /\ elf_buffer' = <<>> /\ size_buffer' = <<>>]_vars

\* Only a size above the buffer's takes a store outside it: a file that fills
\* the buffer to the last byte does not.
OutsideOnlyIfOversize == outside => elf_size > ELF_BUFFER_SIZE

\* What there is room for of a size line.
Kept == SubSeq(line, 1, IF Len(line) <= SizeDigits THEN Len(line) ELSE SizeDigits)

\* A size line is read as the number that its first SizeDigits characters
\* denote, if that is a size that fits: the int shift of elf_loader.h:39 wraps
\* only for digits that are zero in such a line. So a line without more
\* characters is read as the number it denotes; of a longer line, the rest is
\* ignored, whatever it denotes (elf_loader.h:67-70).
ReadsFittingSize ==
    [][line # <<>> /\ line' = <<>> /\ HexValue(Kept) <= ELF_BUFFER_SIZE
          => elf_size' = HexValue(Kept)]_vars
=============================================================================

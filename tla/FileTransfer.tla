---------------------------- MODULE FileTransfer ----------------------------
(***************************************************************************)
(* What loading a program over the serial line promises: the items of the  *)
(* files (the line with the size, then the bytes) are taken one by one,    *)
(* and a file is loaded when its last item has been taken, by the program  *)
(* that it is for, before anything of the next file is taken.  In the end  *)
(* all files are loaded, unless the interrupt is lost when it is handed to *)
(* the next program: then the size line of the next file may still be      *)
(* taken, and nothing happens after it.                                    *)
(***************************************************************************)
EXTENDS Integers, Sequences

CONSTANTS Receivers,    \* the program that each file is for, in order
          Ends          \* how many items there are up to the end of each file

VARIABLES taken,        \* how many items have been taken
          loaded,       \* who has loaded which file
          lost          \* whether the interrupt has been lost

Init == taken = 0 /\ loaded = <<>> /\ lost = FALSE

Due == Len(loaded) + 1

Take ==
    /\ Due <= Len(Receivers)
    /\ taken < Ends[Due]
    /\ lost => taken = Ends[Len(loaded)]
    /\ taken' = taken + 1
    /\ UNCHANGED <<loaded, lost>>

Load ==
    /\ ~lost
    /\ Due <= Len(Receivers)
    /\ taken = Ends[Due]
    /\ loaded' = Append(loaded, [by |-> Receivers[Due], file |-> Due])
    /\ lost' \in {FALSE, Due < Len(Receivers)}
    /\ UNCHANGED taken

Next == Take \/ Load

Spec == /\ Init
        /\ [][Next]_<<taken, loaded, lost>>
        /\ WF_<<taken, loaded>>(~lost /\ Next)
=============================================================================

---------------------------- MODULE ProgramFile -----------------------------
(***************************************************************************)
(* What sel4cp_pd_create does with the bytes of a program, in its order:   *)
(* the first reader of the access right table runs before any object is    *)
(* taken, then pd_load_elf walks over the segments and sets up the IPC     *)
(* buffer, and if that succeeds the second reader applies the table.       *)
(*                                                                         *)
(* The two parts read one file, of which neither changes anything, so what *)
(* ElfSegments and AccessRights look at are separate values here.          *)
(***************************************************************************)
EXTENDS ElfSegments

CONSTANTS
    ByteBase, Tables, Idents, Gaps,    \* see AccessRights
    ProgramsFor(_)                     \* the programs that a table is patched into

VARIABLES
    elf_file, table, access_right_reader, left, control, skipped, found, applied,
    at                                 \* pc of AccessRights

rights_vars ==
    <<elf_file, table, access_right_reader, left, control, skipped, found, applied, at>>

Rights == INSTANCE AccessRights WITH pc <- at

(* Every field of an access right fits its place in the table. *)
ASSUME TablesAssumption == Rights!AccessRightsConstants

FileInit ==
    /\ Rights!Init
    /\ elf \in ProgramsFor(table)
    /\ Init

\* sel4cp_internal_has_protection_domain_control_access_right
ReadControl ==
    /\ Rights!BeginControl \/ Rights!ControlEntry \/ Rights!ControlEnd
    /\ UNCHANGED vars

\* sel4cp_internal_pd_load_elf, up to the IPC buffer
LoadElf ==
    /\ at = "loaded"
    /\ Next
    /\ UNCHANGED rights_vars

\* sel4cp_internal_set_up_access_rights
SetUpAccessRights ==
    /\ pc = "done"
    /\ Rights!BeginSetUp \/ Rights!SetUpEntry \/ Rights!SetUpEnd
    /\ UNCHANGED vars

FileNext == ReadControl \/ LoadElf \/ SetUpAccessRights

FileSpec == FileInit /\ [][FileNext]_<<vars, rights_vars>>

-----------------------------------------------------------------------------
(* Properties, of the parts as they meet here. *)

(* Each access right is applied as it was asked for, in the order of the    *)
(* table, and none besides; only an entry that is not known ends the table  *)
(* before its last (set_up_access_rights).                                  *)
AppliesTable == Rights!AppliesTable

(* "Returns true if and only if the given ELF program contains a            *)
(* protection_domain_control access right", for every table that the second *)
(* reader accepts: the objects of a loader are handed over to a program     *)
(* that may create PDs and to no other.                                     *)
ControlAsListed == Rights!ControlAsListed

(* Neither reader leaves the file, and the reader that goes to the end of   *)
(* the table ends at the end of the file.                                   *)
StaysInFile == Rights!StaysInFile
=============================================================================

---------------------------- MODULE MCElfLoader ----------------------------
(* A small instance of ElfLoader for TLC. The three sizes keep the order of  *)
(* the real ones: a size that fits the buffer has fewer digits (2) than an   *)
(* int shift covers (3), and a size line may have more (4). A line may also  *)
(* be longer than the loader keeps (6).                                      *)
EXTENDS ElfLoader
=============================================================================

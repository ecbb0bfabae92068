---------------------------- MODULE FieldRecord ----------------------------
(***************************************************************************)
(* What the generated bit field types of libsel4 promise: a value of such  *)
(* a type is a record of named fields.  It is made with all of them, then  *)
(* one field at a time is set.  A value is the set of its bits.            *)
(*                                                                         *)
(* With assertions compiled in, a value that a field cannot hold and an    *)
(* accessor of another kind of the same type stop the program.  Without    *)
(* them the value is cut to the width of the field.                        *)
(***************************************************************************)
EXTENDS Integers

CONSTANTS Kinds,        \* the kinds of values
          TypeOf,       \* the C type of each kind; the kinds of one type have different tags
          Width,        \* for each kind, the width of each of its fields
          Asserts,      \* whether seL4_DebugAssert does anything (not NDEBUG)
          Calls,        \* for each kind, the arguments that a value of it is made with
          Values        \* what a field is set to

VARIABLES kind, fields, status,
          sets          \* how many fields have been set: no setting is a stutter

LowBits(value, width) == value \cap (0..width - 1)
Fits(value, width) == value \subseteq (0..width - 1)

Init == /\ kind \in Kinds
        /\ status = "unset"
        /\ sets = 0

New(args) ==
    /\ status = "unset"
    /\ args \in Calls[kind]
    /\ IF Asserts /\ \E f \in DOMAIN args : ~Fits(args[f], Width[kind][f])
       THEN status' = "stopped" /\ fields' = fields
       ELSE /\ status' = "live"
            /\ fields' = [f \in DOMAIN Width[kind] |-> LowBits(args[f], Width[kind][f])]
    /\ UNCHANGED <<kind, sets>>

Set(f, value) ==
    /\ status = "live"
    /\ f \in DOMAIN Width[kind]
    /\ value \in Values
    /\ IF Asserts /\ ~Fits(value, Width[kind][f])
       THEN status' = "stopped" /\ fields' = fields
       ELSE status' = status /\ fields' = [fields EXCEPT ![f] = LowBits(value, Width[kind][f])]
    /\ sets' = sets + 1
    /\ UNCHANGED kind

\* A field of another kind of the type is asked for or set.
Misuse ==
    /\ Asserts
    /\ status = "live"
    /\ \E other \in Kinds \ {kind} : TypeOf[other] = TypeOf[kind]
    /\ status' = "stopped"
    /\ sets' \in {sets, sets + 1}
    /\ UNCHANGED <<kind, fields>>

Next == \/ \E args \in Calls[kind] : New(args)
        \/ \E f \in DOMAIN Width[kind], value \in Values : Set(f, value)
        \/ Misuse

Spec == Init /\ [][Next]_<<kind, fields, status, sets>>
=============================================================================

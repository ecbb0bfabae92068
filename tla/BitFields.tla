----------------------------- MODULE BitFields -----------------------------
(***************************************************************************)
(* A program that makes a value of one of the bit field types of libsel4   *)
(* and then sets fields of it, through the accessors of its kind or, by    *)
(* mistake, of another kind of its type.                                   *)
(***************************************************************************)
EXTENDS Layouts

CONSTANTS Asserts,      \* whether seL4_DebugAssert does anything (not NDEBUG)
          Calls,        \* for each kind, the arguments that a value of it is made with
          Values,       \* what a field is set to
          MaxSets       \* how often a field is set after the value is made

ASSUME BitFieldsAssumption ==
    /\ Asserts \in BOOLEAN
    /\ DOMAIN Calls = DOMAIN Layouts
    /\ \A k \in DOMAIN Layouts : Calls[k] \subseteq [DOMAIN Layouts[k].fields -> SUBSET Bit]
    /\ Values \subseteq SUBSET Bit
    /\ MaxSets \in Nat

VARIABLES kind,         \* which kind of value the program works on
          words,        \* the words of the structure
          status,       \* "unset", "live", or "stopped" at an assertion
          sets          \* how many fields have been set

vars == <<kind, words, status, sets>>

Layout == Layouts[kind]

Init ==
    /\ kind \in DOMAIN Layouts
    /\ words = [w \in 0..Layout.size - 1 |-> Bit]
    /\ status = "unset"
    /\ sets = 0

(***************************************************************************)
(* The functions.                                                          *)
(***************************************************************************)
New(args) ==
    /\ status = "unset"
    /\ args \in Calls[kind]
    /\ IF Asserts /\ \E f \in DOMAIN args : ~Fits(args[f], Layout.fields[f].width)
       THEN status' = "stopped" /\ words' = words
       ELSE status' = "live" /\ words' = Made(Layout, args)
    /\ UNCHANGED <<kind, sets>>

\* The setter of field f of the kind, called with a value of any kind of its type.  Without
\* the assertions only the program's own care keeps it from using a wrong one.
SetField(l, f, value) ==
    /\ status = "live"
    /\ sets < MaxSets
    /\ l.type = Layout.type
    /\ ~Asserts => l = Layout
    /\ f \in DOMAIN l.fields
    /\ value \in Values
    /\ IF Asserts /\ ~(HasTag(words, l) /\ Fits(value, l.fields[f].width))
       THEN status' = "stopped" /\ words' = words
       ELSE status' = status /\ words' = Put(words, l.fields[f], value)
    /\ sets' = sets + 1
    /\ UNCHANGED kind

\* The getter of a field of another kind.
GetWrong(l) ==
    /\ status = "live"
    /\ Asserts
    /\ l.type = Layout.type
    /\ ~HasTag(words, l)
    /\ status' = "stopped"
    /\ UNCHANGED <<kind, words, sets>>

Next ==
    \/ \E args \in Calls[kind] : New(args)
    \/ \E k \in DOMAIN Layouts : \E f \in DOMAIN Layouts[k].fields, v \in Values :
           SetField(Layouts[k], f, v)
    \/ \E k \in DOMAIN Layouts : GetWrong(Layouts[k])

Spec == Init /\ [][Next]_vars

(***************************************************************************)
(* Properties.                                                             *)
(***************************************************************************)
Record == INSTANCE FieldRecord WITH
    Kinds <- DOMAIN Layouts,
    TypeOf <- [k \in DOMAIN Layouts |-> Layouts[k].type],
    Width <- [k \in DOMAIN Layouts |->
                 [f \in DOMAIN Layouts[k].fields |-> Layouts[k].fields[f].width]],
    fields <- [f \in DOMAIN Layout.fields |-> Get(words, Layout.fields[f])]

\* The words behave as a record of fields: what is put into a field is what comes out of
\* it, whatever is put into its neighbours, and only what does not fit or is meant for
\* another kind stops the program (all accessors of shared_types_gen.h and types_gen.h).
ImplementsRecord == Record!Spec

\* Two values with the same fields are the same words: no bit outside of the fields and the
\* tag is ever set, and every word of the structure is written when it is made.
Canonical ==
    status = "live" =>
        words = Made(Layout, [f \in DOMAIN Layout.fields |-> Get(words, Layout.fields[f])])
=============================================================================

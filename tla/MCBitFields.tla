---------------------------- MODULE MCBitFields ----------------------------
(***************************************************************************)
(* All kinds, each made with at most two different arguments and then      *)
(* changed once.                                                           *)
(***************************************************************************)
EXTENDS BitFields

\* Nothing, one bit, one that does not fit the narrowest fields, and all bits.
MCValues == {{}, {0}, {2}, Bit}

\* One field gets one value and all others another.
CallsOf(names) == {[g \in names |-> IF g = f THEN u ELSE v] :
                      f \in names, u \in MCValues, v \in MCValues}
MCCalls == [k \in DOMAIN Layouts |->
               IF k = "NullFault" THEN {<<>>} ELSE CallsOf(DOMAIN Layouts[k].fields)]
=============================================================================

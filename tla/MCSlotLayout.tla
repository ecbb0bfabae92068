---------------------------- MODULE MCSlotLayout ----------------------------
(* SlotLayout with the sizes of sel4cp.h: TLC tries all pairs of slots, with  *)
(* the ids at the ends of the ranges.                                         *)
EXTENDS SlotLayout

VARIABLES s, t

MCPerPd == [k \in PoolKind |->
               CASE k = "pud" -> 2 [] k = "pd" -> 4 [] k = "pt" -> 6
                 [] k = "page" -> 30 [] OTHER -> 1]

Init == s \in LayoutSlot /\ t \in LayoutSlot
Next == UNCHANGED <<s, t>>
Spec == Init /\ [][Next]_<<s, t>>

\* No two slots of the layout coincide (the bases of sel4cp.h:49-72).
SlotsDistinct == Distinct(s, t)

\* All areas, with the shared pages of configuration.system behind them, fit
\* into the 2^11 slots of a CSpace.
SlotsFit == Fits(s)
=============================================================================

---------------------------- MODULE MCLogicalUnits ----------------------------
(* LogicalUnits on a small instance.  Its nubs are interchangeable, and    *)
(* which of overlapped and unready is set makes no difference to a         *)
(* property, now or later: only whether one of them is.                    *)
EXTENDS LogicalUnits, TLC

NubSymmetry == Permutations(Nubs)
HistoryView ==
  <<logicalUnit, nubs, pc, locals, pools, panicked, overlapped \/ unready, strayed>>
=============================================================================

----------------------------- MODULE BaSysTimer -----------------------------
(***************************************************************************)
(* The table of periodic callbacks gstBaSysTimer[] (func/BaSysTimer.c).    *)
(* An entry is the name of a callback; its argument is part of the name.   *)
(***************************************************************************)
EXTENDS Integers

CONSTANT MaxTimer \* MAX_BA_SYS_TIMER_COUNT

ASSUME TimerAssumption == MaxTimer \in Nat

Entries == 1 .. MaxTimer
NoCallback == "null"

Lowest(e, E) == e \in E /\ \A f \in E : e <= f

With(table, cb) == {e \in Entries : table[e] = cb}

\* RegisterBaSysCallback does nothing when the table is full.
Register(old, new, cb) ==
  \/ With(old, NoCallback) = {} /\ new = old
  \/ \E e \in Entries : Lowest(e, With(old, NoCallback)) /\ new = [old EXCEPT ![e] = cb]

\* UnRegisterBaSysCallback takes the first entry that matches, if there is one.
Unregister(old, new, cb) ==
  \/ With(old, cb) = {} /\ new = old
  \/ \E e \in Entries : Lowest(e, With(old, cb)) /\ new = [old EXCEPT ![e] = NoCallback]
=============================================================================

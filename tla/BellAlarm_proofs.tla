-------------------------- MODULE BellAlarm_proofs --------------------------
(* Proofs about BellAlarm. *)
EXTENDS BellAlarm, TLAPS

(***************************************************************************)
(* The timer table.                                                        *)
(***************************************************************************)
Callbacks == {NoCallback, "delay", "period", "call"}

\* RegisterBaSysCallback leaves every entry in use alone, and enters the callback if
\* there is room.
LEMMA RegisterEntry ==
  ASSUME NEW old \in [Entries -> Callbacks], NEW new, NEW cb \in Callbacks,
         Register(old, new, cb)
  PROVE  /\ new \in [Entries -> Callbacks]
         /\ \A e \in Entries : old[e] # NoCallback => new[e] = old[e]
         /\ With(old, NoCallback) # {} => \E e \in Entries : old[e] = NoCallback /\ new[e] = cb
<1>1. CASE With(old, NoCallback) = {} /\ new = old
  BY <1>1
<1>2. ASSUME NEW e \in Entries, Lowest(e, With(old, NoCallback)),
             new = [old EXCEPT ![e] = cb]
      PROVE  /\ new \in [Entries -> Callbacks]
             /\ \A f \in Entries : old[f] # NoCallback => new[f] = old[f]
             /\ \E f \in Entries : old[f] = NoCallback /\ new[f] = cb
  BY <1>2 DEF Lowest, With
<1> QED BY <1>1, <1>2 DEF Register

\* UnRegisterBaSysCallback frees one entry at most, and that one held the callback.
LEMMA UnregisterEntry ==
  ASSUME NEW old \in [Entries -> Callbacks], NEW new, NEW cb \in Callbacks,
         Unregister(old, new, cb)
  PROVE  /\ new \in [Entries -> Callbacks]
         /\ \A e \in Entries : old[e] # cb => new[e] = old[e]
         /\ \A r, s \in Entries : r # s => new[r] = old[r] \/ new[s] = old[s]
<1>1. CASE With(old, cb) = {} /\ new = old
  BY <1>1
<1>2. ASSUME NEW e \in Entries, Lowest(e, With(old, cb)),
             new = [old EXCEPT ![e] = NoCallback]
      PROVE  /\ new \in [Entries -> Callbacks]
             /\ \A f \in Entries : old[f] # cb => new[f] = old[f]
             /\ \A r, s \in Entries : r # s => new[r] = old[r] \/ new[s] = old[s]
  BY <1>2 DEF Lowest, With, Callbacks
<1> QED BY <1>1, <1>2 DEF Unregister
-----------------------------------------------------------------------------
(***************************************************************************)
(* Types.                                                                  *)
(***************************************************************************)
LEMMA InitType == Init => TypeOK
<1> SUFFICES ASSUME Init PROVE TypeOK
  OBVIOUS
<1> USE DEF Init
<1>1. AlarmType
  BY Zenon DEF AlarmType
<1>2. CountType
  BY AlarmAssumption DEF CountType, NoTime
<1>3. ControlType
  BY DEF ControlType
<1>4. TableType
  BY TimerAssumption DEF TableType
<1> QED BY <1>1, <1>2, <1>3, <1>4 DEF TypeOK

LEMMA ResetType ==
  ResetBellAlarm => bRunning' = FALSE /\ flags' = FALSE /\ cut' = TRUE /\ szTime' \in Nat
  BY DEF ResetBellAlarm, NoTime

LEMMA OlderType == ASSUME NEW p \in Nat, NEW l \in Nat PROVE Older(p, l) \in Nat
  BY DEF Older

LEMMA AlarmTypeKept == TypeOK /\ [Next]_vars => AlarmType'
<1> SUFFICES ASSUME TypeOK, [Next]_vars PROVE AlarmType'
  OBVIOUS
<1> USE DEF params, TypeOK, AlarmType
<1>1. CASE Detect
  BY <1>1, Zenon DEF Detect, Fresh, timer, call
<1>2. CASE MotionStep
  BY <1>2, Zenon DEF MotionStep, Refuse, TakePicture, FoundAtOnce, StartPeriod, StartDelay,
     StartTimer, Add, ResetBellAlarm, OnFoundAlarm, timer, call, alarm, history
<1>3. CASE TimerStep
  <2>1. CASE PassBegin \/ CallNext \/ PassEnd \/ DelayTick \/ DelayFound \/ DelayBreak \/ Found
    BY <2>1, Zenon DEF PassBegin, CallNext, PassEnd, DelayTick, DelayFound, DelayBreak, Found,
       Tick, Goto, ResetBellAlarm, OnFoundAlarm, call, alarm, history
  <2>2. CASE Swap \/ ToPeriod \/ PeriodTick \/ PeriodEnd \/ CallTick
    BY <2>2, Zenon DEF Swap, ToPeriod, PeriodTick, PeriodEnd, CallTick, Add, Remove,
       Tick, Goto, ResetBellAlarm, call, alarm, history
  <2>3. CASE Gone("unDelay", "delay") \/ Gone("unPeriod", "period") \/ CallMove \/ CallTalk \/ CallEnd
    BY <2>3, Zenon DEF Gone, CallMove, CallTalk, CallEnd, Add, Remove,
       Goto, ResetBellAlarm, call, alarm, history
  <2> QED BY <1>3, <2>1, <2>2, <2>3 DEF TimerStep
<1>4. CASE Press \/ Ring
  BY <1>4, Zenon DEF Press, Ring, Add, alarm, history, timer
<1>5. CASE Settings
  BY <1>5, Zenon DEF Settings, call, history
<1>6. CASE UNCHANGED vars
  BY <1>6, Zenon DEF vars, alarm, call, history
<1> QED BY <1>1, <1>2, <1>3, <1>4, <1>5, <1>6 DEF Next

LEMMA CountTypeKept == TypeOK /\ [Next]_vars => CountType'
<1> SUFFICES ASSUME TypeOK, [Next]_vars PROVE CountType'
  OBVIOUS
<1> USE DEF params, TypeOK, CountType
<1>a. QuietTime \in Nat /\ alarm_delay \in Nat /\ Longest \in Nat
  BY AlarmAssumption DEF Longest
<1>b. Tick => nTimerAlarm' \in Nat
  BY <1>a, OlderType DEF Tick
<1>c. OnFoundAlarm => told' \in Nat /\ quiet' \in Nat
  BY <1>a DEF OnFoundAlarm
<1>1. CASE Detect
  BY <1>1 DEF Detect, call
<1>2. CASE MotionStep
  BY <1>2, <1>c, ResetType DEF MotionStep, Refuse, TakePicture, FoundAtOnce, StartPeriod,
     StartDelay, StartTimer, call, alarm, history
<1>3. CASE TimerStep
  <2>1. CASE PassBegin
    BY <2>1, <1>a, OlderType DEF PassBegin, call, alarm
  <2>2. CASE CallNext \/ PassEnd \/ DelayTick \/ DelayFound \/ DelayBreak \/ Found
    BY <2>2, <1>b, <1>c, ResetType DEF CallNext, PassEnd, DelayTick, DelayFound, DelayBreak,
       Found, call, alarm, history
  <2>3. CASE Swap \/ ToPeriod \/ PeriodTick \/ PeriodEnd \/ CallTick
    BY <2>3, <1>a, <1>b, ResetType DEF Swap, ToPeriod, PeriodTick, PeriodEnd, CallTick,
       call, alarm, history
  <2>4. CASE Gone("unDelay", "delay") \/ Gone("unPeriod", "period") \/ CallMove \/ CallTalk \/ CallEnd
    BY <2>4, ResetType DEF Gone, CallMove, CallTalk, CallEnd, call, alarm, history
  <2> QED BY <1>3, <2>1, <2>2, <2>3, <2>4 DEF TimerStep
<1>4. CASE Press \/ Ring
  BY <1>4 DEF Press, Ring, alarm, history
<1>5. CASE Settings
  BY <1>5 DEF Settings, call, history
<1>6. CASE UNCHANGED vars
  BY <1>6 DEF vars, alarm, call, history
<1> QED BY <1>1, <1>2, <1>3, <1>4, <1>5, <1>6 DEF Next

LEMMA ControlTypeKept == TypeOK /\ [Next]_vars => ControlType'
<1> SUFFICES ASSUME TypeOK, [Next]_vars PROVE ControlType'
  OBVIOUS
<1> USE DEF params, TypeOK, ControlType
<1>1. CASE Detect
  BY <1>1 DEF Detect, call, timer
<1>2. CASE MotionStep
  BY <1>2 DEF MotionStep, Refuse, TakePicture, FoundAtOnce, StartPeriod,
     StartDelay, StartTimer, call, timer
<1>3. CASE TimerStep
  <2>1. CASE CallNext
    BY <2>1 DEF CallNext, Lowest, Later, TableType, call, NoCallback
  <2>2. CASE PassBegin \/ PassEnd \/ DelayTick \/ DelayFound \/ DelayBreak \/ Found
    BY <2>2 DEF PassBegin, PassEnd, DelayTick, DelayFound, DelayBreak, Found, Goto, call
  <2>3. CASE Swap \/ ToPeriod \/ PeriodTick \/ PeriodEnd \/ CallTick
    BY <2>3 DEF Swap, ToPeriod, PeriodTick, PeriodEnd, CallTick, Goto, call
  <2>4. CASE Gone("unDelay", "delay") \/ Gone("unPeriod", "period") \/ CallMove \/ CallTalk \/ CallEnd
    BY <2>4 DEF Gone, CallMove, CallTalk, CallEnd, Goto, call
  <2> QED BY <1>3, <2>1, <2>2, <2>3, <2>4 DEF TimerStep
<1>4. CASE Press \/ Ring
  BY <1>4 DEF Press, Ring, timer
<1>5. CASE Settings
  BY <1>5 DEF Settings, call, timer
<1>6. CASE UNCHANGED vars
  BY <1>6 DEF vars, call, timer
<1> QED BY <1>1, <1>2, <1>3, <1>4, <1>5, <1>6 DEF Next

LEMMA TableTypeKept == TypeOK /\ [Next]_vars => TableType'
<1> SUFFICES ASSUME TypeOK, [Next]_vars PROVE TableType'
  OBVIOUS
<1> USE DEF params, TypeOK, TableType
<1>a. \A cb \in Callbacks : Add(cb) => table' \in [Entries -> Callbacks]
  BY RegisterEntry DEF Add, Callbacks
<1>b. \A cb \in Callbacks : Remove(cb) => table' \in [Entries -> Callbacks]
  BY UnregisterEntry DEF Remove, Callbacks
<1> USE DEF Callbacks
<1>1. CASE Detect
  BY <1>1 DEF Detect, timer
<1>2. CASE MotionStep
  BY <1>2, <1>a DEF MotionStep, Refuse, TakePicture, FoundAtOnce, StartPeriod,
     StartDelay, StartTimer, timer
<1>3. CASE TimerStep
  <2>1. CASE CallNext
    BY <2>1 DEF CallNext, Entries
  <2>2. CASE PassBegin \/ PassEnd
    BY <2>2, TimerAssumption DEF PassBegin, PassEnd
  <2>3. CASE DelayTick \/ DelayFound \/ DelayBreak \/ Found \/ PeriodTick \/ PeriodEnd \/ CallTick
    BY <2>3 DEF DelayTick, DelayFound, DelayBreak, Found, PeriodTick, PeriodEnd, CallTick, Goto
  <2>4. CASE Swap \/ ToPeriod \/ Gone("unDelay", "delay") \/ Gone("unPeriod", "period")
    BY <2>4, <1>a, <1>b DEF Swap, ToPeriod, Gone, Goto
  <2>5. CASE CallMove \/ CallTalk \/ CallEnd
    BY <2>5, <1>a, <1>b DEF CallMove, CallTalk, CallEnd, Goto
  <2> QED BY <1>3, <2>1, <2>2, <2>3, <2>4, <2>5 DEF TimerStep
<1>4. CASE Press \/ Ring
  BY <1>4, <1>a DEF Press, Ring, timer
<1>5. CASE Settings
  BY <1>5 DEF Settings, timer
<1>6. CASE UNCHANGED vars
  BY <1>6 DEF vars, timer
<1> QED BY <1>1, <1>2, <1>3, <1>4, <1>5, <1>6 DEF Next

\* The variables of the alarm, the timer table among them, keep their types.
THEOREM AlarmTypeCorrect == Spec => []TypeOK
<1>1. TypeOK /\ [Next]_vars => TypeOK'
  BY AlarmTypeKept, CountTypeKept, ControlTypeKept, TableTypeKept DEF TypeOK
<1> QED BY InitType, <1>1, PTL DEF Spec
-----------------------------------------------------------------------------
(***************************************************************************)
(* Who clears bRunning.                                                    *)
(***************************************************************************)
\* The timer thread is at an entry of the callback it runs.
AtEntry ==
  /\ tpc \in {"delay", "condition", "found", "swap", "unDelay"}
       => at \in Entries /\ table[at] = "delay"
  /\ tpc \in {"period", "endPeriod", "unPeriod"}
       => at \in Entries /\ table[at] = "period"

\* An entry is there that the timer thread is not about to free: while it unregisters cb,
\* one of the other callback, or two of cb.
Spare(cb, other) ==
  \/ \E e \in Entries : table[e] = other
  \/ \E r, s \in Entries : r # s /\ table[r] = cb /\ table[s] = cb

Held == \E e \in Entries : table[e] \in {"delay", "period"}

\* bRunning outlives StartAlarmThread only with an entry that is there to stay.
RunHeld ==
  bRunning /\ mpc = "idle" /\ ~dropped =>
    /\ tpc # "toPeriod" => Held
    /\ tpc = "unDelay" => Spare("delay", "period")
    /\ tpc = "unPeriod" => Spare("period", "delay")

RunInv == TypeOK /\ AtEntry /\ RunHeld

LEMMA InitRun == Init => RunInv
  BY InitType, Zenon DEF Init, RunInv, AtEntry, RunHeld

LEMMA AtEntryKept == TypeOK /\ AtEntry /\ [Next]_vars => AtEntry'
<1> SUFFICES ASSUME TypeOK, AtEntry, [Next]_vars PROVE AtEntry'
  OBVIOUS
<1> USE DEF AtEntry
<1>t. table \in [Entries -> Callbacks]
  BY DEF TypeOK, TableType, Callbacks
<1>a. \A cb \in Callbacks : Add(cb) =>
        \A e \in Entries : table[e] # NoCallback => table'[e] = table[e]
  BY <1>t, RegisterEntry DEF Add
<1> USE DEF Callbacks, NoCallback
<1>1. CASE Detect
  BY <1>1 DEF Detect, timer
<1>2. CASE MotionStep
  <2>1. CASE Refuse \/ TakePicture \/ FoundAtOnce
    BY <2>1 DEF Refuse, TakePicture, FoundAtOnce, timer
  <2>2. CASE StartPeriod \/ StartDelay
    BY <2>2, <1>a DEF StartPeriod, StartDelay, StartTimer
  <2> QED BY <1>2, <2>1, <2>2 DEF MotionStep
<1>3. CASE TimerStep
  <2>1. CASE CallNext
    <3>1. table' = table /\ \E e \in Entries : at' = e /\ tpc' = table[e]
      BY <2>1 DEF CallNext
    <3> QED BY <3>1, <1>t
  <2>2. CASE PassBegin \/ PassEnd \/ ToPeriod \/ CallTick \/ CallMove \/ CallTalk \/ CallEnd
    BY <2>2 DEF PassBegin, PassEnd, ToPeriod, CallTick, CallMove, CallTalk, CallEnd, Goto
  <2>3. CASE DelayTick \/ DelayFound \/ DelayBreak \/ Found
    BY <2>3 DEF DelayTick, DelayFound, DelayBreak, Found, Goto
  <2>4. CASE Swap \/ PeriodTick \/ PeriodEnd
    BY <2>4 DEF Swap, PeriodTick, PeriodEnd, Goto
  <2>5. CASE Gone("unDelay", "delay") \/ Gone("unPeriod", "period")
    BY <2>5 DEF Gone, Goto
  <2> QED BY <1>3, <2>1, <2>2, <2>3, <2>4, <2>5 DEF TimerStep
<1>4. CASE Press
  BY <1>4 DEF Press, timer
<1>5. CASE Ring
  BY <1>5, <1>a DEF Ring
<1>6. CASE Settings \/ UNCHANGED vars
  BY <1>6 DEF Settings, vars, timer
<1> QED BY <1>1, <1>2, <1>3, <1>4, <1>5, <1>6 DEF Next

LEMMA RunHeldKept == RunInv /\ [Next]_vars => RunHeld'
<1> SUFFICES ASSUME RunInv, [Next]_vars, bRunning', mpc' = "idle", ~dropped'
             PROVE  /\ tpc' # "toPeriod" => Held'
                    /\ tpc' = "unDelay" => Spare("delay", "period")'
                    /\ tpc' = "unPeriod" => Spare("period", "delay")'
  BY DEF RunHeld
<1> DEFINE Goal == /\ tpc' # "toPeriod" => Held'
                   /\ tpc' = "unDelay" => Spare("delay", "period")'
                   /\ tpc' = "unPeriod" => Spare("period", "delay")'
<1>t. table \in [Entries -> Callbacks]
  BY DEF RunInv, TypeOK, TableType, Callbacks
<1>a. ASSUME NEW cb \in {"delay", "period", "call"}, Add(cb)
      PROVE  /\ ~dropped
             /\ \A e \in Entries : table[e] # NoCallback => table'[e] = table[e]
             /\ \E e \in Entries : table[e] = NoCallback /\ table'[e] = cb
  <2>1. ~dropped /\ With(table, NoCallback) # {}
    BY <1>a, Zenon DEF Add
  <2> QED BY <1>a, <1>t, <2>1, RegisterEntry DEF Add, Callbacks
<1>b. ASSUME NEW cb \in {"delay", "period", "call"}, Remove(cb)
      PROVE  /\ ~dropped
             /\ \A e \in Entries : table[e] # cb => table'[e] = table[e]
             /\ \A r, s \in Entries : r # s => table'[r] = table[r] \/ table'[s] = table[s]
  BY <1>b, <1>t, UnregisterEntry DEF Remove, Callbacks
<1>s. ASSUME UNCHANGED <<table, tpc>>, bRunning, mpc = "idle", ~dropped
      PROVE  Goal
  BY <1>s DEF RunInv, RunHeld, Held, Spare
<1>1. CASE Detect
  BY <1>1 DEF Detect
<1>2. CASE Refuse
  BY <1>2 DEF Refuse, ResetBellAlarm
<1>3. CASE TakePicture \/ FoundAtOnce
  BY <1>3 DEF TakePicture, FoundAtOnce
<1>4. ASSUME NEW cb \in {"delay", "period"}, NEW pc, StartTimer(pc, cb)
      PROVE  Goal
  <2>1. Add(cb) /\ tpc' = tpc
    BY <1>4 DEF StartTimer
  <2>2. PICK e \in Entries : table[e] = NoCallback /\ table'[e] = cb
    BY <2>1, <1>a
  <2>3. Held'
    BY <2>2 DEF Held
  <2>4. ASSUME tpc = "unDelay" PROVE Spare("delay", "period")'
    BY <2>1, <2>2, <2>4, <1>a DEF RunInv, AtEntry, Spare, NoCallback
  <2>5. ASSUME tpc = "unPeriod" PROVE Spare("period", "delay")'
    BY <2>1, <2>2, <2>5, <1>a DEF RunInv, AtEntry, Spare, NoCallback
  <2> QED BY <2>1, <2>3, <2>4, <2>5
<1>5. CASE PassBegin \/ CallNext \/ PassEnd
  <2>a. table' = table /\ mpc' = mpc /\ bRunning' = bRunning /\ dropped' = dropped
    BY <1>5 DEF PassBegin, CallNext, PassEnd, alarm, history
  <2>1. table' = table /\ bRunning /\ mpc = "idle" /\ ~dropped
    BY <2>a, Zenon
  <2>2. tpc \in {"sleep", "pass"}
    BY <1>5 DEF PassBegin, CallNext, PassEnd
  <2>3. tpc' \in {"sleep", "pass"} \cup Callbacks
    BY <1>5, <1>t DEF PassBegin, CallNext, PassEnd
  <2> QED BY <2>1, <2>2, <2>3 DEF RunInv, RunHeld, Held, Callbacks, NoCallback
<1>6. CASE DelayTick \/ DelayFound \/ Found \/ PeriodTick
  BY <1>6 DEF DelayTick, DelayFound, Found, PeriodTick, Goto, alarm, history,
     RunInv, RunHeld, Held
<1>7. CASE DelayBreak \/ PeriodEnd \/ CallTick
  BY <1>7 DEF DelayBreak, PeriodEnd, CallTick, ResetBellAlarm
<1>8. CASE Swap
  BY <1>8 DEF Swap, Goto
<1>9. CASE ToPeriod
  <2>1. Add("period") /\ tpc' = "pass"
    BY <1>9 DEF ToPeriod, Goto
  <2> QED BY <2>1, <1>a DEF Held
<1>10. CASE Gone("unDelay", "delay")
  <2>1. Remove("delay") /\ tpc = "unDelay" /\ tpc' = "pass" /\ bRunning /\ mpc = "idle"
    BY <1>10 DEF Gone, Goto, alarm
  <2>2. Spare("delay", "period")
    BY <2>1, <1>b DEF RunInv, RunHeld
  <2>3. Held'
    BY <2>1, <2>2, <1>b DEF Spare, Held
  <2> QED BY <2>1, <2>3
<1>11. CASE Gone("unPeriod", "period")
  <2>1. Remove("period") /\ tpc = "unPeriod" /\ tpc' = "pass" /\ bRunning /\ mpc = "idle"
    BY <1>11 DEF Gone, Goto, alarm
  <2>2. Spare("period", "delay")
    BY <2>1, <1>b DEF RunInv, RunHeld
  <2>3. Held'
    BY <2>1, <2>2, <1>b DEF Spare, Held
  <2> QED BY <2>1, <2>3
<1>12. CASE CallMove \/ CallEnd
  <2>1. /\ Remove("call") /\ tpc \in {"callMove", "callEnd"} /\ tpc' \in {"pass", "callTalk"}
        /\ bRunning /\ mpc = "idle"
    BY <1>12 DEF CallMove, CallEnd, Goto, alarm, ResetBellAlarm
  <2>2. Held /\ Held'
    BY <2>1, <1>b DEF RunInv, RunHeld, Held
  <2> QED BY <2>1, <2>2
<1>13. CASE CallTalk
  <2>1. /\ Add("call") /\ tpc = "callTalk" /\ tpc' = "pass" /\ bRunning /\ mpc = "idle"
    BY <1>13 DEF CallTalk, Goto, alarm
  <2>2. Held /\ Held'
    BY <2>1, <1>a DEF RunInv, RunHeld, Held, NoCallback
  <2> QED BY <2>1, <2>2
<1>14. CASE Ring
  <2>1. Add("call") /\ tpc' = tpc /\ bRunning /\ mpc = "idle" /\ ~dropped
    BY <1>14, <1>a DEF Ring, alarm
  <2>2. \A e \in Entries : table[e] \in {"delay", "period"} => table'[e] = table[e]
    BY <2>1, <1>a DEF NoCallback
  <2> QED BY <2>1, <2>2 DEF RunInv, RunHeld, Held, Spare
<1>15. CASE Press \/ Settings \/ UNCHANGED vars
  <2>1. UNCHANGED <<table, tpc, mpc>> /\ bRunning' = bRunning /\ dropped' = dropped
    BY <1>15 DEF Press, Settings, vars, timer, alarm, history
  <2>2. bRunning /\ mpc = "idle" /\ ~dropped
    BY <2>1, Zenon
  <2> QED BY <2>1, <2>2, <1>s
<1> QED BY <1>1, <1>2, <1>3, <1>4, <1>5, <1>6, <1>7, <1>8, <1>9, <1>10, <1>11, <1>12, <1>13,
           <1>14, <1>15 DEF Next, MotionStep, TimerStep, StartPeriod, StartDelay

LEMMA RunStep == RunInv /\ [Next]_vars => RunInv'
  BY AlarmTypeKept, CountTypeKept, ControlTypeKept, TableTypeKept, AtEntryKept, RunHeldKept
  DEF RunInv, TypeOK

\* bRunning is never left set with nobody to clear it, for any table, delay and number of
\* alarms and calls: either the table was full, or alarms are found again.
THEOREM AlarmIsOwned == Spec => []AlarmOwned
<1>1. RunInv => AlarmOwned
  BY Zenon DEF RunInv, RunHeld, Held, AlarmOwned
<1> QED BY InitRun, RunStep, <1>1, PTL DEF Spec
-----------------------------------------------------------------------------
(***************************************************************************)
(* An alarm that begins with no callback left has the timer to itself.     *)
(***************************************************************************)
\* The entry of an alarm's callback, and one that the timer thread is about to free (or
\* another of the same callback in its place).
Ours(e) == table[e] \in {"delay", "period"}
Leaves(e) == tpc \in {"unDelay", "unPeriod"} /\ e = at

\* There is one entry at most, besides one that leaves, and none before StartAlarmThread
\* registers it or while CallbackAlarmDelay gives way to CallbackAlarmPeriod.
Alone ==
  clean =>
    /\ \A e, f \in Entries : Ours(e) /\ Ours(f) /\ e # f => Leaves(e) \/ Leaves(f)
    /\ mpc # "idle" => tpc # "toPeriod" /\ \A e \in Entries : Ours(e) => Leaves(e)
    /\ tpc = "toPeriod" => \A e \in Entries : ~Ours(e)

\* What was announced has no CallbackAlarmDelay any more, but for the moment of the swap.
Told ==
  clean =>
    /\ told \in {0, 1}
    /\ mpc \in {"check", "register"} => told = 0
    /\ told = 1 => \A e \in Entries : table[e] = "delay" => tpc = "swap"

\* CallbackAlarmDelay is used with a delay only.
AtOnce ==
  /\ mpc = "period" => alarm_delay = 0
  /\ alarm_delay = 0 => \A e \in Entries : table[e] # "delay"

OnceInv == Alone /\ Told /\ AtOnce

\* Register and Unregister change one entry, or none.
LEMMA AddEntry ==
  ASSUME NEW cb, Add(cb)
  PROVE  \/ table' = table
         \/ \E n \in Entries : table[n] = NoCallback /\ table' = [table EXCEPT ![n] = cb]
  BY DEF Add, Register, Lowest, With

LEMMA RemoveEntry ==
  ASSUME NEW cb, Remove(cb)
  PROVE  \/ table' = table /\ \A e \in Entries : table[e] # cb
         \/ \E n \in Entries : table[n] = cb /\ table' = [table EXCEPT ![n] = NoCallback]
  BY DEF Remove, Unregister, Lowest, With

LEMMA InitOnce == Init => OnceInv
  BY DEF Init, OnceInv, Alone, Told, AtOnce, Ours, NoCallback

\* A call's callbacks come and go without touching the alarm's entries.
LEMMA CallEntry ==
  ASSUME table \in [Entries -> Callbacks], Add("call") \/ Remove("call")
  PROVE  \A e \in Entries :
           /\ table'[e] = "delay" <=> table[e] = "delay"
           /\ table'[e] = "period" <=> table[e] = "period"
<1>1. CASE Add("call")
  BY <1>1, AddEntry DEF NoCallback
<1>2. CASE Remove("call")
  BY <1>2, RemoveEntry DEF NoCallback
<1> QED BY <1>1, <1>2

LEMMA AloneStep == RunInv /\ OnceInv /\ [Next]_vars => Alone'
<1> SUFFICES ASSUME RunInv, OnceInv, [Next]_vars PROVE Alone'
  OBVIOUS
<1> USE DEF Alone, Ours, Leaves, NoCallback
<1>t. table \in [Entries -> Callbacks]
  BY DEF RunInv, TypeOK, TableType, Callbacks
<1>a. AtEntry /\ Alone
  BY DEF RunInv, OnceInv
<1>1. CASE Detect
  <2>1. UNCHANGED <<table, tpc, at>> /\ clean' = Fresh
    BY <1>1 DEF Detect, timer
  <2>2. clean' => tpc # "toPeriod" /\ \A e \in Entries : Ours(e) => Leaves(e)
    BY <2>1 DEF Fresh
  <2> QED BY <2>1, <2>2
<1>2. CASE Refuse \/ TakePicture \/ FoundAtOnce
  <2>1. UNCHANGED <<table, tpc, at>> /\ clean' = clean /\ mpc # "idle"
    BY <1>2 DEF Refuse, TakePicture, FoundAtOnce, timer, history
  <2> QED BY <1>a, <2>1
<1>3. ASSUME NEW pc \in {"register", "period"}, NEW cb, StartTimer(pc, cb) PROVE Alone'
  <2>1. Add(cb) /\ UNCHANGED <<tpc, at>> /\ clean' = clean /\ mpc # "idle" /\ mpc' = "idle"
    BY <1>3 DEF StartTimer
  <2>2. CASE table' = table
    BY <1>a, <2>1, <2>2
  <2>3. ASSUME NEW n \in Entries, table' = [table EXCEPT ![n] = cb] PROVE Alone'
    BY <1>a, <1>t, <2>1, <2>3
  <2> QED BY <2>1, <2>2, <2>3, AddEntry
<1>4. CASE PassBegin \/ CallNext \/ PassEnd
  <2>1. table' = table /\ mpc' = mpc /\ clean' = clean
    BY <1>4 DEF PassBegin, CallNext, PassEnd, history
  <2>2. tpc \in {"sleep", "pass"}
    BY <1>4 DEF PassBegin, CallNext, PassEnd
  <2>3. tpc' # "toPeriod"
    BY <1>4, <1>t DEF PassBegin, CallNext, PassEnd, Callbacks
  <2> QED BY <1>a, <2>1, <2>2, <2>3
<1>5. CASE DelayTick \/ DelayFound \/ DelayBreak \/ Found \/ PeriodTick \/ PeriodEnd
  <2>1. UNCHANGED <<table, at>> /\ mpc' = mpc /\ clean' = clean
    BY <1>5 DEF DelayTick, DelayFound, DelayBreak, Found, PeriodTick, PeriodEnd, Goto, history
  <2>2. at \in Entries /\ Ours(at) /\ tpc \notin {"unDelay", "unPeriod"} /\ tpc' # "toPeriod"
    BY <1>5, <1>a DEF DelayTick, DelayFound, DelayBreak, Found, PeriodTick, PeriodEnd, Goto, AtEntry
  <2> QED BY <1>a, <2>1, <2>2
<1>6. CASE Swap
  <2>1. Remove("delay") /\ at' = at /\ tpc = "swap" /\ tpc' = "toPeriod" /\ mpc' = mpc
        /\ clean' = clean
    BY <1>6 DEF Swap, Goto
  <2>2. at \in Entries /\ table[at] = "delay"
    BY <1>a, <2>1 DEF AtEntry
  <2>3. PICK n \in Entries : table[n] = "delay" /\ table' = [table EXCEPT ![n] = NoCallback]
    BY <2>1, <2>2, RemoveEntry
  <2>4. clean => mpc = "idle" /\ \A e \in Entries : Ours(e) => e = n
    BY <1>a, <2>1, <2>2, <2>3
  <2> QED BY <1>t, <2>1, <2>3, <2>4
<1>7. CASE ToPeriod
  <2>1. Add("period") /\ tpc = "toPeriod" /\ tpc' = "pass" /\ mpc' = mpc /\ clean' = clean
    BY <1>7 DEF ToPeriod, Goto
  <2>2. clean => mpc = "idle" /\ \A e \in Entries : ~Ours(e)
    BY <1>a, <2>1
  <2>3. CASE table' = table
    BY <2>1, <2>2, <2>3
  <2>4. ASSUME NEW n \in Entries, table' = [table EXCEPT ![n] = "period"] PROVE Alone'
    BY <1>t, <2>1, <2>2, <2>4
  <2> QED BY <2>1, <2>3, <2>4, AddEntry
<1>8. ASSUME NEW pc, NEW cb, <<pc, cb>> \in {<<"unDelay", "delay">>, <<"unPeriod", "period">>},
             Gone(pc, cb)
      PROVE  Alone'
  <2>1. Remove(cb) /\ tpc = pc /\ tpc' = "pass" /\ mpc' = mpc /\ clean' = clean
    BY <1>8 DEF Gone, Goto
  <2>2. at \in Entries /\ table[at] = cb /\ pc \in {"unDelay", "unPeriod"}
        /\ cb \in {"delay", "period"}
    BY <1>a, <1>8, <2>1 DEF AtEntry
  <2>3. PICK n \in Entries : table[n] = cb /\ table' = [table EXCEPT ![n] = NoCallback]
    BY <2>1, <2>2, RemoveEntry
  <2>4. \A e \in Entries : table'[e] \in {"delay", "period"} => Ours(e) /\ e # n
    BY <1>t, <2>3
  <2>5. clean => \A e, f \in Entries \ {n} : Ours(e) /\ Ours(f) => e = f
    BY <1>a, <2>1, <2>2, <2>3
  <2>6. clean /\ mpc # "idle" => \A e \in Entries : Ours(e) => e = n
    BY <1>a, <2>1, <2>2, <2>3
  <2> QED BY <2>1, <2>4, <2>5, <2>6
<1>9. CASE CallTick
  <2>1. UNCHANGED <<table, at>> /\ mpc' = mpc /\ clean' = clean
        /\ tpc \notin {"unDelay", "unPeriod", "toPeriod"} /\ tpc' # "toPeriod"
    BY <1>9 DEF CallTick
  <2> QED BY <1>a, <2>1
<1>10. CASE CallMove \/ CallTalk \/ CallEnd
  <2>1. /\ Add("call") \/ Remove("call")
        /\ mpc' = mpc /\ clean' = clean
        /\ tpc \notin {"unDelay", "unPeriod", "toPeriod"} /\ tpc' # "toPeriod"
    BY <1>10 DEF CallMove, CallTalk, CallEnd, Goto
  <2> QED BY <1>a, <1>t, <2>1, CallEntry
<1>11. CASE Ring
  <2>1. Add("call") /\ mpc' = mpc /\ clean' = clean /\ UNCHANGED <<tpc, at>>
    BY <1>11 DEF Ring
  <2> QED BY <1>a, <1>t, <2>1, CallEntry
<1>12. CASE Press \/ Settings \/ UNCHANGED vars
  <2>1. UNCHANGED <<table, tpc, at>> /\ mpc' = mpc /\ clean' = clean
    BY <1>12 DEF Press, Settings, vars, timer, history
  <2> QED BY <1>a, <2>1
<1> QED BY <1>1, <1>2, <1>3, <1>4, <1>5, <1>6, <1>7, <1>8, <1>9, <1>10, <1>11, <1>12
        DEF Next, MotionStep, TimerStep, StartPeriod, StartDelay

LEMMA ToldStep == RunInv /\ OnceInv /\ [Next]_vars => Told' /\ AtOnce'
<1> SUFFICES ASSUME RunInv, OnceInv, [Next]_vars PROVE Told' /\ AtOnce'
  OBVIOUS
<1> USE DEF Told, AtOnce, Ours, Leaves, NoCallback
<1>t. table \in [Entries -> Callbacks]
  BY DEF RunInv, TypeOK, TableType, Callbacks
<1>a. AtEntry /\ Alone /\ Told /\ AtOnce
  BY DEF RunInv, OnceInv
<1>n. told = 0 => told + 1 = 1
  OBVIOUS
<1>d. alarm_delay' = alarm_delay
  BY DEF Next, MotionStep, TimerStep, vars, params, Detect, Refuse, TakePicture, FoundAtOnce,
     StartPeriod, StartDelay, StartTimer, PassBegin, CallNext, PassEnd, DelayTick, DelayFound,
     DelayBreak, Found, Swap, ToPeriod, PeriodTick, PeriodEnd, Gone, CallTick, CallMove,
     CallTalk, CallEnd, Press, Ring, Settings
<1>1. CASE Detect
  <2>1. table' = table /\ told' = 0 /\ mpc' = "check"
    BY <1>1 DEF Detect, timer
  <2> QED BY <1>a, <1>d, <2>1
<1>2. CASE Refuse \/ TakePicture
  <2>1. UNCHANGED <<table, tpc, told, clean>> /\ mpc = "check" /\ mpc' \in {"idle", "register"}
    BY <1>2 DEF Refuse, TakePicture, timer, history
  <2> QED BY <1>a, <1>d, <2>1
<1>3. CASE FoundAtOnce
  <2>1. table' = table /\ told' = told + 1 /\ clean' = clean /\ mpc = "register"
        /\ mpc' = "period" /\ alarm_delay = 0
    BY <1>3 DEF FoundAtOnce, timer, OnFoundAlarm
  <2> QED BY <1>a, <1>d, <1>n, <2>1
<1>4. ASSUME NEW pc, NEW cb, <<pc, cb>> \in {<<"register", "delay">>, <<"period", "period">>},
             StartTimer(pc, cb), pc = "register" => alarm_delay > 0
      PROVE  Told' /\ AtOnce'
  <2>1. Add(cb) /\ UNCHANGED <<tpc, told, clean>> /\ mpc = pc /\ mpc' = "idle"
    BY <1>4 DEF StartTimer
  <2>2. cb = "delay" => mpc = "register" /\ alarm_delay # 0
    BY <1>4, <2>1
  <2>3. CASE table' = table
    BY <1>a, <1>d, <2>1, <2>3
  <2>4. ASSUME NEW n \in Entries, table' = [table EXCEPT ![n] = cb] PROVE Told' /\ AtOnce'
    <3>1. \A e \in Entries : table'[e] = "delay" => table[e] = "delay" \/ cb = "delay"
      BY <1>t, <2>4
    <3> QED BY <1>a, <1>d, <2>1, <2>2, <3>1
  <2> QED BY <2>1, <2>3, <2>4, AddEntry
<1>5. CASE PassBegin \/ CallNext \/ PassEnd \/ PeriodTick \/ PeriodEnd \/ CallTick
  <2>1. UNCHANGED <<table, told, clean, mpc>> /\ tpc # "swap"
    BY <1>5 DEF PassBegin, CallNext, PassEnd, PeriodTick, PeriodEnd, CallTick, history
  <2> QED BY <1>a, <1>d, <2>1
<1>6. CASE DelayTick \/ DelayFound \/ DelayBreak
  <2>1. UNCHANGED <<table, told, clean, mpc>> /\ tpc # "swap"
    BY <1>6 DEF DelayTick, DelayFound, DelayBreak, history
  <2> QED BY <1>a, <1>d, <2>1
<1>7. CASE Found
  <2>1. UNCHANGED <<table, clean, mpc>> /\ told' = told + 1 /\ tpc = "found" /\ tpc' = "swap"
    BY <1>7 DEF Found, OnFoundAlarm, Goto
  <2>2. at \in Entries /\ table[at] = "delay"
    BY <1>a, <2>1 DEF AtEntry
  <2>3. clean => told = 0 /\ mpc = "idle"
    BY <1>a, <2>1, <2>2 DEF Alone
  <2> QED BY <1>a, <1>d, <1>n, <2>1, <2>3
<1>8. CASE Swap
  <2>1. Remove("delay") /\ UNCHANGED <<told, clean, mpc>> /\ tpc = "swap"
    BY <1>8 DEF Swap, Goto
  <2>2. at \in Entries /\ table[at] = "delay"
    BY <1>a, <2>1 DEF AtEntry
  <2>3. PICK n \in Entries : table[n] = "delay" /\ table' = [table EXCEPT ![n] = NoCallback]
    BY <2>1, <2>2, RemoveEntry
  <2>4. clean => mpc = "idle" /\ \A e \in Entries : Ours(e) => e = n
    BY <1>a, <2>1, <2>2, <2>3 DEF Alone
  <2>5. \A e \in Entries : table'[e] = "delay" => table[e] = "delay" /\ e # n
    BY <1>t, <2>3
  <2> QED BY <1>a, <1>d, <2>1, <2>4, <2>5
<1>9. CASE ToPeriod
  <2>1. Add("period") /\ UNCHANGED <<told, clean, mpc>> /\ tpc = "toPeriod"
    BY <1>9 DEF ToPeriod, Goto
  <2>2. \A e \in Entries : table'[e] = "delay" => table[e] = "delay"
    BY <1>t, <2>1, AddEntry
  <2> QED BY <1>a, <1>d, <2>1, <2>2
<1>10. ASSUME NEW pc \in {"unDelay", "unPeriod"}, NEW cb, Gone(pc, cb) PROVE Told' /\ AtOnce'
  <2>1. Remove(cb) /\ UNCHANGED <<told, clean, mpc>> /\ tpc = pc
    BY <1>10 DEF Gone, Goto
  <2>2. \A e \in Entries : table'[e] = "delay" => table[e] = "delay"
    BY <1>t, <2>1, RemoveEntry
  <2> QED BY <1>a, <1>d, <2>1, <2>2
<1>11. CASE CallMove \/ CallTalk \/ CallEnd \/ Ring
  <2>1. /\ Add("call") \/ Remove("call")
        /\ UNCHANGED <<told, clean, mpc>> /\ (tpc' = tpc \/ tpc # "swap")
    BY <1>11 DEF CallMove, CallTalk, CallEnd, Ring, Goto
  <2> QED BY <1>a, <1>d, <1>t, <2>1, CallEntry
<1>12. CASE Press \/ Settings \/ UNCHANGED vars
  <2>1. UNCHANGED <<table, tpc, told, clean, mpc>>
    BY <1>12 DEF Press, Settings, vars, timer, history
  <2> QED BY <1>a, <1>d, <2>1
<1> QED BY <1>1, <1>2, <1>3, <1>4, <1>5, <1>6, <1>7, <1>8, <1>9, <1>10, <1>11, <1>12
        DEF Next, MotionStep, TimerStep, StartPeriod, StartDelay

\* AnnouncedOnce: OnFoundAlarm tells the peers once of each such alarm, whatever calls,
\* settings and callbacks come between.
THEOREM AlarmAnnouncedOnce == Spec => []AnnouncedOnce
<1>1. RunInv /\ OnceInv /\ [Next]_vars => (RunInv /\ OnceInv)'
  BY RunStep, AloneStep, ToldStep DEF OnceInv
<1>2. OnceInv => AnnouncedOnce
  BY DEF OnceInv, Told, AnnouncedOnce
<1> QED BY InitRun, InitOnce, <1>1, <1>2, PTL DEF Spec
-----------------------------------------------------------------------------
(***************************************************************************)
(* What it is announced with.                                              *)
(***************************************************************************)
\* The flags and the time of an alarm last as long as bRunning, which only ResetBellAlarm
\* clears.
NameInv ==
  /\ flags => bRunning
  /\ cut \/ bRunning
  /\ mpc = "check" => alarms > 0
  /\ bRunning /\ mpc # "check" => szTime # NoTime
  /\ mpc = "register" /\ ~cut => szTime # NoTime
  /\ clean /\ tpc = "found" => szTime # NoTime

LEMMA InitName == Init => NameInv
<1> SUFFICES ASSUME Init PROVE NameInv
  OBVIOUS
<1>1. flags = FALSE /\ bRunning = FALSE /\ cut = TRUE /\ mpc = "idle" /\ tpc = "sleep"
  BY DEF Init
<1> QED BY <1>1 DEF NameInv

LEMMA NameStep == RunInv /\ OnceInv /\ NameInv /\ [Next]_vars => NameInv'
<1> SUFFICES ASSUME RunInv, OnceInv, NameInv, [Next]_vars PROVE NameInv'
  OBVIOUS
<1> USE DEF NameInv, ResetBellAlarm
<1>n. alarms \in Nat
  BY DEF RunInv, TypeOK, CountType
<1>f. clean /\ tpc = "found" => mpc = "idle"
  BY DEF RunInv, AtEntry, OnceInv, Alone, Ours, Leaves
<1>1. CASE Detect
  <2>1. bRunning' = TRUE /\ mpc' = "check" /\ alarms' = alarms + 1 /\ tpc' = tpc
        /\ clean' = Fresh
    BY <1>1 DEF Detect, timer
  <2>2. alarms' > 0
    BY <1>n, <2>1
  <2>3. tpc = "found" => ~Fresh
    BY DEF Fresh, RunInv, AtEntry
  <2> QED BY <2>1, <2>2, <2>3
<1>2. CASE Refuse
  <2>1. /\ mpc = "check" /\ mpc' = "idle" /\ tpc' = tpc /\ clean' = clean
        /\ bRunning' = FALSE /\ flags' = FALSE /\ cut' = TRUE
    BY <1>2 DEF Refuse, timer
  <2> QED BY <1>f, <2>1
<1>3. CASE TakePicture
  <2>1. /\ mpc = "check" /\ mpc' = "register" /\ szTime' = alarms /\ flags
        /\ bRunning' = bRunning /\ flags' = flags /\ cut' = cut
    BY <1>3 DEF TakePicture, CheckAlarmCondition, history
  <2>2. szTime' # NoTime
    BY <1>n, <2>1 DEF NoTime
  <2> QED BY <2>1, <2>2
<1>4. CASE FoundAtOnce \/ StartPeriod \/ StartDelay
  <2>1. /\ UNCHANGED <<bRunning, flags, szTime, cut, tpc, clean, alarms>> /\ mpc # "check"
        /\ mpc' \in {"idle", "period"}
    BY <1>4 DEF FoundAtOnce, StartPeriod, StartDelay, StartTimer, alarm, timer
  <2> QED BY <2>1
<1>5. CASE PassBegin \/ CallNext \/ PassEnd \/ DelayTick \/ Found \/ PeriodTick
  <2>1. UNCHANGED <<bRunning, flags, szTime, cut, clean, alarms, mpc>>
    BY <1>5 DEF PassBegin, CallNext, PassEnd, DelayTick, Found, PeriodTick, alarm, history
  <2>2. tpc' # "found"
    BY <1>5 DEF PassBegin, CallNext, PassEnd, DelayTick, Found, PeriodTick, Goto,
       RunInv, TypeOK, TableType, NoCallback
  <2> QED BY <2>1, <2>2
<1>6. CASE DelayFound
  <2>1. /\ UNCHANGED <<bRunning, flags, szTime, cut, clean, alarms, mpc>>
        /\ flags /\ tpc = "condition"
    BY <1>6 DEF DelayFound, CheckAlarmCondition, alarm, history
  <2>2. clean => mpc = "idle"
    BY <2>1 DEF RunInv, AtEntry, OnceInv, Alone, Ours, Leaves
  <2> QED BY <2>1, <2>2
<1>7. CASE DelayBreak \/ PeriodEnd \/ CallTick
  <2>1. /\ bRunning' = FALSE /\ flags' = FALSE /\ cut' = TRUE /\ mpc' = mpc /\ alarms' = alarms
        /\ tpc' # "found"
    BY <1>7 DEF DelayBreak, PeriodEnd, CallTick, Goto
  <2> QED BY <2>1
<1>8. CASE Swap \/ ToPeriod \/ Gone("unDelay", "delay") \/ Gone("unPeriod", "period")
           \/ CallMove \/ CallTalk
  <2>1. UNCHANGED <<bRunning, flags, szTime, cut, alarms, mpc>> /\ tpc' # "found"
    BY <1>8 DEF Swap, ToPeriod, Gone, CallMove, CallTalk, Goto, alarm
  <2> QED BY <2>1
<1>9. CASE CallEnd
  <2>1. /\ mpc' = mpc /\ alarms' = alarms /\ tpc' # "found"
        /\ \/ UNCHANGED <<bRunning, flags, szTime, cut>>
           \/ bRunning' = FALSE /\ flags' = FALSE /\ cut' = TRUE
    BY <1>9 DEF CallEnd, Goto, alarm
  <2> QED BY <2>1
<1>10. CASE Settings
  <2>1. /\ UNCHANGED <<bRunning, szTime, cut, alarms, mpc, tpc, clean>>
        /\ bRunning \/ flags' = flags
    BY <1>10 DEF Settings, timer, history
  <2> QED BY <2>1
<1>11. CASE Press \/ Ring \/ UNCHANGED vars
  <2>1. UNCHANGED <<bRunning, flags, szTime, cut, alarms, mpc, tpc, clean>>
    BY <1>11 DEF Press, Ring, vars, alarm, timer, history
  <2> QED BY <2>1
<1> QED BY <1>1, <1>2, <1>3, <1>4, <1>5, <1>6, <1>7, <1>8, <1>9, <1>10, <1>11
        DEF Next, MotionStep, TimerStep

\* Who announces: StartAlarmThread without a delay, and CallbackAlarmDelay.
LEMMA WhoAnnounces ==
  ASSUME RunInv, [Next]_vars, Announced
  PROVE  \/ FoundAtOnce
         \/ Found
<1> USE DEF Announced
<1>n. told \in Nat
  BY DEF RunInv, TypeOK, CountType
<1>0. told' # told /\ told' # 0
  <2>1. CASE told' \in Nat
    BY <1>n, <2>1
  <2> QED BY <1>n, <2>1, CountTypeKept DEF RunInv, TypeOK, CountType
<1>1. ~Detect
  BY <1>0 DEF Detect
<1>2. ~(Refuse \/ TakePicture \/ StartPeriod \/ StartDelay)
  BY <1>0 DEF Refuse, TakePicture, StartPeriod, StartDelay, StartTimer, history
<1>3. ~(PassBegin \/ CallNext \/ PassEnd \/ DelayTick \/ DelayFound \/ DelayBreak \/ Swap
        \/ ToPeriod \/ PeriodTick \/ PeriodEnd)
  BY <1>0 DEF PassBegin, CallNext, PassEnd, DelayTick, DelayFound, DelayBreak, Swap, ToPeriod,
     PeriodTick, PeriodEnd, history
<1>4. ~(Gone("unDelay", "delay") \/ Gone("unPeriod", "period") \/ CallTick \/ CallMove
        \/ CallTalk \/ CallEnd)
  BY <1>0 DEF Gone, CallTick, CallMove, CallTalk, CallEnd
<1>5. ~(Press \/ Ring \/ Settings \/ UNCHANGED vars)
  BY <1>0 DEF Press, Ring, Settings, vars, history
<1> QED BY <1>1, <1>2, <1>3, <1>4, <1>5 DEF Next, MotionStep, TimerStep

LEMMA NameAlways == Spec => [](RunInv /\ OnceInv /\ NameInv)
<1>1. Init => RunInv /\ OnceInv /\ NameInv
  BY InitRun, InitOnce, InitName
<1>2. RunInv /\ OnceInv /\ NameInv /\ [Next]_vars => (RunInv /\ OnceInv /\ NameInv)'
  BY RunStep, AloneStep, ToldStep, NameStep DEF OnceInv
<1> QED BY <1>1, <1>2, PTL DEF Spec

\* Named: the peers are told the alarm's time (szTime, the name of its picture), whatever
\* call's callback resets BellAlarm between the picture and the announcement.
THEOREM AlarmNamed == Spec => Named
<1>1. RunInv /\ OnceInv /\ NameInv /\ [Next]_vars =>
        [Announced /\ clean /\ (alarm_delay > 0 \/ ~cut) => szTime # NoTime]_vars
  <2> SUFFICES ASSUME RunInv, OnceInv, NameInv, [Next]_vars, Announced, clean,
                      alarm_delay > 0 \/ ~cut
               PROVE  szTime # NoTime
    OBVIOUS
  <2>1. CASE FoundAtOnce
    <3>1. mpc = "register" /\ alarm_delay = 0
      BY <2>1 DEF FoundAtOnce
    <3>2. ~cut
      BY <3>1
    <3> QED BY <3>1, <3>2 DEF NameInv
  <2>2. CASE Found
    BY <2>2 DEF Found, NameInv
  <2> QED BY <2>1, <2>2, WhoAnnounces
<1> QED BY <1>1, NameAlways, PTL DEF Spec, Named
-----------------------------------------------------------------------------
(***************************************************************************)
(* When it is announced, and when the next one is.                         *)
(***************************************************************************)
\* The call's callbacks have one entry, at most, while there is a call; one that ends the
\* call has reset the alarm, and none can have begun since.
CallPcs == {"call", "callMove", "callTalk", "callEnd"}

CallInv ==
  /\ ~bStartCall => kpc = "idle" /\ tpc \notin CallPcs /\ \A e \in Entries : table[e] # "call"
  /\ kpc = "ring" => tpc \notin CallPcs
  /\ kpc = "ring" \/ tpc = "callTalk" => \A e \in Entries : table[e] # "call"
  /\ \A e, f \in Entries : table[e] = "call" /\ table[f] = "call" => e = f
  /\ tpc \in {"call", "callMove", "callEnd"} => at \in Entries /\ table[at] = "call"
  /\ tpc = "callEnd" => cut

LEMMA InitCall == Init => CallInv
  BY DEF Init, CallInv, CallPcs, NoCallback

\* The alarm's entries come and go without touching the call's.
LEMMA AlarmEntry ==
  ASSUME table \in [Entries -> Callbacks], NEW cb \in {"delay", "period"}, Add(cb) \/ Remove(cb)
  PROVE  \A e \in Entries : table'[e] = "call" <=> table[e] = "call"
<1>1. CASE Add(cb)
  BY <1>1, AddEntry DEF NoCallback
<1>2. CASE Remove(cb)
  BY <1>2, RemoveEntry DEF NoCallback
<1> QED BY <1>1, <1>2

LEMMA CallStep == RunInv /\ CallInv /\ [Next]_vars => CallInv'
<1> SUFFICES ASSUME RunInv, CallInv, [Next]_vars PROVE CallInv'
  OBVIOUS
<1> USE DEF CallInv, CallPcs, NoCallback
<1>t. table \in [Entries -> Callbacks]
  BY DEF RunInv, TypeOK, TableType, Callbacks
<1>1. CASE Detect
  BY <1>1 DEF Detect, call, timer
<1>2. CASE Refuse \/ TakePicture \/ FoundAtOnce
  BY <1>2 DEF Refuse, TakePicture, FoundAtOnce, ResetBellAlarm, call, timer, history
<1>3. ASSUME NEW pc, NEW cb \in {"delay", "period"}, StartTimer(pc, cb) PROVE CallInv'
  BY <1>3, <1>t, AlarmEntry DEF StartTimer, call
<1>4. CASE CallNext
  BY <1>4, <1>t DEF CallNext, call, history, Lowest, Later, Callbacks
<1>5. CASE PassBegin \/ PassEnd \/ DelayTick \/ DelayFound \/ Found \/ PeriodTick
  BY <1>5 DEF PassBegin, PassEnd, DelayTick, DelayFound, Found, PeriodTick, Goto, call, history
<1>6. CASE DelayBreak \/ PeriodEnd \/ CallTick
  BY <1>6 DEF DelayBreak, PeriodEnd, CallTick, ResetBellAlarm, Goto, call, history
<1>7. CASE Swap \/ ToPeriod
  <2>1. /\ \E cb \in {"delay", "period"} : Add(cb) \/ Remove(cb)
        /\ UNCHANGED <<kpc, bStartCall, cut, at>> /\ tpc' \notin CallPcs
    BY <1>7 DEF Swap, ToPeriod, Goto, call
  <2> QED BY <1>t, <2>1, AlarmEntry
<1>8. CASE Gone("unDelay", "delay") \/ Gone("unPeriod", "period")
  <2>1. /\ \E cb \in {"delay", "period"} : Add(cb) \/ Remove(cb)
        /\ UNCHANGED <<kpc, bStartCall, cut, at>> /\ tpc' \notin CallPcs
    BY <1>8 DEF Gone, Goto, call
  <2> QED BY <1>t, <2>1, AlarmEntry
<1>9. CASE CallMove \/ CallEnd
  <2>1. /\ Remove("call") /\ at \in Entries /\ table[at] = "call" /\ tpc \in CallPcs
        /\ tpc' \in {"callTalk", "pass"} /\ kpc' = kpc /\ bStartCall
        /\ tpc' = "callTalk" => bStartCall' = bStartCall
    BY <1>9 DEF CallMove, CallEnd, Goto, call
  <2>2. PICK n \in Entries : table[n] = "call" /\ table' = [table EXCEPT ![n] = NoCallback]
    BY <2>1, RemoveEntry
  <2>3. \A e \in Entries : table'[e] # "call"
    BY <1>t, <2>2
  <2>4. kpc' = "idle"
    BY <2>1 DEF RunInv, TypeOK, ControlType
  <2> QED BY <2>1, <2>3, <2>4
<1>10. CASE CallTalk
  <2>1. /\ Add("call") /\ tpc = "callTalk" /\ tpc' = "pass"
        /\ UNCHANGED <<kpc, bStartCall>>
    BY <1>10 DEF CallTalk, Goto, call
  <2>2. \A e, f \in Entries : table'[e] = "call" /\ table'[f] = "call" => e = f
    BY <1>t, <2>1, AddEntry
  <2> QED BY <2>1, <2>2
<1>11. CASE Ring
  <2>1. /\ Add("call") /\ kpc = "ring" /\ kpc' = "idle" /\ tpc' = tpc
        /\ UNCHANGED <<bStartCall, cut>>
    BY <1>11 DEF Ring
  <2>2. \A e, f \in Entries : table'[e] = "call" /\ table'[f] = "call" => e = f
    BY <1>t, <2>1, AddEntry
  <2> QED BY <2>1, <2>2
<1>12. CASE Press \/ Settings \/ UNCHANGED vars
  BY <1>12 DEF Press, Settings, vars, timer, call, history
<1> QED BY <1>1, <1>2, <1>3, <1>4, <1>5, <1>6, <1>7, <1>8, <1>9, <1>10, <1>11, <1>12
        DEF Next, MotionStep, TimerStep, StartPeriod, StartDelay

\* The callback cb has an entry that is to stay; the pass under way has still to count with it.
Live(cb) == \E e \in Entries : table[e] = cb /\ ~Leaves(e)
Due(cb) == tpc = cb \/ (tpc # "sleep" /\ \E e \in Entries : e > at /\ table[e] = cb)

\* nTimerAlarm against the passes since the callback was registered, or since the peers were
\* told: the pass under way at the registration may count, no other counts twice.
Near(passes, limit) == passes >= limit \/ nTimerAlarm <= passes + 1
Short(passes, limit) == passes >= limit \/ nTimerAlarm <= passes
Counts(cb, passes, limit) ==
  clean /\ mpc = "idle" /\ Live(cb) =>
    Near(passes, limit) /\ (Due(cb) => Short(passes, limit))

DelayReady == clean /\ tpc \in {"condition", "found"} => age >= alarm_delay - 1
PeriodReady == clean /\ ~cut /\ tpc = "endPeriod" => quiet >= QuietTime - 1

CountInv ==
  /\ Counts("delay", age, alarm_delay) /\ DelayReady
  /\ Counts("period", quiet, QuietTime) /\ PeriodReady
  /\ clean /\ tpc = "toPeriod" => nTimerAlarm = 0
  /\ tpc = "sleep" => at = 0

\* What is not long ago was this alarm, which still runs.
SpacedInv == quiet >= QuietTime - 1 \/ (clean /\ ~cut /\ told = 1)

TimeInv == RunInv /\ OnceInv /\ NameInv /\ CallInv /\ CountInv

LEMMA TickCount ==
  ASSUME NEW n \in Nat, NEW m, NEW p \in Nat, NEW l \in Nat, NEW top \in Nat, l <= top,
         p >= l \/ n <= p, m = Older(n, top)
  PROVE  (p >= l \/ m <= p + 1) /\ (m >= l => p >= l - 1)
  BY DEF Older

LEMMA PassCount ==
  ASSUME NEW n \in Nat, NEW p \in Nat, NEW q, NEW l \in Nat, p >= l \/ n <= p + 1,
         q = Older(p, l)
  PROVE  (q >= l \/ n <= q) /\ (q >= l \/ n <= q + 1)
  BY DEF Older

LEMMA ZeroCount == ASSUME NEW p \in Nat PROVE 0 <= p /\ 0 <= p + 1
  OBVIOUS

LEMMA InitCount == Init => CountInv
<1> SUFFICES ASSUME Init PROVE CountInv
  OBVIOUS
<1>1. tpc = "sleep" /\ at = 0 /\ \A e \in Entries : table[e] = NoCallback
  BY DEF Init
<1> QED BY <1>1 DEF CountInv, Counts, Live, DelayReady, PeriodReady, NoCallback
LEMMA CountStep == TimeInv /\ [Next]_vars => CountInv'
<1> SUFFICES ASSUME TimeInv, [Next]_vars PROVE CountInv'
  OBVIOUS
<1> DEFINE Both == Counts("delay", age, alarm_delay) /\ Counts("period", quiet, QuietTime)
           Rest == /\ DelayReady /\ PeriodReady
                   /\ clean /\ tpc = "toPeriod" => nTimerAlarm = 0
                   /\ tpc = "sleep" => at = 0
<1>i. RunInv /\ OnceInv /\ NameInv /\ CallInv /\ AtEntry /\ Alone /\ Both /\ Rest
  BY DEF TimeInv, RunInv, OnceInv, CountInv
<1>t. table \in [Entries -> Callbacks]
  BY <1>i DEF RunInv, TypeOK, TableType, Callbacks
<1>n. /\ nTimerAlarm \in Nat /\ age \in Nat /\ quiet \in Nat /\ alarm_delay \in Nat
      /\ QuietTime \in Nat /\ Longest \in Nat
      /\ alarm_delay <= Longest /\ QuietTime <= Longest
  BY <1>i, AlarmAssumption DEF RunInv, TypeOK, CountType, Longest
<1>z. at \in 0 .. MaxTimer /\ Entries = 1 .. MaxTimer /\ MaxTimer \in Nat
  BY <1>i, TimerAssumption DEF RunInv, TypeOK, TableType, Entries
<1>d. alarm_delay' = alarm_delay
  BY DEF Next, MotionStep, TimerStep, vars, params, Detect, Refuse, TakePicture, FoundAtOnce,
     StartPeriod, StartDelay, StartTimer, PassBegin, CallNext, PassEnd, DelayTick, DelayFound,
     DelayBreak, Found, Swap, ToPeriod, PeriodTick, PeriodEnd, Gone, CallTick, CallMove,
     CallTalk, CallEnd, Press, Ring, Settings
\* A clean alarm at an entry of the timer thread that is to stay has no other.
<1>o. ASSUME clean, tpc \in {"delay", "condition", "found", "swap", "period", "endPeriod"}
      PROVE  mpc = "idle" /\ \A e \in Entries : Ours(e) => e = at
  BY <1>i, <1>o DEF AtEntry, Alone, Ours, Leaves
\* The counts are kept by what neither ticks nor adds an entry.
<1>k. ASSUME clean' = clean, mpc' = "idle" => mpc = "idle", nTimerAlarm' = nTimerAlarm,
             age' = age, quiet' = quiet \/ quiet' = QuietTime,
             \A cb \in {"delay", "period"} : (Live(cb)' => Live(cb)) /\ (Due(cb)' => Due(cb))
      PROVE  Both'
  <2>1. Counts("delay", age, alarm_delay)'
    BY <1>i, <1>d, <1>k DEF Counts, Near, Short
  <2>2. CASE quiet' = quiet
    BY <1>i, <1>k, <2>1, <2>2 DEF Counts, Near, Short
  <2>3. CASE quiet' = QuietTime
    <3>1. quiet' >= QuietTime
      BY <1>n, <2>3
    <3> QED BY <2>1, <3>1 DEF Counts, Near, Short
  <2> QED BY <1>k, <2>2, <2>3
\* They hold when the counter is reset.
<1>r. ASSUME nTimerAlarm' = 0, age' \in Nat, quiet' \in Nat PROVE Both'
  <2>1. 0 <= age' /\ 0 <= age' + 1 /\ 0 <= quiet' /\ 0 <= quiet' + 1
    BY <1>r, ZeroCount
  <2> QED BY <1>r, <2>1 DEF Counts, Near, Short
<1>1. CASE Detect
  <2>1. clean' = Fresh /\ mpc' = "check" /\ UNCHANGED <<table, tpc, at, nTimerAlarm>>
    BY <1>1 DEF Detect, timer
  <2>2. Fresh => tpc \notin {"condition", "found", "endPeriod", "toPeriod"}
    BY <1>i DEF Fresh, AtEntry
  <2> QED BY <1>i, <2>1, <2>2 DEF CountInv, Counts, DelayReady, PeriodReady
<1>2. CASE Refuse
  <2>1. /\ clean' = clean /\ mpc = "check" /\ cut' = TRUE /\ age' = age
        /\ UNCHANGED <<table, tpc, at, nTimerAlarm>>
    BY <1>2 DEF Refuse, ResetBellAlarm, timer
  <2>2. \A cb \in {"delay", "period"} : clean => ~Live(cb)'
    BY <1>i, <2>1 DEF Alone, Ours, Live, Leaves
  <2> QED BY <1>i, <1>d, <2>1, <2>2 DEF CountInv, Counts, DelayReady, PeriodReady
<1>3. CASE TakePicture \/ FoundAtOnce
  <2>1. /\ clean' = clean /\ mpc = mpc /\ mpc # "idle" /\ mpc' # "idle" /\ age' = age /\ cut' = cut
        /\ UNCHANGED <<table, tpc, at, nTimerAlarm>>
    BY <1>3 DEF TakePicture, FoundAtOnce, timer, history
  <2>2. clean => tpc # "endPeriod"
    BY <1>o, <2>1
  <2> QED BY <1>i, <1>d, <2>1, <2>2 DEF CountInv, Counts, DelayReady, PeriodReady
<1>4. ASSUME NEW pc \in {"register", "period"}, NEW cb, StartTimer(pc, cb) PROVE CountInv'
  <2>1. /\ clean' = clean /\ mpc # "idle" /\ age' = 0 /\ nTimerAlarm' = 0 /\ quiet' = quiet
        /\ UNCHANGED <<tpc, at>>
    BY <1>4 DEF StartTimer
  <2>2. clean => tpc \notin {"condition", "found", "endPeriod"}
    BY <1>o, <2>1
  <2>3. Both'
    BY <1>r, <1>n, <2>1
  <2> QED BY <1>i, <2>1, <2>2, <2>3 DEF CountInv, DelayReady, PeriodReady
<1>5. CASE PassBegin
  <2>1. /\ tpc = "sleep" /\ tpc' = "pass" /\ UNCHANGED <<table, mpc, clean, nTimerAlarm>>
        /\ age' = Older(age, alarm_delay) /\ quiet' = Older(quiet, QuietTime)
    BY <1>5 DEF PassBegin
  <2>2. \A cb \in {"delay", "period"} : Live(cb)' => Live(cb)
    BY <2>1 DEF Live, Leaves
  <2>3. Near(age, alarm_delay) => Near(age, alarm_delay)' /\ Short(age, alarm_delay)'
    BY <1>n, <1>d, <2>1, PassCount DEF Near, Short
  <2>4. Near(quiet, QuietTime) => Near(quiet, QuietTime)' /\ Short(quiet, QuietTime)'
    BY <1>n, <2>1, PassCount DEF Near, Short
  <2>5. Both'
    BY <1>i, <2>1, <2>2, <2>3, <2>4 DEF Counts
  <2> QED BY <2>1, <2>5 DEF CountInv, DelayReady, PeriodReady
<1>6. CASE CallNext
  <2>1. /\ tpc = "pass"
        /\ UNCHANGED <<table, mpc, clean, cut, nTimerAlarm, age, quiet>>
    BY <1>6 DEF CallNext, history
  <2>2. PICK e \in Entries : e > at /\ at' = e /\ tpc' = table[e] /\ table[e] # NoCallback
    BY <1>6 DEF CallNext, Lowest, Later
  <2>3. tpc' \in {"delay", "period", "call"}
    BY <1>t, <2>2 DEF Callbacks
  <2>4. \A cb \in {"delay", "period"} : Live(cb)' => Live(cb)
    BY <2>1, <2>3 DEF Live, Leaves
  <2>5. \A f \in Entries : f > at' => f > at
    BY <1>z, <2>2
  <2>6. \A cb \in {"delay", "period"} : Due(cb)' => Due(cb)
    BY <2>1, <2>2, <2>5 DEF Due
  <2>7. Both'
    BY <1>k, <2>1, <2>4, <2>6
  <2> QED BY <2>3, <2>7 DEF CountInv, DelayReady, PeriodReady
<1>7. CASE PassEnd
  <2>1. /\ tpc = "pass" /\ tpc' = "sleep" /\ at' = 0
        /\ UNCHANGED <<table, mpc, clean, cut, nTimerAlarm, age, quiet>>
    BY <1>7 DEF PassEnd, history
  <2>2. \A cb \in {"delay", "period"} : (Live(cb)' => Live(cb)) /\ ~Due(cb)'
    BY <2>1 DEF Live, Leaves, Due
  <2>3. Both'
    BY <1>k, <2>1, <2>2
  <2> QED BY <2>1, <2>3 DEF CountInv, DelayReady, PeriodReady
<1>8. CASE DelayTick
  <2>1. /\ tpc = "delay" /\ tpc' \in {"unDelay", "condition", "pass"}
        /\ UNCHANGED <<table, at, mpc, clean, age, quiet>>
        /\ nTimerAlarm' = Older(nTimerAlarm, Longest)
        /\ tpc' = "condition" => nTimerAlarm' >= alarm_delay
    BY <1>8 DEF DelayTick, Goto, Tick, history
  <2>2. at \in Entries /\ table[at] = "delay" /\ Live("delay") /\ Due("delay")
    BY <1>i, <2>1 DEF AtEntry, Live, Leaves, Due
  <2>3. clean => mpc = "idle" /\ \A e \in Entries : Ours(e) => e = at
    BY <1>o, <2>1
  <2>4. \A e \in Entries : e > at => e # at
    BY <1>z
  <2>5. clean => ~Due("delay")' /\ ~Live("period")'
    BY <2>1, <2>2, <2>3, <2>4 DEF Due, Live, Ours
  <2>6. clean => Short(age, alarm_delay)
    BY <1>i, <2>2, <2>3 DEF Counts
  <2>7. Short(age, alarm_delay) =>
          Near(age, alarm_delay)' /\ (tpc' = "condition" => age' >= alarm_delay' - 1)
    BY <1>n, <1>d, <2>1, TickCount DEF Near, Short
  <2>8. Both'
    BY <2>1, <2>5, <2>6, <2>7 DEF Counts
  <2> QED BY <2>1, <2>6, <2>7, <2>8 DEF CountInv, DelayReady, PeriodReady
<1>9. CASE DelayFound \/ DelayBreak
  <2>1. /\ tpc = "condition" /\ tpc' \in {"found", "unDelay"}
        /\ UNCHANGED <<table, at, mpc, clean, age, quiet, nTimerAlarm>>
    BY <1>9 DEF DelayFound, DelayBreak, Goto, history
  <2>2. \A cb \in {"delay", "period"} : (Live(cb)' => Live(cb)) /\ (Due(cb)' => Due(cb))
    BY <2>1 DEF Live, Leaves, Due
  <2>3. Both'
    BY <1>k, <2>1, <2>2
  <2> QED BY <1>i, <1>d, <2>1, <2>3 DEF CountInv, DelayReady, PeriodReady
<1>10. CASE Found
  <2>1. /\ tpc = "found" /\ tpc' = "swap"
        /\ UNCHANGED <<table, at, mpc, clean, age, nTimerAlarm>>
    BY <1>10 DEF Found, Goto
  <2>2. at \in Entries /\ table[at] = "delay"
    BY <1>i, <2>1 DEF AtEntry
  <2>3. (Live("delay")' => Live("delay")) /\ (Due("delay")' => Due("delay"))
    BY <2>1 DEF Live, Leaves, Due
  <2>4. clean => ~Live("period")'
    BY <1>o, <2>1, <2>2 DEF Live, Ours
  <2>5. Both'
    BY <1>i, <1>d, <2>1, <2>3, <2>4 DEF Counts, Near, Short
  <2> QED BY <2>1, <2>5 DEF CountInv, DelayReady, PeriodReady
<1>11. CASE Swap
  <2>1. tpc' = "toPeriod" /\ nTimerAlarm' = 0 /\ age' = age /\ quiet' = quiet
    BY <1>11 DEF Swap, Goto
  <2>2. Both'
    BY <1>r, <1>n, <2>1
  <2> QED BY <2>1, <2>2 DEF CountInv, DelayReady, PeriodReady
<1>12. CASE ToPeriod
  <2>1. /\ tpc = "toPeriod" /\ tpc' = "pass" /\ nTimerAlarm' = nTimerAlarm /\ age' = age
        /\ quiet' = quiet /\ clean' = clean
    BY <1>12 DEF ToPeriod, Goto
  <2>2. CASE clean
    BY <1>i, <1>r, <1>n, <2>1, <2>2 DEF CountInv, DelayReady, PeriodReady
  <2>3. CASE ~clean
    BY <2>1, <2>3 DEF CountInv, Counts, DelayReady, PeriodReady
  <2> QED BY <2>2, <2>3
<1>13. CASE PeriodTick
  <2>1. /\ tpc = "period" /\ tpc' \in {"endPeriod", "pass"}
        /\ UNCHANGED <<table, at, mpc, clean, cut, age, quiet, bRunning>>
        /\ nTimerAlarm' = Older(nTimerAlarm, Longest)
        /\ tpc' = "endPeriod" => nTimerAlarm' >= QuietTime \/ ~bRunning
    BY <1>13 DEF PeriodTick, Goto, Tick, history, alarm
  <2>2. at \in Entries /\ table[at] = "period" /\ Live("period") /\ Due("period")
    BY <1>i, <2>1 DEF AtEntry, Live, Leaves, Due
  <2>3. clean => mpc = "idle" /\ \A e \in Entries : Ours(e) => e = at
    BY <1>o, <2>1
  <2>4. \A e \in Entries : e > at => e # at
    BY <1>z
  <2>5. clean => ~Due("period")' /\ ~Live("delay")'
    BY <2>1, <2>2, <2>3, <2>4 DEF Due, Live, Ours
  <2>6. clean => Short(quiet, QuietTime)
    BY <1>i, <2>2, <2>3 DEF Counts
  <2>7. Short(quiet, QuietTime) =>
          Near(quiet, QuietTime)' /\ (nTimerAlarm' >= QuietTime => quiet' >= QuietTime - 1)
    BY <1>n, <2>1, TickCount DEF Near, Short
  <2>8. ~cut => bRunning
    BY <1>i DEF NameInv
  <2>9. Both'
    BY <2>1, <2>5, <2>6, <2>7 DEF Counts
  <2> QED BY <2>1, <2>6, <2>7, <2>8, <2>9 DEF CountInv, DelayReady, PeriodReady
<1>14. CASE PeriodEnd
  <2>1. /\ tpc = "endPeriod" /\ tpc' = "unPeriod"
        /\ UNCHANGED <<table, at, mpc, clean, age, quiet, nTimerAlarm>>
    BY <1>14 DEF PeriodEnd, Goto
  <2>2. \A cb \in {"delay", "period"} : (Live(cb)' => Live(cb)) /\ (Due(cb)' => Due(cb))
    BY <2>1 DEF Live, Leaves, Due
  <2>3. Both'
    BY <1>k, <2>1, <2>2
  <2> QED BY <2>1, <2>3 DEF CountInv, DelayReady, PeriodReady
<1>15. ASSUME NEW pc, NEW cb, <<pc, cb>> \in {<<"unDelay", "delay">>, <<"unPeriod", "period">>},
              Gone(pc, cb)
       PROVE  CountInv'
  <2>1. /\ Remove(cb) /\ tpc = pc /\ tpc' = "pass"
        /\ UNCHANGED <<at, mpc, clean, age, quiet, nTimerAlarm>>
    BY <1>15 DEF Gone, Goto
  <2>2. at \in Entries /\ table[at] = cb /\ pc \in {"unDelay", "unPeriod"}
        /\ cb \in {"delay", "period"}
    BY <1>i, <1>15, <2>1 DEF AtEntry
  <2>3. PICK n \in Entries : table[n] = cb /\ table' = [table EXCEPT ![n] = NoCallback]
    BY <2>1, <2>2, RemoveEntry
  <2>4. \A e \in Entries : table'[e] \in {"delay", "period"} => table'[e] = table[e] /\ e # n
    BY <1>t, <2>3 DEF NoCallback
  <2>5. ASSUME NEW c \in {"delay", "period"}, Live(c)' PROVE Live(c)
    <3>1. PICK e \in Entries : table'[e] = c
      BY <2>5 DEF Live
    <3>2. table[e] = c /\ e # n
      BY <2>4, <3>1
    <3>3. CASE e # at
      BY <3>2, <3>3 DEF Live, Leaves
    <3>4. CASE e = at
      BY <2>2, <2>3, <3>2, <3>4 DEF Live, Leaves
    <3> QED BY <3>3, <3>4
  <2>6. \A c \in {"delay", "period"} : Due(c)' => Due(c)
    BY <2>1, <2>2, <2>4 DEF Due
  <2>7. Both'
    BY <1>k, <2>1, <2>5, <2>6
  <2> QED BY <2>1, <2>7 DEF CountInv, DelayReady, PeriodReady
<1>16. CASE CallTick
  <2>1. /\ tpc = "call" /\ tpc' \in {"pass", "callEnd", "callMove"} /\ quiet' = QuietTime
        /\ UNCHANGED <<table, at, mpc, clean, age, nTimerAlarm>>
    BY <1>16 DEF CallTick
  <2>2. \A cb \in {"delay", "period"} : (Live(cb)' => Live(cb)) /\ (Due(cb)' => Due(cb))
    BY <2>1 DEF Live, Leaves, Due
  <2>3. Both'
    BY <1>k, <2>1, <2>2
  <2> QED BY <2>1, <2>3 DEF CountInv, DelayReady, PeriodReady
<1>17. CASE CallMove \/ CallTalk \/ CallEnd
  <2>1. /\ Add("call") \/ Remove("call")
        /\ tpc \in {"callMove", "callTalk", "callEnd"} /\ tpc' \in {"pass", "callTalk"}
        /\ UNCHANGED <<at, mpc, clean, age, quiet, nTimerAlarm>>
    BY <1>17 DEF CallMove, CallTalk, CallEnd, Goto
  <2>2. \A cb \in {"delay", "period"} : (Live(cb)' => Live(cb)) /\ (Due(cb)' => Due(cb))
    BY <1>t, <2>1, CallEntry DEF Live, Leaves, Due
  <2>3. Both'
    BY <1>k, <2>1, <2>2
  <2> QED BY <2>1, <2>3 DEF CountInv, DelayReady, PeriodReady
<1>18. CASE Ring
  <2>1. Add("call") /\ UNCHANGED <<tpc, at, mpc, clean, cut, age, quiet, nTimerAlarm>>
    BY <1>18 DEF Ring
  <2>2. \A cb \in {"delay", "period"} : (Live(cb)' => Live(cb)) /\ (Due(cb)' => Due(cb))
    BY <1>t, <2>1, CallEntry DEF Live, Leaves, Due
  <2>3. Both'
    BY <1>k, <2>1, <2>2
  <2> QED BY <1>i, <1>d, <2>1, <2>3 DEF CountInv, DelayReady, PeriodReady
<1>19. CASE Press \/ Settings \/ UNCHANGED vars
  <2>1. UNCHANGED <<table, tpc, at, mpc, clean, cut, age, quiet, nTimerAlarm>>
    BY <1>19 DEF Press, Settings, vars, timer, history
  <2>2. \A cb \in {"delay", "period"} : (Live(cb)' => Live(cb)) /\ (Due(cb)' => Due(cb))
    BY <2>1 DEF Live, Leaves, Due
  <2>3. Both'
    BY <1>k, <2>1, <2>2
  <2> QED BY <1>i, <1>d, <2>1, <2>3 DEF CountInv, DelayReady, PeriodReady
<1> QED BY <1>1, <1>2, <1>3, <1>4, <1>5, <1>6, <1>7, <1>8, <1>9, <1>10, <1>11, <1>12, <1>13,
           <1>14, <1>15, <1>16, <1>17, <1>18, <1>19
        DEF Next, MotionStep, TimerStep, StartPeriod, StartDelay

\* A clean alarm is announced for the first time.
LEMMA FirstTime ==
  ASSUME RunInv, OnceInv, clean, FoundAtOnce \/ Found PROVE told = 0
<1>1. CASE FoundAtOnce
  BY <1>1 DEF FoundAtOnce, OnceInv, Told
<1>2. CASE Found
  BY <1>2 DEF Found, RunInv, AtEntry, OnceInv, Told
<1> QED BY <1>1, <1>2

LEMMA SpacedStep == TimeInv /\ SpacedInv /\ [Next]_vars => SpacedInv'
<1> SUFFICES ASSUME TimeInv, SpacedInv, [Next]_vars PROVE SpacedInv'
  OBVIOUS
<1> DEFINE Long == quiet >= QuietTime - 1
<1>i. RunInv /\ OnceInv /\ NameInv /\ CallInv /\ PeriodReady
  BY DEF TimeInv, CountInv
<1>n. quiet \in Nat /\ QuietTime \in Nat
  BY <1>i, AlarmAssumption DEF RunInv, TypeOK, CountType
<1>o. QuietTime >= QuietTime - 1
  BY <1>n
<1>k. (Long => Long') /\ clean' = clean /\ cut' = cut /\ told' = told => SpacedInv'
  BY DEF SpacedInv
<1>l. Long /\ quiet' = quiet => SpacedInv'
  BY DEF SpacedInv
<1>1. CASE Detect
  <2>1. ~bRunning /\ quiet' = quiet
    BY <1>1 DEF Detect
  <2>2. Long
    BY <1>i, <2>1 DEF NameInv, SpacedInv
  <2> QED BY <1>l, <2>1, <2>2
<1>2. CASE Refuse
  <2>1. mpc = "check" /\ quiet' = quiet
    BY <1>2 DEF Refuse
  <2>2. Long
    BY <1>i, <2>1 DEF OnceInv, Told, SpacedInv
  <2> QED BY <1>l, <2>1, <2>2
<1>3. CASE FoundAtOnce \/ Found
  <2>1. /\ told' = told + 1 /\ UNCHANGED <<clean, cut>>
        /\ quiet' = IF clean /\ ~cut THEN 0 ELSE QuietTime
    BY <1>3 DEF FoundAtOnce, Found, OnFoundAlarm
  <2>2. CASE clean /\ ~cut
    <3>1. told = 0
      BY <1>i, <1>3, <2>2, FirstTime
    <3>2. told' = 1
      BY <2>1, <3>1
    <3> QED BY <2>1, <2>2, <3>2 DEF SpacedInv
  <2>3. CASE ~(clean /\ ~cut)
    <3>1. quiet' = QuietTime
      BY <2>1, <2>3
    <3> QED BY <1>o, <3>1 DEF SpacedInv
  <2> QED BY <2>2, <2>3
<1>4. CASE TakePicture \/ StartPeriod \/ StartDelay
  BY <1>4, <1>k DEF TakePicture, StartPeriod, StartDelay, StartTimer, history
<1>5. CASE PassBegin
  <2>1. quiet' = Older(quiet, QuietTime) /\ UNCHANGED <<clean, cut, told>>
    BY <1>5 DEF PassBegin
  <2>2. Long => Long'
    BY <1>n, <2>1 DEF Older
  <2> QED BY <1>k, <2>1, <2>2
<1>6. CASE CallNext \/ PassEnd \/ DelayTick \/ DelayFound \/ PeriodTick
  BY <1>6, <1>k DEF CallNext, PassEnd, DelayTick, DelayFound, PeriodTick, history
<1>7. CASE DelayBreak
  <2>1. tpc = "condition" /\ quiet' = quiet
    BY <1>7 DEF DelayBreak
  <2>2. Long
    BY <1>i, <2>1 DEF RunInv, AtEntry, OnceInv, Told, SpacedInv
  <2> QED BY <1>l, <2>1, <2>2
<1>8. CASE Swap \/ ToPeriod \/ Gone("unDelay", "delay") \/ Gone("unPeriod", "period")
           \/ CallMove \/ CallTalk
  BY <1>8, <1>k DEF Swap, ToPeriod, Gone, CallMove, CallTalk
<1>9. CASE PeriodEnd
  <2>1. tpc = "endPeriod" /\ quiet' = quiet
    BY <1>9 DEF PeriodEnd
  <2>2. Long
    BY <1>i, <2>1 DEF PeriodReady, SpacedInv
  <2> QED BY <1>l, <2>1, <2>2
<1>10. CASE CallTick
  <2>1. quiet' = QuietTime
    BY <1>10 DEF CallTick
  <2> QED BY <1>o, <2>1 DEF SpacedInv
<1>11. CASE CallEnd
  <2>1. tpc = "callEnd" /\ quiet' = quiet
    BY <1>11 DEF CallEnd
  <2>2. Long
    BY <1>i, <2>1 DEF CallInv, SpacedInv
  <2> QED BY <1>l, <2>1, <2>2
<1>12. CASE Press \/ Ring \/ Settings \/ UNCHANGED vars
  BY <1>12, <1>k DEF Press, Ring, Settings, vars, history
<1> QED BY <1>1, <1>2, <1>3, <1>4, <1>5, <1>6, <1>7, <1>8, <1>9, <1>10, <1>11, <1>12
        DEF Next, MotionStep, TimerStep

LEMMA TimeAlways == Spec => [](TimeInv /\ SpacedInv)
<1>1. Init => TimeInv /\ SpacedInv
  <2>1. Init => SpacedInv
    BY AlarmAssumption DEF Init, SpacedInv
  <2> QED BY <2>1, InitRun, InitOnce, InitName, InitCall, InitCount DEF TimeInv
<1>2. TimeInv /\ SpacedInv /\ [Next]_vars => (TimeInv /\ SpacedInv)'
  BY RunStep, AloneStep, ToldStep, NameStep, CallStep, CountStep, SpacedStep DEF TimeInv, OnceInv
<1> QED BY <1>1, <1>2, PTL DEF Spec

\* DelayHonoured: CallbackAlarmDelay announces such an alarm when alarm_delay passes of the
\* timer have come to it, and no sooner, the first perhaps the one under way when it began.
THEOREM AlarmDelayHonoured == Spec => DelayHonoured
<1>1. TimeInv /\ [Next]_vars => [Announced /\ clean => age >= alarm_delay - 1]_vars
  <2> SUFFICES ASSUME TimeInv, [Next]_vars, Announced, clean PROVE age >= alarm_delay - 1
    OBVIOUS
  <2>1. RunInv /\ DelayReady /\ age \in Nat
    BY DEF TimeInv, CountInv, RunInv, TypeOK, CountType
  <2>2. CASE FoundAtOnce
    <3>1. alarm_delay = 0
      BY <2>2 DEF FoundAtOnce
    <3> QED BY <2>1, <3>1
  <2>3. CASE Found
    BY <2>1, <2>3 DEF Found, DelayReady
  <2> QED BY <2>1, <2>2, <2>3, WhoAnnounces
<1> QED BY <1>1, TimeAlways, PTL DEF Spec, DelayHonoured

\* Spaced: after such an announcement CallbackAlarmPeriod lets none be made again for
\* BELL_ALARM_TIME_DELAY passes, unless a call came between.
THEOREM AlarmSpaced == Spec => Spaced
<1>1. TimeInv /\ SpacedInv /\ [Next]_vars => [Announced /\ clean => quiet >= QuietTime - 1]_vars
  <2> SUFFICES ASSUME TimeInv, SpacedInv, [Next]_vars, Announced, clean
               PROVE  quiet >= QuietTime - 1
    OBVIOUS
  <2>1. RunInv /\ OnceInv
    BY DEF TimeInv
  <2>2. told = 0
    BY <2>1, WhoAnnounces, FirstTime
  <2> QED BY <2>2 DEF SpacedInv
<1> QED BY <1>1, TimeAlways, PTL DEF Spec, Spaced
=============================================================================

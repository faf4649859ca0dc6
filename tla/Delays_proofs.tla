---------------------------- MODULE Delays_proofs ----------------------------
(***************************************************************************)
(* Theorems about the two threads that count seconds for others: the one   *)
(* that closes a door lock (module DoorLock) and OnDelayProc, which arms   *)
(* the alarm (module AlarmArming).  They hold for either door and lock     *)
(* type and every delay, and any number of threads and requests.           *)
(***************************************************************************)
EXTENDS DoorLock, AlarmArming, TLAPS

(***************************************************************************)
(* The door lock.                                                          *)
(***************************************************************************)
\* An opening that is under way keeps the flag set, unless it met a closing.
OpenersInv ==
  \A o \in Openers : opener[o] # "idle" /\ ~raced => bDoorOpening /\ ~Shutting

\* The counter is at most one ahead of the sleeps that ended since it was restarted;
\* between a sleep and the store of the count it is not ahead.
CountInv ==
  ~raced => /\ bOpenTimes <= seconds + 1 \/ seconds >= LockDelay
            /\ closer \in {"load", "store"} => bOpenTimes <= seconds \/ seconds >= LockDelay
            /\ Shutting => seconds >= LockDelay - 1

LockInv == TypeOK /\ OpenersInv /\ OpenIsWatched /\ CountInv

LEMMA LockRange ==
  ASSUME NEW b \in {0, 1}, LockType \in {0, 1}
  PROVE  SetBellLock(b) \in {0, 1}
  BY DEF SetBellLock

LEMMA LockPolarity == SetBellLock(0) # SetBellLock(1)
  BY DEF SetBellLock

LEMMA TypeStep == TypeOK /\ [Next]_vars => TypeOK'
<1> USE DoorLockAssumption DEF lockVars, history
<1> SUFFICES ASSUME TypeOK, [Next]_vars PROVE TypeOK'
  OBVIOUS
<1>1. ASSUME NEW o \in Openers, OpenFlag(o) PROVE TypeOK'
  BY <1>1 DEF TypeOK, OpenFlag
<1>2. ASSUME NEW o \in Openers, OpenTimes(o) PROVE TypeOK'
  BY <1>2 DEF TypeOK, OpenTimes
<1>3. ASSUME NEW o \in Openers, OpenPin(o) PROVE TypeOK'
  BY <1>3, LockRange DEF TypeOK, OpenPin
<1>4. CASE Wake
  BY <1>4 DEF TypeOK, Wake
<1>5. CASE IdleSleep
  BY <1>5 DEF TypeOK, IdleSleep
<1>6. CASE Load
  BY <1>6 DEF TypeOK, Load
<1>7. CASE Store
  BY <1>7 DEF TypeOK, Store
<1>8. CASE ShutFlag
  BY <1>8 DEF TypeOK, ShutFlag
<1>9. CASE ShutTimes
  BY <1>9 DEF TypeOK, ShutTimes
<1>10. CASE ShutPin
  BY <1>10, LockRange DEF TypeOK, ShutPin
<1>11. ASSUME NEW value \in {0, 1}, OnDoorUnlock(value) PROVE TypeOK'
  BY <1>11 DEF TypeOK, OnDoorUnlock
<1>12. CASE UNCHANGED vars
  BY <1>12 DEF TypeOK, vars
<1> QED
  BY <1>1, <1>2, <1>3, <1>4, <1>5, <1>6, <1>7, <1>8, <1>9, <1>10, <1>11, <1>12
  DEF Next, OpenStep, CloseStep

LEMMA InitLock == Init => LockInv
<1> SUFFICES ASSUME Init PROVE LockInv
  OBVIOUS
<1>1. pin \in {0, 1}
  BY DoorLockAssumption, LockRange DEF Init
<1>2. TypeOK
  BY <1>1 DEF Init, TypeOK
<1>3. OpenersInv /\ OpenIsWatched
  BY DEF Init, OpenersInv, OpenIsWatched
<1>4. CountInv
  BY DEF Init, CountInv, Shutting
<1> QED
  BY <1>2, <1>3, <1>4 DEF LockInv

LEMMA LockStep == LockInv /\ [Next]_vars => LockInv'
<1> SUFFICES ASSUME LockInv, [Next]_vars PROVE LockInv'
  OBVIOUS
<1> USE DoorLockAssumption DEF lockVars, history
<1>t. TypeOK /\ TypeOK'
  BY TypeStep DEF LockInv
<1>1. ASSUME NEW o \in Openers, OpenFlag(o) PROVE LockInv'
  <2>1. OpenersInv'
    BY <1>t, <1>1 DEF LockInv, TypeOK, OpenersInv, OpenFlag, Shutting
  <2>2. OpenIsWatched'
    BY <1>t, <1>1 DEF OpenIsWatched, OpenFlag
  <2>3. CountInv'
    BY <1>t, <1>1 DEF LockInv, TypeOK, CountInv, OpenFlag, Shutting
  <2> QED
    BY <1>t, <2>1, <2>2, <2>3 DEF LockInv
<1>2. ASSUME NEW o \in Openers, OpenTimes(o) PROVE LockInv'
  <2>1. OpenersInv'
    BY <1>t, <1>2 DEF LockInv, TypeOK, OpenersInv, OpenTimes, Shutting
  <2>2. OpenIsWatched'
    BY <1>t, <1>2 DEF LockInv, TypeOK, OpenIsWatched, OpenTimes, Shutting, IsOpen, SetBellLock
  <2>3. CountInv'
    <3>1. bOpenTimes' = 0 /\ seconds' = 0 /\ closer' = closer
      BY <1>2 DEF OpenTimes
    <3>2. ~raced' => ~Shutting'
      BY <1>2 DEF OpenTimes, Shutting
    <3> QED
      BY <3>1, <3>2 DEF CountInv
  <2> QED
    BY <1>t, <2>1, <2>2, <2>3 DEF LockInv
<1>3. ASSUME NEW o \in Openers, OpenPin(o) PROVE LockInv'
  <2>1. OpenersInv'
    BY <1>t, <1>3 DEF LockInv, TypeOK, OpenersInv, OpenPin, Shutting
  <2>2. OpenIsWatched'
    BY <1>t, <1>3 DEF LockInv, TypeOK, OpenersInv, OpenIsWatched, OpenPin, Shutting
  <2>3. CountInv'
    BY <1>t, <1>3 DEF LockInv, TypeOK, CountInv, OpenPin, Shutting
  <2> QED
    BY <1>t, <2>1, <2>2, <2>3 DEF LockInv
<1>4. CASE Wake \/ IdleSleep \/ Load
  <2>1. OpenersInv'
    BY <1>t, <1>4 DEF LockInv, TypeOK, OpenersInv, Wake, IdleSleep, Load, Shutting
  <2>2. OpenIsWatched'
    BY <1>t, <1>4
    DEF LockInv, TypeOK, OpenIsWatched, Wake, IdleSleep, Load, Shutting, IsOpen, SetBellLock
  <2>3. CountInv'
    <3>1. raced' = raced /\ bOpenTimes' = bOpenTimes /\ ~Shutting'
      BY <1>4 DEF Wake, IdleSleep, Load, Shutting
    <3>2. CASE Wake \/ IdleSleep
      <4>1. seconds' = IF seconds < LockDelay + 1 THEN seconds + 1 ELSE seconds
        BY <3>2 DEF Wake, IdleSleep
      <4>2. bOpenTimes \in Nat /\ seconds \in Nat
        BY <1>t DEF TypeOK
      <4>3. ~raced => bOpenTimes <= seconds + 1 \/ seconds >= LockDelay
        BY DEF LockInv, CountInv
      <4>4. ~raced => bOpenTimes <= seconds' \/ seconds' >= LockDelay
        BY <4>1, <4>2, <4>3
      <4>5. ~raced => bOpenTimes <= seconds' + 1 \/ seconds' >= LockDelay
        BY <4>1, <4>2, <4>4
      <4> QED
        BY <3>1, <4>4, <4>5 DEF CountInv
    <3>3. CASE Load
      <4>1. seconds' = seconds /\ closer = "load"
        BY <3>3 DEF Load
      <4> QED
        BY <3>1, <4>1 DEF LockInv, CountInv
    <3> QED
      BY <1>4, <3>2, <3>3
  <2> QED
    BY <1>t, <2>1, <2>2, <2>3 DEF LockInv
<1>5. CASE Store
  <2>1. OpenersInv'
    BY <1>t, <1>5 DEF LockInv, TypeOK, OpenersInv, Store, Shutting
  <2>2. OpenIsWatched'
    BY <1>t, <1>5 DEF LockInv, TypeOK, OpenIsWatched, Store, Shutting, IsOpen, SetBellLock
  <2>3. CountInv'
    BY <1>t, <1>5 DEF LockInv, TypeOK, CountInv, Store, Shutting
  <2> QED
    BY <1>t, <2>1, <2>2, <2>3 DEF LockInv
<1>6. CASE ShutFlag \/ ShutTimes
  <2>1. OpenersInv'
    BY <1>t, <1>6 DEF LockInv, TypeOK, OpenersInv, ShutFlag, ShutTimes, Shutting
  <2>2. OpenIsWatched'
    BY <1>t, <1>6 DEF OpenIsWatched, ShutFlag, ShutTimes, Shutting
  <2>3. CountInv'
    <3>1. /\ raced' = raced /\ seconds' = seconds /\ Shutting
          /\ closer' \in {"zero", "shut"} /\ bOpenTimes' \in {0, bOpenTimes}
      BY <1>6 DEF ShutFlag, ShutTimes, Shutting
    <3>2. seconds \in Nat /\ bOpenTimes \in Nat
      BY <1>t DEF TypeOK
    <3>3. ~raced => bOpenTimes' <= seconds + 1 \/ seconds >= LockDelay
      BY <3>1, <3>2 DEF LockInv, CountInv
    <3> QED
      BY <3>1, <3>3 DEF LockInv, CountInv
  <2> QED
    BY <1>t, <2>1, <2>2, <2>3 DEF LockInv
<1>7. CASE ShutPin
  <2>1. OpenersInv'
    BY <1>t, <1>7 DEF LockInv, TypeOK, OpenersInv, ShutPin, Shutting
  <2>2. OpenIsWatched'
    <3>1. pin' = SetBellLock(0)
      BY <1>7 DEF ShutPin
    <3>2. ~IsOpen'
      BY <3>1, LockPolarity DEF IsOpen, SetBellLock
    <3> QED
      BY <3>2 DEF OpenIsWatched
  <2>3. CountInv'
    BY <1>t, <1>7 DEF LockInv, TypeOK, CountInv, ShutPin, Shutting
  <2> QED
    BY <1>t, <2>1, <2>2, <2>3 DEF LockInv
<1>8. ASSUME NEW value \in {0, 1}, OnDoorUnlock(value) PROVE LockInv'
  <2>1. OpenersInv'
    BY <1>t, <1>8 DEF LockInv, TypeOK, OpenersInv, OnDoorUnlock, Shutting
  <2>2. OpenIsWatched'
    BY <1>t, <1>8 DEF OpenIsWatched, OnDoorUnlock
  <2>3. CountInv'
    BY <1>t, <1>8 DEF LockInv, TypeOK, CountInv, OnDoorUnlock, Shutting
  <2> QED
    BY <1>t, <2>1, <2>2, <2>3 DEF LockInv
<1>9. CASE UNCHANGED vars
  BY <1>9
  DEF LockInv, TypeOK, OpenersInv, OpenIsWatched, CountInv, Shutting, IsOpen, SetBellLock, vars
<1> QED
  BY <1>1, <1>2, <1>3, <1>4, <1>5, <1>6, <1>7, <1>8, <1>9 DEF Next, OpenStep, CloseStep

LEMMA LockAlways == Spec => []LockInv
  BY InitLock, LockStep, PTL DEF Spec

\* TypeOK: every variable of the lock keeps its type whatever the threads interleave.
THEOREM LockTypeCorrect == Spec => []TypeOK
  BY LockAlways, PTL DEF LockInv

\* OpenIsWatched: a lock opened for a time has its closing thread on the way
\* (StartOpenLock, ThreadOpenDelayProc), for any number of openers.
THEOREM LockIsWatched == Spec => []OpenIsWatched
  BY LockAlways, PTL DEF LockInv

\* NotCutShort: ThreadOpenDelayProc never shuts a timed opening early, for every delay.
THEOREM LockNotCutShort == Spec => NotCutShort
<1>1. LockInv /\ [Next]_vars
        => [(ShutPin /\ IsOpen /\ held = "none" /\ ~raced) => seconds >= LockDelay - 1]_vars
  BY DEF LockInv, CountInv, ShutPin, Shutting
<1> QED
  BY <1>1, LockAlways, PTL DEF Spec, NotCutShort
\* HoldDrivesTheLock: of lock 2 OnDoorUnlock and SetBell2Lock agree on the levels of the
\* pin, for either lock_type.
THEOREM HoldsDriveLockTwo == Door = 2 /\ Spec => HoldDrivesTheLock
<1>1. Door = 2 /\ LockInv /\ [Next]_vars
        => [(held' # held /\ held' # "none") => (IsOpen' <=> held' = "open")]_vars
  <2> SUFFICES ASSUME Door = 2, LockInv, [Next]_vars, held' # held, held' # "none"
               PROVE  IsOpen' <=> held' = "open"
    OBVIOUS
  <2>1. \E value \in {0, 1} : OnDoorUnlock(value)
    BY DEF Next, OpenStep, CloseStep, vars, history, OpenFlag, OpenTimes, OpenPin, Wake,
           IdleSleep, Load, Store, ShutFlag, ShutTimes, ShutPin
  <2>2. PICK value \in {0, 1} : OnDoorUnlock(value)
    BY <2>1
  <2> QED
    BY <2>2, DoorLockAssumption DEF OnDoorUnlock, IsOpen, SetBellLock
<1>2. Door = 2 => (Door = 2)'
  OBVIOUS
<1> QED
  BY <1>1, <1>2, LockAlways, PTL DEF Spec, HoldDrivesTheLock
-----------------------------------------------------------------------------
(***************************************************************************)
(* The arming of the alarm: types.                                         *)
(***************************************************************************)
LEMMA ArmingInitType == ArmingInit => ArmingTypeOK
<1> SUFFICES ASSUME ArmingInit PROVE ArmingTypeOK
  OBVIOUS
<1> USE DEF ArmingInit
<1>1. FlagType
  BY DEF FlagType
<1>2. ControlType
  BY DEF ControlType
<1>3. CountType
  BY DEF CountType
<1> QED BY <1>1, <1>2, <1>3 DEF ArmingTypeOK

LEMMA ArmingFlagTypeKept == ArmingTypeOK /\ [ArmingNext]_armingVars => FlagType'
<1> SUFFICES ASSUME ArmingTypeOK, [ArmingNext]_armingVars PROVE FlagType'
  OBVIOUS
<1> USE DEF ArmingTypeOK, FlagType
<1>1. ASSUME NEW t \in Setters, NEW on \in BOOLEAN, Request(t, on) PROVE FlagType'
  <2>1. bOn' \in [Setters -> BOOLEAN]
    BY <1>1 DEF Request
  <2>2. alarm_on' \in BOOLEAN /\ alarm_onok' \in BOOLEAN
    BY <1>1, Zenon DEF Request, params
  <2>3. bDoorOning' \in BOOLEAN /\ overlapped' \in BOOLEAN
    BY <1>1, Zenon DEF Request, arming
  <2> QED BY <2>1, <2>2, <2>3
<1>2. ASSUME NEW t \in Setters, SetterStep(t) PROVE FlagType'
  BY <1>2 DEF SetterStep, SetDoorOning, SetOnok, SetTime, params, arming
<1>3. CASE DelayStep
  BY <1>3, Zenon DEF DelayStep, Test, SleepEnds, Count, Limit, Arm, Clear, params, arming, setter
<1>4. CASE UNCHANGED armingVars
  BY <1>4, Zenon DEF armingVars, params, arming, setter
<1> QED BY <1>1, <1>2, <1>3, <1>4 DEF ArmingNext

LEMMA ArmingControlTypeKept == ArmingTypeOK /\ [ArmingNext]_armingVars => ControlType'
<1> SUFFICES ASSUME ArmingTypeOK, [ArmingNext]_armingVars PROVE ControlType'
  OBVIOUS
<1> USE DEF ArmingTypeOK, ControlType
<1>1. ASSUME NEW t \in Setters, NEW on \in BOOLEAN, Request(t, on) PROVE ControlType'
  BY <1>1 DEF Request
<1>2. ASSUME NEW t \in Setters, SetterStep(t) PROVE ControlType'
  BY <1>2 DEF SetterStep, SetDoorOning, SetOnok, SetTime
<1>3. CASE DelayStep
  BY <1>3 DEF DelayStep, Test, SleepEnds, Count, Limit, Arm, Clear, setter, Goto
<1>4. CASE UNCHANGED armingVars
  BY <1>4 DEF armingVars, setter
<1> QED BY <1>1, <1>2, <1>3, <1>4 DEF ArmingNext

LEMMA ArmingCountTypeKept == ArmingTypeOK /\ [ArmingNext]_armingVars => CountType'
<1> SUFFICES ASSUME ArmingTypeOK, [ArmingNext]_armingVars PROVE CountType'
  OBVIOUS
<1> USE DEF ArmingTypeOK, CountType
<1>1. ASSUME NEW t \in Setters, NEW on \in BOOLEAN, Request(t, on) PROVE CountType'
  BY <1>1 DEF Request, arming
<1>2. ASSUME NEW t \in Setters, SetterStep(t) PROVE CountType'
  BY <1>2 DEF SetterStep, SetDoorOning, SetOnok, SetTime, arming
<1>3. CASE DelayStep
  BY <1>3 DEF DelayStep, Test, SleepEnds, Count, Limit, Arm, Clear, arming, setter
<1>4. CASE UNCHANGED armingVars
  BY <1>4 DEF armingVars, arming, setter
<1> QED BY <1>1, <1>2, <1>3, <1>4 DEF ArmingNext

LEMMA ArmingTypeKept == ArmingTypeOK /\ [ArmingNext]_armingVars => ArmingTypeOK'
  BY ArmingFlagTypeKept, ArmingControlTypeKept, ArmingCountTypeKept DEF ArmingTypeOK

\* The variables of the arming keep their types.
THEOREM ArmingTypeCorrect == ArmingSpec => []ArmingTypeOK
  BY ArmingInitType, ArmingTypeKept, PTL DEF ArmingSpec
-----------------------------------------------------------------------------
(***************************************************************************)
(* A request that meets OnDelayProc asleep, and no other request, is not   *)
(* overtaken: the count stays behind the sleeps since alarm_onok was       *)
(* cleared.                                                                *)
(***************************************************************************)
Reached(n) == slept >= n \/ slept >= AlarmDelay

\* While a call of SetDoorOn is under way it is alone, and the thread asleep.
Alone ==
  \A t \in Setters : spc[t] # "idle" => Asleep /\ \A u \in Setters \ {t} : spc[u] = "idle"

Quiet == \A t \in Setters : spc[t] = "idle"

Paced ==
  /\ Asleep => Reached(nOnDelayTime)
  /\ dpc = "test" => Reached(nOnDelayTime)
  /\ dpc = "test" => (bDoorOning => Reached(nOnDelayTime + 1))
  /\ dpc = "count" => Reached(nOnDelayTime + 1)
  /\ dpc = "limit" => Reached(nOnDelayTime)
  /\ dpc = "arm" => slept >= AlarmDelay

PaceInv == ArmingTypeOK /\ (~overlapped => Alone /\ (Quiet => Paced))

LEMMA InitPace == ArmingInit => PaceInv
  BY ArmingInitType, ArmingAssumption DEF ArmingInit, PaceInv, Alone, Quiet, Paced, Reached, Asleep

LEMMA PaceKept == PaceInv /\ [ArmingNext]_armingVars => PaceInv'
<1> SUFFICES ASSUME PaceInv, [ArmingNext]_armingVars, ~overlapped'
             PROVE  Alone' /\ (Quiet' => Paced')
  BY ArmingTypeKept DEF PaceInv
<1>t. /\ spc \in [Setters -> {"idle", "oning", "onok", "time"}]
      /\ nOnDelayTime \in Nat /\ slept \in Nat /\ AlarmDelay \in Nat
  BY ArmingAssumption DEF PaceInv, ArmingTypeOK, ControlType, CountType
<1>1. ASSUME NEW t \in Setters, NEW on \in BOOLEAN, Request(t, on) PROVE Alone' /\ ~Quiet'
  BY <1>1, <1>t DEF Request, Calm, Alone, Quiet, Asleep
<1>2. ASSUME NEW t \in Setters, SetterStep(t) PROVE Alone' /\ (Quiet' => Paced')
  <2>1. overlapped' = overlapped /\ dpc' = dpc /\ spc[t] # "idle"
    BY <1>2 DEF SetterStep, SetDoorOning, SetOnok, SetTime
  <2>2. ~overlapped /\ Alone
    BY <2>1, Zenon DEF PaceInv
  <2>3. Asleep /\ \A u \in Setters \ {t} : spc[u] = "idle"
    BY <2>1, <2>2 DEF Alone
  <2>4. Alone'
    BY <1>2, <1>t, <2>1, <2>3 DEF SetterStep, SetDoorOning, SetOnok, SetTime, Alone, Asleep
  <2>5. Quiet' => SetTime(t)
    BY <1>2, <1>t DEF SetterStep, SetDoorOning, SetOnok, Quiet
  <2>6. SetTime(t) => nOnDelayTime' = 0 /\ slept' = slept
    BY DEF SetTime
  <2>7. SetTime(t) => Paced'
    BY <1>t, <2>1, <2>3, <2>6 DEF Paced, Reached, Asleep
  <2> QED BY <2>4, <2>5, <2>7
<1>3. CASE DelayStep
  <2>1. spc' = spc /\ (overlapped' = overlapped \/ SleepEnds)
    BY <1>3 DEF DelayStep, Test, SleepEnds, Count, Limit, Arm, Clear, setter
  <2>2. ~overlapped /\ Quiet
    <3>1. CASE SleepEnds
      BY <3>1, Zenon DEF SleepEnds, Quiet
    <3>2. CASE ~SleepEnds
      <4>1. overlapped' = overlapped
        BY <2>1, <3>2
      <4>2. ~overlapped
        BY <4>1, Zenon
      <4>3. Alone
        BY <4>2 DEF PaceInv
      <4>4. ~Asleep
        <5>1. dpc \in {"test", "count", "limit", "arm", "clear"}
          BY <1>3, <3>2, Zenon DEF DelayStep, Test, Count, Limit, Arm, Clear
        <5> QED BY <5>1 DEF Asleep
      <4> QED BY <4>2, <4>3, <4>4 DEF Alone, Quiet
    <3> QED BY <3>1, <3>2
  <2>3. Quiet' /\ Alone'
    BY <2>1, <2>2 DEF Quiet, Alone
  <2>4. Paced
    BY <2>2 DEF PaceInv
  <2>5. Test => nOnDelayTime' = nOnDelayTime /\ slept' = slept
    BY DEF Test, arming
  <2>6. Paced'
    <3>1. CASE Test
      <4>1. \/ dpc' = "count" /\ Reached(nOnDelayTime + 1)
            \/ dpc' = "idle" /\ Reached(nOnDelayTime)
        BY <2>4, <3>1, Zenon DEF Test, Goto, Paced
      <4> QED BY <4>1, <2>5, <3>1, <1>t DEF Paced, Reached, Asleep
    <3> USE <1>t, <2>4 DEF Paced, Reached, Asleep
    <3>2. CASE SleepEnds
      <4>1. dpc' = "test"
        BY <3>2 DEF SleepEnds, Goto
      <4>2. slept' = (IF slept < AlarmDelay THEN slept + 1 ELSE slept)
        BY <3>2 DEF SleepEnds
      <4>3. nOnDelayTime' = nOnDelayTime \/ nOnDelayTime' = 0
        BY <3>2 DEF SleepEnds
      <4>4. Reached(nOnDelayTime)
        BY <3>2 DEF SleepEnds
      <4> QED BY <4>1, <4>2, <4>3, <4>4
    <3>3. CASE Count
      <4>1. dpc = "count" /\ dpc' = "limit" /\ nOnDelayTime' = nOnDelayTime + 1 /\ slept' = slept
        BY <3>3 DEF Count, Goto
      <4> QED BY <4>1
    <3>4. CASE Limit
      <4>1. dpc = "limit" /\ nOnDelayTime' = nOnDelayTime /\ slept' = slept
        BY <3>4 DEF Limit, arming
      <4>2. dpc' = "sleep" \/ (dpc' \in {"arm", "clear"} /\ ~(nOnDelayTime < AlarmDelay))
        BY <3>4 DEF Limit, Goto
      <4> QED BY <4>1, <4>2
    <3>5. CASE Arm
      BY <3>5 DEF Arm, Goto
    <3>6. CASE Clear
      <4>1. dpc' = "sleep" /\ nOnDelayTime' = 0 /\ slept' = slept
        BY <3>6 DEF Clear, Goto
      <4> QED BY <4>1
    <3> QED BY <1>3, <3>1, <3>2, <3>3, <3>4, <3>5, <3>6, Zenon DEF DelayStep
  <2> QED BY <2>3, <2>6
<1>4. CASE UNCHANGED armingVars
  <2>1. UNCHANGED <<spc, dpc, bDoorOning, nOnDelayTime, slept>> /\ overlapped' = overlapped
    BY <1>4 DEF armingVars, arming, setter
  <2>2. Alone /\ (Quiet => Paced)
    BY <2>1, Zenon DEF PaceInv
  <2> QED BY <2>1, <2>2 DEF Alone, Quiet, Paced, Reached, Asleep
<1> QED BY <1>1, <1>2, <1>3, <1>4 DEF ArmingNext

\* An alarm that was switched on, or a talk that ended, keeps the alarm disarmed for
\* alarm_delay sleeps, for every delay and number of requests, unless the request met
\* OnDelayProc awake or another request.
THEOREM ArmedNotEarly == ArmingSpec => NotEarly
<1>1. PaceInv /\ [ArmingNext]_armingVars =>
        (alarm_onok' /\ ~alarm_onok /\ ~overlapped => slept >= AlarmDelay)
  <2> SUFFICES ASSUME PaceInv, [ArmingNext]_armingVars, alarm_onok', ~alarm_onok, ~overlapped
               PROVE  slept >= AlarmDelay
    OBVIOUS
  <2>1. Arm
    <3>1. \A t \in Setters : ~SetterStep(t) /\ \A on \in BOOLEAN : ~Request(t, on)
      BY Zenon DEF SetterStep, SetDoorOning, SetOnok, SetTime, Request, params
    <3>2. ~Test /\ ~SleepEnds /\ ~Count /\ ~Limit /\ ~Clear /\ ~UNCHANGED armingVars
      BY Zenon DEF Test, SleepEnds, Count, Limit, Clear, params, armingVars
    <3> QED BY <3>1, <3>2, Zenon DEF ArmingNext, DelayStep
  <2>2. dpc = "arm"
    BY <2>1 DEF Arm
  <2>3. Paced
    BY <2>2 DEF PaceInv, Alone, Quiet, Asleep
  <2> QED BY <2>2, <2>3 DEF Paced
<1> QED BY InitPace, PaceKept, <1>1, PTL DEF ArmingSpec, NotEarly
=============================================================================

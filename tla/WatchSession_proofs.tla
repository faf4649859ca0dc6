------------------------- MODULE WatchSession_proofs -------------------------
(***************************************************************************)
(* Theorems about WatchSession, for every limit, set of names and number   *)
(* of starts and resets.                                                   *)
(***************************************************************************)
EXTENDS WatchSession, TLAPS

\* The cmd thread is inside StartWatch and has still to register the callback.
Starting == cpc \in {"light", "register"}

InCallback ==
  tpc \in {"test", "reset", "limit", "exitIR", "timeoutIR", "timeoutState", "notify",
           "exitID", "unregister"}

Watched == conn /\ stateEx = "WATCHING"

\* While CallbackWatch runs its own entry is registered and not pending.
EntryInv == InCallback => regs >= 1 /\ pending < regs

\* What the callback that is about to unregister itself has already taken back, if no
\* other entry will and no new watch is starting.
TakenBack ==
  Starting \/ regs >= 2 \/
    /\ tpc \in {"exitIR", "notify", "exitID", "unregister"} => ~Watched
    /\ tpc \in {"timeoutState", "notify", "exitID", "unregister"} => ~ir
    /\ tpc = "unregister" => szWatchID = None

OwnedInv == TypeOK /\ EntryInv /\ TakenBack /\ WatchOwned

LEMMA InitOwned == Init => OwnedInv
<1> SUFFICES ASSUME Init PROVE OwnedInv
  OBVIOUS
<1> USE DEF Init
<1>1. SlotType
  BY Zenon DEF SlotType
<1>2. ControlType
  BY Zenon DEF ControlType
<1>3. CountType /\ EntryType
  <2>1. nTimerWatch = 0 /\ starts = 0 /\ resets = 0 /\ age = 0 /\ regs = 0 /\ pending = 0
    OBVIOUS
  <2> HIDE DEF Init
  <2> QED
    BY <2>1 DEF CountType, EntryType
<1>4. EntryInv /\ TakenBack /\ WatchOwned
  BY DEF EntryInv, InCallback, TakenBack, WatchOwned, Starting, Watched
<1> QED
  BY <1>1, <1>2, <1>3, <1>4 DEF OwnedInv, TypeOK

LEMMA SlotStep == SlotType /\ ControlType /\ [Next]_vars => SlotType'
<1> SUFFICES ASSUME SlotType, ControlType, [Next]_vars PROVE SlotType'
  OBVIOUS
<1> USE DEF slot, count, timer, cmd, bounds, history, SlotType
<1>1. CASE Connect \/ Drop
  BY <1>1 DEF Connect, Drop
<1>2. CASE OnFoundAlarm
  BY <1>2 DEF OnFoundAlarm
<1>3. CASE RecvWatch \/ WatchRefused
  BY <1>3 DEF RecvWatch, WatchRefused
<1>4. CASE WatchStart
  <2>1. szWatchID' \in Ids \cup {None}
    <3>1. CASE szWatchID' = filename
      BY <3>1 DEF ControlType
    <3>2. CASE UNCHANGED szWatchID
      BY <3>2
    <3> QED
      BY <1>4, <3>1, <3>2 DEF WatchStart
  <2>2. clean' \in BOOLEAN
    BY <1>4 DEF WatchStart
  <2>3. UNCHANGED <<conn, szAlarmID, bResetWatch, ir>>
    BY <1>4 DEF WatchStart
  <2>4. stateEx' = "WATCHING" /\ liveflag' = TRUE /\ audioflag' = TRUE
    BY <1>4 DEF WatchStart
  <2> QED
    BY <2>1, <2>2, <2>3, <2>4, Zenon
<1>5. CASE StartWatchLight \/ StartWatchTimer
  BY <1>5 DEF StartWatchLight, StartWatchTimer
<1>6. ASSUME NEW f \in Ids, StopWatch(f) PROVE SlotType'
  BY <1>6 DEF StopWatch
<1>7. ASSUME NEW f \in Ids, ResetWatch(f) PROVE SlotType'
  BY <1>7 DEF ResetWatch
<1>8. ASSUME NEW f \in Ids, NEW on \in BOOLEAN, SetAudio(f, on) PROVE SlotType'
  BY <1>8 DEF SetAudio
<1>9. CASE PassBegin \/ PassEnd \/ Call
  BY <1>9 DEF PassBegin, PassEnd, Call, Goto
<1>10. CASE Test \/ Reset \/ Limit
  BY <1>10 DEF Test, Reset, Limit, Goto
<1>11. CASE LightOut("exitIR", "exitID") \/ LightOut("timeoutIR", "timeoutState")
  BY <1>11 DEF LightOut, Goto
<1>12. CASE TimeoutState \/ TimeoutNotify \/ ExitID
  BY <1>12 DEF TimeoutState, TimeoutNotify, ExitID, Goto
<1>13. CASE ExitUnregister
  BY <1>13 DEF ExitUnregister
<1>14. CASE MediaStop
  BY <1>14 DEF MediaStop
<1>15. CASE UNCHANGED vars
  BY <1>15 DEF vars
<1> QED
  BY <1>1, <1>2, <1>3, <1>4, <1>5, <1>6, <1>7, <1>8, <1>9, <1>10, <1>11, <1>12, <1>13, <1>14, <1>15
  DEF Next, CmdStep, TimerStep

LEMMA ControlStep == ControlType /\ [Next]_vars => ControlType'
<1> SUFFICES ASSUME ControlType, [Next]_vars PROVE ControlType'
  OBVIOUS
<1> USE DEF slot, count, timer, cmd, bounds, history, ControlType
<1>1. CASE Connect \/ Drop
  BY <1>1 DEF Connect, Drop
<1>2. CASE OnFoundAlarm
  BY <1>2 DEF OnFoundAlarm
<1>3. CASE RecvWatch \/ WatchRefused
  BY <1>3 DEF RecvWatch, WatchRefused
<1>4. CASE WatchStart
  BY <1>4 DEF WatchStart
<1>5. CASE StartWatchLight \/ StartWatchTimer
  BY <1>5 DEF StartWatchLight, StartWatchTimer
<1>6. ASSUME NEW f \in Ids, StopWatch(f) PROVE ControlType'
  BY <1>6 DEF StopWatch
<1>7. ASSUME NEW f \in Ids, ResetWatch(f) PROVE ControlType'
  BY <1>7 DEF ResetWatch
<1>8. ASSUME NEW f \in Ids, NEW on \in BOOLEAN, SetAudio(f, on) PROVE ControlType'
  BY <1>8 DEF SetAudio
<1>9. CASE PassBegin \/ PassEnd \/ Call
  BY <1>9 DEF PassBegin, PassEnd, Call, Goto
<1>10. CASE Test \/ Reset \/ Limit
  <2>1. tpc' \in {"exitIR", "reset", "limit", "timeoutIR", "pass"}
    BY <1>10 DEF Test, Reset, Limit, Goto
  <2>2. UNCHANGED cmd
    BY <1>10 DEF Test, Reset, Limit
  <2> QED
    BY <2>1, <2>2
<1>11. CASE LightOut("exitIR", "exitID") \/ LightOut("timeoutIR", "timeoutState")
  BY <1>11 DEF LightOut, Goto
<1>12. CASE TimeoutState \/ TimeoutNotify \/ ExitID
  BY <1>12 DEF TimeoutState, TimeoutNotify, ExitID, Goto
<1>13. CASE ExitUnregister
  BY <1>13 DEF ExitUnregister
<1>14. CASE MediaStop
  BY <1>14 DEF MediaStop
<1>15. CASE UNCHANGED vars
  BY <1>15 DEF vars
<1> QED
  BY <1>1, <1>2, <1>3, <1>4, <1>5, <1>6, <1>7, <1>8, <1>9, <1>10, <1>11, <1>12, <1>13, <1>14, <1>15
  DEF Next, CmdStep, TimerStep

LEMMA CountStep == CountType /\ [Next]_vars => CountType'
<1> SUFFICES ASSUME CountType, [Next]_vars PROVE CountType'
  OBVIOUS
<1> USE DEF slot, count, timer, cmd, bounds, history, CountType
<1>1. CASE Connect \/ Drop
  BY <1>1 DEF Connect, Drop
<1>2. CASE OnFoundAlarm
  BY <1>2 DEF OnFoundAlarm
<1>3. CASE RecvWatch \/ WatchRefused
  BY <1>3 DEF RecvWatch, WatchRefused
<1>4. CASE WatchStart
  <2>1. starts' = starts + 1 /\ age' = 0 /\ resets' = resets /\ nTimerWatch' = nTimerWatch
    BY <1>4 DEF WatchStart
  <2> QED
    BY <2>1
<1>5. CASE StartWatchLight \/ StartWatchTimer
  <2>1. nTimerWatch' \in {0, nTimerWatch} /\ starts' = starts /\ resets' = resets /\ age' = age
    BY <1>5 DEF StartWatchLight, StartWatchTimer
  <2> QED
    BY <2>1
<1>6. ASSUME NEW f \in Ids, StopWatch(f) PROVE CountType'
  BY <1>6 DEF StopWatch
<1>7. ASSUME NEW f \in Ids, ResetWatch(f) PROVE CountType'
  <2>1. nTimerWatch' = nTimerWatch /\ starts' = starts /\ resets' = resets + 1 /\ age' = age
    BY <1>7 DEF ResetWatch
  <2> QED
    BY <2>1
<1>8. ASSUME NEW f \in Ids, NEW on \in BOOLEAN, SetAudio(f, on) PROVE CountType'
  BY <1>8 DEF SetAudio
<1>9. CASE PassBegin \/ PassEnd \/ Call
  <2>1. nTimerWatch' \in {nTimerWatch, nTimerWatch + 1} /\ age' \in {age, age + 1}
    BY <1>9 DEF PassBegin, PassEnd, Call, Goto
  <2>2. starts' = starts /\ resets' = resets
    BY <1>9 DEF PassBegin, PassEnd, Call
  <2> QED
    BY <2>1, <2>2
<1>10. CASE Test \/ Reset \/ Limit
  <2>1. nTimerWatch' \in {nTimerWatch, 0} /\ age' \in {age, 0}
    BY <1>10 DEF Test, Reset, Limit, Goto
  <2>2. starts' = starts /\ resets' = resets
    BY <1>10 DEF Test, Reset, Limit
  <2> QED
    BY <2>1, <2>2
<1>11. CASE LightOut("exitIR", "exitID") \/ LightOut("timeoutIR", "timeoutState")
  BY <1>11 DEF LightOut, Goto
<1>12. CASE TimeoutState \/ TimeoutNotify \/ ExitID
  BY <1>12 DEF TimeoutState, TimeoutNotify, ExitID, Goto
<1>13. CASE ExitUnregister
  BY <1>13 DEF ExitUnregister
<1>14. CASE MediaStop
  BY <1>14 DEF MediaStop
<1>15. CASE UNCHANGED vars
  BY <1>15 DEF vars
<1> QED
  BY <1>1, <1>2, <1>3, <1>4, <1>5, <1>6, <1>7, <1>8, <1>9, <1>10, <1>11, <1>12, <1>13, <1>14, <1>15
  DEF Next, CmdStep, TimerStep

\* An entry is removed while it is being called: there is one.
LEMMA EntryStep == EntryType /\ EntryInv /\ [Next]_vars => EntryType'
<1> SUFFICES ASSUME EntryType, EntryInv, [Next]_vars PROVE EntryType'
  OBVIOUS
<1> USE DEF slot, count, timer, cmd, bounds, history, EntryType
<1>1. CASE Connect \/ Drop
  BY <1>1 DEF Connect, Drop
<1>2. CASE OnFoundAlarm
  BY <1>2 DEF OnFoundAlarm
<1>3. CASE RecvWatch \/ WatchRefused
  BY <1>3 DEF RecvWatch, WatchRefused
<1>4. CASE WatchStart
  BY <1>4 DEF WatchStart
<1>5. CASE StartWatchLight \/ StartWatchTimer
  <2>1. \/ regs' = regs /\ pending' = pending
        \/ regs' = regs + 1 /\ pending' \in {pending, pending + 1}
    BY <1>5 DEF StartWatchLight, StartWatchTimer
  <2> QED
    BY <2>1
<1>6. ASSUME NEW f \in Ids, StopWatch(f) PROVE EntryType'
  BY <1>6 DEF StopWatch
<1>7. ASSUME NEW f \in Ids, ResetWatch(f) PROVE EntryType'
  BY <1>7 DEF ResetWatch
<1>8. ASSUME NEW f \in Ids, NEW on \in BOOLEAN, SetAudio(f, on) PROVE EntryType'
  BY <1>8 DEF SetAudio
<1>9. CASE PassBegin \/ PassEnd \/ Call
  BY <1>9 DEF PassBegin, PassEnd, Call, Goto
<1>10. CASE Test \/ Reset \/ Limit
  BY <1>10 DEF Test, Reset, Limit, Goto
<1>11. CASE LightOut("exitIR", "exitID") \/ LightOut("timeoutIR", "timeoutState")
  BY <1>11 DEF LightOut, Goto
<1>12. CASE TimeoutState \/ TimeoutNotify \/ ExitID
  BY <1>12 DEF TimeoutState, TimeoutNotify, ExitID, Goto
<1>13. CASE ExitUnregister
  <2>1. regs >= 1 /\ pending < regs
    BY <1>13 DEF EntryInv, InCallback, ExitUnregister, At
  <2>2. regs' = regs - 1 /\ pending' \in {pending, pending - 1} /\ pending' >= 0
    BY <1>13 DEF ExitUnregister
  <2> QED
    BY <2>1, <2>2
<1>14. CASE MediaStop
  BY <1>14 DEF MediaStop
<1>15. CASE UNCHANGED vars
  BY <1>15 DEF vars
<1> QED
  BY <1>1, <1>2, <1>3, <1>4, <1>5, <1>6, <1>7, <1>8, <1>9, <1>10, <1>11, <1>12, <1>13, <1>14, <1>15
  DEF Next, CmdStep, TimerStep

LEMMA TypeStep == TypeOK /\ EntryInv /\ [Next]_vars => TypeOK'
  BY SlotStep, ControlStep, CountStep, EntryStep DEF TypeOK

LEMMA OwnedStep == OwnedInv /\ [Next]_vars => OwnedInv'
<1> SUFFICES ASSUME OwnedInv, [Next]_vars PROVE OwnedInv'
  OBVIOUS
<1> USE DEF slot, count, timer, cmd, bounds, history, InCallback, Starting, Watched
<1>t. TypeOK /\ TypeOK'
  BY TypeStep DEF OwnedInv
<1>n. regs \in Nat /\ pending \in Nat /\ pending <= regs
  BY <1>t DEF TypeOK, EntryType
<1>1. CASE Connect \/ Drop
  BY <1>t, <1>1 DEF OwnedInv, EntryInv, TakenBack, WatchOwned, Connect, Drop
<1>2. CASE OnFoundAlarm \/ RecvWatch \/ WatchRefused
  BY <1>t, <1>2 DEF OwnedInv, EntryInv, TakenBack, WatchOwned, OnFoundAlarm, RecvWatch, WatchRefused
<1>3. CASE WatchStart
  BY <1>t, <1>3 DEF OwnedInv, EntryInv, TakenBack, WatchOwned, WatchStart
<1>4. CASE StartWatchLight
  BY <1>t, <1>4 DEF OwnedInv, EntryInv, TakenBack, WatchOwned, StartWatchLight
<1>5. CASE StartWatchTimer
  <2>1. regs' = regs + 1 /\ pending' \in {pending, pending + 1} /\ tpc' = tpc
    BY <1>5 DEF StartWatchTimer
  <2>2. EntryInv'
    BY <1>n, <2>1 DEF OwnedInv, EntryInv
  <2>3. InCallback => regs' >= 2
    BY <1>n, <2>1 DEF OwnedInv, EntryInv
  <2>4. TakenBack'
    BY <2>1, <2>3 DEF TakenBack
  <2>5. regs' # 0
    BY <1>n, <2>1
  <2> QED
    BY <1>t, <2>2, <2>4, <2>5 DEF OwnedInv, WatchOwned
<1>6. ASSUME NEW f \in Ids, StopWatch(f) PROVE OwnedInv'
  BY <1>t, <1>6 DEF OwnedInv, EntryInv, TakenBack, WatchOwned, StopWatch
<1>7. ASSUME NEW f \in Ids, ResetWatch(f) PROVE OwnedInv'
  BY <1>t, <1>7 DEF OwnedInv, EntryInv, TakenBack, WatchOwned, ResetWatch
<1>8. ASSUME NEW f \in Ids, NEW on \in BOOLEAN, SetAudio(f, on) PROVE OwnedInv'
  BY <1>t, <1>8 DEF OwnedInv, EntryInv, TakenBack, WatchOwned, SetAudio
<1>9. CASE PassBegin \/ PassEnd
  BY <1>t, <1>9 DEF OwnedInv, EntryInv, TakenBack, WatchOwned, PassBegin, PassEnd, Goto
<1>10. CASE Call
  <2>1. regs' = regs /\ pending' = pending - 1 /\ pending > 0 /\ tpc' = "test"
    BY <1>10 DEF Call
  <2>2. EntryInv'
    BY <1>n, <2>1 DEF EntryInv
  <2>3. TakenBack'
    BY <2>1 DEF TakenBack
  <2>4. WatchOwned'
    BY <1>10 DEF OwnedInv, WatchOwned, Call
  <2> QED
    BY <1>t, <2>2, <2>3, <2>4 DEF OwnedInv
<1>11. CASE Test \/ Reset \/ Limit
  BY <1>t, <1>11 DEF OwnedInv, EntryInv, TakenBack, WatchOwned, Test, Reset, Limit, Goto, At
<1>12. CASE LightOut("exitIR", "exitID") \/ LightOut("timeoutIR", "timeoutState")
  BY <1>t, <1>12 DEF OwnedInv, EntryInv, TakenBack, WatchOwned, LightOut, Goto, At
<1>13. CASE TimeoutState \/ TimeoutNotify \/ ExitID
  BY <1>t, <1>13
  DEF OwnedInv, EntryInv, TakenBack, WatchOwned, TimeoutState, TimeoutNotify, ExitID, Goto, At
<1>14. CASE ExitUnregister
  <2>1. regs' = regs - 1 /\ tpc = "unregister" /\ tpc' = "pass"
    BY <1>14 DEF ExitUnregister, At
  <2>2. UNCHANGED <<slot, ir, cpc>>
    BY <1>14 DEF ExitUnregister
  <2>3. EntryInv' /\ TakenBack'
    BY <2>1 DEF EntryInv, TakenBack
  <2>4. regs >= 2 => regs' # 0
    BY <1>n, <2>1
  <2>5. WatchOwned'
    BY <2>1, <2>2, <2>4 DEF OwnedInv, TakenBack, WatchOwned
  <2> QED
    BY <1>t, <2>3, <2>5 DEF OwnedInv
<1>15. CASE MediaStop
  BY <1>t, <1>15 DEF OwnedInv, EntryInv, TakenBack, WatchOwned, MediaStop
<1>16. CASE UNCHANGED vars
  BY <1>t, <1>16 DEF OwnedInv, EntryInv, TakenBack, WatchOwned, vars
<1> QED
  BY <1>1, <1>2, <1>3, <1>4, <1>5, <1>6, <1>7, <1>8, <1>9, <1>10, <1>11, <1>12, <1>13, <1>14,
     <1>15, <1>16
  DEF Next, CmdStep, TimerStep

LEMMA OwnedAlways == Spec => []OwnedInv
  BY InitOwned, OwnedStep, PTL DEF Spec

\* TypeOK: the slot's fields and the timer entries keep their types; in particular an entry
\* is never removed that is not there.
THEOREM WatchTypeCorrect == Spec => []TypeOK
  BY OwnedAlways, PTL DEF OwnedInv

\* WatchOwned: a watch, its light and its name always have a CallbackWatch registered that
\* takes them back (StartWatch, CallbackWatch), however starts and endings interleave.
THEOREM WatchIsOwned == Spec => []WatchOwned
  BY OwnedAlways, PTL DEF OwnedInv
-----------------------------------------------------------------------------
(* A watch that starts when no entry is left has the callback to itself *)

\* Until the next start there is one entry at most, and none before StartWatch registers it.
OneEntry == clean => regs <= 1 /\ (Starting => regs = 0)

\* A command 20 that is about to be carried out carries a name.
Asked == cpc = "start" => filename # None

NamedInv == OneEntry /\ Asked /\ WatchNamed

\* Between two passes no entry is due; the counter starts from 0; each entry still due in
\* this pass may count once more, and the passes are no fewer than what was counted, but for
\* the one under way at the registration.
Counted ==
  /\ tpc = "sleep" => pending = 0
  /\ clean /\ cpc = "register" => nTimerWatch = 0
  /\ clean /\ cpc # "light" => age >= MaxWatch \/ nTimerWatch + pending <= age + 1
  /\ clean /\ tpc \in {"timeoutIR", "timeoutState"} => age >= MaxWatch - 1

LEMMA InitNamed == Init => NamedInv /\ Counted
<1> SUFFICES ASSUME Init PROVE NamedInv /\ Counted
  OBVIOUS
<1>1. NamedInv
  BY DEF Init, NamedInv, OneEntry, Asked, WatchNamed, Starting
<1>2. tpc = "sleep" /\ pending = 0 /\ nTimerWatch = 0 /\ age = 0
  BY DEF Init
<1>3. Counted
  BY <1>2 DEF Counted
<1> QED
  BY <1>1, <1>3

LEMMA NamedStep == OwnedInv /\ NamedInv /\ [Next]_vars => NamedInv'
<1> SUFFICES ASSUME OwnedInv, NamedInv, [Next]_vars PROVE NamedInv'
  OBVIOUS
<1> USE DEF slot, count, timer, cmd, bounds, history, NamedInv, OneEntry, Asked, WatchNamed,
            Starting
<1>t. regs \in Nat /\ pending \in Nat /\ pending <= regs
  BY DEF OwnedInv, TypeOK, EntryType
<1>e. InCallback => regs >= 1
  BY DEF OwnedInv, EntryInv
<1>1. CASE Connect \/ Drop
  BY <1>1 DEF Connect, Drop
<1>2. CASE OnFoundAlarm \/ WatchRefused
  BY <1>2 DEF OnFoundAlarm, WatchRefused
<1>r. CASE RecvWatch
  <2>1. filename' # None
    BY <1>r, WatchAssumption DEF RecvWatch, None
  <2> QED
    BY <1>r, <2>1 DEF RecvWatch
<1>3. CASE WatchStart
  <2>1. filename # None /\ cpc' = "light" /\ clean' = (regs = 0) /\ regs' = regs
    BY <1>3 DEF WatchStart
  <2>2. szWatchID' # None
    BY <1>3, <2>1 DEF WatchStart, bIsNewWatching
  <2>3. regs = 0 => regs <= 1
    OBVIOUS
  <2> QED
    BY <2>1, <2>2, <2>3
<1>4. CASE StartWatchLight
  BY <1>4 DEF StartWatchLight
<1>5. CASE StartWatchTimer
  BY <1>t, <1>5 DEF StartWatchTimer
<1>6. ASSUME NEW f \in Ids, StopWatch(f) PROVE NamedInv'
  BY <1>6 DEF StopWatch
<1>7. ASSUME NEW f \in Ids, ResetWatch(f) PROVE NamedInv'
  BY <1>7 DEF ResetWatch
<1>8. ASSUME NEW f \in Ids, NEW on \in BOOLEAN, SetAudio(f, on) PROVE NamedInv'
  BY <1>8 DEF SetAudio
<1>9. CASE PassBegin \/ PassEnd \/ Call
  BY <1>9 DEF PassBegin, PassEnd, Call, Goto, At
<1>10. CASE Test \/ Reset \/ Limit
  BY <1>10 DEF Test, Reset, Limit, Goto, At
<1>11. CASE LightOut("exitIR", "exitID") \/ LightOut("timeoutIR", "timeoutState")
  BY <1>11 DEF LightOut, Goto, At
<1>12. CASE TimeoutState \/ TimeoutNotify \/ ExitID
  BY <1>12 DEF TimeoutState, TimeoutNotify, ExitID, Goto, At
<1>13. CASE ExitUnregister
  <2>1. tpc = "unregister" /\ regs' = regs - 1 /\ UNCHANGED <<slot, cpc, filename, clean>>
    BY <1>13 DEF ExitUnregister, At
  <2>2. regs >= 1
    BY <1>e, <2>1 DEF InCallback
  <2>3. OneEntry' /\ Asked'
    BY <1>t, <2>1, <2>2
  <2>4. clean => ~Watched
    BY <1>t, <2>1, <2>2 DEF OwnedInv, TakenBack
  <2> QED
    BY <2>1, <2>3, <2>4 DEF Watched
<1>14. CASE MediaStop
  BY <1>14 DEF MediaStop
<1>15. CASE UNCHANGED vars
  BY <1>15 DEF vars
<1> QED
  BY <1>1, <1>2, <1>r, <1>3, <1>4, <1>5, <1>6, <1>7, <1>8, <1>9, <1>10, <1>11, <1>12, <1>13, <1>14,
     <1>15
  DEF Next, CmdStep, TimerStep

LEMMA CountedStep == OwnedInv /\ NamedInv /\ Counted /\ [Next]_vars => Counted'
<1> SUFFICES ASSUME OwnedInv, NamedInv, Counted, [Next]_vars PROVE Counted'
  OBVIOUS
<1> USE DEF slot, count, timer, cmd, bounds, history
<1> DEFINE Behind == age >= MaxWatch \/ nTimerWatch + pending <= age + 1
<1>t. /\ regs \in Nat /\ pending \in Nat /\ pending <= regs
      /\ nTimerWatch \in Nat /\ age \in Nat /\ MaxWatch \in Nat
  BY WatchAssumption DEF OwnedInv, TypeOK, EntryType, CountType
<1>o. /\ clean => regs <= 1
      /\ clean /\ cpc \in {"light", "register"} => regs = 0
  BY DEF NamedInv, OneEntry, Starting
<1>e. InCallback => regs >= 1 /\ pending < regs
  BY DEF OwnedInv, EntryInv
<1>n. InCallback => regs # 0 /\ (regs <= 1 => pending = 0)
  BY <1>t, <1>e
<1>1. CASE Connect \/ Drop
  BY <1>1 DEF Counted, Connect, Drop
<1>2. CASE OnFoundAlarm \/ RecvWatch \/ WatchRefused
  BY <1>2 DEF Counted, OnFoundAlarm, RecvWatch, WatchRefused
<1>3. CASE WatchStart
  <2>1. cpc' = "light" /\ clean' = (regs = 0) /\ tpc' = tpc /\ pending' = pending
    BY <1>3 DEF WatchStart
  <2>2. tpc \in {"timeoutIR", "timeoutState"} => ~clean'
    BY <1>n, <2>1 DEF InCallback
  <2> QED
    BY <2>1, <2>2 DEF Counted
<1>4. CASE StartWatchLight
  <2>1. /\ cpc = "light" /\ cpc' = "register" /\ nTimerWatch' = 0
        /\ UNCHANGED timer /\ age' = age /\ clean' = clean
    BY <1>4 DEF StartWatchLight
  <2>2. regs = 0 => Behind'
    BY <1>t, <2>1
  <2>3. clean => Behind'
    BY <1>o, <2>1, <2>2
  <2> QED
    BY <2>1, <2>3 DEF Counted
<1>5. CASE StartWatchTimer
  <2>1. /\ cpc = "register" /\ cpc' = "idle"
        /\ tpc' = tpc /\ nTimerWatch' = nTimerWatch /\ age' = age /\ clean' = clean
        /\ tpc = "sleep" => pending' = pending
        /\ pending' = pending \/ pending' = pending + 1
    BY <1>5 DEF StartWatchTimer
  <2>2. regs = 0 /\ nTimerWatch = 0 => Behind'
    BY <1>t, <2>1
  <2>3. clean => Behind'
    BY <1>o, <2>1, <2>2 DEF Counted
  <2> QED
    BY <2>1, <2>3 DEF Counted
<1>6. ASSUME NEW f \in Ids, StopWatch(f) PROVE Counted'
  BY <1>6 DEF Counted, StopWatch
<1>7. ASSUME NEW f \in Ids, ResetWatch(f) PROVE Counted'
  BY <1>7 DEF Counted, ResetWatch
<1>8. ASSUME NEW f \in Ids, NEW on \in BOOLEAN, SetAudio(f, on) PROVE Counted'
  BY <1>8 DEF Counted, SetAudio
<1>9. CASE PassBegin
  <2>1. /\ tpc = "sleep" /\ tpc' = "pass" /\ pending' = regs
        /\ age' = IF age < MaxWatch THEN age + 1 ELSE age
        /\ nTimerWatch' = nTimerWatch /\ cpc' = cpc /\ clean' = clean
    BY <1>9 DEF PassBegin, At
  <2>2. pending = 0
    BY <2>1 DEF Counted
  <2>3. regs <= 1 /\ Behind => Behind'
    BY <1>t, <2>1, <2>2
  <2>4. clean /\ cpc # "light" => Behind'
    BY <1>o, <2>3 DEF Counted
  <2> QED
    BY <2>1, <2>4 DEF Counted
<1>10. CASE PassEnd
  BY <1>10 DEF Counted, PassEnd, Goto
<1>11. CASE Call
  <2>1. /\ pending > 0 /\ pending' = pending - 1 /\ tpc' = "test"
        /\ nTimerWatch' = nTimerWatch \/ nTimerWatch' = nTimerWatch + 1
        /\ cpc' = cpc /\ age' = age /\ clean' = clean
    BY <1>11 DEF Call
  <2>2. regs # 0
    BY <1>t, <2>1
  <2>3. clean => cpc # "register"
    BY <1>o, <2>2
  <2>4. Behind => Behind'
    BY <1>t, <2>1
  <2> QED
    BY <2>1, <2>3, <2>4 DEF Counted
<1>12. CASE Test
  BY <1>12 DEF Counted, Test, Goto
<1>13. CASE Reset
  <2>1. /\ tpc = "reset" /\ tpc' = "limit" /\ cpc' = cpc /\ clean' = clean /\ pending' = pending
        /\ \/ nTimerWatch' = 0 /\ age' = 0
           \/ nTimerWatch' = nTimerWatch /\ age' = age
    BY <1>13 DEF Reset, Goto, At
  <2>2. clean => pending = 0 /\ cpc \notin {"light", "register"}
    BY <1>o, <1>n, <2>1 DEF InCallback
  <2>3. pending = 0 /\ Behind => Behind'
    BY <1>t, <2>1
  <2> QED
    BY <2>1, <2>2, <2>3 DEF Counted
<1>14. CASE Limit
  <2>1. /\ tpc = "limit" /\ cpc' = cpc /\ age' = age /\ clean' = clean
        /\ pending' = pending /\ nTimerWatch' = nTimerWatch
        /\ tpc' \in {"timeoutIR", "pass"}
        /\ tpc' = "timeoutIR" => nTimerWatch >= MaxWatch
    BY <1>14 DEF Limit, Goto, At
  <2>2. clean => pending = 0 /\ cpc # "light"
    BY <1>o, <1>n, <2>1 DEF InCallback
  <2>3. pending = 0 /\ Behind /\ tpc' = "timeoutIR" => age >= MaxWatch - 1
    BY <1>t, <2>1
  <2> QED
    BY <2>1, <2>2, <2>3 DEF Counted
<1>15. CASE LightOut("exitIR", "exitID") \/ LightOut("timeoutIR", "timeoutState")
  BY <1>15 DEF Counted, LightOut, Goto, At
<1>16. CASE TimeoutState \/ TimeoutNotify \/ ExitID
  BY <1>16 DEF Counted, TimeoutState, TimeoutNotify, ExitID, Goto, At
<1>17. CASE ExitUnregister
  <2>1. /\ tpc' = "pass"
        /\ pending' = pending \/ pending' = pending - 1
        /\ cpc' = cpc /\ age' = age /\ clean' = clean /\ nTimerWatch' = nTimerWatch
    BY <1>17 DEF ExitUnregister
  <2>2. Behind => Behind'
    BY <1>t, <2>1
  <2> QED
    BY <2>1, <2>2 DEF Counted
<1>18. CASE MediaStop
  BY <1>18 DEF Counted, MediaStop
<1>19. CASE UNCHANGED vars
  BY <1>19 DEF Counted, vars
<1> QED
  BY <1>1, <1>2, <1>3, <1>4, <1>5, <1>6, <1>7, <1>8, <1>9, <1>10, <1>11, <1>12, <1>13, <1>14,
     <1>15, <1>16, <1>17, <1>18, <1>19
  DEF Next, CmdStep, TimerStep

LEMMA NamedAlways == Spec => [](OwnedInv /\ NamedInv /\ Counted)
<1>1. Init => OwnedInv /\ NamedInv /\ Counted
  BY InitOwned, InitNamed
<1>2. OwnedInv /\ NamedInv /\ Counted /\ [Next]_vars => (OwnedInv /\ NamedInv /\ Counted)'
  BY OwnedStep, NamedStep, CountedStep
<1> QED
  BY <1>1, <1>2, PTL DEF Spec

\* WatchNamed: a watch that starts with no CallbackWatch left from an earlier one keeps its
\* name as long as it lasts, so that its peer can stop and reset it (commands 21 and 26).
THEOREM WatchIsNamed == Spec => []WatchNamed
  BY NamedAlways, PTL DEF NamedInv

\* NotCutShort: such a watch is timed out after max_watch passes of the timer at the
\* earliest (CallbackWatch), whatever is dropped, alarmed or reset meanwhile.
THEOREM WatchNotCutShort == Spec => NotCutShort
<1>1. Counted /\ [Next]_vars
        => [TimeoutState /\ stateEx = "WATCHING" /\ clean => age >= MaxWatch - 1]_vars
  BY DEF Counted, TimeoutState, At
<1> QED
  BY <1>1, NamedAlways, PTL DEF Spec, NotCutShort
=============================================================================

-------------------------- MODULE BellCall_proofs --------------------------
(***************************************************************************)
(* Proofs about BellCall, for every number of slots, every wait and talk   *)
(* time and every bound.                                                   *)
(***************************************************************************)
EXTENDS BellCall, TLAPS

USE BellCallAssumption

LEMMA SlotsTyped == Slots \subseteq Nat /\ 0 \in Slots
  BY DEF Slots

\* What the notification of a slot does to the typed variables.
LEMMA NotifyTyped ==
  ASSUME TypeOK, NEW s \in Slots, NEW st \in {"IDLE", "CALLING", "TALKING"},
         NEW sk \in {"IDLE", "CALLING", "TALKING"}, Notify(s, sk, st)
  PROVE  conn' \in [Slots -> BOOLEAN] /\ state' \in [Slots -> {"IDLE", "CALLING", "TALKING"}]
  BY DEF Notify, TypeOK

LEMMA NotifyOnlyTyped ==
  ASSUME TypeOK, NEW s \in Slots, NotifyOnly(s)
  PROVE  conn' \in [Slots -> BOOLEAN] /\ state' \in [Slots -> {"IDLE", "CALLING", "TALKING"}]
<1>1. state[s] \in {"IDLE", "CALLING", "TALKING"} BY DEF TypeOK
<1>2. CASE conn[s] BY <1>1, <1>2, NotifyTyped DEF NotifyOnly
<1>3. CASE ~conn[s] BY <1>3 DEF NotifyOnly, TypeOK
<1> QED BY <1>2, <1>3

LEMMA EndSlotTyped ==
  ASSUME TypeOK, NEW s \in Slots, NEW sk \in {"IDLE", "CALLING", "TALKING"}, EndSlot(s, sk)
  PROVE  conn' \in [Slots -> BOOLEAN] /\ state' \in [Slots -> {"IDLE", "CALLING", "TALKING"}]
<1>1. CASE conn[s] BY <1>1, NotifyTyped DEF EndSlot
<1>2. CASE ~conn[s] BY <1>2 DEF EndSlot, TypeOK
<1> QED BY <1>1, <1>2

LEMMA TicksNat == TypeOK => Ticks \in Nat
  BY DEF TypeOK, Ticks

LEMMA UnregisterNat == \A n \in Nat : Unregister(n) \in Nat
  BY DEF Unregister

LEMMA KeyTyped == TypeOK /\ (KeyStep \/ PressCall \/ PressAgain \/ ExitButton) => TypeOK'
<1> SUFFICES ASSUME TypeOK, KeyStep \/ PressCall \/ PressAgain \/ ExitButton PROVE TypeOK'
  OBVIOUS
<1> USE SlotsTyped
<1>1. CASE PressCall
  BY <1>1 DEF PressCall, TypeOK, slotVars, callVars, timerTable, keyVars, timerVars, bounds, history
<1>2. CASE PressAgain
  BY <1>2 DEF PressAgain, TypeOK, slotVars, callVars, timerTable, keyVars, timerVars, bounds,
     history
<1>3. CASE ExitButton
  BY <1>3 DEF ExitButton, CurrentCall, TypeOK, slotVars, callVars, timerTable, keyVars, timerVars, bounds,
     history
<1>4. CASE SetResetCall
  BY <1>4 DEF SetResetCall, TypeOK, slotVars, callVars, timerTable, keyVars, timerVars, bounds,
     history
<1>5. CASE OnCallBegin
  <2>1. szCallTime' \in Nat
    BY <1>5 DEF OnCallBegin, TypeOK
  <2>2. ir' \in BOOLEAN
    BY <1>5 DEF OnCallBegin, TypeOK
  <2>3. mcu' \in BOOLEAN
    BY <1>5 DEF OnCallBegin, TypeOK
  <2> QED BY <1>5, <2>1, <2>2, <2>3 DEF OnCallBegin, TypeOK, slotVars, callVars, timerTable,
     keyVars, timerVars, bounds, history
<1>6. CASE OnCallStamp
  BY <1>6 DEF OnCallStamp, TypeOK, slotVars, callVars, timerTable, keyVars, timerVars, bounds,
     history
<1>7. CASE OnCallNotify
  <2>1. conn' \in [Slots -> BOOLEAN] /\ state' \in [Slots -> {"IDLE", "CALLING", "TALKING"}]
    <3>1. kidx \in Slots /\ state[kidx] \in {"IDLE", "CALLING", "TALKING"}
      BY <1>7 DEF OnCallNotify, TypeOK
    <3>2. CASE conn[kidx] BY <1>7, <3>1, <3>2, NotifyTyped DEF OnCallNotify
    <3>3. CASE ~conn[kidx] BY <1>7, <3>3 DEF OnCallNotify, TypeOK
    <3> QED BY <3>2, <3>3
  <2>2. kidx' \in 0 .. MaxConn BY <1>7 DEF OnCallNotify, Slots
  <2> QED BY <1>7, <2>1, <2>2
      DEF OnCallNotify, TypeOK, callVars, timerTable, timerVars, bounds, history
<1>8. CASE OnCallArm
  BY <1>8 DEF OnCallArm, TypeOK, slotVars, callVars, timerTable, keyVars, timerVars, bounds, history
<1> QED BY <1>1, <1>2, <1>3, <1>4, <1>5, <1>6, <1>7, <1>8 DEF KeyStep

LEMMA TimerTyped == TypeOK /\ TimerStep => TypeOK'
<1> SUFFICES ASSUME TypeOK, TimerStep PROVE TypeOK'
  OBVIOUS
<1> USE SlotsTyped
<1>1. CASE WaitAgreed
  <2>1. nTimerCall' \in Nat /\ bResetCall' \in BOOLEAN
    BY <1>1, TicksNat DEF WaitAgreed, WaitTick, Talkers, TypeOK
  <2>2. waiting' \in Nat
    BY <1>1, UnregisterNat DEF WaitAgreed, WaitTick, Talkers, TypeOK
  <2>3. nTalkSit' \in Slots
    BY <1>1 DEF WaitAgreed, WaitTick, Talkers, TypeOK
  <2>4. tpc' \in {"agreeMe", "timeout", "mcuCheck"}
    BY <1>1 DEF WaitAgreed
  <2>5. ended' \in BOOLEAN
    BY <1>1 DEF WaitAgreed, WaitTick
  <2>6. tidx' \in 0 .. MaxConn
    BY <1>1 DEF WaitAgreed, WaitTick
  <2> QED BY <1>1, <2>1, <2>2, <2>3, <2>4, <2>5, <2>6 DEF WaitAgreed, WaitTick, TypeOK, slotVars,
     callVars, timerTable, keyVars, timerVars, bounds, history
<1>2. CASE WaitTimeout
  <2>1. nTimerCall' \in Nat /\ bResetCall' \in BOOLEAN
    BY <1>2, TicksNat DEF WaitTimeout, WaitTick, TypeOK
  <2>2. tpc' \in {"agreeMe", "timeout", "mcuCheck"}
    BY <1>2 DEF WaitTimeout
  <2>3. ended' \in BOOLEAN
    BY <1>2 DEF WaitTimeout, WaitTick
  <2>4. tidx' \in 0 .. MaxConn
    BY <1>2 DEF WaitTimeout, WaitTick
  <2> QED BY <1>2, <2>1, <2>2, <2>3, <2>4 DEF WaitTimeout, WaitTick, TypeOK, slotVars, callVars,
     timerTable, keyVars, timerVars, bounds, history
<1>3. CASE WaitOn
  <2>1. nTimerCall' \in Nat /\ bResetCall' \in BOOLEAN
    BY <1>3, TicksNat DEF WaitOn, WaitTick, TypeOK
  <2>2. tpc' \in {"agreeMe", "timeout", "mcuCheck"}
    BY <1>3 DEF WaitOn
  <2>3. ended' \in BOOLEAN
    BY <1>3 DEF WaitOn, WaitTick
  <2>4. tidx' \in 0 .. MaxConn
    BY <1>3 DEF WaitOn, WaitTick
  <2> QED BY <1>3, <2>1, <2>2, <2>3, <2>4 DEF WaitOn, WaitTick, TypeOK, slotVars, callVars,
     timerTable, keyVars, timerVars, bounds, history
<1>4. CASE AgreeMe
  <2>1. conn' \in [Slots -> BOOLEAN] /\ state' \in [Slots -> {"IDLE", "CALLING", "TALKING"}]
    BY <1>4, NotifyOnlyTyped DEF AgreeMe, TypeOK
  <2> QED BY <1>4, <2>1 DEF AgreeMe, TypeOK, slotVars, callVars, timerTable, keyVars, timerVars,
     bounds, history
<1>5. CASE CloseOther
  <2>1. conn' \in [Slots -> BOOLEAN] /\ state' \in [Slots -> {"IDLE", "CALLING", "TALKING"}]
    BY <1>5, EndSlotTyped DEF CloseOther, TypeOK
  <2>2. tidx' \in 0 .. MaxConn /\ late' \subseteq Slots
    BY <1>5 DEF CloseOther, TypeOK, Slots
  <2> QED BY <1>5, <2>1, <2>2 DEF CloseOther, TypeOK, slotVars, callVars, timerTable, keyVars,
     timerVars, bounds, history
<1>6. CASE ArmTalk
  <2>1. talking' \in Nat
    BY <1>6 DEF ArmTalk, TypeOK
  <2>2. nTimerCall' \in Nat
    BY <1>6 DEF ArmTalk, TypeOK
  <2> QED BY <1>6, <2>1, <2>2 DEF ArmTalk, TypeOK, slotVars, callVars, timerTable, keyVars,
     timerVars, bounds, history
<1>7. CASE TimeoutSlot
  <2>1. conn' \in [Slots -> BOOLEAN] /\ state' \in [Slots -> {"IDLE", "CALLING", "TALKING"}]
    BY <1>7, EndSlotTyped DEF TimeoutSlot, TypeOK
  <2>2. tidx' \in 0 .. MaxConn
    BY <1>7 DEF TimeoutSlot, TypeOK, Slots
  <2> QED BY <1>7, <2>1, <2>2 DEF TimeoutSlot, TypeOK, slotVars, callVars, timerTable, keyVars,
     timerVars, bounds, history
<1>8. CASE TimeoutEnd
  <2>1. waiting' \in Nat
    BY <1>8, UnregisterNat DEF TimeoutEnd, TypeOK
  <2> QED BY <1>8, <2>1 DEF TimeoutEnd, TypeOK, slotVars, callVars, timerTable, keyVars,
     timerVars, bounds, history
<1>9. CASE TimeoutIR
  BY <1>9 DEF TimeoutIR, TypeOK, slotVars, callVars, timerTable, keyVars, timerVars, bounds, history
<1>10. CASE McuCheck
  <2>1. tpc' \in {"mcu", "idle"}
    BY <1>10, Zenon DEF McuCheck
  <2>2. mcu' \in BOOLEAN
    BY <1>10, Zenon DEF McuCheck
  <2>3. tidx' \in 0 .. MaxConn
    BY <1>10 DEF McuCheck
  <2>4. taken' \in Nat
    BY <1>10 DEF McuCheck, NoID, TypeOK
  <2> QED BY <1>10, <2>1, <2>2, <2>3, <2>4 DEF McuCheck, TypeOK, slotVars, callVars, timerTable,
     keyVars, timerVars, bounds, history
<1>11. CASE McuEnd
  <2>1. waiting' \in Nat
    BY <1>11, UnregisterNat DEF McuEnd, TypeOK
  <2>2. overtaken' \in BOOLEAN /\ taken' \in Nat
    BY <1>11 DEF McuEnd, NoID, TypeOK
  <2> QED BY <1>11, <2>1, <2>2 DEF McuEnd, TypeOK, slotVars, callVars, timerTable, keyVars,
     timerVars, bounds, history
<1>12. CASE McuIR
  BY <1>12 DEF McuIR, TypeOK, slotVars, callVars, timerTable, keyVars, timerVars, bounds, history
<1>13. CASE TalkStopped
  <2>1. nTimerCall' \in Nat
    BY <1>13 DEF TalkStopped, TalkOver, NoID, TypeOK
  <2>2. callID' \in [Slots -> Nat] /\ state' \in [Slots -> {"IDLE", "CALLING", "TALKING"}]
    BY <1>13 DEF TalkStopped, TalkOver, NoID, TypeOK
  <2> QED BY <1>13, <2>1, <2>2 DEF TalkStopped, TalkOver, NoID, TypeOK, slotVars, callVars,
     timerTable, keyVars, timerVars, bounds, history
<1>14. CASE TalkOn
  <2>1. nTimerCall' \in Nat
    BY <1>14 DEF TalkOn, TypeOK
  <2> QED BY <1>14, <2>1 DEF TalkOn, TypeOK, slotVars, callVars, timerTable, keyVars, timerVars,
     bounds, history
<1>15. CASE TalkReset
  <2>1. conn' \in [Slots -> BOOLEAN] /\ state' \in [Slots -> {"IDLE", "CALLING", "TALKING"}]
    BY <1>15, NotifyOnlyTyped DEF TalkReset, TypeOK
  <2> QED BY <1>15, <2>1 DEF TalkReset, TypeOK, slotVars, callVars, timerTable, keyVars,
     timerVars, bounds, history
<1>16. CASE TalkResetDone
  BY <1>16 DEF TalkResetDone, TypeOK, slotVars, callVars, timerTable, keyVars, timerVars, bounds,
     history
<1>17. CASE TalkTimeout
  <2>1. nTimerCall' \in Nat
    BY <1>17 DEF TalkTimeout, TalkOver, NoID, TypeOK
  <2>2. callID' \in [Slots -> Nat] /\ state' \in [Slots -> {"IDLE", "CALLING", "TALKING"}]
    BY <1>17 DEF TalkTimeout, TalkOver, NoID, TypeOK
  <2> QED BY <1>17, <2>1, <2>2 DEF TalkTimeout, TalkOver, NoID, TypeOK, slotVars, callVars,
     timerTable, keyVars, timerVars, bounds, history
<1>18. CASE TalkTimeoutNotify
  <2>1. conn' \in [Slots -> BOOLEAN] /\ state' \in [Slots -> {"IDLE", "CALLING", "TALKING"}]
    BY <1>18, EndSlotTyped DEF TalkTimeoutNotify, TypeOK
  <2> QED BY <1>18, <2>1 DEF TalkTimeoutNotify, TypeOK, slotVars, callVars, timerTable, keyVars,
     timerVars, bounds, history
<1>19. CASE TalkUnregister
  <2>1. talking' \in Nat
    BY <1>19, UnregisterNat DEF TalkUnregister, TypeOK
  <2> QED BY <1>19, <2>1 DEF TalkUnregister, TypeOK, slotVars, callVars, timerTable, keyVars,
     timerVars, bounds, history
<1>20. CASE TalkEnd
  BY <1>20 DEF TalkEnd, TypeOK, slotVars, callVars, timerTable, keyVars, timerVars, bounds, history
<1> QED BY <1>1, <1>2, <1>3, <1>4, <1>5, <1>6, <1>7, <1>8, <1>9, <1>10, <1>11, <1>12, <1>13,
   <1>14, <1>15, <1>16, <1>17, <1>18, <1>19, <1>20 DEF TimerStep

LEMMA CmdTyped == TypeOK /\ CmdStep => TypeOK'
<1> SUFFICES ASSUME TypeOK, CmdStep PROVE TypeOK'
  OBVIOUS
<1> USE SlotsTyped
<1>1. CASE DoAgree
  <2>1. cmd.sit \in Slots
    BY <1>1 DEF DoAgree, NoCmd, TypeOK
  <2>2. state' \in [Slots -> {"IDLE", "CALLING", "TALKING"}] /\ late' \subseteq Slots
    BY <1>1, <2>1 DEF DoAgree, TypeOK
  <2> QED BY <1>1, <2>1, <2>2 DEF DoAgree, TypeOK, slotVars, callVars, timerTable, keyVars,
     timerVars, bounds, history
<1>2. CASE DoLeave
  BY <1>2 DEF DoLeave, Ops, NeedsState, NoCmd, TypeOK, slotVars, callVars, timerTable, keyVars,
     timerVars, bounds, history
<1>3. CASE DoReset
  <2>1. resets' \in Nat
    BY <1>3 DEF DoReset, TypeOK
  <2>2. cmd' = NoCmd
    BY <1>3 DEF DoReset, TypeOK
  <2> QED BY <1>3, <2>1, <2>2 DEF DoReset, TypeOK, slotVars, callVars, timerTable, keyVars,
     timerVars, bounds, history
<1>4. CASE DoUnlock
  <2>1. unlocks' \in Nat
    BY <1>4 DEF DoUnlock, TypeOK
  <2>2. unlockedIn' \in Nat
    BY <1>4 DEF DoUnlock, CurrentCall, TypeOK
  <2>3. cmd' = NoCmd
    BY <1>4 DEF DoUnlock, TypeOK
  <2> QED BY <1>4, <2>1, <2>2, <2>3 DEF DoUnlock, TypeOK, slotVars, callVars, timerTable,
     keyVars, timerVars, bounds, history
<1>5. CASE DoQuery
  <2>1. cmd.sit \in Slots
    BY <1>5 DEF DoQuery, NoCmd, TypeOK
  <2>2. state' \in [Slots -> {"IDLE", "CALLING", "TALKING"}] /\ late' \subseteq Slots
    BY <1>5, <2>1 DEF DoQuery, TypeOK
  <2>3. cmd.id \in Nat
    BY <1>5 DEF DoQuery, NoCmd, TypeOK
  <2>4. callID' \in [Slots -> Nat]
    BY <1>5, <2>1, <2>3 DEF DoQuery, TypeOK
  <2> QED BY <1>5, <2>1, <2>2, <2>4 DEF DoQuery, TypeOK, slotVars, callVars, timerTable, keyVars,
     timerVars, bounds, history
<1> QED BY <1>1, <1>2, <1>3, <1>4, <1>5 DEF CmdStep

LEMMA PeersTyped == TypeOK /\ Environment => TypeOK'
<1> SUFFICES ASSUME TypeOK, Environment PROVE TypeOK'
  OBVIOUS
<1> USE SlotsTyped
<1>1. CASE \E s \in Slots : Connect(s)
  BY <1>1 DEF Connect, Ops, NeedsState, NoCmd, TypeOK, slotVars, callVars, timerTable, keyVars,
     timerVars, bounds, history
<1>2. CASE \E s \in Slots : Drop(s)
  BY <1>2 DEF Drop, Ops, NeedsState, NoCmd, TypeOK, slotVars, callVars, timerTable, keyVars,
     timerVars, bounds, history
<1>3. CASE \E s \in Slots : RecvWatcherUnlock(s)
  BY <1>3 DEF RecvWatcherUnlock, Ops, NeedsState, NoCmd, TypeOK, slotVars, callVars, timerTable,
     keyVars, timerVars, bounds, history
<1>4. CASE \E s \in Slots : \E id \in CallIDs : RecvQuery(s, id)
  <2>1. PICK s \in Slots, id \in CallIDs : RecvQuery(s, id)
    BY <1>4
  <2>2. id \in Nat
    BY DEF CallIDs, TypeOK
  <2>3. cmd'.op \in Ops /\ cmd'.sit \in Slots /\ cmd'.id \in Nat
    BY <2>1, <2>2 DEF RecvQuery, Ops
  <2> QED BY <2>1, <2>3 DEF RecvQuery, TypeOK, slotVars, callVars, timerTable, keyVars,
     timerVars, bounds, history
<1>5. CASE \E s \in Slots : \E op \in DOMAIN NeedsState, id \in CallIDs : RecvCommand(s, op, id)
  BY <1>5 DEF RecvCommand, Ops, NeedsState, NoCmd, TypeOK, slotVars, callVars, timerTable,
     keyVars, timerVars, bounds, history
<1> QED BY KeyTyped, <1>1, <1>2, <1>3, <1>4, <1>5  DEF Environment

\* The variables keep their types, and no loop of a callback leaves the table.
THEOREM TypeCorrect == Spec => []TypeOK
<1>1. Init => TypeOK
  <2> SUFFICES ASSUME Init PROVE TypeOK OBVIOUS
  <2> USE SlotsTyped
  <2>1. /\ conn \in [Slots -> BOOLEAN] /\ callID \in [Slots -> Nat]
        /\ state \in [Slots -> {"IDLE", "CALLING", "TALKING"}]
    BY DEF Init, NoID
  <2>2. bStartCall \in BOOLEAN /\ bResetCall \in BOOLEAN /\ mcu \in BOOLEAN /\ ir \in BOOLEAN
    BY DEF Init
  <2>3. /\ szCallTime \in Nat /\ nTimerCall \in Nat /\ nTalkSit \in Slots
        /\ waiting \in Nat /\ talking \in Nat
    BY DEF Init, NoID
  <2>4. /\ resets \in Nat /\ unlocks \in Nat /\ unlockedIn \in Nat /\ taken \in Nat
    BY DEF Init, NoID
  <2>5. late \subseteq Slots /\ overtaken \in BOOLEAN /\ ended \in BOOLEAN
    BY DEF Init
  <2>6. tidx \in 0 .. MaxConn /\ kidx \in 0 .. MaxConn /\ cmd = NoCmd
    BY DEF Init
  <2> QED BY <2>1, <2>2, <2>3, <2>4, <2>5, <2>6 DEF Init, TypeOK
<1>2. TypeOK /\ [Next]_vars => TypeOK'
  <2>1. TypeOK /\ UNCHANGED vars => TypeOK'
    BY DEF vars, TypeOK, slotVars, callVars, timerTable, keyVars, timerVars, bounds, history
  <2> QED BY <2>1, KeyTyped, TimerTyped, CmdTyped, PeersTyped DEF Next
<1> QED BY <1>1, <1>2, PTL DEF Spec
-----------------------------------------------------------------------------
(***************************************************************************)
(* Who owns the call.  OneOwner and NoStuckCall are strengthened with what *)
(* each control point of the timer thread still has in the timer table: a  *)
(* callback that is going to unregister itself is registered.              *)
(***************************************************************************)
OwnerInv ==
  /\ OneOwner
  /\ NoStuckCall
  /\ tpc = "timeout" => waiting > 0
  /\ tpc = "timeoutIR" => ended
  /\ (tpc \in {"mcuCheck", "mcu"} /\ ~ended) => waiting > 0
  /\ tpc \in {"talkTimeout", "talkUnreg"} => talking > 0
  /\ (tpc \in {"timeout", "timeoutIR", "mcuCheck", "mcu", "mcuIR"} /\ ~overtaken) => talking = 0

owners == <<bStartCall, waiting, talking, kpc, tpc, ended, overtaken>>

\* A step that leaves the owners alone keeps what is said of them.
LEMMA QuietOwner == OwnerInv /\ UNCHANGED owners => OwnerInv'
  BY DEF OwnerInv, OneOwner, NoStuckCall, owners, Ringing, HandingOver, One

LEMMA OwnerStep == TypeOK /\ OwnerInv /\ [Next]_vars => OwnerInv'
<1> SUFFICES ASSUME TypeOK, OwnerInv, [Next]_vars PROVE OwnerInv'
  OBVIOUS
<1>ty. /\ waiting \in Nat /\ talking \in Nat /\ bStartCall \in BOOLEAN
      /\ ended \in BOOLEAN /\ overtaken \in BOOLEAN
  BY DEF TypeOK
<1>1. CASE PressCall
  BY <1>1, <1>ty DEF PressCall, OwnerInv, OneOwner, NoStuckCall, Ringing, HandingOver, One,
     callVars, timerTable, keyVars, timerVars, history
<1>2. CASE PressAgain
  BY <1>2, <1>ty DEF PressAgain, OwnerInv, OneOwner, NoStuckCall, Ringing, HandingOver, One,
     callVars, timerTable, keyVars, timerVars, history
<1>3. CASE SetResetCall
  BY <1>3, <1>ty DEF SetResetCall, OwnerInv, OneOwner, NoStuckCall, Ringing, HandingOver, One,
     callVars, timerTable, keyVars, timerVars, history
<1>4. CASE OnCallBegin
  BY <1>4, <1>ty DEF OnCallBegin, OwnerInv, OneOwner, NoStuckCall, Ringing, HandingOver, One,
     callVars, timerTable, keyVars, timerVars, history
<1>5. CASE OnCallStamp
  BY <1>5, <1>ty DEF OnCallStamp, OwnerInv, OneOwner, NoStuckCall, Ringing, HandingOver, One,
     callVars, timerTable, keyVars, timerVars, history
<1>6. CASE OnCallArm
  BY <1>6, <1>ty DEF OnCallArm, OwnerInv, OneOwner, NoStuckCall, Ringing, HandingOver, One,
     callVars, timerTable, keyVars, timerVars, history
<1>7. CASE WaitAgreed
  BY <1>7, <1>ty DEF WaitAgreed, WaitTick, Unregister, OwnerInv, OneOwner, NoStuckCall, Ringing,
     HandingOver, One, callVars, timerTable, keyVars, timerVars, history
<1>8. CASE WaitTimeout
  BY <1>8, <1>ty DEF WaitTimeout, WaitTick, OwnerInv, OneOwner, NoStuckCall, Ringing,
     HandingOver, One, callVars, timerTable, keyVars, timerVars, history
<1>9. CASE WaitOn
  BY <1>9, <1>ty DEF WaitOn, WaitTick, OwnerInv, OneOwner, NoStuckCall, Ringing, HandingOver,
     One, callVars, timerTable, keyVars, timerVars, history
<1>10. CASE AgreeMe
  BY <1>10, <1>ty DEF AgreeMe, OwnerInv, OneOwner, NoStuckCall, Ringing, HandingOver, One,
     callVars, timerTable, keyVars, timerVars, history
<1>11. CASE ArmTalk
  BY <1>11, <1>ty DEF ArmTalk, OwnerInv, OneOwner, NoStuckCall, Ringing, HandingOver, One,
     callVars, timerTable, keyVars, timerVars, history
<1>12. CASE TimeoutEnd
  BY <1>12, <1>ty DEF TimeoutEnd, Unregister, OwnerInv, OneOwner, NoStuckCall, Ringing,
     HandingOver, One, callVars, timerTable, keyVars, timerVars, history
<1>13. CASE TimeoutIR
  BY <1>13, <1>ty DEF TimeoutIR, OwnerInv, OneOwner, NoStuckCall, Ringing, HandingOver, One,
     callVars, timerTable, keyVars, timerVars, history
<1>14. CASE McuCheck
  BY <1>14, <1>ty DEF McuCheck, OwnerInv, OneOwner, NoStuckCall, Ringing, HandingOver, One,
     callVars, timerTable, keyVars, timerVars, history
<1>15. CASE McuEnd
  BY <1>15, <1>ty DEF McuEnd, Unregister, OwnerInv, OneOwner, NoStuckCall, Ringing, HandingOver,
     One, callVars, timerTable, keyVars, timerVars, history
<1>16. CASE McuIR
  BY <1>16, <1>ty DEF McuIR, OwnerInv, OneOwner, NoStuckCall, Ringing, HandingOver, One,
     callVars, timerTable, keyVars, timerVars, history
<1>17. CASE TalkStopped
  BY <1>17, <1>ty DEF TalkStopped, OwnerInv, OneOwner, NoStuckCall, Ringing, HandingOver, One,
     callVars, timerTable, keyVars, timerVars, history
<1>18. CASE TalkReset
  BY <1>18, <1>ty DEF TalkReset, OwnerInv, OneOwner, NoStuckCall, Ringing, HandingOver, One,
     callVars, timerTable, keyVars, timerVars, history
<1>19. CASE TalkResetDone
  BY <1>19, <1>ty DEF TalkResetDone, OwnerInv, OneOwner, NoStuckCall, Ringing, HandingOver, One,
     callVars, timerTable, keyVars, timerVars, history
<1>20. CASE TalkTimeout
  BY <1>20, <1>ty DEF TalkTimeout, OwnerInv, OneOwner, NoStuckCall, Ringing, HandingOver, One,
     callVars, timerTable, keyVars, timerVars, history
<1>21. CASE TalkTimeoutNotify
  BY <1>21, <1>ty DEF TalkTimeoutNotify, OwnerInv, OneOwner, NoStuckCall, Ringing, HandingOver,
     One, callVars, timerTable, keyVars, timerVars, history
<1>22. CASE TalkUnregister
  BY <1>22, <1>ty DEF TalkUnregister, Unregister, OwnerInv, OneOwner, NoStuckCall, Ringing,
     HandingOver, One, callVars, timerTable, keyVars, timerVars, history
<1>23. CASE TalkEnd
  BY <1>23, <1>ty DEF TalkEnd, OwnerInv, OneOwner, NoStuckCall, Ringing, HandingOver, One,
     callVars, timerTable, keyVars, timerVars, history
<1>24. CASE ExitButton \/ OnCallNotify \/ CloseOther \/ TimeoutSlot \/ TalkOn \/ DoAgree \/ DoLeave \/ DoReset \/ DoUnlock \/ DoQuery
  <2>1. UNCHANGED owners
    BY <1>24 DEF owners, ExitButton, OnCallNotify, CloseOther, TimeoutSlot, TalkOn, DoAgree,
       DoLeave, DoReset, DoUnlock, DoQuery, callVars, timerTable, keyVars, timerVars, history
  <2> QED BY <2>1, QuietOwner
<1>25. CASE \E s \in Slots : Connect(s) \/ Drop(s) \/ RecvWatcherUnlock(s)
  <2>1. UNCHANGED owners
    BY <1>25 DEF owners, Connect, Drop, RecvWatcherUnlock, callVars, timerTable, keyVars,
       timerVars, history
  <2> QED BY <2>1, QuietOwner
<1>26. CASE \E s \in Slots, id \in CallIDs :
              RecvQuery(s, id) \/ \E op \in DOMAIN NeedsState : RecvCommand(s, op, id)
  <2>1. UNCHANGED owners
    BY <1>26 DEF owners, RecvQuery, RecvCommand, callVars, timerTable, keyVars, timerVars, history
  <2> QED BY <2>1, QuietOwner
<1>27. CASE UNCHANGED vars
  <2>1. UNCHANGED owners
    BY <1>27 DEF owners, vars, callVars, timerTable, keyVars, timerVars, history
  <2> QED BY <2>1, QuietOwner
<1> QED BY <1>1, <1>2, <1>3, <1>4, <1>5, <1>6, <1>7, <1>8, <1>9, <1>10, <1>11, <1>12, <1>13,
   <1>14, <1>15, <1>16, <1>17, <1>18, <1>19, <1>20, <1>21, <1>22, <1>23, <1>24, <1>25, <1>26,
   <1>27 DEF Next, KeyStep, TimerStep, CmdStep, Environment

\* A call in progress always has exactly one owner, the two endings' collision
\* excepted, and bStartCall is never left behind without one.
THEOREM CallOwned == Spec => [](OneOwner /\ NoStuckCall)
<1>1. Init => OwnerInv
  BY DEF Init, OwnerInv, OneOwner, NoStuckCall, Ringing, HandingOver, One
<1>2. OwnerInv => OneOwner /\ NoStuckCall
  BY DEF OwnerInv
<1> QED BY <1>1, <1>2, OwnerStep, TypeCorrect, PTL DEF Spec
-----------------------------------------------------------------------------
(***************************************************************************)
(* The IR light.  Between TalkUnregister and TalkEnd the light can only be *)
(* that of a call already pressed or waited for.                           *)
(***************************************************************************)
LightInv ==
  /\ NoIRLeak
  /\ (tpc = "talkEnd" /\ ir) => Ringing \/ waiting > 0 \/ talking > 0

lights == <<ir, waiting, talking, kpc, tpc>>

LEMMA LightStep == TypeOK /\ LightInv /\ [Next]_vars => LightInv'
<1> SUFFICES ASSUME TypeOK, LightInv, [Next]_vars PROVE LightInv'
  OBVIOUS
<1>ty. waiting \in Nat /\ talking \in Nat
  BY DEF TypeOK
<1>1. CASE PressCall
  BY <1>1, <1>ty DEF PressCall, LightInv, NoIRLeak, Ringing, HandingOver, callVars, timerTable,
     keyVars, timerVars, history
<1>2. CASE PressAgain
  BY <1>2, <1>ty DEF PressAgain, LightInv, NoIRLeak, Ringing, HandingOver, callVars, timerTable,
     keyVars, timerVars, history
<1>3. CASE SetResetCall
  BY <1>3, <1>ty DEF SetResetCall, LightInv, NoIRLeak, Ringing, HandingOver, callVars,
     timerTable, keyVars, timerVars, history
<1>4. CASE OnCallBegin
  BY <1>4, <1>ty DEF OnCallBegin, LightInv, NoIRLeak, Ringing, HandingOver, callVars, timerTable,
     keyVars, timerVars, history
<1>5. CASE OnCallStamp
  BY <1>5, <1>ty DEF OnCallStamp, LightInv, NoIRLeak, Ringing, HandingOver, callVars, timerTable,
     keyVars, timerVars, history
<1>6. CASE OnCallArm
  BY <1>6, <1>ty DEF OnCallArm, LightInv, NoIRLeak, Ringing, HandingOver, callVars, timerTable,
     keyVars, timerVars, history
<1>7. CASE WaitAgreed
  BY <1>7, <1>ty DEF WaitAgreed, WaitTick, Unregister, LightInv, NoIRLeak, Ringing, HandingOver,
     callVars, timerTable, keyVars, timerVars, history
<1>8. CASE WaitTimeout
  BY <1>8, <1>ty DEF WaitTimeout, WaitTick, LightInv, NoIRLeak, Ringing, HandingOver, callVars,
     timerTable, keyVars, timerVars, history
<1>9. CASE WaitOn
  BY <1>9, <1>ty DEF WaitOn, WaitTick, LightInv, NoIRLeak, Ringing, HandingOver, callVars,
     timerTable, keyVars, timerVars, history
<1>10. CASE AgreeMe
  BY <1>10, <1>ty DEF AgreeMe, LightInv, NoIRLeak, Ringing, HandingOver, callVars, timerTable,
     keyVars, timerVars, history
<1>11. CASE ArmTalk
  BY <1>11, <1>ty DEF ArmTalk, LightInv, NoIRLeak, Ringing, HandingOver, callVars, timerTable,
     keyVars, timerVars, history
<1>12. CASE TimeoutEnd
  BY <1>12, <1>ty DEF TimeoutEnd, Unregister, LightInv, NoIRLeak, Ringing, HandingOver, callVars,
     timerTable, keyVars, timerVars, history
<1>13. CASE TimeoutIR
  BY <1>13, <1>ty DEF TimeoutIR, LightInv, NoIRLeak, Ringing, HandingOver, callVars, timerTable,
     keyVars, timerVars, history
<1>14. CASE McuCheck
  BY <1>14, <1>ty DEF McuCheck, LightInv, NoIRLeak, Ringing, HandingOver, callVars, timerTable,
     keyVars, timerVars, history
<1>15. CASE McuEnd
  BY <1>15, <1>ty DEF McuEnd, Unregister, LightInv, NoIRLeak, Ringing, HandingOver, callVars,
     timerTable, keyVars, timerVars, history
<1>16. CASE McuIR
  BY <1>16, <1>ty DEF McuIR, LightInv, NoIRLeak, Ringing, HandingOver, callVars, timerTable,
     keyVars, timerVars, history
<1>17. CASE TalkStopped
  BY <1>17, <1>ty DEF TalkStopped, LightInv, NoIRLeak, Ringing, HandingOver, callVars,
     timerTable, keyVars, timerVars, history
<1>18. CASE TalkReset
  BY <1>18, <1>ty DEF TalkReset, LightInv, NoIRLeak, Ringing, HandingOver, callVars, timerTable,
     keyVars, timerVars, history
<1>19. CASE TalkResetDone
  BY <1>19, <1>ty DEF TalkResetDone, LightInv, NoIRLeak, Ringing, HandingOver, callVars,
     timerTable, keyVars, timerVars, history
<1>20. CASE TalkTimeout
  BY <1>20, <1>ty DEF TalkTimeout, LightInv, NoIRLeak, Ringing, HandingOver, callVars,
     timerTable, keyVars, timerVars, history
<1>21. CASE TalkTimeoutNotify
  BY <1>21, <1>ty DEF TalkTimeoutNotify, LightInv, NoIRLeak, Ringing, HandingOver, callVars,
     timerTable, keyVars, timerVars, history
<1>22. CASE TalkUnregister
  BY <1>22, <1>ty DEF TalkUnregister, Unregister, LightInv, NoIRLeak, Ringing, HandingOver,
     callVars, timerTable, keyVars, timerVars, history
<1>23. CASE TalkEnd
  BY <1>23, <1>ty DEF TalkEnd, LightInv, NoIRLeak, Ringing, HandingOver, callVars, timerTable,
     keyVars, timerVars, history
<1>24. CASE OnCallNotify \/ ExitButton \/ CloseOther \/ TimeoutSlot \/ TalkOn \/ DoAgree \/ DoLeave \/ DoReset
        \/ DoUnlock \/ DoQuery
  <2>1. UNCHANGED lights
    BY <1>24 DEF lights, OnCallNotify, ExitButton, CloseOther, TimeoutSlot, TalkOn, DoAgree,
       DoLeave, DoReset, DoUnlock, DoQuery, callVars, timerTable, keyVars, timerVars, history
  <2> QED BY <2>1 DEF LightInv, NoIRLeak, Ringing, HandingOver, lights
<1>25. CASE \E s \in Slots : Connect(s) \/ Drop(s) \/ RecvWatcherUnlock(s)
  <2>1. UNCHANGED lights
    BY <1>25 DEF lights, Connect, Drop, RecvWatcherUnlock, callVars, timerTable, keyVars,
       timerVars, history
  <2> QED BY <2>1 DEF LightInv, NoIRLeak, Ringing, HandingOver, lights
<1>26. CASE \E s \in Slots, id \in CallIDs :
              RecvQuery(s, id) \/ \E op \in DOMAIN NeedsState : RecvCommand(s, op, id)
  <2>1. UNCHANGED lights
    BY <1>26 DEF lights, RecvQuery, RecvCommand, callVars, timerTable, keyVars, timerVars, history
  <2> QED BY <2>1 DEF LightInv, NoIRLeak, Ringing, HandingOver, lights
<1>27. CASE UNCHANGED vars
  <2>1. UNCHANGED lights
    BY <1>27 DEF lights, vars, callVars, timerTable, keyVars, timerVars, history
  <2> QED BY <2>1 DEF LightInv, NoIRLeak, Ringing, HandingOver, lights
<1> QED BY <1>1, <1>2, <1>3, <1>4, <1>5, <1>6, <1>7, <1>8, <1>9, <1>10, <1>11, <1>12, <1>13,
   <1>14, <1>15, <1>16, <1>17, <1>18, <1>19, <1>20, <1>21, <1>22, <1>23, <1>24, <1>25, <1>26,
   <1>27
    DEF Next, KeyStep, TimerStep, CmdStep, Environment

\* The IR light lit for a call is never left lit for nobody.
THEOREM LightOwned == Spec => []NoIRLeak
<1>1. Init => LightInv
  BY DEF Init, LightInv, NoIRLeak
<1>2. LightInv => NoIRLeak
  BY DEF LightInv
<1> QED BY <1>1, <1>2, LightStep, TypeCorrect, PTL DEF Spec
-----------------------------------------------------------------------------
(***************************************************************************)
(* The unlock flag.  Once OnCallBegin has cleared it, it can only have     *)
(* been set by an unlock of the current call; and a call whose wait was    *)
(* still registered when the callback took the flag cannot have been       *)
(* replaced when the unlock branch ends it, for only the timer thread ends *)
(* a call.                                                                 *)
(***************************************************************************)
UnlockInv ==
  /\ (mcu /\ kpc # "ring") => unlockedIn = szCallTime
  /\ (tpc = "mcu" /\ ~ended /\ ~overtaken) => taken = szCallTime

\* An owned wait leaves no room for a press.
LEMMA WaitedNotRung ==
  ASSUME TypeOK, OwnerInv, tpc \in {"mcuCheck", "mcu"}, ~ended, ~overtaken
  PROVE  kpc # "ring" /\ bStartCall
<1>1. waiting \in Nat /\ talking \in Nat /\ bStartCall \in BOOLEAN /\ waiting > 0
  BY DEF TypeOK, OwnerInv
<1> QED BY <1>1 DEF OwnerInv, OneOwner, Ringing, One

\* The steps that leave the flag and the timer thread alone, a press included ...
FlagKept ==
  /\ UNCHANGED <<mcu, unlockedIn, taken, szCallTime, tpc, ended, overtaken>>
  /\ kpc = "ring" => kpc' = "ring"

\* ... and the steps of the timer thread outside its unlock branch.
NotInBranch == tpc' # "mcu" /\ UNCHANGED <<mcu, unlockedIn, szCallTime, kpc>>

LEMMA FlagKeptStep == UnlockInv /\ (FlagKept \/ NotInBranch) => UnlockInv'
  BY DEF UnlockInv, FlagKept, NotInBranch

LEMMA UnlockStep == TypeOK /\ OwnerInv /\ UnlockInv /\ [Next]_vars => UnlockInv'
<1> SUFFICES ASSUME TypeOK, OwnerInv, UnlockInv, [Next]_vars PROVE UnlockInv'
  OBVIOUS
<1>1. CASE OnCallBegin
  BY <1>1, WaitedNotRung
  DEF OnCallBegin, UnlockInv, callVars, timerTable, keyVars, timerVars, history
<1>2. CASE ExitButton
  BY <1>2 DEF ExitButton, UnlockInv, CurrentCall, callVars, timerTable, keyVars, timerVars, history
<1>3. CASE DoUnlock
  BY <1>3 DEF DoUnlock, UnlockInv, CurrentCall, callVars, timerTable, keyVars, timerVars, history
<1>4. CASE McuCheck
  <2>1. (tpc' = "mcu" /\ ~ended' /\ ~overtaken') => (mcu /\ ~ended /\ ~overtaken)
    BY <1>4 DEF McuCheck
  <2>2. (mcu /\ ~ended /\ ~overtaken) => taken' = szCallTime'
    BY <1>4, WaitedNotRung DEF McuCheck, UnlockInv
  <2>3. ~mcu'
    BY <1>4 DEF McuCheck
  <2> QED BY <2>1, <2>2, <2>3 DEF UnlockInv
<1>5. CASE \/ PressCall \/ PressAgain \/ SetResetCall \/ OnCallStamp \/ OnCallNotify \/ OnCallArm
           \/ CloseOther \/ TimeoutSlot \/ TalkOn \/ DoAgree \/ DoLeave \/ DoReset \/ DoQuery
  <2>1. FlagKept
    BY <1>5 DEF FlagKept, PressCall, PressAgain, SetResetCall, OnCallStamp, OnCallNotify,
       OnCallArm, CloseOther, TimeoutSlot, TalkOn, DoAgree, DoLeave, DoReset, DoQuery,
       callVars, timerTable, keyVars, timerVars, history
  <2> QED BY <2>1, FlagKeptStep
<1>6. CASE \/ WaitAgreed \/ WaitTimeout \/ WaitOn \/ AgreeMe \/ ArmTalk \/ TimeoutEnd \/ TimeoutIR
           \/ McuEnd \/ McuIR \/ TalkStopped \/ TalkReset \/ TalkResetDone \/ TalkTimeout
           \/ TalkTimeoutNotify \/ TalkUnregister \/ TalkEnd
  <2>1. NotInBranch
    BY <1>6 DEF NotInBranch, WaitAgreed, WaitTimeout, WaitOn, WaitTick, AgreeMe, ArmTalk,
       TimeoutEnd, TimeoutIR, McuEnd, McuIR, TalkStopped, TalkReset, TalkResetDone, TalkTimeout,
       TalkTimeoutNotify, TalkUnregister, TalkEnd, callVars, timerTable, keyVars, timerVars, history
  <2> QED BY <2>1, FlagKeptStep
<1>7. CASE \E s \in Slots : Connect(s) \/ Drop(s) \/ RecvWatcherUnlock(s)
  <2>1. FlagKept
    BY <1>7 DEF FlagKept, Connect, Drop, RecvWatcherUnlock, callVars, timerTable, keyVars,
       timerVars, history
  <2> QED BY <2>1, FlagKeptStep
<1>8. CASE \E s \in Slots, id \in CallIDs :
              RecvQuery(s, id) \/ \E op \in DOMAIN NeedsState : RecvCommand(s, op, id)
  <2>1. FlagKept
    BY <1>8 DEF FlagKept, RecvQuery, RecvCommand, callVars, timerTable, keyVars, timerVars, history
  <2> QED BY <2>1, FlagKeptStep
<1>9. CASE UNCHANGED vars
  <2>1. FlagKept
    BY <1>9 DEF FlagKept, vars, callVars, timerTable, keyVars, timerVars, history
  <2> QED BY <2>1, FlagKeptStep
<1> QED BY <1>1, <1>2, <1>3, <1>4, <1>5, <1>6, <1>7, <1>8, <1>9
    DEF Next, KeyStep, TimerStep, CmdStep, Environment

\* Only the end of the unlock branch clears bStartCall from within it.
LEMMA BranchEnds ==
  ASSUME Next, tpc = "mcu", bStartCall, ~bStartCall' PROVE McuEnd
  BY DEF Next, KeyStep, TimerStep, CmdStep, Environment, PressCall, PressAgain, SetResetCall,
     OnCallBegin, OnCallStamp, OnCallNotify, OnCallArm, ExitButton, WaitAgreed, WaitTimeout,
     WaitOn, WaitTick, AgreeMe, CloseOther, ArmTalk, TimeoutSlot, TimeoutEnd, TimeoutIR, McuCheck,
     McuIR, TalkStopped, TalkOn, TalkReset, TalkResetDone, TalkTimeout, TalkTimeoutNotify,
     TalkUnregister, TalkEnd, DoAgree, DoLeave, DoReset, DoUnlock, DoQuery, Connect, Drop,
     RecvWatcherUnlock, RecvQuery, RecvCommand, callVars, timerTable, keyVars, timerVars, history

\* No call is ended by another call's unlock, unless the callback ending it had ended
\* the call before on its timeout and went on.
THEOREM UnlockFresh == Spec => StaleUnlockHarmless
<1>1. Init => OwnerInv /\ UnlockInv
  BY DEF Init, OwnerInv, OneOwner, NoStuckCall, Ringing, HandingOver, One, UnlockInv
<1>2. TypeOK /\ OwnerInv /\ UnlockInv /\ [Next]_vars
        => [(tpc = "mcu" /\ bStartCall /\ ~bStartCall') => (taken = CurrentCall \/ overtaken')]_vars
  <2> SUFFICES ASSUME TypeOK, OwnerInv, UnlockInv, Next, tpc = "mcu", bStartCall, ~bStartCall'
               PROVE  taken = CurrentCall \/ overtaken'
    OBVIOUS
  <2>1. McuEnd
    BY BranchEnds
  <2>2. CASE ended \/ overtaken
    BY <2>1, <2>2 DEF McuEnd
  <2>3. CASE ~ended /\ ~overtaken
    BY <2>3, WaitedNotRung DEF UnlockInv, CurrentCall
  <2> QED BY <2>2, <2>3
<1> QED BY <1>1, <1>2, OwnerStep, UnlockStep, TypeCorrect, PTL DEF Spec, StaleUnlockHarmless
-----------------------------------------------------------------------------
(***************************************************************************)
(* The refinement: each step of the threads is a step of CallPhase, or     *)
(* changes no phase.                                                       *)
(***************************************************************************)
phases == <<waiting, talking, kpc, tpc, overtaken>>

LEMMA PhaseStep == TypeOK /\ OwnerInv /\ [Next]_vars => [Abstract!Next]_Phase
<1> SUFFICES ASSUME TypeOK, OwnerInv, [Next]_vars PROVE [Abstract!Next]_Phase
  OBVIOUS
<1> USE DEF OwnerInv, OneOwner, Ringing, HandingOver, One
<1>ty. /\ waiting \in Nat /\ talking \in Nat /\ bStartCall \in BOOLEAN
      /\ ended \in BOOLEAN /\ overtaken \in BOOLEAN
  BY DEF TypeOK
<1>1. CASE PressCall
  BY <1>1, <1>ty DEF PressCall, Phase, Abstract!Next, Abstract!Move, Abstract!Press, callVars,
     timerTable, keyVars, timerVars, history
<1>2. CASE PressAgain
  BY <1>2, <1>ty DEF PressAgain, Phase, Abstract!Next, Abstract!Move, callVars, timerTable,
     keyVars, timerVars, history
<1>3. CASE SetResetCall
  BY <1>3, <1>ty DEF SetResetCall, Phase, Abstract!Next, Abstract!Move, callVars, timerTable,
     keyVars, timerVars, history
<1>4. CASE OnCallBegin
  BY <1>4, <1>ty DEF OnCallBegin, Phase, Abstract!Next, Abstract!Move, callVars, timerTable,
     keyVars, timerVars, history
<1>5. CASE OnCallStamp
  BY <1>5, <1>ty DEF OnCallStamp, Phase, Abstract!Next, Abstract!Move, callVars, timerTable,
     keyVars, timerVars, history
<1>6. CASE OnCallArm
  BY <1>6, <1>ty DEF OnCallArm, Phase, Abstract!Next, Abstract!Move, Abstract!Wait, callVars,
     timerTable, keyVars, timerVars, history
<1>7. CASE WaitAgreed
  BY <1>7, <1>ty DEF WaitAgreed, WaitTick, Unregister, Phase, Abstract!Next, Abstract!Move,
     Abstract!Agree, callVars, timerTable, keyVars, timerVars, history
<1>8. CASE WaitTimeout
  BY <1>8, <1>ty DEF WaitTimeout, WaitTick, Phase, Abstract!Next, Abstract!Move, callVars,
     timerTable, keyVars, timerVars, history
<1>9. CASE WaitOn
  BY <1>9, <1>ty DEF WaitOn, WaitTick, Phase, Abstract!Next, Abstract!Move, callVars, timerTable,
     keyVars, timerVars, history
<1>10. CASE AgreeMe
  BY <1>10, <1>ty DEF AgreeMe, Phase, Abstract!Next, Abstract!Move, callVars, timerTable,
     keyVars, timerVars, history
<1>11. CASE ArmTalk
  BY <1>11, <1>ty DEF ArmTalk, Phase, Abstract!Next, Abstract!Move, Abstract!Talk, callVars,
     timerTable, keyVars, timerVars, history
<1>12. CASE TimeoutEnd
  BY <1>12, <1>ty DEF TimeoutEnd, Unregister, Phase, Abstract!Next, Abstract!Move,
     Abstract!Unanswered, callVars, timerTable, keyVars, timerVars, history
<1>13. CASE TimeoutIR
  BY <1>13, <1>ty DEF TimeoutIR, Phase, Abstract!Next, Abstract!Move, callVars, timerTable,
     keyVars, timerVars, history
<1>14. CASE McuCheck
  BY <1>14, <1>ty DEF McuCheck, Phase, Abstract!Next, Abstract!Move, callVars, timerTable,
     keyVars, timerVars, history
<1>15. CASE McuEnd
  BY <1>15, <1>ty DEF McuEnd, Unregister, Phase, Abstract!Next, Abstract!Move,
     Abstract!Unanswered, Abstract!Collide, callVars, timerTable, keyVars, timerVars, history
<1>16. CASE McuIR
  BY <1>16, <1>ty DEF McuIR, Phase, Abstract!Next, Abstract!Move, callVars, timerTable, keyVars,
     timerVars, history
<1>17. CASE TalkStopped
  BY <1>17, <1>ty DEF TalkStopped, Phase, Abstract!Next, Abstract!Move, callVars, timerTable,
     keyVars, timerVars, history
<1>18. CASE TalkReset
  BY <1>18, <1>ty DEF TalkReset, Phase, Abstract!Next, Abstract!Move, callVars, timerTable,
     keyVars, timerVars, history
<1>19. CASE TalkResetDone
  BY <1>19, <1>ty DEF TalkResetDone, Phase, Abstract!Next, Abstract!Move, callVars, timerTable,
     keyVars, timerVars, history
<1>20. CASE TalkTimeout
  BY <1>20, <1>ty DEF TalkTimeout, Phase, Abstract!Next, Abstract!Move, callVars, timerTable,
     keyVars, timerVars, history
<1>21. CASE TalkTimeoutNotify
  BY <1>21, <1>ty DEF TalkTimeoutNotify, Phase, Abstract!Next, Abstract!Move, callVars,
     timerTable, keyVars, timerVars, history
<1>22. CASE TalkUnregister
  BY <1>22, <1>ty DEF TalkUnregister, Unregister, Phase, Abstract!Next, Abstract!Move,
     Abstract!Finish, callVars, timerTable, keyVars, timerVars, history
<1>23. CASE TalkEnd
  BY <1>23, <1>ty DEF TalkEnd, Phase, Abstract!Next, Abstract!Move, Abstract!Release, callVars,
     timerTable, keyVars, timerVars, history
<1>24. CASE OnCallNotify \/ ExitButton \/ CloseOther \/ TimeoutSlot \/ TalkOn \/ DoAgree \/ DoLeave \/ DoReset \/ DoUnlock \/ DoQuery
  <2>1. UNCHANGED phases
    BY <1>24 DEF phases, OnCallNotify, ExitButton, CloseOther, TimeoutSlot, TalkOn, DoAgree,
       DoLeave, DoReset, DoUnlock, DoQuery, callVars, timerTable, keyVars, timerVars, history
  <2> QED BY <2>1 DEF Phase, phases
<1>25. CASE \E s \in Slots : Connect(s) \/ Drop(s) \/ RecvWatcherUnlock(s)
  <2>1. UNCHANGED phases
    BY <1>25 DEF phases, Connect, Drop, RecvWatcherUnlock, callVars, timerTable, keyVars,
       timerVars, history
  <2> QED BY <2>1 DEF Phase, phases
<1>26. CASE \E s \in Slots, id \in CallIDs :
              RecvQuery(s, id) \/ \E op \in DOMAIN NeedsState : RecvCommand(s, op, id)
  <2>1. UNCHANGED phases
    BY <1>26 DEF phases, RecvQuery, RecvCommand, callVars, timerTable, keyVars, timerVars, history
  <2> QED BY <2>1 DEF Phase, phases
<1>27. CASE UNCHANGED vars
  <2>1. UNCHANGED phases
    BY <1>27 DEF phases, vars, callVars, timerTable, keyVars, timerVars, history
  <2> QED BY <2>1 DEF Phase, phases
<1> QED BY <1>1, <1>2, <1>3, <1>4, <1>5, <1>6, <1>7, <1>8, <1>9, <1>10, <1>11, <1>12, <1>13,
   <1>14, <1>15, <1>16, <1>17, <1>18, <1>19, <1>20, <1>21, <1>22, <1>23, <1>24, <1>25, <1>26,
   <1>27
    DEF Next, KeyStep, TimerStep, CmdStep, Environment

\* The doorbell's threads implement one call at a time.
THEOREM CallRefines == Spec => OneCallAtATime
<1>1. Init => Abstract!Init
  BY DEF Init, Abstract!Init, Phase, Ringing
<1>2. Init => OwnerInv
  BY DEF Init, OwnerInv, OneOwner, NoStuckCall, Ringing, HandingOver, One
<1> QED BY <1>1, <1>2, PhaseStep, OwnerStep, TypeCorrect, PTL
    DEF Spec, OneCallAtATime, Abstract!Spec
-----------------------------------------------------------------------------
(***************************************************************************)
(* Who talks.  The closing loop leaves no old talker behind it.            *)
(***************************************************************************)
ClosedOk(s) == (conn[s] /\ state[s] = "TALKING") => (s = nTalkSit \/ s \in late)

TalkerInv ==
  /\ OtherTalkersAreLate
  /\ (tpc = "closing" /\ ~overtaken) => \A s \in Slots : s < tidx => ClosedOk(s)

\* A step after which no slot talks that did not before.
Quieter == \A s \in Slots : (conn'[s] /\ state'[s] = "TALKING") => (conn[s] /\ state[s] = "TALKING")

LEMMA NotifyQuieter ==
  ASSUME TypeOK, NEW s \in Slots, NEW sk, NEW st, Notify(s, sk, st), conn[s],
         sk = "TALKING" => state[s] = "TALKING", st = "TALKING" => state[s] = "TALKING"
  PROVE  Quieter
  BY DEF Notify, Quieter, TypeOK

LEMMA NotifyOnlyQuieter ==
  ASSUME TypeOK, NEW s \in Slots, NotifyOnly(s) PROVE Quieter
<1>1. CASE conn[s] BY <1>1, NotifyQuieter DEF NotifyOnly
<1>2. CASE ~conn[s] BY <1>2 DEF NotifyOnly, Quieter
<1> QED BY <1>1, <1>2

LEMMA EndSlotQuieter ==
  ASSUME TypeOK, NEW s \in Slots, NEW sk, EndSlot(s, sk), sk = "TALKING" => state[s] = "TALKING"
  PROVE  Quieter
<1>1. CASE conn[s] BY <1>1, NotifyQuieter DEF EndSlot
<1>2. CASE ~conn[s] BY <1>2 DEF EndSlot, Quieter
<1> QED BY <1>1, <1>2

\* The step leaves the talk's owner and the late slots alone and nobody starts to talk.
LEMMA QuieterTalkers ==
  ASSUME TypeOK, TalkerInv, Quieter, UNCHANGED <<nTalkSit, late, overtaken>>,
         talking' > 0 => talking > 0,
         tpc' = "closing" => (tidx' = 0 \/ (tpc = "closing" /\ tidx' = tidx))
  PROVE  TalkerInv'
  BY DEF TalkerInv, ClosedOk, OtherTalkersAreLate, Quieter, Slots

LEMMA TalkerStep == TypeOK /\ OwnerInv /\ TalkerInv /\ [Next]_vars => TalkerInv'
<1> SUFFICES ASSUME TypeOK, OwnerInv, TalkerInv, [Next]_vars PROVE TalkerInv'
  OBVIOUS
<1>ty. /\ waiting \in Nat /\ talking \in Nat /\ tidx \in 0 .. MaxConn /\ nTalkSit \in Slots
      /\ overtaken \in BOOLEAN /\ bStartCall \in BOOLEAN
  BY DEF TypeOK
<1>1. CASE OnCallNotify
  <2>1. Quieter
    BY <1>1, <1>ty, NotifyQuieter DEF OnCallNotify, Quieter, callVars, timerTable, keyVars,
       timerVars, history, slotVars
  <2>2. UNCHANGED <<nTalkSit, late, overtaken>>
    BY <1>1 DEF OnCallNotify, callVars, timerTable, keyVars, timerVars, history, slotVars
  <2>3. /\ talking' > 0 => talking > 0
        /\ tpc' = "closing" => (tidx' = 0 \/ (tpc = "closing" /\ tidx' = tidx))
    BY <1>1, <1>ty DEF OnCallNotify, callVars, timerTable, keyVars, timerVars, history, slotVars
  <2> QED BY <2>1, <2>2, <2>3, QuieterTalkers
<1>2. CASE WaitTimeout
  <2>1. Quieter
    BY <1>2, <1>ty DEF WaitTimeout, WaitTick, Quieter, callVars, timerTable, keyVars, timerVars,
       history, slotVars
  <2>2. UNCHANGED <<nTalkSit, late, overtaken>>
    BY <1>2 DEF WaitTimeout, WaitTick, callVars, timerTable, keyVars, timerVars, history, slotVars
  <2>3. /\ talking' > 0 => talking > 0
        /\ tpc' = "closing" => (tidx' = 0 \/ (tpc = "closing" /\ tidx' = tidx))
    BY <1>2, <1>ty DEF WaitTimeout, WaitTick, callVars, timerTable, keyVars, timerVars, history,
       slotVars
  <2> QED BY <2>1, <2>2, <2>3, QuieterTalkers
<1>3. CASE WaitOn
  <2>1. Quieter
    BY <1>3, <1>ty DEF WaitOn, WaitTick, Quieter, callVars, timerTable, keyVars, timerVars,
       history, slotVars
  <2>2. UNCHANGED <<nTalkSit, late, overtaken>>
    BY <1>3 DEF WaitOn, WaitTick, callVars, timerTable, keyVars, timerVars, history, slotVars
  <2>3. /\ talking' > 0 => talking > 0
        /\ tpc' = "closing" => (tidx' = 0 \/ (tpc = "closing" /\ tidx' = tidx))
    BY <1>3, <1>ty DEF WaitOn, WaitTick, callVars, timerTable, keyVars, timerVars, history, slotVars
  <2> QED BY <2>1, <2>2, <2>3, QuieterTalkers
<1>4. CASE AgreeMe
  <2>1. Quieter
    BY <1>4, <1>ty, NotifyOnlyQuieter DEF AgreeMe, Quieter, callVars, timerTable, keyVars,
       timerVars, history, slotVars
  <2>2. UNCHANGED <<nTalkSit, late, overtaken>>
    BY <1>4 DEF AgreeMe, callVars, timerTable, keyVars, timerVars, history, slotVars
  <2>3. /\ talking' > 0 => talking > 0
        /\ tpc' = "closing" => (tidx' = 0 \/ (tpc = "closing" /\ tidx' = tidx))
    BY <1>4, <1>ty DEF AgreeMe, callVars, timerTable, keyVars, timerVars, history, slotVars
  <2> QED BY <2>1, <2>2, <2>3, QuieterTalkers
<1>5. CASE TimeoutSlot
  <2>1. Quieter
    BY <1>5, <1>ty, EndSlotQuieter DEF TimeoutSlot, Quieter, callVars, timerTable, keyVars,
       timerVars, history, slotVars
  <2>2. UNCHANGED <<nTalkSit, late, overtaken>>
    BY <1>5 DEF TimeoutSlot, callVars, timerTable, keyVars, timerVars, history, slotVars
  <2>3. /\ talking' > 0 => talking > 0
        /\ tpc' = "closing" => (tidx' = 0 \/ (tpc = "closing" /\ tidx' = tidx))
    BY <1>5, <1>ty DEF TimeoutSlot, callVars, timerTable, keyVars, timerVars, history, slotVars
  <2> QED BY <2>1, <2>2, <2>3, QuieterTalkers
<1>6. CASE TimeoutEnd
  <2>1. Quieter
    BY <1>6, <1>ty DEF TimeoutEnd, Unregister, Quieter, callVars, timerTable, keyVars, timerVars,
       history, slotVars
  <2>2. UNCHANGED <<nTalkSit, late, overtaken>>
    BY <1>6 DEF TimeoutEnd, Unregister, callVars, timerTable, keyVars, timerVars, history, slotVars
  <2>3. /\ talking' > 0 => talking > 0
        /\ tpc' = "closing" => (tidx' = 0 \/ (tpc = "closing" /\ tidx' = tidx))
    BY <1>6, <1>ty DEF TimeoutEnd, Unregister, callVars, timerTable, keyVars, timerVars, history,
       slotVars
  <2> QED BY <2>1, <2>2, <2>3, QuieterTalkers
<1>7. CASE TimeoutIR
  <2>1. Quieter
    BY <1>7, <1>ty DEF TimeoutIR, Quieter, callVars, timerTable, keyVars, timerVars, history,
       slotVars
  <2>2. UNCHANGED <<nTalkSit, late, overtaken>>
    BY <1>7 DEF TimeoutIR, callVars, timerTable, keyVars, timerVars, history, slotVars
  <2>3. /\ talking' > 0 => talking > 0
        /\ tpc' = "closing" => (tidx' = 0 \/ (tpc = "closing" /\ tidx' = tidx))
    BY <1>7, <1>ty DEF TimeoutIR, callVars, timerTable, keyVars, timerVars, history, slotVars
  <2> QED BY <2>1, <2>2, <2>3, QuieterTalkers
<1>8. CASE McuCheck
  <2>1. Quieter
    BY <1>8, <1>ty DEF McuCheck, Quieter, callVars, timerTable, keyVars, timerVars, history,
       slotVars
  <2>2. UNCHANGED <<nTalkSit, late, overtaken>>
    BY <1>8 DEF McuCheck, callVars, timerTable, keyVars, timerVars, history, slotVars
  <2>3. /\ talking' > 0 => talking > 0
        /\ tpc' = "closing" => (tidx' = 0 \/ (tpc = "closing" /\ tidx' = tidx))
    BY <1>8, <1>ty DEF McuCheck, callVars, timerTable, keyVars, timerVars, history, slotVars
  <2> QED BY <2>1, <2>2, <2>3, QuieterTalkers
<1>9. CASE McuIR
  <2>1. Quieter
    BY <1>9, <1>ty DEF McuIR, Quieter, callVars, timerTable, keyVars, timerVars, history, slotVars
  <2>2. UNCHANGED <<nTalkSit, late, overtaken>>
    BY <1>9 DEF McuIR, callVars, timerTable, keyVars, timerVars, history, slotVars
  <2>3. /\ talking' > 0 => talking > 0
        /\ tpc' = "closing" => (tidx' = 0 \/ (tpc = "closing" /\ tidx' = tidx))
    BY <1>9, <1>ty DEF McuIR, callVars, timerTable, keyVars, timerVars, history, slotVars
  <2> QED BY <2>1, <2>2, <2>3, QuieterTalkers
<1>10. CASE TalkStopped
  <2>1. Quieter
    BY <1>10, <1>ty DEF TalkStopped, TalkOver, TypeOK, Quieter, callVars, timerTable, keyVars,
       timerVars, history, slotVars
  <2>2. UNCHANGED <<nTalkSit, late, overtaken>>
    BY <1>10 DEF TalkStopped, callVars, timerTable, keyVars, timerVars, history, slotVars
  <2>3. /\ talking' > 0 => talking > 0
        /\ tpc' = "closing" => (tidx' = 0 \/ (tpc = "closing" /\ tidx' = tidx))
    BY <1>10, <1>ty DEF TalkStopped, callVars, timerTable, keyVars, timerVars, history, slotVars
  <2> QED BY <2>1, <2>2, <2>3, QuieterTalkers
<1>11. CASE TalkOn
  <2>1. Quieter
    BY <1>11, <1>ty DEF TalkOn, Quieter, callVars, timerTable, keyVars, timerVars, history, slotVars
  <2>2. UNCHANGED <<nTalkSit, late, overtaken>>
    BY <1>11 DEF TalkOn, callVars, timerTable, keyVars, timerVars, history, slotVars
  <2>3. /\ talking' > 0 => talking > 0
        /\ tpc' = "closing" => (tidx' = 0 \/ (tpc = "closing" /\ tidx' = tidx))
    BY <1>11, <1>ty DEF TalkOn, callVars, timerTable, keyVars, timerVars, history, slotVars
  <2> QED BY <2>1, <2>2, <2>3, QuieterTalkers
<1>12. CASE TalkReset
  <2>1. Quieter
    BY <1>12, <1>ty, NotifyOnlyQuieter DEF TalkReset, Quieter, callVars, timerTable, keyVars,
       timerVars, history, slotVars
  <2>2. UNCHANGED <<nTalkSit, late, overtaken>>
    BY <1>12 DEF TalkReset, callVars, timerTable, keyVars, timerVars, history, slotVars
  <2>3. /\ talking' > 0 => talking > 0
        /\ tpc' = "closing" => (tidx' = 0 \/ (tpc = "closing" /\ tidx' = tidx))
    BY <1>12, <1>ty DEF TalkReset, callVars, timerTable, keyVars, timerVars, history, slotVars
  <2> QED BY <2>1, <2>2, <2>3, QuieterTalkers
<1>13. CASE TalkResetDone
  <2>1. Quieter
    BY <1>13, <1>ty DEF TalkResetDone, Quieter, callVars, timerTable, keyVars, timerVars,
       history, slotVars
  <2>2. UNCHANGED <<nTalkSit, late, overtaken>>
    BY <1>13 DEF TalkResetDone, callVars, timerTable, keyVars, timerVars, history, slotVars
  <2>3. /\ talking' > 0 => talking > 0
        /\ tpc' = "closing" => (tidx' = 0 \/ (tpc = "closing" /\ tidx' = tidx))
    BY <1>13, <1>ty DEF TalkResetDone, callVars, timerTable, keyVars, timerVars, history, slotVars
  <2> QED BY <2>1, <2>2, <2>3, QuieterTalkers
<1>14. CASE TalkTimeout
  <2>1. Quieter
    BY <1>14, <1>ty DEF TalkTimeout, TalkOver, TypeOK, Quieter, callVars, timerTable, keyVars,
       timerVars, history, slotVars
  <2>2. UNCHANGED <<nTalkSit, late, overtaken>>
    BY <1>14 DEF TalkTimeout, callVars, timerTable, keyVars, timerVars, history, slotVars
  <2>3. /\ talking' > 0 => talking > 0
        /\ tpc' = "closing" => (tidx' = 0 \/ (tpc = "closing" /\ tidx' = tidx))
    BY <1>14, <1>ty DEF TalkTimeout, callVars, timerTable, keyVars, timerVars, history, slotVars
  <2> QED BY <2>1, <2>2, <2>3, QuieterTalkers
<1>15. CASE TalkTimeoutNotify
  <2>1. Quieter
    BY <1>15, <1>ty, EndSlotQuieter DEF TalkTimeoutNotify, Quieter, callVars, timerTable,
       keyVars, timerVars, history, slotVars
  <2>2. UNCHANGED <<nTalkSit, late, overtaken>>
    BY <1>15 DEF TalkTimeoutNotify, callVars, timerTable, keyVars, timerVars, history, slotVars
  <2>3. /\ talking' > 0 => talking > 0
        /\ tpc' = "closing" => (tidx' = 0 \/ (tpc = "closing" /\ tidx' = tidx))
    BY <1>15, <1>ty DEF TalkTimeoutNotify, callVars, timerTable, keyVars, timerVars, history,
       slotVars
  <2> QED BY <2>1, <2>2, <2>3, QuieterTalkers
<1>16. CASE TalkUnregister
  <2>1. Quieter
    BY <1>16, <1>ty DEF TalkUnregister, Unregister, Quieter, callVars, timerTable, keyVars,
       timerVars, history, slotVars
  <2>2. UNCHANGED <<nTalkSit, late, overtaken>>
    BY <1>16 DEF TalkUnregister, Unregister, callVars, timerTable, keyVars, timerVars, history,
       slotVars
  <2>3. /\ talking' > 0 => talking > 0
        /\ tpc' = "closing" => (tidx' = 0 \/ (tpc = "closing" /\ tidx' = tidx))
    BY <1>16, <1>ty DEF TalkUnregister, Unregister, callVars, timerTable, keyVars, timerVars,
       history, slotVars
  <2> QED BY <2>1, <2>2, <2>3, QuieterTalkers
<1>17. CASE TalkEnd
  <2>1. Quieter
    BY <1>17, <1>ty DEF TalkEnd, Quieter, callVars, timerTable, keyVars, timerVars, history,
       slotVars
  <2>2. UNCHANGED <<nTalkSit, late, overtaken>>
    BY <1>17 DEF TalkEnd, callVars, timerTable, keyVars, timerVars, history, slotVars
  <2>3. /\ talking' > 0 => talking > 0
        /\ tpc' = "closing" => (tidx' = 0 \/ (tpc = "closing" /\ tidx' = tidx))
    BY <1>17, <1>ty DEF TalkEnd, callVars, timerTable, keyVars, timerVars, history, slotVars
  <2> QED BY <2>1, <2>2, <2>3, QuieterTalkers
<1>18. CASE DoLeave
  <2>1. Quieter
    BY <1>18, <1>ty DEF DoLeave, TypeOK, Quieter, callVars, timerTable, keyVars, timerVars,
       history, slotVars
  <2>2. UNCHANGED <<nTalkSit, late, overtaken>>
    BY <1>18 DEF DoLeave, callVars, timerTable, keyVars, timerVars, history, slotVars
  <2>3. /\ talking' > 0 => talking > 0
        /\ tpc' = "closing" => (tidx' = 0 \/ (tpc = "closing" /\ tidx' = tidx))
    BY <1>18, <1>ty DEF DoLeave, callVars, timerTable, keyVars, timerVars, history, slotVars
  <2> QED BY <2>1, <2>2, <2>3, QuieterTalkers
<1>19. CASE DoReset
  <2>1. Quieter
    BY <1>19, <1>ty DEF DoReset, Quieter, callVars, timerTable, keyVars, timerVars, history,
       slotVars
  <2>2. UNCHANGED <<nTalkSit, late, overtaken>>
    BY <1>19 DEF DoReset, callVars, timerTable, keyVars, timerVars, history, slotVars
  <2>3. /\ talking' > 0 => talking > 0
        /\ tpc' = "closing" => (tidx' = 0 \/ (tpc = "closing" /\ tidx' = tidx))
    BY <1>19, <1>ty DEF DoReset, callVars, timerTable, keyVars, timerVars, history, slotVars
  <2> QED BY <2>1, <2>2, <2>3, QuieterTalkers
<1>20. CASE DoUnlock
  <2>1. Quieter
    BY <1>20, <1>ty DEF DoUnlock, Quieter, callVars, timerTable, keyVars, timerVars, history,
       slotVars
  <2>2. UNCHANGED <<nTalkSit, late, overtaken>>
    BY <1>20 DEF DoUnlock, callVars, timerTable, keyVars, timerVars, history, slotVars
  <2>3. /\ talking' > 0 => talking > 0
        /\ tpc' = "closing" => (tidx' = 0 \/ (tpc = "closing" /\ tidx' = tidx))
    BY <1>20, <1>ty DEF DoUnlock, callVars, timerTable, keyVars, timerVars, history, slotVars
  <2> QED BY <2>1, <2>2, <2>3, QuieterTalkers
<1>21. CASE PressCall
  <2>1. Quieter
    BY <1>21, <1>ty DEF PressCall, Quieter, callVars, timerTable, keyVars, timerVars, history,
       slotVars
  <2>2. UNCHANGED <<nTalkSit, late, overtaken>>
    BY <1>21 DEF PressCall, callVars, timerTable, keyVars, timerVars, history, slotVars
  <2>3. /\ talking' > 0 => talking > 0
        /\ tpc' = "closing" => (tidx' = 0 \/ (tpc = "closing" /\ tidx' = tidx))
    BY <1>21, <1>ty DEF PressCall, callVars, timerTable, keyVars, timerVars, history, slotVars
  <2> QED BY <2>1, <2>2, <2>3, QuieterTalkers
<1>22. CASE PressAgain
  <2>1. Quieter
    BY <1>22, <1>ty DEF PressAgain, Quieter, callVars, timerTable, keyVars, timerVars, history,
       slotVars
  <2>2. UNCHANGED <<nTalkSit, late, overtaken>>
    BY <1>22 DEF PressAgain, callVars, timerTable, keyVars, timerVars, history, slotVars
  <2>3. /\ talking' > 0 => talking > 0
        /\ tpc' = "closing" => (tidx' = 0 \/ (tpc = "closing" /\ tidx' = tidx))
    BY <1>22, <1>ty DEF PressAgain, callVars, timerTable, keyVars, timerVars, history, slotVars
  <2> QED BY <2>1, <2>2, <2>3, QuieterTalkers
<1>23. CASE SetResetCall
  <2>1. Quieter
    BY <1>23, <1>ty DEF SetResetCall, Quieter, callVars, timerTable, keyVars, timerVars, history,
       slotVars
  <2>2. UNCHANGED <<nTalkSit, late, overtaken>>
    BY <1>23 DEF SetResetCall, callVars, timerTable, keyVars, timerVars, history, slotVars
  <2>3. /\ talking' > 0 => talking > 0
        /\ tpc' = "closing" => (tidx' = 0 \/ (tpc = "closing" /\ tidx' = tidx))
    BY <1>23, <1>ty DEF SetResetCall, callVars, timerTable, keyVars, timerVars, history, slotVars
  <2> QED BY <2>1, <2>2, <2>3, QuieterTalkers
<1>24. CASE OnCallBegin
  <2>1. Quieter
    BY <1>24, <1>ty DEF OnCallBegin, Quieter, callVars, timerTable, keyVars, timerVars, history,
       slotVars
  <2>2. UNCHANGED <<nTalkSit, late, overtaken>>
    BY <1>24 DEF OnCallBegin, callVars, timerTable, keyVars, timerVars, history, slotVars
  <2>3. /\ talking' > 0 => talking > 0
        /\ tpc' = "closing" => (tidx' = 0 \/ (tpc = "closing" /\ tidx' = tidx))
    BY <1>24, <1>ty DEF OnCallBegin, callVars, timerTable, keyVars, timerVars, history, slotVars
  <2> QED BY <2>1, <2>2, <2>3, QuieterTalkers
<1>25. CASE OnCallStamp
  <2>1. Quieter
    BY <1>25, <1>ty DEF OnCallStamp, Quieter, callVars, timerTable, keyVars, timerVars, history,
       slotVars
  <2>2. UNCHANGED <<nTalkSit, late, overtaken>>
    BY <1>25 DEF OnCallStamp, callVars, timerTable, keyVars, timerVars, history, slotVars
  <2>3. /\ talking' > 0 => talking > 0
        /\ tpc' = "closing" => (tidx' = 0 \/ (tpc = "closing" /\ tidx' = tidx))
    BY <1>25, <1>ty DEF OnCallStamp, callVars, timerTable, keyVars, timerVars, history, slotVars
  <2> QED BY <2>1, <2>2, <2>3, QuieterTalkers
<1>26. CASE ExitButton
  <2>1. Quieter
    BY <1>26, <1>ty DEF ExitButton, Quieter, callVars, timerTable, keyVars, timerVars, history,
       slotVars
  <2>2. UNCHANGED <<nTalkSit, late, overtaken>>
    BY <1>26 DEF ExitButton, callVars, timerTable, keyVars, timerVars, history, slotVars
  <2>3. /\ talking' > 0 => talking > 0
        /\ tpc' = "closing" => (tidx' = 0 \/ (tpc = "closing" /\ tidx' = tidx))
    BY <1>26, <1>ty DEF ExitButton, callVars, timerTable, keyVars, timerVars, history, slotVars
  <2> QED BY <2>1, <2>2, <2>3, QuieterTalkers
<1>27. CASE OnCallArm
  <2>1. ~overtaken => talking = 0 /\ ~HandingOver
    BY <1>27, <1>ty DEF OnCallArm, OwnerInv, OneOwner, Ringing, One
  <2> QED BY <1>27, <2>1 DEF OnCallArm, TalkerInv, OtherTalkersAreLate, HandingOver, callVars,
     timerTable, keyVars, timerVars, history, slotVars
<1>28. CASE WaitAgreed
  <2>1. ~overtaken => talking = 0
    BY <1>28, <1>ty DEF WaitAgreed, WaitTick, OwnerInv, OneOwner, HandingOver, One
  <2> QED BY <1>28, <2>1 DEF WaitAgreed, WaitTick, TalkerInv, OtherTalkersAreLate, callVars,
     timerTable, keyVars, timerVars, history, slotVars
<1>29. CASE CloseOther
  <2>1. PICK u \in Slots : u = tidx /\ tidx' = u + 1 /\ late' = late \ {u}
    BY <1>29 DEF CloseOther
  <2>2. Quieter
    BY <1>29, EndSlotQuieter DEF CloseOther, Quieter
  <2>3. u # nTalkSit => ~(conn'[u] /\ state'[u] = "TALKING")
    BY <1>29, <2>1 DEF CloseOther, EndSlot, Notify, TypeOK
  <2>4. UNCHANGED <<talking, overtaken, tpc, nTalkSit>> /\ tpc = "closing"
    BY <1>29 DEF CloseOther, callVars, timerTable, keyVars, timerVars, history, slotVars
  <2>5. \A s \in Slots : ClosedOk(s) /\ s # u => ClosedOk(s)'
    BY <2>1, <2>2, <2>4 DEF Quieter, ClosedOk
  <2>6. ClosedOk(u)'
    BY <2>3, <2>4 DEF ClosedOk
  <2>7. \A s \in Slots : s < tidx' => s < tidx \/ s = u
    BY <2>1, <1>ty DEF Slots
  <2>8. ~overtaken => talking = 0
    BY <1>29, <1>ty DEF CloseOther, OwnerInv, OneOwner, HandingOver, One
  <2>9. ~overtaken' => \A s \in Slots : s < tidx' => ClosedOk(s)'
    BY <2>4, <2>5, <2>6, <2>7 DEF TalkerInv
  <2> QED BY <2>4, <2>8, <2>9, <1>ty DEF TalkerInv, OtherTalkersAreLate
<1>30. CASE ArmTalk
  <2>1. \A s \in Slots : s < tidx
    BY <1>30, <1>ty DEF ArmTalk, Slots
  <2> QED BY <1>30, <2>1, <1>ty DEF ArmTalk, TalkerInv, ClosedOk, OtherTalkersAreLate, callVars,
     timerTable, keyVars, timerVars, history, slotVars
<1>31. CASE McuEnd
  <2>1. overtaken => overtaken'
    BY <1>31 DEF McuEnd
  <2> QED BY <1>31, <2>1 DEF McuEnd, TalkerInv, ClosedOk, OtherTalkersAreLate, callVars,
     timerTable, keyVars, timerVars, history, slotVars
<1>32. CASE DoAgree
  <2>1. waiting > 0 /\ ~overtaken => talking = 0 /\ tpc # "closing"
    BY <1>ty DEF OwnerInv, OneOwner, HandingOver, One
  <2>2. waiting > 0 => TalkerInv'
    BY <1>32, <2>1 DEF DoAgree, TalkerInv, ClosedOk, OtherTalkersAreLate, callVars, timerTable,
       keyVars, timerVars, history, slotVars
  <2>3. CASE waiting = 0
    <3>1. PICK u : u = cmd.sit /\ state' = [state EXCEPT ![u] = "TALKING"] /\ late' = late \cup {u}
      BY <1>32, <2>3 DEF DoAgree
    <3>2. UNCHANGED <<conn, talking, tpc, tidx, overtaken, nTalkSit>>
      BY <1>32 DEF DoAgree, callVars, timerTable, keyVars, timerVars, history, slotVars
    <3>3. \A s \in Slots : ClosedOk(s) => ClosedOk(s)'
      BY <3>1, <3>2 DEF ClosedOk, TypeOK
    <3> QED BY <3>2, <3>3 DEF TalkerInv, ClosedOk, OtherTalkersAreLate
  <2> QED BY <2>2, <2>3, <1>ty
<1>33. CASE DoQuery
  <2>1. Quieter
    BY <1>33 DEF DoQuery, Quieter, TypeOK, callVars, timerTable, keyVars, timerVars, history,
       slotVars
  <2>2. late \subseteq late' /\ UNCHANGED <<talking, tpc, tidx, overtaken, nTalkSit>>
    BY <1>33 DEF DoQuery, callVars, timerTable, keyVars, timerVars, history, slotVars
  <2> QED BY <2>1, <2>2 DEF TalkerInv, ClosedOk, OtherTalkersAreLate, Quieter
<1>34. CASE \E s \in Slots : Connect(s)
  <2>1. PICK s \in Slots : Connect(s) BY <1>34
  <2>2. \A u \in Slots : ClosedOk(u) => ClosedOk(u)'
    BY <2>1 DEF Connect, ClosedOk, TypeOK, callVars, timerTable, keyVars, timerVars, history,
       slotVars
  <2>3. UNCHANGED <<talking, tpc, tidx, overtaken, nTalkSit>>
    BY <2>1 DEF Connect, callVars, timerTable, keyVars, timerVars, history, slotVars
  <2> QED BY <2>2, <2>3 DEF TalkerInv, ClosedOk, OtherTalkersAreLate
<1>35. CASE \E s \in Slots : Drop(s)
  <2>1. PICK s \in Slots : Drop(s) BY <1>35
  <2>2. Quieter
    BY <2>1 DEF Drop, Quieter, TypeOK, callVars, timerTable, keyVars, timerVars, history, slotVars
  <2>3. UNCHANGED <<talking, tpc, tidx, overtaken, nTalkSit, late>>
    BY <2>1 DEF Drop, callVars, timerTable, keyVars, timerVars, history, slotVars
  <2> QED BY <2>2, <2>3, QuieterTalkers
<1>36. CASE \/ \E s \in Slots : RecvWatcherUnlock(s)
            \/ \E s \in Slots, id \in CallIDs :
               RecvQuery(s, id) \/ \E op \in DOMAIN NeedsState : RecvCommand(s, op, id)
            \/ UNCHANGED vars
  <2>1. UNCHANGED <<conn, state, talking, tpc, tidx, overtaken, nTalkSit, late>>
    BY <1>36 DEF RecvWatcherUnlock, RecvQuery, RecvCommand, vars, callVars, timerTable, keyVars,
       timerVars, history, slotVars
  <2>2. Quieter
    BY <2>1 DEF Quieter
  <2>3. /\ UNCHANGED <<nTalkSit, late, overtaken>>
        /\ talking' > 0 => talking > 0
        /\ tpc' = "closing" => (tidx' = 0 \/ (tpc = "closing" /\ tidx' = tidx))
    BY <2>1
  <2> QED BY <2>2, <2>3, QuieterTalkers
<1>37. \/ KeyStep \/ TimerStep \/ CmdStep \/ PressCall \/ PressAgain \/ ExitButton
       \/ (\E s \in Slots : Connect(s)) \/ (\E s \in Slots : Drop(s))
       \/ (\E s \in Slots : RecvWatcherUnlock(s))
       \/ \E s \in Slots, id \in CallIDs :
            RecvQuery(s, id) \/ \E op \in DOMAIN NeedsState : RecvCommand(s, op, id)
       \/ UNCHANGED vars
  BY DEF Next, Environment
<1> QED BY <1>1, <1>2, <1>3, <1>4, <1>5, <1>6, <1>7, <1>8, <1>9, <1>10, <1>11, <1>12, <1>13,
   <1>14, <1>15, <1>16, <1>17, <1>18, <1>19, <1>20, <1>21, <1>22, <1>23, <1>24, <1>25, <1>26,
   <1>27, <1>28, <1>29, <1>30, <1>31, <1>32, <1>33, <1>34, <1>35, <1>36, <1>37
    DEF KeyStep, TimerStep, CmdStep

\* While a talk is timed, only its own slot and the ones let in late talk.
THEOREM TalkersKnown == Spec => []OtherTalkersAreLate
<1>1. Init => OwnerInv /\ TalkerInv
  BY DEF Init, OwnerInv, OneOwner, NoStuckCall, Ringing, HandingOver, One, TalkerInv,
         OtherTalkersAreLate
<1>2. TalkerInv => OtherTalkersAreLate
  BY DEF TalkerInv
<1> QED BY <1>1, <1>2, OwnerStep, TalkerStep, TypeCorrect, PTL DEF Spec
=============================================================================

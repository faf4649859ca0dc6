------------------------------ MODULE BellCall ------------------------------
(***************************************************************************)
(* The call session of the doorbell (p2p/p2p.c).                           *)
(*                                                                         *)
(* Four threads share the connection table p2pstream[] and the globals     *)
(* bStartCall, bResetCall, nTimerCall, nTalkSit and bMcuNotyceFlag without *)
(* a lock:                                                                 *)
(*   key thread    DefKeyProc -> OnPressCall -> StartCall -> OnCall        *)
(*   timer thread  SysTimerProc -> CallbackWaitingAgree / CallbackTalking  *)
(*   cmd thread    p2pcmdThreadProc -> p2plivestream / GetSessionState     *)
(*   the others    accept a connection or drop one whose I/O failed        *)
(*                                                                         *)
(* Every blocking call (sleep, a notification written to a peer) and every *)
(* read that a later write of the same thread relies on is a step          *)
(* boundary; loops that only touch memory are one step.  The video and     *)
(* audio flags of a slot, its watch state and the IR mask's other bits are *)
(* modelled in WatchSession.                                               *)
(***************************************************************************)
EXTENDS Integers, FiniteSets

CONSTANTS MaxConn,   \* MAX_P2P_CONNECT, the slots of p2pstream[]
          MaxWait,   \* bparam.stBell.max_wait, ticks a call rings
          MaxTalk,   \* bparam.stBell.max_talk, ticks a talk lasts
          MaxCalls,  \* bound: calls started in a behaviour
          MaxResets, \* bound: timer resets (second press, command 27)
          MaxUnlocks \* bound: timed unlocks (command 23, exit button)

ASSUME BellCallAssumption ==
  /\ MaxConn \in Nat \ {0}
  /\ MaxWait \in Nat \ {0} /\ MaxTalk \in Nat \ {0}
  /\ MaxCalls \in Nat /\ MaxResets \in Nat /\ MaxUnlocks \in Nat

VARIABLES
  conn,       \* conn[s]: p2pstream[s].socket != -1
  state,      \* p2pstream[s].state
  callID,     \* p2pstream[s].szCallID, 0 when empty; calls are numbered by start
  bStartCall, bResetCall, nTimerCall, nTalkSit,
  szCallTime, \* the id of the last call rung
  mcu,        \* bMcuNotyceFlag
  ir,         \* bit IR_CALL of nIRState
  waiting,    \* registrations of CallbackWaitingAgree in the timer table
  talking,    \* registrations of CallbackTalking
  kpc, kidx,  \* key thread: control point, slot its notification loop is at
  tpc, tidx,  \* timer thread: control point, slot its notification loop is at
  ended,      \* timer thread: this callback has already ended the call
  cmd,        \* cmd thread: the command whose switch has been taken
  resets, unlocks, \* counters for the bounds
  unlockedIn, \* history: the call that was current at the last unlock
  taken,      \* history: the call of the unlock the timer thread's unlock branch acts on
  late,       \* history: slots made CALLING by a query, or agreed after the close
  overtaken   \* history: an unlock ending hit the call after the one it ended

slotVars == <<conn, state, callID>>
callVars == <<bStartCall, bResetCall, nTimerCall, nTalkSit, szCallTime, mcu, ir>>
timerTable == <<waiting, talking>>
keyVars == <<kpc, kidx>>
timerVars == <<tpc, tidx, ended>>
bounds == <<resets, unlocks>>
history == <<unlockedIn, taken, late, overtaken>>
vars == <<slotVars, callVars, timerTable, keyVars, timerVars, cmd, bounds, history>>

Slots == 0 .. MaxConn - 1
NoID == 0
NoCmd == [op |-> "none"]

\* The number of the call in progress, or of the last one: the call time of a press is
\* only taken in OnCallBegin.
CurrentCall == IF kpc = "ring" THEN szCallTime + 1 ELSE szCallTime
-----------------------------------------------------------------------------
Init ==
  /\ conn = [s \in Slots |-> FALSE]
  /\ state = [s \in Slots |-> "IDLE"]
  /\ callID = [s \in Slots |-> NoID]
  /\ bStartCall = FALSE /\ bResetCall = FALSE /\ nTimerCall = 0 /\ nTalkSit = 0
  /\ szCallTime = NoID /\ mcu = FALSE /\ ir = FALSE
  /\ waiting = 0 /\ talking = 0
  /\ kpc = "idle" /\ kidx = 0
  /\ tpc = "idle" /\ tidx = 0 /\ ended = FALSE
  /\ cmd = NoCmd
  /\ resets = 0 /\ unlocks = 0
  /\ unlockedIn = NoID /\ taken = NoID /\ late = {} /\ overtaken = FALSE

(***************************************************************************)
(* OnDoorP2PAlarm for one connected slot: the peer's buffer is full and    *)
(* the slot is skipped, or its state becomes st, or an I/O error pops it.  *)
(* The new state when it is skipped is given apart because two callers     *)
(* write the state themselves first.                                       *)
(***************************************************************************)
Notify(s, skipped, st) ==
  \/ /\ state' = [state EXCEPT ![s] = skipped]
     /\ UNCHANGED conn
  \/ /\ state' = [state EXCEPT ![s] = st]
     /\ UNCHANGED conn
  \/ /\ state' = [state EXCEPT ![s] = "IDLE"]
     /\ conn' = [conn EXCEPT ![s] = FALSE]

\* A notification that leaves the state alone (BELL_AGREE_ME, BELL_RESET_TIMER).
NotifyOnly(s) ==
  IF conn[s] THEN Notify(s, state[s], state[s]) ELSE UNCHANGED <<conn, state>>

\* Mutant: the state is left to the notification, which a full buffer skips.
EndSlotByNotify(s, skipped) ==
  IF conn[s] THEN Notify(s, state[s], "IDLE") ELSE UNCHANGED <<conn, state>>

\* One turn of the "state = IDLE, then notify" loops of the timer thread.
EndSlot(s, skipped) ==
  IF conn[s] THEN Notify(s, skipped, "IDLE") ELSE UNCHANGED <<conn, state>>

\* Mutant: the removal misses.
UnregisterMissed(n) == n

\* UnRegisterBaSysCallback removes one registration if there is one.
Unregister(n) == IF n = 0 THEN 0 ELSE n - 1
-----------------------------------------------------------------------------
(* Key thread *)

\* Mutant: the test of bStartCall is gone.
PressCallUntested ==
  /\ kpc = "idle" /\ szCallTime < MaxCalls
  /\ bStartCall' = TRUE
  /\ kpc' = "ring"
  /\ UNCHANGED <<slotVars, bResetCall, nTimerCall, nTalkSit, szCallTime, mcu, ir,
                 timerTable, kidx, timerVars, cmd, bounds, history>>

\* StartCall with no call in progress.
PressCall ==
  /\ kpc = "idle" /\ ~bStartCall /\ szCallTime < MaxCalls
  /\ bStartCall' = TRUE
  /\ kpc' = "ring"
  /\ UNCHANGED <<slotVars, bResetCall, nTimerCall, nTalkSit, szCallTime, mcu, ir,
                 timerTable, kidx, timerVars, cmd, bounds, history>>

\* StartCall reads bStartCall = TRUE ...
PressAgain ==
  /\ kpc = "idle" /\ bStartCall /\ resets < MaxResets
  /\ resets' = resets + 1
  /\ kpc' = "again"
  /\ UNCHANGED <<slotVars, callVars, timerTable, kidx, timerVars, cmd, unlocks, history>>

\* ... and sets bResetCall, whatever has become of the call meanwhile.
SetResetCall ==
  /\ kpc = "again"
  /\ bResetCall' = TRUE
  /\ kpc' = "idle"
  /\ UNCHANGED <<slotVars, bStartCall, nTimerCall, nTalkSit, szCallTime, mcu, ir,
                 timerTable, kidx, timerVars, cmd, bounds, history>>

\* Mutant: SetMcuNotyceFlag(0) is missing.
OnCallBeginKeepsMcu ==
  /\ kpc = "ring"
  /\ ir' = TRUE
  /\ szCallTime' = szCallTime + 1
  /\ kpc' = "stamp"
  /\ UNCHANGED <<slotVars, bStartCall, bResetCall, nTimerCall, nTalkSit, mcu,
                 timerTable, kidx, timerVars, cmd, bounds, history>>

\* OnCall up to its sleep(2): light, unlock flag, new call time.
OnCallBegin ==
  /\ kpc = "ring"
  /\ ir' = TRUE
  /\ mcu' = FALSE
  /\ szCallTime' = szCallTime + 1
  /\ kpc' = "stamp"
  /\ UNCHANGED <<slotVars, bStartCall, bResetCall, nTimerCall, nTalkSit,
                 timerTable, kidx, timerVars, cmd, bounds, history>>

\* OnCall after the sleep: the call id goes to whoever is connected now.
OnCallStamp ==
  /\ kpc = "stamp"
  /\ callID' = [s \in Slots |-> IF conn[s] THEN szCallTime ELSE callID[s]]
  /\ kpc' = "notify" /\ kidx' = 0
  /\ UNCHANGED <<conn, state, callVars, timerTable, timerVars, cmd, bounds, history>>

\* OnDoorP2PAlarm(-1, szCallTime, BELL_CALL), one slot.
OnCallNotify ==
  /\ kpc = "notify" /\ kidx \in Slots
  /\ IF conn[kidx] THEN Notify(kidx, state[kidx], "CALLING")
                   ELSE UNCHANGED <<conn, state>>
  /\ kidx' = kidx + 1
  /\ UNCHANGED <<callID, callVars, timerTable, kpc, timerVars, cmd, bounds, history>>

\* OnCall's end: the wait is timed from now on.
OnCallArm ==
  /\ kpc = "notify" /\ kidx = MaxConn
  /\ nTimerCall' = 0
  /\ waiting' = waiting + 1
  /\ kpc' = "idle" /\ kidx' = 0
  /\ late' = {}
  /\ UNCHANGED <<slotVars, bStartCall, bResetCall, nTalkSit, szCallTime, mcu, ir,
                 talking, timerVars, cmd, bounds, unlockedIn, taken, overtaken>>

\* The exit button (BELL_ALARMIN) runs OnDoorOpen on the key thread.
ExitButton ==
  /\ kpc = "idle" /\ unlocks < MaxUnlocks
  /\ mcu' = TRUE
  /\ unlocks' = unlocks + 1
  /\ unlockedIn' = CurrentCall
  /\ UNCHANGED <<slotVars, bStartCall, bResetCall, nTimerCall, nTalkSit, szCallTime,
                 ir, timerTable, keyVars, timerVars, cmd, resets, taken, late, overtaken>>
-----------------------------------------------------------------------------
(* Timer thread: CallbackWaitingAgree *)

Talkers == {s \in Slots : conn[s] /\ state[s] = "TALKING"}
Ticks == IF bResetCall THEN 0 ELSE nTimerCall + 1

\* The common head of the callback's branches.
WaitTick ==
  /\ tpc = "idle" /\ waiting > 0
  /\ nTimerCall' = Ticks
  /\ bResetCall' = FALSE
  /\ ended' = FALSE /\ tidx' = 0
  /\ UNCHANGED <<slotVars, bStartCall, szCallTime, mcu, ir, talking, keyVars, cmd,
                 bounds, unlockedIn, taken, overtaken>>

\* Somebody agreed: the wait is unregistered.
WaitAgreed ==
  /\ WaitTick
  /\ \E s \in Talkers : /\ \A t \in Talkers : s <= t
                        /\ nTalkSit' = s
  /\ waiting' = Unregister(waiting)
  /\ late' = late
  /\ tpc' = "agreeMe"

WaitTimeout ==
  /\ WaitTick
  /\ Talkers = {} /\ Ticks >= MaxWait
  /\ tpc' = "timeout"
  /\ UNCHANGED <<nTalkSit, waiting, late>>

WaitOn ==
  /\ WaitTick
  /\ Talkers = {} /\ Ticks < MaxWait
  /\ tpc' = "mcuCheck"
  /\ UNCHANGED <<nTalkSit, waiting, late>>

\* OnDoorP2PAlarm(index, BELL_AGREE_ME) and the push to the other users.
AgreeMe ==
  /\ tpc = "agreeMe"
  /\ NotifyOnly(nTalkSit)
  /\ tpc' = "closing" /\ tidx' = 0
  /\ UNCHANGED <<callID, callVars, timerTable, keyVars, ended, cmd, bounds, history>>

\* "Close Other", one slot: IDLE, then BELL_AGREE.
CloseOther ==
  /\ tpc = "closing" /\ tidx \in Slots
  /\ IF tidx # nTalkSit THEN EndSlot(tidx, "IDLE") ELSE UNCHANGED <<conn, state>>
  /\ late' = late \ {tidx}
  /\ tidx' = tidx + 1
  /\ UNCHANGED <<callID, callVars, timerTable, keyVars, tpc, ended, cmd, bounds,
                 unlockedIn, taken, overtaken>>

\* Mutant: RegisterBaSysCallback(CallbackTalking) is missing.
ArmTalkUntimed ==
  /\ tpc = "closing" /\ tidx = MaxConn
  /\ nTimerCall' = 0
  /\ tpc' = "idle" /\ tidx' = 0
  /\ UNCHANGED <<slotVars, bStartCall, bResetCall, nTalkSit, szCallTime, mcu, ir,
                 timerTable, keyVars, ended, cmd, bounds, history>>

ArmTalk ==
  /\ tpc = "closing" /\ tidx = MaxConn
  /\ nTimerCall' = 0
  /\ talking' = talking + 1
  /\ tpc' = "idle" /\ tidx' = 0
  /\ UNCHANGED <<slotVars, bStartCall, bResetCall, nTalkSit, szCallTime, mcu, ir,
                 waiting, keyVars, ended, cmd, bounds, history>>

\* The wait timeout, one slot.
TimeoutSlot ==
  /\ tpc \in {"timeout", "mcu"} /\ tidx \in Slots
  /\ EndSlot(tidx, IF state[tidx] = "CALLING" THEN "IDLE" ELSE state[tidx])
  /\ tidx' = tidx + 1
  /\ UNCHANGED <<callID, callVars, timerTable, keyVars, tpc, ended, cmd, bounds, history>>

TimeoutEnd ==
  /\ tpc = "timeout" /\ tidx = MaxConn
  /\ waiting' = Unregister(waiting)
  /\ bStartCall' = FALSE
  /\ ended' = TRUE
  /\ tpc' = "timeoutIR"
  /\ UNCHANGED <<slotVars, bResetCall, nTimerCall, nTalkSit, szCallTime, mcu, ir,
                 talking, keyVars, tidx, cmd, bounds, history>>

TimeoutIR ==
  /\ tpc = "timeoutIR"
  /\ ir' = FALSE
  /\ tpc' = "mcuCheck"
  /\ UNCHANGED <<slotVars, bStartCall, bResetCall, nTimerCall, nTalkSit, szCallTime, mcu,
                 timerTable, keyVars, tidx, ended, cmd, bounds, history>>

\* The callback's last test: the door has been unlocked, the call is over.
McuCheck ==
  /\ tpc = "mcuCheck"
  /\ mcu' = FALSE
  /\ tpc' = IF mcu THEN "mcu" ELSE "idle"
  /\ tidx' = 0 /\ ended' = (mcu /\ ended)
  /\ taken' = IF mcu THEN unlockedIn ELSE NoID
  /\ UNCHANGED <<slotVars, bStartCall, bResetCall, nTimerCall, nTalkSit, szCallTime, ir,
                 timerTable, keyVars, cmd, bounds, unlockedIn, late, overtaken>>

McuEnd ==
  /\ tpc = "mcu" /\ tidx = MaxConn
  /\ waiting' = Unregister(waiting)
  /\ bStartCall' = FALSE
  /\ overtaken' = (overtaken \/ (ended /\ bStartCall))
  /\ taken' = NoID
  /\ tpc' = "mcuIR"
  /\ UNCHANGED <<slotVars, bResetCall, nTimerCall, nTalkSit, szCallTime, mcu, ir,
                 talking, keyVars, tidx, ended, cmd, bounds, unlockedIn, late>>

McuIR ==
  /\ tpc = "mcuIR"
  /\ ir' = FALSE
  /\ tpc' = "idle" /\ ended' = FALSE
  /\ UNCHANGED <<slotVars, bStartCall, bResetCall, nTimerCall, nTalkSit, szCallTime, mcu,
                 timerTable, keyVars, tidx, cmd, bounds, history>>
-----------------------------------------------------------------------------
(* Timer thread: CallbackTalking *)

\* SetSessionState(TALK_OVER): the connected slots forget the call.
TalkOver ==
  /\ callID' = [s \in Slots |-> IF conn[s] THEN NoID ELSE callID[s]]
  /\ state' = [state EXCEPT ![nTalkSit] = "IDLE"]

\* The talker has left: hung up or dropped.
TalkStopped ==
  /\ tpc = "idle" /\ talking > 0
  /\ state[nTalkSit] # "TALKING"
  /\ nTimerCall' = nTimerCall + 1
  /\ TalkOver
  /\ tpc' = "talkUnreg"
  /\ UNCHANGED <<conn, bStartCall, bResetCall, nTalkSit, szCallTime, mcu, ir, timerTable,
                 keyVars, tidx, ended, cmd, bounds, history>>

TalkOn ==
  /\ tpc = "idle" /\ talking > 0
  /\ state[nTalkSit] = "TALKING" /\ ~bResetCall /\ nTimerCall + 1 < MaxTalk
  /\ nTimerCall' = nTimerCall + 1
  /\ UNCHANGED <<slotVars, bStartCall, bResetCall, nTalkSit, szCallTime, mcu, ir,
                 timerTable, keyVars, timerVars, cmd, bounds, history>>

\* A requested reset restarts the talk's time, is notified, and only then forgotten.
TalkReset ==
  /\ tpc = "idle" /\ talking > 0
  /\ state[nTalkSit] = "TALKING" /\ bResetCall
  /\ nTimerCall' = 0
  /\ NotifyOnly(nTalkSit)
  /\ tpc' = "talkReset"
  /\ UNCHANGED <<callID, bStartCall, bResetCall, nTalkSit, szCallTime, mcu, ir,
                 timerTable, keyVars, tidx, ended, cmd, bounds, history>>

\* Mutant: the request is not forgotten.
TalkResetAgain ==
  /\ tpc = "talkReset"
  /\ tpc' = "idle"
  /\ UNCHANGED <<slotVars, callVars, timerTable, keyVars, tidx, ended, cmd, bounds, history>>

TalkResetDone ==
  /\ tpc = "talkReset"
  /\ bResetCall' = FALSE
  /\ tpc' = "idle"
  /\ UNCHANGED <<slotVars, bStartCall, nTimerCall, nTalkSit, szCallTime, mcu, ir,
                 timerTable, keyVars, tidx, ended, cmd, bounds, history>>

TalkTimeout ==
  /\ tpc = "idle" /\ talking > 0
  /\ state[nTalkSit] = "TALKING" /\ ~bResetCall /\ nTimerCall + 1 >= MaxTalk
  /\ nTimerCall' = nTimerCall + 1
  /\ TalkOver
  /\ tpc' = "talkTimeout"
  /\ UNCHANGED <<conn, bStartCall, bResetCall, nTalkSit, szCallTime, mcu, ir, timerTable,
                 keyVars, tidx, ended, cmd, bounds, history>>

\* OnDoorP2PAlarm(nTalkSit, BELL_CALL_TIMEOUT) and the timeout clip.
TalkTimeoutNotify ==
  /\ tpc = "talkTimeout"
  /\ EndSlot(nTalkSit, state[nTalkSit])
  /\ tpc' = "talkUnreg"
  /\ UNCHANGED <<callID, callVars, timerTable, keyVars, tidx, ended, cmd, bounds, history>>

\* Mutant: DisableIR(0) is missing.
TalkUnregisterLit ==
  /\ tpc = "talkUnreg"
  /\ talking' = Unregister(talking)
  /\ tpc' = "talkEnd"
  /\ UNCHANGED <<slotVars, callVars, waiting, keyVars, tidx, ended, cmd, bounds, history>>

TalkUnregister ==
  /\ tpc = "talkUnreg"
  /\ talking' = Unregister(talking)
  /\ ir' = FALSE
  /\ tpc' = "talkEnd"
  /\ UNCHANGED <<slotVars, bStartCall, bResetCall, nTimerCall, nTalkSit, szCallTime, mcu,
                 waiting, keyVars, tidx, ended, cmd, bounds, history>>

\* The alarm is re-armed (module BellAlarm), then the next call is allowed.
TalkEnd ==
  /\ tpc = "talkEnd"
  /\ bStartCall' = FALSE
  /\ tpc' = "idle"
  /\ UNCHANGED <<slotVars, bResetCall, nTimerCall, nTalkSit, szCallTime, mcu, ir,
                 timerTable, keyVars, tidx, ended, cmd, bounds, history>>
-----------------------------------------------------------------------------
(* Cmd thread: a command is dispatched on what it reads, then performed *)

bIsSameCalling(s, id) == callID[s] # NoID /\ callID[s] = id
CallIDs == 1 .. szCallTime

\* streamid -> the state its switch acts in
NeedsState == [agree |-> "CALLING", refuse |-> "CALLING", hangup |-> "TALKING",
               reset |-> "TALKING", unlock |-> "TALKING"]

RecvCommand(s, op, id) ==
  /\ cmd = NoCmd /\ conn[s]
  /\ bIsSameCalling(s, id)
  /\ state[s] = NeedsState[op]
  /\ op = "reset" => resets < MaxResets
  /\ op = "unlock" => unlocks < MaxUnlocks
  /\ cmd' = [op |-> op, sit |-> s]
  /\ UNCHANGED <<slotVars, callVars, timerTable, keyVars, timerVars, bounds, history>>

\* 23 from a slot that is watching (its watch state is in Session).
RecvWatcherUnlock(s) ==
  /\ cmd = NoCmd /\ conn[s] /\ unlocks < MaxUnlocks
  /\ cmd' = [op |-> "unlock", sit |-> s]
  /\ UNCHANGED <<slotVars, callVars, timerTable, keyVars, timerVars, bounds, history>>

\* 22: agree
DoAgree ==
  /\ cmd.op = "agree"
  /\ state' = [state EXCEPT ![cmd.sit] = "TALKING"]
  /\ late' = IF waiting = 0 THEN late \cup {cmd.sit} ELSE late
  /\ cmd' = NoCmd
  /\ UNCHANGED <<conn, callID, callVars, timerTable, keyVars, timerVars, bounds,
                 unlockedIn, taken, overtaken>>

\* 25: refuse, 24: stop this talk
DoLeave ==
  /\ cmd.op \in {"refuse", "hangup"}
  /\ state' = [state EXCEPT ![cmd.sit] = "IDLE"]
  /\ cmd' = NoCmd
  /\ UNCHANGED <<conn, callID, callVars, timerTable, keyVars, timerVars, bounds, history>>

\* 27: reset the talk time
DoReset ==
  /\ cmd.op = "reset"
  /\ bResetCall' = TRUE
  /\ resets' = resets + 1
  /\ cmd' = NoCmd
  /\ UNCHANGED <<slotVars, bStartCall, nTimerCall, nTalkSit, szCallTime, mcu, ir,
                 timerTable, keyVars, timerVars, unlocks, history>>

\* 23: timed unlock (the lock itself is module DoorLock)
DoUnlock ==
  /\ cmd.op = "unlock"
  /\ mcu' = TRUE
  /\ unlocks' = unlocks + 1
  /\ unlockedIn' = CurrentCall
  /\ cmd' = NoCmd
  /\ UNCHANGED <<slotVars, bStartCall, bResetCall, nTimerCall, nTalkSit, szCallTime, ir,
                 timerTable, keyVars, timerVars, resets, taken, late, overtaken>>

(***************************************************************************)
(* GetSessionState(s, id).  The scan visits the slots before s and is      *)
(* decided by the first one that does not hold the id in state IDLE.       *)
(***************************************************************************)
Decides(i, id) == conn[i] /\ ~(callID[i] = id /\ state[i] = "IDLE")

SessionAnswer(i, id) ==
  CASE callID[i] = NoID -> "TALK_OVER"
    [] callID[i] # NoID /\ callID[i] # id -> "TALK_EXPIRED"
    [] callID[i] = id /\ state[i] = "TALKING" -> "TALK_TAKING"
    [] OTHER -> "TALK_CALLING"

GetSessionState(s, id) ==
  LET online == {i \in Slots : conn[i]}
      deciding == {i \in 0 .. s - 1 : Decides(i, id)}
      first == CHOOSE i \in deciding : \A j \in deciding : i <= j
  IN  IF online = {s}
      THEN IF bStartCall THEN "TALK_CALLING" ELSE "TALK_EXPIRED"
      ELSE IF deciding # {} THEN SessionAnswer(first, id)
      ELSE IF bStartCall THEN "TALK_CALLING" ELSE "TALK_NOBYAGREE"

RecvQuery(s, id) ==
  /\ cmd = NoCmd /\ conn[s]
  /\ GetSessionState(s, id) = "TALK_CALLING"
  /\ cmd' = [op |-> "query", sit |-> s, id |-> id]
  /\ UNCHANGED <<slotVars, callVars, timerTable, keyVars, timerVars, bounds, history>>

\* The asker joins the call it is told is ringing.
DoQuery ==
  /\ cmd.op = "query"
  /\ callID' = [callID EXCEPT ![cmd.sit] = cmd.id]
  /\ state' = [state EXCEPT ![cmd.sit] = "CALLING"]
  /\ late' = late \cup {cmd.sit}
  /\ cmd' = NoCmd
  /\ UNCHANGED <<conn, callVars, timerTable, keyVars, timerVars, bounds,
                 unlockedIn, taken, overtaken>>
-----------------------------------------------------------------------------
(* The other threads: PushP2pSocket and PopP2pSocket; neither touches szCallID *)

Connect(s) ==
  /\ ~conn[s]
  /\ \A t \in Slots : t < s => conn[t]
  /\ conn' = [conn EXCEPT ![s] = TRUE]
  /\ state' = [state EXCEPT ![s] = "IDLE"]
  /\ late' = late \ {s}
  /\ UNCHANGED <<callID, callVars, timerTable, keyVars, timerVars, cmd, bounds,
                 unlockedIn, taken, overtaken>>

Drop(s) ==
  /\ conn[s]
  /\ conn' = [conn EXCEPT ![s] = FALSE]
  /\ state' = [state EXCEPT ![s] = "IDLE"]
  /\ UNCHANGED <<callID, callVars, timerTable, keyVars, timerVars, cmd, bounds, history>>
-----------------------------------------------------------------------------
KeyStep == SetResetCall \/ OnCallBegin \/ OnCallStamp \/ OnCallNotify \/ OnCallArm

TimerStep ==
  \/ WaitAgreed \/ WaitTimeout \/ WaitOn \/ AgreeMe \/ CloseOther \/ ArmTalk
  \/ TimeoutSlot \/ TimeoutEnd \/ TimeoutIR \/ McuCheck \/ McuEnd \/ McuIR
  \/ TalkStopped \/ TalkOn \/ TalkReset \/ TalkResetDone \/ TalkTimeout \/ TalkTimeoutNotify \/ TalkUnregister \/ TalkEnd

CmdStep == DoAgree \/ DoLeave \/ DoReset \/ DoUnlock \/ DoQuery

Environment ==
  \/ PressCall \/ PressAgain \/ ExitButton
  \/ \E s \in Slots : Connect(s) \/ Drop(s) \/ RecvWatcherUnlock(s)
  \/ \E s \in Slots, id \in CallIDs :
       \/ RecvQuery(s, id)
       \/ \E op \in DOMAIN NeedsState : RecvCommand(s, op, id)

Next == KeyStep \/ TimerStep \/ CmdStep \/ Environment

\* A thread that can run does; nobody has to press, connect or answer.
Fairness == WF_vars(KeyStep) /\ WF_vars(TimerStep) /\ WF_vars(CmdStep)

Spec == Init /\ [][Next]_vars
FairSpec == Spec /\ Fairness
-----------------------------------------------------------------------------
(* Properties *)

Ops == DOMAIN NeedsState \cup {"query"}

\* The variables keep their types and the loop indices stay within the table.
TypeOK ==
  /\ conn \in [Slots -> BOOLEAN]
  /\ state \in [Slots -> {"IDLE", "CALLING", "TALKING"}]
  /\ callID \in [Slots -> Nat]
  /\ bStartCall \in BOOLEAN /\ bResetCall \in BOOLEAN /\ mcu \in BOOLEAN /\ ir \in BOOLEAN
  /\ nTimerCall \in Nat /\ nTalkSit \in Slots /\ szCallTime \in Nat
  /\ waiting \in Nat /\ talking \in Nat
  /\ kpc \in {"idle", "again", "ring", "stamp", "notify"} /\ kidx \in 0 .. MaxConn
  /\ tpc \in {"idle", "agreeMe", "closing", "timeout", "timeoutIR", "mcuCheck", "mcu",
               "mcuIR", "talkReset", "talkTimeout", "talkUnreg", "talkEnd"}
  /\ tidx \in 0 .. MaxConn /\ ended \in BOOLEAN
  /\ \/ cmd = NoCmd
     \/ cmd.op \in Ops /\ cmd.sit \in Slots /\ (cmd.op = "query" => cmd.id \in Nat)
  /\ resets \in Nat /\ unlocks \in Nat
  /\ unlockedIn \in Nat /\ taken \in Nat /\ late \subseteq Slots /\ overtaken \in BOOLEAN

Ringing == kpc \in {"ring", "stamp", "notify"}
\* The timer thread between a phase's unregistration and the next phase, or the end.
HandingOver == tpc \in {"agreeMe", "closing", "talkEnd"}

\* bStartCall never stays behind: while it refuses new calls, somebody (the key
\* thread, a registered callback, the timer thread) is on the way to clearing it.
NoStuckCall == bStartCall => Ringing \/ waiting > 0 \/ talking > 0 \/ HandingOver

One(b) == IF b THEN 1 ELSE 0

\* A call has exactly one owner and no owner is left without a call, so no second
\* wait or talk is timed beside the first; the unlock ending that overtakes a new
\* press (the two endings of CallbackWaitingAgree are not exclusive) excepted.
OneOwner ==
  ~overtaken => One(Ringing) + waiting + talking + One(HandingOver) = One(bStartCall)

\* The IR light never stays lit for nobody: while IR_CALL is set some owner of a
\* call, or an ending already under way, is still to clear it.
NoIRLeak ==
  ir => \/ Ringing \/ waiting > 0 \/ talking > 0 \/ HandingOver
        \/ tpc \in {"timeoutIR", "mcuIR"}

\* While a talk is timed, a slot the talk does not belong to talks only if it was let
\* in late: by a query that took it for still ringing, or by an agree in flight
\* when the others were closed.
OtherTalkersAreLate ==
  (talking > 0 /\ ~overtaken) =>
    \A s \in Slots : (conn[s] /\ state[s] = "TALKING") => (s = nTalkSit \/ s \in late)

\* The unlock branch of the wait ends a call only on an unlock made during that very
\* call, never on a flag left over from the talk before or from between two calls: a
\* call struck by another call's unlock is one that a callback which had already
\* ended the call before, on its timeout, went on to strike (overtaken); what such a
\* stroke leaves behind is promised nothing any more.
StaleUnlockHarmless ==
  [][(tpc = "mcu" /\ bStartCall /\ ~bStartCall') => (taken = CurrentCall \/ overtaken')]_vars

\* The phase of the call the threads carry on together.
Phase ==
  CASE overtaken -> "lost"
    [] ~overtaken /\ Ringing -> "ringing"
    [] ~overtaken /\ ~Ringing /\ waiting > 0 -> "waiting"
    [] ~overtaken /\ tpc \in {"agreeMe", "closing"} -> "agreed"
    [] ~overtaken /\ ~Ringing /\ talking > 0 -> "talking"
    [] ~overtaken /\ tpc = "talkEnd" -> "over"
    [] OTHER -> "idle"

Abstract == INSTANCE CallPhase WITH phase <- Phase

\* The four threads implement one call at a time: its phases come in order, each
\* begins when the one before is over, and only the collision of two endings
\* (OnDoorOpen's flag found by the callback that has just timed out) breaks it.
OneCallAtATime == Abstract!Spec

\* Once presses and resets stop, a call in progress ends, however peers behave.
CallEnds == bStartCall ~> ~bStartCall

\* An agree is honoured: a slot found talking between two ticks of the wait gets
\* its talk timed, unless every talker leaves first.  (One that comes while the
\* callback is ending the call on a timeout is not.)
AgreeHonoured ==
  (waiting > 0 /\ tpc = "idle" /\ Talkers # {}) ~> (talking > 0 \/ Talkers = {})
=============================================================================

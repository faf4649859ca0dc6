---------------------------- MODULE WatchSession ----------------------------
(***************************************************************************)
(* The watching of one slot of p2pstream[] (p2p/p2p.c): commands 20, 21,   *)
(* 26, 41 and 42, StartWatch and CallbackWatch, and the media thread's     *)
(* test of the slot.  The slots do not interact, but for the timer table   *)
(* and the mask nIRState, of which this is the slot's bit.  The call's     *)
(* state of the slot stays PS_IDLE (see BellCall).                         *)
(*                                                                         *)
(* The cmd thread, the timer thread, the media thread and the threads that *)
(* drop and accept sessions take no lock.  CallbackWatch is registered by  *)
(* every StartWatch and unregistered by itself, so that more than one      *)
(* entry of the timer table may be the slot's.                             *)
(***************************************************************************)
EXTENDS Integers

CONSTANTS MaxWatch,  \* bparam.stBell.max_watch, in seconds; 0 for no limit
          Ids,       \* names of watches and alarms
          MaxStarts, \* bound: StartWatch calls in a behaviour
          MaxResets  \* bound: commands 26 in a behaviour

ASSUME WatchAssumption ==
  /\ MaxWatch \in Nat /\ MaxStarts \in Nat /\ MaxResets \in Nat
  /\ "" \notin Ids

VARIABLES
  conn,    \* p2pstream[sit].socket # -1
  szWatchID, szAlarmID, stateEx, liveflag, audioflag, \* fields of p2pstream[sit]
  bResetWatch, nTimerWatch,
  ir,      \* the bit IR_WATCH of the slot in nIRState
  regs,    \* entries <sit, CallbackWatch> of the timer table
  tpc,     \* control point of the timer thread
  pending, \* entries it has still to call in this pass
  cpc, filename, \* control point of the cmd thread, and the parameter of its command
  starts, resets,
  clean,   \* history: no entry of an earlier watch was left when this one started
  age      \* history: passes of the timer since the watch started or was reset

slot == <<conn, szWatchID, szAlarmID, stateEx, liveflag, audioflag>>
count == <<bResetWatch, nTimerWatch>>
timer == <<regs, tpc, pending>>
cmd == <<cpc, filename>>
bounds == <<starts, resets>>
history == <<clean, age>>
vars == <<slot, count, ir, timer, cmd, bounds, history>>

None == ""

Init ==
  /\ conn = FALSE /\ szWatchID = None /\ szAlarmID = None
  /\ stateEx = "IDLE" /\ liveflag = FALSE /\ audioflag = FALSE
  /\ bResetWatch = FALSE /\ nTimerWatch = 0 /\ ir = FALSE
  /\ regs = 0 /\ tpc = "sleep" /\ pending = 0
  /\ cpc = "idle" /\ filename = None
  /\ starts = 0 /\ resets = 0 /\ clean = TRUE /\ age = 0
-----------------------------------------------------------------------------
(* Sessions and alarms *)

\* PushP2pSocket leaves the names of the slot's last session.
Connect ==
  /\ ~conn
  /\ conn' = TRUE /\ stateEx' = "IDLE" /\ liveflag' = FALSE /\ audioflag' = FALSE
  /\ UNCHANGED <<szWatchID, szAlarmID, count, ir, timer, cmd, bounds, history>>

\* PopP2pSocket, by any thread.
Drop ==
  /\ conn
  /\ conn' = FALSE /\ stateEx' = "IDLE" /\ liveflag' = FALSE /\ audioflag' = FALSE
  /\ UNCHANGED <<szWatchID, szAlarmID, count, ir, timer, cmd, bounds, history>>

\* OnFoundAlarm names the alarm in every connected slot.
OnFoundAlarm ==
  /\ conn
  /\ \E id \in Ids : szAlarmID' = id
  /\ UNCHANGED <<conn, szWatchID, stateEx, liveflag, audioflag,
                 count, ir, timer, cmd, bounds, history>>
-----------------------------------------------------------------------------
(* The cmd thread *)

bIsNewWatching == szWatchID = None
bIsSameWatching(f) == szWatchID # None /\ f = szWatchID
bIsSameAlarming(f) == szAlarmID # None /\ f = szAlarmID

\* Command 20 is read; the slot may change hands before it is carried out.
RecvWatch ==
  /\ cpc = "idle" /\ conn /\ starts < MaxStarts
  /\ cpc' = "start" /\ filename' \in Ids
  /\ UNCHANGED <<slot, count, ir, timer, bounds, history>>

\* A new watch; or an alarm is watched while another watch has still its name.
WatchStart ==
  /\ cpc = "start" /\ stateEx = "IDLE"
  /\ \/ /\ bIsNewWatching
        /\ szWatchID' = filename
     \/ /\ ~bIsNewWatching /\ ~bIsSameWatching(filename) /\ bIsSameAlarming(filename)
        /\ UNCHANGED szWatchID
  /\ stateEx' = "WATCHING" /\ liveflag' = TRUE /\ audioflag' = TRUE
  /\ cpc' = "light" /\ starts' = starts + 1
  /\ clean' = (regs = 0) /\ age' = 0
  /\ UNCHANGED <<conn, szAlarmID, count, ir, timer, filename, resets>>

WatchRefused ==
  /\ cpc = "start"
  /\ \/ stateEx = "WATCHING"
     \/ bIsSameWatching(filename)
     \/ ~bIsNewWatching /\ ~bIsSameAlarming(filename)
  /\ cpc' = "idle" /\ filename' = None
  /\ UNCHANGED <<slot, count, ir, timer, bounds, history>>

\* StartWatch: the light and the counter, then the timer.
StartWatchLight ==
  /\ cpc = "light"
  /\ ir' = TRUE /\ nTimerWatch' = 0
  /\ cpc' = "register"
  /\ UNCHANGED <<slot, bResetWatch, timer, filename, bounds, history>>

\* RegisterBaSysCallback: a pass under way may still come to the new entry.
StartWatchTimer ==
  /\ cpc = "register"
  /\ regs' = regs + 1
  /\ pending' \in IF tpc = "sleep" THEN {pending} ELSE {pending, pending + 1}
  /\ cpc' = "idle" /\ filename' = None
  /\ UNCHANGED <<slot, count, ir, tpc, bounds, history>>

\* Mutant: the state is not reset with the name.
StopWatchKeepsState(f) ==
  /\ cpc = "idle" /\ conn
  /\ bIsSameWatching(f) \/ bIsSameAlarming(f)
  /\ stateEx = "WATCHING"
  /\ szWatchID' = None
  /\ liveflag' = FALSE /\ audioflag' = FALSE
  /\ UNCHANGED <<conn, szAlarmID, stateEx, count, ir, timer, cmd, bounds, history>>

\* Command 21, which carries the name of the watch or of the alarm.
StopWatch(f) ==
  /\ cpc = "idle" /\ conn
  /\ bIsSameWatching(f) \/ bIsSameAlarming(f)
  /\ stateEx = "WATCHING"
  /\ szWatchID' = None
  /\ stateEx' = "IDLE" /\ liveflag' = FALSE /\ audioflag' = FALSE
  /\ UNCHANGED <<conn, szAlarmID, count, ir, timer, cmd, bounds, history>>

\* Command 26.
ResetWatch(f) ==
  /\ cpc = "idle" /\ conn /\ resets < MaxResets
  /\ bIsSameWatching(f) \/ bIsSameAlarming(f)
  /\ stateEx = "WATCHING"
  /\ bResetWatch' = TRUE
  /\ resets' = resets + 1
  /\ UNCHANGED <<slot, nTimerWatch, ir, timer, cmd, starts, history>>

\* Commands 41 and 42.
SetAudio(f, on) ==
  /\ cpc = "idle" /\ conn
  /\ bIsSameWatching(f) \/ bIsSameAlarming(f)
  /\ stateEx = "WATCHING"
  /\ audioflag' = on
  /\ UNCHANGED <<conn, szWatchID, szAlarmID, stateEx, liveflag,
                 count, ir, timer, cmd, bounds, history>>
-----------------------------------------------------------------------------
(* The timer thread: a pass over the timer table each second *)

At(p) == tpc = p
Goto(p) == tpc' = p /\ UNCHANGED <<regs, pending>>

PassBegin ==
  /\ At("sleep")
  /\ tpc' = "pass" /\ pending' = regs
  /\ age' = IF age < MaxWatch THEN age + 1 ELSE age
  /\ UNCHANGED <<slot, count, ir, regs, cmd, bounds, clean>>

PassEnd ==
  /\ At("pass") /\ pending = 0
  /\ Goto("sleep")
  /\ UNCHANGED <<slot, count, ir, cmd, bounds, history>>

\* CallbackWatch begins; the counter is let grow to MaxWatch only.
Call ==
  /\ At("pass") /\ pending > 0
  /\ pending' = pending - 1
  /\ nTimerWatch' = IF nTimerWatch < MaxWatch THEN nTimerWatch + 1 ELSE nTimerWatch
  /\ tpc' = "test"
  /\ UNCHANGED <<slot, bResetWatch, ir, regs, cmd, bounds, history>>

Test ==
  /\ At("test")
  /\ Goto(IF stateEx # "WATCHING" \/ ~conn THEN "exitIR" ELSE "reset")
  /\ UNCHANGED <<slot, count, ir, cmd, bounds, history>>

\* Mutant: a reset request is not forgotten.
ResetKept ==
  /\ At("reset")
  /\ nTimerWatch' = IF bResetWatch THEN 0 ELSE nTimerWatch
  /\ age' = IF bResetWatch THEN 0 ELSE age
  /\ Goto("limit")
  /\ UNCHANGED <<slot, bResetWatch, ir, cmd, bounds, clean>>

Reset ==
  /\ At("reset")
  /\ bResetWatch' = FALSE
  /\ nTimerWatch' = IF bResetWatch THEN 0 ELSE nTimerWatch
  /\ age' = IF bResetWatch THEN 0 ELSE age
  /\ Goto("limit")
  /\ UNCHANGED <<slot, ir, cmd, bounds, clean>>

\* Mutant: the limit is half of max_watch.
LimitHalved ==
  /\ At("limit")
  /\ Goto(IF MaxWatch > 0 /\ nTimerWatch >= MaxWatch \div 2 THEN "timeoutIR" ELSE "pass")
  /\ UNCHANGED <<slot, count, ir, cmd, bounds, history>>

Limit ==
  /\ At("limit")
  /\ Goto(IF MaxWatch > 0 /\ nTimerWatch >= MaxWatch THEN "timeoutIR" ELSE "pass")
  /\ UNCHANGED <<slot, count, ir, cmd, bounds, history>>

\* Mutant: the light of a watch that timed out stays on.
LightOutMissed(here, next) ==
  /\ At(here)
  /\ Goto(next)
  /\ UNCHANGED <<slot, count, ir, cmd, bounds, history>>

\* DisableIR(sit + 1)
LightOut(here, next) ==
  /\ At(here)
  /\ ir' = FALSE
  /\ Goto(next)
  /\ UNCHANGED <<slot, count, cmd, bounds, history>>

TimeoutState ==
  /\ At("timeoutState")
  /\ stateEx' = "IDLE"
  /\ Goto("notify")
  /\ UNCHANGED <<conn, szWatchID, szAlarmID, liveflag, audioflag,
                 count, ir, cmd, bounds, history>>

\* OnDoorP2PAlarm(sit, BELL_WATH_WAIT_TIMEOUT) sets the state again, unless the alarm
\* channel is full or the slot empty.
TimeoutNotify ==
  /\ At("notify")
  /\ stateEx' \in IF conn THEN {"IDLE", stateEx} ELSE {stateEx}
  /\ Goto("exitID")
  /\ UNCHANGED <<conn, szWatchID, szAlarmID, liveflag, audioflag,
                 count, ir, cmd, bounds, history>>

\* Both endings forget the name and unregister the callback.
ExitID ==
  /\ At("exitID")
  /\ szWatchID' = None
  /\ Goto("unregister")
  /\ UNCHANGED <<conn, szAlarmID, stateEx, liveflag, audioflag,
                 count, ir, cmd, bounds, history>>

\* UnRegisterBaSysCallback removes the first entry that matches; an entry that the pass
\* has still to call may be the one.
ExitUnregister ==
  /\ At("unregister")
  /\ regs' = regs - 1
  /\ pending' \in {p \in {pending, pending - 1} : p >= 0}
  /\ tpc' = "pass"
  /\ UNCHANGED <<slot, count, ir, cmd, bounds, history>>

TimerStep ==
  \/ PassBegin \/ PassEnd \/ Call \/ Test \/ Reset \/ Limit
  \/ LightOut("exitIR", "exitID") \/ LightOut("timeoutIR", "timeoutState")
  \/ TimeoutState \/ TimeoutNotify \/ ExitID \/ ExitUnregister
-----------------------------------------------------------------------------
\* p2pmediaThreadProc stops the video of a slot that is not watched.
MediaStop ==
  /\ conn /\ liveflag /\ stateEx # "WATCHING"
  /\ liveflag' = FALSE
  /\ UNCHANGED <<conn, szWatchID, szAlarmID, stateEx, audioflag,
                 count, ir, timer, cmd, bounds, history>>

CmdStep == WatchStart \/ WatchRefused \/ StartWatchLight \/ StartWatchTimer

Next ==
  \/ Connect \/ Drop \/ OnFoundAlarm
  \/ RecvWatch \/ CmdStep
  \/ \E f \in Ids : StopWatch(f) \/ ResetWatch(f) \/ \E on \in BOOLEAN : SetAudio(f, on)
  \/ TimerStep \/ MediaStop

Spec == Init /\ [][Next]_vars
FairSpec == Spec /\ WF_vars(CmdStep) /\ WF_vars(TimerStep) /\ WF_vars(MediaStop)
-----------------------------------------------------------------------------
SlotType ==
  /\ conn \in BOOLEAN /\ szWatchID \in Ids \cup {None} /\ szAlarmID \in Ids \cup {None}
  /\ stateEx \in {"IDLE", "WATCHING"} /\ liveflag \in BOOLEAN /\ audioflag \in BOOLEAN
  /\ bResetWatch \in BOOLEAN /\ ir \in BOOLEAN /\ clean \in BOOLEAN

ControlType ==
  /\ tpc \in {"sleep", "pass", "test", "reset", "limit", "exitIR", "timeoutIR",
              "timeoutState", "notify", "exitID", "unregister"}
  /\ cpc \in {"idle", "start", "light", "register"} /\ filename \in Ids \cup {None}

CountType ==
  nTimerWatch \in Nat /\ starts \in Nat /\ resets \in Nat /\ age \in Nat

EntryType == regs \in Nat /\ pending \in Nat /\ pending <= regs

TypeOK == SlotType /\ ControlType /\ CountType /\ EntryType

\* Whatever StartWatch left behind, a CallbackWatch is registered to take it back: a
\* watch of a connected slot, its light and its name outlive no timer entry.
WatchOwned ==
  cpc \in {"idle", "start"} /\ regs = 0 =>
    ~(conn /\ stateEx = "WATCHING") /\ ~ir /\ szWatchID = None

\* A watch that started with no entry left from the one before can be named by its peer,
\* and so be stopped and reset, until it ends.
WatchNamed ==
  stateEx = "WATCHING" /\ conn /\ clean /\ tpc \notin {"exitID", "unregister"}
    => szWatchID # None

\* CallbackWatch times such a watch out after max_watch passes, the one under way when it
\* was registered included; dropped sessions, alarms and resets do not shorten it.
NotCutShort ==
  [][TimeoutState /\ stateEx = "WATCHING" /\ clean => age >= MaxWatch - 1]_vars

\* Every watch ends, also one nobody stops, and one that is reset a few times.
WatchEnds == (conn /\ stateEx = "WATCHING") ~> (~conn \/ stateEx = "IDLE")

=============================================================================

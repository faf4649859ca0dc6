----------------------------- MODULE BellAlarm ------------------------------
(***************************************************************************)
(* An alarm found by motion or PIR (func/moto-new.c): MotionCheckProc      *)
(* starts it and takes a picture, CallbackAlarmDelay announces it after    *)
(* alarm_delay seconds, and CallbackAlarmPeriod keeps further alarms away  *)
(* for BELL_ALARM_TIME_DELAY more.  A call takes precedence: its callback  *)
(* resets BellAlarm each second.                                           *)
(*                                                                         *)
(* The motion thread, the timer thread and the key thread share BellAlarm, *)
(* nTimerAlarm and the timer table without a lock.  The call is BellCall's *)
(* with its two callbacks as one entry "call"; the arming of alarm_onok is *)
(* AlarmArming's.  The two flags of BellAlarm are modelled by whether they *)
(* are the ones alarm_type asks for.  OnFirstAlarm may refuse an alarm for *)
(* other reasons (AP mode, video): it is then not an alarm here.           *)
(***************************************************************************)
EXTENDS BaSysTimer

CONSTANTS Delays,     \* the settings of alarm_delay considered
          QuietTime,  \* BELL_ALARM_TIME_DELAY
          MaxAlarms,  \* bound: alarms in a behaviour
          MaxCalls    \* bound: calls in a behaviour

ASSUME AlarmAssumption ==
  /\ Delays \subseteq Nat /\ QuietTime \in Nat \ {0}
  /\ MaxAlarms \in Nat /\ MaxCalls \in Nat

VARIABLES
  armed,     \* alarm_on && alarm_onok
  alarm_delay, \* of bparam.stBell, in seconds; a behaviour keeps its setting
  bRunning, flags, szTime, \* BellAlarm; alarms are numbered by their time
  nTimerAlarm,
  table,     \* gstBaSysTimer[]
  tpc, at,   \* timer thread: control point, entry it is at
  mpc,       \* motion thread
  kpc, bStartCall,
  alarms, calls,
  clean,     \* history: no entry of an earlier alarm was left when this one began
  cut,       \* history: ResetBellAlarm has run since this alarm began, or none has begun
  told,      \* history: announcements of this alarm
  age,       \* history: passes of the timer since this alarm was registered
  quiet,     \* history: passes since an alarm was announced, unless a call came between
  dropped    \* history: a registration found the table full

params == <<armed, alarm_delay>>
alarm == <<bRunning, flags, szTime>>
timer == <<table, tpc, at>>
call == <<kpc, bStartCall, calls>>
history == <<clean, cut, told, age, quiet, dropped>>
vars == <<params, alarm, nTimerAlarm, timer, mpc, call, alarms, history>>

NoTime == 0
Init ==
  /\ armed \in BOOLEAN /\ alarm_delay \in Delays
  /\ bRunning = FALSE /\ flags = FALSE /\ szTime = NoTime
  /\ nTimerAlarm = 0
  /\ table = [e \in Entries |-> NoCallback] /\ tpc = "sleep" /\ at = 0
  /\ mpc = "idle" /\ kpc = "idle" /\ bStartCall = FALSE
  /\ alarms = 0 /\ calls = 0
  /\ clean = TRUE /\ cut = TRUE /\ told = 0 /\ age = 0 /\ quiet = QuietTime
  /\ dropped = FALSE
-----------------------------------------------------------------------------
ResetBellAlarm ==
  /\ bRunning' = FALSE /\ flags' = FALSE /\ szTime' = NoTime
  /\ cut' = TRUE

CheckAlarmCondition == ~bStartCall /\ armed /\ flags

\* OnFoundAlarm tells the peers; told counts it, and quiet starts if the alarm is
\* clean and not reset already.
OnFoundAlarm == told' = told + 1 /\ quiet' = IF clean /\ ~cut THEN 0 ELSE QuietTime

Add(cb) ==
  /\ Register(table, table', cb)
  /\ dropped' = (dropped \/ With(table, NoCallback) = {})

Remove(cb) == Unregister(table, table', cb) /\ UNCHANGED dropped
-----------------------------------------------------------------------------
(* The motion thread *)

\* No callback of an earlier alarm is registered, but one that is about to leave.
Fresh ==
  /\ tpc # "toPeriod"
  /\ \A e \in Entries : table[e] \in {"delay", "period"} =>
       tpc \in {"unDelay", "unPeriod"} /\ e = at

\* OnFirstAlarm and the beginning of StartAlarmThread.
Detect ==
  /\ mpc = "idle" /\ alarms < MaxAlarms
  /\ ~bRunning /\ ~bStartCall
  /\ bRunning' = TRUE /\ flags' = TRUE
  /\ mpc' = "check" /\ alarms' = alarms + 1
  /\ clean' = Fresh /\ cut' = FALSE /\ told' = 0
  /\ UNCHANGED <<params, szTime, nTimerAlarm, timer, call, age, quiet, dropped>>

\* Mutant: the flag is left when the condition does not hold.
RefuseKeeps ==
  /\ mpc = "check"
  /\ mpc' = "idle"
  /\ UNCHANGED <<params, alarm, nTimerAlarm, timer, call, alarms, history>>

\* The condition does not hold, or the hour is not one of the alarm's.
Refuse ==
  /\ mpc = "check"
  /\ ResetBellAlarm
  /\ mpc' = "idle"
  /\ UNCHANGED <<params, nTimerAlarm, timer, call, alarms, clean, told, age, quiet, dropped>>

\* Mutant: the time is not noted.
TakePictureUnnamed ==
  /\ mpc = "check" /\ CheckAlarmCondition
  /\ mpc' = "register"
  /\ UNCHANGED <<params, alarm, nTimerAlarm, timer, call, alarms, history>>

\* The time is noted, and the picture taken, which lasts.
TakePicture ==
  /\ mpc = "check" /\ CheckAlarmCondition
  /\ szTime' = alarms
  /\ mpc' = "register"
  /\ UNCHANGED <<params, bRunning, flags, nTimerAlarm, timer, call, alarms, history>>

\* Without a delay the alarm is announced at once.
FoundAtOnce ==
  /\ mpc = "register" /\ alarm_delay = 0
  /\ OnFoundAlarm
  /\ mpc' = "period"
  /\ UNCHANGED <<params, alarm, nTimerAlarm, timer, call, alarms, clean, cut, age, dropped>>

StartTimer(pc, cb) ==
  /\ mpc = pc
  /\ nTimerAlarm' = 0 /\ age' = 0
  /\ Add(cb)
  /\ mpc' = "idle"
  /\ UNCHANGED <<params, alarm, tpc, at, call, alarms, clean, cut, told, quiet>>

StartPeriod == StartTimer("period", "period")
StartDelay == alarm_delay > 0 /\ StartTimer("register", "delay")

MotionStep == Refuse \/ TakePicture \/ FoundAtOnce \/ StartPeriod \/ StartDelay
-----------------------------------------------------------------------------
(* The timer thread *)

Goto(p) == tpc' = p /\ UNCHANGED at

Later == {e \in Entries : e > at /\ table[e] # NoCallback}
Older(passes, limit) == IF passes < limit THEN passes + 1 ELSE passes
Longest == IF alarm_delay < QuietTime THEN QuietTime ELSE alarm_delay
Tick == nTimerAlarm' = Older(nTimerAlarm, Longest)

PassBegin ==
  /\ tpc = "sleep"
  /\ tpc' = "pass" /\ at' = 0
  /\ age' = Older(age, alarm_delay) /\ quiet' = Older(quiet, QuietTime)
  /\ UNCHANGED <<params, alarm, nTimerAlarm, table, mpc, call, alarms, clean, cut, told, dropped>>

\* BaSysTimer goes on to the next entry in use.
CallNext ==
  /\ tpc = "pass"
  /\ \E e \in Entries : Lowest(e, Later) /\ at' = e /\ tpc' = table[e]
  /\ UNCHANGED <<params, alarm, nTimerAlarm, table, mpc, call, alarms, history>>

PassEnd ==
  /\ tpc = "pass" /\ Later = {}
  /\ tpc' = "sleep" /\ at' = 0
  /\ UNCHANGED <<params, alarm, nTimerAlarm, table, mpc, call, alarms, history>>

\* Mutant: the alarm is announced at the first pass.
DelayTickEager ==
  /\ tpc = "delay"
  /\ Tick
  /\ Goto(IF ~bRunning THEN "unDelay" ELSE "condition")
  /\ UNCHANGED <<params, alarm, table, mpc, call, alarms, history>>

\* CallbackAlarmDelay
DelayTick ==
  /\ tpc = "delay"
  /\ Tick
  /\ Goto(IF ~bRunning THEN "unDelay"
          ELSE IF nTimerAlarm' >= alarm_delay THEN "condition" ELSE "pass")
  /\ UNCHANGED <<params, alarm, table, mpc, call, alarms, history>>

DelayFound ==
  /\ tpc = "condition" /\ CheckAlarmCondition
  /\ Goto("found")
  /\ UNCHANGED <<params, alarm, nTimerAlarm, table, mpc, call, alarms, history>>

DelayBreak ==
  /\ tpc = "condition" /\ ~CheckAlarmCondition
  /\ ResetBellAlarm
  /\ Goto("unDelay")
  /\ UNCHANGED <<params, nTimerAlarm, table, mpc, call, alarms, clean, told, age, quiet, dropped>>

Found ==
  /\ tpc = "found"
  /\ OnFoundAlarm
  /\ Goto("swap")
  /\ UNCHANGED <<params, alarm, nTimerAlarm, table, mpc, call, alarms, clean, cut, age, dropped>>

\* Mutant: the callback stays registered.
SwapKept ==
  /\ tpc = "swap"
  /\ nTimerAlarm' = 0
  /\ Goto("toPeriod")
  /\ UNCHANGED <<params, alarm, table, mpc, call, alarms, history>>

Swap ==
  /\ tpc = "swap"
  /\ nTimerAlarm' = 0
  /\ Remove("delay")
  /\ Goto("toPeriod")
  /\ UNCHANGED <<params, alarm, mpc, call, alarms, clean, cut, told, age, quiet>>

ToPeriod ==
  /\ tpc = "toPeriod"
  /\ Add("period")
  /\ Goto("pass")
  /\ UNCHANGED <<params, alarm, nTimerAlarm, mpc, call, alarms, clean, cut, told, age, quiet>>

\* Mutant: the period is over after one pass.
PeriodTickShort ==
  /\ tpc = "period"
  /\ Tick
  /\ Goto("endPeriod")
  /\ UNCHANGED <<params, alarm, table, mpc, call, alarms, history>>

\* CallbackAlarmPeriod
PeriodTick ==
  /\ tpc = "period"
  /\ Tick
  /\ Goto(IF nTimerAlarm' >= QuietTime \/ ~bRunning THEN "endPeriod" ELSE "pass")
  /\ UNCHANGED <<params, alarm, table, mpc, call, alarms, history>>

\* Mutant: the alarm is not reset when its period is over.
PeriodEndKeeps ==
  /\ tpc = "endPeriod"
  /\ Goto("unPeriod")
  /\ UNCHANGED <<params, alarm, nTimerAlarm, table, mpc, call, alarms, history>>

\* CallbackAlarmPeriod resets BellAlarm, whosever it is by now.
PeriodEnd ==
  /\ tpc = "endPeriod"
  /\ ResetBellAlarm
  /\ Goto("unPeriod")
  /\ UNCHANGED <<params, nTimerAlarm, table, mpc, call, alarms, clean, told, age, quiet, dropped>>

Gone(pc, cb) ==
  /\ tpc = pc
  /\ Remove(cb)
  /\ Goto("pass")
  /\ UNCHANGED <<params, alarm, nTimerAlarm, mpc, call, alarms, clean, cut, told, age, quiet>>

\* CallbackWaitingAgree and CallbackTalking begin with a reset, also of the quiet time.
CallTick ==
  /\ tpc = "call"
  /\ ResetBellAlarm /\ quiet' = QuietTime
  /\ tpc' \in {"pass", "callEnd", "callMove"} /\ UNCHANGED at
  /\ UNCHANGED <<params, nTimerAlarm, table, mpc, call, alarms, clean, told, age, dropped>>

\* The wait's callback unregisters itself, and the talk's is registered.
CallMove ==
  /\ tpc = "callMove"
  /\ Remove("call")
  /\ Goto("callTalk")
  /\ UNCHANGED <<params, alarm, nTimerAlarm, mpc, call, alarms, clean, cut, told, age, quiet>>

CallTalk ==
  /\ tpc = "callTalk"
  /\ Add("call")
  /\ Goto("pass")
  /\ UNCHANGED <<params, alarm, nTimerAlarm, mpc, call, alarms, clean, cut, told, age, quiet>>

\* The call ends; after a talk the alarm is disarmed for a time, and reset once more.
CallEnd ==
  /\ tpc = "callEnd"
  /\ Remove("call")
  /\ bStartCall' = FALSE
  /\ \/ UNCHANGED <<armed, alarm, cut>>
     \/ armed' = FALSE /\ ResetBellAlarm
  /\ Goto("pass")
  /\ UNCHANGED <<alarm_delay, nTimerAlarm, mpc, kpc, calls, alarms, clean, told, age, quiet>>

TimerStep ==
  \/ PassBegin \/ CallNext \/ PassEnd
  \/ DelayTick \/ DelayFound \/ DelayBreak \/ Found \/ Swap \/ ToPeriod
  \/ PeriodTick \/ PeriodEnd
  \/ Gone("unDelay", "delay") \/ Gone("unPeriod", "period")
  \/ CallTick \/ CallMove \/ CallTalk \/ CallEnd
-----------------------------------------------------------------------------
(* The key thread and the settings *)

Press ==
  /\ kpc = "idle" /\ ~bStartCall /\ calls < MaxCalls
  /\ bStartCall' = TRUE /\ kpc' = "ring" /\ calls' = calls + 1
  /\ UNCHANGED <<params, alarm, nTimerAlarm, timer, mpc, alarms, history>>

Ring ==
  /\ kpc = "ring"
  /\ Add("call")
  /\ kpc' = "idle"
  /\ UNCHANGED <<params, alarm, nTimerAlarm, tpc, at, mpc, bStartCall, calls, alarms,
                 clean, cut, told, age, quiet>>

\* The alarm is armed, disarmed or given another type.
Settings ==
  /\ \/ armed' = ~armed /\ UNCHANGED flags
     \/ bRunning /\ flags' = ~flags /\ UNCHANGED armed
  /\ UNCHANGED <<alarm_delay, bRunning, szTime, nTimerAlarm, timer, mpc, call, alarms, history>>

Next == Detect \/ MotionStep \/ TimerStep \/ Press \/ Ring \/ Settings

Spec == Init /\ [][Next]_vars
FairSpec == Spec /\ WF_vars(MotionStep) /\ WF_vars(TimerStep) /\ WF_vars(Ring)
-----------------------------------------------------------------------------
AlarmType ==
  /\ armed \in BOOLEAN /\ bRunning \in BOOLEAN /\ flags \in BOOLEAN
  /\ bStartCall \in BOOLEAN
  /\ clean \in BOOLEAN /\ cut \in BOOLEAN /\ dropped \in BOOLEAN

CountType ==
  /\ szTime \in Nat /\ nTimerAlarm \in Nat /\ alarms \in Nat /\ calls \in Nat
  /\ alarm_delay \in Nat /\ told \in Nat /\ age \in Nat /\ quiet \in Nat

ControlType ==
  /\ mpc \in {"idle", "check", "register", "period"} /\ kpc \in {"idle", "ring"}
  /\ tpc \in {"sleep", "pass", "delay", "condition", "found", "swap", "toPeriod", "unDelay",
              "period", "endPeriod", "unPeriod", "call", "callMove", "callTalk", "callEnd"}

TableType ==
  /\ table \in [Entries -> {NoCallback, "delay", "period", "call"}]
  /\ at \in 0 .. MaxTimer

TypeOK == AlarmType /\ CountType /\ ControlType /\ TableType

\* While bRunning is set no alarm is found.  Whatever the order of calls, alarms and
\* callbacks, somebody is there to clear it: StartAlarmThread, or a callback's entry.
AlarmOwned ==
  bRunning =>
    \/ mpc # "idle" \/ tpc = "toPeriod" \/ dropped
    \/ \E e \in Entries : table[e] \in {"delay", "period"}

\* Peers hear once of an alarm that began with no entry left from the one before.
AnnouncedOnce == clean => told <= 1

Announced == told' > told

\* CallbackAlarmDelay announces such an alarm when alarm_delay passes of the timer have
\* come to it, the first perhaps the one under way when it was registered.
DelayHonoured == [][Announced /\ clean => age >= alarm_delay - 1]_vars

\* Such an alarm is announced with its time, whatever call came in meanwhile; without a
\* delay only when no call came while the picture was taken.
Named == [][Announced /\ clean /\ (alarm_delay > 0 \/ ~cut) => szTime # NoTime]_vars

\* After such an announcement CallbackAlarmPeriod lets none be made again for
\* BELL_ALARM_TIME_DELAY passes, a pass under way included, unless a call's callback
\* came between.
Spaced == [][Announced /\ clean => quiet >= QuietTime - 1]_vars

\* An alarm does not last: further ones are found again.
AlarmEnds == bRunning ~> ~bRunning
=============================================================================

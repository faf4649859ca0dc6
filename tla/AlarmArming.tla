---------------------------- MODULE AlarmArming -----------------------------
(***************************************************************************)
(* The arming of the alarm (func/Bell-on.c): switching alarm_on on, or the *)
(* end of a talk, disarms it until OnDelayProc has slept alarm_delay times *)
(* one second.                                                             *)
(*                                                                         *)
(* The cmd thread and the timer thread call SetBellAlarmOn; they share     *)
(* bDoorOning, nOnDelayTime and the two parameters with OnDelayProc, and   *)
(* none of the three takes a lock.  OnDelayProc is modelled as running     *)
(* from the start: until the first SetDoorOn(TRUE) starts it, it would     *)
(* only sleep.                                                             *)
(***************************************************************************)
EXTENDS Integers

CONSTANTS AlarmDelay, \* bparam.stBell.alarm_delay, in seconds
          Setters,    \* the threads that call SetBellAlarmOn
          Cmd,        \* the one that also sets alarm_on
          MaxRequests \* bound: calls of SetBellAlarmOn in a behaviour

ASSUME ArmingAssumption ==
  /\ AlarmDelay \in Nat
  /\ Cmd \in Setters /\ MaxRequests \in Nat

VARIABLES
  alarm_on, alarm_onok, \* of bparam.stBell
  bDoorOning, nOnDelayTime,
  spc, bOn,  \* spc[t], bOn[t]: control point of setter t, and its argument
  dpc,       \* OnDelayProc
  requests,
  slept,     \* history: sleeps of OnDelayProc since alarm_onok was last cleared
  overlapped \* history: the last call of SetDoorOn overlapped a count or another call

params == <<alarm_on, alarm_onok>>
arming == <<bDoorOning, nOnDelayTime>>
setter == <<spc, bOn, requests>>
armingVars == <<params, arming, setter, dpc, slept, overlapped>>

ArmingInit ==
  /\ alarm_on = FALSE /\ alarm_onok = FALSE
  /\ bDoorOning = FALSE /\ nOnDelayTime = 0
  /\ spc = [t \in Setters |-> "idle"] /\ bOn = [t \in Setters |-> FALSE]
  /\ dpc = "test" /\ requests = 0 /\ slept = 0 /\ overlapped = FALSE
-----------------------------------------------------------------------------
(* SetBellAlarmOn *)

Asleep == dpc \in {"idle", "sleep"}
Calm(t) == Asleep /\ \A u \in Setters \ {t} : spc[u] = "idle"

\* The cmd thread sets alarm_on to on, the timer thread passes the value it has.
Request(t, on) ==
  /\ spc[t] = "idle" /\ requests < MaxRequests
  /\ IF t = Cmd
     THEN alarm_on' = on /\ alarm_onok' = FALSE
     ELSE on = alarm_on /\ UNCHANGED params
  /\ bOn' = [bOn EXCEPT ![t] = on]
  /\ spc' = [spc EXCEPT ![t] = "oning"]
  /\ requests' = requests + 1
  /\ overlapped' = ~Calm(t)
  /\ UNCHANGED <<arming, dpc, slept>>

SetDoorOning(t) ==
  /\ spc[t] = "oning"
  /\ bDoorOning' = bOn[t]
  /\ spc' = [spc EXCEPT ![t] = "onok"]
  /\ UNCHANGED <<params, nOnDelayTime, bOn, requests, dpc, slept, overlapped>>

SetOnok(t) ==
  /\ spc[t] = "onok"
  /\ alarm_onok' = FALSE /\ slept' = 0
  /\ spc' = [spc EXCEPT ![t] = "time"]
  /\ UNCHANGED <<alarm_on, arming, bOn, requests, dpc, overlapped>>

SetTime(t) ==
  /\ spc[t] = "time"
  /\ nOnDelayTime' = 0
  /\ spc' = [spc EXCEPT ![t] = "idle"]
  /\ UNCHANGED <<params, bDoorOning, bOn, requests, dpc, slept, overlapped>>

SetterStep(t) == SetDoorOning(t) \/ SetOnok(t) \/ SetTime(t)
-----------------------------------------------------------------------------
(* OnDelayProc *)

Goto(p) == dpc' = p

Test ==
  /\ dpc = "test"
  /\ Goto(IF bDoorOning THEN "count" ELSE "idle")
  /\ UNCHANGED <<params, arming, setter, slept, overlapped>>

\* A sleep ends; a call of SetDoorOn may be under way.
SleepEnds ==
  /\ Asleep
  /\ slept' = IF slept < AlarmDelay THEN slept + 1 ELSE slept
  /\ overlapped' = (overlapped \/ \E t \in Setters : spc[t] # "idle")
  /\ nOnDelayTime' = IF dpc = "idle" THEN 0 ELSE nOnDelayTime
  /\ Goto("test")
  /\ UNCHANGED <<params, bDoorOning, setter>>

Count ==
  /\ dpc = "count"
  /\ nOnDelayTime' = nOnDelayTime + 1
  /\ Goto("limit")
  /\ UNCHANGED <<params, bDoorOning, setter, slept, overlapped>>

\* Mutant: one second too early.
LimitEarly ==
  /\ dpc = "limit"
  /\ Goto(IF nOnDelayTime + 1 < AlarmDelay THEN "sleep" ELSE IF alarm_on THEN "arm" ELSE "clear")
  /\ UNCHANGED <<params, arming, setter, slept, overlapped>>

Limit ==
  /\ dpc = "limit"
  /\ Goto(IF nOnDelayTime < AlarmDelay THEN "sleep" ELSE IF alarm_on THEN "arm" ELSE "clear")
  /\ UNCHANGED <<params, arming, setter, slept, overlapped>>

\* Mutant: the parameter is left to the next request.
ArmNot ==
  /\ dpc = "arm"
  /\ Goto("clear")
  /\ UNCHANGED <<params, arming, setter, slept, overlapped>>

Arm ==
  /\ dpc = "arm"
  /\ alarm_onok' = TRUE
  /\ Goto("clear")
  /\ UNCHANGED <<alarm_on, arming, setter, slept, overlapped>>

Clear ==
  /\ dpc = "clear"
  /\ bDoorOning' = FALSE /\ nOnDelayTime' = 0
  /\ Goto("sleep")
  /\ UNCHANGED <<params, setter, slept, overlapped>>

DelayStep == Test \/ SleepEnds \/ Count \/ Limit \/ Arm \/ Clear

ArmingNext ==
  \/ \E t \in Setters : SetterStep(t) \/ \E on \in BOOLEAN : Request(t, on)
  \/ DelayStep

ArmingSpec == ArmingInit /\ [][ArmingNext]_armingVars
ArmingFairSpec ==
  ArmingSpec /\ WF_armingVars(DelayStep) /\ \A t \in Setters : WF_armingVars(SetterStep(t))
-----------------------------------------------------------------------------
FlagType ==
  /\ alarm_on \in BOOLEAN /\ alarm_onok \in BOOLEAN /\ bDoorOning \in BOOLEAN
  /\ bOn \in [Setters -> BOOLEAN] /\ overlapped \in BOOLEAN

ControlType ==
  /\ spc \in [Setters -> {"idle", "oning", "onok", "time"}]
  /\ dpc \in {"test", "idle", "count", "limit", "arm", "clear", "sleep"}

CountType == nOnDelayTime \in Nat /\ requests \in Nat /\ slept \in Nat

ArmingTypeOK == FlagType /\ ControlType /\ CountType

\* A request that OnDelayProc slept through is armed alarm_delay sleeps later, not before:
\* an alarm right after it was switched on, or after a talk, is not found.
NotEarly == [][alarm_onok' /\ ~alarm_onok /\ ~overlapped => slept >= AlarmDelay]_armingVars

\* And it is armed.
GetsArmed ==
  (alarm_on /\ ~overlapped) ~> (alarm_onok \/ ~alarm_on \/ overlapped)

=============================================================================

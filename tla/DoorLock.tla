------------------------------ MODULE DoorLock ------------------------------
(***************************************************************************)
(* The door lock (func/Bell-open.c, SetBellLock in func/moto-new.c).       *)
(*                                                                         *)
(* Any of several threads (key, cmd, web, NVR) opens the lock for a time:  *)
(* StartOpenLock sets a flag, restarts a counter and drives the pin; one   *)
(* closing thread counts seconds and shuts the lock.  Nothing is locked,   *)
(* so each assignment is a step, and bOpenTimes++ is a load and a store.   *)
(* The cmd thread also holds the lock open or shuts it directly.           *)
(* The two locks have the same code but for the polarity of the pin.       *)
(***************************************************************************)
EXTENDS Integers

CONSTANTS Openers,   \* threads that call OnDoorOpen / OnDoorOpenEx
          Door,      \* 1 or 2
          LockType,  \* bparam.stBell.lock_type: 0 normally open, 1 normally closed
          LockDelay, \* bparam.stBell.lock_delay, in seconds
          MaxOpens,  \* bound: timed openings in a behaviour
          MaxHolds   \* bound: hold commands in a behaviour

ASSUME DoorLockAssumption ==
  /\ Door \in {1, 2} /\ LockType \in {0, 1}
  /\ LockDelay \in Nat \ {0} /\ MaxOpens \in Nat /\ MaxHolds \in Nat

VARIABLES
  bDoorOpening, bOpenTimes,
  pin,      \* the bit BELL_OPENDOOR (or BELL_OPENDOOR2) of portvalue
  opener,   \* opener[o]: "idle", or the next assignment of its StartOpenLock
  closer,   \* control point of ThreadOpenDelayProc
  loaded,   \* what it loaded for bOpenTimes++
  opens, holds,
  held,     \* history: the last hold command, "none" once a timed opening drives the pin,
            \* "boot" before either
  seconds,  \* history: sleeps of the closing thread that ended since the counter restarted
  raced     \* history: an opening and the closing of an earlier one overlapped

lockVars == <<bDoorOpening, bOpenTimes, pin>>
history == <<held, seconds, raced>>
vars == <<lockVars, opener, closer, loaded, opens, holds, history>>

\* SetBellLock and SetBell2Lock: lock 1 is driven low to open when normally closed,
\* lock 2 when normally open.
SetBellLock(bOpen) ==
  IF (Door = 1 /\ LockType = 1) \/ (Door = 2 /\ LockType = 0) THEN 1 - bOpen ELSE bOpen

IsOpen == pin = SetBellLock(1)

\* main() shuts lock 1 only; the pin of lock 2 is as the port was found.
Init ==
  /\ bDoorOpening = FALSE /\ bOpenTimes = 0
  /\ pin \in IF Door = 1 THEN {SetBellLock(0)} ELSE {0, 1}
  /\ opener = [o \in Openers |-> "idle"]
  /\ closer = "none" /\ loaded = 0
  /\ opens = 0 /\ holds = 0
  /\ held = "boot" /\ seconds = 0 /\ raced = FALSE
-----------------------------------------------------------------------------
(* StartOpenLock, an assignment at a time *)

\* The closing thread has decided to shut the lock and not yet finished.
Shutting == closer \in {"clear", "zero", "shut"}

\* The closing thread is created by the first opening (taken as one test and set).
OpenFlag(o) ==
  /\ opener[o] = "idle" /\ opens < MaxOpens
  /\ bDoorOpening' = TRUE
  /\ opener' = [opener EXCEPT ![o] = "times"]
  /\ closer' = IF closer = "none" THEN "sleep" ELSE closer
  /\ opens' = opens + 1
  /\ raced' = (raced \/ Shutting)
  /\ UNCHANGED <<bOpenTimes, pin, loaded, holds, held, seconds>>

\* Mutant: the counter is not restarted.
OpenTimesKept(o) ==
  /\ opener[o] = "times"
  /\ opener' = [opener EXCEPT ![o] = "pin"]
  /\ seconds' = 0
  /\ raced' = (raced \/ Shutting)
  /\ UNCHANGED <<lockVars, closer, loaded, opens, holds, held>>

OpenTimes(o) ==
  /\ opener[o] = "times"
  /\ bOpenTimes' = 0
  /\ opener' = [opener EXCEPT ![o] = "pin"]
  /\ seconds' = 0
  /\ raced' = (raced \/ Shutting)
  /\ UNCHANGED <<bDoorOpening, pin, closer, loaded, opens, holds, held>>

OpenPin(o) ==
  /\ opener[o] = "pin"
  /\ pin' = SetBellLock(1)
  /\ opener' = [opener EXCEPT ![o] = "idle"]
  /\ held' = "none"
  /\ raced' = (raced \/ Shutting)
  /\ UNCHANGED <<bDoorOpening, bOpenTimes, closer, loaded, opens, holds, seconds>>
-----------------------------------------------------------------------------
(* ThreadOpenDelayProc *)

\* sleep(1) returns; the flag is tested, and an idle lock is slept over once more.
Wake ==
  /\ closer = "sleep"
  /\ closer' = IF bDoorOpening THEN "load" ELSE "idle"
  /\ seconds' = IF seconds < LockDelay + 1 THEN seconds + 1 ELSE seconds
  /\ UNCHANGED <<lockVars, opener, loaded, opens, holds, held, raced>>

IdleSleep ==
  /\ closer = "idle"
  /\ closer' = "sleep"
  /\ seconds' = IF seconds < LockDelay + 1 THEN seconds + 1 ELSE seconds
  /\ UNCHANGED <<lockVars, opener, loaded, opens, holds, held, raced>>

Load ==
  /\ closer = "load"
  /\ loaded' = bOpenTimes
  /\ closer' = "store"
  /\ UNCHANGED <<lockVars, opener, opens, holds, history>>

\* The store of bOpenTimes++ and the test of the sum.
Store ==
  /\ closer = "store"
  /\ bOpenTimes' = loaded + 1
  /\ loaded' = 0
  /\ closer' = IF loaded + 1 >= LockDelay THEN "clear" ELSE "sleep"
  /\ raced' = \/ raced
              \/ bOpenTimes # loaded
              \/ loaded + 1 >= LockDelay /\ \E o \in Openers : opener[o] # "idle"
  /\ UNCHANGED <<bDoorOpening, pin, opener, opens, holds, held, seconds>>

\* Mutant: the flag is cleared and the lock is not shut.
ShutFlagOnly ==
  /\ closer = "clear"
  /\ bDoorOpening' = FALSE
  /\ closer' = "sleep"
  /\ UNCHANGED <<bOpenTimes, pin, opener, loaded, opens, holds, history>>

ShutFlag ==
  /\ closer = "clear"
  /\ bDoorOpening' = FALSE
  /\ closer' = "zero"
  /\ UNCHANGED <<bOpenTimes, pin, opener, loaded, opens, holds, history>>

ShutTimes ==
  /\ closer = "zero"
  /\ bOpenTimes' = 0
  /\ closer' = "shut"
  /\ UNCHANGED <<bDoorOpening, pin, opener, loaded, opens, holds, history>>

\* Mutant: the lock is driven open again.
ShutPinOpen ==
  /\ closer = "shut"
  /\ pin' = SetBellLock(1)
  /\ closer' = "sleep"
  /\ UNCHANGED <<bDoorOpening, bOpenTimes, opener, loaded, opens, holds, history>>

ShutPin ==
  /\ closer = "shut"
  /\ pin' = SetBellLock(0)
  /\ closer' = "sleep"
  /\ UNCHANGED <<bDoorOpening, bOpenTimes, opener, loaded, opens, holds, history>>
-----------------------------------------------------------------------------
\* OnDoorUnlock(door, value): commands 29 to 32.
OnDoorUnlock(value) ==
  /\ holds < MaxHolds
  /\ pin' = IF LockType = 0 THEN 1 - value ELSE value
  /\ held' = IF value = 1 THEN "open" ELSE "shut"
  /\ holds' = holds + 1
  /\ UNCHANGED <<bDoorOpening, bOpenTimes, opener, closer, loaded, opens, seconds, raced>>

OpenStep == \E o \in Openers : OpenTimes(o) \/ OpenPin(o)
CloseStep == Wake \/ IdleSleep \/ Load \/ Store \/ ShutFlag \/ ShutTimes \/ ShutPin

Next ==
  \/ \E o \in Openers : OpenFlag(o)
  \/ OpenStep \/ CloseStep
  \/ \E value \in {0, 1} : OnDoorUnlock(value)

Spec == Init /\ [][Next]_vars
FairSpec == Spec /\ WF_vars(CloseStep) /\ WF_vars(OpenStep)
-----------------------------------------------------------------------------
TypeOK ==
  /\ bDoorOpening \in BOOLEAN /\ bOpenTimes \in Nat /\ pin \in {0, 1}
  /\ opener \in [Openers -> {"idle", "times", "pin"}]
  /\ closer \in {"none", "sleep", "idle", "load", "store", "clear", "zero", "shut"}
  /\ loaded \in Nat /\ opens \in Nat /\ holds \in Nat
  /\ held \in {"boot", "none", "open", "shut"} /\ seconds \in Nat /\ raced \in BOOLEAN

\* A lock opened for a time (StartOpenLock) always has the closing thread on its way to
\* shut it, unless an opening overlapped a closing or a hold command drove the pin: the
\* flag is set before the pin is driven and cleared only on the way to SetBellLock(FALSE).
OpenIsWatched ==
  (IsOpen /\ held = "none" /\ ~raced) => (bDoorOpening \/ Shutting)

\* ThreadOpenDelayProc does not cut a timed opening short, however many openings extend
\* it: the closing thread sleeps LockDelay times between the last restart of the counter
\* and the shutting.  The first of these may end just before the restart, so that it is
\* not counted in "seconds" (which is why a delay of 1 may be no delay).
NotCutShort ==
  [][(ShutPin /\ IsOpen /\ held = "none" /\ ~raced) => seconds >= LockDelay - 1]_vars

\* A lock opened for a time is shut again, or a hold command or the race of an opening
\* with a closing takes over: the closing thread never loses an opening by itself.
Shuts == (IsOpen /\ held = "none") ~> (~IsOpen \/ held # "none" \/ raced)

\* What OnDoorUnlock's comment says: value 1 opens the lock, value 0 shuts it.
HoldDrivesTheLock ==
  [][(held' # held /\ held' # "none") => (IsOpen' <=> held' = "open")]_vars
=============================================================================

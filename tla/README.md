# A verification project for the bell-jpg doorbell firmware

The repository is the firmware of a Wi-Fi video doorbell: one C process of some thirty threads
that share global tables and flags, mostly without locks. This directory holds TLA+ models of
its core, TLC configurations that check them on small instances, and TLAPS proofs of the main
properties for every value of the constants.

Everything is modelled as the checked-in configuration builds it (`include/debug.h`: `ZHENGSHOW`
and `UK_CUSTOMERS_NEW_KERNEL`, without `SUPPORT_FM34`; `Makefile`: `SENSOR_3861`); the branches of
other customers' builds are left out. One module, `VideoRing`, has the other sensors' path too: the
H.264 buffer is the hard one, and the Makefile keeps its sensors at hand.

1. [The system](#1-the-system): inventory of its components
2. [The modules](#2-the-modules): state and actions against the code
3. [The runs](#3-the-runs): what each checks, with which bounds and fairness
4. [The proofs](#4-the-proofs)
5. [What the code does wrong](#5-what-the-code-does-wrong)
6. [Limits of the models](#6-limits-of-the-models)
7. [Not modelled](#7-not-modelled)

## 1. The system

### Threads

| thread | code | what it does |
|---|---|---|
| key | `DefKeyProc` (`func/moto-new.c`) | polls the buttons every few ms: bell, exit, reset |
| timer | `SysTimerProc` (`func/BaSysTimer.c`) | once a second calls every registered callback in turn |
| motion | `MotionCheckProc` (`func/moto-new.c`) | reads motion and PIR, starts an alarm and takes its picture |
| listen | `p2plistenThreadProc` (`p2p/p2p.c`) | accepts P2P sessions into `p2pstream[]` |
| cmd | `p2pcmdThreadProc` | walks the sessions and carries out their commands |
| talk | `p2ptalkThreadProc` | walks the sessions and plays what the peers say |
| media, audio | `p2pmediaThreadProc`, `p2paudioThreadProc` | walk the sessions and send video and audio |
| closing | `ThreadOpenDelayProc`, `ThreadOpen2DelayProc` (`func/Bell-open.c`) | shuts lock 1 or 2 after its delay |
| arming | `OnDelayProc` (`func/Bell-on.c`) | arms the alarm again after its delay |
| saving | `FlashSaveProc` (`video/video.c`) | writes the settings to flash when asked |
| net | `NetThreadproc` (`network/ipc.c`) | takes the network settings of the daemon, saves them, starts the rest |
| web | GoAhead, `CgiProcess` (`func/ieparam.c`) | carries out the commands of the web pages |
| prompt | `BaAudioPlayProc` (`audio/BaAudioPlay.c`) | plays the prompts and the ring and calls back at their end |
| WPS | `WPSThreadProc` (`network/wpsproc.c`) | looks for the result of WPS |
| reboot | `rebootproc` (`network/ipc.c`) | restarts the device when asked |
| push, mail, FTP, DDNS, NTP, NVR | one each | clients of external services |

### Components

**Call session** (`p2p/p2p.c`, `StartCall` in the key thread to `CallbackTalking`).
State: `bStartCall`, `bResetCall`, `nTimerCall`, `nTalkSit`, `szCallTime`, `bMcuNotyceFlag`, and of
each slot `state` and `szCallID`. Operations: press; `OnCall` (picture, log, notification,
registration of the wait); the two callbacks' ticks and endings; a peer's agree, leave, reset,
unlock and query. Hard: four threads, no lock, three endings that may meet, and notification
loops that write to peers which may vanish. Correct when a call is owned by exactly one party
until it ends, always ends, and goes through its phases in order.

**Door lock** (`func/Bell-open.c`). State: per lock `bDoorOpening`, `bOpenTimes` and the pin.
Opened for a time by the key, cmd, web and NVR threads, shut by the closing thread, held open or
shut by the cmd thread. Hard: every assignment interleaves, the counter is incremented by one
thread and reset by others. Correct when an open lock always has someone to shut it, no opening
is cut short, and the levels of the pin mean the same everywhere.

**P2P session table** (`PushP2pSocket`, `PopP2pSocket`). State: `p2pstream[].socket`, `.refcnt`,
`p2prefcnt`. Push and pop hold `p2pmutex`; four threads walk the table without it and pop what
fails. Hard: a full table, and the slot re-read between a failure and its pop. Correct when every
session is in the table once until it is closed, and failed sessions leave.

**Watching** (`StartWatch`, `CallbackWatch`). State: of each slot `stateEx`, `szWatchID`,
`szAlarmID`, `liveflag`, `audioflag`, `bResetWatch`, `nTimerWatch`, and its bit of `nIRState`. Hard:
a slot outlives its session, and each start registers another callback. Correct when a watch
ends, is not cut short, can be named by its peer, and frees the slot.

**Periodic timer** (`func/BaSysTimer.c`). A table of 128 callbacks, registered and removed by any
thread, also from within a callback, walked by the timer thread.

**Motion alarm** (`func/moto-new.c`). State: `BellAlarm` (`bRunning`, two flags, `szTime`),
`nTimerAlarm`. The motion thread starts an alarm, `CallbackAlarmDelay` announces it,
`CallbackAlarmPeriod` keeps further ones away, a call resets it. Hard: a callback of an old alarm
may outlive it. Correct when each alarm is announced once, with its name, after its delay.

**Alarm arming** (`func/Bell-on.c`). State: `alarm_on`, `alarm_onok`, `bDoorOning`,
`nOnDelayTime`. Settings and the end of a talk disarm, `OnDelayProc` arms after `alarm_delay`.

**Bell log** (`p2p/p2p.c` 4676-4859). State: `BellLog` (a window of 32 in an array of 64),
`bBellLogInited`, the file. Appended to by the key, timer and motion threads, deleted from by the
cmd thread, saved whole after each change. Hard: the lock covers the file only; power loss.
Correct when the log is the newest 32 rings, within its array.

**Settings** (`param/sysparam.c`, `video/video.c`, `network/ipc.c`; commands in `p2p/p2p.c` and
`func/ieparam.c`). State: `bparam`, some thirty structures in memory, and `BellParam.bin`, their copy in
flash; `savesem`, `filemutex`. Operations: some sixty commands of P2P clients and web pages, each a few
assignments and a request to save; the daemon's network settings; the factory reset; the start, which
reads the file or takes the defaults. Hard: no lock on the memory, the file is truncated before it is
written, and the power may fail. Correct when the file is never short but while its one writer is at
work, says in the end what the memory says, and a restart keeps it.

**Prompts and WiFi modes** (`audio/BaAudioPlay.c`, `func/moto-new.c`, `network/wpsproc.c`). State:
`bStartPlayAlarmAudio`, one request (`nIndex`, `nCount`, the callback), two semaphores; `bAPWait`,
`nTimerApWaiting`, `bWPSWait`, `bRecheckWpsResult`. Any thread starts a prompt, which stops the one
that plays; its callback enters AP or WPS mode, restarts, resets, or rings on. AP mode ends by its
timer, WPS mode by its thread, both by a command. Hard: a request overwrites the last one, a stop
may come when nothing plays, and a mode's end may meet its next beginning. Correct when what a
prompt leads to happens, the ring stops, and each mode restores what it changed.

**Video** (`vbuf/`, `p2pmediaThreadProc`). State: `encbufm` with `userindp2p[]` (H.264: two halves, and
where each viewer is) or `encbufj` (JPEG: the latest picture counts), `p2psem`, `p2pprelen[]`,
`bSnapshotVideo`. The encoder's thread pushes frames and posts; the media thread walks the slots and
sends. Hard: viewers fall behind, sessions come and go, and the writer begins a half again while
readers are in it. Correct when a viewer is sent an unbroken sequence and is never forgotten.

**Talk** (`audio/audio.c`). State: `NewAoBuffer` with its two offsets. The talk thread writes, the
loudspeaker's thread reads unless a prompt plays. Hard: room is made by moving what is left over
itself, only when the end is reached. Correct when it is a queue.

**How they interact.** A press starts a call and resets the alarm (`bStartCall` is a condition of
the alarm); the call's end disarms the alarm for its delay; an unlock during a call sets
`bMcuNotyceFlag`, which ends the wait; call and alarm append to the log and notify every slot of
the session table; call, watch and alarm all live off callbacks of the periodic timer and own a
bit of `nIRState`, the reasons for which the IR light is on.

Prompts carry the outcome of calls, keys and commands to whoever stands at the door, and their
callbacks are what enters a mode, restarts and resets the bell; the settings give every limit
above (`max_talk`, `max_watch`, `alarm_delay`, lock times) and change while they are in use, which the
models take into account where they read them more than once. What is not modelled, and why, is
in [section 7](#7-not-modelled).

## 2. The modules

| component | module | abstract specification | for TLC | proofs |
|---|---|---|---|---|
| Call session | `BellCall` | `CallPhase` | `MCBellCall` | `BellCall_proofs` |
| Door lock | `DoorLock` | | `MCDoorLock` | `Delays_proofs` |
| Session table | `P2PTable` | | `MCP2PTable` | `P2PTable_proofs` |
| Watching | `WatchSession` | | `MCWatchSession` | `WatchSession_proofs` |
| Motion alarm | `BellAlarm`, on `BaSysTimer` | | `MCBellAlarm` | `BellAlarm_proofs` |
| Alarm arming | `AlarmArming` | | `MCAlarmArming` | `Delays_proofs` |
| Bell log | `BellLog` | `RingLog` | `MCBellLog` | `BellLog_proofs` |
| Settings | `Settings` | | `MCSettings` | `Settings_proofs` |
| Prompts, WiFi modes | `Prompts` | | `MCPrompts` | `Media_proofs` |
| Video | `VideoRing` | | `MCMedia` | `Media_proofs` |
| Talk | `TalkQueue` | `TalkFifo` | `MCMedia` | `Media_proofs` |

Conventions. A variable has the name of the code's; one that has no counterpart is commented: a
control point (`kpc`, `tpc`, ...), a counter of a bound (`MaxX`), or a *history* variable that only
properties read (a few also decide which properties still apply, such as `spoiled`). A step is
what one thread does between two points at which another thread's step can matter: a blocking
call, a write to a peer, a read on which a later write relies. An operator after the comment
"Mutant" is a variant that no specification uses: it stands for a plausible bug and is there to
show that a property notices it.

**BellCall.** `kpc`, `tpc` and `cmd` are the control points of the key, timer and cmd threads; each
notification loop of `OnDoorP2PAlarm` visits a slot per step (`Notify`). `waiting` and `talking`
count the registrations of the two callbacks in the timer table. `CallbackWaitingAgree` is `WaitTick`
and what follows it: `WaitAgreed` ... `ArmTalk` when someone talks, `WaitTimeout` ..., then `McuCheck`,
which the code reaches also after a timeout, so that two endings may follow each other (`ended`) and
the second may find another call. `unlockedIn` and `taken` remember in which call the lock was opened last, and
of which call's opening `McuCheck` has taken the flag; until `OnCall` has cleared the flag and named its call
the press already counts as one (`CurrentCall`). A
command is received (`RecvCommand`), when the switch on the slot's state is taken, and carried out
in a later step (`DoAgree`, ...): between the two the call may have moved on. `CallPhase` is the
single cycle idle - ringing - waiting - agreed - talking - over, with `Collide` for the ending that strikes
the next call.

**DoorLock.** One of the two locks, chosen by `Door` and `LockType`; each assignment of
`StartOpenLock` and `ThreadOpenDelayProc` is a step, `bOpenTimes++` two (`Load`, `Store`).
`OnDoorUnlock` is the hold command with the polarity of its own switch.

**P2PTable.** `Push` is the critical section of `PushP2pSocket` with its two loops (`Store`, `Victims`),
`Pop` that of `PopP2pSocket`. A walking thread tests a slot, uses it, and on a failure reads the
socket again to pop it. `Break` is the library telling that a session failed.

**WatchSession.** One slot. `StartWatch` is three steps (state, light, registration);
`CallbackWatch` is called once per entry and pass (`pending`) and its statements are steps;
`MediaStop` is the media thread noticing that the slot is not watched.

**BellAlarm.** `BaSysTimer` gives the table: `Register` takes the first free entry or none, `Unregister`
the first that matches, `CallNext` walks the entries as `SysTimerProc` does, seeing entries added or
removed during the pass. Both alarm callbacks and the call's (one entry, "call") are statement by
statement on it.

**AlarmArming.** `SetDoorOn` and `OnDelayProc`, an assignment or test per step.

**BellLog.** A handler is a sequence of operations (`todo`): `OnCall` appends; `OnFoundAlarm` appends and
notes the alarm; `OnAlarmIn` appends the same ring twice, as the code does; an agree notes; the cmd
thread lists, clears and deletes. An append is `Test`, `Read` at first use, the store and the counter
(two steps each, but for `Shift`), `Save` (fopen empties the file) and `Write`. `PowerFails` at any
step leaves the file as it was, or torn when it was being written, and clears the memory. `RingLog` is a sequence of at
most N rings, its saved copy, and a phase: a change can be made only when the one before is in the file,
and is followed by the emptying and the writing of the file. A power failure gives the saved copy back, or a damaged
one when the file was being written. The refinement maps the window to the sequence, or the file's window
while the log has not been read, and the control points of the operation under way to the phase.

**Settings.** A structure of `bparam` is two fields, so that a half done change shows; its values are
the number of the command that set it. A handler is the set of its runs, each a sequence of
the steps at which it touches what others see (`Zero` is its memset, `Fields` its assignments, the first
and the rest, `NoteSaveSem` its request, and so on): `p2psetalarm` and its likes are single lines, in
the order of the code. `todo[t]` is what thread `t` has left. `SaveOpens` and `SaveWrites` are
`SaveSystemParam`'s two halves, by the saving, the net or the main thread under `filelock`. `Restart` is
what a reboot and a power cut have in common; what `SensorInit` and `main` change at start are steps
of their own. A file that is removed while it is written goes on to be written to no effect
(`"unlinked"`). Histories: `forgotten` (structures set by commands that never save), `mixed` (two
threads set one structure at once), `reset` (whether a reset device has been left alone).

**Prompts.** `todo[t]` again, for the threads that start prompts and run callbacks. `StartAudioPlay` is
a stop (test, post, clear) and a start (test, request, set, post); the player waits, plays, is stopped or
ends, runs the callback it finds *then*, and waits again; `PlayerFails` is a prompt whose file is missing,
which is followed by its callback, or cannot be read, which is not. `audioHandler` says whether the loudspeaker is
open: it may have failed to open at the start, and `SystemBoot` closes it before the restart; without it a prompt is over
at once (`PlayerWakes`, `PlayerMutes`) and its flag stays set. The request's three variables are written without a wait between them and are one variable here.
The timer counts AP mode once per registration of `CallbackApModeWaiting`; the WPS thread looks for its
result at most `MAX_WPS_CHECK_TIMES` times. Calls appear by the prompts they start. The bell has played its
startup prompt; the mode of the bell is 1, the only one in which it rings at the door. Histories: `owed` (the
callbacks that were asked for and have not been run), `lost` (those of which a newer request took the place, or whose
file could not be read), `late` (a prompt began with an old stop posted), `missed`
(two threads started prompts at once, or the lock's opening ended the ring without one).

**VideoRing.** A unit of the ring holds the frame that starts there. `PushVMencData` is the critical
section under `mainLock`, `NoteMainStreamSend` its post; a viewer is visited in three steps, as
`p2pmediasendH264` does: the channel is looked at (`ChannelFull`, `HasRoom`), the frame is copied under the lock
(`CopyFrame`, or `NothingNew`, `TooLong`), and written to the session the slot has by then. With
`sensor` = "3861" the same thread copies the latest picture (`CopyJpeg`), and of the posts all but each
`SnapEvery`th are dropped while a client asks for snapshots (`SkipFrame`). Histories: `head`, `got` and
`begun` (what was sent), `seen`, `skipped` (why a viewer may be behind).

**TalkQueue.** `HD_AudioOutSendDataNew` and `HD_AudioOutGetDataNew` are critical sections under `aolock`;
`memcpy` of overlapping areas may copy in either order (`Copies`). `BaAudioTalkProc` looks at the loudspeaker
(`audiofd`: without it the thread ends) and at the flag of the prompts, and then reads. A prompt may begin and need not
end, because the code may leave its flag set for ever. `TalkFifo` is a queue that may drop a
frame only when its buffer is full, and must put out what it holds only while it is not hushed; the refinement maps the
window between the offsets to the queue, and a prompt's flag or a closed loudspeaker to `hushed`.

## 3. The runs

Every run bounds the environment (presses, sessions, settings) and leaves the threads free; each
bound is a constant named in the module. After the last press, session or request the models go on
ticking, so that deadlock is checked in all but the log, the settings, the prompts and the media,
which have nothing left to do when their last request or frame is done.

| run | checks | instance |
|---|---|---|
| `call_safety` | `OneOwner`, `NoIRLeak`, `OtherTalkersAreLate`, `StaleUnlockHarmless`, refinement of `CallPhase` (`OneCallAtATime`) | two slots (a talker and another), two calls in a row (one may strike the next), a wait of 2 and a talk of 1 tick, one unlock, in or between calls |
| `call_live` | `CallEnds`, `AgreeHonoured` | one call with one reset of its timer |
| `lock_timed` | `OpenIsWatched`, `NotCutShort`, `Shuts` | lock 2, two openers, three openings (an opening, one that extends it, one that meets the closing), two holds, a delay of 3 |
| `table_walk` | `Accounted`, `BrokenLeaves` | three slots of which one may be given up, five sessions, two walking threads |
| `table_full` | `StoredIsOpen`, violated | the same with two slots that may be given up |
| `watch` | `WatchOwned`, `WatchNamed`, `NotCutShort`, `WatchEnds` | one slot, three watches (so that two callbacks outlive their watch), one reset, two names, max_watch of 3 |
| `alarm` | `AlarmOwned`, `AnnouncedOnce`, `DelayHonoured`, `Named`, `Spaced`, `AlarmEnds` | a table of three entries (it can fill), three alarms, two calls, delays of 0 and 2, a quiet time of 3 |
| `arming` | `NotEarly`, `GetsArmed` | cmd and timer thread, three requests, a delay of 2 |
| `log` | `InArray`, refinement of `RingLog` (`KeepsNewest`) | an array of four entries, three rings, each perhaps logged twice (so that the window wraps), two deletions, one power failure: every change of the log is followed by its save before the next, with the power failing in any step between |
| `settings` | `FileIsWhole`, `QuietIsSaved`, `HalfIsTransient`, `SavedInTheEnd`, `RestartKeeps`, `ResetSticks` | all 28 structures, two commands or daemon messages (of one thread or of two at once), two power cuts (so that a start may be cut short after a save was) |
| `prompts` | `NothingForgotten`, `HeardOrStale`, `ModesAreWatched`, `RingStops`, `ModesEnd` | the prompts on or off, the loudspeaker open or not and closed for a restart, two keys, commands or unreadable prompts, an AP mode of two ticks, a WPS mode of one look: enough for a mode to be entered again, or the other mode, while it ends |
| `media` | `FramesInOrder`, `EveryFrameNoticed`, refinement of `TalkFifo` (`TalkIsFifo`) | either sensor, two slots, two watches, three frames of 1 to 3 units (3 is too long to send) in halves of 3, of two pictures one is a snapshot; or nine frames of talk through a queue of four (it fills, and is moved down more than once) with two prompts that end or do not, and a loudspeaker that is open, missing or closed on the way |

The type invariant `TypeOK` of every module that has one is a theorem (section 4) and is not checked
again by the runs; nor are `NoStuckCall`, `RefbackSound`, `OneSlotEach` and, for lock 2,
`HoldDrivesTheLock`, which are proved too. `MCMedia` runs two modules that share nothing, one or the other.

**Fairness.** Weak fairness of each thread's step, nothing more: the threads are loops that sleep a
fixed time and take no lock they could be starved of (`P2PTable`'s mutex is held for a few
assignments). Nothing is assumed of peers, presses, settings or the order of threads. The
liveness properties end in "or the peer leaves" or "or it is reset" where the code depends on that.
`CallEnds` needs the bound on resets: a peer that keeps resetting the timer keeps the call. `TalkIsFifo` asks for
the frames to come out only while the talk is not hushed for ever or again and again: no fairness is assumed of the
prompts' flag. Of
what is outside the code two things are assumed: in `prompts`, a prompt that plays comes to its end, and in `media` the
encoder, once it has pushed a frame, posts it.

**Excuses.** Where the code has a race, the property says so by a history variable instead of
leaving the race out of the model: `overtaken` (a call struck by the ending of the one before),
`raced` (a lock opened while it is being shut), `overlapped` (a request that meets `OnDelayProc` awake), `clean` (no
callback of an earlier watch or alarm is left), `spoiled` (overlapping operations on the log), `forgotten`
and `mixed` (settings no command saves, or two threads set at once), `late`, `missed` and `lost` (a stale stop,
overlapping prompts, and callbacks that were overwritten or whose prompt could not be read). The
properties then say that what they name is the only way to fail. Each excuse is one of the hazards of
PROJECT.json.

## 4. The proofs

TLAPS checks each theorem for all values of the constants under the `ASSUME` of its module.

- **BellCall**: `TypeCorrect`; `CallOwned` (OneOwner and NoStuckCall), from an invariant that counts owners
  over the key thread's position, the registrations and the timer thread's position, and ties `ended`
  to what the callback has already done; `LightOwned`, whose invariant adds that IR_CALL is lit only between
  a press and the position that clears it; `UnlockFresh`: the unlock that ends a call was made in that call. Its
  invariant is that a set `bMcuNotyceFlag` was set in the current call, because `OnCall` clears it when it names a
  new one, that the unlock which `McuCheck` took (`taken`) is therefore of the call it finds, and that a callback which
  still holds it when the next call has begun has ended the call before and so is counted in `overtaken`; `CallRefines`, every step
  is a step of `CallPhase` or a stutter; `TalkersKnown`, which needs that the slots a running
  notification loop has still to visit are the only ones that may talk unlisted.
- **DoorLock**: `LockTypeCorrect`, `LockIsWatched`, `LockNotCutShort` from one invariant that relates flag,
  counter, pin and both control points until an opening races with a closing. `HoldsDriveLockTwo`: the hold
  command drives lock 2 to the side its name says, whatever its type (it does not for lock 1, section 5).
- **P2PTable**: `TableTypeCorrect`, `TableHoldsOnce`, `TableAccounts`, `TableClosed` from one invariant on who
  holds a session, and `TableRefback` by a pigeonhole argument: the slots of a full table have different
  `refcnt` values below `p2prefcnt`.
- **WatchSession**: `WatchTypeCorrect`, `WatchIsOwned`: a watch, light or name is always covered by an entry.
  `WatchIsNamed` and `WatchNotCutShort` hold of a watch that no callback of an earlier one outlives
  (`clean`); their invariant says that such a watch has exactly one entry or none yet, and ties its count
  to `nTimerWatch`.
- **BellAlarm**: `AlarmTypeCorrect`, `AlarmIsOwned`: bRunning is covered by a position or an entry.
  `AlarmAnnouncedOnce`, `AlarmNamed`, `AlarmDelayHonoured` and `AlarmSpaced` rest on one more invariant: while no
  callback of an earlier alarm is left, the two flags say which of delay and quiet time the alarm is in, and
  `nTimerAlarm` counts the passes since that began.
- **AlarmArming**: `ArmingTypeCorrect`, `ArmedNotEarly`: counter and sleeps agree while no request overlapped
  another or a count. Its theorems are in one module with the door lock's, the other thread that counts
  seconds for whoever asks.
- **BellLog**: `LogTypeCorrect`, `LogInArray`. `InArray` is not inductive: the invariant adds that until the log
  is spoiled one operation is under way at a time, that the window has moved only when it is full
  (`Whole`), for the log and its file, and that what a thread saw before it stores still holds when it
  counts (`Seen`). `LogKeepsNewest`, that `BellLog` implements `RingLog`, rests on the same
  invariant and two more: a thread that appends or notes has a ring to do it for (`Ringing`), and until the log is
  spoiled the window is empty before the file has been read, and what a thread has stored at its end is still
  there when it is counted (`Loading`). The abstract log is the window of the memory, or of the file until that has
  been read. A ring enters it at the step that counts it or moves the window, or with the shift of the array,
  which is a ring of a full log; the saved copy changes at the write, and until the log is spoiled only the one operation
  under way can have a change that is not saved (`RingLog`'s phase). Lemmas about sequences and windows alone say
  what each does to the listing (`Counted`, `NewestIs`, `DeletedListing`, `TornListing`).
- **Settings**: `SettingsTypeCorrect`; `SettingsFileIsWhole`, from `FileInv`, which adds that whoever has opened the
  file holds `filelock` (`Locked`), that only the main thread saves before the threads are started (`Starting`)
  and what a device that was left alone since its reset still has under way (`Alone`);
  `SettingsResetSticks` follows from the last. `SettingsQuietIsSaved` and `SettingsRestartKeeps` rest on `SavedInv`:
  in every run of a handler a request to save comes after each assignment, but for what the thread never
  saves (`Saved`, shown for each command and CGI), and while file and memory differ in what is to be saved
  a save is asked for, under way, or still to be asked for by a handler (`SaveComes`). `SettingsHalfIsTransient` needs
  more of the handlers: each goes on from the first field of a structure to the rest at once, and after a
  memset assigns it (`Left`, shown for each command); two of them set the same structure only if it is in `mixed`
  (`OneEach`); and so a structure that is half set in memory has a handler that goes on to set it (`HalfIsSet`), and
  that has its request to save still to come.
- **Prompts**: `PromptsTypeCorrect`, `PromptsHeard`, `PromptsRemembered`, `PromptsModesWatched`, from one invariant
  (`PromptInv`). No thread changes a flag, a semaphore or a mode without having the step that answers it next in its
  `todo` (`Tidy`: a sequence keeps its pairs under head, tail and concatenation), and the player has steps
  of a callback to do only while it waits (`PlayerFree`). From this every step *pays*: what a thread has still to do is done by the
  step that takes it from `todo` (`Pays`), and *owes*: what a step takes away or raises has somebody who will answer
  it (`Owes`). The three properties then follow from these two facts about a step, whatever the step was;
  `HeardOrStale` needs `SoundPursued`, which says as much of a prompt that is being stopped and of a loudspeaker that
  is not open; `NothingForgotten` that of the callbacks still owed and not lost the last request's is the only one, and a
  player or a post is on its way to it.
- **VideoRing**: `VideoFramesInOrder`. `RingInv` says that the half being written is a chain of frames from the one
  that began it to the last, units in between reading as no frame (`Chained`), and where in it each viewer is
  (`Placed`): at its beginning if it has not been sent a frame of it, else behind the last it was sent, and at the end
  of what is written only if `p2pprelen` says that nothing is new. The last is what keeps `p2pmediasendH264` from
  sending bytes that are no frame: a viewer whose next frame lies where its last one lay takes it for old, but
  stays where it is.
- **TalkQueue**: `TalkImplementsFifo`, the steps of `TalkFifo` without its fairness. The invariant is the order of the
  offsets; the lemmas are about the window between them: one more written is an `Append`, one read a `Tail`,
  and what `memcpy` leaves is the same queue, or, if more than half of the array was moved, frames of it. What a prompt
  or the loudspeaker does is a stutter, or hushes the queue, or lets it be heard again.

Every property of the passing runs is stated by a theorem but these, which stay with TLC, since temporal reasoning
under fairness, and ENABLED, are out of the prover's reach here: `CallEnds`, `AgreeHonoured`, `Shuts`,
`BrokenLeaves`, `WatchEnds`, `AlarmEnds`, `GetsArmed`, `SavedInTheEnd`, `RingStops`, `ModesEnd`, `EveryFrameNoticed`,
and that what was queued comes out in the end, the fairness of `TalkIsFifo`. The inductive invariants were checked by TLC
on instances of the sizes of section 3 before they were proved.

## 5. What the code does wrong

One is a run that TLC finds violated, with the line it contradicts in PROJECT.json:

- `table_full`: when the table is full, `PushP2pSocket` stores the new session and closes it, rather than the one it
  replaces.

The others are excused by a history variable (section 3), described by the model as they are, or were met in the
code on the way.

*Calls, lock and alarm.*
- `OnDoorUnlock` drives lock 1 to the opposite side (`Bell-open.c`:220) from `SetBellLock` (`moto-new.c`:312) and from
  boot (`main.c`:293), and from its own comment (`Bell-open.c`:209). Lock 2 is right.
- A request to arm between the test of `OnDelayProc` and its clearing of `bDoorOning` is lost, and the alarm stays
  disarmed (`Bell-on.c`:55, 69).
- `main` disarms the alarm at every start and saves that (`main.c`:245): an alarm that was armed is not after a power
  cut, and nobody is told.
- `DeleteBellLog` does not close the gap it makes, unless the ring is the newest (`p2p.c`:4841).
- `CallbackWaitingAgree` clears `bStartCall` on its timeout and then looks at `bMcuNotyceFlag`: when the lock was opened
  in the call that has just ended, it also ends the call of a press that came between (`overtaken`, `p2p.c`:6804, 6825).
- The ring goes on when the call is ended by an opening of the lock, which stops no prompt (`p2p.c`:6825).

*Settings.*
- p2psetirgpio, p2psetalias, p2psetddns, p2psetdns and p2psetmisc never ask for a save (`forgotten`).
- A power cut while the file is written loses every setting, since the file is truncated first.
- A reset removes the file under a save that was asked for before, which writes all of it back.
- `cgisetrestore` removes the file and does not restart: the next command writes it again.
- `camera_control` drops a command that comes while another is carried out, and answers success.
- `ChangeVideo` passes bit rate and frame rate the wrong way round for `ChangeVideoResolution` (`p2p.c`:6372).
- `SensorInit` overwrites the size and the frame rate at every start.
- The daemon's memcpy of the network settings may overwrite those a command sets at the same time (`mixed`).
- `SystemBoot` forgets a restart that is asked for during a firmware update.
- `CgiProcess` is called with four of its six arguments (`web/default.c`:598).

*Prompts and modes.*
- A stop that finds the prompt just ended is kept in the semaphore, cuts the next prompt short and leaves its flag
  set, so that keys are ignored and the talk stays silent (`late`). Without the loudspeaker every prompt leaves it set
  (`BaAudioPlay.c`:256).
- Two threads that start prompts at once may lose the stop of the ring, which has no end of its own (`missed`).
- A prompt that replaces another takes over its callback's place: the reset, the restart or the mode that was
  announced does not come. A prompt whose file cannot be read never calls back.
- AP and WPS mode may be entered both; the end of an old WPS search overwrites the flags of a new one, which starts
  with the old count (`nTotalWpsCheckTimes`); a second registration of `CallbackApModeWaiting` halves AP mode.

*Media.*
- With an H.264 sensor `p2pmediasendH264` indexes `userindp2p`, of four entries, with slots up to seven (`vbuf.c`:46);
  and a frame that lies where the viewer's last one lay is sent one frame late (`p2p.c`:10678).
- The queue of the talk drops a frame at its end although what was read before leaves room (`audio.c`:257), and keeps
  frames while a prompt plays, which are heard, late, after it.
- `p2ptalkrcv` never moves what it keeps when it looks for the next head in a bad stream, and a slot taken over by a
  new session keeps `talklen`.
- `p2pcmdrcv` carries out a command that was received in part.
- `OnMsgPush` clears `bMsgPushing` before it pushes: a message accepted meanwhile is cleared with the old one.

## 6. Limits of the models

- `BellCall`: what a slot taken over in a full table does to its call is the same as a drop and a connection,
  and is modelled as these two. Two threads that close the same slot are one `Drop`. Messages between
  device and peer are not queued: a peer's command is received whenever its slot is connected.
- `DoorLock`: the closing thread is created in one step with its test.
- `P2PTable`: the media thread walks as the others do; the library never returns a handle that
  is still in use again.
- `WatchSession`, `BellCall`: `nTimerWatch++` and the changes of `nIRState` are atomic; the lost update is a hazard without a
  property. `SetAudioInStatus`, which tells the audio driver, is left out. The timer table is full in `BellAlarm`
  only.
- `BaSysTimer`: a registration and a removal are one step each.
- `BellLog`: the pictures in `/tmp` that go with the entries, and the user's name, are left out; the
  shift of the window to the beginning of the array is one step, as is a deletion. A read or
  write beyond the array is no effect in the model; the properties exclude it.
- `Settings`: each structure is two fields; ranges, parsing and answers are left out, and so is what the encoder,
  the WiFi driver and the NVRAM are told.
- `Prompts`: the bell has played its startup prompt; the request is one variable; the loudspeaker that a
  restart has closed stays closed, and the bell goes on until it is off; a prompt ends some time after it began, however long.
- `VideoRing`: the encoder is external, pushes frames no longer than a half and posts each; slots are those with an
  entry in `userindp2p`; the socket is read again when a frame is written, so that a slot's new session may be
  sent the frame copied for the old one. The latest JPEG picture stands for its ring, which is only read there, under
  the lock.
- `TalkQueue`: the unit is the frame all senders send. The prompts are their flag only.
- Left out as steps too small for these modules: the lost update of `nIRState` (`moto-new.c`:913) and of an entry of
  the timer's table when two threads register at once (`BaSysTimer.c`:20), two closing threads started by two first
  openings at once (`Bell-open.c`:144), and the level of lock 2's pin at boot (`main.c`:299).
- Numbers are unbounded: no counter of these components comes near the width of an `int`, and the
  unsigned `refback` is modelled by what its wrap does.

## 7. Not modelled

- Message push: one pending message and a thread; `MsgPush` has one caller (`OnCall`), and the push servers' code is
  linked in other customers' builds only.
- Users and login: the rights of a session are tests in each command; what changes the list is in `Settings`.
- IR light and GPIO: a bit each in `BellCall` and `WatchSession`; the mask's and the port's read-modify-write are not.
- Keys: the counting of short and long presses is sequential; the presses are inputs.
- The gong's threads and the amplifier: pins and delays.
- The audio ring (`abuf.c`): `p2paudiosend` sends the latest frame at each turn and keeps no state of its own.
- `netcmd.c`'s HTTP commands and live streams: parsing and formatting around the same buffers and settings.
- SD card recording: never started (`SdInit` has no caller, `video.c`:455).
- Mail, FTP, DDNS, NTP, NVR, UPnP, DHCP, WiFi scripts: clients of external services, one request at a time, mostly
  I/O. `network/wifi.c`, `bcast.c`, `jbcast.c`, `func/update.c`, `func/alsa.c` and `func/dns.c` are not linked.
- Factory tests and the firmware update's scripts; ADPCM, MD5 and AES (arithmetic on data, which tests reach); the
  encoder's driver; GoAhead (`web/`, vendored) and the P2P library (binary).

What could follow: the timer's table with two registrations at once, and what a lost one does to a call; the mask of
the IR light, which calls and watches change without a lock; the users' rights, command by command.

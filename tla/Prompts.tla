------------------------------ MODULE Prompts ------------------------------
(***************************************************************************)
(* The prompts of the bell (audio/BaAudioPlay.c) and the modes they lead   *)
(* into: AP and WPS configuration (func/moto-new.c, network/wpsproc.c).    *)
(*                                                                         *)
(* Any thread may start or stop a prompt; one thread plays.  A request is  *)
(* one set of variables (nIndex, nCount, fnBaAudioPlayCallback) that the   *)
(* next request overwrites, and two semaphores; the callback of a prompt   *)
(* is what the bell does after it: enter a mode, restart, ring on.         *)
(*                                                                         *)
(* As in Settings, todo[t] holds the steps thread t has left of what it is *)
(* doing; another thread may come between any two of them.                 *)
(***************************************************************************)
EXTENDS Integers, Sequences

CONSTANTS ApMax,      \* AP_MAX_WAIT_TIME, in ticks of the timer
          WpsMax,     \* MAX_WPS_CHECK_TIMES, in looks at the result
          MaxEvents   \* bound: keys, commands and unreadable prompts in a behaviour

ASSUME PromptsAssumption ==
  /\ ApMax \in Nat \ {0} /\ WpsMax \in Nat
  /\ MaxEvents \in Nat

VARIABLES
  bell_audio,  \* bparam.stBell.bell_audio: prompts are on
  playing,     \* bStartPlayAlarmAudio
  request,     \* nIndex and fnBaAudioPlayCallback; nCount is 0 only for "calling"
  startsem, stopsem,
  audioHandler, \* BaGetAudioHandler finds the loudspeaker open
  player,      \* where BaAudioPlayProc is: "waits", "plays", "ends" or "over"
  now,         \* the prompt it plays
  ap,          \* bAPWait
  apOpen,      \* OpenAp without CloseAp
  apTimers,    \* how often CallbackApModeWaiting is registered
  nTimerApWaiting,
  wps,         \* bWPSWait
  recheck,     \* bRecheckWpsResult
  nTotalWpsCheckTimes,
  video,       \* the video capture runs
  call,        \* "idle", "begun" (OnCall), "ring" (waiting for an answer), "talk", "over"
  rebooting,   \* reboot_sem has been posted
  todo, events,
  owed,        \* history: the callbacks that were asked for and have not been run
  lost,        \* history: those of which a newer request took the place before they were
               \* run, or whose prompt was there and could not be read
  late,        \* history: a prompt began with an old stop still posted
  missed       \* history: two threads started prompts at a time, or a call ended without one

audio == <<playing, request, startsem, stopsem>>
playerVars == <<audioHandler, player, now>>
apVars == <<ap, apOpen, apTimers, nTimerApWaiting>>
wpsVars == <<wps, recheck, nTotalWpsCheckTimes, video>>
history == <<owed, lost, late, missed>>
vars == <<bell_audio, audio, playerVars, apVars, wpsVars, call, rebooting, todo, events,
          history>>

Threads == {"key", "cmd", "timer", "wps", "player"}
Indexes == {"startup", "config", "wps", "reset", "reboot", "configok", "welcome", "calling",
            "timeout", "talkover"}
Callbacks == {"none", "calling", "ap", "wps", "wifi", "reset", "reboot"}

Op(op) == <<[op |-> op]>>
Start(index, fn) == <<[op |-> "start", index |-> index, fn |-> fn]>>
StopAudioPlay == Op("stop")

\* Mutant: a new prompt does not stop the one that plays.
StartAudioPlayOver(index, fn) == Start(index, fn)

StartAudioPlay(index, fn) == StopAudioPlay \o Start(index, fn)

\* The bell has played its prompt for the start, if the loudspeaker could be opened.
Init ==
  /\ bell_audio \in BOOLEAN
  /\ playing = FALSE /\ request = [index |-> "startup", fn |-> "none"]
  /\ startsem = 0 /\ stopsem = 0
  /\ audioHandler \in BOOLEAN /\ player = "waits" /\ now = "startup"
  /\ ap = FALSE /\ apOpen = FALSE /\ apTimers = 0 /\ nTimerApWaiting = 0
  /\ wps = FALSE /\ recheck = FALSE /\ nTotalWpsCheckTimes = 0 /\ video = TRUE
  /\ call = "idle" /\ rebooting = FALSE
  /\ todo = [t \in Threads |-> <<>>]
  /\ events = 0
  /\ owed = {} /\ lost = {} /\ late = FALSE /\ missed = FALSE

Doing(t, op) == todo[t] # <<>> /\ Head(todo[t]).op = op
Prompting(t) ==
  /\ todo[t] # <<>>
  /\ Head(todo[t]).op \in {"ringon", "stop", "poststop", "silent", "start", "sound", "poststart"}
Crossed(t) == \E u \in Threads \ {t} : Prompting(u)
Next1(t) == todo' = [todo EXCEPT ![t] = Tail(@)]
Becomes(t, steps) == todo' = [todo EXCEPT ![t] = steps \o Tail(@)]
-----------------------------------------------------------------------------
(* StopAudioPlay and StartAudioPlay, on any thread *)

Stop(t) ==
  /\ Doing(t, "stop")
  /\ Becomes(t, IF playing THEN Op("poststop") \o Op("silent") ELSE <<>>)
  /\ missed' = (missed \/ Crossed(t))
  /\ UNCHANGED <<bell_audio, audio, playerVars, apVars, wpsVars, call, rebooting, events,
                 owed, lost, late>>

\* A stop that comes when nothing plays stays in the semaphore for the next prompt.
PostStop(t) ==
  /\ Doing(t, "poststop")
  /\ stopsem' = stopsem + 1
  /\ Next1(t)
  /\ UNCHANGED <<bell_audio, playing, request, startsem, playerVars, apVars, wpsVars, call,
                 rebooting, events, history>>

SetPlayAlarmAudioState(t) ==
  /\ Doing(t, "silent") \/ Doing(t, "sound")
  /\ playing' = (Head(todo[t]).op = "sound")
  /\ Next1(t)
  /\ UNCHANGED <<bell_audio, request, startsem, stopsem, playerVars, apVars, wpsVars, call,
                 rebooting, events, history>>

BaAudioWpsModeCallback ==
  Op("wpsstate") \o Op("videostop") \o Op("recheck") \o Op("wpszero")

\* The steps of a callback.
Steps(fn) ==
  CASE fn = "none" -> <<>>
    [] fn = "calling" -> Op("ringon")
    [] fn = "ap" -> Op("openap") \o Op("apstate") \o Op("apzero") \o Op("apregister")
    [] fn = "wps" -> BaAudioWpsModeCallback
    [] fn = "wifi" -> Op("wifi")
    [] fn \in {"reset", "reboot"} -> Op("reboot")

\* With the prompts off the callback runs at once, on the thread that asks.
Ask(t) ==
  /\ Doing(t, "start")
  /\ LET s == Head(todo[t]) IN
       IF bell_audio
       THEN /\ request' = [index |-> s.index, fn |-> s.fn]
            /\ owed' = owed \cup ({s.fn} \ {"none"})
            /\ lost' = (lost \cup (owed \cap {request.fn})) \ {s.fn}
            /\ Becomes(t, Op("sound") \o Op("poststart"))
       ELSE /\ Becomes(t, Steps(s.fn))
            /\ UNCHANGED <<request, owed, lost>>
  /\ missed' = (missed \/ Crossed(t))
  /\ UNCHANGED <<bell_audio, playing, startsem, stopsem, playerVars, apVars, wpsVars, call,
                 rebooting, events, late>>

PostStart(t) ==
  /\ Doing(t, "poststart")
  /\ startsem' = startsem + 1
  /\ Next1(t)
  /\ UNCHANGED <<bell_audio, playing, request, stopsem, playerVars, apVars, wpsVars, call,
                 rebooting, events, history>>

Audio(t) == Stop(t) \/ PostStop(t) \/ SetPlayAlarmAudioState(t) \/ Ask(t) \/ PostStart(t)
-----------------------------------------------------------------------------
(* BaAudioPlayProc *)

\* When the loudspeaker is not open, nothing is played and the flag stays set.
PlayerWakes ==
  /\ player = "waits" /\ todo["player"] = <<>> /\ startsem > 0
  /\ startsem' = startsem - 1
  /\ now' = request.index
  /\ player' = IF audioHandler THEN "plays" ELSE "over"
  /\ late' = (late \/ stopsem > 0)
  /\ UNCHANGED <<bell_audio, playing, request, stopsem, audioHandler, apVars, wpsVars, call,
                 rebooting, todo, events, owed, lost, missed>>

PlayerMutes ==
  /\ player = "plays" /\ ~audioHandler
  /\ player' = "over"
  /\ UNCHANGED <<bell_audio, audio, audioHandler, now, apVars, wpsVars, call, rebooting, todo,
                 events, history>>

\* A file that is missing has its callback run; one that is there and cannot be read does not.
PlayerFails ==
  /\ player = "waits" /\ todo["player"] = <<>> /\ startsem > 0 /\ events < MaxEvents
  /\ events' = events + 1
  /\ startsem' = startsem - 1
  /\ playing' = FALSE
  /\ \/ player' = "over" /\ UNCHANGED lost
     \/ lost' = lost \cup (owed \cap {request.fn}) /\ UNCHANGED player
  /\ UNCHANGED <<bell_audio, request, stopsem, audioHandler, now, apVars, wpsVars, call,
                 rebooting, todo, owed, late, missed>>

\* Mutant: a prompt that is stopped is not followed by its callback.
PlayerStopsForgets ==
  /\ player = "plays" /\ stopsem > 0
  /\ stopsem' = stopsem - 1
  /\ player' = "waits" /\ now' = "startup"
  /\ UNCHANGED <<bell_audio, playing, request, startsem, audioHandler, apVars, wpsVars, call,
                 rebooting, todo, events, history>>

\* A frame has been written, and a stop was posted.
PlayerStops ==
  /\ player = "plays" /\ stopsem > 0
  /\ stopsem' = stopsem - 1
  /\ player' = "over"
  /\ UNCHANGED <<bell_audio, playing, request, startsem, audioHandler, now, apVars, wpsVars,
                 call, rebooting, todo, events, history>>

\* The prompt has been played nCount times, or the call it rings for is answered.
PlayerFinishes ==
  /\ player = "plays"
  /\ \/ now # "calling"
     \/ now = "calling" /\ call = "talk"
  /\ player' = "ends"
  /\ UNCHANGED <<bell_audio, audio, audioHandler, now, apVars, wpsVars, call, rebooting, todo,
                 events, history>>

\* Mutant: the end of a prompt leaves the flag set.
PlayerEndsLoud ==
  /\ player = "ends"
  /\ player' = "over"
  /\ UNCHANGED <<bell_audio, audio, audioHandler, now, apVars, wpsVars, call, rebooting, todo,
                 events, history>>

PlayerEnds ==
  /\ player = "ends"
  /\ playing' = FALSE
  /\ player' = "over"
  /\ UNCHANGED <<bell_audio, request, startsem, stopsem, audioHandler, now, apVars, wpsVars,
                 call, rebooting, todo, events, history>>

\* The callback is that of the last request, whichever was played.
PlayerCalls ==
  /\ player = "over"
  /\ todo' = [todo EXCEPT !["player"] = Steps(request.fn)]
  /\ owed' = owed \ {request.fn}
  /\ player' = "waits" /\ now' = "startup"
  /\ UNCHANGED <<bell_audio, audio, audioHandler, apVars, wpsVars, call, rebooting, events,
                 lost, late, missed>>

Player ==
  PlayerWakes \/ PlayerMutes \/ PlayerStops \/ PlayerFinishes \/ PlayerEnds \/ PlayerCalls
-----------------------------------------------------------------------------
(* The callbacks *)

\* BaPlayCallingCallback
RingOn(t) ==
  /\ Doing(t, "ringon")
  /\ Becomes(t, IF call = "talk" THEN <<>> ELSE StartAudioPlay("calling", "none"))
  /\ UNCHANGED <<bell_audio, audio, playerVars, apVars, wpsVars, call, rebooting, events,
                 history>>

\* BaAudioWifiConfigCallback
WifiConfig(t) ==
  /\ Doing(t, "wifi")
  /\ ap' = FALSE
  /\ Next1(t)
  /\ UNCHANGED <<bell_audio, audio, playerVars, apOpen, apTimers, nTimerApWaiting, wpsVars,
                 call, rebooting, events, history>>

\* SystemBoot, which closes the loudspeaker, if no update of the firmware is under way.
SystemBoot ==
  /\ rebooting /\ audioHandler
  /\ audioHandler' = FALSE
  /\ UNCHANGED <<bell_audio, audio, player, now, apVars, wpsVars, call, rebooting, todo, events,
                 history>>

\* SetRebootCgi, and OnReset before it.
Reboots(t) ==
  /\ Doing(t, "reboot")
  /\ rebooting' = TRUE
  /\ Next1(t)
  /\ UNCHANGED <<bell_audio, audio, playerVars, apVars, wpsVars, call, events, history>>

\* BaAudioApModeCallback
EnterAp(t) ==
  /\ \/ Doing(t, "openap") /\ apOpen' = TRUE /\ UNCHANGED <<ap, apTimers, nTimerApWaiting>>
     \/ Doing(t, "apstate") /\ ap' = TRUE /\ UNCHANGED <<apOpen, apTimers, nTimerApWaiting>>
     \/ Doing(t, "apzero") /\ nTimerApWaiting' = 0 /\ UNCHANGED <<ap, apOpen, apTimers>>
     \/ Doing(t, "apregister") /\ apTimers' = apTimers + 1
          /\ UNCHANGED <<ap, apOpen, nTimerApWaiting>>
  /\ Next1(t)
  /\ UNCHANGED <<bell_audio, audio, playerVars, wpsVars, call, rebooting, events, history>>

\* BaAudioWpsModeCallback and NoteWpsStart
EnterWps(t) ==
  /\ \/ Doing(t, "wpsstate") /\ wps' = TRUE /\ UNCHANGED <<recheck, nTotalWpsCheckTimes, video>>
     \/ Doing(t, "videostop") /\ video' = FALSE /\ UNCHANGED <<wps, recheck, nTotalWpsCheckTimes>>
     \/ Doing(t, "recheck") /\ recheck' = TRUE /\ UNCHANGED <<wps, nTotalWpsCheckTimes, video>>
     \/ Doing(t, "wpszero") /\ nTotalWpsCheckTimes' = 0 /\ UNCHANGED <<wps, recheck, video>>
  /\ Next1(t)
  /\ UNCHANGED <<bell_audio, audio, playerVars, apVars, call, rebooting, events, history>>

Callback(t) == RingOn(t) \/ WifiConfig(t) \/ Reboots(t) \/ EnterAp(t) \/ EnterWps(t)
-----------------------------------------------------------------------------
(* CallbackApModeWaiting, on the timer thread *)

ApOver == Op("apunregister") \o Op("closeap") \o Op("apleave")

\* Mutant: when the WiFi has been configured the access point is left open.
ApTickForgets ==
  /\ apTimers > 0 /\ todo["timer"] = <<>>
  /\ nTimerApWaiting' = IF ap THEN nTimerApWaiting + 1 ELSE nTimerApWaiting
  /\ todo' = [todo EXCEPT !["timer"] =
                IF ~ap \/ nTimerApWaiting' >= ApMax THEN
                IF ap THEN ApOver ELSE Op("apunregister") ELSE <<>>]
  /\ UNCHANGED <<bell_audio, audio, playerVars, ap, apOpen, apTimers, wpsVars, call,
                 rebooting, events, history>>

\* Mutant: the time of the access point is not counted.
ApTickStuck ==
  /\ apTimers > 0 /\ todo["timer"] = <<>>
  /\ nTimerApWaiting' = nTimerApWaiting
  /\ todo' = [todo EXCEPT !["timer"] =
                IF ~ap \/ nTimerApWaiting' >= ApMax THEN ApOver ELSE <<>>]
  /\ UNCHANGED <<bell_audio, audio, playerVars, ap, apOpen, apTimers, wpsVars, call,
                 rebooting, events, history>>

ApTick ==
  /\ apTimers > 0 /\ todo["timer"] = <<>>
  /\ nTimerApWaiting' = IF ap THEN nTimerApWaiting + 1 ELSE nTimerApWaiting
  /\ todo' = [todo EXCEPT !["timer"] =
                IF ~ap \/ nTimerApWaiting' >= ApMax THEN ApOver ELSE <<>>]
  /\ UNCHANGED <<bell_audio, audio, playerVars, ap, apOpen, apTimers, wpsVars, call,
                 rebooting, events, history>>

LeaveAp ==
  /\ \/ Doing("timer", "apunregister") /\ apTimers' = apTimers - 1 /\ UNCHANGED <<ap, apOpen>>
     \/ Doing("timer", "closeap") /\ apOpen' = FALSE /\ UNCHANGED <<ap, apTimers>>
     \/ Doing("timer", "apleave") /\ ap' = FALSE /\ UNCHANGED <<apOpen, apTimers>>
  /\ Next1("timer")
  /\ UNCHANGED <<bell_audio, audio, playerVars, nTimerApWaiting, wpsVars, call, rebooting,
                 events, history>>
-----------------------------------------------------------------------------
(* WPSThreadProc *)

WpsDone == Op("norecheck") \o Op("videostart") \o Op("wpsleave")

\* It gives up, has a result, or looks again.
WpsLook ==
  /\ recheck /\ todo["wps"] = <<>>
  /\ \/ /\ nTotalWpsCheckTimes >= WpsMax
        /\ todo' = [todo EXCEPT !["wps"] = WpsDone]
        /\ UNCHANGED nTotalWpsCheckTimes
     \/ /\ nTotalWpsCheckTimes < WpsMax
        /\ todo' = [todo EXCEPT !["wps"] = StartAudioPlay("configok", "none") \o WpsDone]
        /\ UNCHANGED nTotalWpsCheckTimes
     \/ /\ nTotalWpsCheckTimes < WpsMax
        /\ nTotalWpsCheckTimes' = nTotalWpsCheckTimes + 1
        /\ UNCHANGED todo
  /\ UNCHANGED <<bell_audio, audio, playerVars, apVars, wps, recheck, video, call, rebooting,
                 events, history>>

LeaveWps ==
  /\ \/ Doing("wps", "norecheck") /\ recheck' = FALSE /\ UNCHANGED <<wps, video>>
     \/ Doing("wps", "videostart") /\ video' = TRUE /\ UNCHANGED <<wps, recheck>>
     \/ Doing("wps", "wpsleave") /\ wps' = FALSE /\ UNCHANGED <<recheck, video>>
  /\ Next1("wps")
  /\ UNCHANGED <<bell_audio, audio, playerVars, apVars, nTotalWpsCheckTimes, call, rebooting,
                 events, history>>
-----------------------------------------------------------------------------
(* Keys, commands and calls *)

\* A handler begins on a thread that has nothing else to do.
Does(t, steps) ==
  /\ todo[t] = <<>>
  /\ todo' = [todo EXCEPT ![t] = steps]
  /\ UNCHANGED <<bell_audio, audio, playerVars, apVars, wpsVars, rebooting, owed, lost, late>>

Event(t, steps) ==
  /\ events < MaxEvents /\ events' = events + 1
  /\ Does(t, steps)

\* A second press during a call only sets bResetCall.
OnPressCall ==
  /\ ~ap /\ ~wps /\ call = "idle"
  /\ call' = "begun"
  /\ Event("key", StartAudioPlay("welcome", "calling") \o Op("wait"))
  /\ UNCHANGED missed

\* With bell_mode 1, its default.
OnEnterAPMode ==
  /\ ~playing /\ ~wps
  /\ IF ap
     THEN /\ todo["key"] = <<>> /\ events < MaxEvents
          /\ nTimerApWaiting' = 0 /\ events' = events + 1
          /\ UNCHANGED <<bell_audio, audio, playerVars, ap, apOpen, apTimers, wpsVars, call,
                         rebooting, todo, history>>
     ELSE Event("key", StartAudioPlay("config", "ap")) /\ UNCHANGED <<call, missed>>

OnEnterWpsMode ==
  /\ ~playing /\ ~ap
  /\ Event("key", StartAudioPlay("wps", "wps"))
  /\ UNCHANGED <<call, missed>>

OnPressReset ==
  /\ Event("key", StartAudioPlay("reset", "reset"))
  /\ UNCHANGED <<call, missed>>

\* The prompts of the commands: a setting, the WiFi and the restart.
Command ==
  /\ \E p \in {StartAudioPlay("configok", "none"), StartAudioPlay("configok", "wifi"),
               StartAudioPlay("reboot", "reboot")} : Event("cmd", p)
  /\ UNCHANGED <<call, missed>>

\* OnCall is through: CallbackWaitingAgree is registered.
Waits ==
  /\ Doing("key", "wait")
  /\ call' = "ring"
  /\ Next1("key")
  /\ UNCHANGED <<bell_audio, audio, playerVars, apVars, wpsVars, rebooting, events, history>>

Agree ==
  /\ call = "ring" /\ call' = "talk"
  /\ Event("cmd", StopAudioPlay)
  /\ UNCHANGED missed

HangUp ==
  /\ call = "talk" /\ call' = "over"
  /\ Does("cmd", StartAudioPlay("talkover", "none"))
  /\ UNCHANGED <<events, missed>>

\* CallbackWaitingAgree and CallbackTalking, when their time is over, when the client hung
\* up and when the lock was opened meanwhile (bMcuNotyceFlag), which starts no prompt.
CallTimeout ==
  /\ todo["timer"] = <<>>
  /\ \/ call \in {"ring", "talk"}
        /\ todo' = [todo EXCEPT !["timer"] = StartAudioPlay("timeout", "none")]
        /\ UNCHANGED missed
     \/ call = "over" /\ UNCHANGED <<todo, missed>>
     \/ call = "ring" /\ missed' = TRUE /\ UNCHANGED todo
  /\ call' = "idle"
  /\ UNCHANGED <<bell_audio, audio, playerVars, apVars, wpsVars, rebooting, events, owed,
                 lost, late>>
-----------------------------------------------------------------------------
Step(t) == Audio(t) \/ Callback(t)

Keys == OnPressCall \/ OnEnterAPMode \/ OnEnterWpsMode \/ OnPressReset

Next ==
  \/ \E t \in Threads : Step(t)
  \/ Player \/ PlayerFails \/ SystemBoot \/ ApTick \/ LeaveAp \/ WpsLook \/ LeaveWps
  \/ Keys \/ Command \/ Waits \/ Agree \/ HangUp \/ CallTimeout

\* The threads run, prompts come to an end and calls time out.
Fairness ==
  /\ \A t \in Threads : WF_vars(Step(t))
  /\ WF_vars(Player) /\ WF_vars(ApTick) /\ WF_vars(LeaveAp) /\ WF_vars(WpsLook)
  /\ WF_vars(LeaveWps) /\ WF_vars(Waits) /\ WF_vars(CallTimeout)

Spec == Init /\ [][Next]_vars /\ Fairness
-----------------------------------------------------------------------------
(* Properties *)

StepSet == [op : {"stop", "poststop", "silent", "sound", "poststart", "ringon", "wifi", "reboot",
                  "openap", "apstate", "apzero", "apregister", "apunregister", "closeap",
                  "apleave", "wpsstate", "videostop", "recheck", "wpszero", "norecheck",
                  "videostart", "wpsleave", "wait"}]
           \cup [op : {"start"}, index : Indexes, fn : Callbacks]

FlagType ==
  /\ bell_audio \in BOOLEAN /\ playing \in BOOLEAN /\ rebooting \in BOOLEAN
  /\ ap \in BOOLEAN /\ apOpen \in BOOLEAN
  /\ wps \in BOOLEAN /\ recheck \in BOOLEAN /\ video \in BOOLEAN
  /\ audioHandler \in BOOLEAN /\ late \in BOOLEAN /\ missed \in BOOLEAN

CountType ==
  /\ startsem \in Nat /\ stopsem \in Nat
  /\ apTimers \in Nat /\ nTimerApWaiting \in Nat
  /\ nTotalWpsCheckTimes \in 0 .. WpsMax /\ events \in 0 .. MaxEvents

ControlType ==
  /\ request \in [index : Indexes, fn : Callbacks]
  /\ player \in {"waits", "plays", "ends", "over"} /\ now \in Indexes
  /\ call \in {"idle", "begun", "ring", "talk", "over"}
  /\ owed \subseteq Callbacks /\ lost \subseteq Callbacks
  /\ todo \in [Threads -> Seq(StepSet)]

\* The type invariant: among others the result of WPS is looked for WpsMax times at most.
TypeOK == FlagType /\ CountType /\ ControlType

Coming(op) == \E t \in Threads : \E i \in DOMAIN todo[t] : todo[t][i].op = op

PlayerIdle == player = "waits" /\ startsem = 0

\* While bStartPlayAlarmAudio is set something is played or about to be, but for two ways:
\* a stop that was posted to a prompt at its end has cut the next one short, or the
\* loudspeaker could not be opened at the start or was closed for a restart.  The flag keeps
\* the AP and WPS keys from working and the talk from being heard (audio.c).
HeardOrStale ==
  playing /\ PlayerIdle => late \/ ~audioHandler \/ Coming("poststart") \/ Coming("silent")

\* What a prompt was to be followed by (a mode, a restart, the ring) has been done when
\* nothing plays and nothing is asked for: the prompt was played, stopped, found missing or
\* had no loudspeaker, and each of these runs the callback.  There are two ways to lose one:
\* a newer request came before it was run, or its file was there and could not be read.
NothingForgotten == PlayerIdle => owed \subseteq lost \/ Coming("poststart")

\* The access point is never open with nobody to close it: the timer counts, or the thread
\* that opened it has yet to register the timer, or it is being closed.
ApIsWatched == apOpen => apTimers > 0 \/ Coming("apregister") \/ Coming("closeap")

\* The video capture, which WPS stops, is never off with nobody to start it again.
VideoIsWatched == ~video => recheck \/ Coming("recheck") \/ Coming("videostart")

\* What a mode has changed there is always somebody to restore, even when its key is pressed
\* again, or the WiFi is configured, while the timer or the WPS thread ends the mode.
ModesAreWatched == ApIsWatched /\ VideoIsWatched

\* The ring of a call, which is played for ever, stops when the call is answered, refused or
\* timed out; it may go on for good only after two requests overlapped, or when the lock was
\* opened while the bell rang.
RingStops == []<>(missed \/ ~(player = "plays" /\ now = "calling"))

\* Both modes come to an end: the access point is closed and the video runs again.
ModesEnd == []<>~apOpen /\ []<>video
=============================================================================

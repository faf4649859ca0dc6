------------------------------ MODULE Settings ------------------------------
(***************************************************************************)
(* The settings of the bell: bparam in memory, BellParam.bin in flash      *)
(* (param/sysparam.c, video/video.c, network/ipc.c) and every command that *)
(* changes them (p2p/p2p.c, func/ieparam.c).                               *)
(*                                                                         *)
(* The cmd thread and the web thread assign the fields of bparam one by    *)
(* one, without a lock, and ask the saving thread to write the whole       *)
(* structure.  The net thread takes the network settings of the daemon and *)
(* writes the file itself, main() does so at start.  SaveSystemParam       *)
(* truncates the file and then writes it, under filelock.  The device may  *)
(* lose its power at any step, or restart on request.                      *)
(*                                                                         *)
(* A handler is written as the set of its runs: each run is the sequence   *)
(* of the steps at which it touches what other threads see.  A run that    *)
(* only answers (no privilege, bad parameters) is the empty sequence.      *)
(***************************************************************************)
EXTENDS Integers, Sequences

CONSTANTS Groups,     \* the structures of bparam that are modelled
          MaxSets,    \* bound: commands and daemon messages in a behaviour
          MaxCuts     \* bound: power cuts in a behaviour

\* The parts of bparam that are set together: the structures of IEPARAMLIST, with those
\* that several commands share divided between them.
AllGroups == {"DevName", "DeviceID", "SysMode", "User", "Net", "Pppoe", "Upnp", "Ddns",
              "Mail", "Ftp", "Alarm", "AlarmFlags", "Record", "Ir", "PTZ", "Wifi", "Route",
              "DTime", "Size", "Picture", "Media",
              "Bell", "Lock", "Pin", "AlarmOn", "BellAlarm", "BellUsers", "BellVideo"}

ASSUME SettingsAssumption ==
  /\ Groups \subseteq AllGroups /\ "Net" \in Groups
  /\ MaxSets \in Nat /\ MaxCuts \in Nat

\* The value of a field: what command number n gave it, or one of these.
Cleared == -1      \* memset to zero
Default == 0       \* SeParamDefault
FirstBoot == -2    \* main() turned the prompts on after the first start
Values == -2 .. MaxSets

\* A structure is seen as two fields, so that a half done change shows.
Both(v) == <<v, v>>
Defaults == [g \in Groups |-> Both(Default)]

VARIABLES
  bparam,     \* bparam[g]: the structure g in memory
  fileState,  \* BellParam.bin: "missing", "short" (truncated) or "whole"
  file,       \* its contents when whole
  filelock,   \* the thread that holds filemutex, or "none"
  saving,     \* saving[s]: where s is in SaveSystemParam: "no", "asked" or "opened"
  savesem,    \* the count of savesem
  todo,       \* todo[t]: the steps its handler has left
  value,      \* value[t]: the number of the command it runs
  netThen,    \* what NetThreadproc does after its save: "none", "serve" or "reboot"
  served,     \* bInited: NetworkInitOK has started the cmd and the web threads
  stage,      \* main(): "reading" the file, "starting" the threads, "up"
  prompt,     \* the callback of the prompt that plays: "none", "silent", "wifi", ...
  rebootsem,  \* reboot_sem has been posted
  updateflag,
  videoctrl,  \* a camera_control waits for VideoParamChange
  sets, cuts,
  forgotten,  \* history: structures last changed by a command that never saves
  mixed,      \* history: structures two threads changed at once, or half changed at a cut
  reset       \* history: "none", or the file was removed and since then the device was
              \* left alone ("clean") or not ("disturbed")

store == <<bparam, fileState, file>>
saver == <<filelock, saving, savesem>>
handler == <<todo, value>>
system == <<netThen, served, stage, prompt, rebootsem, updateflag, videoctrl>>
vars == <<store, saver, handler, system, sets, cuts, forgotten, mixed, reset>>

Setters == {"cmd", "web"}
Savers == {"main", "saver", "net"}

Init ==
  /\ bparam = Defaults /\ fileState = "missing" /\ file = Defaults
  /\ filelock = "none" /\ saving = [s \in Savers |-> IF s = "main" THEN "asked" ELSE "no"]
  /\ savesem = 0
  /\ todo = [t \in Setters |-> <<>>] /\ value = [t \in Setters |-> Default]
  /\ netThen = "none" /\ served = FALSE /\ stage = "reading"
  /\ prompt = "none" /\ rebootsem = FALSE /\ updateflag = FALSE /\ videoctrl = FALSE
  /\ sets = 0 /\ cuts = 0
  /\ forgotten = {} /\ mixed = {} /\ reset = "none"
-----------------------------------------------------------------------------
(* The steps of a handler *)

Op(op, on) == <<[op |-> op, on |-> on]>>

Zero(g) == Op("zero", g)                       \* memset of the structure
Fields(g) == Op("first", g) \o Op("rest", g)   \* the assignments to its fields
Field(g) == Op("field", g)                     \* the assignment to its only field
NoteSaveSem == Op("post", "-")
StartAudioPlay(fn) == Op("prompt", fn)
camera_control(g) == Op("camera", g)
SetRebootCgi == Op("reboot", "-")
RemoveFile == Op("remove", "-")                \* rm /system/www/BellParam.bin
SetUpdateFlag == Op("update", "-")

\* WF_CONFIGOK without a callback.
ConfigOk == StartAudioPlay("silent")
-----------------------------------------------------------------------------
(* The commands of the P2P clients: p2pcmdfind *)

p2psetirgpio == {Field("Ir")}

\* Mutant: the flags are set after the save is asked for.
p2psetalarmLateFlags ==
  {Zero("Alarm") \o Fields("Alarm") \o NoteSaveSem
     \o Zero("AlarmFlags") \o Fields("AlarmFlags")}

p2psetalarm ==
  {Zero("Alarm") \o Zero("AlarmFlags") \o Fields("Alarm") \o Fields("AlarmFlags")
     \o NoteSaveSem}
p2psetusers == {<<>>, Fields("User") \o NoteSaveSem}
p2psetalias == {Field("DevName")}

\* Mutant: the save is asked for before the change.
p2psetmailEarly == {ConfigOk \o NoteSaveSem \o Zero("Mail") \o Fields("Mail")}

p2psetmail == {ConfigOk \o Zero("Mail") \o Fields("Mail") \o NoteSaveSem}
p2psetwifi == {Fields("Wifi") \o NoteSaveSem \o StartAudioPlay("wifi")}
p2psetddns == {Fields("Ddns")}
p2psetmisc == {Fields("PTZ")}
p2psetnetwork == {Zero("Net") \o Fields("Net") \o NoteSaveSem \o NoteSaveSem}
p2psetdns == {Zero("Ddns") \o Fields("Ddns")}
p2psetftp == {Zero("Ftp") \o Fields("Ftp") \o NoteSaveSem}
p2pSetRecordSchedue == {Fields("Record") \o Fields("AlarmFlags") \o NoteSaveSem}
p2pcameracontrol == {camera_control("Size"), camera_control("Picture")}
p2preboot == {<<>>, StartAudioPlay("reboot")}
P2PSetBellTime == {ConfigOk \o Fields("DTime") \o NoteSaveSem}
P2PSetBellConfig == {ConfigOk \o Fields("Bell") \o NoteSaveSem}
P2PSetLockConfig == {ConfigOk \o Fields("Lock") \o NoteSaveSem}
P2PSetPinConfig == {ConfigOk \o Fields("Pin") \o NoteSaveSem}
P2PSetAlarmConfig ==
  {ConfigOk \o Field("AlarmOn") \o Fields("BellAlarm") \o NoteSaveSem}
P2PResetAlarmConfig == {Field("AlarmOn") \o Fields("BellAlarm") \o NoteSaveSem}
P2PResetVideoConfig == {Fields("BellVideo") \o NoteSaveSem}

\* AddUser, DelUser and ChangePassword assign before the prompt is started, and may
\* refuse; the number of the admin and the alias are assigned after it.
P2PSetUserConfig ==
  {<<>>,
   Fields("BellUsers") \o ConfigOk \o NoteSaveSem,
   ConfigOk \o Fields("BellUsers") \o NoteSaveSem,
   ConfigOk \o Field("DeviceID") \o NoteSaveSem}

\* A new mode is saved before it is applied; what type=0 adjusts is only in the
\* current_ fields, which BackupBellVideo overwrites at start, and in the encoder.
P2PSetVideoConfig ==
  {Fields("BellVideo") \o NoteSaveSem \o camera_control("Size"),
   camera_control("Size") \o camera_control("Picture"),
   camera_control("Picture") \o Fields("BellVideo") \o NoteSaveSem}

p2pcmdfind ==
  UNION {p2psetirgpio, p2psetalarm, p2psetusers, p2psetalias, p2psetmail, p2psetwifi,
         p2psetddns, p2psetmisc, p2psetnetwork, p2psetdns, p2psetftp,
         p2pSetRecordSchedue, p2pcameracontrol, p2preboot, P2PSetBellTime,
         P2PSetBellConfig, P2PSetLockConfig, P2PSetPinConfig, P2PSetAlarmConfig,
         P2PResetAlarmConfig, P2PResetVideoConfig, P2PSetUserConfig, P2PSetVideoConfig}
-----------------------------------------------------------------------------
(* The commands of the web pages: CgiProcess *)

cgisetalias == {<<>>, Field("DevName")}
cgisetdate == {Fields("DTime")}
cgisetnetwork == {Fields("Net")}
cgisetpppoe == {Zero("Pppoe") \o Fields("Pppoe")}
cgisetupnp == {Field("Upnp")}
cgisetddns == {Fields("Ddns")}
cgisetmail == {Zero("Mail") \o Fields("Mail")}
cgisetftp == {Zero("Ftp") \o Fields("Ftp")}
cgisetrtsp == {<<>>}
cgisetalarm ==
  {Zero("Alarm") \o Zero("AlarmFlags") \o Fields("Alarm") \o Fields("AlarmFlags")}
cgisetmedia == {Fields("Media") \o Field("Size")}
cgisetrecordsch == {Fields("Record") \o Fields("AlarmFlags")}
cgisetmisc == {<<>>}
cgisetuser == {<<>>, Fields("User")}
cgisetgpioir == {Field("Ir")}
cgisetwifi == {Fields("Wifi") \o Field("SysMode")}
cgisetsyswifi == {Fields("Route") \o Field("SysMode")}
cgisetcamcontrol == {<<>>, camera_control("Size"), camera_control("Picture")}
cgisetrestore == {RemoveFile}
cgisetreboot == {SetRebootCgi}
cgiupgradeapp == {SetUpdateFlag}
cgiupgradesys == {SetUpdateFlag}

\* Mutant: the save is left to the next command.
CgiProcessUnsaved == {Field("DevName"), Field("Upnp"), Fields("Net") \o NoteSaveSem}

\* While the firmware is updated everything but the restart is refused.
CgiProcess ==
  LET saved == UNION {cgisetalias, cgisetdate, cgisetnetwork, cgisetpppoe, cgisetupnp,
                      cgisetddns, cgisetmail, cgisetftp, cgisetrtsp, cgisetalarm,
                      cgisetmedia, cgisetrecordsch, cgisetmisc, cgisetuser, cgisetgpioir,
                      cgisetwifi, cgisetsyswifi, cgisetcamcontrol}
  IN IF updateflag
     THEN cgisetreboot
     ELSE {p \o NoteSaveSem : p \in saved}
            \cup UNION {cgisetrestore, cgisetreboot, cgiupgradeapp, cgiupgradesys}
-----------------------------------------------------------------------------
(* Commands *)

\* What the thread t may be asked to do to the structures modelled.
Calls(t) ==
  {p \in IF t = "cmd" THEN p2pcmdfind ELSE CgiProcess :
     p # <<>> /\ \A i \in DOMAIN p : p[i].on \in AllGroups => p[i].on \in Groups}

\* The structures that a run assigns.
Targets(p) == {p[i].on : i \in DOMAIN p} \cap Groups

\* Nothing is under way but what t does itself.
AloneIs(t) ==
  /\ savesem = 0 /\ \A s \in Savers : saving[s] = "no"
  /\ \A u \in Setters \ {t} : todo[u] = <<>>
  /\ netThen # "reboot"

Call(t) ==
  /\ served /\ stage = "up" /\ todo[t] = <<>> /\ sets < MaxSets
  /\ \E p \in Calls(t) :
       /\ todo' = [todo EXCEPT ![t] = p]
       /\ mixed' = mixed \cup UNION {Targets(p) \cap Targets(todo[u]) : u \in Setters \ {t}}
  /\ sets' = sets + 1
  /\ value' = [value EXCEPT ![t] = sets + 1]
  /\ reset' = IF reset = "clean" THEN "disturbed" ELSE reset
  /\ UNCHANGED <<store, saver, system, cuts, forgotten>>

Done(t) ==
  /\ todo' = [todo EXCEPT ![t] = Tail(@)]
  /\ value' = [value EXCEPT ![t] = IF Tail(todo[t]) = <<>> THEN Default ELSE @]

\* The commands of the P2P clients that change a structure and leave it to another
\* command to save it.
NeverSaved(t) == IF t = "cmd" THEN {"Ir", "DevName", "Ddns", "PTZ"} ELSE {}

Assign(t, g, pair) ==
  /\ bparam' = [bparam EXCEPT ![g] = pair]
  /\ forgotten' = IF g \in NeverSaved(t) THEN forgotten \cup {g} ELSE forgotten \ {g}
  /\ Done(t)
  /\ UNCHANGED <<fileState, file, saver, system, sets, cuts, mixed, reset>>

\* A step that assigns to a structure.
Change(t) ==
  /\ todo[t] # <<>>
  /\ LET op == Head(todo[t]).op
         g == Head(todo[t]).on
         v == value[t]
     IN \/ op = "zero" /\ Assign(t, g, Both(Cleared))
        \/ op = "first" /\ Assign(t, g, <<v, bparam[g][2]>>)
        \/ op = "rest" /\ Assign(t, g, <<bparam[g][1], v>>)
        \/ op = "field" /\ Assign(t, g, Both(v))

Post(t) ==
  /\ todo[t] # <<>> /\ Head(todo[t]).op = "post"
  /\ savesem' = savesem + 1
  /\ Done(t)
  /\ UNCHANGED <<store, filelock, saving, system, sets, cuts, forgotten, mixed, reset>>

\* camera_control tests videoctrl and later sets it; a command that finds it set is
\* dropped, and answered all the same.
Camera(t) ==
  /\ todo[t] # <<>> /\ Head(todo[t]).op = "camera"
  /\ todo' = [todo EXCEPT ![t] =
                 IF videoctrl THEN Tail(@) ELSE Op("take", Head(@).on) \o Tail(@)]
  /\ UNCHANGED <<store, saver, value, system, sets, cuts, forgotten, mixed, reset>>

CameraTake(t) ==
  /\ todo[t] # <<>> /\ Head(todo[t]).op = "take"
  /\ LET g == Head(todo[t]).on IN
       /\ bparam' = [bparam EXCEPT ![g] = Both(value[t])]
       /\ forgotten' = forgotten \ {g}
  /\ videoctrl' = TRUE
  /\ savesem' = savesem + 1
  /\ Done(t)
  /\ UNCHANGED <<fileState, file, filelock, saving, netThen, served, stage, prompt,
                 rebootsem, updateflag, sets, cuts, mixed, reset>>

VideoParamChange ==
  /\ videoctrl
  /\ videoctrl' = FALSE
  /\ UNCHANGED <<store, saver, handler, netThen, served, stage, prompt, rebootsem,
                 updateflag, sets, cuts, forgotten, mixed, reset>>
-----------------------------------------------------------------------------
(* Prompts, restarts and the reset *)

\* A prompt takes the place of the one that plays, and of its callback.
Prompt(t) ==
  /\ todo[t] # <<>> /\ Head(todo[t]).op = "prompt"
  /\ prompt' = Head(todo[t]).on
  /\ Done(t)
  /\ UNCHANGED <<store, saver, netThen, served, stage, rebootsem, updateflag,
                 videoctrl, sets, cuts, forgotten, mixed, reset>>

Reboot(t) ==
  /\ todo[t] # <<>> /\ Head(todo[t]).op = "reboot"
  /\ rebootsem' = TRUE
  /\ Done(t)
  /\ UNCHANGED <<store, saver, netThen, served, stage, prompt, updateflag,
                 videoctrl, sets, cuts, forgotten, mixed, reset>>

\* Mutant: rm is given another name.
RemoveBellParamMisses == UNCHANGED <<fileState, file, saving>>

\* rm BellParam.bin, which does not wait for filelock: a thread in SaveSystemParam goes
\* on writing the file it has opened, which has no name any more.
RemoveBellParam ==
  /\ fileState' = "missing" /\ file' = Defaults
  /\ saving' = [s \in Savers |-> IF saving[s] = "opened" THEN "unlinked" ELSE saving[s]]

Remove(t) ==
  /\ todo[t] # <<>> /\ Head(todo[t]).op = "remove"
  /\ RemoveBellParam
  /\ reset' = IF AloneIs(t) /\ Tail(todo[t]) = <<>> THEN "clean" ELSE "disturbed"
  /\ Done(t)
  /\ UNCHANGED <<bparam, filelock, savesem, system, sets, cuts, forgotten, mixed>>

Update(t) ==
  /\ todo[t] # <<>> /\ Head(todo[t]).op = "update"
  /\ updateflag' = TRUE
  /\ Done(t)
  /\ UNCHANGED <<store, saver, netThen, served, stage, prompt, rebootsem,
                 videoctrl, sets, cuts, forgotten, mixed, reset>>

\* ClrUpdateFlag, when the firmware could not be updated.
UpdateFails ==
  /\ updateflag
  /\ updateflag' = FALSE
  /\ UNCHANGED <<store, saver, handler, netThen, served, stage, prompt, rebootsem,
                 videoctrl, sets, cuts, forgotten, mixed, reset>>

\* OnPressReset, on the thread of the keys.
PressReset ==
  /\ stage = "up" /\ prompt # "reset"
  /\ prompt' = "reset"
  /\ UNCHANGED <<store, saver, handler, netThen, served, stage, rebootsem, updateflag,
                 videoctrl, sets, cuts, forgotten, mixed, reset>>

\* The prompt has played, or prompts are off: BaAudioRebootCallback, BaAudioResetCallback
\* (OnReset) or one without effect here.
PromptEnds ==
  /\ prompt # "none"
  /\ prompt' = "none"
  /\ rebootsem' = (rebootsem \/ prompt \in {"reboot", "reset"})
  /\ IF prompt = "reset"
     THEN /\ RemoveBellParam
          /\ reset' = IF AloneIs("none") THEN "clean" ELSE "disturbed"
     ELSE UNCHANGED <<fileState, file, saving, reset>>
  /\ UNCHANGED <<bparam, filelock, savesem, handler, netThen, served, stage, updateflag,
                 videoctrl, sets, cuts, forgotten, mixed>>
-----------------------------------------------------------------------------
(* SaveSystemParam: filelock, truncate; write, close, fileunlock *)

\* Mutant: without filelock.
SaveOpensUnlocked(s) ==
  /\ saving[s] = "asked"
  /\ filelock' = s
  /\ saving' = [saving EXCEPT ![s] = "opened"]
  /\ fileState' = "short" /\ file' = Defaults
  /\ UNCHANGED <<bparam, savesem, handler, system, sets, cuts, forgotten, mixed, reset>>

SaveOpens(s) ==
  /\ saving[s] = "asked" /\ filelock = "none"
  /\ filelock' = s
  /\ saving' = [saving EXCEPT ![s] = "opened"]
  /\ fileState' = "short" /\ file' = Defaults
  /\ UNCHANGED <<bparam, savesem, handler, system, sets, cuts, forgotten, mixed, reset>>

SaveWrites(s) ==
  /\ saving[s] \in {"opened", "unlinked"}
  /\ filelock' = "none"
  /\ saving' = [saving EXCEPT ![s] = "no"]
  /\ IF saving[s] = "opened"
     THEN /\ fileState' = "whole" /\ file' = bparam
          /\ forgotten' = {g \in forgotten : \E t \in Setters : g \in Targets(todo[t])}
     ELSE UNCHANGED <<fileState, file, forgotten>>
  /\ UNCHANGED <<bparam, savesem, handler, system, sets, cuts, mixed, reset>>

\* FlashSaveProc
FlashSave ==
  /\ saving["saver"] = "no" /\ savesem > 0
  /\ savesem' = savesem - 1
  /\ saving' = [saving EXCEPT !["saver"] = "asked"]
  /\ UNCHANGED <<store, filelock, handler, system, sets, cuts, forgotten, mixed, reset>>

\* NetThreadproc: the daemon sends the network settings, to restart with (0) or to work
\* with (1 and 2).
NetReceive ==
  /\ stage # "reading" /\ saving["net"] = "no" /\ netThen = "none" /\ sets < MaxSets
  /\ sets' = sets + 1
  /\ bparam' = [bparam EXCEPT !["Net"] = Both(sets + 1)]
  /\ saving' = [saving EXCEPT !["net"] = "asked"]
  /\ netThen' \in {"reboot", "serve"}
  /\ mixed' = IF \E t \in Setters : "Net" \in Targets(todo[t])
              THEN mixed \cup {"Net"} ELSE mixed
  /\ reset' = IF reset = "clean" THEN "disturbed" ELSE reset
  /\ UNCHANGED <<fileState, file, filelock, savesem, handler, served, stage, prompt,
                 rebootsem, updateflag, videoctrl, cuts, forgotten>>

\* After its save: SetRebootCgi, or NetworkInitOK, which starts the other threads once.
NetSaved ==
  /\ saving["net"] = "no" /\ netThen # "none"
  /\ netThen' = "none"
  /\ rebootsem' = (rebootsem \/ netThen = "reboot")
  /\ served' = (served \/ netThen = "serve")
  /\ UNCHANGED <<store, saver, handler, stage, prompt, updateflag, videoctrl, sets, cuts,
                 forgotten, mixed, reset>>
-----------------------------------------------------------------------------
(* Start and restart *)

\* Mutant: the defaults are always taken.
InitSystemParamDefaults ==
  /\ bparam' = Defaults
  /\ saving' = [s \in Savers |-> IF s = "main" THEN "asked" ELSE "no"]

\* InitSystemParam reads the file and takes the defaults, which it saves, when the file
\* is missing or short.
InitSystemParam ==
  /\ bparam' = IF fileState = "whole" THEN file ELSE Defaults
  /\ saving' = [s \in Savers |->
                  IF s = "main" /\ fileState # "whole" THEN "asked" ELSE "no"]

\* SensorInit puts the sensor's own size and frame rate in the place of the file's and
\* asks for no save; VideoParamInit_3861 changes no setting.
SensorInit ==
  /\ stage = "reading" /\ saving["main"] = "no"
  /\ stage' = "starting"
  /\ bparam' = [g \in Groups |-> IF g = "Size" THEN Both(Default) ELSE bparam[g]]
  /\ forgotten' = {"Size"} \cap Groups
  /\ UNCHANGED <<fileState, file, filelock, saving, savesem, handler, netThen, served,
                 prompt, rebootsem, updateflag, videoctrl, sets, cuts, mixed, reset>>

\* main() turns the prompts on in settings that are all default, and saves; it disarms
\* the alarm at every start, and asks for a save.
MainStarts ==
  /\ stage = "starting"
  /\ stage' = "up"
  /\ LET empty == "Bell" \in Groups /\ bparam["Bell"] = Both(Default) IN
       /\ bparam' = [g \in Groups |-> CASE g = "Bell" /\ empty -> Both(FirstBoot)
                                        [] g = "AlarmOn" -> Both(Default)
                                        [] OTHER -> bparam[g]]
       /\ saving' = [saving EXCEPT !["main"] = IF empty THEN "asked" ELSE @]
  /\ savesem' = savesem + 1
  /\ UNCHANGED <<fileState, file, filelock, handler, netThen, served, prompt, rebootsem,
                 updateflag, videoctrl, sets, cuts, forgotten, mixed, reset>>

\* Nothing in memory outlives a restart.
Restart ==
  /\ InitSystemParam
  /\ mixed' = {g \in Groups : bparam'[g][1] # bparam'[g][2] \/ bparam'[g][1] = Cleared}
  /\ filelock' = "none" /\ savesem' = 0
  /\ todo' = [t \in Setters |-> <<>>] /\ value' = [t \in Setters |-> Default]
  /\ netThen' = "none" /\ served' = FALSE /\ stage' = "reading"
  /\ prompt' = "none" /\ rebootsem' = FALSE /\ updateflag' = FALSE /\ videoctrl' = FALSE
  /\ forgotten' = {} /\ reset' = "none"
  /\ UNCHANGED <<fileState, file, sets>>

\* rebootproc and SystemBoot, which drops the request while the firmware is updated.
SystemBoot ==
  /\ rebootsem
  /\ IF updateflag
     THEN /\ rebootsem' = FALSE
          /\ UNCHANGED <<store, saver, handler, netThen, served, stage, prompt, updateflag,
                         videoctrl, sets, cuts, forgotten, mixed, reset>>
     ELSE Restart /\ UNCHANGED cuts

PowerCut ==
  /\ cuts < MaxCuts
  /\ cuts' = cuts + 1
  /\ Restart
-----------------------------------------------------------------------------
Step(t) ==
  Change(t) \/ Post(t) \/ Camera(t) \/ CameraTake(t) \/ Prompt(t) \/ Reboot(t) \/ Remove(t)
    \/ Update(t)

Save(s) == SaveOpens(s) \/ SaveWrites(s)

Next ==
  \/ \E t \in Setters : Call(t) \/ Step(t)
  \/ \E s \in Savers : Save(s)
  \/ FlashSave \/ VideoParamChange \/ NetReceive \/ NetSaved \/ SensorInit \/ MainStarts
  \/ UpdateFails \/ PressReset \/ PromptEnds \/ SystemBoot \/ PowerCut

\* The threads run, and so does the prompt player.
Fairness ==
  /\ \A t \in Setters : WF_vars(Step(t))
  /\ \A s \in Savers : WF_vars(SaveOpens(s)) /\ WF_vars(SaveWrites(s))
  /\ WF_vars(FlashSave) /\ WF_vars(NetSaved) /\ WF_vars(SensorInit) /\ WF_vars(MainStarts)
  /\ WF_vars(VideoParamChange) /\ WF_vars(PromptEnds) /\ WF_vars(SystemBoot)

Spec == Init /\ [][Next]_vars /\ Fairness
-----------------------------------------------------------------------------
(* Properties *)

\* A step of a handler.
Steps ==
  [op : {"zero", "first", "rest", "field", "post", "camera", "take", "reboot", "remove",
         "update"},
   on : AllGroups \cup {"-"}]
  \cup [op : {"prompt"}, on : {"silent", "wifi", "reboot"}]

TypeOK ==
  /\ bparam \in [Groups -> Values \X Values]
  /\ fileState \in {"missing", "short", "whole"}
  /\ file \in [Groups -> Values \X Values]
  /\ filelock \in Savers \cup {"none"}
  /\ saving \in [Savers -> {"no", "asked", "opened", "unlinked"}]
  /\ savesem \in Nat
  /\ value \in [Setters -> Values]
  /\ todo \in [Setters -> Seq(Steps)]
  /\ netThen \in {"none", "serve", "reboot"} /\ stage \in {"reading", "starting", "up"}
  /\ served \in BOOLEAN /\ rebootsem \in BOOLEAN
  /\ updateflag \in BOOLEAN /\ videoctrl \in BOOLEAN
  /\ prompt \in {"none", "silent", "wifi", "reboot", "reset"}
  /\ sets \in 0 .. MaxSets /\ cuts \in 0 .. MaxCuts
  /\ forgotten \subseteq Groups /\ mixed \subseteq Groups
  /\ reset \in {"none", "clean", "disturbed"}

\* Nothing is under way that could still change or write the settings.
Quiet == AloneIs("none")

\* A truncated file is the work of exactly one thread, which holds filelock and is about
\* to write it; whenever nobody saves, the file is whole or has been removed, so the
\* device never starts from a short one but after a restart in the middle of a save.
FileIsWhole ==
  /\ fileState = "short" =>
       \/ (stage = "reading" /\ saving["main"] = "asked")
       \/ \E s \in Savers :
            /\ saving[s] = "opened" /\ filelock = s
            /\ \A u \in Savers \ {s} : saving[u] # "opened"
  /\ fileState = "missing" =>
       reset # "none" \/ (stage = "reading" /\ saving["main"] = "asked")

\* Once every asked for save is done the file says what the memory says, but for the
\* four structures whose p2p commands never ask (p2psetirgpio, p2psetalias, p2psetddns,
\* p2psetdns, p2psetmisc).
QuietIsSaved ==
  Quiet /\ fileState = "whole" => \A g \in Groups \ forgotten : file[g] = bparam[g]

\* Another save is asked for, or will be by a handler at work.
SaveDue ==
  \/ savesem > 0 \/ saving["saver"] # "no"
  \/ \E t \in Setters : \E i \in DOMAIN todo[t] : todo[t][i].op = "post"

\* A structure that the file holds half set, or cleared, because a save came in the
\* middle of its handler, is going to be saved again, unless two threads set it at once.
HalfIsTransient ==
  fileState = "whole" => \A g \in Groups \ (mixed \cup forgotten) :
    file[g][1] # file[g][2] \/ file[g][1] = Cleared => SaveDue

\* A restart with nothing under way keeps every setting, but for those never saved and
\* for the size and the arming, which the start then replaces by defaults.
RestartKeeps ==
  [][(SystemBoot \/ PowerCut) /\ stage' = "reading" /\ Quiet /\ fileState = "whole" =>
       \A g \in Groups \ (forgotten \cup {"Size", "AlarmOn"}) : bparam'[g] = bparam[g]]_vars

\* A reset of a device that is left alone gives the defaults at the next start.
ResetSticks ==
  [][(SystemBoot \/ PowerCut) /\ stage' = "reading" /\ reset = "clean" =>
       bparam' = Defaults]_vars

\* Every setting whose command asks for a save gets into the file.
SavedInTheEnd ==
  []<>(fileState = "whole" => \A g \in Groups \ forgotten : file[g] = bparam[g])
=============================================================================

--------------------------- MODULE Settings_proofs ---------------------------
(* Theorems about Settings, for every set of structures and all bounds. *)
EXTENDS Settings, TLAPS

\* The parts of a handler's run are made of steps.
LEMMA OpSteps ==
  /\ \A g \in AllGroups : /\ Zero(g) \in Seq(Steps) /\ Fields(g) \in Seq(Steps)
                          /\ Field(g) \in Seq(Steps) /\ camera_control(g) \in Seq(Steps)
                          /\ Op("take", g) \in Seq(Steps)
  /\ \A fn \in {"silent", "wifi", "reboot"} : StartAudioPlay(fn) \in Seq(Steps)
  /\ ConfigOk \in Seq(Steps) /\ NoteSaveSem \in Seq(Steps)
  /\ SetRebootCgi \in Seq(Steps) /\ RemoveFile \in Seq(Steps) /\ SetUpdateFlag \in Seq(Steps)
  /\ Op("take", "-") \in Seq(Steps) /\ <<>> \in Seq(Steps)
<1>1. ASSUME NEW r \in Steps PROVE <<r>> \in Seq(Steps)
  OBVIOUS
<1>2. ASSUME NEW g \in AllGroups
      PROVE /\ Zero(g) \in Seq(Steps) /\ Fields(g) \in Seq(Steps)
            /\ Field(g) \in Seq(Steps) /\ camera_control(g) \in Seq(Steps)
            /\ Op("take", g) \in Seq(Steps)
  <2>1. ASSUME NEW o \in {"zero", "first", "rest", "field", "camera", "take"}
        PROVE [op |-> o, on |-> g] \in Steps
    BY DEF Steps
  <2> QED BY <1>1, <2>1 DEF Zero, Fields, Field, camera_control, Op
<1>3. ASSUME NEW fn \in {"silent", "wifi", "reboot"}
      PROVE StartAudioPlay(fn) \in Seq(Steps)
  <2>1. [op |-> "prompt", on |-> fn] \in Steps
    BY DEF Steps
  <2> QED BY <1>1, <2>1 DEF StartAudioPlay, Op
<1>4. ASSUME NEW o \in {"post", "reboot", "remove", "update", "take"}
      PROVE Op(o, "-") \in Seq(Steps)
  <2>1. [op |-> o, on |-> "-"] \in Steps
    BY DEF Steps
  <2> QED BY <1>1, <2>1 DEF Op
<1> QED BY <1>2, <1>3, <1>4 DEF ConfigOk, NoteSaveSem, SetRebootCgi, RemoveFile, SetUpdateFlag

LEMMA Concat == ASSUME NEW p \in Seq(Steps), NEW q \in Seq(Steps) PROVE p \o q \in Seq(Steps)
OBVIOUS

\* The runs after each of whose assignments, but those to what t never saves, there is a
\* request to save.
Assigns == {"zero", "first", "rest", "field"}
HasPost(p) == \E j \in DOMAIN p : p[j].op = "post"
Saves(t, p) ==
  \A i \in DOMAIN p : p[i].op \in Assigns /\ p[i].on \notin NeverSaved(t) =>
    \E j \in DOMAIN p : j > i /\ p[j].op = "post"
Saved(t) == {p \in Seq(Steps) : Saves(t, p)}

LEMMA SavedJoin ==
  ASSUME NEW t, NEW p \in Saved(t), NEW q \in Saved(t)
  PROVE  p \o q \in Saved(t)
<1> DEFINE r == p \o q
<1>1. p \in Seq(Steps) /\ q \in Seq(Steps) /\ Saves(t, p) /\ Saves(t, q)
  BY DEF Saved
<1>2. /\ r \in Seq(Steps) /\ Len(r) = Len(p) + Len(q)
      /\ \A i \in 1 .. Len(p) : r[i] = p[i]
      /\ \A i \in 1 .. Len(q) : r[Len(p) + i] = q[i]
  BY <1>1
<1>3. ASSUME NEW i \in DOMAIN r, r[i].op \in Assigns, r[i].on \notin NeverSaved(t)
      PROVE  \E j \in DOMAIN r : j > i /\ r[j].op = "post"
  <2>1. CASE i \in 1 .. Len(p)
    <3>1. PICK j \in DOMAIN p : j > i /\ p[j].op = "post"
      BY <1>1, <1>2, <1>3, <2>1 DEF Saves
    <3> QED BY <1>1, <1>2, <3>1
  <2>2. CASE i \notin 1 .. Len(p)
    <3>1. i - Len(p) \in 1 .. Len(q) /\ r[i] = q[i - Len(p)]
      BY <1>1, <1>2, <2>2
    <3>2. PICK j \in DOMAIN q : j > i - Len(p) /\ q[j].op = "post"
      BY <1>1, <1>3, <3>1 DEF Saves
    <3>3. Len(p) + j \in DOMAIN r /\ Len(p) + j > i /\ r[Len(p) + j].op = "post"
      BY <1>1, <1>2, <3>2
    <3> QED BY <3>3
  <2> QED BY <2>1, <2>2
<1> HIDE DEF r
<1> QED BY <1>2, <1>3 DEF Saved, Saves, r

LEMMA PostStays ==
  ASSUME NEW p \in Seq(Steps), NEW q \in Seq(Steps), HasPost(p)
  PROVE  HasPost(q \o p)
<1> DEFINE r == q \o p
<1>1. PICK j \in DOMAIN p : p[j].op = "post"
  BY DEF HasPost
<1>2. j \in 1 .. Len(p) /\ Len(p) \in Nat /\ Len(q) \in Nat
  OBVIOUS
<1>3. Len(q) + j \in 1 .. Len(r) /\ r[Len(q) + j] = p[j] /\ DOMAIN r = 1 .. Len(r)
  BY <1>2
<1> QED BY <1>1, <1>3 DEF HasPost

LEMMA SavedPost ==
  ASSUME NEW t, NEW p \in Seq(Steps) PROVE p \o NoteSaveSem \in Saved(t)
<1> DEFINE r == p \o NoteSaveSem
<1>1. /\ r \in Seq(Steps) /\ Len(r) = Len(p) + 1
      /\ r[Len(p) + 1].op = "post"
  BY OpSteps DEF NoteSaveSem, Op
<1>2. ASSUME NEW i \in DOMAIN r, r[i].op \in Assigns
      PROVE  \E j \in DOMAIN r : j > i /\ r[j].op = "post"
  <2>1. i # Len(p) + 1
    BY <1>1, <1>2 DEF Assigns
  <2>2. Len(p) + 1 \in DOMAIN r /\ Len(p) + 1 > i
    BY <1>1, <2>1
  <2> QED BY <1>1, <2>2
<1> HIDE DEF r
<1>3. r \in Saved(t)
  BY <1>1, <1>2 DEF Saved, Saves
<1> QED BY <1>3 DEF r

\* The steps that assign nothing, and the structures that p2p commands never save.
LEMMA SavedOps ==
  ASSUME NEW t
  PROVE  /\ \A g \in AllGroups : camera_control(g) \in Saved(t)
         /\ \A fn \in {"silent", "wifi", "reboot"} : StartAudioPlay(fn) \in Saved(t)
         /\ ConfigOk \in Saved(t) /\ SetRebootCgi \in Saved(t) /\ RemoveFile \in Saved(t)
         /\ SetUpdateFlag \in Saved(t) /\ <<>> \in Saved(t)
         /\ t = "cmd" => \A g \in {"Ir", "DevName", "Ddns", "PTZ"} :
              Zero(g) \in Saved(t) /\ Fields(g) \in Saved(t) /\ Field(g) \in Saved(t)
<1>1. ASSUME NEW r, <<r>> \in Seq(Steps),
             r.op \notin Assigns \/ r.on \in NeverSaved(t)
      PROVE  <<r>> \in Saved(t)
  BY <1>1 DEF Saved, Saves
<1>2. ASSUME NEW o, NEW g, Op(o, g) \in Seq(Steps), o \notin Assigns \/ g \in NeverSaved(t)
      PROVE  Op(o, g) \in Saved(t)
  BY <1>1, <1>2 DEF Op
<1>3. \A g \in AllGroups : camera_control(g) \in Saved(t)
  BY <1>2, OpSteps DEF camera_control, Assigns
<1>4. \A fn \in {"silent", "wifi", "reboot"} : StartAudioPlay(fn) \in Saved(t)
  BY <1>2, OpSteps DEF StartAudioPlay, Assigns
<1>5. SetRebootCgi \in Saved(t) /\ RemoveFile \in Saved(t) /\ SetUpdateFlag \in Saved(t)
  BY <1>2, OpSteps DEF SetRebootCgi, RemoveFile, SetUpdateFlag, Assigns
<1>6. <<>> \in Saved(t)
  BY DEF Saved, Saves
<1>7. ASSUME t = "cmd", NEW g \in {"Ir", "DevName", "Ddns", "PTZ"}
      PROVE  Zero(g) \in Saved(t) /\ Fields(g) \in Saved(t) /\ Field(g) \in Saved(t)
  <2>1. g \in NeverSaved(t) /\ g \in AllGroups
    BY <1>7 DEF NeverSaved, AllGroups
  <2>2. \A o \in {"zero", "first", "rest", "field"} : Op(o, g) \in Seq(Steps)
    <3>1. \A o \in {"zero", "first", "rest", "field"} : [op |-> o, on |-> g] \in Steps
      BY <2>1 DEF Steps
    <3> QED BY <3>1 DEF Op
  <2>3. \A o \in {"zero", "first", "rest", "field"} : Op(o, g) \in Saved(t)
    BY <1>2, <2>1, <2>2
  <2> QED BY <2>3, SavedJoin DEF Zero, Fields, Field
<1> QED BY <1>3, <1>4, <1>5, <1>6, <1>7 DEF ConfigOk

LEMMA P2pSaved == p2pcmdfind \subseteq Saved("cmd")
<1>a. \A p \in Seq(Steps) : p \o NoteSaveSem \in Saved("cmd")
  BY SavedPost
<1>b. \A p, q \in Saved("cmd") : p \o q \in Saved("cmd")
  BY SavedJoin
<1>1. /\ p2psetalarm \subseteq Saved("cmd")
      /\ p2psetmail \subseteq Saved("cmd")
      /\ p2psetnetwork \subseteq Saved("cmd")
  <2>1. /\ Zero("Alarm") \o Zero("AlarmFlags") \o Fields("Alarm") \o Fields("AlarmFlags")
             \in Seq(Steps)
        /\ ConfigOk \o Zero("Mail") \o Fields("Mail") \in Seq(Steps)
        /\ Zero("Net") \o Fields("Net") \o NoteSaveSem \in Seq(Steps)
    BY OpSteps DEF AllGroups
  <2>2. /\ Zero("Alarm") \o Zero("AlarmFlags") \o Fields("Alarm") \o Fields("AlarmFlags")
             \o NoteSaveSem \in Saved("cmd")
        /\ ConfigOk \o Zero("Mail") \o Fields("Mail") \o NoteSaveSem \in Saved("cmd")
        /\ Zero("Net") \o Fields("Net") \o NoteSaveSem \o NoteSaveSem \in Saved("cmd")
    BY <1>a, <2>1, Zenon
  <2> QED BY <2>2 DEF p2psetalarm, p2psetmail, p2psetnetwork
<1>2. /\ p2psetftp \subseteq Saved("cmd")
      /\ p2pSetRecordSchedue \subseteq Saved("cmd")
      /\ P2PSetBellTime \subseteq Saved("cmd")
      /\ P2PSetBellConfig \subseteq Saved("cmd")
  <2>1. /\ Zero("Ftp") \o Fields("Ftp") \in Seq(Steps)
        /\ Fields("Record") \o Fields("AlarmFlags") \in Seq(Steps)
        /\ ConfigOk \o Fields("DTime") \in Seq(Steps)
        /\ ConfigOk \o Fields("Bell") \in Seq(Steps)
    BY OpSteps DEF AllGroups
  <2>2. /\ Zero("Ftp") \o Fields("Ftp") \o NoteSaveSem \in Saved("cmd")
        /\ Fields("Record") \o Fields("AlarmFlags") \o NoteSaveSem \in Saved("cmd")
        /\ ConfigOk \o Fields("DTime") \o NoteSaveSem \in Saved("cmd")
        /\ ConfigOk \o Fields("Bell") \o NoteSaveSem \in Saved("cmd")
    BY <1>a, <2>1, Zenon
  <2> QED BY <2>2 DEF p2psetftp, p2pSetRecordSchedue, P2PSetBellTime, P2PSetBellConfig
<1>3. /\ P2PSetLockConfig \subseteq Saved("cmd")
      /\ P2PSetPinConfig \subseteq Saved("cmd")
      /\ P2PSetAlarmConfig \subseteq Saved("cmd")
      /\ P2PResetAlarmConfig \subseteq Saved("cmd")
  <2>1. /\ ConfigOk \o Fields("Lock") \in Seq(Steps)
        /\ ConfigOk \o Fields("Pin") \in Seq(Steps)
        /\ ConfigOk \o Field("AlarmOn") \o Fields("BellAlarm") \in Seq(Steps)
        /\ Field("AlarmOn") \o Fields("BellAlarm") \in Seq(Steps)
    BY OpSteps DEF AllGroups
  <2>2. /\ ConfigOk \o Fields("Lock") \o NoteSaveSem \in Saved("cmd")
        /\ ConfigOk \o Fields("Pin") \o NoteSaveSem \in Saved("cmd")
        /\ ConfigOk \o Field("AlarmOn") \o Fields("BellAlarm") \o NoteSaveSem \in Saved("cmd")
        /\ Field("AlarmOn") \o Fields("BellAlarm") \o NoteSaveSem \in Saved("cmd")
    BY <1>a, <2>1, Zenon
  <2> QED BY <2>2 DEF P2PSetLockConfig, P2PSetPinConfig, P2PSetAlarmConfig, P2PResetAlarmConfig
<1>4. P2PResetVideoConfig \subseteq Saved("cmd")
  <2>1. Fields("BellVideo") \in Seq(Steps)
    BY OpSteps DEF AllGroups
  <2>2. Fields("BellVideo") \o NoteSaveSem \in Saved("cmd")
    BY <1>a, <2>1, Zenon
  <2> QED BY <2>2 DEF P2PResetVideoConfig
<1>5. /\ p2psetirgpio \subseteq Saved("cmd") /\ p2psetalias \subseteq Saved("cmd")
      /\ p2psetddns \subseteq Saved("cmd") /\ p2psetmisc \subseteq Saved("cmd")
  BY SavedOps DEF p2psetirgpio, p2psetalias, p2psetddns, p2psetmisc
<1>6. p2psetdns \subseteq Saved("cmd")
  <2>1. Zero("Ddns") \in Saved("cmd") /\ Fields("Ddns") \in Saved("cmd")
    BY SavedOps
  <2>2. Zero("Ddns") \o Fields("Ddns") \in Saved("cmd")
    BY <1>b, <2>1, Zenon
  <2> QED BY <2>2 DEF p2psetdns
<1>7. p2pcameracontrol \subseteq Saved("cmd") /\ p2preboot \subseteq Saved("cmd")
  BY SavedOps DEF p2pcameracontrol, p2preboot, AllGroups
<1>8. p2psetusers \subseteq Saved("cmd") /\ p2psetwifi \subseteq Saved("cmd")
  <2>1. Fields("User") \in Seq(Steps) /\ Fields("Wifi") \in Seq(Steps)
    BY OpSteps DEF AllGroups
  <2>2. /\ Fields("User") \o NoteSaveSem \in Saved("cmd")
        /\ Fields("Wifi") \o NoteSaveSem \in Saved("cmd")
    BY <1>a, <2>1, Zenon
  <2>3. StartAudioPlay("wifi") \in Saved("cmd") /\ <<>> \in Saved("cmd")
    BY SavedOps
  <2>4. Fields("Wifi") \o NoteSaveSem \o StartAudioPlay("wifi") \in Saved("cmd")
    BY <1>b, <2>2, <2>3, Zenon
  <2> QED BY <2>2, <2>3, <2>4 DEF p2psetusers, p2psetwifi
<1>9. P2PSetUserConfig \subseteq Saved("cmd")
  <2>1. /\ ConfigOk \o Fields("BellUsers") \in Seq(Steps)
        /\ ConfigOk \o Field("DeviceID") \in Seq(Steps)
        /\ Fields("BellUsers") \o ConfigOk \in Seq(Steps)
    BY OpSteps DEF AllGroups
  <2>2. /\ ConfigOk \o Fields("BellUsers") \o NoteSaveSem \in Saved("cmd")
        /\ ConfigOk \o Field("DeviceID") \o NoteSaveSem \in Saved("cmd")
        /\ Fields("BellUsers") \o ConfigOk \o NoteSaveSem \in Saved("cmd")
    BY <1>a, <2>1, Zenon
  <2>3. <<>> \in Saved("cmd")
    BY SavedOps
  <2> QED BY <2>2, <2>3 DEF P2PSetUserConfig
<1>10. P2PSetVideoConfig \subseteq Saved("cmd")
  <2>1. /\ Fields("BellVideo") \in Seq(Steps)
        /\ camera_control("Picture") \o Fields("BellVideo") \in Seq(Steps)
    BY OpSteps DEF AllGroups
  <2>2. /\ Fields("BellVideo") \o NoteSaveSem \in Saved("cmd")
        /\ camera_control("Picture") \o Fields("BellVideo") \o NoteSaveSem \in Saved("cmd")
    BY <1>a, <2>1, Zenon
  <2>3. /\ camera_control("Size") \in Saved("cmd") /\ camera_control("Picture") \in Saved("cmd")
    BY SavedOps DEF AllGroups
  <2>4. /\ Fields("BellVideo") \o NoteSaveSem \o camera_control("Size") \in Saved("cmd")
        /\ camera_control("Size") \o camera_control("Picture") \in Saved("cmd")
    BY <1>b, <2>2, <2>3, Zenon
  <2> QED BY <2>2, <2>4 DEF P2PSetVideoConfig
<1> QED BY <1>1, <1>2, <1>3, <1>4, <1>5, <1>6, <1>7, <1>8, <1>9, <1>10 DEF p2pcmdfind

\* What CgiProcess saves after.
CgiRuns ==
  UNION {cgisetalias, cgisetdate, cgisetnetwork, cgisetpppoe, cgisetupnp, cgisetddns,
         cgisetmail, cgisetftp, cgisetrtsp, cgisetalarm, cgisetmedia, cgisetrecordsch,
         cgisetmisc, cgisetuser, cgisetgpioir, cgisetwifi, cgisetsyswifi, cgisetcamcontrol}

LEMMA CgiRunSteps == CgiRuns \subseteq Seq(Steps)
<1> USE OpSteps, Concat DEF AllGroups
<1>1. /\ cgisetalias \subseteq Seq(Steps)
      /\ cgisetdate \subseteq Seq(Steps)
      /\ cgisetnetwork \subseteq Seq(Steps)
      /\ cgisetpppoe \subseteq Seq(Steps)
  BY DEF cgisetalias, cgisetdate, cgisetnetwork, cgisetpppoe
<1>2. /\ cgisetupnp \subseteq Seq(Steps)
      /\ cgisetddns \subseteq Seq(Steps)
      /\ cgisetmail \subseteq Seq(Steps)
      /\ cgisetftp \subseteq Seq(Steps)
  BY DEF cgisetupnp, cgisetddns, cgisetmail, cgisetftp
<1>3. /\ cgisetrtsp \subseteq Seq(Steps)
      /\ cgisetalarm \subseteq Seq(Steps)
      /\ cgisetmedia \subseteq Seq(Steps)
      /\ cgisetrecordsch \subseteq Seq(Steps)
  BY DEF cgisetrtsp, cgisetalarm, cgisetmedia, cgisetrecordsch
<1>4. /\ cgisetmisc \subseteq Seq(Steps)
      /\ cgisetuser \subseteq Seq(Steps)
      /\ cgisetgpioir \subseteq Seq(Steps)
      /\ cgisetwifi \subseteq Seq(Steps)
  BY DEF cgisetmisc, cgisetuser, cgisetgpioir, cgisetwifi
<1>5. cgisetsyswifi \subseteq Seq(Steps) /\ cgisetcamcontrol \subseteq Seq(Steps)
  BY DEF cgisetsyswifi, cgisetcamcontrol
<1> QED BY <1>1, <1>2, <1>3, <1>4, <1>5 DEF CgiRuns

LEMMA CgiSaved == CgiProcess \subseteq Saved("web")
<1>1. ASSUME NEW p \in CgiRuns PROVE p \o NoteSaveSem \in Saved("web")
  BY CgiRunSteps, SavedPost
<1>2. {p \o NoteSaveSem : p \in CgiRuns} \subseteq Saved("web")
  BY <1>1
<1>3. /\ cgisetrestore \subseteq Saved("web") /\ cgisetreboot \subseteq Saved("web")
      /\ cgiupgradeapp \subseteq Saved("web") /\ cgiupgradesys \subseteq Saved("web")
  BY SavedOps DEF cgisetrestore, cgisetreboot, cgiupgradeapp, cgiupgradesys
<1> QED
  <2>1. CASE updateflag BY <2>1, <1>3 DEF CgiProcess
  <2>2. CASE ~updateflag BY <2>2, <1>2, <1>3 DEF CgiProcess, CgiRuns
  <2> QED BY <2>1, <2>2

LEMMA CallsSaved == ASSUME NEW t \in Setters PROVE Calls(t) \subseteq Saved(t)
BY P2pSaved, CgiSaved DEF Calls, Setters

LEMMA CallsSteps == ASSUME NEW t \in Setters PROVE Calls(t) \subseteq Seq(Steps)
BY CallsSaved DEF Saved


-----------------------------------------------------------------------------
(* Types *)

LEMMA TypeInit == Init => TypeOK
<1> SUFFICES ASSUME Init PROVE TypeOK
  OBVIOUS
<1> USE SettingsAssumption DEF Init
<1>1. Defaults \in [Groups -> Values \X Values]
  BY DEF Defaults, Both, Default, Values
<1>2. /\ saving \in [Savers -> {"no", "asked", "opened", "unlinked"}]
      /\ todo \in [Setters -> Seq(Steps)] /\ value \in [Setters -> Values]
  BY DEF Savers, Setters, Default, Values
<1>3. sets \in 0 .. MaxSets /\ cuts \in 0 .. MaxCuts /\ savesem \in Nat
  OBVIOUS
<1>4. /\ served \in BOOLEAN /\ rebootsem \in BOOLEAN
      /\ updateflag \in BOOLEAN /\ videoctrl \in BOOLEAN
  OBVIOUS
<1>5. /\ fileState \in {"missing", "short", "whole"} /\ filelock \in Savers \cup {"none"}
      /\ netThen \in {"none", "serve", "reboot"} /\ stage \in {"reading", "starting", "up"}
      /\ prompt \in {"none", "silent", "wifi", "reboot", "reset"}
      /\ forgotten \subseteq Groups /\ mixed \subseteq Groups
      /\ reset \in {"none", "clean", "disturbed"}
  OBVIOUS
<1> QED BY <1>1, <1>2, <1>3, <1>4, <1>5 DEF TypeOK

\* The first step of a handler, and what it leaves.
LEMMA HeadTail ==
  ASSUME TypeOK, NEW t \in Setters, todo[t] # <<>>
  PROVE  /\ Head(todo[t]) \in Steps /\ Tail(todo[t]) \in Seq(Steps)
         /\ value[t] \in Values
BY DEF TypeOK

LEMMA DoneType ==
  ASSUME TypeOK, NEW t \in Setters, todo[t] # <<>>, Done(t)
  PROVE  todo' \in [Setters -> Seq(Steps)] /\ value' \in [Setters -> Values]
BY HeadTail, SettingsAssumption DEF TypeOK, Done, Values, Default

LEMMA PairType ==
  ASSUME TypeOK, NEW g, NEW pair \in Values \X Values
  PROVE  [bparam EXCEPT ![g] = pair] \in [Groups -> Values \X Values]
BY DEF TypeOK

LEMMA RestartType == ASSUME TypeOK, Restart, cuts' \in 0 .. MaxCuts PROVE TypeOK'
<1> USE SettingsAssumption DEF TypeOK, Restart, InitSystemParam
<1>1. bparam' \in [Groups -> Values \X Values]
  BY DEF Defaults, Both, Default, Values
<1>2. saving' \in [Savers -> {"no", "asked", "opened", "unlinked"}]
  OBVIOUS
<1>3. todo' \in [Setters -> Seq(Steps)] /\ value' \in [Setters -> Values]
  BY DEF Default, Values
<1> QED BY <1>1, <1>2, <1>3

LEMMA TypeNext == TypeOK /\ [Next]_vars => TypeOK'
<1> SUFFICES ASSUME TypeOK, [Next]_vars PROVE TypeOK'
  OBVIOUS
<1> USE SettingsAssumption
<1>1. ASSUME NEW t \in Setters, Call(t) PROVE TypeOK'
  <2>1. PICK p \in Calls(t) :
          /\ todo' = [todo EXCEPT ![t] = p]
          /\ mixed' = mixed \cup UNION {Targets(p) \cap Targets(todo[u]) : u \in Setters \ {t}}
    BY <1>1 DEF Call
  <2>2. todo' \in [Setters -> Seq(Steps)]
    BY <2>1, CallsSteps DEF TypeOK
  <2>3. mixed' \subseteq Groups
    BY <2>1 DEF TypeOK, Targets
  <2>4. sets' \in 0 .. MaxSets /\ value' \in [Setters -> Values]
    BY <1>1 DEF TypeOK, Call, Values
  <2>5. reset' \in {"none", "clean", "disturbed"}
    BY <1>1 DEF TypeOK, Call
  <2> QED BY <1>1, <2>2, <2>3, <2>4, <2>5
          DEF TypeOK, Call, store, saver, system
<1>2. ASSUME NEW t \in Setters, Change(t) PROVE TypeOK'
  <2> DEFINE g == Head(todo[t]).on
             v == value[t]
  <2>1. PICK pair : Assign(t, g, pair) /\ (g \in Groups => pair \in Values \X Values)
    <3>1. v \in Values /\ Cleared \in Values
      BY <1>2, HeadTail DEF Change, Cleared, Values
    <3>2. g \in Groups => bparam[g][1] \in Values /\ bparam[g][2] \in Values
      BY DEF TypeOK
    <3> QED BY <1>2, <3>1, <3>2 DEF Change, Both
  <2>2. bparam' \in [Groups -> Values \X Values]
    BY <2>1 DEF TypeOK, Assign
  <2>3. todo' \in [Setters -> Seq(Steps)] /\ value' \in [Setters -> Values]
    BY <1>2, <2>1, DoneType DEF Change, Assign
  <2> QED BY <2>1, <2>2, <2>3
          DEF TypeOK, Assign, saver, system
<1>3. ASSUME NEW t \in Setters, Post(t) PROVE TypeOK'
  <2>1. todo' \in [Setters -> Seq(Steps)] /\ value' \in [Setters -> Values]
    BY <1>3, DoneType DEF Post
  <2>2. savesem' \in Nat
    BY <1>3 DEF Post, TypeOK
  <2> QED BY <1>3, <2>1, <2>2 DEF TypeOK, Post, store, system
<1>4. ASSUME NEW t \in Setters, Camera(t) PROVE TypeOK'
  <2>1. Op("take", Head(todo[t]).on) \in Seq(Steps)
    <3>1. Head(todo[t]) \in Steps
      BY <1>4, HeadTail DEF Camera
    <3>2. Head(todo[t]).op = "camera"
      BY <1>4 DEF Camera
    <3>3. Head(todo[t]).on \in AllGroups \cup {"-"}
      BY <3>1, <3>2 DEF Steps
    <3> QED BY <3>3, OpSteps
  <2>2. Op("take", Head(todo[t]).on) \o Tail(todo[t]) \in Seq(Steps)
    BY <1>4, <2>1, HeadTail, Concat DEF Camera
  <2>3. todo' \in [Setters -> Seq(Steps)]
    BY <1>4, <2>2, HeadTail DEF Camera, TypeOK
  <2> QED BY <1>4, <2>3 DEF TypeOK, Camera, store, saver, system
<1>5. ASSUME NEW t \in Setters, CameraTake(t) PROVE TypeOK'
  <2>1. todo' \in [Setters -> Seq(Steps)] /\ value' \in [Setters -> Values]
    BY <1>5, DoneType DEF CameraTake
  <2>2. Both(value[t]) \in Values \X Values
    BY <1>5, HeadTail DEF CameraTake, Both
  <2>3. bparam' \in [Groups -> Values \X Values]
    BY <1>5, <2>2, PairType DEF CameraTake
  <2>4. savesem' \in Nat /\ videoctrl' \in BOOLEAN
    BY <1>5 DEF CameraTake, TypeOK
  <2> QED BY <1>5, <2>1, <2>3, <2>4 DEF TypeOK, CameraTake
<1>6. ASSUME NEW t \in Setters, Prompt(t) PROVE TypeOK'
  <2>1. todo' \in [Setters -> Seq(Steps)] /\ value' \in [Setters -> Values]
    BY <1>6, DoneType DEF Prompt
  <2>2. Head(todo[t]) \in Steps /\ Head(todo[t]).op = "prompt"
    BY <1>6, HeadTail DEF Prompt
  <2>3. prompt' \in {"silent", "wifi", "reboot"}
    BY <1>6, <2>2 DEF Prompt, Steps
  <2> QED BY <1>6, <2>1, <2>3 DEF TypeOK, Prompt, store, saver
<1>7. ASSUME NEW t \in Setters, Reboot(t) \/ Remove(t) \/ Update(t) PROVE TypeOK'
  <2>1. todo' \in [Setters -> Seq(Steps)] /\ value' \in [Setters -> Values]
    BY <1>7, DoneType DEF Reboot, Remove, Update
  <2>2. CASE Reboot(t)
    BY <2>1, <2>2 DEF TypeOK, Reboot, store, saver
  <2>3. CASE Update(t)
    BY <2>1, <2>3 DEF TypeOK, Update, store, saver
  <2>4. CASE Remove(t)
    <3>1. fileState' = "missing" /\ file' \in [Groups -> Values \X Values]
      BY <2>4 DEF Remove, RemoveBellParam, Defaults, Both, Default, Values
    <3>2. saving' \in [Savers -> {"no", "asked", "opened", "unlinked"}]
      BY <2>4 DEF Remove, RemoveBellParam, TypeOK
    <3> QED BY <2>1, <2>4, <3>1, <3>2 DEF TypeOK, Remove, system
  <2> QED BY <1>7, <2>2, <2>3, <2>4
<1>8. ASSUME NEW s \in Savers, SaveOpens(s) PROVE TypeOK'
  <2>1. file' \in [Groups -> Values \X Values]
    BY <1>8 DEF SaveOpens, Defaults, Both, Default, Values
  <2>2. saving' \in [Savers -> {"no", "asked", "opened", "unlinked"}]
    BY <1>8 DEF SaveOpens, TypeOK
  <2> QED BY <1>8, <2>1, <2>2 DEF TypeOK, SaveOpens, handler, system
<1>9. ASSUME NEW s \in Savers, SaveWrites(s) PROVE TypeOK'
  <2>1. saving' \in [Savers -> {"no", "asked", "opened", "unlinked"}]
    BY <1>9 DEF SaveWrites, TypeOK
  <2>2. /\ fileState' \in {"missing", "short", "whole"}
        /\ file' \in [Groups -> Values \X Values] /\ forgotten' \subseteq Groups
    BY <1>9 DEF SaveWrites, TypeOK
  <2> QED BY <1>9, <2>1, <2>2 DEF TypeOK, SaveWrites, handler, system
<1>10. ASSUME FlashSave PROVE TypeOK'
  <2>1. savesem' \in Nat
    BY <1>10 DEF FlashSave, TypeOK
  <2>2. saving' \in [Savers -> {"no", "asked", "opened", "unlinked"}]
    BY <1>10 DEF FlashSave, TypeOK
  <2> QED BY <1>10, <2>1, <2>2 DEF TypeOK, FlashSave, store, handler, system
<1>11. ASSUME NetReceive PROVE TypeOK'
  <2>1. sets' \in 0 .. MaxSets /\ Both(sets + 1) \in Values \X Values
    BY <1>11 DEF NetReceive, TypeOK, Both, Values
  <2>2. bparam' \in [Groups -> Values \X Values]
    BY <1>11, <2>1, PairType DEF NetReceive
  <2>3. saving' \in [Savers -> {"no", "asked", "opened", "unlinked"}]
    BY <1>11 DEF NetReceive, TypeOK
  <2>4. /\ netThen' \in {"none", "serve", "reboot"} /\ mixed' \subseteq Groups
        /\ reset' \in {"none", "clean", "disturbed"}
    BY <1>11 DEF NetReceive, TypeOK
  <2> QED BY <1>11, <2>1, <2>2, <2>3, <2>4 DEF TypeOK, NetReceive, handler
<1>12. ASSUME NetSaved PROVE TypeOK'
  <2>1. rebootsem' \in BOOLEAN
    BY <1>12, Zenon DEF NetSaved, TypeOK
  <2>2. served' \in BOOLEAN
    BY <1>12, Zenon DEF NetSaved, TypeOK
  <2> QED BY <1>12, <2>1, <2>2 DEF TypeOK, NetSaved, store, saver, handler
<1>13. ASSUME SensorInit PROVE TypeOK'
  <2>1. bparam' \in [Groups -> Values \X Values]
    BY <1>13 DEF SensorInit, TypeOK, Both, Default, Values
  <2> QED BY <1>13, <2>1 DEF TypeOK, SensorInit, handler
<1>14. ASSUME MainStarts PROVE TypeOK'
  <2>1. Both(FirstBoot) \in Values \X Values /\ Both(Default) \in Values \X Values
    BY DEF Both, FirstBoot, Default, Values
  <2>2. bparam' \in [Groups -> Values \X Values]
    BY <1>14, <2>1 DEF MainStarts, TypeOK
  <2>3. saving' \in [Savers -> {"no", "asked", "opened", "unlinked"}]
    BY <1>14 DEF MainStarts, TypeOK
  <2>4. savesem' \in Nat
    BY <1>14 DEF MainStarts, TypeOK
  <2> QED BY <1>14, <2>2, <2>3, <2>4 DEF TypeOK, MainStarts, handler
<1>15. ASSUME PromptEnds PROVE TypeOK'
  <2>1. /\ fileState' \in {"missing", "short", "whole"}
        /\ reset' \in {"none", "clean", "disturbed"}
    BY <1>15 DEF PromptEnds, RemoveBellParam, TypeOK
  <2>2. saving' \in [Savers -> {"no", "asked", "opened", "unlinked"}]
    BY <1>15 DEF PromptEnds, RemoveBellParam, TypeOK
  <2>3. file' \in [Groups -> Values \X Values]
    <3>1. Defaults \in [Groups -> Values \X Values]
      BY DEF Defaults, Both, Default, Values
    <3> QED BY <1>15, <3>1 DEF PromptEnds, RemoveBellParam, TypeOK
  <2>4. rebootsem' \in BOOLEAN
    BY <1>15, Zenon DEF PromptEnds, TypeOK
  <2> QED BY <1>15, <2>1, <2>2, <2>3, <2>4 DEF TypeOK, PromptEnds, handler
<1>16. ASSUME SystemBoot PROVE TypeOK'
  <2>1. CASE updateflag
    <3>1. UNCHANGED <<store, saver, handler, netThen, served, stage, prompt, updateflag,
                      videoctrl, sets, cuts, forgotten, mixed, reset>>
      BY <1>16, <2>1 DEF SystemBoot
    <3>2. rebootsem' \in BOOLEAN
      BY <1>16, <2>1 DEF SystemBoot
    <3> QED BY <3>1, <3>2 DEF TypeOK, store, saver, handler
  <2>2. CASE ~updateflag
    BY <1>16, <2>2, RestartType DEF SystemBoot, TypeOK
  <2> QED BY <2>1, <2>2
<1>17. ASSUME PowerCut PROVE TypeOK'
  <2>1. cuts' \in 0 .. MaxCuts
    BY <1>17 DEF PowerCut, TypeOK
  <2> QED BY <1>17, <2>1, RestartType DEF PowerCut
<1>18. ASSUME VideoParamChange \/ UpdateFails \/ PressReset PROVE TypeOK'
  <2>1. CASE VideoParamChange
    <3>1. videoctrl' \in BOOLEAN BY <2>1 DEF VideoParamChange
    <3>2. UNCHANGED <<updateflag, rebootsem, served>> BY <2>1 DEF VideoParamChange
    <3> QED BY <2>1, <3>1, <3>2 DEF TypeOK, VideoParamChange, store, saver, handler
  <2>2. CASE UpdateFails
    <3>1. updateflag' \in BOOLEAN BY <2>2 DEF UpdateFails
    <3>2. UNCHANGED <<videoctrl, rebootsem, served>> BY <2>2 DEF UpdateFails
    <3> QED BY <2>2, <3>1, <3>2 DEF TypeOK, UpdateFails, store, saver, handler
  <2>3. CASE PressReset
    BY <2>3 DEF TypeOK, PressReset, store, saver, handler
  <2> QED BY <1>18, <2>1, <2>2, <2>3
<1>19. ASSUME UNCHANGED vars PROVE TypeOK'
  BY <1>19 DEF TypeOK, vars, store, saver, handler, system
<1> QED BY <1>1, <1>2, <1>3, <1>4, <1>5, <1>6, <1>7, <1>8, <1>9, <1>10, <1>11, <1>12,
           <1>13, <1>14, <1>15, <1>16, <1>17, <1>18, <1>19 DEF Next, Step, Save

\* Everything that Settings keeps has its type.
THEOREM SettingsTypeCorrect == Spec => []TypeOK
<1>1. Init => TypeOK
  BY TypeInit
<1>2. TypeOK /\ [Next]_vars => TypeOK'
  BY TypeNext
<1> QED BY <1>1, <1>2, PTL DEF Spec
-----------------------------------------------------------------------------
(* The file *)

\* filelock is held from the truncation to the end of the write.
Locked == \A s \in Savers : saving[s] \in {"opened", "unlinked"} <=> filelock = s

\* Until main() is through with the start nothing runs but its own save and the daemon's.
Starting ==
  /\ stage # "up" => prompt = "none" /\ \A t \in Setters : todo[t] = <<>>
  /\ stage = "reading" => savesem = 0 /\ saving["saver"] = "no" /\ saving["net"] = "no"
  /\ stage = "starting" => saving["main"] = "no"

\* After a reset of a device that is left alone there is nothing to save.
Alone ==
  reset = "clean" =>
    /\ stage = "up" /\ fileState = "missing" /\ savesem = 0
    /\ \A s \in Savers : saving[s] = "no"
    /\ \A t \in Setters : todo[t] = <<>>

FileInv == TypeOK /\ Locked /\ Starting /\ FileIsWhole /\ Alone

LEMMA FileInit == Init => FileInv
BY TypeInit DEF Init, FileInv, Locked, Starting, FileIsWhole, Alone, Savers

LEMMA RestartFile == ASSUME FileInv, Restart, TypeOK' PROVE FileInv'
BY DEF FileInv, Locked, Starting, FileIsWhole, Alone, Restart, InitSystemParam, Savers, TypeOK

\* What the actions that touch neither the file nor its savers leave as it was.
LEMMA OthersFile ==
  ASSUME FileInv, TypeOK', fileState' = fileState, filelock' = filelock, saving' = saving,
         savesem' = savesem, stage' = stage,
         reset' = reset \/ (reset # "none" /\ reset' = "disturbed"),
         prompt' = "none" \/ prompt' = prompt \/ stage = "up",
         \A t \in Setters :
           todo'[t] # <<>> => todo[t] # <<>> \/ (stage = "up" /\ reset' # "clean")
  PROVE  FileInv'
<1> USE DEF FileInv
<1>1. Locked' BY DEF Locked
<1>2. Starting' BY DEF Starting
<1>3. FileIsWhole' BY DEF FileIsWhole
<1>4. Alone' BY DEF Alone
<1> QED BY <1>1, <1>2, <1>3, <1>4

\* A handler at its next step.
LEMMA DoneFile ==
  ASSUME FileInv, NEW t \in Setters, todo[t] # <<>>, Done(t)
  PROVE  /\ stage = "up" /\ reset # "clean"
         /\ \A u \in Setters : todo'[u] # <<>> => todo[u] # <<>>
BY DEF FileInv, Starting, Alone, Done, TypeOK

LEMMA FileNext == FileInv /\ TypeOK' /\ [Next]_vars => FileInv'
<1> SUFFICES ASSUME FileInv, TypeOK', [Next]_vars PROVE FileInv'
  OBVIOUS
<1>1. ASSUME NEW t \in Setters, Call(t) PROVE FileInv'
  <2>1. /\ fileState' = fileState /\ filelock' = filelock /\ saving' = saving
        /\ savesem' = savesem /\ stage' = stage /\ prompt' = prompt /\ stage = "up"
    BY <1>1 DEF Call, store, saver, system
  <2>2. /\ reset' = reset \/ (reset # "none" /\ reset' = "disturbed")
        /\ reset' # "clean"
    BY <1>1 DEF Call
  <2> QED BY <2>1, <2>2, OthersFile
<1>2. ASSUME NEW t \in Setters, Change(t) PROVE FileInv'
  <2>1. todo[t] # <<>> /\ \E g, pair : Assign(t, g, pair)
    BY <1>2 DEF Change
  <2>2. /\ fileState' = fileState /\ filelock' = filelock /\ saving' = saving
        /\ savesem' = savesem /\ stage' = stage /\ prompt' = prompt /\ reset' = reset
        /\ Done(t)
    BY <2>1 DEF Assign, saver, system
  <2> QED BY <2>1, <2>2, DoneFile, OthersFile
<1>3. ASSUME NEW t \in Setters, Post(t) \/ CameraTake(t) PROVE FileInv'
  <2>1. /\ fileState' = fileState /\ filelock' = filelock /\ saving' = saving
        /\ stage' = stage /\ prompt' = prompt /\ reset' = reset
        /\ Done(t) /\ todo[t] # <<>> /\ savesem' = savesem + 1
    BY <1>3 DEF Post, CameraTake, store, system
  <2>2. /\ stage = "up" /\ reset # "clean"
        /\ \A u \in Setters : todo'[u] # <<>> => todo[u] # <<>>
    BY <2>1, DoneFile
  <2>3. Locked' BY <2>1 DEF FileInv, Locked
  <2>4. Starting' BY <2>1, <2>2 DEF Starting
  <2>5. FileIsWhole' BY <2>1 DEF FileInv, FileIsWhole
  <2>6. Alone' BY <2>1, <2>2 DEF Alone
  <2> QED BY <2>3, <2>4, <2>5, <2>6 DEF FileInv
<1>4. ASSUME NEW t \in Setters, Camera(t) PROVE FileInv'
  <2>1. /\ fileState' = fileState /\ filelock' = filelock /\ saving' = saving
        /\ savesem' = savesem /\ stage' = stage /\ prompt' = prompt /\ reset' = reset
        /\ todo[t] # <<>>
    BY <1>4 DEF Camera, store, saver, system
  <2>2. \A u \in Setters : todo'[u] # <<>> => todo[u] # <<>>
    BY <1>4 DEF Camera, FileInv, TypeOK
  <2> QED BY <2>1, <2>2, OthersFile
<1>5. ASSUME NEW t \in Setters, Prompt(t) \/ Reboot(t) \/ Update(t) PROVE FileInv'
  <2>1. /\ fileState' = fileState /\ filelock' = filelock /\ saving' = saving
        /\ savesem' = savesem /\ stage' = stage /\ reset' = reset
        /\ todo[t] # <<>> /\ Done(t)
    BY <1>5 DEF Prompt, Reboot, Update, store, saver
  <2> QED BY <2>1, DoneFile, OthersFile
<1>6. ASSUME NEW t \in Setters, Remove(t) PROVE FileInv'
  <2>1. todo[t] # <<>> /\ Done(t) /\ UNCHANGED <<filelock, savesem, stage, prompt>>
    BY <1>6 DEF Remove, system
  <2>2. RemoveBellParam /\ reset' # "none"
    BY <1>6 DEF Remove
  <2>3. /\ stage = "up" /\ reset # "clean"
        /\ \A u \in Setters : todo'[u] # <<>> => todo[u] # <<>>
    BY <2>1, DoneFile
  <2>4. Locked' BY <2>1, <2>2 DEF FileInv, Locked, RemoveBellParam
  <2>5. Starting' BY <2>1, <2>3 DEF Starting
  <2>6. FileIsWhole' BY <2>2 DEF FileIsWhole, RemoveBellParam
  <2>7. Alone'
    <3>1. reset' = "clean" => AloneIs(t) /\ Tail(todo[t]) = <<>>
      BY <1>6 DEF Remove
    <3>2. reset' = "clean" => \A u \in Setters : todo'[u] = <<>>
      BY <2>1, <3>1 DEF Done, AloneIs, FileInv, TypeOK
    <3>3. reset' = "clean" => savesem' = 0 /\ \A s \in Savers : saving'[s] = "no"
      BY <2>1, <2>2, <3>1 DEF AloneIs, RemoveBellParam
    <3> QED BY <2>1, <2>2, <2>3, <3>2, <3>3 DEF Alone, RemoveBellParam
  <2> QED BY <2>4, <2>5, <2>6, <2>7 DEF FileInv
<1>7. ASSUME NEW s \in Savers, SaveOpens(s) PROVE FileInv'
  <2>1. /\ saving[s] = "asked" /\ filelock = "none" /\ filelock' = s
        /\ saving' = [saving EXCEPT ![s] = "opened"] /\ fileState' = "short"
        /\ UNCHANGED <<savesem, stage, prompt, todo, reset>>
    BY <1>7 DEF SaveOpens, handler, system
  <2>2. \A u \in Savers : saving'[u] = IF u = s THEN "opened" ELSE saving[u]
    BY <2>1 DEF FileInv, TypeOK
  <2>3. s # "none"
    BY DEF Savers
  <2>4. \A u \in Savers \ {s} : saving[u] \notin {"opened", "unlinked"}
    BY <2>1 DEF FileInv, Locked, Savers
  <2>5. Locked' BY <2>1, <2>2, <2>4 DEF Locked
  <2>6. Starting'
    <3>1. ~(stage = "reading" /\ s \in {"saver", "net"}) /\ ~(stage = "starting" /\ s = "main")
      BY <2>1 DEF FileInv, Starting
    <3> QED BY <2>1, <2>2, <3>1 DEF FileInv, Starting, Savers
  <2>7. FileIsWhole' BY <2>1, <2>2, <2>4 DEF FileIsWhole
  <2>8. Alone' BY <2>1 DEF FileInv, Alone
  <2> QED BY <2>5, <2>6, <2>7, <2>8 DEF FileInv
<1>8. ASSUME NEW s \in Savers, SaveWrites(s) PROVE FileInv'
  <2>1. /\ saving[s] \in {"opened", "unlinked"} /\ filelock' = "none"
        /\ saving' = [saving EXCEPT ![s] = "no"]
        /\ UNCHANGED <<savesem, stage, prompt, todo, reset>>
        /\ saving[s] = "opened" => fileState' = "whole"
        /\ saving[s] = "unlinked" => fileState' = fileState
    BY <1>8 DEF SaveWrites, handler, system
  <2>2. \A u \in Savers : saving'[u] = IF u = s THEN "no" ELSE saving[u]
    BY <2>1 DEF FileInv, TypeOK
  <2>3. filelock = s /\ \A u \in Savers \ {s} : saving[u] \notin {"opened", "unlinked"}
    BY <2>1 DEF FileInv, Locked
  <2>4. Locked' BY <2>1, <2>2, <2>3 DEF Locked, Savers
  <2>5. Starting' BY <2>1, <2>2 DEF FileInv, Starting, Savers
  <2>6. FileIsWhole'
    <3>1. CASE saving[s] = "opened" BY <2>1, <3>1 DEF FileIsWhole
    <3>2. CASE saving[s] = "unlinked"
      <4>1. s = "main" => ~(saving["main"] = "asked")
        BY <3>2
      <4>2. stage = "reading" => s = "main"
        BY <3>2 DEF FileInv, Starting, Savers
      <4>3. fileState # "short" /\ (fileState = "missing" => reset # "none")
        BY <2>3, <3>2, <4>1, <4>2 DEF FileInv, FileIsWhole
      <4> QED BY <2>1, <3>2, <4>3 DEF FileIsWhole
    <3> QED BY <2>1, <3>1, <3>2
  <2>7. Alone' BY <2>1 DEF FileInv, Alone
  <2> QED BY <2>4, <2>5, <2>6, <2>7 DEF FileInv
<1>9. ASSUME FlashSave PROVE FileInv'
  <2>1. /\ saving["saver"] = "no" /\ savesem > 0 /\ savesem' = savesem - 1
        /\ saving' = [saving EXCEPT !["saver"] = "asked"]
        /\ UNCHANGED <<fileState, filelock, stage, prompt, todo, reset>>
    BY <1>9 DEF FlashSave, store, handler, system
  <2>2. \A u \in Savers : saving'[u] = IF u = "saver" THEN "asked" ELSE saving[u]
    BY <2>1 DEF FileInv, TypeOK
  <2>3. savesem # 0
    BY <2>1
  <2>4. stage # "reading" /\ reset # "clean"
    BY <2>3 DEF FileInv, Starting, Alone
  <2>5. Locked' BY <2>1, <2>2 DEF FileInv, Locked
  <2>6. Starting' BY <2>1, <2>2, <2>4 DEF FileInv, Starting, Savers
  <2>7. FileIsWhole' BY <2>1, <2>2, <2>4 DEF FileInv, FileIsWhole
  <2>8. Alone' BY <2>1, <2>4 DEF Alone
  <2> QED BY <2>5, <2>6, <2>7, <2>8 DEF FileInv
<1>10. ASSUME NetReceive PROVE FileInv'
  <2>1. /\ stage # "reading" /\ saving["net"] = "no"
        /\ saving' = [saving EXCEPT !["net"] = "asked"]
        /\ reset' = IF reset = "clean" THEN "disturbed" ELSE reset
        /\ UNCHANGED <<fileState, filelock, savesem, stage, prompt, todo>>
    BY <1>10 DEF NetReceive, handler
  <2>2. \A u \in Savers : saving'[u] = IF u = "net" THEN "asked" ELSE saving[u]
    BY <2>1 DEF FileInv, TypeOK
  <2>3. Locked' BY <2>1, <2>2 DEF FileInv, Locked
  <2>4. Starting' BY <2>1, <2>2 DEF FileInv, Starting, Savers
  <2>5. FileIsWhole' BY <2>1, <2>2 DEF FileInv, FileIsWhole
  <2>6. Alone' BY <2>1 DEF Alone
  <2> QED BY <2>3, <2>4, <2>5, <2>6 DEF FileInv
<1>11. ASSUME NetSaved \/ VideoParamChange \/ UpdateFails \/ PressReset \/ UNCHANGED vars
       PROVE FileInv'
  <2>1. /\ fileState' = fileState /\ filelock' = filelock /\ saving' = saving
        /\ savesem' = savesem /\ stage' = stage /\ reset' = reset /\ todo' = todo
        /\ prompt' = prompt \/ stage = "up"
    BY <1>11 DEF NetSaved, VideoParamChange, UpdateFails, PressReset, vars, store, saver,
                 handler, system
  <2> QED BY <2>1, OthersFile
<1>12. ASSUME SensorInit PROVE FileInv'
  <2>1. /\ stage = "reading" /\ stage' = "starting" /\ saving["main"] = "no"
        /\ UNCHANGED <<fileState, filelock, saving, prompt, todo, reset>>
    BY <1>12 DEF SensorInit, handler
  <2>2. Locked' BY <2>1 DEF FileInv, Locked
  <2>3. Starting' BY <2>1 DEF FileInv, Starting
  <2>4. FileIsWhole' BY <2>1 DEF FileInv, FileIsWhole
  <2>5. Alone' BY <2>1 DEF FileInv, Alone
  <2> QED BY <2>2, <2>3, <2>4, <2>5 DEF FileInv
<1>13. ASSUME MainStarts PROVE FileInv'
  <2>1. /\ stage = "starting" /\ stage' = "up"
        /\ \E to \in {"asked", saving["main"]} : saving' = [saving EXCEPT !["main"] = to]
        /\ UNCHANGED <<fileState, filelock, prompt, todo, reset>>
    BY <1>13 DEF MainStarts, handler
  <2>2. saving["main"] = "no" /\ reset # "clean"
    BY <2>1 DEF FileInv, Starting, Alone
  <2>3. \A u \in Savers : saving'[u] = saving[u] \/ (u = "main" /\ saving'[u] = "asked")
    BY <2>1 DEF FileInv, TypeOK
  <2>4. Locked' BY <2>1, <2>2, <2>3 DEF FileInv, Locked
  <2>5. Starting' BY <2>1 DEF Starting
  <2>6. FileIsWhole' BY <2>1, <2>2, <2>3 DEF FileInv, FileIsWhole, Savers
  <2>7. Alone' BY <2>1, <2>2 DEF Alone
  <2> QED BY <2>4, <2>5, <2>6, <2>7 DEF FileInv
<1>14. ASSUME PromptEnds PROVE FileInv'
  <2>1. CASE prompt # "reset"
    <3>1. /\ fileState' = fileState /\ filelock' = filelock /\ saving' = saving
          /\ savesem' = savesem /\ stage' = stage /\ reset' = reset /\ todo' = todo
          /\ prompt' = "none"
      BY <1>14, <2>1 DEF PromptEnds, handler
    <3> QED BY <3>1, OthersFile
  <2>2. CASE prompt = "reset"
    <3>1. /\ prompt' = "none" /\ RemoveBellParam /\ reset' # "none" /\ stage = "up"
          /\ reset' = "clean" => AloneIs("none")
          /\ UNCHANGED <<filelock, savesem, stage, todo>>
      BY <1>14, <2>2 DEF PromptEnds, handler, FileInv, Starting
    <3>2. Locked' BY <3>1 DEF FileInv, Locked, RemoveBellParam
    <3>3. Starting' BY <3>1 DEF Starting
    <3>4. FileIsWhole' BY <3>1 DEF FileIsWhole, RemoveBellParam
    <3>5. Alone' BY <3>1 DEF Alone, AloneIs, RemoveBellParam, Setters
    <3> QED BY <3>2, <3>3, <3>4, <3>5 DEF FileInv
  <2> QED BY <2>1, <2>2
<1>15. ASSUME SystemBoot PROVE FileInv'
  <2>1. CASE updateflag
    <3>1. /\ fileState' = fileState /\ filelock' = filelock /\ saving' = saving
          /\ savesem' = savesem /\ stage' = stage /\ reset' = reset /\ todo' = todo
          /\ prompt' = prompt
      BY <1>15, <2>1 DEF SystemBoot, store, saver, handler
    <3> QED BY <3>1, OthersFile
  <2>2. CASE ~updateflag
    BY <1>15, <2>2, RestartFile DEF SystemBoot
  <2> QED BY <2>1, <2>2
<1>16. ASSUME PowerCut PROVE FileInv'
  BY <1>16, RestartFile DEF PowerCut
<1> QED BY <1>1, <1>2, <1>3, <1>4, <1>5, <1>6, <1>7, <1>8, <1>9, <1>10, <1>11, <1>12,
           <1>13, <1>14, <1>15, <1>16 DEF Next, Step, Save

LEMMA FileAlways == Spec => []FileInv
<1>1. Init => FileInv
  BY FileInit
<1>2. FileInv /\ [Next]_vars => FileInv'
  BY TypeNext, FileNext DEF FileInv
<1> QED BY <1>1, <1>2, PTL DEF Spec

\* However many commands, saves and power cuts: a truncated BellParam.bin has exactly one
\* writer, which holds filelock, or is replaced by the start that finds it.
THEOREM SettingsFileIsWhole == Spec => []FileIsWhole
<1>1. FileInv => FileIsWhole
  BY DEF FileInv
<1> QED BY <1>1, FileAlways, PTL

\* A reset of a device that is left alone cannot be undone before the next start.
THEOREM SettingsResetSticks == Spec => ResetSticks
<1>1. FileInv /\ [Next]_vars =>
        [(SystemBoot \/ PowerCut) /\ stage' = "reading" /\ reset = "clean" =>
           bparam' = Defaults]_vars
  <2> SUFFICES ASSUME FileInv, SystemBoot \/ PowerCut, stage' = "reading", reset = "clean"
               PROVE  bparam' = Defaults
    OBVIOUS
  <2>1. stage = "up" /\ fileState = "missing"
    BY DEF FileInv, Alone
  <2>2. Restart
    BY <2>1 DEF SystemBoot, PowerCut
  <2> QED BY <2>1, <2>2 DEF Restart, InitSystemParam
<1> QED BY <1>1, FileAlways, PTL DEF Spec, ResetSticks
-----------------------------------------------------------------------------
(* The memory and the file *)

\* A save is on its way.
SaveComes ==
  \/ savesem > 0 \/ \E s \in Savers : saving[s] = "asked"
  \/ \E t \in Setters : HasPost(todo[t])

\* Until that save, and only until then, the file may differ from the memory.
SaveOwed ==
  fileState = "whole" =>
    \A g \in Groups \ forgotten : file[g] # bparam[g] => SaveComes

SavedInv ==
  /\ \A t \in Setters : todo[t] \in Saved(t)
  /\ stage = "reading" => forgotten = {}
  /\ SaveOwed

\* A handler keeps, at each step, the requests it has still to make.
LEMMA SavedTail ==
  ASSUME NEW t, NEW p \in Saved(t), p # <<>>
  PROVE  /\ Tail(p) \in Saved(t)
         /\ HasPost(p) => Head(p).op = "post" \/ HasPost(Tail(p))
         /\ Head(p).op \in Assigns => Head(p).on \in NeverSaved(t) \/ HasPost(Tail(p))
<1> DEFINE q == Tail(p)
<1>1. p \in Seq(Steps) /\ Saves(t, p)
  BY DEF Saved
<1>2. /\ q \in Seq(Steps) /\ Len(q) = Len(p) - 1 /\ Len(p) > 0
      /\ \A i \in DOMAIN q : q[i] = p[i + 1]
      /\ Head(p) = p[1]
  BY <1>1
<1> HIDE DEF q
<1>3. ASSUME NEW j \in DOMAIN p, j > 1 PROVE j - 1 \in DOMAIN q /\ q[j - 1] = p[j]
  BY <1>1, <1>2, <1>3
<1>4. ASSUME NEW i \in DOMAIN q, q[i].op \in Assigns, q[i].on \notin NeverSaved(t)
      PROVE  \E j \in DOMAIN q : j > i /\ q[j].op = "post"
  <2>1. PICK j \in DOMAIN p : j > i + 1 /\ p[j].op = "post"
    BY <1>1, <1>2, <1>4 DEF Saves
  <2>2. j - 1 \in DOMAIN q /\ q[j - 1].op = "post" /\ j - 1 > i
    BY <1>1, <1>2, <1>3, <2>1
  <2> QED BY <2>2
<1>5. q \in Saved(t)
  BY <1>2, <1>4 DEF Saved, Saves
<1>6. ASSUME HasPost(p), Head(p).op # "post" PROVE HasPost(q)
  <2>1. PICK j \in DOMAIN p : p[j].op = "post"
    BY <1>6 DEF HasPost
  <2>2. j > 1
    BY <1>1, <1>2, <1>6, <2>1
  <2> QED BY <1>3, <2>1, <2>2 DEF HasPost
<1>7. ASSUME Head(p).op \in Assigns, Head(p).on \notin NeverSaved(t) PROVE HasPost(q)
  <2>1. PICK j \in DOMAIN p : j > 1 /\ p[j].op = "post"
    BY <1>1, <1>2, <1>7 DEF Saves
  <2> QED BY <1>3, <2>1 DEF HasPost
<1> QED BY <1>5, <1>6, <1>7 DEF q

LEMMA SavedDone ==
  ASSUME TypeOK, SavedInv, NEW t \in Setters, todo[t] # <<>>, Done(t)
  PROVE  /\ \A u \in Setters : todo'[u] \in Saved(u)
         /\ \A u \in Setters : u # t => todo'[u] = todo[u]
         /\ HasPost(todo[t]) => Head(todo[t]).op = "post" \/ HasPost(todo'[t])
         /\ Head(todo[t]).op \in Assigns =>
              Head(todo[t]).on \in NeverSaved(t) \/ HasPost(todo'[t])
<1>1. todo' = [todo EXCEPT ![t] = Tail(todo[t])] /\ todo[t] \in Saved(t)
  BY DEF Done, SavedInv
<1>2. todo'[t] = Tail(todo[t]) /\ \A u \in Setters : u # t => todo'[u] = todo[u]
  BY <1>1 DEF TypeOK
<1>3. \A u \in Setters : u # t => todo[u] \in Saved(u)
  BY DEF SavedInv
<1> QED BY <1>1, <1>2, <1>3, SavedTail

\* What the actions that change neither the memory nor the file keep.
LEMMA OthersSaved ==
  ASSUME SavedInv, \A t \in Setters : todo'[t] \in Saved(t),
         stage' = "reading" => stage = "reading", forgotten' = forgotten,
         bparam' = bparam, file' = file, fileState' = fileState,
         SaveComes => SaveComes'
  PROVE  SavedInv'
BY DEF SavedInv, SaveOwed

\* A request may be in any handler; what t has left behind it has made.
LEMMA StillComes ==
  ASSUME TypeOK, SavedInv, NEW t \in Setters, todo[t] # <<>>, Done(t),
         savesem' = savesem, saving' = saving, Head(todo[t]).op # "post"
  PROVE  SaveComes => SaveComes'
BY SavedDone DEF SaveComes

LEMMA SavedInit == Init => SavedInv
<1>1. <<>> \in Saved("cmd") /\ <<>> \in Saved("web")
  BY SavedOps
<1> QED BY <1>1 DEF Init, SavedInv, SaveOwed, Setters

LEMMA RestartSaved == ASSUME Restart PROVE SavedInv'
<1>1. <<>> \in Saved("cmd") /\ <<>> \in Saved("web")
  BY SavedOps
<1>2. SaveOwed'
  BY DEF Restart, InitSystemParam, SaveOwed
<1> QED BY <1>1, <1>2 DEF Restart, SavedInv, Setters

LEMMA SavedNext == FileInv /\ SavedInv /\ TypeOK' /\ [Next]_vars => SavedInv'
<1> SUFFICES ASSUME FileInv, SavedInv, TypeOK', [Next]_vars PROVE SavedInv'
  OBVIOUS
<1>t. TypeOK /\ \A t \in Setters : todo[t] \in Saved(t)
  BY DEF FileInv, SavedInv
<1>1. ASSUME NEW t \in Setters, Call(t) PROVE SavedInv'
  <2>1. PICK p \in Calls(t) : todo' = [todo EXCEPT ![t] = p]
    BY <1>1 DEF Call
  <2>2. \A u \in Setters : todo'[u] \in Saved(u)
    BY <1>t, <2>1, CallsSaved DEF TypeOK
  <2>3. todo[t] = <<>> /\ \A u \in Setters : u # t => todo'[u] = todo[u]
    BY <1>1, <1>t, <2>1 DEF Call, TypeOK
  <2>4. SaveComes => SaveComes'
    BY <1>1, <2>3 DEF Call, saver, SaveComes, HasPost
  <2> QED BY <1>1, <2>2, <2>4, OthersSaved DEF Call, store, system
<1>2. ASSUME NEW t \in Setters, Change(t) PROVE SavedInv'
  <2> DEFINE g == Head(todo[t]).on
  <2>1. Head(todo[t]).op \in Assigns /\ todo[t] # <<>> /\ \E pair : Assign(t, g, pair)
    BY <1>2 DEF Change, Assigns
  <2>2. PICK pair : Assign(t, g, pair)
    BY <2>1
  <2>3. /\ Done(t) /\ bparam' = [bparam EXCEPT ![g] = pair]
        /\ forgotten' = IF g \in NeverSaved(t) THEN forgotten \cup {g} ELSE forgotten \ {g}
        /\ UNCHANGED <<file, fileState, saving, savesem, stage>>
    BY <2>2 DEF Assign, saver, system
  <2>4. stage # "reading"
    BY <2>1 DEF FileInv, Starting
  <2>5. /\ \A u \in Setters : todo'[u] \in Saved(u)
        /\ g \in NeverSaved(t) \/ HasPost(todo'[t])
    BY <1>t, <2>1, <2>3, SavedDone
  <2>6. Head(todo[t]).op # "post"
    BY <2>1 DEF Assigns
  <2>7. SaveComes => SaveComes'
    BY <1>t, <2>1, <2>3, <2>6, StillComes
  <2>8. SaveOwed'
    <3>1. CASE g \in NeverSaved(t)
      <4>1. \A h \in Groups \ forgotten' : h \notin forgotten /\ bparam'[h] = bparam[h]
        BY <1>t, <2>3, <3>1 DEF TypeOK
      <4> QED BY <2>3, <2>7, <4>1 DEF SavedInv, SaveOwed
    <3>2. CASE g \notin NeverSaved(t)
      <4>1. SaveComes'
        BY <2>5, <3>2 DEF SaveComes
      <4> QED BY <4>1 DEF SaveOwed
    <3> QED BY <3>1, <3>2
  <2> QED BY <2>3, <2>4, <2>5, <2>8 DEF SavedInv
<1>3. ASSUME NEW t \in Setters, Post(t) \/ CameraTake(t) PROVE SavedInv'
  <2>1. todo[t] # <<>> /\ Done(t) /\ savesem' = savesem + 1 /\ stage' = stage
    BY <1>3 DEF Post, CameraTake, system
  <2>2. stage # "reading"
    BY <2>1 DEF FileInv, Starting
  <2>3. SaveComes'
    BY <1>t, <2>1 DEF SaveComes, TypeOK
  <2> QED BY <1>t, <2>1, <2>2, <2>3, SavedDone DEF SavedInv, SaveOwed
<1>4. ASSUME NEW t \in Setters, Camera(t) PROVE SavedInv'
  <2>1. todo[t] # <<>> /\ Head(todo[t]).op = "camera"
    BY <1>4 DEF Camera
  <2>2. /\ Tail(todo[t]) \in Saved(t)
        /\ HasPost(todo[t]) => HasPost(Tail(todo[t]))
    BY <1>t, <2>1, SavedTail
  <2> DEFINE q == Op("take", Head(todo[t]).on)
  <2>3. q \in Saved(t)
    <3>1. Head(todo[t]) \in Steps /\ Head(todo[t]).on \in AllGroups \cup {"-"}
      BY <1>t, <2>1, HeadTail DEF Steps
    <3>2. q \in Seq(Steps) /\ Len(q) = 1 /\ q[1].op = "take"
      BY <3>1, OpSteps DEF Op
    <3> QED BY <3>2 DEF Saved, Saves, Assigns
  <2>4. q \o Tail(todo[t]) \in Saved(t)
    BY <2>2, <2>3, SavedJoin, Zenon
  <2>5. HasPost(Tail(todo[t])) => HasPost(q \o Tail(todo[t]))
    <3>1. Tail(todo[t]) \in Seq(Steps) /\ q \in Seq(Steps)
      BY <2>2, <2>3 DEF Saved
    <3> QED BY <3>1, PostStays, Zenon
  <2> HIDE DEF q
  <2>6. todo' = [todo EXCEPT ![t] = IF videoctrl THEN Tail(todo[t]) ELSE q \o Tail(todo[t])]
    BY <1>4 DEF Camera, q
  <2>7. \A u \in Setters : u # t => todo'[u] = todo[u]
    BY <1>t, <2>6 DEF TypeOK
  <2>8. /\ todo'[t] \in Saved(t)
        /\ HasPost(todo[t]) => HasPost(todo'[t])
    BY <1>t, <2>2, <2>4, <2>5, <2>6 DEF TypeOK
  <2>9. SaveComes => SaveComes'
    BY <1>4, <2>7, <2>8 DEF Camera, saver, SaveComes
  <2> QED BY <1>4, <1>t, <2>7, <2>8, <2>9, OthersSaved DEF Camera, store, system
<1>5. ASSUME NEW t \in Setters, Prompt(t) \/ Reboot(t) \/ Update(t) PROVE SavedInv'
  <2>1. /\ todo[t] # <<>> /\ Done(t) /\ Head(todo[t]).op # "post"
        /\ UNCHANGED <<bparam, file, fileState, savesem, saving, stage, forgotten>>
    BY <1>5 DEF Prompt, Reboot, Update, store, saver
  <2> QED BY <1>t, <2>1, SavedDone, StillComes, OthersSaved
<1>6. ASSUME NEW t \in Setters, Remove(t) PROVE SavedInv'
  <2>1. /\ todo[t] # <<>> /\ Done(t) /\ fileState' = "missing"
        /\ stage' = stage /\ forgotten' = forgotten
    BY <1>6 DEF Remove, RemoveBellParam, system
  <2> QED BY <1>t, <2>1, SavedDone DEF SavedInv, SaveOwed
<1>7. ASSUME NEW s \in Savers, SaveOpens(s) PROVE SavedInv'
  BY <1>7 DEF SaveOpens, handler, system, SavedInv, SaveOwed
<1>8. ASSUME NEW s \in Savers, SaveWrites(s) PROVE SavedInv'
  <2>1. todo' = todo /\ stage' = stage /\ forgotten' \subseteq forgotten
    BY <1>8 DEF SaveWrites, handler, system
  <2>2. SaveOwed'
    <3>1. CASE saving[s] = "opened"
      BY <1>8, <3>1 DEF SaveWrites, SaveOwed
    <3>2. CASE saving[s] = "unlinked"
      <4>1. UNCHANGED <<bparam, file, fileState, savesem, forgotten, todo>>
        BY <1>8, <3>2 DEF SaveWrites, handler
      <4>2. \A u \in Savers : saving[u] = "asked" => saving'[u] = "asked"
        BY <1>8, <1>t, <3>2 DEF SaveWrites, TypeOK
      <4> QED BY <4>1, <4>2 DEF SavedInv, SaveOwed, SaveComes
    <3> QED BY <1>8, <3>1, <3>2 DEF SaveWrites
  <2> QED BY <2>1, <2>2 DEF SavedInv
<1>9. ASSUME FlashSave \/ NetReceive PROVE SavedInv'
  <2>1. \E s \in Savers : saving' = [saving EXCEPT ![s] = "asked"]
    BY <1>9 DEF FlashSave, NetReceive, Savers
  <2>2. SaveComes'
    BY <1>t, <2>1 DEF SaveComes, TypeOK
  <2> QED BY <1>9, <2>2 DEF FlashSave, NetReceive, handler, system, store, SavedInv, SaveOwed
<1>10. ASSUME NetSaved \/ VideoParamChange \/ UpdateFails \/ PressReset \/ UNCHANGED vars
       PROVE SavedInv'
  <2>1. UNCHANGED <<bparam, file, fileState, savesem, saving, stage, forgotten, todo>>
    BY <1>10 DEF NetSaved, VideoParamChange, UpdateFails, PressReset, vars, store, saver,
                 handler, system
  <2> QED BY <1>t, <2>1, OthersSaved DEF SaveComes
<1>11. ASSUME SensorInit PROVE SavedInv'
  <2>1. /\ UNCHANGED <<file, fileState, savesem, saving, todo>> /\ stage' = "starting"
        /\ forgotten' = {"Size"} \cap Groups /\ stage = "reading"
        /\ bparam' = [g \in Groups |-> IF g = "Size" THEN Both(Default) ELSE bparam[g]]
    BY <1>11 DEF SensorInit, handler
  <2>2. forgotten = {} /\ SaveComes' = SaveComes
    BY <2>1 DEF SavedInv, SaveComes
  <2>3. \A g \in Groups \ forgotten' : bparam'[g] = bparam[g]
    BY <2>1
  <2>4. SaveOwed'
    BY <2>1, <2>2, <2>3 DEF SavedInv, SaveOwed
  <2> QED BY <1>t, <2>1, <2>4 DEF SavedInv
<1>12. ASSUME MainStarts PROVE SavedInv'
  <2>1. savesem' = savesem + 1 /\ stage' = "up" /\ todo' = todo
    BY <1>12 DEF MainStarts, handler
  <2>2. SaveComes'
    BY <1>t, <2>1 DEF SaveComes, TypeOK
  <2> QED BY <1>t, <2>1, <2>2 DEF SavedInv, SaveOwed
<1>13. ASSUME PromptEnds PROVE SavedInv'
  <2>1. CASE prompt = "reset"
    BY <1>13, <1>t, <2>1 DEF PromptEnds, RemoveBellParam, handler, SavedInv, SaveOwed
  <2>2. CASE prompt # "reset"
    <3>1. UNCHANGED <<bparam, file, fileState, savesem, saving, stage, forgotten, todo>>
      BY <1>13, <2>2 DEF PromptEnds, handler
    <3> QED BY <1>t, <3>1, OthersSaved DEF SaveComes
  <2> QED BY <2>1, <2>2
<1>14. ASSUME SystemBoot PROVE SavedInv'
  <2>1. CASE updateflag
    <3>1. UNCHANGED <<bparam, file, fileState, savesem, saving, stage, forgotten, todo>>
      BY <1>14, <2>1 DEF SystemBoot, store, saver, handler
    <3> QED BY <1>t, <3>1, OthersSaved DEF SaveComes
  <2>2. CASE ~updateflag
    BY <1>14, <2>2, RestartSaved DEF SystemBoot
  <2> QED BY <2>1, <2>2
<1>15. ASSUME PowerCut PROVE SavedInv'
  BY <1>15, RestartSaved DEF PowerCut
<1> QED BY <1>1, <1>2, <1>3, <1>4, <1>5, <1>6, <1>7, <1>8, <1>9, <1>10, <1>11, <1>12,
           <1>13, <1>14, <1>15 DEF Next, Step, Save

LEMMA SavedAlways == Spec => [](FileInv /\ SavedInv)
<1>1. Init => FileInv /\ SavedInv
  BY FileInit, SavedInit
<1>2. FileInv /\ SavedInv /\ [Next]_vars => (FileInv /\ SavedInv)'
  BY TypeNext, FileNext, SavedNext DEF FileInv
<1> QED BY <1>1, <1>2, PTL DEF Spec

LEMMA QuietSaved == SavedInv => QuietIsSaved
<1> SUFFICES ASSUME SavedInv, Quiet, fileState = "whole" PROVE ~SaveComes
  BY DEF QuietIsSaved, SavedInv, SaveOwed
<1>1. savesem = 0 /\ \A s \in Savers : saving[s] = "no"
  BY DEF Quiet, AloneIs
<1>2. \A t \in Setters : todo[t] = <<>>
  BY DEF Quiet, AloneIs, Setters
<1> QED BY <1>1, <1>2 DEF SaveComes, HasPost

\* However the commands, the daemon and the saves interleave, and wherever the power fails:
\* a device with nothing left to do has in its file what it has in memory, but for what
\* five commands never save.
THEOREM SettingsQuietIsSaved == Spec => []QuietIsSaved
  BY SavedAlways, QuietSaved, PTL

\* A restart of such a device loses no setting that was to be saved.
THEOREM SettingsRestartKeeps == Spec => RestartKeeps
<1>1. SavedInv /\ [Next]_vars =>
        [(SystemBoot \/ PowerCut) /\ stage' = "reading" /\ Quiet /\ fileState = "whole" =>
           \A g \in Groups \ (forgotten \cup {"Size", "AlarmOn"}) : bparam'[g] = bparam[g]]_vars
  <2> SUFFICES ASSUME SavedInv, SystemBoot \/ PowerCut, stage' = "reading", Quiet,
                      fileState = "whole", NEW g \in Groups \ forgotten
               PROVE  bparam'[g] = bparam[g]
    OBVIOUS
  <2>1. file[g] = bparam[g]
    BY QuietSaved DEF QuietIsSaved
  <2>2. CASE Restart
    BY <2>1, <2>2 DEF Restart, InitSystemParam
  <2>3. CASE ~Restart
    BY <2>3 DEF SystemBoot, PowerCut, store
  <2> QED BY <2>2, <2>3
<1> QED BY <1>1, SavedAlways, PTL DEF Spec, RestartKeeps
-----------------------------------------------------------------------------
(* Half set structures *)

\* The runs that set a structure they have zeroed, but for those of S, and one field of it
\* right after the other.
Filled(S, p) ==
  \A i \in DOMAIN p :
    /\ p[i].op = "first" => i + 1 \in DOMAIN p /\ p[i + 1] = [op |-> "rest", on |-> p[i].on]
    /\ p[i].op = "rest" => i > 1 /\ p[i - 1] = [op |-> "first", on |-> p[i].on]
    /\ p[i].op = "zero" /\ p[i].on \notin S =>
         \E j \in DOMAIN p : j > i /\ p[j] = [op |-> "first", on |-> p[i].on]
Fills(S) == {p \in Seq(Steps) : Filled(S, p)}

LEMMA FillsJoin ==
  ASSUME NEW S, NEW U, NEW T, NEW p \in Fills(S), NEW q \in Fills(U), U \subseteq T,
         \A g \in S \ T : \E j \in DOMAIN q : q[j] = [op |-> "first", on |-> g]
  PROVE  p \o q \in Fills(T)
<1> DEFINE r == p \o q
<1>1. p \in Seq(Steps) /\ q \in Seq(Steps) /\ Filled(S, p) /\ Filled(U, q)
  BY DEF Fills
<1>2. /\ r \in Seq(Steps) /\ Len(r) = Len(p) + Len(q)
      /\ \A i \in 1 .. Len(p) : r[i] = p[i]
      /\ \A i \in 1 .. Len(q) : r[Len(p) + i] = q[i]
      /\ Len(p) \in Nat /\ Len(q) \in Nat
  BY <1>1
<1> HIDE DEF r
<1>d. DOMAIN p = 1 .. Len(p) /\ DOMAIN q = 1 .. Len(q) /\ DOMAIN r = 1 .. Len(p) + Len(q)
  BY <1>1, <1>2
<1>3. ASSUME NEW i \in DOMAIN p
      PROVE  /\ r[i].op = "first" => i + 1 \in DOMAIN r /\ r[i + 1] = [op |-> "rest", on |-> r[i].on]
             /\ r[i].op = "rest" => i > 1 /\ r[i - 1] = [op |-> "first", on |-> r[i].on]
             /\ r[i].op = "zero" /\ r[i].on \notin T =>
                  \E j \in DOMAIN r : j > i /\ r[j] = [op |-> "first", on |-> r[i].on]
  <2>1. r[i] = p[i] /\ i \in 1 .. Len(p)
    BY <1>2, <1>d
  <2>2. ASSUME r[i].op = "first"
        PROVE  i + 1 \in DOMAIN r /\ r[i + 1] = [op |-> "rest", on |-> r[i].on]
    <3>1. i + 1 \in DOMAIN p /\ p[i + 1] = [op |-> "rest", on |-> p[i].on]
      BY <1>1, <2>1, <2>2 DEF Filled
    <3>2. i + 1 \in 1 .. Len(p) /\ i + 1 \in DOMAIN r
      BY <1>2, <1>d, <3>1
    <3> QED BY <1>2, <2>1, <3>1, <3>2
  <2>3. ASSUME r[i].op = "rest"
        PROVE  i > 1 /\ r[i - 1] = [op |-> "first", on |-> r[i].on]
    <3>1. i > 1 /\ p[i - 1] = [op |-> "first", on |-> p[i].on]
      BY <1>1, <2>1, <2>3 DEF Filled
    <3>2. i - 1 \in 1 .. Len(p)
      BY <1>2, <2>1, <3>1
    <3> QED BY <1>2, <2>1, <3>1, <3>2
  <2>4. ASSUME r[i].op = "zero", r[i].on \notin T
        PROVE  \E j \in DOMAIN r : j > i /\ r[j] = [op |-> "first", on |-> r[i].on]
    <3>1. CASE r[i].on \in S
      <4>1. PICK j \in DOMAIN q : q[j] = [op |-> "first", on |-> r[i].on]
        BY <2>4, <3>1
      <4>2. j \in 1 .. Len(q) /\ Len(p) + j \in DOMAIN r /\ Len(p) + j > i
        BY <1>2, <1>d, <2>1, <4>1
      <4> QED BY <1>2, <4>1, <4>2
    <3>2. CASE r[i].on \notin S
      <4>1. PICK j \in DOMAIN p : j > i /\ p[j] = [op |-> "first", on |-> p[i].on]
        BY <1>1, <2>1, <2>4, <3>2 DEF Filled
      <4>2. j \in 1 .. Len(p) /\ j \in DOMAIN r
        BY <1>2, <1>d, <4>1
      <4> QED BY <1>2, <2>1, <4>1, <4>2
    <3> QED BY <3>1, <3>2
  <2> QED BY <2>2, <2>3, <2>4
<1>4. ASSUME NEW k \in DOMAIN q, NEW i, i = Len(p) + k
      PROVE  /\ r[i].op = "first" => i + 1 \in DOMAIN r /\ r[i + 1] = [op |-> "rest", on |-> r[i].on]
             /\ r[i].op = "rest" => i > 1 /\ r[i - 1] = [op |-> "first", on |-> r[i].on]
             /\ r[i].op = "zero" /\ r[i].on \notin T =>
                  \E j \in DOMAIN r : j > i /\ r[j] = [op |-> "first", on |-> r[i].on]
  <2>1. r[i] = q[k] /\ k \in 1 .. Len(q)
    BY <1>2, <1>4, <1>d
  <2>2. ASSUME r[i].op = "first"
        PROVE  i + 1 \in DOMAIN r /\ r[i + 1] = [op |-> "rest", on |-> r[i].on]
    <3>1. k + 1 \in DOMAIN q /\ q[k + 1] = [op |-> "rest", on |-> q[k].on]
      BY <1>1, <2>1, <2>2 DEF Filled
    <3>2. k + 1 \in 1 .. Len(q) /\ i + 1 = Len(p) + (k + 1) /\ i + 1 \in DOMAIN r
      BY <1>2, <1>4, <1>d, <2>1, <3>1
    <3> QED BY <1>2, <2>1, <3>1, <3>2
  <2>3. ASSUME r[i].op = "rest"
        PROVE  i > 1 /\ r[i - 1] = [op |-> "first", on |-> r[i].on]
    <3>1. k > 1 /\ q[k - 1] = [op |-> "first", on |-> q[k].on]
      BY <1>1, <2>1, <2>3 DEF Filled
    <3>2. k \in 1 .. Len(q) /\ k > 1 /\ Len(p) \in Nat /\ Len(q) \in Nat /\ i = Len(p) + k
      BY <1>2, <1>4, <2>1, <3>1, Zenon
    <3>3. k - 1 \in 1 .. Len(q) /\ i - 1 = Len(p) + (k - 1) /\ i > 1
      BY <3>2
    <3> QED BY <1>2, <2>1, <3>1, <3>3
  <2>4. ASSUME r[i].op = "zero", r[i].on \notin T
        PROVE  \E j \in DOMAIN r : j > i /\ r[j] = [op |-> "first", on |-> r[i].on]
    <3>1. PICK j \in DOMAIN q : j > k /\ q[j] = [op |-> "first", on |-> q[k].on]
      BY <1>1, <2>1, <2>4 DEF Filled
    <3>2. j \in 1 .. Len(q) /\ Len(p) + j \in DOMAIN r /\ Len(p) + j > i
      BY <1>2, <1>4, <1>d, <2>1, <3>1
    <3> QED BY <1>2, <2>1, <3>1, <3>2
  <2> QED BY <2>2, <2>3, <2>4
<1>5. ASSUME NEW i \in DOMAIN r, i \notin DOMAIN p
      PROVE i - Len(p) \in DOMAIN q /\ i = Len(p) + (i - Len(p))
  BY <1>2, <1>d, <1>5
<1>6. Filled(T, r)
  BY <1>3, <1>4, <1>5 DEF Filled
<1> QED BY <1>2, <1>6 DEF Fills, r

LEMMA FillsOps ==
  /\ \A g \in AllGroups :
       /\ Zero(g) \in Fills({g})
       /\ Fields(g) \in Fills({}) /\ \E j \in DOMAIN Fields(g) : Fields(g)[j] = [op |-> "first", on |-> g]
       /\ Field(g) \in Fills({}) /\ camera_control(g) \in Fills({})
  /\ \A fn \in {"silent", "wifi", "reboot"} : StartAudioPlay(fn) \in Fills({})
  /\ ConfigOk \in Fills({}) /\ SetRebootCgi \in Fills({}) /\ RemoveFile \in Fills({})
  /\ SetUpdateFlag \in Fills({}) /\ NoteSaveSem \in Fills({}) /\ <<>> \in Fills({})
<1>1. ASSUME NEW r, <<r>> \in Seq(Steps), r.op \notin {"zero", "first", "rest"}
      PROVE  <<r>> \in Fills({})
  BY <1>1 DEF Fills, Filled
<1>2. ASSUME NEW o, NEW g, Op(o, g) \in Seq(Steps), o \notin {"zero", "first", "rest"}
      PROVE  Op(o, g) \in Fills({})
  BY <1>1, <1>2 DEF Op
<1>3. ASSUME NEW g \in AllGroups
      PROVE  /\ Zero(g) \in Fills({g})
             /\ Fields(g) \in Fills({})
             /\ \E j \in DOMAIN Fields(g) : Fields(g)[j] = [op |-> "first", on |-> g]
  <2>1. Zero(g) \in Seq(Steps) /\ Fields(g) \in Seq(Steps)
    BY OpSteps
  <2>2. Zero(g) \in Fills({g})
    <3>1. Len(Zero(g)) = 1 /\ Zero(g)[1] = [op |-> "zero", on |-> g]
      BY DEF Zero, Op
    <3> QED BY <2>1, <3>1 DEF Fills, Filled
  <2>3. /\ DOMAIN Fields(g) = 1 .. 2
        /\ Fields(g)[1] = [op |-> "first", on |-> g] /\ Fields(g)[2] = [op |-> "rest", on |-> g]
    BY DEF Fields, Op
  <2> QED BY <2>1, <2>2, <2>3 DEF Fills, Filled
<1>4. \A g \in AllGroups : Field(g) \in Fills({}) /\ camera_control(g) \in Fills({})
  BY <1>2, OpSteps DEF Field, camera_control
<1>5. \A fn \in {"silent", "wifi", "reboot"} : StartAudioPlay(fn) \in Fills({})
  BY <1>2, OpSteps DEF StartAudioPlay
<1>6. /\ SetRebootCgi \in Fills({}) /\ RemoveFile \in Fills({}) /\ SetUpdateFlag \in Fills({})
      /\ NoteSaveSem \in Fills({})
  BY <1>2, OpSteps DEF SetRebootCgi, RemoveFile, SetUpdateFlag, NoteSaveSem
<1>7. <<>> \in Fills({})
  BY DEF Fills, Filled
<1> QED BY <1>3, <1>4, <1>5, <1>6, <1>7 DEF ConfigOk

\* What may come behind a run.
LEMMA FillsMore ==
  ASSUME NEW S, NEW p \in Fills(S)
  PROVE  /\ \A q \in Fills({}) : p \o q \in Fills(S)
         /\ \A g \in AllGroups : p \o Zero(g) \in Fills(S \cup {g})
         /\ \A g \in AllGroups : p \o Fields(g) \in Fills(S \ {g})
<1>1. ASSUME NEW q \in Fills({}) PROVE p \o q \in Fills(S)
  BY FillsJoin
<1>2. ASSUME NEW g \in AllGroups PROVE p \o Zero(g) \in Fills(S \cup {g})
  <2>1. Zero(g) \in Fills({g})
    BY FillsOps
  <2>2. {g} \subseteq S \cup {g} /\ S \ (S \cup {g}) = {}
    OBVIOUS
  <2> QED BY <2>1, <2>2, FillsJoin
<1>3. ASSUME NEW g \in AllGroups PROVE p \o Fields(g) \in Fills(S \ {g})
  <2>1. /\ Fields(g) \in Fills({})
        /\ \E j \in DOMAIN Fields(g) : Fields(g)[j] = [op |-> "first", on |-> g]
    BY FillsOps
  <2>2. S \ (S \ {g}) \subseteq {g}
    OBVIOUS
  <2> QED BY <2>1, <2>2, FillsJoin
<1> QED BY <1>1, <1>2, <1>3

\* Zero(g) and Fields(g) in the orders the handlers have them.
LEMMA FillsZero ==
  ASSUME NEW g \in AllGroups, NEW S, NEW p \in Fills(S)
  PROVE  (p \o Zero(g)) \o Fields(g) \in Fills(S)
<1>1. (p \o Zero(g)) \o Fields(g) \in Fills((S \cup {g}) \ {g})
  BY FillsMore, Zenon
<1>2. Fills((S \cup {g}) \ {g}) \subseteq Fills(S)
  BY DEF Fills, Filled
<1> QED BY <1>1, <1>2

LEMMA FillsZeroFirst ==
  ASSUME NEW g \in AllGroups PROVE Zero(g) \o Fields(g) \in Fills({})
<1>1. Zero(g) \in Fills({g}) /\ {g} \ {g} = {}
  BY FillsOps
<1> QED BY <1>1, FillsMore

LEMMA FillsAlarm ==
  Zero("Alarm") \o Zero("AlarmFlags") \o Fields("Alarm") \o Fields("AlarmFlags") \in Fills({})
<1> "Alarm" \in AllGroups /\ "AlarmFlags" \in AllGroups
  BY DEF AllGroups
<1>1. Zero("Alarm") \in Fills({"Alarm"})
  BY FillsOps
<1>2. Zero("Alarm") \o Zero("AlarmFlags") \in Fills({"Alarm"} \cup {"AlarmFlags"})
  BY <1>1, FillsMore
<1>3. Zero("Alarm") \o Zero("AlarmFlags") \o Fields("Alarm")
        \in Fills(({"Alarm"} \cup {"AlarmFlags"}) \ {"Alarm"})
  BY <1>2, FillsMore
<1>4. Zero("Alarm") \o Zero("AlarmFlags") \o Fields("Alarm") \o Fields("AlarmFlags")
        \in Fills((({"Alarm"} \cup {"AlarmFlags"}) \ {"Alarm"}) \ {"AlarmFlags"})
  BY <1>3, FillsMore
<1>5. (({"Alarm"} \cup {"AlarmFlags"}) \ {"Alarm"}) \ {"AlarmFlags"} = {}
  OBVIOUS
<1> QED BY <1>4, <1>5

LEMMA P2pFills == p2pcmdfind \subseteq Fills({})
<1> USE DEF AllGroups
<1>o. /\ \A p, q \in Fills({}) : p \o q \in Fills({})
      /\ \A p \in Fills({}), g \in AllGroups : (p \o Zero(g)) \o Fields(g) \in Fills({})
      /\ \A g \in AllGroups : Zero(g) \o Fields(g) \in Fills({})
  <2> HIDE DEF AllGroups
  <2> QED BY FillsMore, FillsZero, FillsZeroFirst
<1>z. /\ Zero("Net") \o Fields("Net") \in Fills({}) /\ Zero("Ddns") \o Fields("Ddns") \in Fills({})
      /\ Zero("Ftp") \o Fields("Ftp") \in Fills({})
      /\ ConfigOk \o Zero("Mail") \o Fields("Mail") \in Fills({})
  BY <1>o, FillsOps
<1>1. /\ p2psetirgpio \subseteq Fills({}) /\ p2psetalarm \subseteq Fills({})
      /\ p2psetusers \subseteq Fills({}) /\ p2psetalias \subseteq Fills({})
  BY <1>o, FillsOps, FillsAlarm DEF p2psetirgpio, p2psetalarm, p2psetusers, p2psetalias
<1>2. /\ p2psetmail \subseteq Fills({}) /\ p2psetwifi \subseteq Fills({})
      /\ p2psetddns \subseteq Fills({})
  BY <1>o, <1>z, FillsOps DEF p2psetmail, p2psetwifi, p2psetddns
<1>3. /\ p2psetmisc \subseteq Fills({}) /\ p2psetnetwork \subseteq Fills({})
      /\ p2psetdns \subseteq Fills({}) /\ p2psetftp \subseteq Fills({})
  BY <1>o, <1>z, FillsOps DEF p2psetmisc, p2psetnetwork, p2psetdns, p2psetftp
<1>4. /\ p2pSetRecordSchedue \subseteq Fills({}) /\ p2pcameracontrol \subseteq Fills({})
      /\ p2preboot \subseteq Fills({}) /\ P2PSetBellTime \subseteq Fills({})
  BY <1>o, FillsOps DEF p2pSetRecordSchedue, p2pcameracontrol, p2preboot, P2PSetBellTime
<1>5. /\ P2PSetBellConfig \subseteq Fills({}) /\ P2PSetLockConfig \subseteq Fills({})
      /\ P2PSetPinConfig \subseteq Fills({}) /\ P2PSetAlarmConfig \subseteq Fills({})
  BY <1>o, FillsOps DEF P2PSetBellConfig, P2PSetLockConfig, P2PSetPinConfig, P2PSetAlarmConfig
<1>6. /\ P2PResetAlarmConfig \subseteq Fills({}) /\ P2PResetVideoConfig \subseteq Fills({})
      /\ P2PSetUserConfig \subseteq Fills({}) /\ P2PSetVideoConfig \subseteq Fills({})
  BY <1>o, FillsOps DEF P2PResetAlarmConfig, P2PResetVideoConfig, P2PSetUserConfig, P2PSetVideoConfig
<1> HIDE DEF AllGroups
<1> QED BY <1>1, <1>2, <1>3, <1>4, <1>5, <1>6 DEF p2pcmdfind

LEMMA CgiFills == CgiProcess \subseteq Fills({})
<1> USE DEF AllGroups
<1>o. /\ \A p, q \in Fills({}) : p \o q \in Fills({})
      /\ \A g \in AllGroups : Zero(g) \o Fields(g) \in Fills({})
  <2> HIDE DEF AllGroups
  <2> QED BY FillsMore, FillsZeroFirst
<1>1. /\ cgisetalias \subseteq Fills({}) /\ cgisetdate \subseteq Fills({})
      /\ cgisetnetwork \subseteq Fills({}) /\ cgisetpppoe \subseteq Fills({})
  BY <1>o, FillsOps DEF cgisetalias, cgisetdate, cgisetnetwork, cgisetpppoe
<1>2. /\ cgisetupnp \subseteq Fills({}) /\ cgisetddns \subseteq Fills({})
      /\ cgisetmail \subseteq Fills({}) /\ cgisetftp \subseteq Fills({})
  BY <1>o, FillsOps DEF cgisetupnp, cgisetddns, cgisetmail, cgisetftp
<1>3. /\ cgisetrtsp \subseteq Fills({}) /\ cgisetalarm \subseteq Fills({})
      /\ cgisetmedia \subseteq Fills({}) /\ cgisetrecordsch \subseteq Fills({})
  BY <1>o, FillsOps, FillsAlarm DEF cgisetrtsp, cgisetalarm, cgisetmedia, cgisetrecordsch
<1>4. /\ cgisetmisc \subseteq Fills({}) /\ cgisetuser \subseteq Fills({})
      /\ cgisetgpioir \subseteq Fills({}) /\ cgisetwifi \subseteq Fills({})
  BY <1>o, FillsOps DEF cgisetmisc, cgisetuser, cgisetgpioir, cgisetwifi
<1>5. cgisetsyswifi \subseteq Fills({}) /\ cgisetcamcontrol \subseteq Fills({})
  BY <1>o, FillsOps DEF cgisetsyswifi, cgisetcamcontrol
<1>6. /\ cgisetrestore \subseteq Fills({}) /\ cgisetreboot \subseteq Fills({})
      /\ cgiupgradeapp \subseteq Fills({}) /\ cgiupgradesys \subseteq Fills({})
  BY FillsOps DEF cgisetrestore, cgisetreboot, cgiupgradeapp, cgiupgradesys
<1> HIDE DEF AllGroups
<1>7. {p \o NoteSaveSem : p \in CgiRuns} \subseteq Fills({})
  <2>1. CgiRuns \subseteq Fills({})
    BY <1>1, <1>2, <1>3, <1>4, <1>5 DEF CgiRuns
  <2> QED BY <1>o, <2>1, FillsOps
<1>8. CASE updateflag
  BY <1>6, <1>8 DEF CgiProcess
<1>9. CASE ~updateflag
  BY <1>6, <1>7, <1>9 DEF CgiProcess, CgiRuns
<1> QED BY <1>8, <1>9

LEMMA CallsFill == ASSUME NEW t \in Setters PROVE Calls(t) \subseteq Fills({})
BY P2pFills, CgiFills DEF Calls, Setters

\* What a handler has left of such a run: it may be between the two fields.
Half(pair) == pair[1] # pair[2] \/ pair[1] = Cleared
Left(p) ==
  \A i \in DOMAIN p :
    /\ p[i].op = "first" => i + 1 \in DOMAIN p /\ p[i + 1] = [op |-> "rest", on |-> p[i].on]
    /\ p[i].op = "rest" /\ i > 1 => p[i - 1] = [op |-> "first", on |-> p[i].on]
    /\ p[i].op = "zero" => \E j \in DOMAIN p : j > i /\ p[j] = [op |-> "first", on |-> p[i].on]

Sets(p, g) == \E i \in DOMAIN p : p[i].on = g /\ p[i].op \in {"first", "rest"}

LEMMA FillsLeft ==
  ASSUME NEW p \in Fills({}) PROVE Left(p) /\ (p # <<>> => Head(p).op # "rest")
<1>1. p \in Seq(Steps) /\ Filled({}, p)
  BY DEF Fills
<1>2. Left(p)
  BY <1>1 DEF Filled, Left
<1>3. p # <<>> => Head(p) = p[1] /\ 1 \in DOMAIN p
  BY <1>1
<1>4. 1 \in DOMAIN p => p[1].op # "rest"
  <2>1. ~(1 > 1)
    OBVIOUS
  <2> QED BY <1>1, <2>1, Zenon DEF Filled
<1> QED BY <1>2, <1>3, <1>4

LEMMA LeftTail ==
  ASSUME NEW p \in Seq(Steps), Left(p), p # <<>>
  PROVE  /\ Left(Tail(p))
         /\ Head(p).op = "first" => Tail(p) # <<>> /\ Head(Tail(p)) = [op |-> "rest", on |-> Head(p).on]
         /\ Tail(p) # <<>> /\ Head(Tail(p)).op = "rest" =>
              Head(p) = [op |-> "first", on |-> Head(Tail(p)).on]
         /\ Head(p).op \in {"zero", "first"} => Sets(Tail(p), Head(p).on)
         /\ \A g : Sets(p, g) /\ g # Head(p).on => Sets(Tail(p), g)
         /\ Targets(Tail(p)) \subseteq Targets(p)
         /\ Head(p).on \in Groups => Head(p).on \in Targets(p)
<1> DEFINE q == Tail(p)
<1>1. /\ q \in Seq(Steps) /\ Len(q) = Len(p) - 1 /\ Len(p) > 0 /\ Len(p) \in Nat
      /\ DOMAIN p = 1 .. Len(p) /\ DOMAIN q = 1 .. Len(p) - 1
      /\ \A i \in DOMAIN q : q[i] = p[i + 1] /\ i + 1 \in DOMAIN p
      /\ Head(p) = p[1] /\ 1 \in DOMAIN p
  OBVIOUS
<1>2. q # <<>> => Head(q) = p[2] /\ 2 \in DOMAIN p
  BY <1>1
<1> HIDE DEF q
<1>n. q = <<>> => Len(p) = 1
  <2>1. q = <<>> => Len(q) = 0
    OBVIOUS
  <2> QED BY <1>1, <2>1
<1>3. ASSUME NEW j \in DOMAIN p, j > 1 PROVE j - 1 \in DOMAIN q /\ q[j - 1] = p[j]
  BY <1>1, <1>3
<1>4. ASSUME NEW i \in DOMAIN q
      PROVE  /\ q[i].op = "first" => i + 1 \in DOMAIN q /\ q[i + 1] = [op |-> "rest", on |-> q[i].on]
             /\ q[i].op = "rest" /\ i > 1 => q[i - 1] = [op |-> "first", on |-> q[i].on]
             /\ q[i].op = "zero" =>
                  \E j \in DOMAIN q : j > i /\ q[j] = [op |-> "first", on |-> q[i].on]
  <2>1. q[i] = p[i + 1] /\ i + 1 \in DOMAIN p /\ i \in Nat /\ i >= 1
    BY <1>1
  <2>2. ASSUME q[i].op = "first"
        PROVE  i + 1 \in DOMAIN q /\ q[i + 1] = [op |-> "rest", on |-> q[i].on]
    <3>1. (i + 1) + 1 \in DOMAIN p /\ p[(i + 1) + 1] = [op |-> "rest", on |-> p[i + 1].on]
      BY <2>1, <2>2 DEF Left
    <3>2. i + 1 \in DOMAIN q /\ q[i + 1] = p[(i + 1) + 1]
      BY <1>1, <2>1, <3>1
    <3> QED BY <2>1, <3>1, <3>2
  <2>3. ASSUME q[i].op = "rest", i > 1 PROVE q[i - 1] = [op |-> "first", on |-> q[i].on]
    <3>1. i + 1 > 1 /\ (i + 1) - 1 = i /\ i - 1 \in DOMAIN q
      BY <1>1, <2>1, <2>3
    <3>2. p[i] = [op |-> "first", on |-> p[i + 1].on]
      BY <2>1, <2>3, <3>1 DEF Left
    <3>3. q[i - 1] = p[i]
      BY <1>1, <2>1, <3>1
    <3> QED BY <2>1, <3>2, <3>3
  <2>4. ASSUME q[i].op = "zero"
        PROVE  \E j \in DOMAIN q : j > i /\ q[j] = [op |-> "first", on |-> q[i].on]
    <3>1. PICK j \in DOMAIN p : j > i + 1 /\ p[j] = [op |-> "first", on |-> p[i + 1].on]
      BY <2>1, <2>4 DEF Left
    <3>2. j - 1 \in DOMAIN q /\ q[j - 1] = p[j] /\ j - 1 > i
      BY <1>1, <1>3, <2>1, <3>1
    <3> QED BY <2>1, <3>1, <3>2
  <2> QED BY <2>2, <2>3, <2>4
<1>5. Left(q)
  BY <1>4 DEF Left
<1>6. Head(p).op = "first" => q # <<>> /\ Head(q) = [op |-> "rest", on |-> Head(p).on]
  <2>1. ASSUME p[1].op = "first" PROVE 1 + 1 \in DOMAIN p /\ p[1 + 1] = [op |-> "rest", on |-> p[1].on]
    BY <1>1, <2>1, Zenon DEF Left
  <2>2. 1 + 1 = 2
    OBVIOUS
  <2>3. 2 \in DOMAIN p => q # <<>>
    BY <1>1, <1>n
  <2> QED BY <1>1, <1>2, <2>1, <2>2, <2>3
<1>7. q # <<>> /\ Head(q).op = "rest" => Head(p) = [op |-> "first", on |-> Head(q).on]
  <2>1. 2 - 1 = 1 /\ 2 > 1
    OBVIOUS
  <2> QED BY <1>1, <1>2, <2>1 DEF Left
<1>8. Head(p).op \in {"zero", "first"} => Sets(q, Head(p).on)
  <2>1. ASSUME p[1].op = "zero" PROVE Sets(q, p[1].on)
    <3>1. PICK j \in DOMAIN p : j > 1 /\ p[j] = [op |-> "first", on |-> p[1].on]
      BY <1>1, <2>1 DEF Left
    <3>2. j - 1 \in DOMAIN q /\ q[j - 1] = [op |-> "first", on |-> p[1].on]
      BY <1>3, <3>1
    <3> QED BY <3>2 DEF Sets
  <2>2. ASSUME p[1].op = "first" PROVE Sets(q, p[1].on)
    <3>1. q # <<>> /\ Head(q) = [op |-> "rest", on |-> p[1].on]
      BY <1>1, <1>6, <2>2
    <3>2. 1 \in DOMAIN q /\ Head(q) = q[1]
      BY <1>1, <3>1
    <3> QED BY <3>1, <3>2 DEF Sets
  <2> QED BY <1>1, <2>1, <2>2
<1>9. \A g : Sets(p, g) /\ g # Head(p).on => Sets(q, g)
  <2>1. ASSUME NEW g, g # Head(p).on, NEW i \in DOMAIN p, p[i].on = g, p[i].op \in {"first", "rest"}
        PROVE  Sets(q, g)
    <3>1. i > 1
      BY <1>1, <2>1
    <3>2. i - 1 \in DOMAIN q /\ q[i - 1] = p[i]
      BY <1>3, <3>1
    <3> QED BY <2>1, <3>2 DEF Sets
  <2> QED BY <2>1 DEF Sets
<1>10. Targets(q) \subseteq Targets(p) /\ (Head(p).on \in Groups => Head(p).on \in Targets(p))
  BY <1>1 DEF Targets
<1> QED BY <1>5, <1>6, <1>7, <1>8, <1>9, <1>10 DEF q

LEMMA Concatenated ==
  ASSUME NEW p \in Seq(Steps), NEW q \in Seq(Steps)
  PROVE  /\ p \o q \in Seq(Steps) /\ Len(p \o q) = Len(p) + Len(q)
         /\ \A i \in 1 .. Len(p) : (p \o q)[i] = p[i]
         /\ \A i \in 1 .. Len(q) : (p \o q)[Len(p) + i] = q[i]
         /\ Len(p) \in Nat /\ Len(q) \in Nat
OBVIOUS

LEMMA FrontStep ==
  ASSUME NEW o \in Seq(Steps), NEW r \in Seq(Steps), Len(o) = 1
  PROVE  /\ DOMAIN (o \o r) = 1 .. 1 + Len(r) /\ (o \o r)[1] = o[1]
         /\ \A i \in 1 .. 1 + Len(r) : i > 1 => (o \o r)[i] = r[i - 1]
<1> DEFINE c == o \o r
<1>1. /\ c \in Seq(Steps) /\ Len(c) = Len(o) + Len(r)
      /\ \A i \in 1 .. Len(o) : c[i] = o[i]
      /\ \A i \in 1 .. Len(r) : c[Len(o) + i] = r[i]
      /\ Len(r) \in Nat
  BY Concatenated, Zenon
<1> HIDE DEF c
<1>2. DOMAIN c = 1 .. 1 + Len(r) /\ c[1] = o[1]
  BY <1>1
<1>3. ASSUME NEW i \in 1 .. 1 + Len(r), i > 1 PROVE c[i] = r[i - 1]
  <2>1. i - 1 \in 1 .. Len(r) /\ Len(o) + (i - 1) = i
    BY <1>1, <1>3
  <2> QED BY <1>1, <2>1
<1> QED BY <1>2, <1>3 DEF c

\* camera_control comes back to the structure when it finds no other at work.
LEMMA LeftTake ==
  ASSUME NEW p \in Seq(Steps), Left(p), p # <<>>, Head(p).op = "camera",
         NEW q, q = Op("take", Head(p).on) \o Tail(p)
  PROVE  /\ Left(q) /\ q # <<>> /\ Head(q).op = "take" /\ Targets(q) = Targets(p)
         /\ \A g : Sets(p, g) => Sets(q, g)
<1>1. /\ DOMAIN p = 1 .. Len(p) /\ Len(p) \in Nat /\ Len(p) > 0
      /\ Tail(p) \in Seq(Steps) /\ Len(Tail(p)) = Len(p) - 1 /\ Head(p) = p[1]
      /\ \A i \in 1 .. Len(p) - 1 : Tail(p)[i] = p[i + 1]
  OBVIOUS
<1>2. /\ DOMAIN q = DOMAIN p /\ q[1] = [op |-> "take", on |-> p[1].on]
      /\ \A i \in DOMAIN p : i > 1 => q[i] = p[i]
  <2> DEFINE o == Op("take", Head(p).on)
  <2>1. o = <<[op |-> "take", on |-> p[1].on]>>
    BY <1>1 DEF Op
  <2>2. Len(o) = 1 /\ o[1] = [op |-> "take", on |-> p[1].on]
    BY <2>1
  <2>s. o \in Seq(Steps)
    <3>1. p[1] \in Steps
      BY <1>1
    <3>2. p[1].on \in AllGroups \cup {"-"}
      BY <1>1, <3>1 DEF Steps
    <3> QED BY <1>1, <3>2, OpSteps
  <2> HIDE DEF o
  <2> DEFINE r == Tail(p)
  <2>r. r = Tail(p)
    OBVIOUS
  <2> HIDE DEF r
  <2>3. /\ DOMAIN (o \o r) = 1 .. 1 + Len(r) /\ (o \o r)[1] = o[1]
        /\ \A i \in 1 .. 1 + Len(r) : i > 1 => (o \o r)[i] = r[i - 1]
    BY <1>1, <2>s, <2>r, <2>2, FrontStep, Zenon
  <2>4. q = o \o r
    BY <2>r DEF o
  <2>5. \A i \in DOMAIN p : i > 1 => r[i - 1] = p[i]
    <3>1. ASSUME NEW i \in 1 .. Len(p), i > 1 PROVE Tail(p)[i - 1] = p[i]
      <4>1. i - 1 \in 1 .. Len(p) - 1 /\ (i - 1) + 1 = i
        BY <1>1, <3>1
      <4> QED BY <1>1, <4>1
    <3> QED BY <1>1, <2>r, <3>1
  <2>6. 1 .. 1 + Len(r) = 1 .. Len(p)
    BY <1>1, <2>r
  <2> QED BY <1>1, <2>2, <2>3, <2>4, <2>5, <2>6
<1>3. ASSUME NEW i \in DOMAIN q
      PROVE  /\ q[i].op = "first" => i + 1 \in DOMAIN q /\ q[i + 1] = [op |-> "rest", on |-> q[i].on]
             /\ q[i].op = "rest" /\ i > 1 => q[i - 1] = [op |-> "first", on |-> q[i].on]
             /\ q[i].op = "zero" =>
                  \E j \in DOMAIN q : j > i /\ q[j] = [op |-> "first", on |-> q[i].on]
  <2>1. CASE i = 1
    BY <1>2, <2>1
  <2>2. CASE i > 1
    <3>1. q[i] = p[i] /\ i \in DOMAIN p
      BY <1>2, <2>2
    <3>2. q[i].op = "first" => i + 1 \in DOMAIN q /\ q[i + 1] = [op |-> "rest", on |-> q[i].on]
      <4>1. i + 1 > 1
        BY <1>1, <3>1
      <4> QED BY <1>2, <3>1, <4>1 DEF Left
    <3>3. q[i].op = "rest" => q[i - 1] = [op |-> "first", on |-> q[i].on]
      <4>1. ASSUME q[i].op = "rest" PROVE q[i - 1] = [op |-> "first", on |-> q[i].on]
        <5>1. p[i - 1] = [op |-> "first", on |-> p[i].on]
          BY <2>2, <3>1, <4>1 DEF Left
        <5>2. i - 1 \in DOMAIN p
          BY <1>1, <2>2, <3>1
        <5>3. i - 1 # 1
          BY <1>1, <5>1
        <5>4. i - 1 > 1
          BY <1>1, <5>2, <5>3
        <5> QED BY <1>2, <3>1, <5>1, <5>2, <5>4
      <4> QED BY <4>1
    <3>4. ASSUME q[i].op = "zero"
          PROVE  \E j \in DOMAIN q : j > i /\ q[j] = [op |-> "first", on |-> q[i].on]
      <4>1. PICK j \in DOMAIN p : j > i /\ p[j] = [op |-> "first", on |-> p[i].on]
        BY <3>1, <3>4 DEF Left
      <4>2. j > 1
        BY <1>1, <2>2, <3>1, <4>1
      <4> QED BY <1>2, <3>1, <4>1, <4>2
    <3> QED BY <3>2, <3>3, <3>4
  <2>3. i = 1 \/ i > 1
    BY <1>1, <1>2
  <2> QED BY <2>1, <2>2, <2>3
<1>4. Left(q)
  BY <1>3 DEF Left
<1>5. \A i \in DOMAIN p : q[i].on = p[i].on
  <2>1. ASSUME NEW i \in DOMAIN p PROVE i = 1 \/ i > 1
    BY <1>1
  <2> QED BY <1>2, <2>1
<1>6. Targets(q) = Targets(p)
  BY <1>2, <1>5 DEF Targets
<1>7. \A g : Sets(p, g) => Sets(q, g)
  <2>1. ASSUME NEW g, NEW i \in DOMAIN p, p[i].on = g, p[i].op \in {"first", "rest"} PROVE Sets(q, g)
    <3>1. i # 1
      BY <1>1, <2>1
    <3>2. i > 1
      BY <1>1, <3>1
    <3> QED BY <1>2, <2>1, <3>2 DEF Sets
  <2> QED BY <2>1 DEF Sets
<1>8. q # <<>> /\ Head(q) = q[1]
  <2>1. q # <<>>
    BY <1>1, <1>2
  <2> QED BY <2>1
<1> QED BY <1>2, <1>4, <1>6, <1>7, <1>8

\* Each structure is being set by one handler at most, which has put its own value into the
\* first field when it comes to the rest; and a structure that is half set has a handler
\* that goes on to set it.
RunsLeft == \A t \in Setters : Left(todo[t]) /\ value[t] >= 0
OneEach ==
  \A t, u \in Setters : t # u => Targets(todo[t]) \cap Targets(todo[u]) \subseteq mixed
FirstSet ==
  \A t \in Setters : \A g \in Groups \ mixed :
    todo[t] # <<>> /\ Head(todo[t]) = [op |-> "rest", on |-> g] => bparam[g][1] = value[t]
SetBy(t, g) == Sets(todo[t], g) /\ (g \in NeverSaved(t) => g \in forgotten)
HalfIsSet == \A g \in Groups \ mixed : Half(bparam[g]) => \E t \in Setters : SetBy(t, g)
Unlinked == \A s \in Savers : saving[s] = "unlinked" => fileState = "missing"

HalfInv == RunsLeft /\ OneEach /\ FirstSet /\ HalfIsSet /\ Unlinked /\ HalfIsTransient

\* A handler that has made a step.
LEMMA RunsDone ==
  ASSUME TypeOK, RunsLeft, OneEach, NEW t \in Setters, todo[t] # <<>>, Done(t), mixed' = mixed
  PROVE  /\ RunsLeft' /\ OneEach'
         /\ todo'[t] = Tail(todo[t]) /\ (todo'[t] # <<>> => value'[t] = value[t])
         /\ \A u \in Setters : u # t => todo'[u] = todo[u] /\ value'[u] = value[u]
<1>1. /\ todo'[t] = Tail(todo[t]) /\ (todo'[t] # <<>> => value'[t] = value[t])
      /\ value'[t] >= 0
      /\ \A u \in Setters : u # t => todo'[u] = todo[u] /\ value'[u] = value[u]
  <2>1. todo'[t] = Tail(todo[t]) /\ \A u \in Setters : u # t => todo'[u] = todo[u]
    BY DEF Done, TypeOK
  <2>2. /\ value'[t] = (IF Tail(todo[t]) = <<>> THEN Default ELSE value[t])
        /\ \A u \in Setters : u # t => value'[u] = value[u]
    BY DEF Done, TypeOK
  <2>3. value[t] >= 0 /\ Default >= 0
    BY DEF RunsLeft, Default
  <2> QED BY <2>1, <2>2, <2>3
<1>2. todo[t] \in Seq(Steps) /\ Left(todo[t])
  BY DEF TypeOK, RunsLeft
<1>3. Left(Tail(todo[t])) /\ Targets(Tail(todo[t])) \subseteq Targets(todo[t])
  BY <1>2, LeftTail
<1>4. RunsLeft'
  BY <1>1, <1>3 DEF RunsLeft
<1>5. \A u \in Setters : Targets(todo'[u]) \subseteq Targets(todo[u])
  BY <1>1, <1>3
<1>6. OneEach'
  BY <1>5 DEF OneEach
<1> QED BY <1>1, <1>4, <1>6

\* A step of a handler that assigns nothing.
LEMMA IdleDone ==
  ASSUME TypeOK, HalfInv, NEW t \in Setters, todo[t] # <<>>, Done(t),
         Head(todo[t]).op \notin Assigns, bparam' = bparam, mixed' = mixed,
         forgotten' = forgotten
  PROVE  RunsLeft' /\ OneEach' /\ FirstSet' /\ HalfIsSet'
<1> USE DEF HalfInv
<1>1. /\ RunsLeft' /\ OneEach' /\ todo'[t] = Tail(todo[t])
      /\ \A u \in Setters : u # t => todo'[u] = todo[u] /\ value'[u] = value[u]
  BY RunsDone
<1>2. /\ todo'[t] # <<>> => Head(todo'[t]).op # "rest"
      /\ \A g : Sets(todo[t], g) => Sets(todo'[t], g)
  <2>1. todo[t] \in Seq(Steps) /\ Left(todo[t])
    BY DEF TypeOK, RunsLeft
  <2>2. /\ Tail(todo[t]) # <<>> /\ Head(Tail(todo[t])).op = "rest" => Head(todo[t]).op = "first"
        /\ \A g : Sets(todo[t], g) /\ g # Head(todo[t]).on => Sets(Tail(todo[t]), g)
    BY <2>1, LeftTail
  <2>3. \A g : Sets(todo[t], g) => Sets(Tail(todo[t]), g)
    <3>1. ASSUME NEW i \in DOMAIN todo[t], todo[t][i].op \in {"first", "rest"}
          PROVE  i - 1 \in DOMAIN Tail(todo[t]) /\ Tail(todo[t])[i - 1] = todo[t][i]
      <4>1. i # 1
        BY <2>1, <3>1 DEF Assigns
      <4> QED BY <2>1, <4>1
    <3> QED BY <3>1 DEF Sets
  <2> QED BY <1>1, <2>2, <2>3 DEF Assigns
<1>3. FirstSet'
  <2>1. ASSUME NEW u \in Setters, NEW g \in Groups \ mixed, todo'[u] # <<>>,
               Head(todo'[u]) = [op |-> "rest", on |-> g]
        PROVE  bparam[g][1] = value'[u]
    <3>1. Head(todo'[u]).op = "rest"
      BY <2>1
    <3>2. u # t
      BY <1>2, <2>1, <3>1
    <3> QED BY <1>1, <2>1, <3>2 DEF FirstSet
  <2> QED BY <2>1 DEF FirstSet
<1>4. HalfIsSet'
  <2>1. ASSUME NEW g \in Groups \ mixed, NEW u \in Setters, SetBy(u, g) PROVE SetBy(u, g)'
    BY <1>1, <1>2, <2>1 DEF SetBy, NeverSaved
  <2> QED BY <2>1 DEF HalfIsSet
<1> QED BY <1>1, <1>3, <1>4

LEMMA StillDue ==
  ASSUME TypeOK, SavedInv, NEW t \in Setters, todo[t] # <<>>, Done(t),
         savesem' = savesem, saving'["saver"] = saving["saver"] \/ saving'["saver"] # "no",
         Head(todo[t]).op # "post"
  PROVE  SaveDue => SaveDue'
<1>1. SaveDue <=> savesem > 0 \/ saving["saver"] # "no" \/ \E u \in Setters : HasPost(todo[u])
  BY DEF SaveDue, HasPost
<1>2. SaveDue' <=> savesem' > 0 \/ saving'["saver"] # "no" \/ \E u \in Setters : HasPost(todo'[u])
  BY DEF SaveDue, HasPost
<1>3. \A u \in Setters : HasPost(todo[u]) => HasPost(todo'[u])
  BY SavedDone
<1> QED BY <1>1, <1>2, <1>3

\* A step that changes neither the memory nor the runs.
LEMMA OthersHalf ==
  ASSUME HalfInv, bparam' = bparam, todo' = todo, value' = value, mixed' = mixed,
         forgotten' = forgotten, Unlinked', HalfIsTransient'
  PROVE  HalfInv'
BY DEF HalfInv, RunsLeft, OneEach, FirstSet, HalfIsSet, SetBy, NeverSaved

LEMMA HalfInit == Init => HalfInv
<1> SUFFICES ASSUME Init PROVE HalfInv
  OBVIOUS
<1>1. /\ \A t \in Setters : todo[t] = <<>> /\ value[t] = 0
      /\ \A g \in Groups : bparam[g] = <<0, 0>>
      /\ fileState = "missing" /\ \A s \in Savers : saving[s] # "unlinked"
  BY DEF Init, Default, Defaults, Both, Savers
<1>2. \A t \in Setters : Left(todo[t]) /\ Targets(todo[t]) = {}
  BY <1>1 DEF Left, Targets
<1>3. RunsLeft /\ OneEach /\ FirstSet
  BY <1>1, <1>2 DEF RunsLeft, OneEach, FirstSet
<1>4. HalfIsSet
  BY <1>1 DEF HalfIsSet, Half, Cleared
<1> QED BY <1>1, <1>3, <1>4 DEF HalfInv, Unlinked, HalfIsTransient

LEMMA RestartHalf == ASSUME Restart PROVE HalfInv'
<1>1. /\ \A t \in Setters : todo'[t] = <<>> /\ value'[t] = 0
      /\ \A s \in Savers : saving'[s] # "unlinked"
      /\ mixed' = {g \in Groups : bparam'[g][1] # bparam'[g][2] \/ bparam'[g][1] = Cleared}
      /\ fileState' = "whole" => file' = bparam'
  BY DEF Restart, InitSystemParam, Default, Savers
<1>2. \A t \in Setters : Left(todo'[t]) /\ Targets(todo'[t]) = {}
  BY <1>1 DEF Left, Targets
<1>3. RunsLeft' /\ OneEach' /\ FirstSet'
  BY <1>1, <1>2 DEF RunsLeft, OneEach, FirstSet
<1>4. HalfIsSet'
  BY <1>1 DEF HalfIsSet, Half
<1>5. HalfIsTransient'
  BY <1>1 DEF HalfIsTransient
<1> QED BY <1>1, <1>3, <1>4, <1>5 DEF HalfInv, Unlinked

LEMMA HalfNext == FileInv /\ SavedInv /\ HalfInv /\ TypeOK' /\ [Next]_vars => HalfInv'
<1> SUFFICES ASSUME FileInv, SavedInv, HalfInv, TypeOK', [Next]_vars PROVE HalfInv'
  OBVIOUS
<1>t. TypeOK /\ RunsLeft /\ OneEach /\ FirstSet /\ HalfIsSet /\ Unlinked /\ HalfIsTransient
  BY DEF FileInv, HalfInv
<1>d. /\ SaveDue <=> savesem > 0 \/ saving["saver"] # "no" \/ \E u \in Setters : HasPost(todo[u])
      /\ SaveDue' <=> savesem' > 0 \/ saving'["saver"] # "no" \/ \E u \in Setters : HasPost(todo'[u])
  BY DEF SaveDue, HasPost
<1>1. ASSUME NEW t \in Setters, Call(t) PROVE HalfInv'
  <2>1. PICK p \in Calls(t) :
          /\ todo' = [todo EXCEPT ![t] = p]
          /\ mixed' = mixed \cup UNION {Targets(p) \cap Targets(todo[u]) : u \in Setters \ {t}}
    BY <1>1 DEF Call
  <2>2. /\ todo[t] = <<>> /\ value' = [value EXCEPT ![t] = sets + 1]
        /\ UNCHANGED <<bparam, fileState, file, saving, savesem, forgotten>>
    BY <1>1 DEF Call, store, saver
  <2>3. Left(p) /\ (p # <<>> => Head(p).op # "rest")
    BY CallsFill, FillsLeft
  <2>4. /\ todo'[t] = p /\ \A u \in Setters : u # t => todo'[u] = todo[u] /\ value'[u] = value[u]
        /\ value'[t] >= 0
    BY <1>t, <2>1, <2>2 DEF TypeOK
  <2>5. RunsLeft'
    BY <1>t, <2>3, <2>4 DEF RunsLeft
  <2>6. OneEach'
    <3>1. ASSUME NEW u \in Setters, u # t PROVE Targets(p) \cap Targets(todo[u]) \subseteq mixed'
      BY <2>1, <3>1
    <3> QED BY <1>t, <2>1, <2>4, <3>1 DEF OneEach
  <2>7. FirstSet'
    <3>1. ASSUME NEW u \in Setters, NEW g \in Groups \ mixed', todo'[u] # <<>>,
                 Head(todo'[u]) = [op |-> "rest", on |-> g]
          PROVE  bparam[g][1] = value'[u]
      <4>1. Head(todo'[u]).op = "rest"
        BY <3>1
      <4>2. u # t /\ g \in Groups \ mixed
        BY <2>1, <2>3, <2>4, <3>1, <4>1
      <4> QED BY <1>t, <2>4, <3>1, <4>2 DEF FirstSet
    <3> QED BY <2>2, <3>1 DEF FirstSet
  <2>8. HalfIsSet'
    <3>1. ASSUME NEW g \in Groups \ mixed, NEW u \in Setters, SetBy(u, g) PROVE SetBy(u, g)'
      <4>1. u # t
        BY <2>2, <3>1 DEF SetBy, Sets
      <4> QED BY <2>2, <2>4, <3>1, <4>1 DEF SetBy, NeverSaved
    <3> QED BY <1>t, <2>1, <2>2, <3>1 DEF HalfIsSet
  <2>9. HalfIsTransient'
    <3>1. SaveDue => SaveDue'
      <4>1. \A u \in Setters : HasPost(todo[u]) => u # t
        BY <2>2 DEF HasPost
      <4> QED BY <1>d, <2>2, <2>4, <4>1
    <3> QED BY <1>t, <2>1, <2>2, <3>1 DEF HalfIsTransient
  <2> QED BY <1>t, <2>2, <2>5, <2>6, <2>7, <2>8, <2>9 DEF HalfInv, Unlinked
<1>2. ASSUME NEW t \in Setters, Change(t) PROVE HalfInv'
  <2> DEFINE op == Head(todo[t]).op
             g == Head(todo[t]).on
  <2> DEFINE Given(pair) == /\ op = "first" => pair = <<value[t], bparam[g][2]>>
                            /\ op = "rest" => pair = <<bparam[g][1], value[t]>>
                            /\ op = "field" => pair = Both(value[t])
  <2>1. todo[t] # <<>> /\ op \in Assigns /\ \E pair : Assign(t, g, pair) /\ Given(pair)
    BY <1>2 DEF Change, Assigns
  <2>2. PICK pair : Assign(t, g, pair) /\ Given(pair)
    BY <2>1
  <2>3. /\ Done(t) /\ bparam' = [bparam EXCEPT ![g] = pair]
        /\ forgotten' = IF g \in NeverSaved(t) THEN forgotten \cup {g} ELSE forgotten \ {g}
        /\ UNCHANGED <<file, fileState, saving, savesem, mixed>>
    BY <2>2 DEF Assign, saver
  <2>4. /\ RunsLeft' /\ OneEach' /\ todo'[t] = Tail(todo[t])
        /\ todo'[t] # <<>> => value'[t] = value[t]
        /\ \A u \in Setters : u # t => todo'[u] = todo[u] /\ value'[u] = value[u]
    BY <1>t, <2>1, <2>3, RunsDone
  <2>5. /\ todo'[t] # <<>> /\ Head(todo'[t]).op = "rest" =>
             Head(todo[t]) = [op |-> "first", on |-> Head(todo'[t]).on]
        /\ op \in {"zero", "first"} => Sets(todo'[t], g)
        /\ \A h : Sets(todo[t], h) /\ h # g => Sets(todo'[t], h)
        /\ g \in Groups => g \in Targets(todo[t])
    <3>1. todo[t] \in Seq(Steps) /\ Left(todo[t])
      BY <1>t DEF TypeOK, RunsLeft
    <3> QED BY <2>1, <2>4, <3>1, LeftTail
  <2>6. ASSUME NEW u \in Setters, u # t, g \in Groups \ mixed PROVE g \notin Targets(todo[u])
    BY <1>t, <2>5, <2>6 DEF OneEach
  <2>7. /\ \A h \in Groups : h # g => bparam'[h] = bparam[h]
        /\ g \in Groups => bparam'[g] = pair
    BY <1>t, <2>3 DEF TypeOK
  <2>o. op = Head(todo[t]).op /\ g = Head(todo[t]).on
    OBVIOUS
  <2> HIDE DEF op, g
  <2>8. FirstSet'
    <3>1. ASSUME NEW u \in Setters, NEW h \in Groups \ mixed, todo'[u] # <<>>,
                 Head(todo'[u]) = [op |-> "rest", on |-> h]
          PROVE  bparam'[h][1] = value'[u]
      <4>1. Head(todo'[u]).op = "rest" /\ Head(todo'[u]).on = h
        BY <3>1
      <4>2. CASE u = t
        <5>1. Head(todo[t]) = [op |-> "first", on |-> h]
          BY <2>5, <3>1, <4>1, <4>2
        <5>2. op = "first" /\ g = h
          BY <5>1, <2>o
        <5>3. bparam'[g] = pair /\ pair = <<value[t], bparam[g][2]>>
          BY <2>2, <2>7, <3>1, <5>2
        <5>4. value'[t] = value[t]
          BY <2>4, <3>1, <4>2
        <5> QED BY <4>2, <5>2, <5>3, <5>4
      <4>3. CASE u # t
        <5>1. todo'[u] = todo[u] /\ value'[u] = value[u] /\ todo[u] \in Seq(Steps)
          BY <1>t, <2>4, <4>3 DEF TypeOK
        <5>2. h \in Targets(todo[u])
          BY <3>1, <4>1, <5>1 DEF Targets
        <5>3. h # g
          BY <2>6, <3>1, <4>3, <5>2
        <5> QED BY <1>t, <2>7, <3>1, <5>1, <5>3 DEF FirstSet
      <4> QED BY <4>2, <4>3
    <3> QED BY <2>3, <3>1 DEF FirstSet
  <2>9. HalfIsSet'
    <3>1. ASSUME NEW h \in Groups \ mixed, Half(bparam'[h]) PROVE \E u \in Setters : SetBy(u, h)'
      <4>1. CASE h # g
        <5>1. PICK u \in Setters : SetBy(u, h)
          BY <1>t, <2>7, <3>1, <4>1 DEF HalfIsSet
        <5>2. Sets(todo'[u], h)
          BY <2>4, <2>5, <4>1, <5>1 DEF SetBy
        <5>3. h \in forgotten => h \in forgotten'
          BY <2>3, <4>1
        <5> QED BY <5>1, <5>2, <5>3 DEF SetBy, NeverSaved
      <4>2. CASE h = g
        <5>1. op \in {"zero", "first"}
          <6>1. value[t] >= 0 /\ value[t] \in Int
            BY <1>t DEF RunsLeft, TypeOK, Values
          <6>2. op # "field"
            BY <2>2, <2>7, <3>1, <4>2, <6>1 DEF Half, Both, Cleared
          <6>3. op # "rest"
            <7>1. ASSUME op = "rest" PROVE FALSE
              <8>1. Head(todo[t]) = [op |-> "rest", on |-> g]
                <9>1. Head(todo[t]) \in Steps
                  BY <1>t, <2>1, HeadTail
                <9> QED BY <2>o, <7>1, <9>1 DEF Steps
              <8>2. bparam[g][1] = value[t]
                BY <1>t, <2>1, <3>1, <4>2, <8>1 DEF FirstSet
              <8> QED BY <2>2, <2>7, <3>1, <4>2, <6>1, <7>1, <8>2 DEF Half, Cleared
            <7> QED BY <7>1
          <6> QED BY <2>1, <6>2, <6>3 DEF Assigns
        <5>2. Sets(todo'[t], g)
          BY <2>5, <5>1
        <5>3. g \in NeverSaved(t) => g \in forgotten'
          BY <2>3
        <5> QED BY <4>2, <5>2, <5>3 DEF SetBy, NeverSaved
      <4> QED BY <4>1, <4>2
    <3> QED BY <2>3, <3>1 DEF HalfIsSet
  <2>10. HalfIsTransient'
    <3>1. /\ op # "post"
          /\ g \in NeverSaved(t) \/ HasPost(todo'[t])
      BY <1>t, <2>1, <2>3, <2>o, SavedDone DEF Assigns
    <3>2. SaveDue => SaveDue'
      BY <1>t, <2>1, <2>3, <2>o, <3>1, StillDue
    <3>3. ASSUME NEW h \in Groups \ (mixed \cup forgotten'), h \in forgotten PROVE SaveDue'
      <4>1. h = g /\ g \notin NeverSaved(t)
        BY <2>3, <3>3
      <4> QED BY <1>d, <3>1, <4>1
    <3> QED BY <1>t, <2>3, <3>2, <3>3 DEF HalfIsTransient
  <2> QED BY <1>t, <2>3, <2>4, <2>8, <2>9, <2>10 DEF HalfInv, Unlinked
<1>3. ASSUME NEW t \in Setters, Post(t) \/ Prompt(t) \/ Reboot(t) \/ Update(t) \/ Remove(t)
      PROVE HalfInv'
  <2>1. /\ todo[t] # <<>> /\ Done(t) /\ Head(todo[t]).op \notin Assigns
        /\ UNCHANGED <<bparam, forgotten, mixed>>
    BY <1>3 DEF Post, Prompt, Reboot, Update, Remove, store, Assigns
  <2>2. RunsLeft' /\ OneEach' /\ FirstSet' /\ HalfIsSet'
    BY <1>t, <2>1, IdleDone
  <2>3. CASE Remove(t)
    BY <2>2, <2>3 DEF Remove, RemoveBellParam, HalfInv, Unlinked, HalfIsTransient
  <2>4. CASE ~Remove(t)
    <3>1. /\ UNCHANGED <<file, fileState, saving>>
          /\ Post(t) \/ (savesem' = savesem /\ Head(todo[t]).op # "post")
          /\ Post(t) => savesem' = savesem + 1
      BY <1>3, <2>4 DEF Post, Prompt, Reboot, Update, store, saver
    <3>2. SaveDue => SaveDue'
      <4>1. CASE Post(t)
        BY <1>t, <1>d, <3>1, <4>1 DEF TypeOK
      <4>2. CASE ~Post(t)
        BY <1>t, <2>1, <3>1, <4>2, StillDue
      <4> QED BY <4>1, <4>2
    <3> QED BY <1>t, <2>1, <2>2, <3>1, <3>2 DEF HalfInv, Unlinked, HalfIsTransient
  <2> QED BY <2>3, <2>4
<1>4. ASSUME NEW t \in Setters, CameraTake(t) PROVE HalfInv'
  <2> DEFINE g == Head(todo[t]).on
  <2>1. /\ todo[t] # <<>> /\ Done(t) /\ Head(todo[t]).op = "take"
        /\ bparam' = [bparam EXCEPT ![g] = Both(value[t])]
        /\ forgotten' = forgotten \ {g} /\ savesem' = savesem + 1
        /\ UNCHANGED <<file, fileState, saving, mixed>>
    BY <1>4 DEF CameraTake
  <2>2. /\ RunsLeft' /\ OneEach' /\ todo'[t] = Tail(todo[t])
        /\ \A u \in Setters : u # t => todo'[u] = todo[u] /\ value'[u] = value[u]
    BY <1>t, <2>1, RunsDone
  <2>3. /\ todo'[t] # <<>> => Head(todo'[t]).op # "rest"
        /\ \A h : Sets(todo[t], h) /\ h # g => Sets(todo'[t], h)
        /\ g \in Groups => g \in Targets(todo[t])
    <3>1. todo[t] \in Seq(Steps) /\ Left(todo[t])
      BY <1>t DEF TypeOK, RunsLeft
    <3> QED BY <2>1, <2>2, <3>1, LeftTail
  <2>4. ASSUME NEW u \in Setters, u # t, g \in Groups \ mixed PROVE g \notin Targets(todo[u])
    BY <1>t, <2>3, <2>4 DEF OneEach
  <2>5. /\ \A h \in Groups : h # g => bparam'[h] = bparam[h]
        /\ g \in Groups => bparam'[g] = Both(value[t])
    BY <1>t, <2>1 DEF TypeOK
  <2> HIDE DEF g
  <2>6. FirstSet'
    <3>1. ASSUME NEW u \in Setters, NEW h \in Groups \ mixed, todo'[u] # <<>>,
                 Head(todo'[u]) = [op |-> "rest", on |-> h]
          PROVE  bparam'[h][1] = value'[u]
      <4>1. Head(todo'[u]).op = "rest" /\ Head(todo'[u]).on = h
        BY <3>1
      <4>2. u # t
        BY <2>3, <3>1, <4>1
      <4>3. todo'[u] = todo[u] /\ value'[u] = value[u] /\ todo[u] \in Seq(Steps)
        BY <1>t, <2>2, <4>2 DEF TypeOK
      <4>4. h \in Targets(todo[u])
        BY <3>1, <4>1, <4>3 DEF Targets
      <4>5. h # g
        BY <2>4, <3>1, <4>2, <4>4
      <4> QED BY <1>t, <2>5, <3>1, <4>3, <4>5 DEF FirstSet
    <3> QED BY <2>1, <3>1 DEF FirstSet
  <2>7. HalfIsSet'
    <3>1. ASSUME NEW h \in Groups \ mixed, Half(bparam'[h]) PROVE \E u \in Setters : SetBy(u, h)'
      <4>1. h # g
        <5>1. value[t] >= 0 /\ value[t] \in Int
          BY <1>t DEF RunsLeft, TypeOK, Values
        <5> QED BY <2>5, <3>1, <5>1 DEF Half, Both, Cleared
      <4>2. PICK u \in Setters : SetBy(u, h)
        BY <1>t, <2>5, <3>1, <4>1 DEF HalfIsSet
      <4>3. Sets(todo'[u], h)
        BY <2>2, <2>3, <4>1, <4>2 DEF SetBy
      <4>4. h \in forgotten => h \in forgotten'
        BY <2>1, <4>1
      <4> QED BY <4>2, <4>3, <4>4 DEF SetBy, NeverSaved
    <3> QED BY <2>1, <3>1 DEF HalfIsSet
  <2>8. SaveDue'
    BY <1>t, <1>d, <2>1 DEF TypeOK
  <2> QED BY <1>t, <2>1, <2>2, <2>6, <2>7, <2>8 DEF HalfInv, Unlinked, HalfIsTransient
<1>5. ASSUME NEW t \in Setters, Camera(t) PROVE HalfInv'
  <2>1. /\ todo[t] # <<>> /\ Head(todo[t]).op = "camera"
        /\ UNCHANGED <<bparam, file, fileState, saving, savesem, value, mixed, forgotten>>
    BY <1>5 DEF Camera, store, saver
  <2>s. todo[t] \in Seq(Steps) /\ Left(todo[t]) /\ todo[t] \in Saved(t)
    BY <1>t DEF TypeOK, RunsLeft, SavedInv
  <2> DEFINE q == Op("take", Head(todo[t]).on) \o Tail(todo[t])
  <2>2. todo' = [todo EXCEPT ![t] = IF videoctrl THEN Tail(todo[t]) ELSE q]
    BY <1>5 DEF Camera
  <2>3. /\ Left(q) /\ q # <<>> /\ Head(q).op = "take" /\ Targets(q) = Targets(todo[t])
        /\ \A g : Sets(todo[t], g) => Sets(q, g)
    BY <2>1, <2>s, LeftTake
  <2>4. /\ Left(Tail(todo[t])) /\ Targets(Tail(todo[t])) \subseteq Targets(todo[t])
        /\ Tail(todo[t]) # <<>> => Head(Tail(todo[t])).op # "rest"
        /\ \A g : Sets(todo[t], g) => Sets(Tail(todo[t]), g)
    <3>1. /\ Left(Tail(todo[t])) /\ Targets(Tail(todo[t])) \subseteq Targets(todo[t])
          /\ Tail(todo[t]) # <<>> => Head(Tail(todo[t])).op # "rest"
      BY <2>1, <2>s, LeftTail
    <3>2. ASSUME NEW i \in DOMAIN todo[t], todo[t][i].op \in {"first", "rest"}
          PROVE  i - 1 \in DOMAIN Tail(todo[t]) /\ Tail(todo[t])[i - 1] = todo[t][i]
      <4>1. i # 1
        BY <2>1, <2>s, <3>2
      <4> QED BY <2>s, <4>1
    <3> QED BY <3>1, <3>2 DEF Sets
  <2>5. HasPost(todo[t]) => HasPost(Tail(todo[t])) /\ HasPost(q)
    <3>1. HasPost(todo[t]) => HasPost(Tail(todo[t]))
      BY <2>1, <2>s, SavedTail
    <3>2. Tail(todo[t]) \in Seq(Steps) /\ Op("take", Head(todo[t]).on) \in Seq(Steps)
      <4>1. Head(todo[t]) \in Steps /\ Tail(todo[t]) \in Seq(Steps)
        BY <1>t, <2>1, HeadTail
      <4>2. Head(todo[t]).on \in AllGroups \cup {"-"}
        BY <2>1, <4>1 DEF Steps
      <4> QED BY <4>1, <4>2, OpSteps
    <3> QED BY <3>1, <3>2, PostStays
  <2> HIDE DEF q
  <2>6. /\ \A u \in Setters : u # t => todo'[u] = todo[u]
        /\ Left(todo'[t]) /\ Targets(todo'[t]) \subseteq Targets(todo[t])
        /\ todo'[t] # <<>> => Head(todo'[t]).op # "rest"
        /\ \A g : Sets(todo[t], g) => Sets(todo'[t], g)
        /\ HasPost(todo[t]) => HasPost(todo'[t])
    <3>1. todo'[t] = (IF videoctrl THEN Tail(todo[t]) ELSE q)
          /\ \A u \in Setters : u # t => todo'[u] = todo[u]
      BY <1>t, <2>2 DEF TypeOK
    <3>2. CASE videoctrl
      BY <2>4, <2>5, <3>1, <3>2
    <3>3. CASE ~videoctrl
      <4>1. todo'[t] = q
        BY <3>1, <3>3
      <4>2. Head(q).op # "rest"
        BY <2>3
      <4> QED BY <2>3, <2>5, <3>1, <4>1, <4>2
    <3> QED BY <3>2, <3>3
  <2>7. RunsLeft' /\ OneEach'
    <3>1. \A u \in Setters : Targets(todo'[u]) \subseteq Targets(todo[u])
      BY <2>6
    <3> QED BY <1>t, <2>1, <2>6, <3>1 DEF RunsLeft, OneEach
  <2>8. FirstSet'
    <3>1. ASSUME NEW u \in Setters, NEW g \in Groups \ mixed, todo'[u] # <<>>,
                 Head(todo'[u]) = [op |-> "rest", on |-> g]
          PROVE  bparam[g][1] = value[u]
      <4>1. Head(todo'[u]).op = "rest"
        BY <3>1
      <4>2. u # t
        BY <2>6, <3>1, <4>1
      <4> QED BY <1>t, <2>6, <3>1, <4>2 DEF FirstSet
    <3> QED BY <2>1, <3>1 DEF FirstSet
  <2>9. HalfIsSet'
    <3>1. ASSUME NEW g \in Groups \ mixed, NEW u \in Setters, SetBy(u, g) PROVE SetBy(u, g)'
      BY <2>1, <2>6, <3>1 DEF SetBy, NeverSaved
    <3> QED BY <1>t, <2>1, <3>1 DEF HalfIsSet
  <2>10. SaveDue => SaveDue'
    <3>1. \A u \in Setters : HasPost(todo[u]) => HasPost(todo'[u])
      BY <2>6
    <3> QED BY <1>d, <2>1, <3>1
  <2> QED BY <1>t, <2>1, <2>7, <2>8, <2>9, <2>10 DEF HalfInv, Unlinked, HalfIsTransient
<1>6. ASSUME NEW s \in Savers, SaveOpens(s) PROVE HalfInv'
  <2>1. /\ UNCHANGED <<bparam, todo, value, mixed, forgotten>>
        /\ fileState' = "short" /\ filelock = "none"
        /\ saving' = [saving EXCEPT ![s] = "opened"]
    BY <1>6 DEF SaveOpens, handler
  <2>2. Unlinked'
    <3>1. \A u \in Savers : saving[u] \notin {"opened", "unlinked"}
      BY <2>1 DEF FileInv, Locked, Savers
    <3> QED BY <1>t, <2>1, <3>1 DEF Unlinked, TypeOK
  <2> QED BY <2>1, <2>2, OthersHalf DEF HalfIsTransient
<1>7. ASSUME NEW s \in Savers, SaveWrites(s) PROVE HalfInv'
  <2>1. /\ UNCHANGED <<bparam, todo, value, mixed, savesem>>
        /\ saving' = [saving EXCEPT ![s] = "no"] /\ saving[s] \in {"opened", "unlinked"}
    BY <1>7 DEF SaveWrites, handler
  <2>2. \A u \in Savers : saving'[u] # "unlinked"
    <3>1. \A u \in Savers : u # s => saving[u] \notin {"opened", "unlinked"}
      BY <2>1 DEF FileInv, Locked
    <3> QED BY <1>t, <2>1, <3>1 DEF TypeOK
  <2>3. CASE saving[s] = "unlinked"
    <3>1. UNCHANGED <<file, fileState, forgotten>> /\ fileState = "missing"
      BY <1>7, <1>t, <2>3 DEF SaveWrites, Unlinked
    <3> QED BY <2>1, <2>2, <3>1, OthersHalf DEF Unlinked, HalfIsTransient
  <2>4. CASE saving[s] = "opened"
    <3>1. /\ file' = bparam
          /\ forgotten' = {g \in forgotten : \E t \in Setters : g \in Targets(todo[t])}
      BY <1>7, <2>4 DEF SaveWrites
    <3>2. \A g \in Groups, t \in Setters : SetBy(t, g) => SetBy(t, g)'
      <4>1. \A g \in Groups, t \in Setters : Sets(todo[t], g) => g \in Targets(todo[t])
        BY DEF Sets, Targets
      <4> QED BY <2>1, <3>1, <4>1 DEF SetBy, NeverSaved
    <3>3. HalfIsSet'
      BY <1>t, <2>1, <3>2 DEF HalfIsSet
    <3>4. HalfIsTransient'
      <4>1. ASSUME NEW g \in Groups \ (mixed \cup forgotten'), Half(bparam[g]) PROVE SaveDue'
        <5>1. PICK t \in Setters : SetBy(t, g)'
          BY <2>1, <3>3, <4>1 DEF HalfIsSet
        <5>2. Sets(todo[t], g) /\ g \notin NeverSaved(t)
          BY <2>1, <4>1, <5>1 DEF SetBy, NeverSaved
        <5>3. PICK i \in DOMAIN todo[t] : todo[t][i].on = g /\ todo[t][i].op \in {"first", "rest"}
          BY <5>2 DEF Sets
        <5>4. HasPost(todo[t])
          BY <5>2, <5>3 DEF SavedInv, Saved, Saves, Assigns, HasPost
        <5> QED BY <1>d, <2>1, <5>4
      <4> QED BY <2>1, <3>1, <4>1 DEF HalfIsTransient, Half
    <3>5. RunsLeft' /\ OneEach' /\ FirstSet'
      BY <1>t, <2>1 DEF RunsLeft, OneEach, FirstSet
    <3> QED BY <2>2, <3>3, <3>4, <3>5 DEF HalfInv, Unlinked
  <2> QED BY <2>1, <2>3, <2>4
<1>8. ASSUME FlashSave PROVE HalfInv'
  <2>1. /\ UNCHANGED <<bparam, file, fileState, todo, value, mixed, forgotten>>
        /\ saving' = [saving EXCEPT !["saver"] = "asked"]
    BY <1>8 DEF FlashSave, store, handler
  <2>2. saving'["saver"] = "asked" /\ Unlinked'
    BY <1>t, <2>1 DEF TypeOK, Savers, Unlinked
  <2>3. SaveDue'
    BY <1>d, <2>2
  <2> QED BY <2>1, <2>2, <2>3, OthersHalf DEF HalfIsTransient
<1>9. ASSUME NetReceive PROVE HalfInv'
  <2>1. /\ UNCHANGED <<file, fileState, savesem, todo, value, forgotten>>
        /\ saving' = [saving EXCEPT !["net"] = "asked"]
        /\ bparam' = [bparam EXCEPT !["Net"] = Both(sets + 1)]
        /\ mixed' = IF \E t \in Setters : "Net" \in Targets(todo[t])
                    THEN mixed \cup {"Net"} ELSE mixed
    BY <1>9 DEF NetReceive, handler
  <2>2. /\ Unlinked' /\ saving'["saver"] = saving["saver"]
        /\ \A g \in Groups : g # "Net" => bparam'[g] = bparam[g]
        /\ mixed \subseteq mixed'
        /\ bparam'["Net"] = Both(sets + 1) /\ sets >= 0 /\ sets \in Nat
    BY <1>t, <2>1, SettingsAssumption DEF TypeOK, Savers, Unlinked
  <2>3. RunsLeft' /\ OneEach'
    BY <1>t, <2>1, <2>2 DEF RunsLeft, OneEach
  <2>4. FirstSet'
    <3>1. ASSUME NEW u \in Setters, NEW g \in Groups \ mixed', todo[u] # <<>>,
                 Head(todo[u]) = [op |-> "rest", on |-> g]
          PROVE  g # "Net"
      <4>1. todo[u] \in Seq(Steps)
        BY <1>t DEF TypeOK
      <4>2. Head(todo[u]) = todo[u][1] /\ 1 \in DOMAIN todo[u]
        BY <3>1, <4>1
      <4>3. g \in Targets(todo[u])
        BY <3>1, <4>2 DEF Targets
      <4> QED BY <2>1, <3>1, <4>3
    <3> QED BY <1>t, <2>1, <2>2, <3>1 DEF FirstSet
  <2>5. HalfIsSet'
    <3>1. ~Half(bparam'["Net"])
      BY <2>2 DEF Half, Both, Cleared
    <3>2. ASSUME NEW g \in Groups \ mixed, NEW u \in Setters, SetBy(u, g) PROVE SetBy(u, g)'
      BY <2>1, <3>2 DEF SetBy, NeverSaved
    <3> QED BY <1>t, <2>1, <2>2, <3>1, <3>2 DEF HalfIsSet
  <2>6. SaveDue => SaveDue'
    BY <1>d, <2>1, <2>2
  <2>7. HalfIsTransient'
    BY <1>t, <2>1, <2>2, <2>6 DEF HalfIsTransient
  <2> QED BY <2>2, <2>3, <2>4, <2>5, <2>7 DEF HalfInv
<1>10. ASSUME NetSaved \/ VideoParamChange \/ UpdateFails \/ PressReset \/ UNCHANGED vars
       PROVE HalfInv'
  <2>1. UNCHANGED <<bparam, file, fileState, savesem, saving, mixed, forgotten, todo, value>>
    BY <1>10 DEF NetSaved, VideoParamChange, UpdateFails, PressReset, vars, store, saver,
                 handler, system
  <2>2. Unlinked' /\ HalfIsTransient'
    BY <1>t, <1>d, <2>1 DEF Unlinked, HalfIsTransient
  <2> QED BY <2>1, <2>2, OthersHalf
<1>11. ASSUME SensorInit \/ MainStarts PROVE HalfInv'
  <2>1. /\ UNCHANGED <<file, fileState, todo, value, mixed>>
        /\ forgotten \subseteq forgotten' /\ savesem' >= savesem
        /\ \A s \in Savers : saving'[s] = saving[s] \/ saving'[s] = "asked"
        /\ \A g \in Groups : bparam'[g] = bparam[g] \/ bparam'[g] = Both(Default)
                               \/ bparam'[g] = Both(FirstBoot)
        /\ \A t \in Setters : todo[t] = <<>>
    <3>1. CASE SensorInit
      BY <1>t, <3>1 DEF SensorInit, handler, SavedInv, FileInv, Starting, TypeOK
    <3>2. CASE MainStarts
      <4>1. /\ UNCHANGED <<file, fileState, todo, value, mixed, forgotten>>
            /\ savesem' = savesem + 1 /\ \A t \in Setters : todo[t] = <<>>
        BY <3>2 DEF MainStarts, handler, FileInv, Starting
      <4>2. \A s \in Savers : saving'[s] = saving[s] \/ saving'[s] = "asked"
        BY <1>t, <3>2 DEF MainStarts, TypeOK
      <4>3. \A g \in Groups : bparam'[g] = bparam[g] \/ bparam'[g] = Both(Default)
                               \/ bparam'[g] = Both(FirstBoot)
        BY <3>2 DEF MainStarts
      <4> QED BY <1>t, <4>1, <4>2, <4>3 DEF TypeOK
    <3> QED BY <1>11, <3>1, <3>2
  <2>2. Unlinked'
    BY <1>t, <2>1 DEF Unlinked
  <2>3. RunsLeft' /\ OneEach' /\ FirstSet'
    BY <1>t, <2>1 DEF RunsLeft, OneEach, FirstSet
  <2>4. HalfIsSet'
    <3>1. ~Half(Both(Default)) /\ ~Half(Both(FirstBoot))
      BY DEF Half, Both, Default, FirstBoot, Cleared
    <3>2. ASSUME NEW g \in Groups \ mixed, NEW u \in Setters, SetBy(u, g) PROVE SetBy(u, g)'
      BY <2>1, <3>2 DEF SetBy, NeverSaved
    <3> QED BY <1>t, <2>1, <3>1, <3>2 DEF HalfIsSet
  <2>5. SaveDue => SaveDue'
    <3>1. savesem > 0 => savesem' > 0
      BY <1>t, <2>1 DEF TypeOK
    <3>2. saving["saver"] # "no" => saving'["saver"] # "no"
      BY <2>1 DEF Savers
    <3> QED BY <1>d, <2>1, <3>1, <3>2
  <2>6. HalfIsTransient'
    BY <1>t, <2>1, <2>5 DEF HalfIsTransient
  <2> QED BY <2>2, <2>3, <2>4, <2>6 DEF HalfInv
<1>12. ASSUME PromptEnds PROVE HalfInv'
  <2>1. UNCHANGED <<bparam, savesem, todo, value, mixed, forgotten>>
    BY <1>12 DEF PromptEnds, handler
  <2>2. CASE prompt = "reset"
    <3>1. fileState' = "missing"
      BY <1>12, <2>2 DEF PromptEnds, RemoveBellParam
    <3> QED BY <2>1, <3>1, OthersHalf DEF Unlinked, HalfIsTransient
  <2>3. CASE prompt # "reset"
    <3>1. UNCHANGED <<file, fileState, saving>>
      BY <1>12, <2>3 DEF PromptEnds
    <3>2. Unlinked' /\ HalfIsTransient'
      BY <1>t, <1>d, <2>1, <3>1 DEF Unlinked, HalfIsTransient
    <3> QED BY <2>1, <3>2, OthersHalf
  <2> QED BY <2>2, <2>3
<1>13. ASSUME SystemBoot \/ PowerCut PROVE HalfInv'
  <2>1. CASE Restart
    BY <2>1, RestartHalf
  <2>2. CASE ~Restart
    <3>1. UNCHANGED <<bparam, file, fileState, savesem, saving, mixed, forgotten, todo, value>>
      BY <1>13, <2>2 DEF SystemBoot, PowerCut, store, saver, handler
    <3>2. Unlinked' /\ HalfIsTransient'
      BY <1>t, <1>d, <3>1 DEF Unlinked, HalfIsTransient
    <3> QED BY <3>1, <3>2, OthersHalf
  <2> QED BY <2>1, <2>2
<1> QED BY <1>1, <1>2, <1>3, <1>4, <1>5, <1>6, <1>7, <1>8, <1>9, <1>10, <1>11, <1>12,
           <1>13 DEF Next, Step, Save

\* However a save falls into the middle of a command: what it writes half set is written
\* again, whole, unless two threads set the structure at once or the command never saves.
THEOREM SettingsHalfIsTransient == Spec => []HalfIsTransient
<1>1. Init => FileInv /\ SavedInv /\ HalfInv
  BY FileInit, SavedInit, HalfInit
<1>2. FileInv /\ SavedInv /\ HalfInv /\ [Next]_vars => (FileInv /\ SavedInv /\ HalfInv)'
  BY TypeNext, FileNext, SavedNext, HalfNext DEF FileInv
<1>3. HalfInv => HalfIsTransient
  BY DEF HalfInv
<1> QED BY <1>1, <1>2, <1>3, PTL DEF Spec
=============================================================================

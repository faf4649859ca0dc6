------------------------------ MODULE BellLog -------------------------------
(***************************************************************************)
(* The log of rings and alarms (p2p/p2p.c): a window of nCount entries     *)
(* from nFirst on in an array twice as long, saved whole to a file after   *)
(* every change and read back at its first use after a boot.               *)
(*                                                                         *)
(* The key, timer and motion threads append, the timer thread notes who    *)
(* answered, the cmd thread reads and deletes.  The mutex is held for the  *)
(* file only; the window itself is shared without one.                     *)
(***************************************************************************)
EXTENDS Integers, Sequences

CONSTANTS N,         \* MAX_BELL_LOG_COUNT
          Ringers,   \* threads that append and note
          Cmd,       \* the cmd thread
          MaxRings,  \* bound: rings in a behaviour
          MaxDeletes, MaxLosses \* bounds: deletions and power failures

ASSUME BellLogAssumption ==
  /\ N \in Nat \ {0} /\ Cmd \notin Ringers
  /\ MaxRings \in Nat /\ MaxDeletes \in Nat /\ MaxLosses \in Nat

Threads == Ringers \cup {Cmd}
Ids == 1 .. MaxRings \* rings are named by their time, and numbered here
Slots == 0 .. 2 * N - 1

VARIABLES
  BellLog, bBellLogInited,
  file,   \* BELL_LOG_FILENAME
  step,   \* step[t]: control point of thread t
  todo,   \* todo[t]: operations thread t has still to do, the current one first
  ring,   \* ring[t]: the ring it does them for
  rings, deletes, losses,
  raced,  \* history: two operations overlapped
  spoiled \* history: they did, or a ring that is not the newest was deleted

thread == <<step, todo, ring>>
bounds == <<rings, deletes, losses>>
history == <<raced, spoiled>>
vars == <<BellLog, bBellLogInited, file, thread, bounds, history>>

Item(id, status) == [id |-> id, status |-> status]
Blank == Item(0, "timeout") \* zeroes: LOG_STATUS_TIMEOUT
Empty == [nCount |-> 0, nFirst |-> 0, oItems |-> [i \in Slots |-> Blank]]

Init ==
  /\ BellLog = Empty /\ bBellLogInited = FALSE /\ file = Empty
  /\ step = [t \in Threads |-> "idle"] /\ todo = [t \in Threads |-> <<>>]
  /\ ring = [t \in Threads |-> 0]
  /\ rings = 0 /\ deletes = 0 /\ losses = 0
  /\ raced = FALSE /\ spoiled = FALSE
-----------------------------------------------------------------------------
Goto(t, s) == step' = [step EXCEPT ![t] = s] /\ UNCHANGED <<todo, ring>>

First == [append |-> "test", get |-> "test", alarm |-> "note", agree |-> "note"]

\* The current operation is over, and the next of the handler begins.
Done(t) ==
  /\ todo' = [todo EXCEPT ![t] = Tail(@)]
  /\ step' = [step EXCEPT ![t] = IF Len(todo[t]) = 1 THEN "idle" ELSE First[todo[t][2]]]
  /\ UNCHANGED ring

Start(t, id, ops) ==
  /\ step[t] = "idle"
  /\ todo' = [todo EXCEPT ![t] = ops]
  /\ ring' = [ring EXCEPT ![t] = id]
  /\ raced' = (raced \/ \E u \in Threads : step[u] # "idle")

\* OnCall; OnFoundAlarm; OnAlarmIn, which appends the ring and then announces it.
Handlers == {<<"append">>, <<"append", "alarm">>, <<"append", "append", "alarm">>}

RingStart(t) ==
  /\ t \in Ringers /\ rings < MaxRings
  /\ rings' = rings + 1
  /\ \E ops \in Handlers : Start(t, rings', ops)
  /\ step' = [step EXCEPT ![t] = "test"]
  /\ spoiled' = (spoiled \/ raced')
  /\ UNCHANGED <<BellLog, bBellLogInited, file, deletes, losses>>

\* Someone answers the last ring.
AgreeStart(t) ==
  /\ t \in Ringers /\ rings > 0
  /\ Start(t, rings, <<"agree">>)
  /\ step' = [step EXCEPT ![t] = "note"]
  /\ spoiled' = (spoiled \/ raced')
  /\ UNCHANGED <<BellLog, bBellLogInited, file, bounds>>

GetStart ==
  /\ ~bBellLogInited
  /\ Start(Cmd, 0, <<"get">>)
  /\ step' = [step EXCEPT ![Cmd] = "test"]
  /\ spoiled' = (spoiled \/ raced')
  /\ UNCHANGED <<BellLog, bBellLogInited, file, bounds>>
-----------------------------------------------------------------------------
(* AppendBellLog and ChangeBellLog *)

Test(t) ==
  /\ step[t] = "test"
  /\ bBellLogInited' = TRUE
  /\ IF bBellLogInited
     THEN IF todo[t] = <<"get">> THEN Done(t) ELSE Goto(t, "store")
     ELSE Goto(t, "read")
  /\ UNCHANGED <<BellLog, file, bounds, history>>

Locked == \E u \in Threads : step[u] = "write"

Read(t) ==
  /\ step[t] = "read" /\ ~Locked
  /\ BellLog' = file
  /\ IF todo[t] = <<"get">> THEN Done(t) ELSE Goto(t, "store")
  /\ UNCHANGED <<bBellLogInited, file, bounds, history>>

New(t) == Item(ring[t], "timeout")

\* Mutant: one entry more is taken for room.
StoreCountOver(t) ==
  /\ step[t] = "store" /\ BellLog.nCount <= N
  /\ BellLog' = [BellLog EXCEPT !.oItems[BellLog.nCount] = New(t)]
  /\ Goto(t, "count")
  /\ UNCHANGED <<bBellLogInited, file, bounds, history>>

\* There is room: the entry is stored, then counted.
StoreCount(t) ==
  /\ step[t] = "store" /\ BellLog.nCount < N
  /\ BellLog' = [BellLog EXCEPT !.oItems[BellLog.nCount] = New(t)]
  /\ Goto(t, "count")
  /\ UNCHANGED <<bBellLogInited, file, bounds, history>>

\* Mutant: the entry is counted and not saved.
CountUnsaved(t) ==
  /\ step[t] = "count"
  /\ BellLog' = [BellLog EXCEPT !.nCount = @ + 1]
  /\ Done(t)
  /\ UNCHANGED <<bBellLogInited, file, bounds, history>>

Count(t) ==
  /\ step[t] = "count"
  /\ BellLog' = [BellLog EXCEPT !.nCount = @ + 1]
  /\ Goto(t, "save")
  /\ UNCHANGED <<bBellLogInited, file, bounds, history>>

\* The window moves up by one.
StoreFirst(t) ==
  /\ step[t] = "store" /\ BellLog.nCount >= N /\ BellLog.nFirst < N
  /\ BellLog' = [BellLog EXCEPT !.oItems[BellLog.nCount + BellLog.nFirst] = New(t)]
  /\ Goto(t, "first")
  /\ UNCHANGED <<bBellLogInited, file, bounds, history>>

MoveFirst(t) ==
  /\ step[t] = "first"
  /\ BellLog' = [BellLog EXCEPT !.nFirst = @ + 1]
  /\ Goto(t, "save")
  /\ UNCHANGED <<bBellLogInited, file, bounds, history>>

\* The window is at the end of the array and is copied to its beginning.
Shift(t) ==
  /\ step[t] = "store" /\ BellLog.nCount >= N /\ BellLog.nFirst >= N
  /\ BellLog' = [BellLog EXCEPT
       !.nFirst = 0,
       !.oItems = [i \in Slots |-> CASE i < N - 1 -> @[N + 1 + i]
                                     [] i = N - 1 -> New(t)
                                     [] OTHER -> @[i]]]
  /\ Goto(t, "save")
  /\ UNCHANGED <<bBellLogInited, file, bounds, history>>

\* ChangeBellLog writes to the newest entry of this name, if it is in the window.
Noted(t) ==
  {i \in Slots : /\ BellLog.nFirst <= i /\ i < BellLog.nFirst + BellLog.nCount
                 /\ BellLog.oItems[i].id = ring[t]}

Note(t) ==
  /\ step[t] = "note"
  /\ \/ /\ Noted(t) = {} /\ Done(t)
        /\ UNCHANGED BellLog
     \/ \E i \in Noted(t) :
          /\ \A j \in Noted(t) : j <= i
          /\ BellLog' = [BellLog EXCEPT !.oItems[i].status = Head(todo[t])]
          /\ Goto(t, "save")
  /\ UNCHANGED <<bBellLogInited, file, bounds, history>>

\* WriteBellFile empties the file, then writes it.
Save(t) ==
  /\ step[t] = "save" /\ ~Locked
  /\ Goto(t, "write")
  /\ UNCHANGED <<BellLog, bBellLogInited, file, bounds, history>>

Write(t) ==
  /\ step[t] = "write"
  /\ file' = BellLog
  /\ Done(t)
  /\ UNCHANGED <<BellLog, bBellLogInited, bounds, history>>
-----------------------------------------------------------------------------
(* Commands of the cmd thread *)

DeleteAllBellLogs ==
  /\ deletes < MaxDeletes /\ deletes' = deletes + 1
  /\ Start(Cmd, 0, <<"clear">>)
  /\ BellLog' = Empty
  /\ step' = [step EXCEPT ![Cmd] = "save"]
  /\ spoiled' = (spoiled \/ raced')
  /\ UNCHANGED <<bBellLogInited, file, rings, losses>>

Used(L) == {i \in Slots : i < L.nCount + L.nFirst}
Named(L, id) == {i \in Used(L) : L.oItems[i].id = id}

\* One pass of DeleteBellLog's search: the first entry of this name is blanked, and the
\* lower half of the array takes one off nCount, the upper half off nFirst.
Drop(L, i) ==
  [nCount |-> IF i < N THEN L.nCount - 1 ELSE L.nCount,
   nFirst |-> IF i < N THEN L.nFirst ELSE L.nFirst - 1,
   oItems |-> [L.oItems EXCEPT ![i] = Blank]]

\* The entries from i on move down, as far as the loop goes; the one after them is blanked,
\* which may be past the end of the array.
Close(L, i) ==
  LET last == L.nCount + L.nFirst - 2
      next == IF i < last THEN last + 1 ELSE i + 1
  IN [L EXCEPT !.oItems = [j \in Slots |-> CASE j = next -> Blank
                                             [] i <= j /\ j < last -> @[j + 1]
                                             [] OTHER -> @[j]]]

Lowest(S) == CHOOSE i \in S : \A j \in S : i <= j

Deleted(L, id) ==
  LET once == Drop(L, Lowest(Named(L, id)))
      again == Named(once, id)
  IN IF again = {} THEN Close(once, once.nCount + once.nFirst)
     ELSE Close(Drop(once, Lowest(again)), Lowest(again))

\* DeleteBellLog does not read the file: before the log's first use it finds nothing.
DeleteBellLog(id) ==
  /\ deletes < MaxDeletes /\ deletes' = deletes + 1
  /\ Named(BellLog, id) # {}
  /\ Start(Cmd, id, <<"delete">>)
  /\ BellLog' = Deleted(BellLog, id)
  /\ step' = [step EXCEPT ![Cmd] = "save"]
  /\ spoiled' = \/ spoiled \/ raced' \/ BellLog.nFirst > 0
                \/ Named(BellLog, id) # {BellLog.nCount - 1}
  /\ UNCHANGED <<bBellLogInited, file, rings, losses>>
-----------------------------------------------------------------------------
\* Of a file that was being written the first entries are there, or nothing.
Torn(L) ==
  {Empty} \cup {[L EXCEPT !.oItems = [i \in Slots |-> IF i < k THEN @[i] ELSE Blank]] : k \in Slots}

PowerFails ==
  /\ losses < MaxLosses /\ losses' = losses + 1
  /\ BellLog' = Empty /\ bBellLogInited' = FALSE
  /\ file' \in IF Locked THEN Torn(BellLog) ELSE {file}
  /\ step' = [t \in Threads |-> "idle"] /\ todo' = [t \in Threads |-> <<>>]
  /\ ring' = [t \in Threads |-> 0]
  /\ UNCHANGED <<rings, deletes, history>>

ThreadStep(t) ==
  \/ Test(t) \/ Read(t) \/ StoreCount(t) \/ Count(t) \/ StoreFirst(t) \/ MoveFirst(t)
  \/ Shift(t) \/ Note(t) \/ Save(t) \/ Write(t)

Next ==
  \/ \E t \in Threads : RingStart(t) \/ AgreeStart(t) \/ ThreadStep(t)
  \/ GetStart \/ DeleteAllBellLogs \/ \E id \in Ids : DeleteBellLog(id)
  \/ PowerFails

Spec == Init /\ [][Next]_vars
-----------------------------------------------------------------------------
Items == [id : Ids \cup {0}, status : {"timeout", "agree", "alarm"}]
Logs == [nCount : Int, nFirst : Int, oItems : [Slots -> Items]]

LogType == ~spoiled => BellLog \in Logs /\ file \in Logs

Steps == {"idle", "test", "read", "store", "count", "first", "note", "save", "write"}

\* What is left of a handler.
Todos ==
  Handlers \cup {<<>>, <<"alarm">>, <<"agree">>, <<"get">>, <<"clear">>, <<"delete">>}

ThreadType ==
  /\ step \in [Threads -> Steps] /\ todo \in [Threads -> Todos]
  /\ ring \in [Threads -> Ids \cup {0}]
  /\ \A t \in Threads :
       /\ (step[t] = "idle") <=> (todo[t] = <<>>)
       /\ step[t] = "note" => todo[t] \in {<<"alarm">>, <<"agree">>}

CountType == rings \in 0 .. MaxRings /\ deletes \in Nat /\ losses \in Nat

FlagType == bBellLogInited \in BOOLEAN /\ raced \in BOOLEAN /\ spoiled \in BOOLEAN

TypeOK == LogType /\ ThreadType /\ CountType /\ FlagType

\* The window stays within oItems[], through any number of rings, wraps, power failures and
\* torn files, so that AppendBellLog stores within it, until two operations overlap or
\* DeleteBellLog takes a ring that is not the newest.
Window(L) ==
  /\ 0 <= L.nCount /\ L.nCount <= N
  /\ 0 <= L.nFirst /\ L.nFirst <= N

InArray == ~spoiled => Window(BellLog)

Listing(L) == [i \in 1 .. L.nCount |-> L.oItems[L.nFirst + i - 1]]
Loaded == bBellLogInited /\ \A t \in Threads : step[t] # "read"

Sound(listing) == IF spoiled THEN <<>> ELSE listing

\* The log as those who list it will find it: nobody reads the file once all of it is deleted.
Clearing == todo[Cmd] = <<"clear">>
Log == IF Loaded \/ Clearing THEN Listing(BellLog) ELSE Listing(file)

\* Whether the file has the last change.
Copy ==
  CASE spoiled \/ (\A t \in Threads : step[t] \notin {"save", "write"}) -> "saved"
    [] ~spoiled /\ Locked -> "writing"
    [] OTHER -> "changed"

Abstract == INSTANCE RingLog WITH
  log <- Sound(Log), saved <- Sound(Listing(file)), phase <- Copy

\* The window in the array, its copy in the file and the reading back at first use are
\* together a log of the N newest rings.  No ring, note or deletion is left out of the file
\* by the time of the next, so that a power failure sets the log back by the change under
\* way and no more, and damages it only between the emptying of the file and its writing;
\* all until two operations overlap, or DeleteBellLog takes a ring that is not the newest.
KeepsNewest == Abstract!Spec
=============================================================================

--------------------------- MODULE BellLog_proofs ---------------------------
(* Proofs about BellLog. *)
EXTENDS BellLog, TLAPS

(***************************************************************************)
(* Threads.                                                                *)
(***************************************************************************)
Waits(s, ops) ==
  /\ (s = "idle") <=> (ops = <<>>)
  /\ s = "note" => ops \in {<<"alarm">>, <<"agree">>}

LEMMA DoneType ==
  ASSUME ThreadType, NEW t \in Threads, step[t] # "idle", Done(t) PROVE ThreadType'
<1>1. ring' = ring
  BY DEF Done
<1> DEFINE s == IF Len(todo[t]) = 1 THEN "idle" ELSE First[todo[t][2]]
<1>2. todo' = [todo EXCEPT ![t] = Tail(todo[t])] /\ step' = [step EXCEPT ![t] = s]
  BY DEF Done, ThreadType
<1>3. todo[t] \in Todos \ {<<>>}
  BY DEF ThreadType
<1>4. Tail(todo[t]) \in Todos /\ s \in Steps /\ Waits(s, Tail(todo[t]))
  <2>1. CASE todo[t] = <<"append", "alarm">>
    <3>1. Len(todo[t]) = 2 /\ Tail(todo[t]) = <<"alarm">> /\ todo[t][2] = "alarm"
      BY <2>1
    <3>2. s = "note"
      BY <3>1 DEF First
    <3>3. Tail(todo[t]) \in Todos /\ Tail(todo[t]) # <<>>
      BY <3>1 DEF Todos
    <3> QED BY <3>1, <3>2, <3>3 DEF Waits, Steps
  <2>2. CASE todo[t] = <<"append", "append", "alarm">>
    <3>1. /\ Len(todo[t]) = 3 /\ Tail(todo[t]) = <<"append", "alarm">>
          /\ todo[t][2] = "append"
      BY <2>2
    <3>2. s = "test"
      BY <3>1 DEF First
    <3>3. Tail(todo[t]) \in Todos /\ Tail(todo[t]) # <<>>
      BY <3>1 DEF Todos, Handlers
    <3> QED BY <3>2, <3>3 DEF Waits, Steps
  <2>3. ASSUME NEW op, todo[t] = <<op>>
        PROVE  Tail(todo[t]) \in Todos /\ s \in Steps /\ Waits(s, Tail(todo[t]))
    <3>1. Len(todo[t]) = 1 /\ Tail(todo[t]) = <<>>
      BY <2>3
    <3> QED BY <3>1 DEF Waits, Todos, Steps
  <2> QED BY <1>3, <2>1, <2>2, <2>3 DEF Todos, Handlers
<1> QED BY <1>1, <1>2, <1>4 DEF ThreadType, Waits

LEMMA GotoType ==
  ASSUME ThreadType, NEW t \in Threads, step[t] # "idle",
         NEW s \in Steps \ {"idle", "note"}, Goto(t, s)
  PROVE  ThreadType'
  BY DEF Goto, ThreadType

LEMMA StartType ==
  ASSUME ThreadType, NEW t \in Threads, NEW id \in Ids \cup {0}, NEW ops \in Todos \ {<<>>},
         NEW s \in Steps \ {"idle"}, s = "note" => ops = <<"agree">>,
         Start(t, id, ops), step' = [step EXCEPT ![t] = s]
  PROVE  ThreadType'
  BY DEF Start, ThreadType

LEMMA ThreadTypeKept == TypeOK /\ [Next]_vars => ThreadType'
<1> SUFFICES ASSUME TypeOK, [Next]_vars PROVE ThreadType'
  OBVIOUS
<1> USE DEF TypeOK, Steps
<1>1. ASSUME NEW t \in Threads, RingStart(t) PROVE ThreadType'
  <2>1. rings' \in Ids
    BY <1>1, BellLogAssumption DEF RingStart, CountType, Ids
  <2>2. PICK ops \in Handlers : Start(t, rings', ops)
    BY <1>1 DEF RingStart
  <2>3. ops \in Todos \ {<<>>} /\ step' = [step EXCEPT ![t] = "test"]
    BY <1>1 DEF RingStart, Handlers, Todos
  <2> QED BY <2>1, <2>2, <2>3, StartType
<1>2. ASSUME NEW t \in Threads, AgreeStart(t) PROVE ThreadType'
  <2>1. rings \in Ids
    BY <1>2 DEF AgreeStart, CountType, Ids
  <2> QED BY <1>2, <2>1, StartType DEF AgreeStart, Todos
<1>3. ASSUME NEW t \in Threads, ThreadStep(t) PROVE ThreadType'
  BY <1>3, DoneType, GotoType DEF ThreadStep, Test, Read, StoreCount, Count, StoreFirst,
     MoveFirst, Shift, Note, Save, Write
<1>4. CASE GetStart
  BY <1>4, StartType DEF GetStart, Todos, Threads
<1>5. CASE DeleteAllBellLogs
  BY <1>5, StartType DEF DeleteAllBellLogs, Todos, Threads
<1>6. ASSUME NEW id \in Ids, DeleteBellLog(id) PROVE ThreadType'
  BY <1>6, StartType DEF DeleteBellLog, Todos, Threads
<1>7. CASE PowerFails
  BY <1>7 DEF PowerFails, ThreadType, Todos
<1>8. CASE UNCHANGED vars
  BY <1>8 DEF vars, thread, ThreadType
<1> QED BY <1>1, <1>2, <1>3, <1>4, <1>5, <1>6, <1>7, <1>8 DEF Next

LEMMA CountsKept == TypeOK /\ [Next]_vars => CountType' /\ FlagType'
<1> SUFFICES ASSUME TypeOK, [Next]_vars PROVE CountType' /\ FlagType'
  OBVIOUS
<1> USE BellLogAssumption DEF TypeOK, CountType, FlagType, bounds, history
<1>1. ASSUME NEW t \in Threads, RingStart(t) PROVE CountType' /\ FlagType'
  BY <1>1 DEF RingStart, Start
<1>2. ASSUME NEW t \in Threads, AgreeStart(t) PROVE CountType' /\ FlagType'
  BY <1>2 DEF AgreeStart, Start
<1>3. ASSUME NEW t \in Threads, ThreadStep(t) PROVE CountType' /\ FlagType'
  BY <1>3 DEF ThreadStep, Test, Read, StoreCount, Count, StoreFirst, MoveFirst, Shift, Note,
     Save, Write
<1>4. CASE GetStart
  BY <1>4 DEF GetStart, Start
<1>5. CASE DeleteAllBellLogs
  BY <1>5 DEF DeleteAllBellLogs, Start
<1>6. ASSUME NEW id \in Ids, DeleteBellLog(id) PROVE CountType' /\ FlagType'
  BY <1>6 DEF DeleteBellLog, Start
<1>7. CASE PowerFails
  <2>1. CountType'
    BY <1>7 DEF PowerFails
  <2>2. bBellLogInited' = FALSE /\ UNCHANGED history
    BY <1>7 DEF PowerFails
  <2> QED BY <2>1, <2>2, Zenon
<1>8. CASE UNCHANGED vars
  BY <1>8 DEF vars
<1> QED BY <1>1, <1>2, <1>3, <1>4, <1>5, <1>6, <1>7, <1>8 DEF Next
-----------------------------------------------------------------------------
(***************************************************************************)
(* The window.                                                             *)
(***************************************************************************)
\* Until the log is spoiled one operation at a time is under way, the window is within the
\* array and full when it has moved, and what a thread saw of it still holds.
Whole(L) == L \in Logs /\ Window(L) /\ (L.nFirst > 0 => L.nCount = N)

Alone == \A t, u \in Threads : step[t] # "idle" /\ step[u] # "idle" => t = u

Seen ==
  \A t \in Threads :
    /\ step[t] = "count" => BellLog.nCount < N /\ BellLog.nFirst = 0
    /\ step[t] = "first" => BellLog.nCount = N /\ BellLog.nFirst < N

Kept == ~spoiled => ~raced /\ Whole(BellLog) /\ Whole(file) /\ Alone /\ Seen

IInv == TypeOK /\ Kept

LEMMA WholeEmpty == Whole(Empty)
  BY BellLogAssumption DEF Whole, Logs, Window, Empty, Blank, Item, Items, Ids, Slots

\* One operation begins: alone, or the log is spoiled.
LEMMA StartAlone ==
  ASSUME IInv, NEW t \in Threads, NEW id, NEW ops, NEW s \in Steps \ {"count", "first"},
         Start(t, id, ops), step' = [step EXCEPT ![t] = s], ~spoiled, ~raced'
  PROVE  Alone' /\ \A u \in Threads : step'[u] \notin {"count", "first"}
<1>1. step \in [Threads -> Steps] /\ \A u \in Threads : step[u] = "idle"
  BY DEF IInv, TypeOK, ThreadType, Start
<1> QED BY <1>1 DEF Alone

\* A step of a thread that leaves nobody else busy, and stores what the window allows.
LEMMA StepAlone ==
  ASSUME IInv, NEW t \in Threads, step[t] # "idle", ~spoiled,
         NEW s \in Steps, step' = [step EXCEPT ![t] = s]
  PROVE  Alone' /\ \A u \in Threads \ {t} : step[u] = "idle" /\ step'[u] = "idle"
<1>1. step \in [Threads -> Steps] /\ Alone
  BY DEF IInv, TypeOK, ThreadType, Kept
<1> QED BY <1>1 DEF Alone

LEMMA GoneAlone ==
  ASSUME IInv, NEW t \in Threads, step[t] # "idle", ~spoiled, Done(t)
  PROVE  Alone' /\ \A u \in Threads : step'[u] \notin {"count", "first"}
<1> DEFINE s == IF Len(todo[t]) = 1 THEN "idle" ELSE First[todo[t][2]]
<1>1. step' = [step EXCEPT ![t] = s] /\ ThreadType'
  BY DoneType DEF Done, IInv, TypeOK
<1>2. step \in [Threads -> Steps] /\ step' \in [Threads -> Steps]
  BY <1>1 DEF IInv, TypeOK, ThreadType
<1>3. s \in Steps /\ s = step'[t]
  BY <1>1, <1>2
<1>4. s \notin {"count", "first"}
  <2>1. todo[t] \in Todos
    BY DEF IInv, TypeOK, ThreadType
  <2>2. CASE todo[t] = <<"append", "alarm">>
    BY <2>2 DEF First
  <2>3. CASE todo[t] = <<"append", "append", "alarm">>
    BY <2>3 DEF First
  <2>4. ASSUME NEW op, todo[t] = <<op>> PROVE s \notin {"count", "first"}
    BY <2>4
  <2>5. todo[t] # <<>>
    BY DEF IInv, TypeOK, ThreadType
  <2> QED BY <2>1, <2>2, <2>3, <2>4, <2>5 DEF Todos, Handlers
<1>5. Alone' /\ \A u \in Threads \ {t} : step'[u] = "idle"
  BY <1>1, <1>3, StepAlone
<1> QED BY <1>3, <1>4, <1>5

\* The newest entry is deleted, and what is behind it blanked.
LEMMA DeletedIs ==
  ASSUME Whole(BellLog), NEW id \in Ids, BellLog.nFirst = 0,
         Named(BellLog, id) = {BellLog.nCount - 1}
  PROVE  LET M == Deleted(BellLog, id) IN
         /\ M \in Logs /\ M.nCount = BellLog.nCount - 1 /\ M.nFirst = 0
         /\ M.nCount >= 0 /\ M.nCount <= N
         /\ \A j \in Slots : j < BellLog.nCount - 1 => M.oItems[j] = BellLog.oItems[j]
<1> DEFINE L == BellLog
           i == L.nCount - 1
           once == Drop(L, i)
<1>1. L.nCount \in 0 .. N /\ L.oItems \in [Slots -> Items] /\ L.nFirst = 0
  BY BellLogAssumption DEF Whole, Logs, Window
<1>2. i \in Slots /\ i < N /\ i >= 0
  BY <1>1, BellLogAssumption DEF Named, Used, Slots
<1>3. Lowest(Named(L, id)) = i
  BY DEF Lowest
<1>4. /\ once.nCount = L.nCount - 1 /\ once.nFirst = 0
      /\ once.oItems = [L.oItems EXCEPT ![i] = Blank]
  BY <1>1, <1>2 DEF Drop
<1>5. Named(once, id) = {}
  <2> SUFFICES ASSUME NEW j \in Slots, j < L.nCount - 1, once.oItems[j].id = id
               PROVE  FALSE
    BY <1>1, <1>4 DEF Named, Used
  <2>1. j # i /\ j \in Int
    BY <1>1 DEF Slots
  <2>2. L.oItems[j].id = id
    BY <1>1, <1>4, <2>1
  <2>3. j \in Named(L, id)
    BY <1>1, <2>2, BellLogAssumption DEF Named, Used, Slots
  <2> QED BY <2>1, <2>3
<1>6. Deleted(L, id) = Close(once, i)
  <2>1. once.nCount + once.nFirst = i
    BY <1>1, <1>4
  <2>2. Deleted(L, id) = IF Named(once, id) = {} THEN Close(once, once.nCount + once.nFirst)
                         ELSE Deleted(L, id)
    BY <1>3, <1>5 DEF Deleted
  <2> QED BY <1>5, <2>1, <2>2
<1>7. Close(once, i) =
        [once EXCEPT !.oItems = [j \in Slots |-> IF j = i + 1 THEN Blank ELSE once.oItems[j]]]
  <2> DEFINE last == once.nCount + once.nFirst - 2
             next == IF i < last THEN last + 1 ELSE i + 1
  <2>1. last = i - 2 /\ i \in Int
    BY <1>1, <1>4
  <2>2. next = i + 1 /\ \A j \in Slots : ~(i <= j /\ j < last)
    BY <2>1 DEF Slots
  <2>3. Close(once, i) =
          [once EXCEPT !.oItems = [j \in Slots |-> CASE j = next -> Blank
                                                     [] i <= j /\ j < last -> @[j + 1]
                                                     [] OTHER -> @[j]]]
    BY DEF Close
  <2> HIDE DEF last, next
  <2>4. ASSUME NEW j \in Slots
        PROVE  (CASE j = next -> Blank
                  [] i <= j /\ j < last -> once.oItems[j + 1]
                  [] OTHER -> once.oItems[j])
               = IF j = i + 1 THEN Blank ELSE once.oItems[j]
    BY <2>2
  <2> QED BY <2>3, <2>4
<1>8. Blank \in Items
  BY DEF Blank, Item, Items
<1>9. once \in Logs /\ once.nCount >= 0 /\ once.nCount <= N
  BY <1>1, <1>2, <1>4, <1>8, BellLogAssumption DEF Drop, Logs
<1> DEFINE M == Close(once, i)
<1>10. /\ M \in Logs /\ M.nCount = once.nCount /\ M.nFirst = once.nFirst
       /\ \A j \in Slots : j < i => M.oItems[j] = once.oItems[j]
  <2> DEFINE items == [j \in Slots |-> IF j = i + 1 THEN Blank ELSE once.oItems[j]]
  <2> HIDE DEF once
  <2>1. once.oItems \in [Slots -> Items]
    BY <1>9 DEF Logs
  <2>2. items \in [Slots -> Items] /\ \A j \in Slots : j < i => items[j] = once.oItems[j]
    <3>1. \A j \in Slots : j < i => j # i + 1
      BY <1>1, BellLogAssumption DEF Slots
    <3> HIDE DEF i
    <3> QED BY <1>8, <2>1, <3>1
  <2>3. M = [once EXCEPT !.oItems = items]
    BY <1>7
  <2> HIDE DEF items, M
  <2> QED BY <1>9, <2>2, <2>3 DEF Logs
<1>11. ASSUME NEW j \in Slots, j < i PROVE once.oItems[j] = L.oItems[j]
  <2>1. j # i
    BY <1>1, <1>11 DEF Slots
  <2>2. [L.oItems EXCEPT ![i] = Blank][j] = L.oItems[j]
    BY <1>1, <2>1
  <2> QED BY <1>4, <2>2
<1> HIDE DEF once
<1> QED BY <1>1, <1>4, <1>6, <1>9, <1>10, <1>11

LEMMA DeleteWhole ==
  ASSUME Whole(BellLog), NEW id \in Ids, BellLog.nFirst = 0,
         Named(BellLog, id) = {BellLog.nCount - 1}
  PROVE  Whole(Deleted(BellLog, id))
BY DeletedIs, BellLogAssumption DEF Whole, Logs, Window

\* The handlers that begin by leaving the window alone.
LEMMA StartKept ==
  ASSUME IInv, NEW t \in Threads, NEW id, NEW ops, NEW s \in Steps \ {"count", "first"},
         Start(t, id, ops), step' = [step EXCEPT ![t] = s], ~spoiled, ~raced',
         Whole(BellLog'), file' = file
  PROVE  Kept'
<1>1. Alone' /\ \A u \in Threads : step'[u] \notin {"count", "first"}
  BY StartAlone
<1> QED BY <1>1 DEF IInv, Kept, Whole, Logs, Window, Seen

\* An entry is written.
LEMMA StoreWhole ==
  ASSUME IInv, ~spoiled, NEW i, NEW t \in Threads,
         BellLog' = [BellLog EXCEPT !.oItems[i] = New(t)]
  PROVE  Whole(BellLog') /\ BellLog'.nCount = BellLog.nCount /\ BellLog'.nFirst = BellLog.nFirst
<1>1. New(t) \in Items
  BY DEF New, Item, Items, IInv, TypeOK, ThreadType
<1>2. Whole(BellLog)
  BY DEF IInv, Kept
<1> QED BY <1>1, <1>2 DEF Whole, Logs, Window

LEMMA StepKept ==
  ASSUME IInv, NEW t \in Threads, ThreadStep(t)
  PROVE  Kept'
<1> SUFFICES ASSUME ~spoiled' PROVE Kept'
  BY DEF Kept
<1>0. /\ ~spoiled /\ UNCHANGED history /\ ~raced /\ step \in [Threads -> Steps]
      /\ Whole(BellLog) /\ Whole(file) /\ Alone /\ Seen
  BY DEF ThreadStep, Test, Read, StoreCount, Count, StoreFirst, MoveFirst, Shift, Note, Save,
     Write, history, IInv, Kept, TypeOK, ThreadType
\* A handler or operation is over, and the window and the file are whole.
<1>a. ASSUME Done(t), step[t] # "idle", Whole(BellLog'), Whole(file') PROVE Kept'
  <2>1. Alone' /\ \A u \in Threads : step'[u] \notin {"count", "first"}
    BY <1>a, <1>0, GoneAlone
  <2> QED BY <1>a, <1>0, <2>1 DEF Kept, Seen, history
\* It goes on, with what the next control point relies on.
<1>b. ASSUME NEW s \in Steps, Goto(t, s), step[t] # "idle", Whole(BellLog'), Whole(file'),
             s = "count" => BellLog'.nCount < N /\ BellLog'.nFirst = 0,
             s = "first" => BellLog'.nCount = N /\ BellLog'.nFirst < N
      PROVE  Kept'
  <2>1. step' = [step EXCEPT ![t] = s] /\ step'[t] = s
    BY <1>b, <1>0 DEF Goto
  <2>2. Alone' /\ \A u \in Threads \ {t} : step'[u] = "idle"
    BY <1>b, <1>0, <2>1, StepAlone
  <2>3. Seen'
    BY <1>b, <2>1, <2>2 DEF Seen
  <2> QED BY <1>b, <1>0, <2>2, <2>3 DEF Kept, history
<1> USE DEF Steps
<1>1. CASE Test(t)
  BY <1>1, <1>0, <1>a, <1>b DEF Test
<1>2. CASE Read(t)
  BY <1>2, <1>0, <1>a, <1>b DEF Read
<1>3. CASE StoreCount(t)
  <2>1. BellLog.nCount < N /\ BellLog.nFirst = 0 /\ file' = file
    BY <1>3, <1>0 DEF StoreCount, Whole, Window, Logs
  <2>2. Whole(BellLog') /\ BellLog'.nCount = BellLog.nCount /\ BellLog'.nFirst = BellLog.nFirst
    BY <1>3, <1>0, StoreWhole DEF StoreCount
  <2> QED BY <1>3, <1>0, <1>b, <2>1, <2>2 DEF StoreCount
<1>4. CASE Count(t)
  <2>1. BellLog.nCount < N /\ BellLog.nFirst = 0
    BY <1>4, <1>0 DEF Count, Seen
  <2>2. Whole(BellLog')
    BY <1>4, <1>0, <2>1, BellLogAssumption DEF Count, Whole, Window, Logs
  <2> QED BY <1>4, <1>0, <1>b, <2>2 DEF Count
<1>5. CASE StoreFirst(t)
  <2>1. BellLog.nCount = N /\ BellLog.nFirst < N /\ file' = file
    BY <1>5, <1>0, BellLogAssumption DEF StoreFirst, Whole, Window, Logs
  <2>2. Whole(BellLog') /\ BellLog'.nCount = BellLog.nCount /\ BellLog'.nFirst = BellLog.nFirst
    BY <1>5, <1>0, StoreWhole DEF StoreFirst
  <2> QED BY <1>5, <1>0, <1>b, <2>1, <2>2 DEF StoreFirst
<1>6. CASE MoveFirst(t)
  <2>1. BellLog.nCount = N /\ BellLog.nFirst < N
    BY <1>6, <1>0 DEF MoveFirst, Seen
  <2>2. Whole(BellLog')
    BY <1>6, <1>0, <2>1, BellLogAssumption DEF MoveFirst, Whole, Window, Logs
  <2> QED BY <1>6, <1>0, <1>b, <2>2 DEF MoveFirst
<1>7. CASE Shift(t)
  <2>1. BellLog.nCount = N /\ New(t) \in Items
    BY <1>7, <1>0, BellLogAssumption
    DEF Shift, Whole, Window, Logs, New, Item, Items, IInv, TypeOK, ThreadType
  <2> DEFINE Moved(i) == CASE i < N - 1 -> BellLog.oItems[N + 1 + i] [] i = N - 1 -> New(t)
                           [] OTHER -> BellLog.oItems[i]
  <2>2. ASSUME NEW i \in Slots PROVE Moved(i) \in Items
    <3>1. BellLog.oItems \in [Slots -> Items] /\ N \in Nat /\ i \in 0 .. 2 * N - 1
      BY <1>0, BellLogAssumption DEF Whole, Logs, Slots
    <3>2. CASE i < N - 1
      <4>1. N + 1 + i \in Slots
        BY <3>1, <3>2 DEF Slots
      <4> QED BY <3>1, <3>2, <4>1
    <3>3. CASE i = N - 1
      BY <3>1, <3>3, <2>1
    <3>4. CASE ~(i < N - 1) /\ i # N - 1
      BY <3>1, <3>4
    <3> QED BY <3>2, <3>3, <3>4
  <2>3. Whole(BellLog')
    <3>1. BellLog' = [BellLog EXCEPT !.nFirst = 0, !.oItems = [i \in Slots |-> Moved(i)]]
      BY <1>7 DEF Shift
    <3>2. [i \in Slots |-> Moved(i)] \in [Slots -> Items]
      BY <2>2
    <3> DEFINE items == [i \in Slots |-> Moved(i)]
    <3>3. BellLog' = [BellLog EXCEPT !.nFirst = 0, !.oItems = items] /\ items \in [Slots -> Items]
      BY <3>1, <3>2
    <3> HIDE DEF items
    <3>4. BellLog' = [nCount |-> N, nFirst |-> 0, oItems |-> items]
      BY <1>0, <2>1, <3>3 DEF Whole, Logs
    <3>5. ASSUME NEW L, L = [nCount |-> N, nFirst |-> 0, oItems |-> items] PROVE Whole(L)
      BY <3>3, <3>5, BellLogAssumption DEF Whole, Window, Logs
    <3> QED BY <3>4, <3>5
  <2> QED BY <1>7, <1>0, <1>b, <2>3 DEF Shift
<1>8. CASE Note(t)
  <2>1. Head(todo[t]) \in {"alarm", "agree"}
    <3>1. todo[t] \in {<<"alarm">>, <<"agree">>}
      BY <1>8 DEF Note, IInv, TypeOK, ThreadType
    <3> QED BY <3>1
  <2>2. Whole(BellLog')
    BY <1>8, <1>0, <2>1 DEF Note, Whole, Window, Logs, Items
  <2> QED BY <1>8, <1>0, <1>a, <1>b, <2>2 DEF Note
<1>9. CASE Save(t)
  BY <1>9, <1>0, <1>b DEF Save
<1>10. CASE Write(t)
  BY <1>10, <1>0, <1>a DEF Write
<1> QED BY <1>1, <1>2, <1>3, <1>4, <1>5, <1>6, <1>7, <1>8, <1>9, <1>10 DEF ThreadStep

LEMMA KeptKept == IInv /\ [Next]_vars => Kept'
<1> SUFFICES ASSUME IInv, [Next]_vars, ~spoiled' PROVE Kept'
  BY DEF Kept
<1> USE DEF Steps
<1>1. ASSUME NEW t \in Threads, RingStart(t) PROVE Kept'
  BY <1>1, StartKept DEF RingStart, IInv, Kept
<1>2. ASSUME NEW t \in Threads, AgreeStart(t) PROVE Kept'
  BY <1>2, StartKept DEF AgreeStart, IInv, Kept
<1>3. ASSUME NEW t \in Threads, ThreadStep(t) PROVE Kept'
  BY <1>3, StepKept
<1>4. CASE GetStart
  BY <1>4, StartKept DEF GetStart, Threads, IInv, Kept
<1>5. CASE DeleteAllBellLogs
  BY <1>5, StartKept, WholeEmpty DEF DeleteAllBellLogs, Threads, IInv, Kept
<1>6. ASSUME NEW id \in Ids, DeleteBellLog(id) PROVE Kept'
  <2>1. /\ ~spoiled /\ ~raced' /\ ~(BellLog.nFirst > 0) /\ Cmd \in Threads
        /\ Named(BellLog, id) = {BellLog.nCount - 1}
    BY <1>6 DEF DeleteBellLog, Threads
  <2>2. Whole(BellLog) /\ BellLog.nFirst = 0
    BY <2>1 DEF IInv, Kept, Whole, Window, Logs
  <2>3. Whole(BellLog')
    BY <1>6, <2>1, <2>2, DeleteWhole DEF DeleteBellLog
  <2> QED BY <1>6, <2>1, <2>3, StartKept DEF DeleteBellLog
<1>7. CASE PowerFails
  <2>1. ~spoiled /\ ~raced /\ ~raced' /\ Whole(BellLog) /\ Whole(file)
    BY <1>7 DEF PowerFails, history, IInv, Kept
  <2>2. ASSUME NEW L \in Torn(BellLog) PROVE Whole(L)
    BY <2>1, <2>2, WholeEmpty DEF Torn, Whole, Window, Logs, Blank, Item, Items
  <2>3. Whole(BellLog') /\ Whole(file')
    BY <1>7, <2>1, <2>2, WholeEmpty DEF PowerFails
  <2>4. Alone' /\ Seen'
    BY <1>7 DEF PowerFails, Alone, Seen
  <2> QED BY <2>1, <2>3, <2>4 DEF Kept
<1>8. CASE UNCHANGED vars
  BY <1>8 DEF vars, thread, history, IInv, Kept, Alone, Seen
<1> QED BY <1>1, <1>2, <1>3, <1>4, <1>5, <1>6, <1>7, <1>8 DEF Next

LEMMA KeptTypes == Kept => LogType
  BY DEF Kept, Whole, LogType

LEMMA InitIInv == Init => IInv
<1> SUFFICES ASSUME Init PROVE IInv
  OBVIOUS
<1>1. Kept
  BY WholeEmpty DEF Init, Kept, Alone, Seen
<1>2. ThreadType
  BY DEF Init, ThreadType, Steps, Todos
<1>3. CountType
  BY BellLogAssumption DEF Init, CountType
<1>4. FlagType
  BY DEF Init, FlagType
<1> QED BY <1>1, <1>2, <1>3, <1>4, KeptTypes DEF IInv, TypeOK

LEMMA Invariance == Spec => []IInv
<1>1. IInv /\ [Next]_vars => IInv'
  <2> SUFFICES ASSUME IInv, [Next]_vars PROVE IInv'
    OBVIOUS
  <2>1. Kept'
    BY KeptKept
  <2>2. LogType'
    BY <2>1, KeptTypes, PTL
  <2> QED BY <2>1, <2>2, ThreadTypeKept, CountsKept DEF IInv, TypeOK
<1> QED BY <1>1, InitIInv, PTL DEF Spec

\* The log, its file and the operations under way keep their types, for every size of the
\* array and every number of threads that ring.
THEOREM LogTypeCorrect == Spec => []TypeOK
<1>1. IInv => TypeOK
  BY DEF IInv
<1> QED BY <1>1, Invariance, PTL

\* AppendBellLog stores within oItems[], for every size of the array, as long as operations
\* do not overlap and only the newest ring is deleted.
THEOREM LogInArray == Spec => []InArray
<1>1. IInv => InArray
  BY DEF IInv, Kept, Whole, InArray
<1> QED BY <1>1, Invariance, PTL
-----------------------------------------------------------------------------
(***************************************************************************)
(* The refinement.                                                         *)
(***************************************************************************)
\* A thread that appends or notes has a ring to do it for.
Ringing ==
  \A t \in Threads :
    /\ todo[t] \notin {<<>>, <<"get">>, <<"clear">>} => ring[t] \in Ids
    /\ step[t] \in {"store", "count", "first"} => todo[t] \notin {<<>>, <<"get">>, <<"clear">>}
    /\ step[t] \in {"test", "read"} => todo[t] # <<"clear">>

\* Nothing is in the window before the file has been read, and nothing is saved before but
\* the log that has been deleted whole; what a thread has stored at the
\* end of the window is there when it counts it.
Loading ==
  ~spoiled =>
    /\ ~bBellLogInited => BellLog = Empty
    /\ \A t \in Threads :
         /\ step[t] \in {"read", "store", "count", "first"} => bBellLogInited
         /\ step[t] \in {"save", "write"} => bBellLogInited \/ Clearing
         /\ step[t] = "count" => BellLog.oItems[BellLog.nCount] = New(t)
         /\ step[t] = "first" => BellLog.oItems[BellLog.nCount + BellLog.nFirst] = New(t)

\* Where a thread goes when an operation is over.
LEMMA DoneTo ==
  ASSUME IInv, NEW t \in Threads, step[t] # "idle", Done(t)
  PROVE  /\ step'[t] \in {"idle", "test", "note"} /\ ring' = ring
         /\ \A u \in Threads : u # t => step'[u] = step[u] /\ todo'[u] = todo[u]
         /\ todo'[t] \notin {<<"get">>, <<"clear">>}
         /\ todo'[t] # <<>> => todo[t] \notin {<<>>, <<"get">>, <<"clear">>}
<1> DEFINE s == IF Len(todo[t]) = 1 THEN "idle" ELSE First[todo[t][2]]
<1>1. /\ step'[t] = s /\ todo'[t] = Tail(todo[t])
      /\ \A u \in Threads : u # t => step'[u] = step[u] /\ todo'[u] = todo[u]
  BY DEF Done, IInv, TypeOK, ThreadType
<1>2. todo[t] \in Todos \ {<<>>}
  BY DEF IInv, TypeOK, ThreadType
<1>3. CASE todo[t] = <<"append", "alarm">>
  <2>1. Len(todo[t]) = 2 /\ Tail(todo[t]) = <<"alarm">> /\ todo[t][2] = "alarm"
    BY <1>3
  <2> QED BY <1>1, <1>3, <2>1 DEF First, Done
<1>4. CASE todo[t] = <<"append", "append", "alarm">>
  <2>1. /\ Len(todo[t]) = 3 /\ Tail(todo[t]) = <<"append", "alarm">>
        /\ todo[t][2] = "append"
    BY <1>4
  <2> QED BY <1>1, <1>4, <2>1 DEF First, Done
<1>5. CASE \E op : todo[t] = <<op>>
  <2>1. Len(todo[t]) = 1 /\ Tail(todo[t]) = <<>>
    BY <1>5
  <2>2. todo'[t] = <<>> /\ todo'[t] # <<"get">> /\ todo'[t] # <<"clear">>
    BY <1>1, <2>1
  <2>3. step'[t] = "idle" /\ ring' = ring
    BY <1>1, <2>1 DEF Done
  <2> QED BY <1>1, <2>2, <2>3
<1>6. \/ todo[t] \in {<<"append", "alarm">>, <<"append", "append", "alarm">>}
      \/ \E op \in {"append", "alarm", "agree", "get", "clear", "delete"} : todo[t] = <<op>>
  BY <1>2, Zenon DEF Todos, Handlers
<1> QED BY <1>3, <1>4, <1>5, <1>6

LEMMA RingingKept == IInv /\ Ringing /\ [Next]_vars => Ringing'
<1> SUFFICES ASSUME IInv, Ringing, [Next]_vars PROVE Ringing'
  OBVIOUS
<1>0. /\ step \in [Threads -> Steps] /\ todo \in [Threads -> Todos]
      /\ ring \in [Threads -> Ids \cup {0}]
  BY DEF IInv, TypeOK, ThreadType
\* A handler begins with an operation of these.
<1>a. ASSUME NEW t \in Threads, NEW id, NEW ops, NEW s, Start(t, id, ops),
             step' = [step EXCEPT ![t] = s], s \notin {"store", "count", "first"},
             ops \notin {<<>>, <<"get">>, <<"clear">>} => id \in Ids,
             s = "save" \/ ops # <<"clear">>
      PROVE  Ringing'
  BY <1>0, <1>a DEF Start, Ringing
<1>b. ASSUME NEW t \in Threads, step[t] # "idle", Done(t) PROVE Ringing'
  BY <1>b, DoneTo DEF Ringing
<1>c. ASSUME NEW t \in Threads, NEW s, Goto(t, s),
             s \in {"store", "count", "first"} => todo[t] \notin {<<>>, <<"get">>, <<"clear">>},
             s = "read" => todo[t] # <<"clear">>, s # "test"
      PROVE  Ringing'
  BY <1>0, <1>c DEF Goto, Ringing
<1>1. ASSUME NEW t \in Threads, RingStart(t) PROVE Ringing'
  <2>1. rings' \in Ids
    BY <1>1, BellLogAssumption DEF RingStart, IInv, TypeOK, CountType, Ids
  <2>2. PICK ops \in Handlers : Start(t, rings', ops)
    BY <1>1 DEF RingStart
  <2>3. ops # <<"clear">>
    BY DEF Handlers
  <2> QED BY <1>1, <1>a, <2>1, <2>2, <2>3 DEF RingStart
<1>2. ASSUME NEW t \in Threads, AgreeStart(t) PROVE Ringing'
  <2>1. rings \in Ids
    BY <1>2 DEF AgreeStart, IInv, TypeOK, CountType, Ids
  <2> QED BY <1>2, <1>a, <2>1 DEF AgreeStart
<1>3. ASSUME NEW t \in Threads, ThreadStep(t) PROVE Ringing'
  <2>1. step[t] \in {"test", "read"} /\ todo[t] # <<"get">> =>
          todo[t] \notin {<<>>, <<"get">>, <<"clear">>}
    BY DEF Ringing, IInv, TypeOK, ThreadType
  <2> QED BY <1>3, <1>b, <1>c, <2>1 DEF ThreadStep, Test, Read, StoreCount, Count, StoreFirst,
       MoveFirst, Shift, Note, Save, Write, Ringing
<1>4. CASE GetStart
  BY <1>4, <1>a DEF GetStart, Threads
<1>5. CASE DeleteAllBellLogs
  BY <1>5, <1>a DEF DeleteAllBellLogs, Threads
<1>6. ASSUME NEW id \in Ids, DeleteBellLog(id) PROVE Ringing'
  BY <1>6, <1>a DEF DeleteBellLog, Threads
<1>7. CASE PowerFails
  BY <1>7 DEF PowerFails, Ringing
<1>8. CASE UNCHANGED vars
  BY <1>8 DEF vars, thread, Ringing
<1> QED BY <1>1, <1>2, <1>3, <1>4, <1>5, <1>6, <1>7, <1>8 DEF Next

LEMMA LoadingKept == IInv /\ Loading /\ [Next]_vars => Loading'
<1> SUFFICES ASSUME IInv, Loading, [Next]_vars, ~spoiled' PROVE Loading'
  BY DEF Loading
<1>0. /\ step \in [Threads -> Steps] /\ todo \in [Threads -> Todos]
      /\ ring \in [Threads -> Ids \cup {0}]
  BY DEF IInv, TypeOK, ThreadType
<1>a. ASSUME NEW t \in Threads, NEW id, NEW ops, NEW s, Start(t, id, ops),
             step' = [step EXCEPT ![t] = s], s \notin {"read", "store", "count", "first"},
             s \in {"save", "write"} => bBellLogInited \/ Clearing',
             ~spoiled, ~raced', bBellLogInited' = bBellLogInited,
             BellLog' = BellLog \/ (~bBellLogInited => BellLog' = Empty)
      PROVE  Loading'
  <2>1. \A u \in Threads : step[u] = "idle"
    BY <1>a DEF Start
  <2>2. /\ step'[t] = s /\ \A u \in Threads : u # t => step'[u] = "idle"
        /\ \A u \in Threads : step'[u] \notin {"read", "store", "count", "first"}
    BY <1>0, <1>a, <2>1
  <2> QED BY <1>a, <2>2 DEF Loading
<1>1. ASSUME NEW t \in Threads, RingStart(t) PROVE Loading'
  BY <1>1, <1>a DEF RingStart
<1>2. ASSUME NEW t \in Threads, AgreeStart(t) PROVE Loading'
  BY <1>2, <1>a DEF AgreeStart
<1>3. ASSUME NEW t \in Threads, ThreadStep(t) PROVE Loading'
  <2>1. /\ ~spoiled /\ step[t] # "idle" /\ ring' = ring
        /\ \A u \in Threads : u # t => step[u] = "idle" /\ step'[u] = step[u]
    <3>1. /\ ~spoiled /\ step[t] # "idle" /\ ring' = ring
          /\ \A u \in Threads : u # t => step'[u] = step[u]
      BY <1>0, <1>3 DEF ThreadStep, Test, Read, StoreCount, Count, StoreFirst, MoveFirst, Shift,
         Note, Save, Write, history, Goto, Done
    <3> QED BY <3>1 DEF IInv, Kept, Alone
  <2>2. /\ Done(t) => step'[t] \in {"idle", "test", "note"}
        /\ \A s : Goto(t, s) => step'[t] = s /\ (Clearing' <=> Clearing)
    BY <1>0, <2>1, DoneTo DEF Goto, Clearing
  <2>3. Whole(BellLog) /\ Seen
    BY <2>1 DEF IInv, Kept
  <2>4. CASE Test(t)
    BY <2>1, <2>2, <2>4 DEF Test, Loading
  <2>5. CASE Read(t)
    BY <2>1, <2>2, <2>5 DEF Read, Loading
  <2>6. CASE StoreCount(t)
    <3>1. BellLog.nCount \in Slots
      BY <2>3, <2>6, BellLogAssumption DEF StoreCount, Whole, Logs, Window, Slots
    <3>2. BellLog'.nCount = BellLog.nCount /\ BellLog'.oItems[BellLog.nCount] = New(t)
      BY <2>3, <2>6, <3>1 DEF StoreCount, Whole, Logs
    <3>3. New(t)' = New(t)
      BY <2>1 DEF New
    <3> QED BY <2>1, <2>2, <2>6, <3>2, <3>3 DEF StoreCount, Loading
  <2>7. CASE StoreFirst(t)
    <3>1. BellLog.nCount + BellLog.nFirst \in Slots
      BY <2>3, <2>7, BellLogAssumption DEF StoreFirst, Whole, Logs, Window, Slots
    <3>2. /\ BellLog'.nCount = BellLog.nCount /\ BellLog'.nFirst = BellLog.nFirst
          /\ BellLog'.oItems[BellLog.nCount + BellLog.nFirst] = New(t)
      BY <2>3, <2>7, <3>1 DEF StoreFirst, Whole, Logs
    <3>3. New(t)' = New(t)
      BY <2>1 DEF New
    <3> QED BY <2>1, <2>2, <2>7, <3>2, <3>3 DEF StoreFirst, Loading
  <2>8. CASE Count(t)
    BY <2>1, <2>2, <2>8 DEF Count, Loading
  <2>9. CASE MoveFirst(t)
    BY <2>1, <2>2, <2>9 DEF MoveFirst, Loading
  <2>10. CASE Shift(t)
    BY <2>1, <2>2, <2>10 DEF Shift, Loading
  <2>11. CASE Note(t)
    <3>1. ~bBellLogInited => Noted(t) = {}
      BY <2>1 DEF Loading, Noted, Empty, Slots
    <3> QED BY <2>1, <2>2, <2>11, <3>1 DEF Note, Loading
  <2>12. CASE Save(t)
    BY <2>1, <2>2, <2>12 DEF Save, Loading
  <2>13. CASE Write(t)
    BY <2>1, <2>2, <2>13 DEF Write, Loading
  <2> QED BY <1>3, <2>4, <2>5, <2>6, <2>7, <2>8, <2>9, <2>10, <2>11, <2>12, <2>13 DEF ThreadStep
<1>4. CASE GetStart
  BY <1>4, <1>a DEF GetStart, Threads
<1>5. CASE DeleteAllBellLogs
  <2>1. Cmd \in Threads /\ Clearing'
    BY <1>0, <1>5 DEF DeleteAllBellLogs, Start, Clearing, Threads
  <2> QED BY <1>5, <1>a, <2>1 DEF DeleteAllBellLogs
<1>6. ASSUME NEW id \in Ids, DeleteBellLog(id) PROVE Loading'
  <2>1. ~bBellLogInited /\ ~spoiled => Named(BellLog, id) = {}
    BY DEF Loading, Named, Used, Empty, Slots
  <2> QED BY <1>6, <1>a, <2>1 DEF DeleteBellLog, Threads
<1>7. CASE PowerFails
  BY <1>7 DEF PowerFails, Loading
<1>8. CASE UNCHANGED vars
  BY <1>8 DEF vars, thread, history, Loading, New, Clearing
<1> QED BY <1>1, <1>2, <1>3, <1>4, <1>5, <1>6, <1>7, <1>8 DEF Next

LEMMA ListingIs ==
  ASSUME NEW L, Whole(L)
  PROVE  /\ L.nCount \in 0 .. N /\ L.nFirst \in 0 .. N /\ L.oItems \in [Slots -> Items]
         /\ Listing(L) \in Seq(Items) /\ Len(Listing(L)) = L.nCount
         /\ DOMAIN Listing(L) = 1 .. L.nCount
         /\ \A i \in 1 .. L.nCount :
              L.nFirst + i - 1 \in Slots /\ Listing(L)[i] = L.oItems[L.nFirst + i - 1]
<1>1. /\ L.nCount \in 0 .. N /\ L.nFirst \in 0 .. N /\ L.oItems \in [Slots -> Items]
      /\ L.nFirst > 0 => L.nCount = N
  BY BellLogAssumption DEF Whole, Logs, Window
<1>2. ASSUME NEW i \in 1 .. L.nCount PROVE L.nFirst + i - 1 \in Slots
  BY <1>1, BellLogAssumption DEF Slots
<1>3. Listing(L) \in [1 .. L.nCount -> Items]
  BY <1>1, <1>2 DEF Listing
<1> QED BY <1>1, <1>2, <1>3 DEF Listing

\* Two listings of the same length with the same entries are the same.
LEMMA SameListing ==
  ASSUME NEW p \in Seq(Items), NEW q \in Seq(Items), Len(p) = Len(q),
         \A i \in 1 .. Len(p) : p[i] = q[i]
  PROVE  p = q
OBVIOUS

\* The newest of the N rings and one more.
LEMMA NewestIs ==
  ASSUME NEW s \in Seq(Items), NEW e \in Items, Len(s) <= N
  PROVE  LET new == Abstract!Newest(Append(s, e)) IN
         /\ new \in Seq(Items) /\ Len(new) = (IF Len(s) = N THEN N ELSE Len(s) + 1)
         /\ new[Len(new)] = e
         /\ \A i \in 1 .. Len(new) - 1 : new[i] = s[IF Len(s) = N THEN i + 1 ELSE i]
<1> DEFINE a == Append(s, e)
<1>1. /\ a \in Seq(Items) /\ Len(a) = Len(s) + 1 /\ a[Len(s) + 1] = e /\ Len(s) \in Nat
      /\ \A i \in 1 .. Len(s) : a[i] = s[i]
  OBVIOUS
<1> HIDE DEF a
<1>2. CASE Len(s) = N
  <2>1. Abstract!Newest(a) = Tail(a)
    BY <1>1, <1>2, BellLogAssumption DEF Abstract!Newest
  <2>2. /\ Tail(a) \in Seq(Items) /\ Len(Tail(a)) = N
        /\ \A i \in 1 .. N : Tail(a)[i] = a[i + 1]
    BY <1>1, <1>2, BellLogAssumption
  <2> QED BY <1>1, <1>2, <2>1, <2>2, BellLogAssumption DEF a
<1>3. CASE Len(s) # N
  <2>1. Abstract!Newest(a) = a
    BY <1>1, <1>3, BellLogAssumption DEF Abstract!Newest
  <2> QED BY <1>1, <1>3, <2>1, BellLogAssumption DEF a
<1> QED BY <1>2, <1>3

\* An entry outside the window is written.
LEMMA StoreOutside ==
  ASSUME NEW L, NEW M, Whole(L), Whole(M), NEW k, NEW e, k = L.nFirst + L.nCount,
         M = [L EXCEPT !.oItems[k] = e]
  PROVE  Listing(M) = Listing(L)
<1>1. M.nCount = L.nCount /\ M.nFirst = L.nFirst
  BY DEF Whole, Logs
<1>2. ASSUME NEW i \in 1 .. L.nCount PROVE Listing(M)[i] = Listing(L)[i]
  <2>1. L.nFirst + i - 1 # k
    BY ListingIs
  <2>2. M.oItems[L.nFirst + i - 1] = L.oItems[L.nFirst + i - 1]
    BY <2>1 DEF Whole, Logs
  <2> QED BY <1>1, <2>2, ListingIs
<1>3. /\ Listing(L) \in Seq(Items) /\ Len(Listing(L)) = L.nCount
      /\ Listing(M) \in Seq(Items) /\ Len(Listing(M)) = M.nCount
  BY ListingIs
<1> QED BY <1>1, <1>2, <1>3, SameListing

\* The entry that was written behind the window, or over the last of the shifted, is counted.
LEMMA Counted ==
  ASSUME NEW L, NEW M, Whole(L), Whole(M), NEW e \in Items,
         M.nCount = (IF L.nCount = N THEN N ELSE L.nCount + 1),
         M.oItems[M.nFirst + M.nCount - 1] = e,
         \A i \in 1 .. M.nCount - 1 :
           M.oItems[M.nFirst + i - 1] = L.oItems[L.nFirst + (IF L.nCount = N THEN i + 1 ELSE i) - 1]
  PROVE  Listing(M) = Abstract!Newest(Append(Listing(L), e))
<1> DEFINE new == Abstract!Newest(Append(Listing(L), e))
<1>1. /\ Listing(L) \in Seq(Items) /\ Len(Listing(L)) = L.nCount /\ L.nCount \in 0 .. N
      /\ Listing(M) \in Seq(Items) /\ Len(Listing(M)) = M.nCount /\ N \in Nat \ {0}
  BY ListingIs, BellLogAssumption
<1>2. /\ new \in Seq(Items) /\ Len(new) = M.nCount /\ new[M.nCount] = e
      /\ \A i \in 1 .. M.nCount - 1 : new[i] = Listing(L)[IF L.nCount = N THEN i + 1 ELSE i]
  <2>1. /\ new \in Seq(Items) /\ Len(new) = (IF L.nCount = N THEN N ELSE L.nCount + 1)
        /\ new[Len(new)] = e
        /\ \A i \in 1 .. Len(new) - 1 : new[i] = Listing(L)[IF L.nCount = N THEN i + 1 ELSE i]
    <3> HIDE DEF new
    <3>1. Len(Listing(L)) <= N
      BY <1>1
    <3>2. LET w == new IN
            /\ w \in Seq(Items)
            /\ Len(w) = (IF Len(Listing(L)) = N THEN N ELSE Len(Listing(L)) + 1)
            /\ w[Len(w)] = e
            /\ \A i \in 1 .. Len(w) - 1 :
                 w[i] = Listing(L)[IF Len(Listing(L)) = N THEN i + 1 ELSE i]
      BY <1>1, <3>1, NewestIs DEF new
    <3> QED BY <1>1, <3>2
  <2> QED BY <2>1
<1> HIDE DEF new
<1>3. ASSUME NEW i \in 1 .. M.nCount PROVE Listing(M)[i] = new[i]
  <2>1. Listing(M)[i] = M.oItems[M.nFirst + i - 1]
    BY ListingIs
  <2>2. CASE i = M.nCount
    BY <1>2, <2>1, <2>2
  <2>3. CASE i # M.nCount
    <3> DEFINE j == IF L.nCount = N THEN i + 1 ELSE i
    <3>1. j \in 1 .. L.nCount /\ i \in 1 .. M.nCount - 1
      BY <1>1, <2>3
    <3>2. Listing(L)[j] = L.oItems[L.nFirst + j - 1]
      BY <3>1, ListingIs
    <3> QED BY <1>2, <2>1, <3>1, <3>2
  <2> QED BY <2>2, <2>3
<1> QED BY <1>1, <1>2, <1>3, SameListing DEF new

Mapped == <<Sound(Log), Sound(Listing(file)), Copy, spoiled>>

\* A change of the log, the file being left for the save that follows.
Changed(new) ==
  Log' = new /\ Listing(file') = Listing(file) /\ Copy = "saved" /\ Copy' = "changed"

\* The steps of the abstract log, for a log that is not spoiled.
LEMMA MapsTo ==
  ASSUME ~spoiled, ~spoiled', spoiled \in BOOLEAN, spoiled' \in BOOLEAN
  PROVE  /\ Log' = Log /\ Listing(file') = Listing(file) /\ Copy' = Copy => UNCHANGED Mapped
         /\ \A id \in Ids :
              Changed(Abstract!Newest(Append(Log, Item(id, "timeout")))) => Abstract!Next
         /\ \A id \in Ids, status \in {"agree", "alarm"}, i \in DOMAIN Log :
              /\ Log[i].id = id /\ \A j \in DOMAIN Log : Log[j].id = id => j <= i
              /\ Changed([Log EXCEPT ![i].status = status])
              => Abstract!Next
         /\ Log # <<>> /\ Changed(SubSeq(Log, 1, Len(Log) - 1)) => Abstract!Next
         /\ Changed(<<>>) => Abstract!Next
         /\ /\ Log' = Log /\ Listing(file') = Listing(file)
            /\ Copy = "changed" /\ Copy' = "writing"
            => Abstract!Next
         /\ /\ Log' = Log /\ Listing(file') = Log
            /\ Copy = "writing" /\ Copy' = "saved"
            => Abstract!Next
         /\ /\ \/ Copy # "writing" /\ Listing(file') = Listing(file)
               \/ Copy = "writing" /\ Listing(file') \in {<<>>} \cup Abstract!Damaged(Log)
            /\ Log' = Listing(file') /\ Copy' = "saved"
            => Abstract!Next
<1>0. /\ Sound(Log) = Log /\ Sound(Log)' = Log'
      /\ Sound(Listing(file)) = Listing(file) /\ Sound(Listing(file))' = Listing(file')
      /\ spoiled' = spoiled
  BY DEF Sound
<1>1. Log' = Log /\ Listing(file') = Listing(file) /\ Copy' = Copy => UNCHANGED Mapped
  BY <1>0 DEF Mapped
<1>c. ASSUME NEW new, Changed(new) PROVE Abstract!Change(new)
  BY <1>0, <1>c DEF Changed, Abstract!Change
<1>2. ASSUME NEW id \in Ids, Changed(Abstract!Newest(Append(Log, Item(id, "timeout"))))
      PROVE  Abstract!Next
  <2>1. Abstract!Change(Abstract!Newest(Append(Log, Item(id, "timeout"))))
    BY <1>2, <1>c
  <2>2. Abstract!Ring(id)
    BY <1>0, <2>1 DEF Abstract!Ring, Item
  <2> QED BY <2>2 DEF Abstract!Next
<1>3. ASSUME NEW id \in Ids, NEW status \in {"agree", "alarm"}, NEW i \in DOMAIN Log,
             Log[i].id = id, \A j \in DOMAIN Log : Log[j].id = id => j <= i,
             Changed([Log EXCEPT ![i].status = status])
      PROVE  Abstract!Next
  <2>1. Abstract!Change([Log EXCEPT ![i].status = status])
    BY <1>3, <1>c
  <2>2. Abstract!Note(id, status)
    BY <1>0, <1>3, <2>1 DEF Abstract!Note
  <2>3. status \in Abstract!Statuses
    BY DEF Abstract!Statuses
  <2> QED BY <2>2, <2>3 DEF Abstract!Next
<1>4. ASSUME Log # <<>>, Changed(SubSeq(Log, 1, Len(Log) - 1)) PROVE Abstract!Next
  <2>1. Abstract!Change(SubSeq(Log, 1, Len(Log) - 1))
    BY <1>4, <1>c
  <2>2. Abstract!Retract
    BY <1>0, <1>4, <2>1 DEF Abstract!Retract
  <2> QED BY <2>2 DEF Abstract!Next
<1>5. ASSUME Changed(<<>>) PROVE Abstract!Next
  <2>1. Abstract!Clear
    BY <1>5, <1>c DEF Abstract!Clear
  <2> QED BY <2>1 DEF Abstract!Next
<1>6. ASSUME Log' = Log, Listing(file') = Listing(file), Copy = "changed", Copy' = "writing"
      PROVE  Abstract!Next
  <2>1. Abstract!BeginSave
    BY <1>0, <1>6 DEF Abstract!BeginSave
  <2> QED BY <2>1 DEF Abstract!Next
<1>7. ASSUME Log' = Log, Listing(file') = Log, Copy = "writing", Copy' = "saved"
      PROVE  Abstract!Next
  <2>1. Abstract!EndSave
    BY <1>0, <1>7 DEF Abstract!EndSave
  <2> QED BY <2>1 DEF Abstract!Next
<1>8. ASSUME \/ Copy # "writing" /\ Listing(file') = Listing(file)
             \/ Copy = "writing" /\ Listing(file') \in {<<>>} \cup Abstract!Damaged(Log),
             Log' = Listing(file'), Copy' = "saved"
      PROVE  Abstract!Next
  <2>1. Abstract!PowerFails
    BY <1>0, <1>8 DEF Abstract!PowerFails
  <2> QED BY <2>1 DEF Abstract!Next
<1> QED BY <1>1, <1>2, <1>3, <1>4, <1>5, <1>6, <1>7, <1>8

LEMMA EmptyListing == Listing(Empty) = <<>>
  BY DEF Listing, Empty

\* Where the log is read from does not change while a thread that is alone makes a step.
LEMMA LoadedStep ==
  ASSUME IInv, Loading, NEW t \in Threads, ThreadStep(t), ~spoiled
  PROVE  /\ Loaded <=> bBellLogInited /\ step[t] # "read"
         /\ Loaded' <=> bBellLogInited' /\ step'[t] # "read"
         /\ Done(t) => step'[t] # "read"
         /\ \A s : Goto(t, s) => step'[t] = s
         /\ step[t] \in {"read", "store", "count", "first"} => bBellLogInited
<1>0. step \in [Threads -> Steps] /\ Alone
  BY DEF IInv, TypeOK, ThreadType, Kept
<1>1. /\ step[t] # "idle" /\ \A u \in Threads : u # t => step'[u] = step[u]
  BY <1>0 DEF ThreadStep, Test, Read, StoreCount, Count, StoreFirst, MoveFirst, Shift, Note,
     Save, Write, Goto, Done
<1>2. \A u \in Threads : u # t => step[u] = "idle" /\ step'[u] = "idle"
  BY <1>0, <1>1 DEF Alone
<1>3. Done(t) => step'[t] # "read"
  BY <1>1, DoneTo
<1>4. \A s : Goto(t, s) => step'[t] = s
  BY <1>0 DEF Goto
<1>5. step[t] \in {"read", "store", "count", "first"} => bBellLogInited
  BY DEF Loading
<1> QED BY <1>2, <1>3, <1>4, <1>5 DEF Loaded

\* How far a thread is with its change says what the file holds, if it is alone.
CopyAt(at) == IF at = "save" THEN "changed" ELSE IF at = "write" THEN "writing" ELSE "saved"

LEMMA CopyStep ==
  ASSUME IInv, NEW t \in Threads, ThreadStep(t), ~spoiled, ~spoiled'
  PROVE  /\ Copy = CopyAt(step[t]) /\ Copy' = CopyAt(step'[t])
         /\ Done(t) => step'[t] \notin {"save", "write"}
<1>0. step \in [Threads -> Steps] /\ Alone
  BY DEF IInv, TypeOK, ThreadType, Kept
<1>1. /\ step[t] # "idle" /\ \A u \in Threads : u # t => step'[u] = step[u]
  BY <1>0 DEF ThreadStep, Test, Read, StoreCount, Count, StoreFirst, MoveFirst, Shift, Note,
     Save, Write, Goto, Done
<1>2. \A u \in Threads : u # t => step[u] = "idle" /\ step'[u] = "idle"
  BY <1>0, <1>1 DEF Alone
<1>3. Copy = CopyAt(step[t])
  BY <1>2 DEF Copy, CopyAt, Locked
<1>4. Copy' = CopyAt(step'[t])
  BY <1>2 DEF Copy, CopyAt, Locked
<1>5. Done(t) => step'[t] \notin {"save", "write"}
  BY <1>1, DoneTo
<1> QED BY <1>3, <1>4, <1>5

\* All of the log is being deleted only by the thread that is to save it so.
LEMMA ClearingStep ==
  ASSUME IInv, Ringing, NEW t \in Threads, ThreadStep(t), ~spoiled
  PROVE  /\ Clearing => step[t] \in {"save", "write"}
         /\ step[t] \notin {"save", "write"} => ~Clearing'
         /\ Save(t) => (Clearing' <=> Clearing)
         /\ Write(t) => ~Clearing'
<1>0. step \in [Threads -> Steps] /\ todo \in [Threads -> Todos] /\ Alone
  BY DEF IInv, TypeOK, ThreadType, Kept
<1>1. step[t] # "idle" /\ (Done(t) \/ \E s : Goto(t, s))
  BY DEF ThreadStep, Test, Read, StoreCount, Count, StoreFirst, MoveFirst, Shift, Note, Save, Write
<1>2. Clearing => t = Cmd
  <2>1. Clearing => step[Cmd] # "idle"
    <3>1. <<"clear">> # <<>>
      OBVIOUS
    <3>2. (step[Cmd] = "idle") <=> (todo[Cmd] = <<>>)
      BY DEF IInv, TypeOK, ThreadType, Threads
    <3> QED BY <3>1, <3>2 DEF Clearing
  <2> QED BY <1>0, <1>1, <2>1 DEF Alone, Threads
<1>3. Clearing => step[t] \in {"save", "write"}
  <2>1. step[t] = "note" => todo[t] \in {<<"alarm">>, <<"agree">>}
    BY DEF IInv, TypeOK, ThreadType
  <2>2. <<"clear">> \notin {<<"alarm">>, <<"agree">>}
    OBVIOUS
  <2>3. /\ step[t] \in {"store", "count", "first"} => todo[t] \notin {<<>>, <<"get">>, <<"clear">>}
        /\ step[t] \in {"test", "read"} => todo[t] # <<"clear">>
    BY DEF Ringing
  <2>4. step[t] \in Steps
    BY <1>0
  <2> QED BY <1>1, <1>2, <2>1, <2>2, <2>3, <2>4 DEF Clearing, Steps
<1>4. Done(t) => ~Clearing'
  <2>1. Done(t) /\ t # Cmd => todo'[Cmd] = todo[Cmd]
    BY <1>1, DoneTo DEF Threads
  <2>2. Done(t) /\ t = Cmd => todo'[Cmd] # <<"clear">>
    BY <1>1, DoneTo
  <2> QED BY <1>2, <2>1, <2>2 DEF Clearing
<1>5. \A s : Goto(t, s) => (Clearing' <=> Clearing)
  BY DEF Goto, Clearing
<1>6. Save(t) => (Clearing' <=> Clearing)
  BY <1>5 DEF Save
<1>7. Write(t) => ~Clearing'
  BY <1>4 DEF Write
<1> QED BY <1>1, <1>3, <1>4, <1>5, <1>6, <1>7

LEMMA StepRefines ==
  ASSUME IInv, IInv', Ringing, Loading, NEW t \in Threads, ThreadStep(t), ~spoiled, ~spoiled'
  PROVE  Abstract!Next \/ UNCHANGED Mapped
<1>0. /\ Whole(BellLog) /\ Whole(file) /\ Whole(BellLog') /\ Seen
      /\ ring \in [Threads -> Ids \cup {0}] /\ spoiled \in BOOLEAN /\ spoiled' \in BOOLEAN
  BY DEF IInv, Kept, TypeOK, ThreadType, FlagType
<1>w. /\ BellLog.nCount \in 0 .. N /\ BellLog.nFirst \in 0 .. N /\ BellLog \in Logs
      /\ BellLog.nFirst > 0 => BellLog.nCount = N
  BY <1>0, ListingIs DEF Whole
<1>l. /\ Loaded <=> bBellLogInited /\ step[t] # "read"
      /\ Loaded' <=> bBellLogInited' /\ step'[t] # "read"
      /\ Done(t) => step'[t] # "read"
      /\ \A s : Goto(t, s) => step'[t] = s
      /\ step[t] \in {"read", "store", "count", "first"} => bBellLogInited
  BY LoadedStep
<1>c. /\ Copy = CopyAt(step[t]) /\ Copy' = CopyAt(step'[t])
      /\ Done(t) => step'[t] \notin {"save", "write"}
      /\ step[t] \notin {"save", "write"} => ~Clearing /\ ~Clearing'
  BY CopyStep, ClearingStep
<1>s. ASSUME Log' = Log, file' = file, step[t] \notin {"save", "write"},
             step'[t] \notin {"save", "write"}
      PROVE  UNCHANGED Mapped
  <2>1. Copy' = Copy
    BY <1>c, <1>s DEF CopyAt
  <2> QED BY <1>0, <1>s, <2>1, MapsTo
\* The new entry is counted.
<1>r. ASSUME step[t] \in {"store", "count", "first"}, Loaded, Loaded', file' = file,
             step'[t] = "save",
             Listing(BellLog') = Abstract!Newest(Append(Listing(BellLog), New(t)))
      PROVE  Abstract!Next
  <2>1. ring[t] \in Ids
    BY <1>r DEF Ringing
  <2>2. Log' = Abstract!Newest(Append(Log, Item(ring[t], "timeout")))
    BY <1>r DEF Log, New
  <2>3. Copy = "saved" /\ Copy' = "changed"
    BY <1>c, <1>r DEF CopyAt
  <2>4. Changed(Abstract!Newest(Append(Log, Item(ring[t], "timeout"))))
    BY <1>r, <2>2, <2>3 DEF Changed
  <2> QED BY <1>0, <2>1, <2>4, MapsTo
<1>e. New(t) \in Items
  BY <1>0 DEF New, Item, Items
<1>1. CASE Test(t)
  <2>1. BellLog' = BellLog /\ file' = file /\ (Loaded' <=> Loaded)
    BY <1>1, <1>l DEF Test
  <2>2. step[t] = "test" /\ step'[t] \notin {"save", "write"}
    BY <1>1, <1>l, <1>c DEF Test
  <2> QED BY <2>1, <2>2, <1>c, <1>s DEF Log
<1>2. CASE Read(t)
  <2>1. BellLog' = file /\ file' = file /\ Loaded' /\ ~Loaded
    BY <1>2, <1>l DEF Read
  <2>2. step[t] = "read" /\ step'[t] \notin {"save", "write"}
    BY <1>2, <1>l, <1>c DEF Read
  <2> QED BY <2>1, <2>2, <1>c, <1>s DEF Log
<1>3. CASE StoreCount(t)
  <2>1. Loaded /\ Loaded' /\ file' = file
    BY <1>3, <1>l DEF StoreCount
  <2>2. BellLog.nFirst = 0 /\ BellLog.nFirst + BellLog.nCount = BellLog.nCount
    BY <1>3, <1>0 DEF StoreCount, Whole, Window, Logs
  <2>3. Listing(BellLog') = Listing(BellLog)
    BY <1>3, <1>0, <2>2, StoreOutside DEF StoreCount
  <2>4. step[t] = "store" /\ step'[t] \notin {"save", "write"}
    BY <1>3, <1>l DEF StoreCount
  <2> QED BY <2>1, <2>3, <2>4, <1>s DEF Log
<1>4. CASE StoreFirst(t)
  <2>1. Loaded /\ Loaded' /\ file' = file
    BY <1>4, <1>l DEF StoreFirst
  <2>2. BellLog.nFirst + BellLog.nCount = BellLog.nCount + BellLog.nFirst
    BY <1>0 DEF Whole, Logs
  <2>3. Listing(BellLog') = Listing(BellLog)
    BY <1>4, <1>0, <2>2, StoreOutside DEF StoreFirst
  <2>4. step[t] = "store" /\ step'[t] \notin {"save", "write"}
    BY <1>4, <1>l DEF StoreFirst
  <2> QED BY <2>1, <2>3, <2>4, <1>s DEF Log
<1>5. CASE Count(t)
  <2>1. Loaded /\ Loaded' /\ file' = file /\ step[t] = "count" /\ step'[t] = "save"
    BY <1>5, <1>l DEF Count
  <2>2. /\ BellLog'.nCount = BellLog.nCount + 1 /\ BellLog'.nFirst = 0 /\ BellLog.nFirst = 0
        /\ BellLog'.oItems = BellLog.oItems /\ BellLog.nCount \in 0 .. N - 1
    BY <1>5, <1>w, <1>0, BellLogAssumption DEF Count, Logs, Seen
  <2>3. BellLog'.oItems[BellLog'.nFirst + BellLog'.nCount - 1] = New(t)
    BY <2>1, <2>2 DEF Loading
  <2>4. Listing(BellLog') = Abstract!Newest(Append(Listing(BellLog), New(t)))
    BY <1>0, <1>e, <2>2, <2>3, Counted
  <2> QED BY <2>1, <2>4, <1>r
<1>6. CASE MoveFirst(t)
  <2>1. Loaded /\ Loaded' /\ file' = file /\ step[t] = "first" /\ step'[t] = "save"
    BY <1>6, <1>l DEF MoveFirst
  <2>2. /\ BellLog'.nCount = N /\ BellLog'.nFirst = BellLog.nFirst + 1 /\ BellLog.nCount = N
        /\ BellLog'.oItems = BellLog.oItems /\ BellLog.nFirst \in 0 .. N - 1
    BY <1>6, <1>w, <1>0, BellLogAssumption DEF MoveFirst, Logs, Seen
  <2>3. BellLog'.oItems[BellLog'.nFirst + BellLog'.nCount - 1] = New(t)
    <3>1. BellLog'.nFirst + BellLog'.nCount - 1 = BellLog.nCount + BellLog.nFirst
      BY <2>2, BellLogAssumption
    <3> QED BY <2>1, <2>2, <3>1 DEF Loading
  <2>4. \A i \in 1 .. N - 1 :
          BellLog'.oItems[BellLog'.nFirst + i - 1] = BellLog.oItems[BellLog.nFirst + (i + 1) - 1]
    <3>1. \A i \in 1 .. N - 1 : BellLog'.nFirst + i - 1 = BellLog.nFirst + (i + 1) - 1
      BY <2>2, BellLogAssumption
    <3> QED BY <2>2, <3>1
  <2>5. Listing(BellLog') = Abstract!Newest(Append(Listing(BellLog), New(t)))
    BY <1>0, <1>e, <2>2, <2>3, <2>4, Counted
  <2> QED BY <2>1, <2>5, <1>r
<1>7. CASE Shift(t)
  <2>1. Loaded /\ Loaded' /\ file' = file /\ step[t] = "store" /\ step'[t] = "save"
    BY <1>7, <1>l DEF Shift
  <2>2. /\ BellLog.nCount = N /\ BellLog.nFirst = N /\ BellLog \in Logs
        /\ BellLog'.nCount = N /\ BellLog'.nFirst = 0
    BY <1>7, <1>w, BellLogAssumption DEF Shift, Logs
  <2>3. BellLog'.oItems = [i \in Slots |-> CASE i < N - 1 -> BellLog.oItems[N + 1 + i]
                                     [] i = N - 1 -> New(t)
                                     [] OTHER -> BellLog.oItems[i]]
    BY <1>7, <2>2 DEF Shift, Logs
  <2>4. BellLog'.oItems[N - 1] = New(t)
    <3>1. N - 1 \in Slots /\ ~(N - 1 < N - 1)
      BY BellLogAssumption DEF Slots
    <3> QED BY <2>3, <3>1
  <2>5. ASSUME NEW i \in 1 .. N - 1
        PROVE  BellLog'.oItems[BellLog'.nFirst + i - 1]
                 = BellLog.oItems[BellLog.nFirst + (i + 1) - 1]
    <3>1. i - 1 \in Slots /\ i - 1 < N - 1 /\ N + 1 + (i - 1) = N + (i + 1) - 1 /\ 0 + i - 1 = i - 1
      BY BellLogAssumption DEF Slots
    <3>2. BellLog'.oItems[i - 1] = BellLog.oItems[N + 1 + (i - 1)]
      BY <2>3, <3>1
    <3> QED BY <2>2, <3>1, <3>2
  <2>6. BellLog'.nFirst + BellLog'.nCount - 1 = N - 1
    BY <2>2, BellLogAssumption
  <2>7. Listing(BellLog') = Abstract!Newest(Append(Listing(BellLog), New(t)))
    BY <1>0, <1>e, <2>2, <2>4, <2>5, <2>6, Counted
  <2> QED BY <2>1, <2>7, <1>r
<1>9. CASE Save(t)
  <2>1. /\ BellLog' = BellLog /\ file' = file /\ (Loaded' <=> Loaded) /\ (Clearing' <=> Clearing)
        /\ step[t] = "save" /\ step'[t] = "write"
    BY <1>9, <1>l, ClearingStep DEF Save
  <2>2. Log' = Log /\ Copy = "changed" /\ Copy' = "writing"
    BY <2>1, <1>c DEF Log, CopyAt
  <2> QED BY <1>0, <2>1, <2>2, MapsTo
<1>10. CASE Write(t)
  <2>1. /\ BellLog' = BellLog /\ file' = BellLog /\ (Loaded' <=> Loaded) /\ (Loaded <=> bBellLogInited)
        /\ ~Clearing' /\ step[t] = "write" /\ step'[t] \notin {"save", "write"}
    BY <1>10, <1>l, <1>c, ClearingStep DEF Write
  <2>2. Log' = Log /\ Listing(file') = Log
    <3>1. CASE Loaded
      BY <2>1, <3>1 DEF Log
    <3>2. CASE ~Loaded
      <4>1. Clearing /\ BellLog = Empty
        BY <2>1, <3>2 DEF Loading
      <4> QED BY <2>1, <3>2, <4>1, EmptyListing DEF Log
    <3> QED BY <3>1, <3>2
  <2>3. Copy = "writing" /\ Copy' = "saved"
    BY <2>1, <1>c DEF CopyAt
  <2> QED BY <1>0, <2>2, <2>3, MapsTo
<1>8. CASE Note(t)
  <2>1. file' = file /\ (Loaded' <=> Loaded) /\ (Loaded <=> bBellLogInited) /\ step[t] = "note"
    BY <1>8, <1>l DEF Note
  <2>2. CASE Noted(t) = {}
    <3>1. BellLog' = BellLog /\ Done(t)
      BY <1>8, <2>2 DEF Note
    <3> QED BY <2>1, <3>1, <1>c, <1>s DEF Log
  <2>3. CASE Noted(t) # {}
    <3>1. PICK k \in Noted(t) :
            /\ \A j \in Noted(t) : j <= k
            /\ BellLog' = [BellLog EXCEPT !.oItems[k].status = Head(todo[t])]
            /\ Goto(t, "save")
      BY <1>8, <2>3 DEF Note
    <3>2. Loaded /\ Loaded'
      <4>1. ~bBellLogInited => Noted(t) = {}
        BY DEF Loading, Noted, Empty, Slots
      <4> QED BY <2>1, <3>1, <4>1
    <3>3. todo[t] \in {<<"alarm">>, <<"agree">>}
      BY <2>1 DEF IInv, TypeOK, ThreadType
    <3>4. Head(todo[t]) \in {"agree", "alarm"} /\ ring[t] \in Ids
      <4>1. todo[t] \notin {<<>>, <<"get">>, <<"clear">>}
        BY <3>3
      <4> QED BY <3>3, <4>1 DEF Ringing
    <3> DEFINE i == k - BellLog.nFirst + 1
               new == [BellLog.oItems[k] EXCEPT !.status = Head(todo[t])]
    <3>5. /\ k \in Slots /\ BellLog.nFirst <= k /\ k < BellLog.nFirst + BellLog.nCount
          /\ BellLog.oItems[k].id = ring[t]
          /\ BellLog.nFirst \in 0 .. N /\ BellLog.nCount \in 0 .. N
      BY <1>0, ListingIs DEF Noted
    <3>6. i \in 1 .. BellLog.nCount /\ BellLog.nFirst + i - 1 = k
      BY <3>5, BellLogAssumption DEF Slots
    <3>7. /\ BellLog'.nCount = BellLog.nCount /\ BellLog'.nFirst = BellLog.nFirst
          /\ BellLog'.oItems = [BellLog.oItems EXCEPT ![k] = new]
      BY <1>0, <3>1 DEF Whole, Logs
    <3> DEFINE was == Listing(BellLog)
               is == Listing(BellLog')
    <3>8. /\ was \in Seq(Items) /\ DOMAIN was = 1 .. BellLog.nCount
          /\ is \in Seq(Items) /\ DOMAIN is = 1 .. BellLog.nCount
          /\ Len(was) = BellLog.nCount /\ Len(is) = BellLog.nCount
          /\ \A j \in 1 .. BellLog.nCount :
               /\ was[j] = BellLog.oItems[BellLog.nFirst + j - 1]
               /\ is[j] = BellLog'.oItems[BellLog.nFirst + j - 1]
               /\ BellLog.nFirst + j - 1 \in Slots
      <4>1. /\ was \in Seq(Items) /\ DOMAIN was = 1 .. BellLog.nCount /\ Len(was) = BellLog.nCount
            /\ \A j \in 1 .. BellLog.nCount :
                 /\ was[j] = BellLog.oItems[BellLog.nFirst + j - 1]
                 /\ BellLog.nFirst + j - 1 \in Slots
        BY <1>0, ListingIs
      <4>2. /\ is \in Seq(Items) /\ DOMAIN is = 1 .. BellLog'.nCount /\ Len(is) = BellLog'.nCount
            /\ \A j \in 1 .. BellLog'.nCount : is[j] = BellLog'.oItems[BellLog'.nFirst + j - 1]
        BY <1>0, ListingIs
      <4> QED BY <3>7, <4>1, <4>2
    <3>9. was[i] = BellLog.oItems[k] /\ is[i] = new
      BY <1>0, <3>5, <3>6, <3>7, <3>8 DEF Whole, Logs
    <3>10. ASSUME NEW j \in 1 .. BellLog.nCount, j # i PROVE is[j] = was[j]
      <4>1. BellLog.nFirst + j - 1 # k
        BY <3>5, <3>6, <3>10
      <4> QED BY <1>0, <3>7, <3>8, <4>1 DEF Whole, Logs
    <3>11. ASSUME NEW j \in DOMAIN was, was[j].id = ring[t] PROVE j <= i
      <4>1. BellLog.nFirst + j - 1 \in Noted(t)
        BY <3>5, <3>8, <3>11 DEF Noted
      <4>2. BellLog.nFirst + j - 1 <= k /\ j \in 1 .. BellLog.nCount
        BY <3>1, <3>8, <4>1
      <4> QED BY <3>5, <4>2, BellLogAssumption DEF Slots
    <3> HIDE DEF i
    <3>12. is = [was EXCEPT ![i].status = Head(todo[t])]
      BY <3>6, <3>8, <3>9, <3>10
    <3>13. Log = was /\ Log' = is
      BY <3>2 DEF Log
    <3>14. Abstract!Next
      <4>1. i \in DOMAIN Log /\ Log[i].id = ring[t]
        BY <3>5, <3>6, <3>8, <3>9, <3>13
      <4>2. \A j \in DOMAIN Log : Log[j].id = ring[t] => j <= i
        BY <3>11, <3>13
      <4>3. Log' = [Log EXCEPT ![i].status = Head(todo[t])] /\ Listing(file') = Listing(file)
        BY <2>1, <3>12, <3>13
      <4>4. Copy = "saved" /\ Copy' = "changed"
        BY <2>1, <3>1, <1>l, <1>c DEF CopyAt
      <4>5. Changed([Log EXCEPT ![i].status = Head(todo[t])])
        BY <4>3, <4>4 DEF Changed
      <4> HIDE DEF Log
      <4> QED BY <1>0, <3>4, <4>1, <4>2, <4>5, MapsTo
    <3> QED BY <3>14
  <2> QED BY <2>2, <2>3
<1> QED BY <1>1, <1>2, <1>3, <1>4, <1>5, <1>6, <1>7, <1>8, <1>9, <1>10 DEF ThreadStep

\* What a deletion of the newest ring leaves.
LEMMA DeletedListing ==
  ASSUME Whole(BellLog), NEW id \in Ids, BellLog.nFirst = 0,
         Named(BellLog, id) = {BellLog.nCount - 1}
  PROVE  /\ Listing(BellLog) # <<>>
         /\ Listing(Deleted(BellLog, id))
              = SubSeq(Listing(BellLog), 1, Len(Listing(BellLog)) - 1)
<1> DEFINE L == BellLog
           M == Deleted(L, id)
<1>1. /\ M \in Logs /\ M.nCount = L.nCount - 1 /\ M.nFirst = 0
      /\ \A j \in Slots : j < L.nCount - 1 => M.oItems[j] = L.oItems[j]
  BY DeletedIs DEF M
<1>2. L.nCount - 1 \in 0 .. N - 1 /\ L.nFirst = 0
  <2>1. L.nCount - 1 \in Slots
    BY DEF Named, Used
  <2> QED BY <2>1, ListingIs, BellLogAssumption DEF Slots
<1>3. Whole(M)
  BY DeleteWhole
<1> HIDE DEF M
<1> DEFINE was == Listing(L)
           is == Listing(M)
<1>4. /\ was \in Seq(Items) /\ Len(was) = L.nCount
      /\ is \in Seq(Items) /\ Len(is) = L.nCount - 1
      /\ \A i \in 1 .. L.nCount : was[i] = L.oItems[i - 1] /\ i - 1 \in Slots
      /\ \A i \in 1 .. L.nCount - 1 : is[i] = M.oItems[i - 1]
  <2>1. \A i \in Int : 0 + i - 1 = i - 1
    OBVIOUS
  <2>2. /\ was \in Seq(Items) /\ Len(was) = L.nCount
        /\ \A i \in 1 .. L.nCount : L.nFirst + i - 1 \in Slots /\ was[i] = L.oItems[L.nFirst + i - 1]
    BY ListingIs
  <2>3. /\ is \in Seq(Items) /\ Len(is) = M.nCount
        /\ \A i \in 1 .. M.nCount : is[i] = M.oItems[M.nFirst + i - 1]
    BY <1>3, ListingIs
  <2> QED BY <1>1, <1>2, <2>1, <2>2, <2>3
<1> HIDE DEF was, is
<1>5. \A i \in 1 .. L.nCount - 1 : is[i] = was[i]
  <2> SUFFICES ASSUME NEW i \in 1 .. L.nCount - 1 PROVE is[i] = was[i]
    OBVIOUS
  <2>1. i \in 1 .. L.nCount /\ i - 1 < L.nCount - 1
    <3>1. L.nCount \in 0 .. N
      BY ListingIs
    <3>2. L.nCount \in Int
      BY <3>1, BellLogAssumption
    <3> QED BY <3>2
  <2>2. is[i] = M.oItems[i - 1]
    BY <1>4
  <2>3. was[i] = L.oItems[i - 1] /\ i - 1 \in Slots
    BY <1>4, <2>1
  <2>4. M.oItems[i - 1] = L.oItems[i - 1]
    BY <1>1, <2>1, <2>3
  <2> QED BY <2>2, <2>3, <2>4
<1>6. was # <<>>
  BY <1>2, <1>4
<1>7. is = SubSeq(was, 1, L.nCount - 1)
  <2> DEFINE sub == SubSeq(was, 1, L.nCount - 1)
  <2>1. sub \in Seq(Items) /\ Len(sub) = L.nCount - 1 /\ \A i \in 1 .. L.nCount - 1 : sub[i] = was[i]
    BY <1>2, <1>4
  <2> HIDE DEF sub
  <2>2. is = sub
    BY <1>2, <1>4, <1>5, <2>1, SameListing
  <2> QED BY <2>2 DEF sub
<1> QED BY <1>4, <1>6, <1>7 DEF was, is, M

\* What a power failure leaves of a file that was being written.
LEMMA TornListing ==
  ASSUME Whole(BellLog), NEW L \in Torn(BellLog), L # Empty
  PROVE  Listing(L) \in Abstract!Damaged(Listing(BellLog))
<1>1. PICK k \in Slots :
        L = [BellLog EXCEPT !.oItems = [i \in Slots |-> IF i < k THEN BellLog.oItems[i] ELSE Blank]]
  BY DEF Torn, Whole, Logs
<1>2. /\ L.nCount = BellLog.nCount /\ L.nFirst = BellLog.nFirst
      /\ \A i \in Slots : L.oItems[i] = (IF i < k THEN BellLog.oItems[i] ELSE Blank)
      /\ BellLog.nCount \in 0 .. N /\ BellLog.nFirst \in 0 .. N /\ k \in Int
  <2>1. BellLog.nCount \in 0 .. N /\ BellLog.nFirst \in 0 .. N
    BY ListingIs
  <2> QED BY <1>1, <2>1, BellLogAssumption DEF Whole, Logs, Slots
<1> DEFINE was == Listing(BellLog)
           m == IF k - BellLog.nFirst < 0 THEN 0
                ELSE IF k - BellLog.nFirst > BellLog.nCount THEN BellLog.nCount
                ELSE k - BellLog.nFirst
<1>3. /\ DOMAIN was = 1 .. BellLog.nCount /\ Len(was) = BellLog.nCount
      /\ \A i \in 1 .. BellLog.nCount :
           /\ was[i] = BellLog.oItems[BellLog.nFirst + i - 1]
           /\ BellLog.nFirst + i - 1 \in Slots
  BY ListingIs
<1>4. m \in 0 .. Len(was) /\ \A i \in 1 .. BellLog.nCount : i <= m <=> BellLog.nFirst + i - 1 < k
  BY <1>2, <1>3, BellLogAssumption
<1>5. Listing(L) = [i \in DOMAIN was |-> IF i <= m THEN was[i] ELSE Blank]
  <2>1. Listing(L) = [i \in 1 .. BellLog.nCount |-> L.oItems[BellLog.nFirst + i - 1]]
    BY <1>2 DEF Listing
  <2>2. ASSUME NEW i \in 1 .. BellLog.nCount
        PROVE  L.oItems[BellLog.nFirst + i - 1] = IF i <= m THEN was[i] ELSE Blank
    BY <1>2, <1>3, <1>4
  <2> HIDE DEF was, m
  <2> QED BY <1>3, <2>1, <2>2
<1> HIDE DEF was, m
<1>6. Listing(L) \in Abstract!Damaged(was)
  BY <1>4, <1>5 DEF Abstract!Damaged
<1> QED BY <1>6 DEF was

\* A thread takes up its operations, and nobody else is at work.
Begins(t, ops, s) ==
  /\ \A u \in Threads : step[u] = "idle"
  /\ todo' = [todo EXCEPT ![t] = ops]
  /\ step' = [step EXCEPT ![t] = s]
  /\ UNCHANGED bBellLogInited
  /\ ~spoiled /\ ~spoiled'

LEMMA Refines ==
  IInv /\ IInv' /\ Ringing /\ Loading /\ [Next]_vars => Abstract!Next \/ UNCHANGED Mapped
<1> SUFFICES ASSUME IInv, IInv', Ringing, Loading, [Next]_vars, ~spoiled'
             PROVE  Abstract!Next \/ UNCHANGED Mapped
  BY DEF Abstract!Next
<1>0. /\ ~spoiled => Whole(BellLog) /\ Whole(file)
      /\ spoiled \in BOOLEAN /\ spoiled' \in BOOLEAN
      /\ step \in [Threads -> Steps]
  BY DEF IInv, Kept, TypeOK, FlagType, ThreadType
\* A handler begins, and nobody else is at work.
<1>a. ASSUME NEW t \in Threads, NEW ops, NEW s, Begins(t, ops, s), s # "read"
      PROVE  /\ (Loaded <=> bBellLogInited) /\ (Loaded' <=> bBellLogInited)
             /\ Copy = "saved" /\ Copy' = CopyAt(s)
             /\ ~Clearing /\ (ops # <<"clear">> => ~Clearing')
  <2>1. /\ \A u \in Threads : step[u] = "idle"
        /\ todo' = [todo EXCEPT ![t] = ops] /\ step' = [step EXCEPT ![t] = s]
        /\ bBellLogInited' = bBellLogInited /\ ~spoiled /\ ~spoiled'
    BY <1>a DEF Begins
  <2>2. step'[t] = s /\ \A u \in Threads : u # t => step'[u] = "idle"
    BY <1>0, <2>1
  <2>3. \A u \in Threads : todo[u] = <<>>
    BY <2>1 DEF IInv, TypeOK, ThreadType
  <2>4. <<"clear">> # <<>>
    OBVIOUS
  <2>5. ~Clearing
    BY <2>3, <2>4 DEF Clearing, Threads
  <2>6. ops # <<"clear">> => ~Clearing'
    <3>1. todo \in [Threads -> Todos]
      BY DEF IInv, TypeOK, ThreadType
    <3>2. todo'[Cmd] = ops \/ todo'[Cmd] = <<>>
      BY <2>1, <2>3, <3>1 DEF Threads
    <3> QED BY <2>4, <3>2 DEF Clearing
  <2>7. Copy = "saved"
    BY <2>1 DEF Copy, Locked
  <2>8. Copy' = CopyAt(s)
    BY <2>1, <2>2 DEF Copy, CopyAt, Locked
  <2> QED BY <1>0, <1>a, <2>1, <2>2, <2>5, <2>6, <2>7, <2>8 DEF Loaded
<1>b. ASSUME ~spoiled, UNCHANGED <<BellLog, file>>, Loaded' <=> Loaded, Clearing' <=> Clearing,
             Copy' = Copy
      PROVE  UNCHANGED Mapped
  <2>1. Log' = Log /\ Listing(file') = Listing(file)
    BY <1>b DEF Log
  <2> QED BY <1>0, <1>b, <2>1, MapsTo
<1>1. ASSUME NEW t \in Threads, RingStart(t) PROVE UNCHANGED Mapped
  <2>1. /\ ~spoiled /\ ~raced' /\ UNCHANGED <<BellLog, file, bBellLogInited>>
    BY <1>1 DEF RingStart
  <2>2. CopyAt("test") = "saved" /\ "test" # "read"
    BY DEF CopyAt
  <2>3. PICK ops \in Handlers : Begins(t, ops, "test")
    BY <1>1, <2>1 DEF RingStart, Start, Begins
  <2>4. ops # <<"clear">>
    BY DEF Handlers
  <2>5. /\ (Loaded <=> bBellLogInited) /\ (Loaded' <=> bBellLogInited)
        /\ Copy = "saved" /\ Copy' = CopyAt("test") /\ ~Clearing /\ ~Clearing'
    BY <1>a, <2>2, <2>3, <2>4
  <2> QED BY <1>b, <2>1, <2>2, <2>5
<1>2. ASSUME NEW t \in Threads, AgreeStart(t) PROVE UNCHANGED Mapped
  <2>1. /\ ~spoiled /\ ~raced' /\ UNCHANGED <<BellLog, file, bBellLogInited>>
        /\ Begins(t, <<"agree">>, "note")
    BY <1>2 DEF AgreeStart, Start, Begins
  <2>2. CopyAt("note") = "saved" /\ "note" # "read" /\ <<"agree">> # <<"clear">>
    BY DEF CopyAt
  <2>3. /\ (Loaded <=> bBellLogInited) /\ (Loaded' <=> bBellLogInited)
        /\ Copy = "saved" /\ Copy' = CopyAt("note") /\ ~Clearing /\ ~Clearing'
    BY <1>a, <2>1, <2>2
  <2> QED BY <1>b, <2>1, <2>2, <2>3
<1>3. ASSUME NEW t \in Threads, ThreadStep(t) PROVE Abstract!Next \/ UNCHANGED Mapped
  <2>1. ~spoiled
    BY <1>3 DEF ThreadStep, Test, Read, StoreCount, Count, StoreFirst, MoveFirst, Shift, Note,
       Save, Write, history
  <2> QED BY <1>3, <2>1, StepRefines
<1>4. CASE GetStart
  <2>1. /\ ~spoiled /\ ~raced' /\ UNCHANGED <<BellLog, file, bBellLogInited>> /\ Cmd \in Threads
        /\ Begins(Cmd, <<"get">>, "test")
    BY <1>4 DEF GetStart, Start, Begins, Threads
  <2>2. CopyAt("test") = "saved" /\ "test" # "read" /\ <<"get">> # <<"clear">>
    BY DEF CopyAt
  <2>3. /\ (Loaded <=> bBellLogInited) /\ (Loaded' <=> bBellLogInited)
        /\ Copy = "saved" /\ Copy' = CopyAt("test") /\ ~Clearing /\ ~Clearing'
    BY <1>a, <2>1, <2>2
  <2> QED BY <1>b, <2>1, <2>2, <2>3
<1>5. CASE DeleteAllBellLogs
  <2>1. /\ ~spoiled /\ ~raced' /\ BellLog' = Empty /\ UNCHANGED <<file, bBellLogInited>>
        /\ Cmd \in Threads /\ Begins(Cmd, <<"clear">>, "save")
    BY <1>5 DEF DeleteAllBellLogs, Start, Begins, Threads
  <2>2. Copy = "saved" /\ Copy' = "changed"
    <3>1. CopyAt("save") = "changed" /\ "save" # "read"
      BY DEF CopyAt
    <3> QED BY <2>1, <3>1, <1>a
  <2>3. Clearing'
    BY <2>1 DEF Begins, Clearing, IInv, TypeOK, ThreadType
  <2>4. Log' = <<>> /\ Listing(file') = Listing(file)
    BY <2>1, <2>3, EmptyListing DEF Log
  <2>5. Changed(<<>>)
    BY <2>2, <2>4 DEF Changed
  <2> QED BY <1>0, <2>1, <2>5, MapsTo
<1>6. ASSUME NEW id \in Ids, DeleteBellLog(id) PROVE Abstract!Next
  <2>1. /\ ~spoiled /\ ~raced' /\ ~(BellLog.nFirst > 0) /\ Named(BellLog, id) = {BellLog.nCount - 1}
        /\ BellLog' = Deleted(BellLog, id) /\ UNCHANGED <<file, bBellLogInited>>
        /\ Cmd \in Threads /\ Begins(Cmd, <<"delete">>, "save")
    BY <1>6 DEF DeleteBellLog, Start, Begins, Threads
  <2>2. Copy = "saved" /\ Copy' = "changed" /\ Loaded /\ Loaded'
    <3>1. ~bBellLogInited => Named(BellLog, id) = {}
      BY <2>1 DEF Loading, Named, Used, Empty, Slots
    <3>2. bBellLogInited
      BY <2>1, <3>1
    <3>3. CopyAt("save") = "changed" /\ "save" # "read"
      BY DEF CopyAt
    <3>4. /\ (Loaded <=> bBellLogInited) /\ (Loaded' <=> bBellLogInited)
          /\ Copy = "saved" /\ Copy' = CopyAt("save")
      BY <2>1, <3>3, <1>a
    <3> QED BY <3>2, <3>3, <3>4
  <2>3. BellLog.nFirst = 0
    BY <1>0, <2>1 DEF Whole, Window, Logs
  <2>4. /\ Listing(BellLog) # <<>>
        /\ Listing(BellLog') = SubSeq(Listing(BellLog), 1, Len(Listing(BellLog)) - 1)
    BY <1>0, <2>1, <2>3, DeletedListing
  <2>5. Log = Listing(BellLog) /\ Log' = Listing(BellLog')
    BY <2>2 DEF Log
  <2>6. Log # <<>> /\ Changed(SubSeq(Log, 1, Len(Log) - 1))
    BY <2>1, <2>2, <2>4, <2>5 DEF Changed
  <2> QED BY <1>0, <2>1, <2>6, MapsTo
<1>7. CASE PowerFails
  <2>1. /\ ~spoiled /\ ~bBellLogInited' /\ \A t \in Threads : step'[t] = "idle" /\ todo'[t] = <<>>
        /\ file' \in IF Locked THEN Torn(BellLog) ELSE {file}
    BY <1>7 DEF PowerFails, history
  <2>2. Log' = Listing(file') /\ Copy' = "saved"
    <3>1. ~Clearing'
      <4>1. <<"clear">> # <<>>
        OBVIOUS
      <4>2. todo'[Cmd] = <<>>
        BY <2>1 DEF Threads
      <4> QED BY <4>1, <4>2 DEF Clearing
    <3>2. Copy' = "saved"
      BY <2>1 DEF Copy, Locked
    <3> QED BY <2>1, <3>1, <3>2 DEF Log, Loaded
  <2>3. CASE ~Locked
    <3>1. Copy # "writing" /\ Listing(file') = Listing(file)
      BY <2>1, <2>3 DEF Copy
    <3> QED BY <1>0, <2>1, <2>2, <3>1, MapsTo
  <2>4. CASE Locked
    <3>1. PICK t \in Threads : step[t] = "write"
      BY <2>4 DEF Locked
    <3>2. Copy = "writing"
      BY <2>1, <2>4, <3>1 DEF Copy
    <3>3. Log = Listing(BellLog)
      <4>1. \A u \in Threads : step[u] # "read"
        BY <2>1, <3>1 DEF IInv, Kept, Alone
      <4>2. bBellLogInited \/ Clearing
        BY <2>1, <3>1 DEF Loading
      <4> QED BY <4>1, <4>2 DEF Log, Loaded
    <3>4. Listing(file') \in {<<>>} \cup Abstract!Damaged(Log)
      <4>1. file' \in Torn(BellLog)
        BY <2>1, <2>4
      <4>2. CASE file' = Empty
        BY <4>2, EmptyListing
      <4>3. CASE file' # Empty
        BY <1>0, <2>1, <3>3, <4>1, <4>3, TornListing
      <4> QED BY <4>2, <4>3
    <3> QED BY <1>0, <2>1, <2>2, <3>2, <3>4, MapsTo
  <2> QED BY <2>3, <2>4
<1>8. CASE UNCHANGED vars
  <2>1. /\ UNCHANGED <<BellLog, file, spoiled>> /\ (Loaded' <=> Loaded)
        /\ (Clearing' <=> Clearing) /\ Copy' = Copy
    BY <1>8 DEF vars, thread, history, Loaded, Clearing, Copy, Locked
  <2> QED BY <1>b, <2>1
<1> QED BY <1>1, <1>2, <1>3, <1>4, <1>5, <1>6, <1>7, <1>8 DEF Next

\* Through wraps of the array, the reading back at first use, saves and power failures that
\* tear the file: BellLog implements RingLog, for every size of the array.
THEOREM LogKeepsNewest == Spec => KeepsNewest
<1>1. Init => Abstract!Init /\ Ringing /\ Loading
  <2> SUFFICES ASSUME Init PROVE Abstract!Init /\ Ringing /\ Loading
    OBVIOUS
  <2>1. Listing(BellLog) = <<>> /\ Listing(file) = <<>> /\ ~spoiled /\ Copy = "saved"
    <3>1. \A t \in Threads : step[t] = "idle"
      BY DEF Init
    <3> QED BY <3>1, EmptyListing DEF Init, Copy, Locked
  <2>2. Abstract!Init
    BY <2>1 DEF Init, Abstract!Init, Sound, Log
  <2>3. Ringing /\ Loading
    BY DEF Init, Ringing, Loading
  <2> QED BY <2>2, <2>3
<1>2. IInv /\ Ringing /\ Loading /\ [Next]_vars => (Ringing /\ Loading)'
  BY RingingKept, LoadingKept
<1>3. IInv /\ IInv' /\ Ringing /\ Loading /\ [Next]_vars => [Abstract!Next]_Mapped
  BY Refines
<1>4. Spec => Abstract!Init /\ [][Abstract!Next]_Mapped
  BY <1>1, <1>2, <1>3, Invariance, PTL DEF Spec
<1> QED BY <1>4 DEF KeepsNewest, Abstract!Spec, Mapped
=============================================================================

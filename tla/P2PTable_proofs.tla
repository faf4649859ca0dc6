--------------------------- MODULE P2PTable_proofs ---------------------------
(***************************************************************************)
(* Theorems about P2PTable, for every size of the table, set of walking    *)
(* threads and number of sessions.                                         *)
(***************************************************************************)
EXTENDS P2PTable, FiniteSetTheorems, TLAPS

\* A session that was not accepted yet is nowhere.
FreshInv ==
  \A n \in Sessions : n > accepted => session[n] = "none" /\ \A s \in Slots : socket[s] # n

\* The stored sessions carry different counts, all of them used up.
RefcntInv ==
  /\ \A s \in Slots : socket[s] # NoSocket => refcnt[s] < p2prefcnt
  /\ \A r, s \in Slots : socket[r] # NoSocket /\ socket[s] # NoSocket /\ refcnt[r] = refcnt[s] => r = s

TableInv == TypeOK /\ FreshInv /\ RefcntInv /\ OneSlotEach /\ Accounted /\ ClosedBySwap

LEMMA NextSlotType == \A s \in Slots : NextSlot(s) \in Slots
<1> SUFFICES ASSUME NEW s \in Slots PROVE (s + 1) % MaxConn \in 0 .. MaxConn - 1
  BY DEF NextSlot, Slots
<1>1. s + 1 \in Nat /\ MaxConn \in Nat /\ MaxConn > 0
  BY P2PTableAssumption DEF Slots
<1> QED
  BY <1>1

LEMMA UsersAreSlots == \A s \in 0 .. MaxUser - 1 : s \in Slots
  BY P2PTableAssumption DEF Slots

LEMMA SocketIsNone == NoSocket \notin Sessions
  BY DEF NoSocket, Sessions

LEMMA TypeStep == TypeOK /\ [Next]_vars => TypeOK'
<1> USE P2PTableAssumption DEF table, walk
<1> SUFFICES ASSUME TypeOK, [Next]_vars PROVE TypeOK'
  OBVIOUS
<1>1. ASSUME NEW n \in Sessions, PushFree(n) PROVE TypeOK'
  BY <1>1 DEF TypeOK, PushFree, Accept, Store, Sessions
<1>2. ASSUME NEW n \in Sessions, PushEvict(n) PROVE TypeOK'
  <2>1. PICK s \in Slots : First(s, Victims) /\ Store(s, n) /\ unstored' = unstored \cup {socket[s]}
    BY <1>2 DEF PushEvict
  <2>2. socket[s] \in Sessions
    BY <1>2 DEF PushEvict, Free, TypeOK
  <2>3. socket' \in [Slots -> Sessions \cup {NoSocket}] /\ refcnt' \in [Slots -> Nat]
    BY <2>1 DEF TypeOK, Store
  <2>4. p2prefcnt' \in Nat /\ accepted' \in Nat
    BY <1>2, <2>1 DEF TypeOK, PushEvict, Accept, Store, Sessions
  <2>5. session' \in [Sessions -> {"none", "open", "broken", "closed"}]
    BY <1>2 DEF TypeOK, PushEvict
  <2>6. unstored' \subseteq Sessions /\ swapped' \subseteq Sessions
    BY <1>2, <2>1, <2>2 DEF TypeOK, PushEvict
  <2> QED
    BY <1>2, <2>3, <2>4, <2>5, <2>6 DEF TypeOK, PushEvict
<1>3. ASSUME NEW n \in Sessions, PushFull(n) PROVE TypeOK'
  BY <1>3 DEF TypeOK, PushFull, Accept, Sessions
<1>4. ASSUME NEW t \in Threads, TestSkip(t) PROVE TypeOK'
  BY <1>4, NextSlotType DEF TypeOK, TestSkip, Advance, Goto
<1>5. ASSUME NEW t \in Threads, TestUsed(t) PROVE TypeOK'
  BY <1>5 DEF TypeOK, TestUsed, Goto
<1>6. ASSUME NEW t \in Threads, CheckOk(t) PROVE TypeOK'
  BY <1>6, NextSlotType DEF TypeOK, CheckOk, Advance, Goto
<1>7. ASSUME NEW t \in Threads, CheckFails(t) PROVE TypeOK'
  BY <1>7 DEF TypeOK, CheckFails, Goto
<1>8. ASSUME NEW t \in Threads, PopArgument(t) PROVE TypeOK'
  BY <1>8 DEF TypeOK, PopArgument, Goto
<1>9. ASSUME NEW t \in Threads, PopP2pSocket(t) PROVE TypeOK'
  BY <1>9, NextSlotType DEF TypeOK, PopP2pSocket, Advance, Goto
<1>10. ASSUME NEW n \in Sessions, Break(n) PROVE TypeOK'
  BY <1>10 DEF TypeOK, Break
<1>11. CASE UNCHANGED vars
  BY <1>11 DEF TypeOK, vars
<1> QED
  BY <1>1, <1>2, <1>3, <1>4, <1>5, <1>6, <1>7, <1>8, <1>9, <1>10, <1>11 DEF Next, Push, Walk

LEMMA InitTable == Init => TableInv
<1> SUFFICES ASSUME Init PROVE TableInv
  OBVIOUS
<1> USE P2PTableAssumption DEF Init
<1>1. TypeOK
  BY DEF TypeOK, Slots
<1>2. FreshInv
  BY SocketIsNone DEF FreshInv
<1>3. RefcntInv /\ OneSlotEach /\ ClosedBySwap
  BY DEF RefcntInv, OneSlotEach, ClosedBySwap
<1>4. Accounted
  BY DEF Accounted
<1> QED
  BY <1>1, <1>2, <1>3, <1>4 DEF TableInv

\* Push into slot s a session that was never in the table: what any of the two branches
\* that store does to the invariant.
LEMMA StoreStep ==
  ASSUME TableInv, NEW n \in Sessions, NEW s \in Slots, Accept(n), Store(s, n)
  PROVE  /\ \A r \in Slots : socket'[r] = IF r = s THEN n ELSE socket[r]
         /\ RefcntInv' /\ OneSlotEach'
         /\ \A m \in Sessions : m > accepted' => m > accepted /\ m # n
         /\ \A r \in Slots : socket[r] # n
         /\ session[n] = "none"
<1>1. \A r \in Slots : socket'[r] = IF r = s THEN n ELSE socket[r]
  BY DEF TableInv, TypeOK, Store
<1>2. \A r \in Slots : refcnt'[r] = IF r = s THEN p2prefcnt ELSE refcnt[r]
  BY DEF TableInv, TypeOK, Store
<1>3. p2prefcnt' = p2prefcnt + 1 /\ p2prefcnt \in Nat /\ \A r \in Slots : refcnt[r] \in Nat
  BY DEF TableInv, TypeOK, Store
<1>4. n > accepted
  BY DEF Accept, TableInv, TypeOK
<1>5. session[n] = "none" /\ \A r \in Slots : socket[r] # n
  BY <1>4 DEF TableInv, FreshInv
<1>6. n # NoSocket
  BY SocketIsNone
<1>7. RefcntInv'
  <2>1. \A r \in Slots : socket'[r] # NoSocket => refcnt'[r] < p2prefcnt'
    BY <1>1, <1>2, <1>3 DEF TableInv, RefcntInv
  <2>2. ASSUME NEW q \in Slots, NEW r \in Slots,
               socket'[q] # NoSocket, socket'[r] # NoSocket, refcnt'[q] = refcnt'[r]
        PROVE  q = r
    BY <2>2, <1>1, <1>2, <1>3 DEF TableInv, RefcntInv
  <2> QED
    BY <2>1, <2>2 DEF RefcntInv
<1>8. OneSlotEach'
  BY <1>1, <1>5, <1>6 DEF TableInv, OneSlotEach
<1>9. \A m \in Sessions : m > accepted' => m > accepted /\ m # n
  BY DEF Accept, TableInv, TypeOK, Sessions
<1> QED
  BY <1>1, <1>5, <1>7, <1>8, <1>9

LEMMA TableStep == TableInv /\ [Next]_vars => TableInv'
<1> SUFFICES ASSUME TableInv, [Next]_vars PROVE TableInv'
  OBVIOUS
<1> USE DEF table, walk
<1>t. TypeOK /\ TypeOK'
  BY TypeStep DEF TableInv
<1>1. ASSUME NEW n \in Sessions, PushFree(n) PROVE TableInv'
  <2>1. PICK s \in Slots : First(s, Free) /\ Store(s, n)
    BY <1>1 DEF PushFree
  <2>2. Accept(n) /\ session' = [session EXCEPT ![n] = "open"]
        /\ unstored' = unstored /\ swapped' = swapped
    BY <1>1 DEF PushFree
  <2>3. /\ \A r \in Slots : socket'[r] = IF r = s THEN n ELSE socket[r]
        /\ RefcntInv' /\ OneSlotEach'
        /\ \A m \in Sessions : m > accepted' => m > accepted /\ m # n
        /\ \A r \in Slots : socket[r] # n
    BY <2>1, <2>2, StoreStep
  <2>4. socket[s] = NoSocket
    BY <2>1 DEF First, Free
  <2>5. \A m \in Sessions : session'[m] = IF m = n THEN "open" ELSE session[m]
    BY <1>t, <2>2 DEF TypeOK
  <2>6. FreshInv'
    BY <2>3, <2>5 DEF TableInv, FreshInv
  <2>7. Accounted'
    BY <2>2, <2>3, <2>4, <2>5, SocketIsNone DEF TableInv, Accounted
  <2>8. ClosedBySwap'
    BY <1>t, <2>2, <2>3, <2>5 DEF TableInv, ClosedBySwap, TypeOK
  <2> QED
    BY <1>t, <2>3, <2>6, <2>7, <2>8 DEF TableInv
<1>2. ASSUME NEW n \in Sessions, PushEvict(n) PROVE TableInv'
  <2>1. PICK s \in Slots : First(s, Victims) /\ Store(s, n) /\ unstored' = unstored \cup {socket[s]}
    BY <1>2 DEF PushEvict
  <2>2. Accept(n) /\ session' = [session EXCEPT ![n] = "closed"] /\ swapped' = swapped \cup {n}
    BY <1>2 DEF PushEvict
  <2>3. /\ \A r \in Slots : socket'[r] = IF r = s THEN n ELSE socket[r]
        /\ RefcntInv' /\ OneSlotEach'
        /\ \A m \in Sessions : m > accepted' => m > accepted /\ m # n
        /\ \A r \in Slots : socket[r] # n
    BY <2>1, <2>2, StoreStep
  <2>5. \A m \in Sessions : session'[m] = IF m = n THEN "closed" ELSE session[m]
    BY <1>t, <2>2 DEF TypeOK
  <2>6. FreshInv'
    BY <2>3, <2>5 DEF TableInv, FreshInv
  <2>7. Accounted'
    BY <2>1, <2>3, <2>5 DEF TableInv, Accounted
  <2>8. ClosedBySwap'
    BY <1>t, <2>2, <2>3, <2>5 DEF TableInv, ClosedBySwap, TypeOK
  <2> QED
    BY <1>t, <2>3, <2>6, <2>7, <2>8 DEF TableInv
<1>3. ASSUME NEW n \in Sessions, PushFull(n) PROVE TableInv'
  <2>1. /\ socket' = socket /\ refcnt' = refcnt /\ swapped' = swapped
        /\ p2prefcnt' = p2prefcnt + 1 /\ unstored' = unstored \cup {n}
    BY <1>3 DEF PushFull
  <2>2. \A m \in Sessions : session'[m] = IF m = n THEN "open" ELSE session[m]
    BY <1>t, <1>3 DEF TypeOK, PushFull
  <2>3. \A m \in Sessions : m > accepted' => m > accepted /\ m # n
    BY <1>t, <1>3 DEF PushFull, Accept, TypeOK, Sessions
  <2>4. FreshInv'
    BY <2>1, <2>2, <2>3 DEF TableInv, FreshInv
  <2>5. RefcntInv'
    BY <1>t, <2>1 DEF TableInv, RefcntInv, TypeOK
  <2>6. OneSlotEach'
    BY <2>1 DEF TableInv, OneSlotEach
  <2>7. Accounted'
    BY <2>1, <2>2 DEF TableInv, Accounted
  <2>8. ClosedBySwap'
    BY <1>t, <2>1, <2>2 DEF TableInv, ClosedBySwap, TypeOK
  <2> QED
    BY <1>t, <2>4, <2>5, <2>6, <2>7, <2>8 DEF TableInv
<1>4. ASSUME NEW t \in Threads,
             TestSkip(t) \/ TestUsed(t) \/ CheckOk(t) \/ CheckFails(t) \/ PopArgument(t)
      PROVE  TableInv'
  <2>1. UNCHANGED <<socket, refcnt, p2prefcnt, session, accepted, unstored, swapped>>
    BY <1>4 DEF TestSkip, TestUsed, CheckOk, CheckFails, PopArgument
  <2> QED
    BY <1>t, <2>1 DEF TableInv, FreshInv, RefcntInv, OneSlotEach, Accounted, ClosedBySwap
<1>5. ASSUME NEW t \in Threads, PopP2pSocket(t) PROVE TableInv'
  <2>1. /\ p2prefcnt' = p2prefcnt /\ accepted' = accepted
        /\ unstored' = unstored /\ swapped' = swapped
    BY <1>5 DEF PopP2pSocket
  <2>2. \A s \in Slots : /\ socket'[s] = IF socket[s] = arg[t] THEN NoSocket ELSE socket[s]
                         /\ refcnt'[s] = IF socket[s] = arg[t] THEN 0 ELSE refcnt[s]
    BY <1>5 DEF PopP2pSocket
  <2>3. \A n \in Sessions :
          session'[n] = IF n = arg[t] /\ (\E s \in Slots : socket[s] = n) THEN "closed" ELSE session[n]
    BY <1>5 DEF PopP2pSocket
  <2>4. FreshInv'
    <3> SUFFICES ASSUME NEW n \in Sessions, n > accepted'
                 PROVE  session'[n] = "none" /\ \A s \in Slots : socket'[s] # n
      BY DEF FreshInv
    <3>1. session[n] = "none" /\ \A s \in Slots : socket[s] # n
      BY <2>1 DEF TableInv, FreshInv
    <3>2. \A s \in Slots : socket'[s] # n
      BY <2>2, <3>1, SocketIsNone
    <3> QED
      BY <2>3, <3>1, <3>2
  <2>5. RefcntInv'
    BY <2>1, <2>2 DEF TableInv, RefcntInv
  <2>6. OneSlotEach'
    BY <2>2 DEF TableInv, OneSlotEach
  <2>7. Accounted'
    BY <2>1, <2>2, <2>3 DEF TableInv, Accounted
  <2>8. ClosedBySwap'
    <3> SUFFICES ASSUME NEW s \in Slots, socket'[s] # NoSocket, session'[socket'[s]] = "closed"
                 PROVE  socket'[s] \in swapped'
      BY DEF ClosedBySwap
    <3>1. socket'[s] = socket[s] /\ socket[s] # arg[t]
      BY <2>2
    <3>2. socket[s] \in Sessions
      BY <1>t, <3>1 DEF TypeOK
    <3>3. session[socket[s]] = "closed"
      BY <2>3, <3>1, <3>2
    <3> QED
      BY <2>1, <3>1, <3>3 DEF TableInv, ClosedBySwap
  <2> QED
    BY <1>t, <2>4, <2>5, <2>6, <2>7, <2>8 DEF TableInv
<1>6. ASSUME NEW n \in Sessions, Break(n) PROVE TableInv'
  <2>1. UNCHANGED <<socket, refcnt, p2prefcnt, accepted, unstored, swapped>>
    BY <1>6 DEF Break
  <2>2. \A m \in Sessions : session'[m] = IF m = n THEN "broken" ELSE session[m]
    BY <1>t, <1>6 DEF Break, TypeOK
  <2>3. session[n] = "open"
    BY <1>6 DEF Break
  <2>4. FreshInv' /\ RefcntInv' /\ OneSlotEach'
    BY <2>1, <2>2, <2>3 DEF TableInv, FreshInv, RefcntInv, OneSlotEach
  <2>5. Accounted'
    BY <2>1, <2>2, <2>3 DEF TableInv, Accounted
  <2>6. ClosedBySwap'
    BY <1>t, <2>1, <2>2 DEF TableInv, ClosedBySwap, TypeOK
  <2> QED
    BY <1>t, <2>4, <2>5, <2>6 DEF TableInv
<1>7. CASE UNCHANGED vars
  BY <1>t, <1>7 DEF TableInv, FreshInv, RefcntInv, OneSlotEach, Accounted, ClosedBySwap, vars
<1> QED
  BY <1>1, <1>2, <1>3, <1>4, <1>5, <1>6, <1>7 DEF Next, Push, Walk

LEMMA TableAlways == Spec => []TableInv
  BY InitTable, TableStep, PTL DEF Spec

\* Distinct counts below p2prefcnt in MaxConn slots: there are at least that many.
LEMMA FullIsCounted == TableInv => RefbackSound
<1> SUFFICES ASSUME TableInv, Free = {}, p2prefcnt < MaxConn PROVE FALSE
  BY P2PTableAssumption DEF RefbackSound, TableInv, TypeOK
<1> DEFINE Counts == 0 .. p2prefcnt - 1
<1>1. p2prefcnt \in Nat /\ MaxConn \in Nat \ {0}
  BY P2PTableAssumption DEF TableInv, TypeOK
<1>2. \A s \in Slots : socket[s] # NoSocket
  BY DEF Free
<1>3. refcnt \in [Slots -> Counts]
  <2>1. \A s \in Slots : refcnt[s] \in Nat /\ refcnt[s] < p2prefcnt
    BY <1>2 DEF TableInv, TypeOK, RefcntInv
  <2>2. \A s \in Slots : refcnt[s] \in Counts
    BY <2>1, <1>1
  <2> QED
    BY <2>2 DEF TableInv, TypeOK
<1>4. IsFiniteSet(Slots) /\ Cardinality(Slots) = MaxConn
  BY <1>1, FS_Interval DEF Slots
<1>5. IsFiniteSet(Counts) /\ Cardinality(Counts) = p2prefcnt
  BY <1>1, FS_Interval
<1>6. PICK r \in Slots, s \in Slots : r # s /\ refcnt[r] = refcnt[s]
  <2> HIDE DEF Counts
  <2> QED
    BY <1>3, <1>4, <1>5, FS_PigeonHole
<1> QED
  BY <1>2, <1>6 DEF TableInv, RefcntInv

\* TypeOK: the table, the threads and the sessions keep their types, and no walk leaves
\* the table.
THEOREM TableTypeCorrect == Spec => []TypeOK
  BY TableAlways, PTL DEF TableInv

\* OneSlotEach: PushP2pSocket never stores a session twice.
THEOREM TableHoldsOnce == Spec => []OneSlotEach
  BY TableAlways, PTL DEF TableInv

\* RefbackSound: refback = p2prefcnt - MAX_P2P_CONNECT never wraps, for any size of table.
THEOREM TableRefback == Spec => []RefbackSound
  BY TableAlways, FullIsCounted, PTL

\* Accounted: PushP2pSocket and PopP2pSocket lose no session but in a full table.
THEOREM TableAccounts == Spec => []Accounted
  BY TableAlways, PTL DEF TableInv

\* ClosedBySwap: a closed session in the table was closed by the Push that stored it.
THEOREM TableClosed == Spec => []ClosedBySwap
  BY TableAlways, PTL DEF TableInv
=============================================================================

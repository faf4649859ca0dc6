------------------------------ MODULE P2PTable ------------------------------
(***************************************************************************)
(* The table p2pstream[] of accepted P2P sessions (p2p/p2p.c).             *)
(*                                                                         *)
(* The listening thread stores each session PPPP_Listen returns            *)
(* (PushP2pSocket); the command and talk threads walk the table for ever   *)
(* and remove the sessions on which their I/O fails (PopP2pSocket), as the *)
(* media thread does for the slots that are live.  Push and                *)
(* Pop hold p2pmutex and are one step each; the walks do not, and read     *)
(* p2pstream[i].socket afresh at each use.                                 *)
(*                                                                         *)
(* Sessions are numbered as PPPP_Listen returns them; the library's state  *)
(* of each is external.                                                    *)
(***************************************************************************)
EXTENDS Integers, FiniteSets

CONSTANTS MaxConn,     \* MAX_P2P_CONNECT, the slots of p2pstream[]
          MaxUser,     \* MAX_CONN_USER_NUM, the slots a full table may give up
          Threads,     \* the threads that walk the table
          MaxSessions  \* bound: sessions accepted in a behaviour

ASSUME P2PTableAssumption ==
  /\ MaxConn \in Nat \ {0} /\ MaxUser \in 1 .. MaxConn
  /\ MaxSessions \in Nat

Slots == 0 .. MaxConn - 1
Sessions == 1 .. MaxSessions
NoSocket == 0  \* -1 in the code

VARIABLES
  socket, refcnt, \* the fields of p2pstream[s]
  p2prefcnt,
  session,  \* the library's state of each session; a broken one fails at the next use
  pc, at,   \* pc[t], at[t]: control point of thread t and the slot it looks at
  arg,      \* arg[t]: the argument of the PopP2pSocket thread t is about to enter
  accepted, \* sessions accepted so far
  unstored, \* history: sessions that found the table full and were not stored
  swapped   \* history: sessions closed by the Push that stored them

table == <<socket, refcnt, p2prefcnt>>
walk == <<pc, at, arg>>
vars == <<table, session, walk, accepted, unstored, swapped>>

Free == {s \in Slots : socket[s] = NoSocket}

First(s, S) == s \in S /\ \A r \in S : s <= r

\* P2p_streaminit
Init ==
  /\ socket = [s \in Slots |-> NoSocket] /\ refcnt = [s \in Slots |-> 0]
  /\ p2prefcnt = 0
  /\ session = [n \in Sessions |-> "none"]
  /\ pc = [t \in Threads |-> "test"] /\ at = [t \in Threads |-> 0]
  /\ arg = [t \in Threads |-> NoSocket]
  /\ accepted = 0 /\ unstored = {} /\ swapped = {}
-----------------------------------------------------------------------------
(* The listening thread *)

\* refback is unsigned: below zero it is huge and every slot qualifies.
Victims ==
  {s \in 0 .. MaxUser - 1 : p2prefcnt < MaxConn \/ refcnt[s] <= p2prefcnt - MaxConn}

Store(s, n) ==
  /\ socket' = [socket EXCEPT ![s] = n]
  /\ refcnt' = [refcnt EXCEPT ![s] = p2prefcnt]
  /\ p2prefcnt' = p2prefcnt + 1

Accept(n) ==
  /\ n = accepted + 1 /\ n \in Sessions
  /\ accepted' = n

PushFree(n) ==
  /\ Accept(n)
  /\ \E s \in Slots : First(s, Free) /\ Store(s, n)
  /\ session' = [session EXCEPT ![n] = "open"]
  /\ UNCHANGED <<walk, unstored, swapped>>

\* A full table gives up an old slot, but PPPP_Close is given the new session.
PushEvict(n) ==
  /\ Accept(n) /\ Free = {}
  /\ \E s \in Slots : First(s, Victims) /\ Store(s, n) /\ unstored' = unstored \cup {socket[s]}
  /\ session' = [session EXCEPT ![n] = "closed"]
  /\ swapped' = swapped \cup {n}
  /\ UNCHANGED walk

\* No slot is old enough: the session is neither stored nor closed.
PushFull(n) ==
  /\ Accept(n) /\ Free = {} /\ Victims = {}
  /\ p2prefcnt' = p2prefcnt + 1
  /\ session' = [session EXCEPT ![n] = "open"]
  /\ unstored' = unstored \cup {n}
  /\ UNCHANGED <<socket, refcnt, walk, swapped>>

Push == \E n \in Sessions : PushFree(n) \/ PushEvict(n) \/ PushFull(n)
-----------------------------------------------------------------------------
(* The walks of p2pcmdThreadProc and p2ptalkThreadProc *)

Goto(t, p) == pc' = [pc EXCEPT ![t] = p]

\* Mutant: the walk covers the slots a full table may give up, and no more.
NextSlotOfUsers(s) == (s + 1) % MaxUser

NextSlot(s) == (s + 1) % MaxConn

Advance(t) == Goto(t, "test") /\ at' = [at EXCEPT ![t] = NextSlot(@)]

TestSkip(t) ==
  /\ pc[t] = "test" /\ socket[at[t]] = NoSocket
  /\ Advance(t)
  /\ UNCHANGED <<table, session, arg, accepted, unstored, swapped>>

TestUsed(t) ==
  /\ pc[t] = "test" /\ socket[at[t]] # NoSocket
  /\ Goto(t, "check")
  /\ UNCHANGED <<table, session, at, arg, accepted, unstored, swapped>>

Works(h) == h # NoSocket /\ session[h] = "open"

\* PPPP_Check_Buffer or the I/O that follows it.
CheckOk(t) ==
  /\ pc[t] = "check" /\ Works(socket[at[t]])
  /\ Advance(t)
  /\ UNCHANGED <<table, session, arg, accepted, unstored, swapped>>

CheckFails(t) ==
  /\ pc[t] = "check" /\ ~Works(socket[at[t]])
  /\ Goto(t, "fail")
  /\ UNCHANGED <<table, session, at, arg, accepted, unstored, swapped>>

\* The argument p2pstream[i].socket is read before the lock is taken.
PopArgument(t) ==
  /\ pc[t] = "fail"
  /\ arg' = [arg EXCEPT ![t] = socket[at[t]]]
  /\ Goto(t, "pop")
  /\ UNCHANGED <<table, session, at, accepted, unstored, swapped>>

\* Mutant: the slot is emptied without closing the session.
PopUnclosed(t) ==
  /\ pc[t] = "pop"
  /\ socket' = [s \in Slots |-> IF socket[s] = arg[t] THEN NoSocket ELSE socket[s]]
  /\ refcnt' = [s \in Slots |-> IF socket[s] = arg[t] THEN 0 ELSE refcnt[s]]
  /\ arg' = [arg EXCEPT ![t] = NoSocket]
  /\ Advance(t)
  /\ UNCHANGED <<p2prefcnt, session, accepted, unstored, swapped>>

\* PopP2pSocket(arg): every slot that holds arg, the empty ones when arg is -1.
PopP2pSocket(t) ==
  /\ pc[t] = "pop"
  /\ socket' = [s \in Slots |-> IF socket[s] = arg[t] THEN NoSocket ELSE socket[s]]
  /\ refcnt' = [s \in Slots |-> IF socket[s] = arg[t] THEN 0 ELSE refcnt[s]]
  /\ session' = [n \in Sessions |->
                   IF n = arg[t] /\ (\E s \in Slots : socket[s] = n) THEN "closed" ELSE session[n]]
  /\ arg' = [arg EXCEPT ![t] = NoSocket]
  /\ Advance(t)
  /\ UNCHANGED <<p2prefcnt, accepted, unstored, swapped>>

Walk(t) ==
  TestSkip(t) \/ TestUsed(t) \/ CheckOk(t) \/ CheckFails(t) \/ PopArgument(t) \/ PopP2pSocket(t)
-----------------------------------------------------------------------------
\* External: the peer goes away, or sends a command that cannot be read.
Break(n) ==
  /\ session[n] = "open"
  /\ session' = [session EXCEPT ![n] = "broken"]
  /\ UNCHANGED <<table, walk, accepted, unstored, swapped>>

Next == Push \/ (\E t \in Threads : Walk(t)) \/ (\E n \in Sessions : Break(n))

Spec == Init /\ [][Next]_vars
FairSpec == Spec /\ \A t \in Threads : WF_vars(Walk(t))
-----------------------------------------------------------------------------
TypeOK ==
  /\ socket \in [Slots -> Sessions \cup {NoSocket}] /\ refcnt \in [Slots -> Nat]
  /\ p2prefcnt \in Nat
  /\ session \in [Sessions -> {"none", "open", "broken", "closed"}]
  /\ pc \in [Threads -> {"test", "check", "fail", "pop"}]
  /\ at \in [Threads -> Slots]
  /\ arg \in [Threads -> Sessions \cup {NoSocket}]
  /\ accepted \in Nat
  /\ unstored \subseteq Sessions /\ swapped \subseteq Sessions

\* A session is in at most one slot, so that PopP2pSocket, which looks for the handle in
\* every slot, closes it once and frees no slot of another session.
OneSlotEach ==
  \A r, s \in Slots : socket[r] = socket[s] /\ r # s => socket[r] = NoSocket

\* Whatever sessions left in between, a full table has counted at least as many as it has
\* slots: PushP2pSocket's unsigned refback does not wrap below zero.
RefbackSound == Free = {} => p2prefcnt >= MaxConn

\* PushP2pSocket and PopP2pSocket account for every session PPPP_Listen returned: until
\* it is closed it is in the table, or it was turned out of a full one.
Accounted ==
  \A n \in Sessions :
    session[n] \in {"open", "broken"} => n \in unstored \/ \E s \in Slots : socket[s] = n

\* PopP2pSocket never leaves a closed session in the table: one that is there was closed
\* by the Push that stored it.
ClosedBySwap ==
  \A s \in Slots : socket[s] # NoSocket /\ session[socket[s]] = "closed" => socket[s] \in swapped

\* A session whose I/O fails is found by a walk and leaves the table, also one that Push
\* stored closed: slots are not lost for good.
BrokenLeaves ==
  \A n \in Sessions :
    (\E s \in Slots : socket[s] = n) /\ session[n] \in {"broken", "closed"}
      ~> ~\E s \in Slots : socket[s] = n

\* What the comments of PushP2pSocket say: if the table is full, the session that is shut
\* down is that of the slot, so that no session in the table is closed.
StoredIsOpen == \A s \in Slots : socket[s] # NoSocket => session[socket[s]] # "closed"
=============================================================================

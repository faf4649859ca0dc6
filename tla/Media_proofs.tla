----------------------------- MODULE Media_proofs -----------------------------
(***************************************************************************)
(* Theorems about what the bell plays and shows: the prompts and what is   *)
(* done when one is over (module Prompts), the way of a video frame to the *)
(* viewers (VideoRing), and of the client's talk to the visitor            *)
(* (TalkQueue).                                                            *)
(***************************************************************************)
EXTENDS Prompts, VideoRing, TalkQueue, TLAPS

(***************************************************************************)
(* Prompts: what a thread still has to do.                                          *)
(***************************************************************************)

\* In q, step a is always followed by step b.
Pair(q, a, b) == \A i \in 1 .. Len(q) : q[i].op = a => i < Len(q) /\ q[i + 1].op = b

\* A flag that is raised is raised on the way to the semaphore, a stop that is posted is
\* posted on the way to clearing the flag, and whoever changes a mode goes on to restore it.
Paired(q) ==
  /\ Pair(q, "sound", "poststart") /\ Pair(q, "poststop", "silent")
  /\ Pair(q, "openap", "apstate") /\ Pair(q, "apstate", "apzero")
  /\ Pair(q, "apzero", "apregister") /\ Pair(q, "apunregister", "closeap")
  /\ Pair(q, "videostop", "recheck") /\ Pair(q, "norecheck", "videostart")

Lasting(q) == \A i \in 1 .. Len(q) : q[i].op # "apunregister"

Fine(q) == q \in Seq(StepSet) /\ Paired(q) /\ Lasting(q)

LEMMA SeqTail ==
  ASSUME NEW S, NEW q \in Seq(S), q # <<>>
  PROVE  /\ Tail(q) \in Seq(S) /\ Len(Tail(q)) = Len(q) - 1 /\ Len(q) \in Nat \ {0}
         /\ \A i \in 1 .. Len(q) - 1 : Tail(q)[i] = q[i + 1]
         /\ Head(q) = q[1]
  OBVIOUS

LEMMA SeqJoin ==
  ASSUME NEW S, NEW s \in Seq(S), NEW r \in Seq(S)
  PROVE  /\ s \o r \in Seq(S) /\ Len(s \o r) = Len(s) + Len(r)
         /\ Len(s) \in Nat /\ Len(r) \in Nat
         /\ \A i \in 1 .. Len(s) : (s \o r)[i] = s[i]
         /\ \A i \in 1 .. Len(r) : (s \o r)[Len(s) + i] = r[i]
  OBVIOUS

LEMMA PairTail ==
  ASSUME NEW q \in Seq(StepSet), q # <<>>, NEW a, NEW b, Pair(q, a, b)
  PROVE  Pair(Tail(q), a, b)
  BY SeqTail DEF Pair

LEMMA PairJoin ==
  ASSUME NEW s \in Seq(StepSet), NEW r \in Seq(StepSet), NEW a, NEW b,
         Pair(s, a, b), Pair(r, a, b)
  PROVE  Pair(s \o r, a, b)
<1> DEFINE q == s \o r
<1>1. /\ Len(q) = Len(s) + Len(r) /\ Len(s) \in Nat /\ Len(r) \in Nat
      /\ \A i \in 1 .. Len(s) : q[i] = s[i]
      /\ \A i \in 1 .. Len(r) : q[Len(s) + i] = r[i]
  BY SeqJoin
<1> HIDE DEF q
<1> SUFFICES ASSUME NEW i \in 1 .. Len(q), q[i].op = a PROVE i < Len(q) /\ q[i + 1].op = b
  BY DEF Pair, q
<1>2. CASE i \in 1 .. Len(s)
  <2>1. i < Len(s) /\ s[i + 1].op = b
    BY <1>1, <1>2 DEF Pair
  <2>2. i + 1 \in 1 .. Len(s)
    BY <1>1, <1>2, <2>1
  <2> QED BY <1>1, <2>1, <2>2
<1>3. CASE i \notin 1 .. Len(s)
  <2>1. PICK j \in 1 .. Len(r) : i = Len(s) + j
    <3>1. i - Len(s) \in 1 .. Len(r) /\ i = Len(s) + (i - Len(s))
      BY <1>1, <1>3
    <3> QED BY <3>1
  <2>2. j < Len(r) /\ r[j + 1].op = b
    BY <1>1, <2>1 DEF Pair
  <2>3. j + 1 \in 1 .. Len(r) /\ i + 1 = Len(s) + (j + 1)
    BY <1>1, <2>1, <2>2
  <2> QED BY <1>1, <2>1, <2>2, <2>3
<1> QED BY <1>2, <1>3

LEMMA PairedTail ==
  ASSUME NEW q \in Seq(StepSet), q # <<>>, Paired(q)
  PROVE  Paired(Tail(q))
  BY PairTail, Zenon DEF Paired

LEMMA PairedJoin ==
  ASSUME NEW s \in Seq(StepSet), NEW r \in Seq(StepSet), Paired(s), Paired(r)
  PROVE  Paired(s \o r)
  BY PairJoin, Zenon DEF Paired

LEMMA LastingJoin ==
  ASSUME NEW s \in Seq(StepSet), NEW r \in Seq(StepSet), Lasting(s), Lasting(r)
  PROVE  Lasting(s \o r)
<1> SUFFICES ASSUME NEW i \in 1 .. Len(s \o r) PROVE (s \o r)[i].op # "apunregister"
  BY DEF Lasting
<1>1. CASE i \in 1 .. Len(s)
  BY <1>1, SeqJoin DEF Lasting
<1>2. CASE i \notin 1 .. Len(s)
  <2>1. i - Len(s) \in 1 .. Len(r) /\ i = Len(s) + (i - Len(s))
    BY <1>2, SeqJoin
  <2>2. (s \o r)[i] = r[i - Len(s)]
    BY <2>1, SeqJoin
  <2> QED BY <2>1, <2>2 DEF Lasting
<1> QED BY <1>1, <1>2

LEMMA FineJoin == ASSUME NEW s, NEW r, Fine(s), Fine(r) PROVE Fine(s \o r)
<1>1. s \in Seq(StepSet) /\ r \in Seq(StepSet) /\ Paired(s) /\ Paired(r) /\ Lasting(s) /\ Lasting(r)
  BY DEF Fine
<1>2. s \o r \in Seq(StepSet)
  BY <1>1, SeqJoin
<1> QED BY <1>1, <1>2, PairedJoin, LastingJoin, Zenon DEF Fine

LEMMA FineNone == Fine(<<>>)
  BY DEF Fine, Paired, Pair, Lasting

Plain == {"stop", "silent", "poststart", "ringon", "wifi", "reboot", "apregister", "closeap",
          "apleave", "wpsstate", "recheck", "wpszero", "videostart", "wpsleave", "wait"}

LEMMA OpIs ==
  ASSUME NEW op
  PROVE  /\ Len(Op(op)) = 1 /\ Op(op)[1].op = op
         /\ [op |-> op] \in StepSet => Op(op) \in Seq(StepSet)
  BY DEF Op

LEMMA FineOp == ASSUME NEW op \in Plain PROVE Fine(Op(op))
<1>1. [op |-> op] \in StepSet
  BY DEF Plain, StepSet
<1>2. Op(op) \in Seq(StepSet) /\ Len(Op(op)) = 1 /\ Op(op)[1].op = op
  BY <1>1, OpIs
<1> QED BY <1>2 DEF Fine, Paired, Pair, Lasting, Plain

LEMMA FineStart ==
  ASSUME NEW index \in Indexes, NEW fn \in Callbacks
  PROVE  Fine(Start(index, fn))
<1>1. [op |-> "start", index |-> index, fn |-> fn] \in StepSet
  BY DEF StepSet
<1>2. Start(index, fn) \in Seq(StepSet) /\ Len(Start(index, fn)) = 1
      /\ Start(index, fn)[1].op = "start"
  BY <1>1 DEF Start
<1> QED BY <1>2 DEF Fine, Paired, Pair, Lasting

LEMMA TwoOps ==
  ASSUME NEW a, NEW b, [op |-> a] \in StepSet, [op |-> b] \in StepSet
  PROVE  LET q == Op(a) \o Op(b) IN
         q \in Seq(StepSet) /\ Len(q) = 2 /\ q[1].op = a /\ q[2].op = b
<1>1. /\ Op(a) \in Seq(StepSet) /\ Len(Op(a)) = 1 /\ Op(a)[1].op = a
      /\ Op(b) \in Seq(StepSet) /\ Len(Op(b)) = 1 /\ Op(b)[1].op = b
  BY OpIs
<1> QED BY <1>1, SeqJoin

LEMMA FineTwo ==
  ASSUME NEW a, NEW b,
         <<a, b>> \in {<<"sound", "poststart">>, <<"poststop", "silent">>,
                       <<"videostop", "recheck">>, <<"norecheck", "videostart">>}
  PROVE  Fine(Op(a) \o Op(b))
<1>1. [op |-> a] \in StepSet /\ [op |-> b] \in StepSet
  BY DEF StepSet
<1> DEFINE q == Op(a) \o Op(b)
<1>2. q \in Seq(StepSet) /\ Len(q) = 2 /\ q[1].op = a /\ q[2].op = b
  BY <1>1, TwoOps
<1> HIDE DEF q
<1>3. Fine(q)
  BY <1>2 DEF Fine, Paired, Pair, Lasting
<1> QED BY <1>3 DEF q

LEMMA JoinRight ==
  ASSUME NEW r \in Seq(StepSet), NEW o \in Seq(StepSet)
  PROVE  \A i \in 1 .. Len(o) : (r \o o)[Len(r) + i] = o[i]
  OBVIOUS

LEMMA AppendOne ==
  ASSUME NEW r \in Seq(StepSet), NEW o \in Seq(StepSet), Len(o) = 1
  PROVE  /\ r \o o \in Seq(StepSet) /\ Len(r \o o) = Len(r) + 1
         /\ \A i \in 1 .. Len(r) : (r \o o)[i] = r[i]
         /\ (r \o o)[Len(r) + 1] = o[1]
<1>1. r \o o \in Seq(StepSet)
  BY SeqJoin
<1>2. Len(r \o o) = Len(r) + 1
  BY SeqJoin
<1>3. \A i \in 1 .. Len(r) : (r \o o)[i] = r[i]
  BY SeqJoin
<1>4. (r \o o)[Len(r) + 1] = o[1]
  <2>1. 1 \in 1 .. Len(o)
    OBVIOUS
  <2> QED BY <2>1, JoinRight, Zenon
<1> QED BY <1>1, <1>2, <1>3, <1>4, Zenon

LEMMA AppendOp ==
  ASSUME NEW r \in Seq(StepSet), NEW op, [op |-> op] \in StepSet
  PROVE  /\ r \o Op(op) \in Seq(StepSet) /\ Len(r \o Op(op)) = Len(r) + 1
         /\ \A i \in 1 .. Len(r) : (r \o Op(op))[i] = r[i]
         /\ (r \o Op(op))[Len(r) + 1].op = op
<1>1. Op(op) \in Seq(StepSet) /\ Len(Op(op)) = 1 /\ Op(op)[1].op = op
  BY OpIs
<1> QED BY <1>1, AppendOne

\* The steps of the callbacks that have four.
Ops == {"openap", "apstate", "apzero", "apregister",
        "wpsstate", "videostop", "recheck", "wpszero"}

LEMMA OpSteps == \A op \in Ops : [op |-> op] \in StepSet
  BY DEF Ops, StepSet

Four(a, b, c, d) == Op(a) \o Op(b) \o Op(c) \o Op(d)

LEMMA FourOps ==
  ASSUME NEW a \in Ops, NEW b \in Ops, NEW c \in Ops, NEW d \in Ops
  PROVE  /\ Four(a, b, c, d) \in Seq(StepSet) /\ Len(Four(a, b, c, d)) = 4
         /\ Four(a, b, c, d)[1].op = a /\ Four(a, b, c, d)[2].op = b
         /\ Four(a, b, c, d)[3].op = c /\ Four(a, b, c, d)[4].op = d
<1> DEFINE q == Op(a) \o Op(b)
           r == q \o Op(c)
           p == r \o Op(d)
<1>2. q \in Seq(StepSet) /\ Len(q) = 2 /\ q[1].op = a /\ q[2].op = b
  BY OpSteps, TwoOps
<1> HIDE DEF q
<1>3. /\ r \in Seq(StepSet) /\ Len(r) = Len(q) + 1
      /\ \A i \in 1 .. Len(q) : r[i] = q[i]
      /\ r[Len(q) + 1].op = c
  BY <1>2, OpSteps, AppendOp, Zenon
<1>4. /\ p \in Seq(StepSet) /\ Len(p) = Len(r) + 1
      /\ \A i \in 1 .. Len(r) : p[i] = r[i]
      /\ p[Len(r) + 1].op = d
  BY <1>3, OpSteps, AppendOp, Zenon
<1> HIDE DEF r, p
<1>5. Len(r) = 3 /\ Len(p) = 4
  BY <1>2, <1>3, <1>4
<1>6. r[1] = q[1] /\ r[2] = q[2] /\ r[3].op = c
  BY <1>2, <1>3
<1>7. p[1] = r[1] /\ p[2] = r[2] /\ p[3] = r[3] /\ p[4].op = d
  BY <1>4, <1>5
<1>8. p[1].op = a /\ p[2].op = b /\ p[3].op = c
  BY <1>2, <1>6, <1>7
<1> QED BY <1>4, <1>5, <1>7, <1>8 DEF p, r, q, Four

LEMMA FineFour ==
  ASSUME NEW a, NEW b, NEW c, NEW d,
         <<a, b, c, d>> \in {<<"openap", "apstate", "apzero", "apregister">>,
                             <<"wpsstate", "videostop", "recheck", "wpszero">>}
  PROVE  Fine(Four(a, b, c, d))
<1> DEFINE q == Four(a, b, c, d)
<1>0. a \in Ops /\ b \in Ops /\ c \in Ops /\ d \in Ops
  BY DEF Ops
<1>1. /\ q \in Seq(StepSet) /\ Len(q) = 4
      /\ q[1].op = a /\ q[2].op = b /\ q[3].op = c /\ q[4].op = d
  BY <1>0, FourOps
<1> HIDE DEF q
<1>2. Lasting(q)
  BY <1>1 DEF Lasting
<1>3. Paired(q)
  BY <1>1 DEF Paired, Pair
<1>4. Fine(q)
  BY <1>1, <1>2, <1>3 DEF Fine
<1> QED BY <1>4 DEF q

\* What a thread is given to do is fine: the callback of a prompt, ...
LEMMA FineSteps == ASSUME NEW fn \in Callbacks PROVE Fine(Steps(fn))
<1>1. CASE fn = "none"
  BY <1>1, FineNone DEF Steps
<1>2. CASE fn = "calling"
  BY <1>2, FineOp DEF Steps, Plain
<1>3. CASE fn = "ap"
  BY <1>3, FineFour DEF Steps, Four
<1>4. CASE fn = "wps"
  BY <1>4, FineFour DEF Steps, Four, BaAudioWpsModeCallback
<1>5. CASE fn = "wifi"
  BY <1>5, FineOp DEF Steps, Plain
<1>6. CASE fn \in {"reset", "reboot"}
  BY <1>6, FineOp DEF Steps, Plain
<1> QED BY <1>1, <1>2, <1>3, <1>4, <1>5, <1>6 DEF Callbacks

\* ... a prompt, ...
LEMMA FineStop == Fine(StopAudioPlay)
  BY FineOp DEF StopAudioPlay, Plain

LEMMA FinePrompt ==
  ASSUME NEW index \in Indexes, NEW fn \in Callbacks
  PROVE  Fine(StartAudioPlay(index, fn))
  BY FineStart, FineStop, FineJoin, Zenon DEF StartAudioPlay

\* ... and the end of WPS.  The end of the access point is but for unregistering the timer.
LEMMA FineDone == Fine(WpsDone)
<1>1. Fine(Op("norecheck") \o Op("videostart"))
  BY FineTwo
<1>2. Fine(Op("wpsleave"))
  BY FineOp DEF Plain
<1> QED BY <1>1, <1>2, FineJoin, Zenon DEF WpsDone

LEMMA OverIs ==
  /\ ApOver \in Seq(StepSet) /\ ApOver # <<>> /\ Paired(ApOver) /\ Lasting(Tail(ApOver))
<1> DEFINE q == Op("apunregister") \o Op("closeap")
<1>1. /\ [op |-> "apunregister"] \in StepSet /\ [op |-> "closeap"] \in StepSet
      /\ [op |-> "apleave"] \in StepSet
  BY DEF StepSet
<1>2. q \in Seq(StepSet) /\ Len(q) = 2 /\ q[1].op = "apunregister" /\ q[2].op = "closeap"
  BY <1>1, TwoOps
<1> HIDE DEF q
<1> DEFINE r == q \o Op("apleave")
<1>3. /\ r \in Seq(StepSet) /\ Len(r) = Len(q) + 1
      /\ \A i \in 1 .. Len(q) : r[i] = q[i]
      /\ r[Len(q) + 1].op = "apleave"
  BY <1>1, <1>2, AppendOp, Zenon
<1> HIDE DEF r
<1>4. Len(r) = 3 /\ r[1] = q[1] /\ r[2] = q[2] /\ r[3].op = "apleave"
  BY <1>2, <1>3
<1>5. Paired(r)
  BY <1>2, <1>3, <1>4 DEF Paired, Pair
<1>6. r # <<>>
  BY <1>3, <1>4
<1>7. Lasting(Tail(r))
  <2> DEFINE u == Tail(r)
  <2>1. /\ Len(u) = Len(r) - 1
        /\ \A i \in 1 .. Len(r) - 1 : u[i] = r[i + 1]
    BY <1>3, <1>6, SeqTail, Zenon
  <2> HIDE DEF u
  <2>2. Len(u) = 2 /\ u[1] = r[2] /\ u[2] = r[3]
    BY <1>4, <2>1
  <2>3. Lasting(u)
    BY <1>2, <1>4, <2>2 DEF Lasting
  <2> QED BY <2>3 DEF u
<1> QED BY <1>3, <1>5, <1>6, <1>7 DEF r, q, ApOver
-----------------------------------------------------------------------------
(***************************************************************************)
(* How a step leaves what is to be done.                                   *)
(***************************************************************************)
Tidy == todo \in [Threads -> Seq(StepSet)] /\ \A t \in Threads : Paired(todo[t])

Lasts == \A t \in Threads : todo[t] # <<>> => Lasting(Tail(todo[t]))

\* No thread but t now unregisters the timer of the access point that did not before.
Carries(t) ==
  /\ Tidy' /\ Lasts'
  /\ \A u \in Threads : Doing(u, "apunregister")' => u # t /\ Doing(u, "apunregister")

LEMMA LastingTail ==
  ASSUME NEW q \in Seq(StepSet), q # <<>>, Lasting(q)
  PROVE  Lasting(Tail(q)) /\ Head(q).op # "apunregister"
  BY SeqTail DEF Lasting

\* Thread t goes on with s, which it did not have to do before.
LEMMA Carried ==
  ASSUME Tidy, Lasts, NEW t \in Threads, NEW s, Fine(s), todo' = [todo EXCEPT ![t] = s]
  PROVE  Carries(t)
<1>1. s \in Seq(StepSet) /\ Paired(s) /\ Lasting(s)
  BY DEF Fine
<1>2. todo'[t] = s /\ \A u \in Threads \ {t} : todo'[u] = todo[u]
  BY DEF Tidy
<1>3. todo' \in [Threads -> Seq(StepSet)]
  BY <1>1 DEF Tidy
<1>4. Tidy'
  BY <1>1, <1>2, <1>3, Zenon DEF Tidy
<1>5. Lasts'
  BY <1>1, <1>2, LastingTail, Zenon DEF Lasts
<1>6. ~Doing(t, "apunregister")'
  BY <1>1, <1>2, LastingTail, Zenon DEF Doing
<1>7. \A u \in Threads \ {t} : Doing(u, "apunregister")' => Doing(u, "apunregister")
  BY <1>2, Zenon DEF Doing
<1> QED BY <1>4, <1>5, <1>6, <1>7, Zenon DEF Carries

LEMMA CarriedOn ==
  ASSUME Tidy, Lasts, NEW t \in Threads, todo[t] # <<>>, NEW s, Fine(s), Becomes(t, s)
  PROVE  Carries(t)
<1>1. todo[t] \in Seq(StepSet) /\ Paired(todo[t]) /\ Lasting(Tail(todo[t]))
  BY Zenon DEF Tidy, Lasts
<1>2. Tail(todo[t]) \in Seq(StepSet)
  BY <1>1, SeqTail
<1>3. Fine(Tail(todo[t]))
  BY <1>1, <1>2, PairedTail DEF Fine
<1>4. Fine(s \o Tail(todo[t]))
  BY <1>3, FineJoin
<1>5. todo' = [todo EXCEPT ![t] = s \o Tail(todo[t])]
  BY DEF Becomes
<1> QED BY <1>4, <1>5, Carried

LEMMA NextIsBecomes ==
  ASSUME Tidy, NEW t \in Threads, todo[t] # <<>>, Next1(t)
  PROVE  Becomes(t, <<>>)
<1>1. Tail(todo[t]) \in Seq(StepSet)
  BY SeqTail DEF Tidy
<1>2. <<>> \o Tail(todo[t]) = Tail(todo[t])
  BY <1>1
<1>3. todo' = [todo EXCEPT ![t] = <<>> \o Tail(todo[t])]
  BY <1>2 DEF Next1
<1> QED BY <1>3 DEF Becomes

LEMMA CarriedNext ==
  ASSUME Tidy, Lasts, NEW t \in Threads, todo[t] # <<>>, Next1(t)
  PROVE  Carries(t)
  BY NextIsBecomes, CarriedOn, FineNone

\* What was coming, and is not what the thread has just done, is still coming.
LEMMA StillComing ==
  ASSUME Tidy, NEW t \in Threads, todo[t] # <<>>, NEW s \in Seq(StepSet), Becomes(t, s), NEW op,
         Coming(op), ~Doing(t, op)
  PROVE  Coming(op)'
<1>0. todo'[t] = s \o Tail(todo[t]) /\ \A u \in Threads \ {t} : todo'[u] = todo[u]
  BY DEF Becomes, Tidy
<1>1. PICK u \in Threads : \E i \in DOMAIN todo[u] : todo[u][i].op = op
  BY DEF Coming
<1>2. PICK i \in DOMAIN todo[u] : todo[u][i].op = op
  BY <1>1
<1>3. CASE u # t
  BY <1>0, <1>2, <1>3 DEF Coming
<1>4. CASE u = t
  <2> DEFINE q == todo[t]
             r == Tail(q)
  <2>1. q \in Seq(StepSet) /\ q # <<>>
    BY DEF Tidy
  <2>2. /\ r \in Seq(StepSet) /\ Len(r) = Len(q) - 1 /\ Len(q) \in Nat
        /\ \A j \in 1 .. Len(q) - 1 : r[j] = q[j + 1]
        /\ Head(q) = q[1]
    BY <2>1, SeqTail
  <2>3. i \in 1 .. Len(q) /\ q[i].op = op /\ q[1].op # op
    BY <1>2, <1>4, <2>1, <2>2 DEF Doing
  <2> HIDE DEF q, r
  <2>4. i - 1 \in 1 .. Len(r) /\ r[i - 1].op = op
    <3>1. i # 1 /\ i \in 1 .. Len(q)
      BY <2>3, Zenon
    <3>2. i - 1 \in 1 .. Len(q) - 1 /\ (i - 1) + 1 = i
      BY <2>2, <3>1
    <3>3. r[i - 1] = q[i]
      BY <2>2, <3>2
    <3> QED BY <2>2, <2>3, <3>2, <3>3
  <2>5. /\ Len(s \o r) = Len(s) + Len(r) /\ Len(s) \in Nat
        /\ s \o r \in Seq(StepSet)
    BY <2>2, SeqJoin
  <2>6. (s \o r)[Len(s) + (i - 1)] = r[i - 1]
    BY <2>2, <2>4, JoinRight, Zenon
  <2>7. Len(s) + (i - 1) \in 1 .. Len(s \o r)
    BY <2>2, <2>4, <2>5
  <2>8. DOMAIN (s \o r) = 1 .. Len(s \o r)
    BY <2>5
  <2>9. todo'[t] = s \o r
    BY <1>0 DEF q, r
  <2> QED BY <2>4, <2>6, <2>7, <2>8, <2>9, Zenon DEF Coming
<1> QED BY <1>3, <1>4

\* What the thread goes on with is coming.
LEMMA NowComing ==
  ASSUME Tidy, NEW t \in Threads, todo[t] # <<>>, NEW s \in Seq(StepSet), Becomes(t, s),
         NEW i \in 1 .. Len(s)
  PROVE  Coming(s[i].op)'
<1> DEFINE r == Tail(todo[t])
<1>0. todo'[t] = s \o r
  BY DEF Becomes, Tidy
<1>1. r \in Seq(StepSet)
  BY SeqTail DEF Tidy
<1> HIDE DEF r
<1>2. /\ s \o r \in Seq(StepSet) /\ Len(s \o r) = Len(s) + Len(r) /\ Len(s) \in Nat
      /\ Len(r) \in Nat /\ \A j \in 1 .. Len(s) : (s \o r)[j] = s[j]
  BY <1>1, SeqJoin
<1>3. i \in DOMAIN (s \o r) /\ (s \o r)[i] = s[i]
  BY <1>2
<1> QED BY <1>0, <1>3, Zenon DEF Coming

\* What follows the step that the thread has done is coming.
LEMMA ThenComing ==
  ASSUME Tidy, NEW t \in Threads, todo[t] # <<>>, Next1(t), NEW op,
         NEW i \in 2 .. Len(todo[t]), todo[t][i].op = op
  PROVE  Coming(op)'
<1> DEFINE q == todo[t]
           r == Tail(q)
<1>1. todo'[t] = r /\ q \in Seq(StepSet) /\ q # <<>>
  BY DEF Next1, Tidy
<1>2. /\ r \in Seq(StepSet) /\ Len(r) = Len(q) - 1 /\ Len(q) \in Nat
      /\ \A j \in 1 .. Len(q) - 1 : r[j] = q[j + 1]
  BY <1>1, SeqTail
<1> HIDE DEF q, r
<1>3. i \in 2 .. Len(q) /\ q[i].op = op
  BY DEF q
<1>4. i - 1 \in 1 .. Len(q) - 1 /\ (i - 1) + 1 = i
  BY <1>2, <1>3
<1>5. i - 1 \in 1 .. Len(r) /\ r[i - 1] = q[i]
  BY <1>2, <1>4
<1>6. DOMAIN r = 1 .. Len(r)
  BY <1>2
<1> QED BY <1>1, <1>3, <1>5, <1>6, Zenon DEF Coming

LEMMA PairComing ==
  ASSUME Tidy, NEW t \in Threads, todo[t] # <<>>, Next1(t), NEW a, NEW b,
         Doing(t, a), Pair(todo[t], a, b)
  PROVE  Coming(b)'
<1>1. Len(todo[t]) \in Nat \ {0} /\ Head(todo[t]) = todo[t][1]
  BY SeqTail DEF Tidy
<1>2. 1 < Len(todo[t]) /\ todo[t][2].op = b
  BY <1>1 DEF Pair, Doing
<1>3. 2 \in 2 .. Len(todo[t])
  BY <1>1, <1>2
<1> QED BY <1>2, <1>3, ThenComing, Zenon
-----------------------------------------------------------------------------
(***************************************************************************)
(* What a step leaves to others.                                           *)
(***************************************************************************)
Dues == {"poststart", "silent", "apregister", "closeap", "recheck", "videostart"}

\* What a thread has done of what was coming is done.
Pays ==
  /\ Coming("poststart") => Coming("poststart")' \/ startsem' > 0
  /\ Coming("silent") => Coming("silent")' \/ ~playing'
  /\ Coming("apregister") => Coming("apregister")' \/ apTimers' > 0
  /\ Coming("closeap") => Coming("closeap")' \/ ~apOpen'
  /\ Coming("recheck") => Coming("recheck")' \/ recheck'
  /\ Coming("videostart") => Coming("videostart")' \/ video'

\* What it has changed for a time is about to be restored.
Owes ==
  /\ playing' => playing \/ Coming("poststart")'
  /\ owed \subseteq lost => owed' \subseteq lost' \/ Coming("poststart")'
  /\ stopsem' > 0 => stopsem > 0 \/ Coming("silent")'
  /\ apOpen' => apOpen \/ Coming("apregister")'
  /\ apTimers > 0 => apTimers' > 0 \/ Coming("closeap")'
  /\ video => video' \/ Coming("recheck")'
  /\ recheck => recheck' \/ Coming("videostart")'

Restores == Pays /\ Owes

\* Only the timer thread unregisters the timer of the access point, which is registered.
Unregisters == \A t \in Threads : Doing(t, "apunregister") => t = "timer" /\ apTimers > 0

PlayerFree == player # "waits" => todo["player"] = <<>>

\* The flag is set for a prompt that somebody is about to ask for, or about to silence.
Pursued == late \/ ~audioHandler \/ startsem > 0 \/ Coming("poststart") \/ Coming("silent")
SoundPursued ==
  playing /\ (player \in {"waits", "over"} \/ (player = "plays" /\ stopsem > 0)) => Pursued

DutyInv == TypeOK /\ Tidy /\ Lasts /\ Unregisters /\ PlayerFree

LEMMA SameTodo ==
  ASSUME DutyInv, UNCHANGED todo
  PROVE  Tidy' /\ Lasts' /\ \A op \in Dues : Coming(op) => Coming(op)'
  BY Zenon DEF DutyInv, Tidy, Lasts, Coming

LEMMA GoesOn ==
  ASSUME DutyInv, NEW t \in Threads, todo[t] # <<>>, NEW s, Fine(s), Becomes(t, s)
  PROVE  Carries(t) /\ \A op \in Dues : Coming(op) => Coming(op)' \/ Doing(t, op)
<1>1. s \in Seq(StepSet) /\ Tidy /\ Lasts
  BY DEF Fine, DutyInv
<1>2. Carries(t)
  BY <1>1, CarriedOn
<1>3. ASSUME NEW op \in Dues, Coming(op), ~Doing(t, op) PROVE Coming(op)'
  BY <1>1, <1>3, StillComing
<1> QED BY <1>2, <1>3, Zenon

LEMMA TakesNext ==
  ASSUME DutyInv, NEW t \in Threads, todo[t] # <<>>, Next1(t)
  PROVE  Carries(t) /\ \A op \in Dues : Coming(op) => Coming(op)' \/ Doing(t, op)
<1>1. Becomes(t, <<>>)
  BY NextIsBecomes DEF DutyInv
<1> QED BY <1>1, FineNone, GoesOn, Zenon

LEMMA BeginsComing ==
  ASSUME Tidy, NEW t \in Threads, todo[t] = <<>>, NEW s, todo' = [todo EXCEPT ![t] = s],
         NEW op, Coming(op)
  PROVE  Coming(op)'
<1>1. PICK u \in Threads : \E i \in DOMAIN todo[u] : todo[u][i].op = op
  BY DEF Coming
<1>2. u # t
  BY <1>1
<1>3. todo'[u] = todo[u]
  BY <1>2 DEF Tidy
<1> QED BY <1>1, <1>3, Zenon DEF Coming

LEMMA Begins ==
  ASSUME DutyInv, NEW t \in Threads, todo[t] = <<>>, NEW s, Fine(s),
         todo' = [todo EXCEPT ![t] = s]
  PROVE  Carries(t) /\ \A op \in Dues : Coming(op) => Coming(op)'
<1>1. Tidy /\ Lasts
  BY DEF DutyInv
<1>2. Carries(t)
  BY <1>1, Carried
<1>3. ASSUME NEW op \in Dues, Coming(op) PROVE Coming(op)'
  BY <1>1, <1>3, BeginsComing
<1> QED BY <1>2, <1>3, Zenon

Mild == UNCHANGED <<playing, owed, lost, stopsem, apOpen, apTimers, video, recheck>>

LEMMA MildOwes == Mild => Owes
<1> SUFFICES ASSUME Mild PROVE Owes
  OBVIOUS
<1>1. /\ playing' = playing /\ owed' = owed /\ lost' = lost /\ stopsem' = stopsem
      /\ apOpen' = apOpen
      /\ apTimers' = apTimers /\ video' = video /\ recheck' = recheck
  BY DEF Mild
<1> QED BY <1>1, Zenon DEF Owes

\* A step that takes nothing that is coming pays.
LEMMA KeepsPays == (\A op \in Dues : Coming(op) => Coming(op)') => Pays
<1>1. \A op \in {"poststart", "silent", "apregister", "closeap", "recheck", "videostart"} :
        op \in Dues
  BY DEF Dues
<1> QED BY <1>1, Zenon DEF Pays

LEMMA OtherPays ==
  ASSUME NEW t \in Threads, NEW op, Doing(t, op), op \notin Dues,
         \A d \in Dues : Coming(d) => Coming(d)' \/ Doing(t, d)
  PROVE  Pays
<1>1. \A d \in Dues : ~Doing(t, d)
  BY DEF Doing
<1> QED BY <1>1, KeepsPays, Zenon
-----------------------------------------------------------------------------
(***************************************************************************)
(* One lemma per action.                                                   *)
(***************************************************************************)
LEMMA StopStep ==
  ASSUME DutyInv, NEW t \in Threads, Stop(t)
  PROVE  Carries(t) /\ Restores
<1>1. Doing(t, "stop") /\ todo[t] # <<>>
  BY DEF Stop, Doing
<1> DEFINE s == IF playing THEN Op("poststop") \o Op("silent") ELSE <<>>
<1>2. Fine(s)
  BY FineTwo, FineNone
<1>3. Becomes(t, s)
  BY DEF Stop
<1> HIDE DEF s
<1>4. Carries(t) /\ \A op \in Dues : Coming(op) => Coming(op)' \/ Doing(t, op)
  BY <1>1, <1>2, <1>3, GoesOn
<1>5. Pays
  BY <1>1, <1>4, OtherPays DEF Dues
<1>6. Mild
  BY DEF Stop, Mild, audio, apVars, wpsVars
<1> QED BY <1>4, <1>5, <1>6, MildOwes DEF Restores

LEMMA PostStopStep ==
  ASSUME DutyInv, NEW t \in Threads, PostStop(t)
  PROVE  Carries(t) /\ Restores
<1>1. Doing(t, "poststop") /\ todo[t] # <<>> /\ Next1(t)
  BY DEF PostStop, Doing
<1>4. Carries(t) /\ \A op \in Dues : Coming(op) => Coming(op)' \/ Doing(t, op)
  BY <1>1, TakesNext
<1>5. Pays
  BY <1>1, <1>4, OtherPays DEF Dues
<1>6. Tidy /\ Pair(todo[t], "poststop", "silent")
  BY DEF DutyInv, Tidy, Paired
<1>7. Coming("silent")'
  BY <1>1, <1>6, PairComing
<1>8. UNCHANGED <<playing, owed, lost, apOpen, apTimers, video, recheck>>
  BY DEF PostStop, apVars, wpsVars, history
<1>9. Owes
  BY <1>7, <1>8, Zenon DEF Owes
<1> QED BY <1>4, <1>5, <1>9 DEF Restores

LEMMA SetStateStep ==
  ASSUME DutyInv, NEW t \in Threads, SetPlayAlarmAudioState(t)
  PROVE  Carries(t) /\ Restores
<1>1. todo[t] # <<>> /\ Next1(t) /\ Tidy
  BY DEF SetPlayAlarmAudioState, Doing, DutyInv
<1>2. Carries(t) /\ \A op \in Dues : Coming(op) => Coming(op)' \/ Doing(t, op)
  BY <1>1, TakesNext
<1>3. UNCHANGED <<owed, lost, stopsem, apOpen, apTimers, video, recheck>>
  BY DEF SetPlayAlarmAudioState, apVars, wpsVars, history
<1>4. CASE Doing(t, "silent")
  <2>1. ~playing' /\ \A op \in Dues \ {"silent"} : ~Doing(t, op)
    BY <1>4 DEF SetPlayAlarmAudioState, Doing
  <2>2. "poststart" \in Dues \ {"silent"} /\ "apregister" \in Dues \ {"silent"}
        /\ "closeap" \in Dues \ {"silent"} /\ "recheck" \in Dues \ {"silent"}
        /\ "videostart" \in Dues \ {"silent"}
    BY DEF Dues
  <2>3. Pays
    BY <1>2, <2>1, <2>2, Zenon DEF Pays
  <2>4. Owes
    BY <1>3, <2>1, Zenon DEF Owes
  <2> QED BY <1>2, <2>3, <2>4 DEF Restores
<1>5. CASE Doing(t, "sound")
  <2>1. Pays
    BY <1>2, <1>5, OtherPays DEF Dues
  <2>2. Pair(todo[t], "sound", "poststart")
    BY DEF DutyInv, Tidy, Paired
  <2>3. Coming("poststart")'
    BY <1>1, <1>5, <2>2, PairComing
  <2>4. Owes
    BY <1>3, <2>3, Zenon DEF Owes
  <2> QED BY <1>2, <2>1, <2>4 DEF Restores
<1> QED BY <1>4, <1>5 DEF SetPlayAlarmAudioState

LEMMA AskStep ==
  ASSUME DutyInv, NEW t \in Threads, Ask(t)
  PROVE  Carries(t) /\ Restores
<1>1. Doing(t, "start") /\ todo[t] # <<>> /\ Tidy
  BY DEF Ask, Doing, DutyInv
<1>2. UNCHANGED <<playing, stopsem, apOpen, apTimers, video, recheck>>
  BY DEF Ask, apVars, wpsVars
<1>3. CASE bell_audio
  <2> DEFINE s == Op("sound") \o Op("poststart")
  <2>1. Becomes(t, s)
    BY <1>3, Zenon DEF Ask
  <2>2. Fine(s)
    BY FineTwo
  <2>3. s \in Seq(StepSet) /\ Len(s) = 2 /\ s[2].op = "poststart"
    BY TwoOps DEF StepSet
  <2> HIDE DEF s
  <2>4. Carries(t) /\ \A op \in Dues : Coming(op) => Coming(op)' \/ Doing(t, op)
    BY <1>1, <2>1, <2>2, GoesOn
  <2>5. Pays
    BY <1>1, <2>4, OtherPays DEF Dues
  <2>6. 2 \in 1 .. Len(s)
    BY <2>3
  <2>7. Coming(s[2].op)'
    BY <1>1, <2>1, <2>3, <2>6, NowComing
  <2>8. Coming("poststart")'
    BY <2>3, <2>7
  <2>9. Owes
    BY <1>2, <2>8, Zenon DEF Owes
  <2> QED BY <2>4, <2>5, <2>9 DEF Restores
<1>4. CASE ~bell_audio
  <2> DEFINE fn == Head(todo[t]).fn
  <2>1. Head(todo[t]) \in StepSet /\ Head(todo[t]).op = "start"
    BY <1>1 DEF Tidy, Doing
  <2>2. fn \in Callbacks
    BY <2>1 DEF StepSet
  <2>3. Becomes(t, Steps(fn)) /\ owed' = owed /\ lost' = lost
    BY <1>4, Zenon DEF Ask
  <2> HIDE DEF fn
  <2>4. Fine(Steps(fn))
    BY <2>2, FineSteps
  <2>5. Carries(t) /\ \A op \in Dues : Coming(op) => Coming(op)' \/ Doing(t, op)
    BY <1>1, <2>3, <2>4, GoesOn
  <2>6. Pays
    BY <1>1, <2>5, OtherPays DEF Dues
  <2>7. Mild
    BY <1>2, <2>3 DEF Mild
  <2> QED BY <2>5, <2>6, <2>7, MildOwes DEF Restores
<1> QED BY <1>3, <1>4

LEMMA PostStartStep ==
  ASSUME DutyInv, NEW t \in Threads, PostStart(t)
  PROVE  Carries(t) /\ Restores
<1>1. Doing(t, "poststart") /\ todo[t] # <<>> /\ Next1(t)
  BY DEF PostStart, Doing
<1>2. Carries(t) /\ \A op \in Dues : Coming(op) => Coming(op)' \/ Doing(t, op)
  BY <1>1, TakesNext
<1>3. startsem' > 0
  BY DEF PostStart, DutyInv, TypeOK, CountType
<1>4. \A op \in Dues \ {"poststart"} : ~Doing(t, op)
  BY <1>1 DEF Doing
<1>5. "silent" \in Dues \ {"poststart"} /\ "apregister" \in Dues \ {"poststart"}
      /\ "closeap" \in Dues \ {"poststart"} /\ "recheck" \in Dues \ {"poststart"}
      /\ "videostart" \in Dues \ {"poststart"}
  BY DEF Dues
<1>6. Pays
  BY <1>2, <1>3, <1>4, <1>5, Zenon DEF Pays
<1>7. Mild
  BY DEF PostStart, Mild, apVars, wpsVars, history
<1> QED BY <1>2, <1>6, <1>7, MildOwes DEF Restores

LEMMA RingOnStep ==
  ASSUME DutyInv, NEW t \in Threads, RingOn(t)
  PROVE  Carries(t) /\ Restores
<1>1. Doing(t, "ringon") /\ todo[t] # <<>>
  BY DEF RingOn, Doing
<1> DEFINE s == IF call = "talk" THEN <<>> ELSE StartAudioPlay("calling", "none")
<1>2. Fine(s)
  BY FinePrompt, FineNone DEF Indexes, Callbacks
<1>3. Becomes(t, s)
  BY DEF RingOn
<1> HIDE DEF s
<1>4. Carries(t) /\ \A op \in Dues : Coming(op) => Coming(op)' \/ Doing(t, op)
  BY <1>1, <1>2, <1>3, GoesOn
<1>5. Pays
  BY <1>1, <1>4, OtherPays DEF Dues
<1>6. Mild
  BY DEF RingOn, Mild, audio, apVars, wpsVars, history
<1> QED BY <1>4, <1>5, <1>6, MildOwes DEF Restores

LEMMA WifiConfigStep ==
  ASSUME DutyInv, NEW t \in Threads, WifiConfig(t)
  PROVE  Carries(t) /\ Restores
<1>1. Doing(t, "wifi") /\ todo[t] # <<>> /\ Next1(t)
  BY DEF WifiConfig, Doing
<1>2. Carries(t) /\ \A op \in Dues : Coming(op) => Coming(op)' \/ Doing(t, op)
  BY <1>1, TakesNext
<1>3. Pays
  BY <1>1, <1>2, OtherPays DEF Dues
<1>4. Mild
  BY DEF WifiConfig, Mild, audio, wpsVars, history
<1> QED BY <1>2, <1>3, <1>4, MildOwes DEF Restores

LEMMA RebootsStep ==
  ASSUME DutyInv, NEW t \in Threads, Reboots(t)
  PROVE  Carries(t) /\ Restores
<1>1. Doing(t, "reboot") /\ todo[t] # <<>> /\ Next1(t)
  BY DEF Reboots, Doing
<1>2. Carries(t) /\ \A op \in Dues : Coming(op) => Coming(op)' \/ Doing(t, op)
  BY <1>1, TakesNext
<1>3. Pays
  BY <1>1, <1>2, OtherPays DEF Dues
<1>4. Mild
  BY DEF Reboots, Mild, audio, apVars, wpsVars, history
<1> QED BY <1>2, <1>3, <1>4, MildOwes DEF Restores

\* The timer is registered three steps after the access point is opened.
LEMMA OpenComing ==
  ASSUME Tidy, NEW t \in Threads, Next1(t), Doing(t, "openap")
  PROVE  Coming("apregister")'
<1>1. /\ todo[t] \in Seq(StepSet) /\ todo[t] # <<>> /\ Head(todo[t]).op = "openap"
      /\ Pair(todo[t], "openap", "apstate") /\ Pair(todo[t], "apstate", "apzero")
      /\ Pair(todo[t], "apzero", "apregister")
  BY DEF Tidy, Doing, Paired
<1>2. Len(todo[t]) \in Nat \ {0} /\ Head(todo[t]) = todo[t][1]
  BY <1>1, SeqTail
<1>3. 1 < Len(todo[t]) /\ todo[t][2].op = "apstate"
  BY <1>1, <1>2 DEF Pair
<1>4. 2 < Len(todo[t]) /\ todo[t][3].op = "apzero"
  BY <1>1, <1>2, <1>3 DEF Pair
<1>5. 3 < Len(todo[t]) /\ todo[t][4].op = "apregister"
  BY <1>1, <1>2, <1>4 DEF Pair
<1>6. 4 \in 2 .. Len(todo[t])
  BY <1>2, <1>5
<1> QED BY <1>1, <1>5, <1>6, ThenComing, Zenon

LEMMA EnterApStep ==
  ASSUME DutyInv, NEW t \in Threads, EnterAp(t)
  PROVE  Carries(t) /\ Restores
<1>1. todo[t] # <<>> /\ Next1(t) /\ Tidy
  BY DEF EnterAp, Doing, DutyInv
<1>2. Carries(t) /\ \A op \in Dues : Coming(op) => Coming(op)' \/ Doing(t, op)
  BY <1>1, TakesNext
<1>3. UNCHANGED <<playing, owed, lost, stopsem, video, recheck>>
  BY DEF EnterAp, audio, wpsVars, history
<1>4. CASE Doing(t, "openap")
  <2>1. Pays
    BY <1>2, <1>4, OtherPays DEF Dues
  <2>2. apTimers' = apTimers
    BY <1>4 DEF EnterAp, Doing
  <2>3. Coming("apregister")'
    BY <1>1, <1>4, OpenComing
  <2>4. Owes
    BY <1>3, <2>2, <2>3, Zenon DEF Owes
  <2> QED BY <1>2, <2>1, <2>4 DEF Restores
<1>5. CASE Doing(t, "apstate") \/ Doing(t, "apzero")
  <2>1. Pays
    BY <1>2, <1>5, OtherPays DEF Dues
  <2>2. apTimers' = apTimers /\ apOpen' = apOpen
    BY <1>5 DEF EnterAp, Doing
  <2>3. Mild
    BY <1>3, <2>2 DEF Mild
  <2> QED BY <1>2, <2>1, <2>3, MildOwes DEF Restores
<1>6. CASE Doing(t, "apregister")
  <2>1. apTimers' > 0 /\ apOpen' = apOpen
    BY <1>6 DEF EnterAp, Doing, DutyInv, TypeOK, CountType
  <2>2. \A op \in Dues \ {"apregister"} : ~Doing(t, op)
    BY <1>6 DEF Doing
  <2>3. "silent" \in Dues \ {"apregister"} /\ "poststart" \in Dues \ {"apregister"}
        /\ "closeap" \in Dues \ {"apregister"} /\ "recheck" \in Dues \ {"apregister"}
        /\ "videostart" \in Dues \ {"apregister"}
    BY DEF Dues
  <2>4. Pays
    BY <1>2, <2>1, <2>2, <2>3, Zenon DEF Pays
  <2>5. Owes
    BY <1>3, <2>1, Zenon DEF Owes
  <2> QED BY <1>2, <2>4, <2>5 DEF Restores
<1> QED BY <1>4, <1>5, <1>6 DEF EnterAp

LEMMA EnterWpsStep ==
  ASSUME DutyInv, NEW t \in Threads, EnterWps(t)
  PROVE  Carries(t) /\ Restores
<1>1. todo[t] # <<>> /\ Next1(t) /\ Tidy
  BY DEF EnterWps, Doing, DutyInv
<1>2. Carries(t) /\ \A op \in Dues : Coming(op) => Coming(op)' \/ Doing(t, op)
  BY <1>1, TakesNext
<1>3. UNCHANGED <<playing, owed, lost, stopsem, apOpen, apTimers>>
  BY DEF EnterWps, audio, apVars, history
<1>4. CASE Doing(t, "wpsstate") \/ Doing(t, "wpszero")
  <2>1. Pays
    BY <1>2, <1>4, OtherPays DEF Dues
  <2>2. video' = video /\ recheck' = recheck
    BY <1>4 DEF EnterWps, Doing
  <2>3. Mild
    BY <1>3, <2>2 DEF Mild
  <2> QED BY <1>2, <2>1, <2>3, MildOwes DEF Restores
<1>5. CASE Doing(t, "videostop")
  <2>1. Pays
    BY <1>2, <1>5, OtherPays DEF Dues
  <2>2. recheck' = recheck
    BY <1>5 DEF EnterWps, Doing
  <2>3. Pair(todo[t], "videostop", "recheck")
    BY DEF DutyInv, Tidy, Paired
  <2>4. Coming("recheck")'
    BY <1>1, <1>5, <2>3, PairComing
  <2>5. Owes
    BY <1>3, <2>2, <2>4, Zenon DEF Owes
  <2> QED BY <1>2, <2>1, <2>5 DEF Restores
<1>6. CASE Doing(t, "recheck")
  <2>1. recheck' /\ video' = video
    BY <1>6 DEF EnterWps, Doing
  <2>2. \A op \in Dues \ {"recheck"} : ~Doing(t, op)
    BY <1>6 DEF Doing
  <2>3. "silent" \in Dues \ {"recheck"} /\ "poststart" \in Dues \ {"recheck"}
        /\ "closeap" \in Dues \ {"recheck"} /\ "apregister" \in Dues \ {"recheck"}
        /\ "videostart" \in Dues \ {"recheck"}
    BY DEF Dues
  <2>4. Pays
    BY <1>2, <2>1, <2>2, <2>3, Zenon DEF Pays
  <2>5. Owes
    BY <1>3, <2>1, Zenon DEF Owes
  <2> QED BY <1>2, <2>4, <2>5 DEF Restores
<1> QED BY <1>4, <1>5, <1>6 DEF EnterWps

LEMMA ThreadStep ==
  ASSUME DutyInv, NEW t \in Threads, Step(t)
  PROVE  Carries(t) /\ Restores
  BY StopStep, PostStopStep, SetStateStep, AskStep, PostStartStep, RingOnStep, WifiConfigStep,
     RebootsStep, EnterApStep, EnterWpsStep, Zenon DEF Step, Audio, Callback

Orderly == Tidy' /\ Lasts' /\ Unregisters'

LEMMA CarriesOrderly ==
  ASSUME DutyInv, NEW t \in Threads, Carries(t), apTimers' = apTimers \/ t = "timer"
  PROVE  Orderly
<1>1. ASSUME NEW u \in Threads, Doing(u, "apunregister")'
      PROVE  u = "timer" /\ apTimers' > 0
  <2>1. u # t /\ Doing(u, "apunregister")
    BY <1>1, Zenon DEF Carries
  <2>2. u = "timer" /\ apTimers > 0
    BY <2>1, Zenon DEF DutyInv, Unregisters
  <2> QED BY <2>1, <2>2
<1> QED BY <1>1, Zenon DEF Orderly, Unregisters, Carries

LEMMA SameOrderly ==
  ASSUME DutyInv, UNCHANGED todo, apTimers' = apTimers
  PROVE  Orderly /\ Pays
<1>1. Tidy' /\ Lasts' /\ \A op \in Dues : Coming(op) => Coming(op)'
  BY SameTodo
<1>2. Unregisters'
  BY Zenon DEF DutyInv, Unregisters, Doing
<1> QED BY <1>1, <1>2, KeepsPays, Zenon DEF Orderly

LEMMA BeginsOrderly ==
  ASSUME DutyInv, NEW t \in Threads, todo[t] = <<>>, NEW s, Fine(s),
         todo' = [todo EXCEPT ![t] = s], Mild
  PROVE  Orderly /\ Restores
<1>1. Carries(t) /\ \A op \in Dues : Coming(op) => Coming(op)'
  BY Begins
<1>2. apTimers' = apTimers
  BY DEF Mild
<1> QED BY <1>1, <1>2, CarriesOrderly, KeepsPays, MildOwes, Zenon DEF Restores

LEMMA SameRestores ==
  ASSUME DutyInv, UNCHANGED todo, Mild
  PROVE  Orderly /\ Restores
<1>1. apTimers' = apTimers
  BY DEF Mild
<1> QED BY <1>1, SameOrderly, MildOwes, Zenon DEF Restores

LEMMA PlayerOrderly ==
  ASSUME DutyInv, Player
  PROVE  Orderly /\ Restores
<1>1. CASE PlayerWakes \/ PlayerMutes \/ PlayerStops \/ PlayerFinishes \/ PlayerEnds
  <2>1. UNCHANGED <<todo, owed, lost, apOpen, apTimers, video, recheck>> /\ stopsem' <= stopsem
        /\ (playing' = playing \/ ~playing')
    BY <1>1 DEF PlayerWakes, PlayerMutes, PlayerStops, PlayerFinishes, PlayerEnds, DutyInv,
                TypeOK, CountType, audio, apVars, wpsVars, history
  <2>2. Orderly /\ Pays
    BY <2>1, SameOrderly
  <2>3. stopsem' > 0 => stopsem > 0
    <3>1. CASE stopsem' = stopsem
      BY <3>1
    <3>2. CASE stopsem' # stopsem
      BY <1>1, <3>2 DEF PlayerWakes, PlayerMutes, PlayerStops, PlayerFinishes, PlayerEnds, audio
    <3> QED BY <3>1, <3>2
  <2>4. /\ owed' = owed /\ lost' = lost
        /\ apOpen' = apOpen /\ apTimers' = apTimers /\ video' = video
        /\ recheck' = recheck /\ (playing' => playing)
    <3>1. playing' = playing => (playing' => playing)
      BY Zenon
    <3> QED BY <2>1, <3>1, Zenon
  <2>5. Owes
    BY <2>3, <2>4, Zenon DEF Owes
  <2> QED BY <2>2, <2>5 DEF Restores
<1>2. CASE PlayerCalls
  <2>1. todo["player"] = <<>>
    BY <1>2 DEF PlayerCalls, DutyInv, PlayerFree
  <2>2. request.fn \in Callbacks
    BY DEF DutyInv, TypeOK, ControlType
  <2>3. Fine(Steps(request.fn))
    BY <2>2, FineSteps
  <2>4. todo' = [todo EXCEPT !["player"] = Steps(request.fn)]
    BY <1>2 DEF PlayerCalls
  <2>5. "player" \in Threads
    BY DEF Threads
  <2>6. Carries("player") /\ \A op \in Dues : Coming(op) => Coming(op)'
    BY <2>1, <2>3, <2>4, <2>5, Begins
  <2>7. UNCHANGED <<playing, stopsem, apOpen, apTimers, video, recheck>>
        /\ (owed \subseteq lost => owed' \subseteq lost')
    BY <1>2 DEF PlayerCalls, audio, apVars, wpsVars
  <2>8. Owes
    BY <2>7, Zenon DEF Owes
  <2> QED BY <2>5, <2>6, <2>7, <2>8, CarriesOrderly, KeepsPays, Zenon DEF Restores
<1> QED BY <1>1, <1>2 DEF Player

LEMMA FailsOrderly ==
  ASSUME DutyInv, PlayerFails
  PROVE  Orderly /\ Restores
<1>1. /\ UNCHANGED <<todo, stopsem, apOpen, apTimers, video, recheck>> /\ ~playing'
      /\ (owed \subseteq lost => owed' \subseteq lost')
  BY DEF PlayerFails, apVars, wpsVars
<1>2. Owes
  BY <1>1, Zenon DEF Owes
<1> QED BY <1>1, <1>2, SameOrderly DEF Restores

LEMMA BootOrderly ==
  ASSUME DutyInv, SystemBoot
  PROVE  Orderly /\ Restores
<1>1. Mild /\ UNCHANGED todo
  BY DEF SystemBoot, Mild, audio, apVars, wpsVars, history
<1> QED BY <1>1, SameRestores

LEMMA ApTickOrderly ==
  ASSUME DutyInv, ApTick
  PROVE  Orderly /\ Restores
<1>1. Mild /\ apTimers > 0 /\ apTimers' = apTimers /\ todo["timer"] = <<>> /\ "timer" \in Threads
  BY DEF ApTick, Mild, audio, wpsVars, history, Threads
<1>2. CASE todo' = [todo EXCEPT !["timer"] = <<>>]
  BY <1>1, <1>2, FineNone, BeginsOrderly
<1>3. CASE todo' = [todo EXCEPT !["timer"] = ApOver]
  <2>1. ApOver \in Seq(StepSet) /\ ApOver # <<>> /\ Paired(ApOver) /\ Lasting(Tail(ApOver))
    BY OverIs
  <2>2. Tidy /\ Lasts
    BY DEF DutyInv
  <2>3. todo'["timer"] = ApOver /\ \A u \in Threads \ {"timer"} : todo'[u] = todo[u]
    BY <1>1, <1>3, <2>2 DEF Tidy
  <2>4. todo' \in [Threads -> Seq(StepSet)]
    BY <1>3, <2>1, <2>2 DEF Tidy
  <2>5. Tidy'
    BY <2>1, <2>2, <2>3, <2>4, Zenon DEF Tidy
  <2>6. Lasts'
    BY <2>1, <2>2, <2>3, Zenon DEF Lasts
  <2>7. Unregisters'
    BY <1>1, <2>3, Zenon DEF DutyInv, Unregisters, Doing
  <2>8. \A op \in Dues : Coming(op) => Coming(op)'
    BY <1>1, <1>3, <2>2, BeginsComing
  <2> QED BY <1>1, <2>5, <2>6, <2>7, <2>8, KeepsPays, MildOwes, Zenon DEF Orderly, Restores
<1> QED BY <1>2, <1>3 DEF ApTick

LEMMA LeaveApOrderly ==
  ASSUME DutyInv, LeaveAp
  PROVE  Orderly /\ Restores
<1>1. todo["timer"] # <<>> /\ Next1("timer") /\ Tidy /\ "timer" \in Threads
  BY DEF LeaveAp, Doing, DutyInv, Threads
<1>2. /\ Carries("timer") /\ Orderly
      /\ \A op \in Dues : Coming(op) => Coming(op)' \/ Doing("timer", op)
  BY <1>1, TakesNext, CarriesOrderly
<1>3. UNCHANGED <<playing, owed, lost, stopsem, video, recheck>>
  BY DEF LeaveAp, audio, wpsVars, history
<1>4. CASE Doing("timer", "apunregister")
  <2>1. Pays
    BY <1>1, <1>2, <1>4, OtherPays DEF Dues
  <2>2. Pair(todo["timer"], "apunregister", "closeap")
    BY <1>1, Zenon DEF Tidy, Paired
  <2>3. Coming("closeap")'
    BY <1>1, <1>4, <2>2, PairComing
  <2>4. apOpen' = apOpen
    BY <1>4 DEF LeaveAp, Doing
  <2>5. Owes
    BY <1>3, <2>3, <2>4, Zenon DEF Owes
  <2> QED BY <1>2, <2>1, <2>5 DEF Restores
<1>5. CASE Doing("timer", "closeap")
  <2>1. ~apOpen' /\ apTimers' = apTimers
    BY <1>5 DEF LeaveAp, Doing
  <2>2. \A op \in Dues \ {"closeap"} : ~Doing("timer", op)
    BY <1>5 DEF Doing
  <2>3. "silent" \in Dues \ {"closeap"} /\ "poststart" \in Dues \ {"closeap"}
        /\ "recheck" \in Dues \ {"closeap"} /\ "apregister" \in Dues \ {"closeap"}
        /\ "videostart" \in Dues \ {"closeap"}
    BY DEF Dues
  <2>4. Pays
    BY <1>2, <2>1, <2>2, <2>3, Zenon DEF Pays
  <2>5. Owes
    BY <1>3, <2>1, Zenon DEF Owes
  <2> QED BY <1>2, <2>4, <2>5 DEF Restores
<1>6. CASE Doing("timer", "apleave")
  <2>1. Pays
    BY <1>1, <1>2, <1>6, OtherPays DEF Dues
  <2>2. apTimers' = apTimers /\ apOpen' = apOpen
    BY <1>6 DEF LeaveAp, Doing
  <2>3. Mild
    BY <1>3, <2>2 DEF Mild
  <2> QED BY <1>2, <2>1, <2>3, MildOwes DEF Restores
<1> QED BY <1>4, <1>5, <1>6 DEF LeaveAp

LEMMA WpsLookOrderly ==
  ASSUME DutyInv, WpsLook
  PROVE  Orderly /\ Restores
<1>1. Mild /\ todo["wps"] = <<>> /\ "wps" \in Threads
  BY DEF WpsLook, Mild, audio, apVars, history, Threads
<1>2. CASE todo' = [todo EXCEPT !["wps"] = WpsDone]
  BY <1>1, <1>2, FineDone, BeginsOrderly
<1>3. CASE todo' = [todo EXCEPT !["wps"] = StartAudioPlay("configok", "none") \o WpsDone]
  <2>1. Fine(StartAudioPlay("configok", "none"))
    BY FinePrompt DEF Indexes, Callbacks
  <2>2. Fine(StartAudioPlay("configok", "none") \o WpsDone)
    BY <2>1, FineDone, FineJoin
  <2> QED BY <1>1, <1>3, <2>2, BeginsOrderly
<1>4. CASE UNCHANGED todo
  BY <1>1, <1>4, SameRestores
<1> QED BY <1>2, <1>3, <1>4 DEF WpsLook

LEMMA LeaveWpsOrderly ==
  ASSUME DutyInv, LeaveWps
  PROVE  Orderly /\ Restores
<1>1. todo["wps"] # <<>> /\ Next1("wps") /\ Tidy /\ "wps" \in Threads /\ apTimers' = apTimers
  BY DEF LeaveWps, Doing, DutyInv, Threads, apVars
<1>2. /\ Carries("wps") /\ Orderly
      /\ \A op \in Dues : Coming(op) => Coming(op)' \/ Doing("wps", op)
  BY <1>1, TakesNext, CarriesOrderly
<1>3. UNCHANGED <<playing, owed, lost, stopsem, apOpen, apTimers>>
  BY DEF LeaveWps, audio, apVars, history
<1>4. CASE Doing("wps", "norecheck")
  <2>1. Pays
    BY <1>1, <1>2, <1>4, OtherPays DEF Dues
  <2>2. Pair(todo["wps"], "norecheck", "videostart")
    BY <1>1, Zenon DEF Tidy, Paired
  <2>3. Coming("videostart")'
    BY <1>1, <1>4, <2>2, PairComing
  <2>4. video' = video
    BY <1>4 DEF LeaveWps, Doing
  <2>5. Owes
    BY <1>3, <2>3, <2>4, Zenon DEF Owes
  <2> QED BY <1>2, <2>1, <2>5 DEF Restores
<1>5. CASE Doing("wps", "videostart")
  <2>1. video' /\ recheck' = recheck
    BY <1>5 DEF LeaveWps, Doing
  <2>2. \A op \in Dues \ {"videostart"} : ~Doing("wps", op)
    BY <1>5 DEF Doing
  <2>3. "silent" \in Dues \ {"videostart"} /\ "poststart" \in Dues \ {"videostart"}
        /\ "recheck" \in Dues \ {"videostart"} /\ "apregister" \in Dues \ {"videostart"}
        /\ "closeap" \in Dues \ {"videostart"}
    BY DEF Dues
  <2>4. Pays
    BY <1>2, <2>1, <2>2, <2>3, Zenon DEF Pays
  <2>5. Owes
    BY <1>3, <2>1, Zenon DEF Owes
  <2> QED BY <1>2, <2>4, <2>5 DEF Restores
<1>6. CASE Doing("wps", "wpsleave")
  <2>1. Pays
    BY <1>1, <1>2, <1>6, OtherPays DEF Dues
  <2>2. video' = video /\ recheck' = recheck
    BY <1>6 DEF LeaveWps, Doing
  <2>3. Mild
    BY <1>3, <2>2 DEF Mild
  <2> QED BY <1>2, <2>1, <2>3, MildOwes DEF Restores
<1> QED BY <1>4, <1>5, <1>6 DEF LeaveWps

LEMMA DoesOrderly ==
  ASSUME DutyInv, NEW t \in Threads, NEW s, Fine(s), Does(t, s)
  PROVE  Orderly /\ Restores
<1>1. todo[t] = <<>> /\ todo' = [todo EXCEPT ![t] = s]
  BY DEF Does
<1>2. Mild
  BY DEF Does, Mild, audio, apVars, wpsVars
<1> QED BY <1>1, <1>2, BeginsOrderly

LEMMA KeysOrderly ==
  ASSUME DutyInv, Keys
  PROVE  Orderly /\ Restores
<1>0. "key" \in Threads
  BY DEF Threads
<1>1. \A index \in Indexes, fn \in Callbacks : Fine(StartAudioPlay(index, fn))
  BY FinePrompt
<1>2. CASE OnPressCall
  <2>1. Fine(StartAudioPlay("welcome", "calling") \o Op("wait"))
    BY <1>1, FineOp, FineJoin DEF Indexes, Callbacks, Plain
  <2> QED BY <1>0, <1>2, <2>1, DoesOrderly DEF OnPressCall, Event
<1>3. CASE OnEnterAPMode
  <2>1. CASE ap
    <3>1. UNCHANGED todo /\ Mild
      BY <1>3, <2>1 DEF OnEnterAPMode, Mild, audio, wpsVars, history
    <3> QED BY <3>1, SameRestores
  <2>2. CASE ~ap
    <3>1. Does("key", StartAudioPlay("config", "ap"))
      BY <1>3, <2>2 DEF OnEnterAPMode, Event
    <3>2. Fine(StartAudioPlay("config", "ap"))
      BY <1>1 DEF Indexes, Callbacks
    <3> QED BY <1>0, <3>1, <3>2, DoesOrderly
  <2> QED BY <2>1, <2>2
<1>4. CASE OnEnterWpsMode
  <2>1. Fine(StartAudioPlay("wps", "wps"))
    BY <1>1 DEF Indexes, Callbacks
  <2> QED BY <1>0, <1>4, <2>1, DoesOrderly DEF OnEnterWpsMode, Event
<1>5. CASE OnPressReset
  <2>1. Fine(StartAudioPlay("reset", "reset"))
    BY <1>1 DEF Indexes, Callbacks
  <2> QED BY <1>0, <1>5, <2>1, DoesOrderly DEF OnPressReset, Event
<1> QED BY <1>2, <1>3, <1>4, <1>5 DEF Keys

LEMMA CommandOrderly ==
  ASSUME DutyInv, Command
  PROVE  Orderly /\ Restores
<1>0. "cmd" \in Threads
  BY DEF Threads
<1>1. PICK p \in {StartAudioPlay("configok", "none"), StartAudioPlay("configok", "wifi"),
                  StartAudioPlay("reboot", "reboot")} : Does("cmd", p)
  BY DEF Command, Event
<1>2. /\ Fine(StartAudioPlay("configok", "none")) /\ Fine(StartAudioPlay("configok", "wifi"))
      /\ Fine(StartAudioPlay("reboot", "reboot"))
  BY FinePrompt DEF Indexes, Callbacks
<1>3. Fine(p)
  BY <1>2
<1> QED BY <1>0, <1>1, <1>3, DoesOrderly

LEMMA CallOrderly ==
  ASSUME DutyInv, Waits \/ Agree \/ HangUp \/ CallTimeout
  PROVE  Orderly /\ Restores
<1>0. "key" \in Threads /\ "cmd" \in Threads /\ "timer" \in Threads
  BY DEF Threads
<1>1. CASE Waits
  <2>1. Doing("key", "wait") /\ todo["key"] # <<>> /\ Next1("key")
    BY <1>1 DEF Waits, Doing
  <2>2. Carries("key") /\ \A op \in Dues : Coming(op) => Coming(op)' \/ Doing("key", op)
    BY <1>0, <2>1, TakesNext
  <2>3. Mild
    BY <1>1 DEF Waits, Mild, audio, apVars, wpsVars, history
  <2>4. Pays
    BY <1>0, <2>1, <2>2, OtherPays DEF Dues
  <2>5. apTimers' = apTimers
    BY <2>3 DEF Mild
  <2> QED BY <1>0, <2>2, <2>3, <2>4, <2>5, CarriesOrderly, MildOwes, Zenon DEF Restores
<1>2. CASE Agree
  BY <1>0, <1>2, FineStop, DoesOrderly DEF Agree, Event
<1>3. CASE HangUp
  <2>1. Fine(StartAudioPlay("talkover", "none"))
    BY FinePrompt DEF Indexes, Callbacks
  <2> QED BY <1>0, <1>3, <2>1, DoesOrderly DEF HangUp
<1>4. CASE CallTimeout
  <2>1. Mild /\ todo["timer"] = <<>>
    BY <1>4 DEF CallTimeout, Mild, audio, apVars, wpsVars
  <2>2. Fine(StartAudioPlay("timeout", "none"))
    BY FinePrompt DEF Indexes, Callbacks
  <2>3. UNCHANGED todo \/ todo' = [todo EXCEPT !["timer"] = StartAudioPlay("timeout", "none")]
    BY <1>4 DEF CallTimeout
  <2> QED BY <1>0, <2>1, <2>2, <2>3, BeginsOrderly, SameRestores
<1> QED BY <1>1, <1>2, <1>3, <1>4
-----------------------------------------------------------------------------
(***************************************************************************)
(* Types.                                                                  *)
(***************************************************************************)
LEMMA InitDuty == Init => DutyInv
<1> SUFFICES ASSUME Init PROVE DutyInv
  OBVIOUS
<1>1. \A t \in Threads : todo[t] = <<>>
  BY DEF Init
<1>2. FlagType /\ CountType
  <2>1. FlagType
    BY Zenon DEF Init, FlagType
  <2>2. CountType
    BY PromptsAssumption DEF Init, CountType
  <2> QED BY <2>1, <2>2
<1>3. ControlType
  <2>1. todo \in [Threads -> Seq(StepSet)]
    BY DEF Init
  <2> QED BY <2>1 DEF Init, ControlType, Indexes, Callbacks
<1>4. Tidy
  <2>1. Paired(<<>>)
    BY FineNone DEF Fine
  <2> QED BY <1>1, <1>3, <2>1 DEF Tidy, ControlType
<1>5. Lasts /\ Unregisters /\ PlayerFree
  BY <1>1 DEF Lasts, Unregisters, PlayerFree, Doing, Threads
<1> QED BY <1>2, <1>3, <1>4, <1>5 DEF DutyInv, TypeOK

LEMMA OrderlyAlways ==
  ASSUME DutyInv, [Next]_vars
  PROVE  Orderly /\ Restores
<1>1. ASSUME NEW t \in Threads, Step(t) PROVE Orderly /\ Restores
  <2>1. Carries(t) /\ Restores
    BY <1>1, ThreadStep
  <2>2. CASE apTimers' = apTimers
    BY <2>1, <2>2, CarriesOrderly
  <2>3. CASE apTimers' # apTimers
    <3>1. EnterAp(t)
      BY <1>1, <2>3, Zenon DEF Step, Audio, Callback, Stop, PostStop, SetPlayAlarmAudioState, Ask,
         PostStart, RingOn, WifiConfig, Reboots, EnterWps, apVars
    <3>2. apTimers' > 0
      BY <2>3, <3>1 DEF EnterAp, DutyInv, TypeOK, CountType
    <3>3. Unregisters'
      BY <2>1, <3>2, Zenon DEF DutyInv, Unregisters, Carries
    <3> QED BY <2>1, <3>3 DEF Orderly, Carries
  <2> QED BY <2>2, <2>3
<1>2. CASE UNCHANGED vars
  <2>1. Mild /\ UNCHANGED todo
    BY <1>2 DEF vars, Mild, audio, apVars, wpsVars, history
  <2> QED BY <2>1, SameRestores
<1> QED BY <1>1, <1>2, PlayerOrderly, FailsOrderly, BootOrderly, ApTickOrderly,
           LeaveApOrderly, WpsLookOrderly, LeaveWpsOrderly, KeysOrderly, CommandOrderly, CallOrderly, Zenon
        DEF Next

LEMMA FlagTypeKept == TypeOK /\ [Next]_vars => FlagType'
<1> SUFFICES ASSUME TypeOK, [Next]_vars PROVE FlagType'
  OBVIOUS
<1> USE DEF TypeOK, FlagType, audio, playerVars, apVars, wpsVars, history
<1>1. ASSUME NEW t \in Threads, Step(t) PROVE FlagType'
  <2>1. CASE Stop(t)
    BY <2>1, Zenon DEF Stop
  <2>2. CASE PostStop(t)
    BY <2>2, Zenon DEF PostStop
  <2>3. CASE SetPlayAlarmAudioState(t)
    BY <2>3, Zenon DEF SetPlayAlarmAudioState
  <2>4. CASE Ask(t)
    BY <2>4, Zenon DEF Ask
  <2>5. CASE PostStart(t)
    BY <2>5, Zenon DEF PostStart
  <2>6. CASE RingOn(t)
    BY <2>6, Zenon DEF RingOn
  <2>7. CASE WifiConfig(t)
    BY <2>7, Zenon DEF WifiConfig
  <2>8. CASE Reboots(t)
    BY <2>8, Zenon DEF Reboots
  <2>9. CASE EnterAp(t)
    BY <2>9, Zenon DEF EnterAp
  <2>10. CASE EnterWps(t)
    BY <2>10, Zenon DEF EnterWps
  <2> QED BY <1>1, <2>1, <2>2, <2>3, <2>4, <2>5, <2>6, <2>7, <2>8, <2>9, <2>10
         DEF Step, Audio, Callback
<1>2. CASE Player \/ PlayerFails \/ SystemBoot
  <2>1. CASE PlayerWakes
    BY <2>1, Zenon DEF PlayerWakes
  <2>2. CASE PlayerStops
    BY <2>2, Zenon DEF PlayerStops
  <2>3. CASE PlayerFinishes
    BY <2>3, Zenon DEF PlayerFinishes
  <2>4. CASE PlayerEnds
    BY <2>4, Zenon DEF PlayerEnds
  <2>5. CASE PlayerCalls
    BY <2>5, Zenon DEF PlayerCalls
  <2>6. CASE PlayerFails
    BY <2>6, Zenon DEF PlayerFails
  <2>7. CASE PlayerMutes
    BY <2>7, Zenon DEF PlayerMutes
  <2>8. CASE SystemBoot
    BY <2>8, Zenon DEF SystemBoot
  <2> QED BY <1>2, <2>1, <2>2, <2>3, <2>4, <2>5, <2>6, <2>7, <2>8 DEF Player
<1>3. CASE ApTick \/ LeaveAp \/ WpsLook \/ LeaveWps
  <2>1. CASE ApTick
    BY <2>1, Zenon DEF ApTick
  <2>2. CASE LeaveAp
    BY <2>2, Zenon DEF LeaveAp
  <2>3. CASE WpsLook
    BY <2>3, Zenon DEF WpsLook
  <2>4. CASE LeaveWps
    BY <2>4, Zenon DEF LeaveWps
  <2> QED BY <1>3, <2>1, <2>2, <2>3, <2>4
<1>4. CASE Keys \/ Command
  <2>1. CASE OnPressCall
    BY <2>1, Zenon DEF OnPressCall, Event, Does
  <2>2. CASE OnEnterAPMode
    BY <2>2, Zenon DEF OnEnterAPMode, Event, Does
  <2>3. CASE OnEnterWpsMode
    BY <2>3, Zenon DEF OnEnterWpsMode, Event, Does
  <2>4. CASE OnPressReset
    BY <2>4, Zenon DEF OnPressReset, Event, Does
  <2>5. CASE Command
    BY <2>5, Zenon DEF Command, Event, Does
  <2> QED BY <1>4, <2>1, <2>2, <2>3, <2>4, <2>5 DEF Keys
<1>5. CASE Waits \/ Agree \/ HangUp \/ CallTimeout
  <2>1. CASE Waits
    BY <2>1, Zenon DEF Waits
  <2>2. CASE Agree
    BY <2>2, Zenon DEF Agree, Event, Does
  <2>3. CASE HangUp
    BY <2>3, Zenon DEF HangUp, Does
  <2>4. CASE CallTimeout
    BY <2>4, Zenon DEF CallTimeout
  <2> QED BY <1>5, <2>1, <2>2, <2>3, <2>4
<1>6. CASE UNCHANGED vars
  BY <1>6, Zenon DEF vars
<1> QED BY <1>1, <1>2, <1>3, <1>4, <1>5, <1>6, Zenon DEF Next

LEMMA CountTypeKept == DutyInv /\ [Next]_vars => CountType'
<1> SUFFICES ASSUME DutyInv, [Next]_vars PROVE CountType'
  OBVIOUS
<1>0. TypeOK
  BY DEF DutyInv
<1> USE PromptsAssumption DEF TypeOK, CountType, audio, playerVars, apVars, wpsVars, history
<1>1. ASSUME NEW t \in Threads, Step(t) PROVE CountType'
  <2>1. CASE Audio(t)
    BY <1>0, <2>1 DEF Audio, Stop, PostStop, SetPlayAlarmAudioState, Ask, PostStart
  <2>2. CASE Callback(t)
    BY <1>0, <2>2 DEF Callback, RingOn, WifiConfig, Reboots, EnterAp, EnterWps
  <2> QED BY <1>1, <2>1, <2>2 DEF Step
<1>2. CASE Player \/ PlayerFails \/ SystemBoot
  BY <1>0, <1>2 DEF Player, PlayerFails, PlayerWakes, PlayerMutes, PlayerStops, PlayerFinishes,
     PlayerEnds, PlayerCalls, SystemBoot
<1>3. CASE LeaveAp
  <2>1. Doing("timer", "apunregister") => apTimers > 0
    BY DEF DutyInv, Unregisters, Threads
  <2> QED BY <1>0, <1>3, <2>1 DEF LeaveAp
<1>4. CASE ApTick \/ WpsLook \/ LeaveWps
  BY <1>0, <1>4 DEF ApTick, WpsLook, LeaveWps
<1>5. CASE Keys \/ Command
  BY <1>0, <1>5 DEF Keys, Command, OnPressCall, OnEnterAPMode, OnEnterWpsMode, OnPressReset,
     Event, Does
<1>6. CASE Waits \/ Agree \/ HangUp \/ CallTimeout
  BY <1>0, <1>6 DEF Waits, Agree, HangUp, CallTimeout, Event, Does
<1>7. CASE UNCHANGED vars
  BY <1>0, <1>7 DEF vars
<1> QED BY <1>1, <1>2, <1>3, <1>4, <1>5, <1>6, <1>7, Zenon DEF Next

PromptControl ==
  /\ request \in [index : Indexes, fn : Callbacks]
  /\ player \in {"waits", "plays", "ends", "over"} /\ now \in Indexes
  /\ call \in {"idle", "begun", "ring", "talk", "over"}
  /\ owed \subseteq Callbacks /\ lost \subseteq Callbacks

LEMMA ControlTypeKept == DutyInv /\ [Next]_vars => ControlType'
<1> SUFFICES ASSUME DutyInv, [Next]_vars PROVE ControlType'
  OBVIOUS
<1>0. TypeOK /\ Tidy
  BY DEF DutyInv
<1>1. todo' \in [Threads -> Seq(StepSet)]
  BY OrderlyAlways DEF Orderly, Tidy
<1>c. PromptControl
  BY <1>0 DEF TypeOK, ControlType, PromptControl
<1> USE DEF audio, playerVars, apVars, wpsVars, history
<1>d. ASSUME UNCHANGED <<request, player, now, owed, lost>>,
             call' \in {call, "idle", "begun", "ring", "talk", "over"}
      PROVE  PromptControl'
  BY <1>c, <1>d DEF PromptControl
<1>2. ASSUME NEW t \in Threads, Step(t) PROVE PromptControl'
  <2>1. CASE Ask(t)
    <3>1. Head(todo[t]) \in StepSet /\ Head(todo[t]).op = "start"
      BY <1>0, <2>1 DEF Ask, Doing, Tidy
    <3>2. Head(todo[t]).index \in Indexes /\ Head(todo[t]).fn \in Callbacks
      BY <3>1 DEF StepSet
    <3> QED BY <1>c, <2>1, <3>2 DEF Ask, PromptControl
  <2>2. CASE Stop(t) \/ PostStop(t) \/ SetPlayAlarmAudioState(t) \/ PostStart(t)
    BY <1>d, <2>2 DEF Stop, PostStop, SetPlayAlarmAudioState, PostStart
  <2>3. CASE Callback(t)
    BY <1>d, <2>3 DEF Callback, RingOn, WifiConfig, Reboots, EnterAp, EnterWps
  <2> QED BY <1>2, <2>1, <2>2, <2>3 DEF Step, Audio
<1>3. ASSUME Player \/ PlayerFails \/ SystemBoot PROVE PromptControl'
  <2>1. /\ UNCHANGED <<request, call>> /\ owed' \subseteq owed
        /\ lost' \subseteq lost \cup owed
    BY <1>3 DEF Player, PlayerFails, PlayerWakes, PlayerMutes, PlayerStops, PlayerFinishes,
       PlayerEnds, PlayerCalls, SystemBoot
  <2>2. player' \in {player, "waits", "plays", "ends", "over"}
    BY <1>3 DEF Player, PlayerFails, PlayerWakes, PlayerMutes, PlayerStops, PlayerFinishes,
       PlayerEnds, PlayerCalls, SystemBoot
  <2>3. now' \in {now, request.index, "startup"}
    BY <1>3 DEF Player, PlayerFails, PlayerWakes, PlayerMutes, PlayerStops, PlayerFinishes,
       PlayerEnds, PlayerCalls, SystemBoot
  <2>4. now' \in Indexes
    BY <1>c, <2>3 DEF Indexes, PromptControl
  <2> QED BY <1>c, <2>1, <2>2, <2>4 DEF Callbacks, PromptControl
<1>4. ASSUME ApTick \/ LeaveAp \/ WpsLook \/ LeaveWps PROVE PromptControl'
  <2>1. UNCHANGED <<request, player, now, owed, lost, call>>
    BY <1>4 DEF ApTick, LeaveAp, WpsLook, LeaveWps
  <2> QED BY <2>1, <1>d
<1>5. ASSUME Keys \/ Command PROVE PromptControl'
  <2>1. UNCHANGED <<request, player, now, owed, lost>> /\ call' \in {call, "begun"}
    BY <1>5 DEF Keys, Command, OnPressCall, OnEnterAPMode, OnEnterWpsMode, OnPressReset, Event,
       Does
  <2> QED BY <2>1, <1>d
<1>6. ASSUME Waits \/ Agree \/ HangUp \/ CallTimeout PROVE PromptControl'
  <2>1. UNCHANGED <<request, player, now, owed, lost>> /\ call' \in {"idle", "ring", "talk", "over"}
    BY <1>6 DEF Waits, Agree, HangUp, CallTimeout, Event, Does
  <2> QED BY <2>1, <1>d
<1>7. ASSUME UNCHANGED vars PROVE PromptControl'
  <2>1. UNCHANGED <<request, player, now, owed, lost, call>>
    BY <1>7 DEF vars
  <2> QED BY <2>1, <1>d
<1>8. PromptControl'
  BY <1>2, <1>3, <1>4, <1>5, <1>6, <1>7, Zenon DEF Next
<1> QED BY <1>1, <1>8 DEF ControlType, PromptControl

\* The player runs no callback while it plays.
LEMMA PlayerFreeKept == DutyInv /\ [Next]_vars => PlayerFree'
<1> SUFFICES ASSUME DutyInv, [Next]_vars, player' # "waits" PROVE todo'["player"] = <<>>
  BY DEF PlayerFree
<1>0. todo \in [Threads -> Seq(StepSet)] /\ Threads = {"key", "cmd", "timer", "wps", "player"}
  BY DEF DutyInv, Tidy, Threads
<1>f. player # "waits" => todo["player"] = <<>>
  BY DEF DutyInv, PlayerFree
<1>1. ASSUME NEW t \in Threads, Step(t) PROVE todo'["player"] = <<>>
  <2>1. player' = player /\ todo[t] # <<>>
    BY <1>1, Zenon DEF Step, Audio, Callback, Stop, PostStop, SetPlayAlarmAudioState, Ask,
       PostStart, RingOn, WifiConfig, Reboots, EnterAp, EnterWps, playerVars, Doing
  <2>2. t # "player"
    BY <1>f, <2>1
  <2>3. \E q : todo' = [todo EXCEPT ![t] = q]
    BY <1>1, Zenon DEF Step, Audio, Callback, Stop, PostStop, SetPlayAlarmAudioState, Ask,
       PostStart, RingOn, WifiConfig, Reboots, EnterAp, EnterWps, Next1, Becomes
  <2> QED BY <1>0, <1>f, <2>1, <2>2, <2>3
<1>2. CASE Player
  BY <1>2, <1>f DEF Player, PlayerWakes, PlayerMutes, PlayerStops, PlayerFinishes, PlayerEnds,
     PlayerCalls
<1>3. CASE PlayerFails \/ SystemBoot
  BY <1>3, <1>f DEF PlayerFails, SystemBoot
<1>4. ASSUME player' = player, NEW t \in Threads \ {"player"}, NEW q,
             todo' = [todo EXCEPT ![t] = q] \/ UNCHANGED todo
      PROVE  todo'["player"] = <<>>
  BY <1>0, <1>f, <1>4
<1>5. /\ "key" \in Threads \ {"player"} /\ "cmd" \in Threads \ {"player"}
      /\ "timer" \in Threads \ {"player"} /\ "wps" \in Threads \ {"player"}
  BY <1>0
<1>6. CASE ApTick \/ LeaveAp \/ WpsLook \/ LeaveWps
  BY <1>4, <1>5, <1>6, Zenon DEF ApTick, LeaveAp, WpsLook, LeaveWps, playerVars, Next1
<1>7. CASE Keys \/ Command
  BY <1>4, <1>5, <1>7, Zenon DEF Keys, Command, OnPressCall, OnEnterAPMode, OnEnterWpsMode,
     OnPressReset, Event, Does, playerVars
<1>8. CASE Waits \/ Agree \/ HangUp \/ CallTimeout
  BY <1>4, <1>5, <1>8, Zenon DEF Waits, Agree, HangUp, CallTimeout, Event, Does, playerVars, Next1
<1>9. CASE UNCHANGED vars
  BY <1>4, <1>5, <1>9, Zenon DEF vars, playerVars
<1> QED BY <1>1, <1>2, <1>3, <1>6, <1>7, <1>8, <1>9, Zenon DEF Next

LEMMA DutyKept == DutyInv /\ [Next]_vars => DutyInv'
  BY OrderlyAlways, FlagTypeKept, CountTypeKept, ControlTypeKept, PlayerFreeKept, Zenon
  DEF DutyInv, TypeOK, Orderly

\* The variables of the prompts and of the modes keep their types: WPS looks for its result
\* WpsMax times at most.
THEOREM PromptsTypeCorrect == Spec => []TypeOK
<1>1. DutyInv => TypeOK
  BY DEF DutyInv
<1> QED BY InitDuty, DutyKept, <1>1, PTL DEF Spec
-----------------------------------------------------------------------------
(***************************************************************************)
(* What is always to be restored is restored.                              *)
(***************************************************************************)
LEMMA OthersLeavePlayer ==
  ASSUME DutyInv, [Next]_vars, ~Player, ~PlayerFails
  PROVE  /\ player' = player /\ late' = late /\ (startsem > 0 => startsem' > 0)
         /\ audioHandler' => audioHandler
<1> USE DEF audio, playerVars, history
<1>1. startsem \in Nat
  BY DEF DutyInv, TypeOK, CountType
<1>2. ASSUME NEW t \in Threads, Step(t)
      PROVE  /\ player' = player /\ late' = late /\ (startsem > 0 => startsem' > 0)
             /\ audioHandler' = audioHandler
  BY <1>1, <1>2 DEF Step, Audio, Callback, Stop, PostStop, SetPlayAlarmAudioState, Ask,
     PostStart, RingOn, WifiConfig, Reboots, EnterAp, EnterWps
<1>3. CASE ApTick \/ LeaveAp \/ WpsLook \/ LeaveWps
  BY <1>3 DEF ApTick, LeaveAp, WpsLook, LeaveWps
<1>4. CASE Keys \/ Command
  BY <1>4 DEF Keys, Command, OnPressCall, OnEnterAPMode, OnEnterWpsMode, OnPressReset, Event,
     Does
<1>5. CASE Waits \/ Agree \/ HangUp \/ CallTimeout
  BY <1>5 DEF Waits, Agree, HangUp, CallTimeout, Event, Does
<1>6. CASE UNCHANGED vars
  BY <1>6 DEF vars
<1>7. CASE SystemBoot
  BY <1>7 DEF SystemBoot
<1> QED BY <1>2, <1>3, <1>4, <1>5, <1>6, <1>7, Zenon DEF Next

\* Of the callbacks that have not been run only the last can still be.
LastIsOwed == owed \subseteq lost \cup {request.fn}

PromptInv == DutyInv /\ SoundPursued /\ LastIsOwed /\ NothingForgotten /\ ModesAreWatched

LEMMA InitPrompt == Init => PromptInv
<1> SUFFICES ASSUME Init PROVE PromptInv
  OBVIOUS
<1>1. ~playing /\ owed = {} /\ ~apOpen /\ video
  BY DEF Init
<1> QED BY <1>1, InitDuty, Zenon
        DEF PromptInv, SoundPursued, LastIsOwed, NothingForgotten, ModesAreWatched, ApIsWatched, VideoIsWatched

LEMMA ModesKept == PromptInv /\ [Next]_vars => ModesAreWatched'
<1> SUFFICES ASSUME PromptInv, [Next]_vars PROVE ModesAreWatched'
  OBVIOUS
<1>1. Pays /\ Owes
  BY OrderlyAlways DEF PromptInv, Restores
<1>2. ApIsWatched /\ VideoIsWatched
  BY DEF PromptInv, ModesAreWatched
<1>3. ApIsWatched'
  BY <1>1, <1>2, Zenon DEF Pays, Owes, ApIsWatched
<1>4. VideoIsWatched'
  BY <1>1, <1>2, Zenon DEF Pays, Owes, VideoIsWatched
<1> QED BY <1>3, <1>4 DEF ModesAreWatched

LEMMA LastKept == PromptInv /\ [Next]_vars => LastIsOwed'
<1> SUFFICES ASSUME PromptInv, [Next]_vars PROVE LastIsOwed'
  OBVIOUS
<1>0. LastIsOwed
  BY DEF PromptInv
<1>s. ASSUME UNCHANGED <<owed, lost, request>> PROVE LastIsOwed'
  BY <1>0, <1>s DEF LastIsOwed
<1> USE DEF audio, history
<1>1. ASSUME NEW t \in Threads, Step(t) PROVE LastIsOwed'
  <2>1. CASE Ask(t)
    BY <1>0, <2>1 DEF Ask, LastIsOwed
  <2>2. CASE Stop(t) \/ PostStop(t) \/ SetPlayAlarmAudioState(t) \/ PostStart(t)
    BY <1>s, <2>2 DEF Stop, PostStop, SetPlayAlarmAudioState, PostStart
  <2>3. CASE Callback(t)
    BY <1>s, <2>3 DEF Callback, RingOn, WifiConfig, Reboots, EnterAp, EnterWps
  <2> QED BY <1>1, <2>1, <2>2, <2>3 DEF Step, Audio
<1>2. CASE PlayerCalls \/ PlayerFails
  BY <1>0, <1>2 DEF PlayerCalls, PlayerFails, LastIsOwed
<1>3. CASE PlayerWakes \/ PlayerMutes \/ PlayerStops \/ PlayerFinishes \/ PlayerEnds \/ SystemBoot
  BY <1>s, <1>3 DEF PlayerWakes, PlayerMutes, PlayerStops, PlayerFinishes, PlayerEnds, SystemBoot
<1>4. CASE ApTick \/ LeaveAp \/ WpsLook \/ LeaveWps
  BY <1>s, <1>4 DEF ApTick, LeaveAp, WpsLook, LeaveWps
<1>5. CASE Keys \/ Command
  BY <1>s, <1>5 DEF Keys, Command, OnPressCall, OnEnterAPMode, OnEnterWpsMode, OnPressReset,
     Event, Does
<1>6. CASE Waits \/ Agree \/ HangUp \/ CallTimeout
  BY <1>s, <1>6 DEF Waits, Agree, HangUp, CallTimeout, Event, Does
<1>7. CASE UNCHANGED vars
  BY <1>s, <1>7 DEF vars
<1> QED BY <1>1, <1>2, <1>3, <1>4, <1>5, <1>6, <1>7, Zenon DEF Next, Player

LEMMA ForgottenKept == PromptInv /\ [Next]_vars => NothingForgotten'
<1> SUFFICES ASSUME PromptInv, [Next]_vars, PlayerIdle', ~(owed' \subseteq lost')
             PROVE  Coming("poststart")'
  BY DEF NothingForgotten
<1>1. Pays /\ Owes /\ NothingForgotten /\ DutyInv /\ startsem \in Nat
  BY OrderlyAlways DEF PromptInv, Restores, DutyInv, TypeOK, CountType
<1>2. player' = "waits" /\ startsem' = 0
  BY DEF PlayerIdle
\* The callback is run, or its prompt cannot be read.
<1>3. CASE Player \/ PlayerFails
  <2>1. PlayerCalls \/ (PlayerFails /\ lost' = lost \cup (owed \cap {request.fn}))
    BY <1>2, <1>3 DEF Player, PlayerFails, PlayerWakes, PlayerMutes, PlayerStops, PlayerFinishes,
       PlayerEnds
  <2>2. owed \subseteq lost \cup {request.fn}
    BY DEF PromptInv, LastIsOwed
  <2> QED BY <2>1, <2>2 DEF PlayerCalls, PlayerFails
<1>4. CASE ~Player /\ ~PlayerFails
  <2>1. player = "waits" /\ startsem = 0
    BY <1>1, <1>2, <1>4, OthersLeavePlayer
  <2>2. owed \subseteq lost \/ Coming("poststart")
    BY <1>1, <2>1 DEF NothingForgotten, PlayerIdle
  <2>3. ~(startsem' > 0)
    BY <1>2
  <2> QED BY <1>1, <2>2, <2>3, Zenon DEF Pays, Owes
<1> QED BY <1>3, <1>4

LEMMA SoundKept == PromptInv /\ [Next]_vars => SoundPursued'
<1> SUFFICES ASSUME PromptInv, [Next]_vars, playing',
                    player' \in {"waits", "over"} \/ (player' = "plays" /\ stopsem' > 0)
             PROVE  Pursued'
  BY DEF SoundPursued
<1>1. Pays /\ Owes /\ SoundPursued /\ DutyInv
  BY OrderlyAlways DEF PromptInv, Restores
<1>2. CASE PlayerWakes \/ PlayerMutes
  BY <1>2 DEF PlayerWakes, PlayerMutes, Pursued
<1>3. CASE PlayerFinishes \/ PlayerEnds \/ PlayerFails
  BY <1>3 DEF PlayerFinishes, PlayerEnds, PlayerFails
<1>4. ASSUME playing, player \in {"waits", "over"} \/ (player = "plays" /\ stopsem > 0),
             late => late', startsem > 0 => startsem' > 0, audioHandler' => audioHandler
      PROVE  Pursued'
  <2>1. Pursued
    BY <1>1, <1>4, Zenon DEF SoundPursued
  <2>2. Coming("poststart") => Coming("poststart")' \/ startsem' > 0
    BY <1>1, Zenon DEF Pays
  <2>3. Coming("silent") => Coming("silent")'
    BY <1>1, Zenon DEF Pays
  <2> QED BY <1>4, <2>1, <2>2, <2>3, Zenon DEF Pursued
<1>5. CASE PlayerStops \/ PlayerCalls
  <2>1. playing' = playing /\ late' = late /\ startsem' = startsem
        /\ audioHandler' = audioHandler
    BY <1>5 DEF PlayerStops, PlayerCalls, audio, history
  <2>2. player = "over" \/ (player = "plays" /\ stopsem > 0)
    BY <1>5 DEF PlayerStops, PlayerCalls
  <2>3. playing
    BY <2>1, Zenon
  <2>4. late => late'
    BY <2>1, Zenon
  <2>5. startsem > 0 => startsem' > 0
    BY <2>1, Zenon
  <2>6. player \in {"waits", "over"} \/ (player = "plays" /\ stopsem > 0)
    BY <2>2
  <2>7. audioHandler' => audioHandler
    BY <2>1, Zenon
  <2> QED BY <1>4, <2>3, <2>4, <2>5, <2>6, <2>7
<1>6. CASE ~Player /\ ~PlayerFails
  <2>1. player' = player /\ late' = late /\ (startsem > 0 => startsem' > 0)
        /\ (audioHandler' => audioHandler)
    BY <1>1, <1>6, OthersLeavePlayer
  <2>2. late => late'
    BY <2>1, Zenon
  <2>3. CASE Coming("poststart")' \/ Coming("silent")'
    BY <2>3 DEF Pursued
  <2>4. CASE ~Coming("poststart")' /\ ~Coming("silent")'
    <3>1. playing /\ (stopsem' > 0 => stopsem > 0)
      BY <1>1, <2>4, Zenon DEF Owes
    <3>2. player \in {"waits", "over"} \/ (player = "plays" /\ stopsem > 0)
      BY <2>1, <3>1, Zenon
    <3> QED BY <1>4, <2>1, <2>2, <3>1, <3>2
  <2> QED BY <2>3, <2>4
<1> QED BY <1>2, <1>3, <1>5, <1>6 DEF Player

LEMMA PromptAlways == Spec => []PromptInv
<1>1. PromptInv /\ [Next]_vars => PromptInv'
  BY DutyKept, SoundKept, LastKept, ForgottenKept, ModesKept, Zenon DEF PromptInv
<1> QED BY InitPrompt, <1>1, PTL DEF Spec

\* The flag of the prompts does not stay set when nothing plays and nothing is asked for,
\* unless a stop was posted when no prompt played, or the loudspeaker is not open.
THEOREM PromptsHeard == Spec => []HeardOrStale
<1>1. PromptInv => HeardOrStale
  <2> SUFFICES ASSUME PromptInv, playing, player = "waits", startsem = 0
               PROVE  late \/ ~audioHandler \/ Coming("poststart") \/ Coming("silent")
    BY DEF HeardOrStale, PlayerIdle
  <2>1. Pursued
    BY DEF PromptInv, SoundPursued
  <2> QED BY <2>1 DEF Pursued
<1> QED BY PromptAlways, <1>1, PTL

\* When nothing plays and nothing is asked for, every callback has been run but those that a
\* newer request overwrote and those whose prompt was there and could not be read (lost).
THEOREM PromptsRemembered == Spec => []NothingForgotten
<1>1. PromptInv => NothingForgotten
  BY DEF PromptInv
<1> QED BY PromptAlways, <1>1, PTL

\* The access point and the stopped video always have somebody to restore them.
THEOREM PromptsModesWatched == Spec => []ModesAreWatched
<1>1. PromptInv => ModesAreWatched
  BY DEF PromptInv
<1> QED BY PromptAlways, <1>1, PTL
-----------------------------------------------------------------------------
(***************************************************************************)
(* Video: the half of the buffer that is being written, and where the      *)
(* viewers are in it.                                                      *)
(***************************************************************************)
Frame == [no : Nat, len : Nat]

BufferType ==
  /\ ring \in [0 .. 2 * Half - 1 -> Frame] /\ firstflag \in BOOLEAN
  /\ totallen \in Nat /\ prelen \in Nat /\ frames \in Nat /\ head \in Nat
  /\ jpeg \in Frame

ViewerType ==
  /\ flag \in [Viewers -> 0 .. 2] /\ offset \in [Viewers -> Nat]
  /\ p2pprelen \in [Viewers -> Nat]
  /\ got \in [Viewers -> Nat] /\ begun \in [Viewers -> BOOLEAN]
  /\ at \in Viewers

\* Where the half begins.
Base == IF firstflag THEN Half ELSE 0

\* At a frame of the half is its successor's number, behind it, unless it is the last.
Follows(u) ==
  /\ ring[u].no <= frames
  /\ \/ u = prelen /\ u + ring[u].len = totallen
     \/ u + ring[u].len \in u + 1 .. prelen /\ ring[u + ring[u].len].no = ring[u].no + 1

Chained ==
  /\ Base <= prelen /\ prelen < totallen /\ totallen <= Base + Half
  /\ ring[Base].no = head /\ head > 0 /\ ring[prelen].no = frames
  /\ \A u \in Base .. totallen - 1 : ring[u].no # 0 => Follows(u)

\* The frame that viewer v is sent next.
Due(v) == IF Place(v) < totallen THEN ring[Place(v)].no ELSE frames + 1

\* A viewer that has not been sent a frame of the half is at its beginning; one that has is
\* behind the last it was sent, but for a session that has taken over a slot.
Placed(v) ==
  /\ Place(v) \in Base .. totallen
  /\ flag[v] # 0 => Place(v) = Base /\ ~begun[v]
  /\ Due(v) # 0
  /\ Place(v) = totallen => p2pprelen[v] = prelen
  /\ got[v] < Due(v)
  /\ begun[v] => got[v] = 0 \/ got[v] + 1 = Due(v)
  /\ ~begun[v] => Due(v) = head

\* Before the first frame.
Unwritten ==
  /\ ~firstflag /\ prelen = 0 /\ totallen = 0
  /\ \A v \in Viewers :
       flag[v] = 0 /\ offset[v] = 0 /\ p2pprelen[v] = 0 /\ got[v] = 0 /\ ~begun[v]

Written == Chained /\ \A v \in Viewers : Placed(v)

RingInv ==
  /\ BufferType /\ ViewerType
  /\ sensor = "8433" /\ frames = 0 => Unwritten
  /\ sensor = "8433" /\ frames > 0 => Written

ringView == <<sensor, encbufm, userindp2p, p2pprelen, got, begun, frames, head>>

LEMMA HalfIs == Half \in Nat \ {0} /\ Slots \in Nat \ {0}
  BY VideoAssumption

LEMMA LenIs == ASSUME NEW len \in Lens PROVE len \in 1 .. Half
  BY VideoAssumption

LEMMA InitRing == VideoInit => RingInv
<1> SUFFICES ASSUME VideoInit PROVE RingInv
  OBVIOUS
<1>1. 0 \in Viewers
  BY HalfIs DEF Viewers
<1>2. NoFrame \in Frame
  BY DEF NoFrame, Frame
<1>3. BufferType
  BY <1>2, HalfIs DEF VideoInit, BufferType
<1>4. ViewerType
  BY <1>1 DEF VideoInit, ViewerType
<1>5. Unwritten
  BY DEF VideoInit, Unwritten
<1>6. frames = 0
  BY DEF VideoInit
<1> QED BY <1>3, <1>4, <1>5, <1>6 DEF RingInv
-----------------------------------------------------------------------------
(***************************************************************************)
(* The encoder.                                                            *)
(***************************************************************************)

Stored(no, len, to) ==
  /\ ring' \in [0 .. 2 * Half - 1 -> Frame]
  /\ prelen' = to /\ totallen' = to + len
  /\ ring'[to].no = no /\ ring'[to].len = len
  /\ \A u \in to + 1 .. to + len - 1 : ring'[u].no = 0
  /\ \A u \in 0 .. 2 * Half - 1 : u < to => ring'[u] = ring[u]

\* A stored frame is one, what it covers is none, and the rest is left.
LEMMA StoreIs ==
  ASSUME BufferType, NEW no \in Nat, NEW len \in 1 .. Half, NEW to \in Nat,
         to + len <= 2 * Half, Store(no, len, to)
  PROVE  Stored(no, len, to)
<1>1. DOMAIN ring = 0 .. 2 * Half - 1 /\ \A u \in 0 .. 2 * Half - 1 : ring[u] \in Frame
  BY DEF BufferType
<1>2. ring' = [u \in 0 .. 2 * Half - 1 |->
                 IF u = to THEN [no |-> no, len |-> len]
                 ELSE IF u \in to + 1 .. to + len - 1 THEN NoFrame ELSE ring[u]]
  BY <1>1 DEF Store
<1>3. [no |-> no, len |-> len] \in Frame /\ NoFrame \in Frame
  BY DEF Frame, NoFrame
<1>4. ring' \in [0 .. 2 * Half - 1 -> Frame]
  BY <1>1, <1>2, <1>3
<1>5. to \in 0 .. 2 * Half - 1
  BY HalfIs
<1>6. ring'[to] = [no |-> no, len |-> len]
  BY <1>2, <1>5
<1>7. \A u \in to + 1 .. to + len - 1 : ring'[u] = NoFrame
  BY <1>2, HalfIs
<1>8. \A u \in 0 .. 2 * Half - 1 : u < to => ring'[u] = ring[u]
  BY <1>2, HalfIs
<1> QED BY <1>4, <1>6, <1>7, <1>8 DEF Store, NoFrame, Stored

\* A frame that begins a half is all there is in it.
LEMMA BeginsHalf ==
  ASSUME BufferType, NEW len \in 1 .. Half, NEW to \in {0, Half}, Store(frames + 1, len, to),
         firstflag' \in BOOLEAN, firstflag' <=> to = Half, head' = frames + 1, frames' = frames + 1
  PROVE  Chained' /\ Base' = to /\ prelen' = to /\ to < totallen' /\ ring'[to].no = frames + 1
<1>1. /\ to \in Nat /\ to + len <= 2 * Half /\ frames + 1 \in Nat /\ frames \in Nat
  BY HalfIs DEF BufferType
<1>2. /\ prelen' = to /\ totallen' = to + len
      /\ ring'[to].no = frames + 1 /\ ring'[to].len = len
      /\ \A u \in to + 1 .. to + len - 1 : ring'[u].no = 0
  <2>1. Stored(frames + 1, len, to)
    BY <1>1, StoreIs, Zenon
  <2> QED BY <2>1 DEF Stored
<1>3. Base' = to
  BY HalfIs DEF Base
<1>4. \A u \in to .. totallen' - 1 : ring'[u].no # 0 => u = to
  BY <1>1, <1>2
<1>5. Follows(to)'
  BY <1>2 DEF Follows
<1>6. \A u \in to .. totallen' - 1 : ring'[u].no # 0 => Follows(u)'
  BY <1>4, <1>5
<1>7. to < totallen' /\ totallen' <= to + Half
  BY <1>1, <1>2, HalfIs
<1>8. Base' <= prelen' /\ prelen' < totallen' /\ totallen' <= Base' + Half
  BY <1>1, <1>2, <1>3, <1>7
<1>9. ring'[Base'].no = head' /\ head' > 0 /\ ring'[prelen'].no = frames'
  BY <1>1, <1>2, <1>3
<1>10. \A u \in Base' .. totallen' - 1 : ring'[u].no # 0 => Follows(u)'
  BY <1>3, <1>6, Zenon
<1>11. Chained'
  BY <1>8, <1>9, <1>10, Zenon DEF Chained
<1> QED BY <1>2, <1>3, <1>7, <1>11

\* A frame that does not is behind the others.
LEMMA Appended ==
  ASSUME BufferType, Chained, NEW len \in 1 .. Half, totallen + len <= Base + Half,
         Store(frames + 1, len, totallen), firstflag' = firstflag, head' = head,
         frames' = frames + 1
  PROVE  /\ Chained' /\ Base' = Base /\ prelen' = totallen /\ totallen' = totallen + len
         /\ ring'[totallen].no = frames + 1
         /\ \A u \in Base .. totallen - 1 : ring'[u] = ring[u]
<1>1. /\ Base \in Nat /\ Base + Half <= 2 * Half /\ totallen \in Nat /\ frames \in Nat
      /\ prelen \in Nat /\ Half \in Nat
  BY HalfIs DEF BufferType, Base
<1>2. totallen + len <= 2 * Half /\ frames + 1 \in Nat
  BY <1>1
<1>3. /\ ring' \in [0 .. 2 * Half - 1 -> Frame]
      /\ prelen' = totallen /\ totallen' = totallen + len
      /\ ring'[totallen].no = frames + 1 /\ ring'[totallen].len = len
      /\ \A u \in totallen + 1 .. totallen + len - 1 : ring'[u].no = 0
      /\ \A u \in 0 .. 2 * Half - 1 : u < totallen => ring'[u] = ring[u]
  <2>1. Stored(frames + 1, len, totallen)
    BY <1>1, <1>2, StoreIs, Zenon
  <2> QED BY <2>1 DEF Stored
<1>4. Base' = Base
  BY DEF Base
<1>5. \A u \in Base .. totallen - 1 : ring'[u] = ring[u]
  BY <1>1, <1>2, <1>3
<1>6. /\ Base <= prelen /\ prelen < totallen /\ ring[Base].no = head /\ head > 0
      /\ ring[prelen].no = frames
      /\ \A u \in Base .. totallen - 1 : ring[u].no # 0 => Follows(u)
  BY DEF Chained
<1>7. ASSUME NEW u, u = totallen PROVE Follows(u)'
  <2>1. ring'[u].no = frames + 1 /\ u + ring'[u].len = totallen' /\ u = prelen'
    BY <1>3, <1>7
  <2>2. ring'[u].no <= frames'
    BY <1>1, <2>1
  <2> QED BY <2>1, <2>2 DEF Follows
<1>8. ASSUME NEW u \in Base .. totallen - 1, ring[u].no # 0 PROVE Follows(u)'
  <2>1. Follows(u) /\ ring'[u] = ring[u] /\ u \in Nat
    BY <1>1, <1>5, <1>6, <1>8
  <2>2. ring[u].no \in Nat /\ ring[u].len \in Nat
    BY <1>1, <1>2, <1>8 DEF BufferType, Frame
  <2>3. CASE u = prelen /\ u + ring[u].len = totallen
    <3>1. ring'[u + ring'[u].len].no = ring'[u].no + 1
      BY <1>3, <1>6, <2>1, <2>3
    <3>2. u + ring'[u].len \in u + 1 .. prelen'
      BY <1>1, <1>3, <1>6, <2>1, <2>3
    <3> QED BY <1>1, <1>6, <2>1, <2>3, <3>1, <3>2 DEF Follows
  <2>4. CASE u + ring[u].len \in u + 1 .. prelen /\ ring[u + ring[u].len].no = ring[u].no + 1
    <3>1. u + ring[u].len \in Base .. totallen - 1
      BY <1>1, <1>6, <2>1, <2>2, <2>4
    <3>2. ring'[u + ring'[u].len].no = ring'[u].no + 1
      BY <1>5, <2>1, <2>4, <3>1
    <3>3. u + ring'[u].len \in u + 1 .. prelen'
      BY <1>1, <1>3, <1>6, <2>1, <2>2, <2>4
    <3>4. ring'[u].no <= frames'
      BY <1>1, <2>1, <2>2 DEF Follows
    <3> QED BY <3>2, <3>3, <3>4 DEF Follows
  <2> QED BY <2>1, <2>3, <2>4 DEF Follows
<1>9. \A u \in Base .. totallen' - 1 : ring'[u].no # 0 => Follows(u)'
  <2> SUFFICES ASSUME NEW u \in Base .. totallen' - 1, ring'[u].no # 0 PROVE Follows(u)'
    OBVIOUS
  <2>1. u \in Base .. totallen - 1 \/ u = totallen \/ u \in totallen + 1 .. totallen + len - 1
    BY <1>1, <1>3
  <2> QED BY <1>3, <1>5, <1>7, <1>8, <2>1
<1>10. ring'[Base] = ring[Base]
  <2>1. Base \in Base .. totallen - 1
    BY <1>1, <1>6
  <2> QED BY <1>5, <2>1
<1>11. Chained'
  BY <1>1, <1>3, <1>4, <1>6, <1>9, <1>10 DEF Chained
<1> QED BY <1>3, <1>4, <1>5, <1>11

LEMMA NumbersBelow ==
  ASSUME BufferType, ViewerType, Written, NEW v \in Viewers
  PROVE  /\ Due(v) \in Nat /\ Due(v) <= frames + 1
         /\ Place(v) \in Nat /\ Base \in Nat
<1>1. /\ Base \in Nat /\ Base + Half <= 2 * Half /\ totallen \in Nat /\ frames \in Nat
      /\ Half \in Nat /\ totallen <= Base + Half
  BY HalfIs DEF BufferType, Base, Written, Chained
<1>2. Place(v) \in Base .. totallen /\ Due(v) # 0
  BY DEF Written, Placed
<1>3. CASE Place(v) < totallen
  <2>1. Place(v) \in Base .. totallen - 1 /\ Place(v) \in 0 .. 2 * Half - 1
    BY <1>1, <1>2, <1>3
  <2>2. Due(v) = ring[Place(v)].no /\ ring[Place(v)].no \in Nat
    BY <1>3, <2>1 DEF Due, BufferType, Frame
  <2>3. Follows(Place(v))
    BY <1>2, <2>1, <2>2 DEF Written, Chained
  <2> QED BY <1>1, <1>2, <2>2, <2>3 DEF Follows
<1>4. CASE ~(Place(v) < totallen)
  BY <1>1, <1>2, <1>4 DEF Due
<1> QED BY <1>3, <1>4

LEMMA PushKept ==
  ASSUME RingInv, NEW len \in Lens, NEW key \in BOOLEAN, PushVMencData(len, key)
  PROVE  BufferType' /\ ViewerType' /\ Written' /\ frames' > 0
<1>0. /\ BufferType /\ ViewerType /\ sensor = "8433" /\ len \in 1 .. Half /\ Half \in Nat
      /\ frames \in Nat /\ totallen \in Nat /\ len \in Nat
  BY LenIs, HalfIs DEF RingInv, PushVMencData, BufferType
<1>1. /\ frames' = frames + 1 /\ sensor' = sensor /\ jpeg' = jpeg
      /\ UNCHANGED <<offset, p2pprelen, got, at>>
  BY DEF PushVMencData, jpegVars, media
<1>2. frames = 0 => Unwritten
  BY <1>0 DEF RingInv
<1>3. frames > 0 => Written
  BY <1>0 DEF RingInv
<1>4. CASE Turns(len, key)
  <2> DEFINE to == IF firstflag THEN 0 ELSE Half
  <2>1. /\ Store(frames + 1, len, to) /\ firstflag' = ~firstflag
        /\ flag' = [v \in Viewers |-> IF firstflag THEN 1 ELSE 2]
        /\ head' = frames + 1 /\ begun' = [v \in Viewers |-> FALSE]
    BY <1>4 DEF PushVMencData, SetMainStreamFlag
  <2>2. to \in {0, Half} /\ to \in Nat /\ to + len <= 2 * Half /\ Half # 0
    BY <1>0, HalfIs
  <2>f. firstflag' \in BOOLEAN /\ (firstflag' <=> to = Half)
    <3>1. firstflag \in BOOLEAN /\ (firstflag => to = 0) /\ (~firstflag => to = Half)
      BY <1>0 DEF BufferType
    <3> QED BY <2>1, <2>2, <3>1, Zenon
  <2>3. \A v \in Viewers : Place(v)' = to
    BY <2>1 DEF Place
  <2> HIDE DEF to
  <2>4. /\ Chained' /\ Base' = to /\ prelen' = to /\ to < totallen'
        /\ ring'[to].no = frames + 1
    BY <1>0, <1>1, <2>1, <2>2, <2>f, BeginsHalf
  <2>5. ring' \in [0 .. 2 * Half - 1 -> Frame] /\ totallen' = to + len
    <3>1. frames + 1 \in Nat
      BY <1>0
    <3>2. Stored(frames + 1, len, to)
      BY <1>0, <2>1, <2>2, <3>1, StoreIs, Zenon
    <3> QED BY <3>2 DEF Stored
  <2>6. BufferType'
    BY <1>0, <1>1, <2>1, <2>2, <2>4, <2>5 DEF BufferType
  <2>7. ViewerType'
    BY <1>0, <1>1, <2>1 DEF ViewerType
  <2>8. ASSUME NEW v \in Viewers PROVE Placed(v)'
    <3>1. got[v] <= frames /\ got[v] \in Nat
      <4>1. got[v] \in Nat
        BY <1>0 DEF ViewerType
      <4>2. CASE frames = 0
        BY <1>2, <4>1, <4>2 DEF Unwritten
      <4>3. CASE frames # 0
        <5>1. Written
          BY <1>0, <1>3, <4>3
        <5>2. got[v] < Due(v)
          BY <5>1 DEF Written, Placed
        <5>3. Due(v) \in Nat /\ Due(v) <= frames + 1
          BY <1>0, <5>1, NumbersBelow
        <5> QED BY <1>0, <4>1, <5>2, <5>3
      <4> QED BY <4>2, <4>3
    <3>2. Due(v)' = frames + 1 /\ Place(v)' = to
      BY <2>3, <2>4 DEF Due
    <3>3. Place(v)' \in Base' .. totallen'
      BY <2>2, <2>4, <2>5, <3>2, <1>0
    <3>4. ~begun'[v] /\ got'[v] = got[v]
      BY <1>1, <2>1
    <3> QED BY <1>0, <1>1, <2>1, <2>4, <3>1, <3>2, <3>3, <3>4 DEF Placed
  <2> QED BY <1>0, <1>1, <2>4, <2>6, <2>7, <2>8 DEF Written
<1>5. CASE ~Turns(len, key)
  <2>1. /\ Store(frames + 1, len, totallen) /\ UNCHANGED <<firstflag, flag, begun>>
        /\ head' = IF frames = 0 THEN 1 ELSE head
    BY <1>5 DEF PushVMencData
  <2>2. totallen + len <= Base + Half
    BY <1>0, <1>5 DEF Turns, Base
  <2>3. Base \in {0, Half} /\ totallen + len <= 2 * Half
    BY <1>0, <2>2 DEF Base
  <2>4. ring' \in [0 .. 2 * Half - 1 -> Frame] /\ totallen' = totallen + len /\ prelen' = totallen
    <3>1. frames + 1 \in Nat
      BY <1>0
    <3>2. Stored(frames + 1, len, totallen)
      BY <1>0, <2>1, <2>3, <3>1, StoreIs, Zenon
    <3> QED BY <3>2 DEF Stored
  <2>5. BufferType'
    BY <1>0, <1>1, <2>1, <2>4 DEF BufferType
  <2>6. ViewerType'
    BY <1>0, <1>1, <2>1 DEF ViewerType
  <2>7. \A v \in Viewers : Place(v)' = Place(v)
    BY <1>1, <2>1 DEF Place
  <2>8. CASE frames = 0
    <3>1. Unwritten /\ totallen = 0 /\ ~firstflag
      BY <1>2, <2>8 DEF Unwritten
    <3>2. /\ 0 \in {0, Half} /\ head' = frames + 1
          /\ firstflag' \in BOOLEAN /\ (firstflag' <=> 0 = Half)
      <4>1. firstflag \in BOOLEAN /\ Half # 0
        BY <1>0, HalfIs DEF BufferType
      <4>2. firstflag' \in BOOLEAN /\ (firstflag' <=> 0 = Half)
        BY <2>1, <3>1, <4>1, Zenon
      <4> QED BY <2>1, <2>8, <4>2
    <3>3. /\ Chained' /\ Base' = 0 /\ prelen' = 0 /\ 0 < totallen'
          /\ ring'[0].no = frames + 1
      BY <1>0, <1>1, <2>1, <3>1, <3>2, BeginsHalf
    <3>4. ASSUME NEW v \in Viewers PROVE Placed(v)'
      <4>1. /\ flag[v] = 0 /\ offset[v] = 0 /\ p2pprelen[v] = 0 /\ got[v] = 0 /\ ~begun[v]
        BY <3>1 DEF Unwritten
      <4>2. Place(v)' = 0 /\ Due(v)' = 1
        BY <2>7, <2>8, <3>3, <4>1 DEF Place, Due
      <4> QED BY <1>0, <1>1, <2>1, <2>4, <2>8, <3>2, <3>3, <4>1, <4>2 DEF Placed
    <3> QED BY <1>0, <1>1, <2>5, <2>6, <3>3, <3>4 DEF Written
  <2>9. CASE frames # 0
    <3>1. Written /\ Chained
      BY <1>0, <1>3, <2>9 DEF Written
    <3>2. head' = head /\ firstflag' = firstflag
      BY <2>1, <2>9
    <3>3. /\ Chained' /\ Base' = Base /\ ring'[totallen].no = frames + 1
          /\ \A u \in Base .. totallen - 1 : ring'[u] = ring[u]
      BY <1>0, <1>1, <2>1, <2>2, <3>1, <3>2, Appended
    <3>4. ASSUME NEW v \in Viewers PROVE Placed(v)'
      <4>1. Placed(v) /\ Place(v) \in Base .. totallen
        BY <3>1 DEF Written, Placed
      <4>2. Place(v)' = Place(v) /\ Place(v)' < totallen' /\ Base \in Nat
        BY <1>0, <2>4, <2>7, <4>1 DEF Base
      <4>3. Due(v)' = Due(v)
        <5>1. CASE Place(v) < totallen
          BY <1>0, <3>3, <4>1, <4>2, <5>1 DEF Due
        <5>2. CASE Place(v) = totallen
          BY <3>3, <4>2, <5>2, <1>0 DEF Due
        <5> QED BY <1>0, <4>1, <4>2, <5>1, <5>2
      <4>4. Place(v)' \in Base' .. totallen'
        BY <1>0, <2>4, <3>3, <4>1, <4>2
      <4>5. UNCHANGED <<flag[v], got[v], begun[v], head>>
        BY <1>1, <2>1, <3>2
      <4>6. Place(v)' # totallen'
        BY <1>0, <2>4, <4>1, <4>2
      <4> QED BY <3>3, <4>1, <4>2, <4>3, <4>4, <4>5, <4>6 DEF Placed
    <3> QED BY <1>0, <1>1, <2>5, <2>6, <3>3, <3>4 DEF Written
  <2> QED BY <2>8, <2>9
<1> QED BY <1>4, <1>5
-----------------------------------------------------------------------------
(***************************************************************************)
(* The media thread at a slot.                                             *)
(***************************************************************************)

\* The half is left as it is.
LEMMA HalfKept ==
  ASSUME BufferType, UNCHANGED <<encbufm, jpeg, frames, head>>
  PROVE  /\ BufferType' /\ Base' = Base /\ prelen' = prelen /\ totallen' = totallen
         /\ ring' = ring /\ frames' = frames /\ head' = head /\ (Chained => Chained')
<1>1. UNCHANGED <<ring, totallen, prelen, firstflag, jpeg, frames, head>>
  BY DEF encbufm
<1>2. BufferType'
  BY <1>1 DEF BufferType
<1>3. Base' = Base
  BY <1>1 DEF Base
<1>4. \A u : Follows(u)' <=> Follows(u)
  BY <1>1 DEF Follows
<1>5. Chained => Chained'
  BY <1>1, <1>3, <1>4 DEF Chained
<1> QED BY <1>1, <1>2, <1>3, <1>5

\* A viewer whose place, sessions and frames are left is as it was.
LEMMA PlacedKept ==
  ASSUME NEW v \in Viewers, Placed(v), Place(v)' = Place(v),
         flag'[v] = flag[v] \/ flag'[v] = 0,
         p2pprelen'[v] = p2pprelen[v] \/ p2pprelen'[v] = prelen,
         got'[v] = got[v] \/ got'[v] = 0, begun'[v] = begun[v],
         BufferType, ViewerType, Written, UNCHANGED <<encbufm, jpeg, frames, head>>
  PROVE  Placed(v)'
<1>1. /\ Base' = Base /\ prelen' = prelen /\ totallen' = totallen
      /\ ring' = ring /\ frames' = frames /\ head' = head
  BY HalfKept
<1>2. Due(v)' = Due(v)
  BY <1>1 DEF Due
<1>3. Due(v) \in Nat /\ got[v] \in Nat
  BY NumbersBelow DEF ViewerType
<1>4. /\ Place(v)' \in Base' .. totallen' /\ (flag'[v] # 0 => Place(v)' = Base' /\ ~begun'[v])
      /\ Due(v)' # 0 /\ (Place(v)' = totallen' => p2pprelen'[v] = prelen')
  BY <1>1, <1>2 DEF Placed
<1>5. got'[v] < Due(v)'
  BY <1>2, <1>3 DEF Placed
<1>6. (begun'[v] => got'[v] = 0 \/ got'[v] + 1 = Due(v)') /\ (~begun'[v] => Due(v)' = head')
  BY <1>1, <1>2 DEF Placed
<1> QED BY <1>4, <1>5, <1>6 DEF Placed

LEMMA NextSlotKept ==
  ASSUME ViewerType, NextSlot
  PROVE  at' \in Viewers
BY HalfIs DEF NextSlot, Viewers, ViewerType

\* A viewer goes on where it is told.
LEMMA GoOnPlace ==
  ASSUME ViewerType, NEW to \in Nat, NEW u \in Viewers, u = at, GoOn(at, to)
  PROVE  /\ flag' \in [Viewers -> 0 .. 2] /\ offset' \in [Viewers -> Nat]
         /\ Place(u)' = to /\ flag'[u] = 0 /\ offset'[u] = to
         /\ \A v \in Viewers : v # u => /\ Place(v)' = Place(v) /\ flag'[v] = flag[v]
<1>1. /\ flag' = [flag EXCEPT ![u] = 0] /\ offset' = [offset EXCEPT ![u] = to]
      /\ flag \in [Viewers -> 0 .. 2] /\ offset \in [Viewers -> Nat]
  BY DEF GoOn, ViewerType
<1>2. /\ flag' \in [Viewers -> 0 .. 2] /\ offset' \in [Viewers -> Nat]
      /\ flag'[u] = 0 /\ offset'[u] = to
      /\ \A v \in Viewers : v # u => flag'[v] = flag[v] /\ offset'[v] = offset[v]
  BY <1>1
<1>3. ASSUME NEW v \in Viewers, v # u PROVE Place(v)' = Place(v)
  BY <1>2, <1>3 DEF Place
<1>4. Place(u)' = to
  BY <1>2 DEF Place
<1> QED BY <1>2, <1>3, <1>4

\* No viewer has been sent anything.
LEMMA RingKept ==
  ASSUME RingInv, BufferType', ViewerType', sensor' = sensor,
         sensor = "8433" =>
           /\ UNCHANGED <<encbufm, userindp2p, p2pprelen, jpeg, frames, head, begun>>
           /\ \A v \in Viewers : got'[v] = got[v] \/ got'[v] = 0
  PROVE  RingInv'
<1>1. CASE sensor # "8433"
  BY <1>1 DEF RingInv
<1>2. CASE sensor = "8433"
  <2>1. /\ UNCHANGED <<encbufm, userindp2p, p2pprelen, jpeg, frames, head, begun>>
        /\ UNCHANGED <<flag, offset, totallen, prelen, firstflag>>
        /\ BufferType /\ ViewerType
    BY <1>2 DEF RingInv, userindp2p, encbufm
  <2>2. \A v \in Viewers : got'[v] = got[v] \/ got'[v] = 0
    BY <1>2
  <2>3. CASE frames = 0
    <3>1. Unwritten
      BY <1>2, <2>3 DEF RingInv
    <3>2. Unwritten'
      BY <2>1, <2>2, <3>1 DEF Unwritten
    <3> QED BY <2>1, <2>3, <3>2 DEF RingInv
  <2>4. CASE frames # 0
    <3>1. Written /\ frames \in Nat
      BY <1>2, <2>1, <2>4 DEF RingInv, BufferType
    <3>2. ASSUME NEW v \in Viewers PROVE Placed(v)'
      <4>1. Placed(v) /\ Place(v)' = Place(v)
        BY <2>1, <3>1 DEF Written, Place
      <4> QED BY <2>1, <2>2, <3>1, <4>1, PlacedKept
    <3>3. Chained'
      BY <2>1, <3>1, HalfKept DEF Written
    <3>4. Written'
      BY <3>2, <3>3 DEF Written
    <3> QED BY <2>1, <2>4, <3>1, <3>4 DEF RingInv
  <2> QED BY <2>3, <2>4
<1> QED BY <1>1, <1>2

\* A slot at which the viewer is looked at goes on where it is, and is told so.
LEMMA StaysKept ==
  ASSUME RingInv, sensor = "8433", GoOn(at, Place(at)), NextSlot,
         p2pprelen' = p2pprelen \/ (Seen(at) /\ frames > 0),
         UNCHANGED <<jpegVars, encbufm, frames, head, got, begun>>
  PROVE  RingInv'
<1>1. PICK u \in Viewers : u = at
  BY DEF RingInv, ViewerType
<1>2. /\ BufferType /\ ViewerType /\ sensor' = sensor
      /\ UNCHANGED <<jpeg, totallen, prelen, firstflag>>
  BY DEF RingInv, jpegVars, encbufm
<1>3. Place(u) \in Nat
  BY <1>2, HalfIs DEF Place, ViewerType
<1>4. /\ flag' \in [Viewers -> 0 .. 2] /\ offset' \in [Viewers -> Nat]
      /\ Place(u)' = Place(u) /\ flag'[u] = 0 /\ offset'[u] = Place(u)
      /\ \A v \in Viewers : v # u => /\ Place(v)' = Place(v) /\ flag'[v] = flag[v]
  BY <1>1, <1>2, <1>3, GoOnPlace
<1>5. /\ p2pprelen' \in [Viewers -> Nat]
      /\ \A v \in Viewers : p2pprelen'[v] = p2pprelen[v] \/ p2pprelen'[v] = prelen
  BY <1>2 DEF Seen, ViewerType, BufferType
<1>6. at' \in Viewers
  BY <1>2, NextSlotKept
<1>7. BufferType'
  BY <1>2, HalfKept
<1>8. ViewerType'
  BY <1>2, <1>4, <1>5, <1>6 DEF ViewerType
<1>9. CASE frames = 0
  <2>1. Unwritten /\ p2pprelen' = p2pprelen
    BY <1>9 DEF RingInv
  <2>2. Place(u) = 0
    BY <2>1 DEF Unwritten, Place
  <2>3. \A v \in Viewers : v # u => offset'[v] = offset[v]
    BY <1>1, <1>2 DEF GoOn, ViewerType
  <2>4. Unwritten'
    BY <1>2, <1>4, <2>1, <2>2, <2>3 DEF Unwritten
  <2> QED BY <1>2, <1>7, <1>8, <1>9, <2>4 DEF RingInv
<1>10. CASE frames # 0
  <2>1. Written /\ frames \in Nat
    BY <1>2, <1>10 DEF RingInv, BufferType
  <2>2. ASSUME NEW v \in Viewers PROVE Placed(v)'
    <3>1. Placed(v) /\ Place(v)' = Place(v) /\ (flag'[v] = flag[v] \/ flag'[v] = 0)
      BY <1>4, <2>1 DEF Written
    <3>2. p2pprelen'[v] = p2pprelen[v] \/ p2pprelen'[v] = prelen
      BY <1>5
    <3> QED BY <1>2, <2>1, <3>1, <3>2, PlacedKept
  <2>3. Chained'
    BY <1>2, <2>1, HalfKept DEF Written
  <2>4. Written'
    BY <2>2, <2>3 DEF Written
  <2> QED BY <1>2, <1>7, <1>8, <1>10, <2>1, <2>4 DEF RingInv
<1> QED BY <1>9, <1>10

\* A media thread that has something new to send finds a frame where the viewer is.
LEMMA FrameThere ==
  ASSUME RingInv, sensor = "8433", NEW u \in Viewers, p2pprelen[u] # prelen
  PROVE  /\ Written /\ frames \in Nat /\ frames > 0
         /\ Place(u) \in Base .. totallen - 1 /\ Place(u) \in 0 .. 2 * Half - 1
         /\ FrameAt(Place(u)) = ring[Place(u)] /\ Due(u) = ring[Place(u)].no
         /\ Follows(Place(u)) /\ ring[Place(u)] \in Frame
<1>1. BufferType /\ ViewerType /\ frames \in Nat
  BY DEF RingInv, BufferType
<1>2. frames # 0
  BY DEF RingInv, Unwritten
<1>3. Written /\ frames > 0
  BY <1>1, <1>2 DEF RingInv
<1>4. /\ Base \in Nat /\ Base + Half <= 2 * Half /\ totallen \in Nat
      /\ Half \in Nat /\ totallen <= Base + Half
  BY <1>1, <1>3, HalfIs DEF BufferType, Base, Written, Chained
<1>5. Place(u) \in Base .. totallen /\ Due(u) # 0 /\ Place(u) # totallen
  BY <1>3 DEF Written, Placed
<1>6. Place(u) \in Base .. totallen - 1 /\ Place(u) \in 0 .. 2 * Half - 1 /\ Place(u) < totallen
  BY <1>4, <1>5
<1>7. FrameAt(Place(u)) = ring[Place(u)] /\ ring[Place(u)] \in Frame
  BY <1>1, <1>6 DEF FrameAt, BufferType
<1>8. Due(u) = ring[Place(u)].no
  BY <1>6 DEF Due
<1>9. Follows(Place(u))
  BY <1>3, <1>5, <1>6, <1>8 DEF Written, Chained
<1> QED BY <1>1, <1>3, <1>6, <1>7, <1>8, <1>9

LEMMA CopyKept ==
  ASSUME RingInv, CopyFrame
  PROVE  RingInv'
<1>1. PICK u \in Viewers : u = at
  BY DEF RingInv, ViewerType
<1>2. /\ sensor = "8433" /\ p2pprelen[u] # prelen /\ at' = at
      /\ GoOn(at, Place(at) + FrameAt(Place(at)).len)
      /\ got' = [got EXCEPT ![u] = FrameAt(Place(u)).no]
      /\ p2pprelen' = [p2pprelen EXCEPT ![u] = prelen]
      /\ begun' = [begun EXCEPT ![u] = TRUE]
      /\ UNCHANGED <<jpegVars, encbufm, frames, head>>
  BY <1>1 DEF CopyFrame, Seen
<1>3. /\ BufferType /\ ViewerType /\ sensor' = sensor /\ UNCHANGED jpeg
      /\ prelen \in Nat /\ totallen \in Nat
  BY <1>2 DEF RingInv, jpegVars, BufferType
<1> DEFINE p == Place(u)
           f == ring[p]
<1>4. /\ Written /\ frames \in Nat /\ frames > 0
      /\ p \in Base .. totallen - 1 /\ p \in 0 .. 2 * Half - 1
      /\ FrameAt(p) = f /\ Due(u) = f.no /\ Follows(p) /\ f \in Frame
  BY <1>2, FrameThere
<1>5. f.no \in Nat /\ f.len \in Nat /\ p \in Nat /\ Base \in Nat
  BY <1>3, <1>4, HalfIs DEF Frame, Base
<1> HIDE DEF p, f
<1>6. GoOn(at, p + f.len) /\ got' = [got EXCEPT ![u] = f.no]
  BY <1>1, <1>2, <1>4 DEF p
<1>7. p + f.len \in Nat
  BY <1>5
<1>8. /\ flag' \in [Viewers -> 0 .. 2] /\ offset' \in [Viewers -> Nat]
      /\ Place(u)' = p + f.len /\ flag'[u] = 0
      /\ \A v \in Viewers : v # u => /\ Place(v)' = Place(v) /\ flag'[v] = flag[v]
  BY <1>1, <1>3, <1>6, <1>7, GoOnPlace
<1>9. /\ BufferType' /\ Base' = Base /\ prelen' = prelen /\ totallen' = totallen
      /\ ring' = ring /\ frames' = frames /\ head' = head /\ Chained'
  BY <1>2, <1>3, <1>4, HalfKept DEF Written
<1>10. ViewerType'
  BY <1>1, <1>2, <1>3, <1>5, <1>6, <1>8 DEF ViewerType
<1>11. got'[u] = f.no /\ begun'[u] /\ p2pprelen'[u] = prelen
  BY <1>2, <1>3, <1>6 DEF ViewerType
<1>12. f.no <= frames /\ f.no # 0
  BY <1>4, <1>5 DEF Follows, f, Written, Placed
<1>13. \/ p + f.len = totallen
       \/ (p + f.len \in p + 1 .. prelen /\ ring[p + f.len].no = f.no + 1)
  BY <1>4 DEF Follows, f
<1>14. p + f.len = totallen => f.no = frames
  <2> SUFFICES ASSUME p + f.len = totallen PROVE f.no = frames
    OBVIOUS
  <2>1. prelen < totallen /\ ring[prelen].no = frames
    BY <1>4 DEF Written, Chained
  <2>2. p = prelen
    BY <1>3, <1>4, <1>5, <2>1 DEF Follows, f
  <2> QED BY <2>1, <2>2 DEF f
<1>15. Placed(u)'
  <2>1. CASE p + f.len = totallen
    <3>1. Due(u)' = frames + 1 /\ f.no = frames
      BY <1>3, <1>8, <1>9, <1>14, <2>1 DEF Due
    <3>2. Base <= totallen
      BY <1>3, <1>4, <1>5
    <3> QED BY <1>3, <1>4, <1>5, <1>8, <1>9, <1>11, <2>1, <3>1, <3>2 DEF Placed
  <2>2. CASE p + f.len \in p + 1 .. prelen /\ ring[p + f.len].no = f.no + 1
    <3>1. prelen < totallen
      BY <1>4 DEF Written, Chained
    <3>2. p + f.len < totallen /\ p + f.len \in Base .. totallen
      BY <1>3, <1>4, <1>5, <2>2, <3>1
    <3>3. Due(u)' = f.no + 1
      BY <1>8, <1>9, <2>2, <3>2 DEF Due
    <3> QED BY <1>5, <1>8, <1>9, <1>11, <1>12, <3>2, <3>3 DEF Placed
  <2> QED BY <1>13, <2>1, <2>2
<1>16. ASSUME NEW v \in Viewers, v # u PROVE Placed(v)'
  <2>1. Placed(v) /\ Place(v)' = Place(v) /\ flag'[v] = flag[v]
    BY <1>4, <1>8, <1>16 DEF Written
  <2>2. p2pprelen'[v] = p2pprelen[v] /\ got'[v] = got[v] /\ begun'[v] = begun[v]
    BY <1>2, <1>3, <1>6, <1>16 DEF ViewerType
  <2> QED BY <1>2, <1>3, <1>4, <2>1, <2>2, PlacedKept
<1>17. Written'
  BY <1>9, <1>15, <1>16 DEF Written
<1> QED BY <1>3, <1>4, <1>9, <1>10, <1>17 DEF RingInv

\* The media thread, in the state it is in, sends a viewer the frame due.
LEMMA CopyInOrder ==
  ASSUME RingInv, CopyFrame, NEW v \in Viewers, at = v
  PROVE  LET n == got'[v] IN
           /\ n > got[v]
           /\ n = got[v] + 1 \/ n = head \/ (got[v] = 0 /\ begun[v])
<1>1. sensor = "8433" /\ p2pprelen[v] # prelen /\ got' = [got EXCEPT ![v] = FrameAt(Place(v)).no]
  BY DEF CopyFrame
<1>2. Written /\ FrameAt(Place(v)) = ring[Place(v)] /\ Due(v) = ring[Place(v)].no
  BY <1>1, FrameThere
<1>3. got'[v] = Due(v) /\ got[v] \in Nat /\ ring[Place(v)] \in Frame
  BY <1>1, <1>2, FrameThere DEF RingInv, ViewerType
<1>4. Due(v) \in Nat
  BY <1>2, <1>3 DEF Frame
<1>5. /\ got[v] < Due(v) /\ (begun[v] => got[v] = 0 \/ got[v] + 1 = Due(v))
      /\ (~begun[v] => Due(v) = head)
  BY <1>2 DEF Written, Placed
<1> QED BY <1>3, <1>4, <1>5
-----------------------------------------------------------------------------
(***************************************************************************)
(* Every step.                                                             *)
(***************************************************************************)

\* What is neither the encoder's nor a frame's leaves the buffer and the viewers.
LEMMA AsideKept ==
  ASSUME RingInv, UNCHANGED <<sensor, jpeg, encbufm, userindp2p, p2pprelen, frames, head, begun>>,
         at' \in Viewers, got' \in [Viewers -> Nat],
         sensor = "8433" => \A v \in Viewers : got'[v] = got[v] \/ got'[v] = 0
  PROVE  RingInv'
<1>1. BufferType /\ ViewerType
  BY DEF RingInv
<1>2. BufferType'
  BY <1>1, HalfKept
<1>3. ViewerType'
  BY <1>1 DEF ViewerType, userindp2p
<1> QED BY <1>2, <1>3, RingKept

LEMMA NextRing == ASSUME RingInv, [VideoNext]_videoVars PROVE RingInv'
<1>1. BufferType /\ ViewerType /\ at \in Viewers /\ got \in [Viewers -> Nat]
  BY DEF RingInv, ViewerType
<1>2. ASSUME NEW len \in Lens, NEW key \in BOOLEAN, PushVMencData(len, key) PROVE RingInv'
  BY <1>2, PushKept DEF RingInv, BufferType
<1>3. ASSUME NEW len \in Lens, PushVJencData(len) PROVE RingInv'
  <2>1. /\ sensor = "3861" /\ sensor' = sensor /\ jpeg' = [no |-> frames + 1, len |-> len]
        /\ frames' = frames + 1
        /\ UNCHANGED <<ring, totallen, prelen, firstflag, head>>
        /\ UNCHANGED <<flag, offset, p2pprelen, got, begun, at>>
    BY <1>3 DEF PushVJencData, encbufm, userindp2p, media, videoHistory
  <2>2. frames + 1 \in Nat /\ len \in Nat
    BY <1>1, LenIs DEF BufferType
  <2>3. BufferType'
    BY <1>1, <2>1, <2>2 DEF BufferType, Frame
  <2>4. ViewerType'
    BY <1>1, <2>1 DEF ViewerType
  <2> QED BY <2>1, <2>3, <2>4 DEF RingInv
<1>4. ASSUME NEW b \in BOOLEAN, SetSnapshotVideo(b) PROVE RingInv'
  BY <1>1, <1>4, AsideKept DEF SetSnapshotVideo, media, videoHistory
<1>5. CASE NoteMainStreamSend
  BY <1>1, <1>5, AsideKept DEF NoteMainStreamSend, jpegVars, media, videoHistory
<1>6. CASE WaitP2pSem
  <2>1. 0 \in Viewers
    BY HalfIs DEF Viewers
  <2> QED BY <1>1, <1>6, <2>1, AsideKept DEF WaitP2pSem, videoHistory
<1>7. CASE SkipFrame
  BY <1>1, <1>7, AsideKept DEF SkipFrame, media
<1>8. CASE NotLive
  BY <1>1, <1>8, AsideKept, NextSlotKept DEF NotLive, jpegVars
<1>9. CASE ChannelFull
  BY <1>1, <1>9, AsideKept, NextSlotKept DEF ChannelFull, jpegVars
<1>10. CASE HasRoom
  BY <1>1, <1>10, AsideKept DEF HasRoom, jpegVars
<1>11. CASE SendFails
  BY <1>1, <1>11, AsideKept, NextSlotKept DEF SendFails, jpegVars
<1>12. CASE NothingNew
  <2>1. /\ sensor = "8433" /\ GoOn(at, Place(at)) /\ NextSlot /\ p2pprelen' = p2pprelen
        /\ UNCHANGED <<jpegVars, encbufm, frames, head, got, begun>>
    BY <1>12 DEF NothingNew, videoHistory
  <2>2. p2pprelen' = p2pprelen \/ (Seen(at) /\ frames > 0)
    BY <2>1
  <2> QED BY <2>1, <2>2, StaysKept
<1>13. CASE TooLong
  <2>1. p2pprelen[at] # prelen /\ sensor = "8433"
    BY <1>13 DEF TooLong
  <2>2. frames > 0
    BY <1>1, <2>1, FrameThere
  <2> QED BY <1>13, <2>2, StaysKept DEF TooLong, videoHistory
<1>14. CASE CopyFrame
  BY <1>14, CopyKept
<1>15. CASE JpegTooLong
  BY <1>1, <1>15, AsideKept, NextSlotKept DEF JpegTooLong, videoHistory
<1>16. CASE CopyJpeg
  <2>1. /\ sensor = "3861" /\ got' = [got EXCEPT ![at] = jpeg.no] /\ jpeg.no \in Nat
    BY <1>1, <1>16 DEF CopyJpeg, BufferType, Frame
  <2>2. got' \in [Viewers -> Nat]
    BY <1>1, <2>1
  <2> QED BY <1>1, <1>16, <2>1, <2>2, AsideKept DEF CopyJpeg
<1>17. CASE WriteFrame
  BY <1>1, <1>17, AsideKept, NextSlotKept DEF WriteFrame, jpegVars, videoHistory
<1>18. ASSUME NEW v \in Viewers, Watch(v) PROVE RingInv'
  BY <1>1, <1>18, AsideKept DEF Watch, jpegVars, media
<1>19. ASSUME NEW v \in Viewers, Unwatch(v) PROVE RingInv'
  BY <1>1, <1>19, AsideKept DEF Unwatch, jpegVars, media, videoHistory
<1>20. CASE UNCHANGED videoVars
  BY <1>1, <1>20, AsideKept DEF videoVars, jpegVars, media, videoHistory
<1> QED BY <1>2, <1>3, <1>4, <1>5, <1>6, <1>7, <1>8, <1>9, <1>10, <1>11, <1>12, <1>13, <1>14,
           <1>15, <1>16, <1>17, <1>18, <1>19, <1>20 DEF VideoNext, MediaStep

\* However far behind the media thread is, and whatever it skips, a viewer is sent the
\* frame after the one before, or the first of the half that is being written.
THEOREM VideoFramesInOrder == VideoSpec => FramesInOrder
<1>1. VideoSpec => []RingInv
  BY InitRing, NextRing, PTL DEF VideoSpec
<1>2. ASSUME RingInv, [VideoNext]_videoVars
      PROVE  [\A v \in Viewers : CopyFrame /\ at = v =>
                LET n == got'[v] IN
                  /\ n > got[v]
                  /\ n = got[v] + 1 \/ n = head \/ (got[v] = 0 /\ begun[v])]_videoVars
  BY <1>2, CopyInOrder
<1> QED BY <1>1, <1>2, PTL DEF VideoSpec, FramesInOrder
-----------------------------------------------------------------------------
(***************************************************************************)
(* Talk: the buffer as the queue of TalkFifo.                              *)
(***************************************************************************)

TalkType ==
  /\ nReadOffset \in Nat /\ nWriteOffset \in Nat
  /\ nReadOffset <= nWriteOffset /\ nWriteOffset <= Cap
  /\ NewAoBuffer \in [0 .. Cap - 1 -> Nat]
  /\ sent \in Nat

\* What is still to be read of buffer b.
Unread(b, r, w) == [i \in 1 .. w - r |-> b[r + i - 1]]

LEMMA CapIs == Cap \in Nat \ {0}
  BY TalkAssumption

LEMMA Multiple ==
  ASSUME NEW a \in Nat, NEW d \in Nat \ {0}
  PROVE  (a \div d) * d \in 0 .. a
BY Z3

LEMMA Lengths ==
  ASSUME NEW b \in [0 .. Cap - 1 -> Nat], NEW r \in Nat, NEW w \in r .. Cap
  PROVE  Unread(b, r, w) \in Seq(Nat) /\ Len(Unread(b, r, w)) = w - r
<1>1. w - r \in Nat /\ \A i \in 1 .. w - r : r + i - 1 \in 0 .. Cap - 1
  BY CapIs
<1>2. Unread(b, r, w) \in [1 .. w - r -> Nat]
  BY <1>1 DEF Unread
<1> QED BY <1>1, <1>2

LEMMA SameSeq ==
  ASSUME NEW n \in Nat, NEW s \in Seq(Nat), NEW t \in Seq(Nat), Len(s) = n, Len(t) = n,
         \A i \in 1 .. n : s[i] = t[i]
  PROVE  s = t
<1>1. s = [i \in 1 .. n |-> s[i]] /\ t = [i \in 1 .. n |-> t[i]]
  OBVIOUS
<1> QED BY <1>1, Zenon

\* Frame f is written to b at w, which leaves c.
Puts(b, w, f, c) == c = [b EXCEPT ![w] = f]
Adds(b, r, w, f, c, x) ==
  Unread(c, r, x) = Append(Unread(b, r, w), f) /\ c \in [0 .. Cap - 1 -> Nat]

LEMMA AppendIs ==
  ASSUME NEW n \in Nat, NEW q \in Seq(Nat), Len(q) = n, NEW f \in Nat
  PROVE  /\ Append(q, f) \in Seq(Nat) /\ Len(Append(q, f)) = n + 1
         /\ \A i \in 1 .. n + 1 : Append(q, f)[i] = IF i <= n THEN q[i] ELSE f
OBVIOUS

\* One more that is written is at the end.
LEMMA Longer ==
  ASSUME NEW b \in [0 .. Cap - 1 -> Nat], NEW r \in Nat, NEW w \in r .. Cap - 1, NEW f \in Nat,
         NEW x \in r .. Cap, w = x - 1, NEW c, Puts(b, w, f, c)
  PROVE  Adds(b, r, w, f, c, x)
<1> DEFINE q == Unread(b, r, w)
<1>1. c \in [0 .. Cap - 1 -> Nat] /\ c = [b EXCEPT ![w] = f]
  BY DEF Puts
<1>0. w \in r .. Cap /\ w + 1 \in r .. Cap /\ w \in Nat
  BY CapIs
<1>2. q \in Seq(Nat) /\ Len(q) = w - r /\ w - r \in Nat
  <2>1. Unread(b, r, w) \in Seq(Nat) /\ Len(Unread(b, r, w)) = w - r
    BY <1>0, Lengths, Zenon
  <2> QED BY <1>0, <2>1
<1> HIDE DEF q
<1>3. /\ Append(q, f) \in Seq(Nat) /\ Len(Append(q, f)) = w - r + 1
      /\ \A i \in 1 .. w - r + 1 : Append(q, f)[i] = IF i <= w - r THEN q[i] ELSE f
  BY <1>2, AppendIs
<1>4. /\ Unread(c, r, x) \in Seq(Nat) /\ Len(Unread(c, r, x)) = w - r + 1
  <2>1. Unread(c, r, x) \in Seq(Nat) /\ Len(Unread(c, r, x)) = x - r
    BY <1>1, Lengths, Zenon
  <2> QED BY <1>0, <2>1
<1>5. ASSUME NEW i \in 1 .. w - r + 1 PROVE Unread(c, r, x)[i] = Append(q, f)[i]
  <2>1. Unread(c, r, x)[i] = c[r + i - 1]
    BY <1>0 DEF Unread
  <2>2. CASE i <= w - r
    <3>1. c[r + i - 1] = b[r + i - 1]
      BY <1>0, <2>2, CapIs, <1>1
    <3> QED BY <1>0, <1>3, <2>1, <2>2, <3>1 DEF Unread, q
  <2>3. CASE ~(i <= w - r)
    <3>1. r + i - 1 = w
      BY <2>3, CapIs
    <3>2. c[w] = f
      BY <1>0, <1>1, CapIs
    <3> QED BY <1>0, <1>3, <2>1, <2>3, <3>1, <3>2
  <2> QED BY <2>2, <2>3
<1>6. Unread(c, r, x) = Append(q, f)
  <2>1. w - r + 1 \in Nat
    BY <1>0
  <2> QED BY <2>1, <1>3, <1>4, <1>5, SameSeq, Zenon
<1> QED BY <1>1, <1>6 DEF q, Adds

\* The one that is read is the first.
LEMMA Shorter ==
  ASSUME NEW b \in [0 .. Cap - 1 -> Nat], NEW r \in Nat, NEW w \in r + 1 .. Cap
  PROVE  /\ Unread(b, r, w) # <<>> /\ Head(Unread(b, r, w)) = b[r]
         /\ Tail(Unread(b, r, w)) = Unread(b, r + 1, w)
<1> DEFINE q == Unread(b, r, w)
           t == Unread(b, r + 1, w)
<1>0. w \in r .. Cap /\ w \in r + 1 .. Cap /\ r + 1 \in Nat /\ w \in Nat
  BY CapIs
<1>1. q \in Seq(Nat) /\ Len(q) = w - r /\ w - r \in Nat /\ w - r > 0
  BY <1>0, Lengths
<1>2. t \in Seq(Nat) /\ Len(t) = w - r - 1
  <2>1. w \in r + 1 .. Cap /\ w - (r + 1) = w - r - 1
    BY <1>0
  <2>2. t \in Seq(Nat) /\ Len(t) = w - (r + 1)
    BY <1>0, <2>1, Lengths, Zenon
  <2> QED BY <2>1, <2>2
<1> HIDE DEF q, t
<1>3. q # <<>> /\ Head(q) = q[1] /\ q[1] = b[r]
  <2>1. q[1] = b[r + 1 - 1]
    BY <1>1 DEF Unread, q
  <2> QED BY <1>1, <2>1
<1>4. /\ Tail(q) \in Seq(Nat) /\ Len(Tail(q)) = w - r - 1
      /\ \A i \in 1 .. w - r - 1 : Tail(q)[i] = q[i + 1]
  BY <1>1
<1>5. \A i \in 1 .. w - r - 1 : t[i] = q[i + 1]
  BY <1>0 DEF Unread, t, q
<1>6. Tail(q) = t
  <2>1. w - r - 1 \in Nat /\ \A i \in 1 .. w - r - 1 : Tail(q)[i] = t[i]
    BY <1>0, <1>4, <1>5
  <2> QED BY <1>2, <1>4, <2>1, SameSeq, Zenon
<1> QED BY <1>3, <1>6 DEF q, t

\* What memcpy leaves at the beginning: the same, or, if the areas overlap, what was there
\* in any order.
LEMMA Moved ==
  ASSUME NEW b \in [0 .. Cap - 1 -> Nat], NEW r \in 1 .. Cap,
         NEW c \in Copies(b, r, Cap - r)
  PROVE  /\ c \in [0 .. Cap - 1 -> Nat]
         /\ \/ Unread(c, 0, Cap - r) = Unread(b, r, Cap)
            \/ /\ Cap - r \in (Cap \div 2 + 1) .. Cap - 1
               /\ Unread(c, 0, Cap - r) \in Fifo!Jumbled(Unread(b, r, Cap))
<1> DEFINE n == Cap - r
<1>1. n \in Nat /\ r \in Nat \ {0} /\ DOMAIN b = 0 .. Cap - 1
  BY CapIs
<1>2. CASE c = Forwards(b, r, n)
  <2>1. c \in [0 .. Cap - 1 -> Nat]
    BY <1>1, <1>2, CapIs DEF Forwards
  <2>2. \A i \in 1 .. n - 0 : c[0 + i - 1] = b[r + i - 1]
    BY <1>1, <1>2, CapIs DEF Forwards
  <2>3. Unread(c, 0, n) = Unread(b, r, Cap)
    BY <1>1, <2>2, CapIs DEF Unread
  <2> QED BY <2>1, <2>3
<1>3. CASE n > r /\ c = Backwards(b, r, n)
  <2> DEFINE from(i) == r + i + ((n - 1 - i) \div r) * r
  <2>1. ASSUME NEW i \in 0 .. n - 1 PROVE from(i) \in r .. Cap - 1
    <3>1. n - 1 - i \in Nat
      BY <1>1
    <3>2. ((n - 1 - i) \div r) * r \in 0 .. n - 1 - i
      BY <1>1, <3>1, Multiple
    <3> HIDE DEF n
    <3>3. n = Cap - r
      BY DEF n
    <3> QED BY <1>1, <3>1, <3>2, <3>3, CapIs
  <2>2. \A i \in 0 .. Cap - 1 : c[i] = IF i < n THEN b[from(i)] ELSE b[i]
    BY <1>1, <1>3 DEF Backwards
  <2>d. DOMAIN c = 0 .. Cap - 1 /\ c = [i \in DOMAIN c |-> c[i]]
    BY <1>1, <1>3 DEF Backwards
  <2> HIDE DEF from
  <2>3. \A i \in 0 .. Cap - 1 : c[i] \in Nat
    BY <1>1, <2>1, <2>2, CapIs
  <2>4. c \in [0 .. Cap - 1 -> Nat]
    BY <2>d, <2>3
  <2>5. /\ Unread(b, r, Cap) = [i \in 1 .. n |-> b[r + i - 1]]
        /\ Unread(c, 0, n) = [i \in 1 .. n |-> c[i - 1]]
        /\ Len(Unread(b, r, Cap)) = n
    <3>1. \A i \in 1 .. n : 0 + i - 1 = i - 1
      BY <1>1
    <3> QED BY <1>1, <3>1, Lengths, CapIs DEF Unread
  <2>6. ASSUME NEW i \in 1 .. n
        PROVE  c[i - 1] \in {Unread(b, r, Cap)[j] : j \in 1 .. n}
    <3>1. from(i - 1) \in r .. Cap - 1 /\ c[i - 1] = b[from(i - 1)]
      BY <1>1, <2>1, <2>2, CapIs
    <3>2. from(i - 1) - r + 1 \in 1 .. n /\ r + (from(i - 1) - r + 1) - 1 = from(i - 1)
      BY <1>1, <3>1, CapIs
    <3>3. Unread(b, r, Cap)[from(i - 1) - r + 1] = c[i - 1]
      BY <2>5, <3>1, <3>2
    <3> QED BY <3>2, <3>3
  <2>7. Unread(c, 0, n) \in Fifo!Jumbled(Unread(b, r, Cap))
    BY <2>5, <2>6 DEF Fifo!Jumbled
  <2>8. n \in (Cap \div 2 + 1) .. Cap - 1
    BY <1>1, <1>3, CapIs
  <2> QED BY <2>4, <2>7, <2>8
<1> QED BY <1>2, <1>3 DEF Copies
-----------------------------------------------------------------------------
(***************************************************************************)
(* Every step.                                                             *)
(***************************************************************************)
queue == Unread(NewAoBuffer, nReadOffset, nWriteOffset)

LEMMA TalkBegins == TalkInit => TalkType /\ Fifo!FifoInit
<1> SUFFICES ASSUME TalkInit PROVE TalkType /\ Fifo!FifoInit
  OBVIOUS
<1>1. TalkType
  BY CapIs DEF TalkInit, TalkType
<1>2. [i \in 1 .. nWriteOffset - nReadOffset |-> NewAoBuffer[nReadOffset + i - 1]] = <<>>
  BY DEF TalkInit
<1>3. (nWriteOffset = Cap) = FALSE
  BY CapIs DEF TalkInit
<1>4. szAudioTalk = 0 /\ (bStartPlayAlarmAudio \/ ~audiofd) \in BOOLEAN
  BY DEF TalkInit
<1> QED BY <1>1, <1>2, <1>3, <1>4 DEF Fifo!FifoInit, Fifo!Silence

\* Frames that are moved down when the end is reached, or are not.
LEMMA MoveDownIs ==
  ASSUME NEW b \in [0 .. Cap - 1 -> Nat], NEW w \in 0 .. Cap,
         TalkType, nReadOffset <= w, MoveDown(b, w)
  PROVE  /\ NewAoBuffer' \in [0 .. Cap - 1 -> Nat]
         /\ nReadOffset' \in Nat /\ nWriteOffset' \in nReadOffset' .. Cap
         /\ nWriteOffset' = Cap <=> w - nReadOffset = Cap
         /\ \/ queue' = Unread(b, nReadOffset, w)
            \/ /\ w - nReadOffset \in (Cap \div 2 + 1) .. Cap - 1
               /\ queue' \in Fifo!Jumbled(Unread(b, nReadOffset, w))
<1>1. nReadOffset \in Nat /\ w \in Nat /\ Cap \in Nat \ {0}
  BY CapIs DEF TalkType
<1>2. CASE w = Cap /\ nReadOffset > 0
  <2>1. /\ NewAoBuffer' \in Copies(b, nReadOffset, Cap - nReadOffset)
        /\ nWriteOffset' = Cap - nReadOffset /\ nReadOffset' = 0
    BY <1>2 DEF MoveDown
  <2>2. nReadOffset \in 1 .. Cap
    BY <1>1, <1>2
  <2>3. /\ NewAoBuffer' \in [0 .. Cap - 1 -> Nat]
        /\ \/ Unread(NewAoBuffer', 0, Cap - nReadOffset) = Unread(b, nReadOffset, Cap)
           \/ /\ Cap - nReadOffset \in (Cap \div 2 + 1) .. Cap - 1
              /\ Unread(NewAoBuffer', 0, Cap - nReadOffset)
                   \in Fifo!Jumbled(Unread(b, nReadOffset, Cap))
    BY <2>1, <2>2, Moved, Zenon
  <2>4. queue' = Unread(NewAoBuffer', 0, Cap - nReadOffset)
    BY <2>1, Zenon DEF queue
  <2>5. /\ nReadOffset' \in Nat /\ nWriteOffset' \in nReadOffset' .. Cap
        /\ nWriteOffset' # Cap /\ w - nReadOffset # Cap
    BY <1>1, <1>2, <2>1, <2>2
  <2> QED BY <1>2, <2>3, <2>4, <2>5, Zenon
<1>3. CASE ~(w = Cap /\ nReadOffset > 0)
  <2>1. NewAoBuffer' = b /\ nWriteOffset' = w /\ nReadOffset' = nReadOffset
    BY <1>3 DEF MoveDown
  <2>2. queue' = Unread(b, nReadOffset, w)
    BY <2>1, Zenon DEF queue
  <2>3. /\ nReadOffset' \in Nat /\ nWriteOffset' \in nReadOffset' .. Cap
        /\ (nWriteOffset' = Cap <=> w - nReadOffset = Cap)
    BY <1>1, <1>3, <2>1
  <2> QED BY <2>1, <2>2, <2>3, Zenon
<1> QED BY <1>2, <1>3

LEMMA HushedKept ==
  ASSUME UNCHANGED <<bStartPlayAlarmAudio, audiofd>>
  PROVE  (bStartPlayAlarmAudio \/ ~audiofd)' = (bStartPlayAlarmAudio \/ ~audiofd)
OBVIOUS

LEMMA QueueIs ==
  /\ queue = [i \in 1 .. nWriteOffset - nReadOffset |-> NewAoBuffer[nReadOffset + i - 1]]
  /\ queue' = [i \in 1 .. nWriteOffset - nReadOffset |-> NewAoBuffer[nReadOffset + i - 1]]'
BY DEF queue, Unread

LEMMA Sends ==
  ASSUME TalkType, HD_AudioOutSendDataNew
  PROVE  TalkType' /\ Fifo!FifoNext
<1>1. /\ nReadOffset \in Nat /\ nWriteOffset \in Nat /\ Cap \in Nat \ {0}
      /\ nReadOffset <= nWriteOffset /\ nWriteOffset <= Cap
      /\ NewAoBuffer \in [0 .. Cap - 1 -> Nat] /\ sent \in Nat
      /\ nWriteOffset \in nReadOffset .. Cap /\ nWriteOffset \in 0 .. Cap
  BY CapIs DEF TalkType
<1>2. sent' = sent + 1 /\ szAudioTalk' = szAudioTalk /\ sent + 1 \in 1 .. MaxTalk
  BY <1>1, TalkAssumption DEF HD_AudioOutSendDataNew
<1>h. (bStartPlayAlarmAudio \/ ~audiofd)' = (bStartPlayAlarmAudio \/ ~audiofd)
  BY HushedKept DEF HD_AudioOutSendDataNew
<1>3. Len(queue) = nWriteOffset - nReadOffset
  BY <1>1, Lengths, Zenon DEF queue
<1>5. CASE nWriteOffset < Cap
  <2>1. PICK f \in 1 .. MaxTalk, w \in nReadOffset .. Cap : f = sent + 1 /\ w = nWriteOffset + 1
    BY <1>1, <1>2, <1>5
  <2>2. /\ nWriteOffset \in nReadOffset .. Cap - 1 /\ f \in Nat /\ w \in 0 .. Cap
        /\ nReadOffset <= w
    BY <1>1, <1>5, <2>1, TalkAssumption
  <2>b. PICK b : b = [NewAoBuffer EXCEPT ![nWriteOffset] = f]
    OBVIOUS
  <2> DEFINE q == Unread(b, nReadOffset, w)
  <2>3. MoveDown(b, w)
    BY <1>5, <2>1, <2>b DEF HD_AudioOutSendDataNew
  <2>4. q = Append(queue, f) /\ b \in [0 .. Cap - 1 -> Nat]
    <3>1. /\ NewAoBuffer \in [0 .. Cap - 1 -> Nat] /\ nReadOffset \in Nat
          /\ nWriteOffset \in nReadOffset .. Cap - 1 /\ f \in Nat
          /\ w \in nReadOffset .. Cap /\ nWriteOffset = w - 1
      BY <1>1, <2>1, <2>2
    <3>2. Puts(NewAoBuffer, nWriteOffset, f, b)
      BY <2>b DEF Puts
    <3> HIDE DEF q
    <3>3. Adds(NewAoBuffer, nReadOffset, nWriteOffset, f, b, w)
      BY ONLY <3>1, <3>2, Longer, Zenon
    <3> QED BY <3>3 DEF queue, q, Adds
  <2>5. Len(q) = w - nReadOffset
    BY <1>1, <2>2, <2>4, Lengths, Zenon
  <2>6. /\ NewAoBuffer' \in [0 .. Cap - 1 -> Nat]
        /\ nReadOffset' \in Nat /\ nWriteOffset' \in nReadOffset' .. Cap
        /\ nWriteOffset' = Cap <=> w - nReadOffset = Cap
        /\ \/ queue' = q
           \/ /\ w - nReadOffset \in (Cap \div 2 + 1) .. Cap - 1
              /\ queue' \in Fifo!Jumbled(q)
    BY <2>2, <2>3, <2>4, MoveDownIs, Zenon
  <2> HIDE DEF q
  <2>7. Len(q) \in Nat
    BY <1>1, <2>5, <2>2
  <2>8. \/ queue' = q
        \/ Len(q) \in (Cap \div 2 + 1) .. Cap - 1 /\ queue' \in Fifo!Jumbled(q)
    BY <2>5, <2>6, Zenon
  <2>9. (nWriteOffset = Cap)' = (Len(q) = Cap)
    BY <2>5, <2>6
  <2>10. Len(queue) < Cap
    BY <1>1, <1>3, <1>5
  <2>11. Fifo!Send(f)
    BY <1>2, <1>h, <2>4, <2>8, <2>9, <2>10, QueueIs, Zenon DEF Fifo!Send, Fifo!Becomes
  <2>12. TalkType'
    BY <1>1, <1>2, <2>6 DEF TalkType
  <2> QED BY <2>11, <2>12, Zenon DEF Fifo!FifoNext
<1>6. CASE ~(nWriteOffset < Cap)
  <2>1. MoveDown(NewAoBuffer, nWriteOffset) /\ nWriteOffset = Cap
    BY <1>1, <1>6 DEF HD_AudioOutSendDataNew
  <2>2. /\ NewAoBuffer' \in [0 .. Cap - 1 -> Nat]
        /\ nReadOffset' \in Nat /\ nWriteOffset' \in nReadOffset' .. Cap
        /\ nWriteOffset' = Cap <=> nWriteOffset - nReadOffset = Cap
        /\ \/ queue' = queue
           \/ /\ nWriteOffset - nReadOffset \in (Cap \div 2 + 1) .. Cap - 1
              /\ queue' \in Fifo!Jumbled(queue)
    BY <1>1, <2>1, MoveDownIs, Zenon DEF queue
  <2>3. \/ queue' = queue
        \/ Len(queue) \in (Cap \div 2 + 1) .. Cap - 1 /\ queue' \in Fifo!Jumbled(queue)
    BY <1>3, <2>2, Zenon
  <2>4. (nWriteOffset = Cap)' = (Len(queue) = Cap)
    BY <1>3, <2>2
  <2>f. PICK f \in 1 .. MaxTalk : f = sent + 1
    BY <1>2
  <2>5. Fifo!Send(f)
    BY <1>2, <1>h, <2>1, <2>3, <2>4, <2>f, QueueIs, Zenon DEF Fifo!Send, Fifo!Becomes
  <2>6. TalkType'
    BY <1>1, <1>2, <2>2 DEF TalkType
  <2> QED BY <1>2, <2>5, <2>6, Zenon DEF Fifo!FifoNext
<1> QED BY <1>5, <1>6

LEMMA Gets ==
  ASSUME TalkType, HD_AudioOutGetDataNew
  PROVE  TalkType' /\ Fifo!FifoNext
<1>1. /\ nReadOffset \in Nat /\ nWriteOffset \in Nat /\ Cap \in Nat \ {0}
      /\ nReadOffset <= nWriteOffset /\ nWriteOffset <= Cap
      /\ NewAoBuffer \in [0 .. Cap - 1 -> Nat] /\ sent \in Nat
      /\ UNCHANGED <<NewAoBuffer, nWriteOffset, sent>>
  BY CapIs DEF TalkType, HD_AudioOutGetDataNew
<1>h. (bStartPlayAlarmAudio \/ ~audiofd)' = (bStartPlayAlarmAudio \/ ~audiofd)
  BY HushedKept DEF HD_AudioOutGetDataNew
<1>2. CASE nReadOffset + 1 <= nWriteOffset
  <2>1. szAudioTalk' = NewAoBuffer[nReadOffset] /\ nReadOffset' = nReadOffset + 1
    BY <1>2 DEF HD_AudioOutGetDataNew
  <2>2. nWriteOffset \in nReadOffset + 1 .. Cap
    BY <1>1, <1>2
  <2>3. /\ queue # <<>> /\ Head(queue) = NewAoBuffer[nReadOffset]
        /\ Tail(queue) = Unread(NewAoBuffer, nReadOffset + 1, nWriteOffset)
    BY <1>1, <2>2, Shorter, Zenon DEF queue
  <2>4. queue' = Tail(queue)
    BY <1>1, <2>1, <2>3, Zenon DEF queue
  <2>5. Fifo!PutOut
    BY <1>1, <1>h, <2>1, <2>3, <2>4, QueueIs, Zenon DEF Fifo!PutOut
  <2>6. TalkType'
    BY <1>1, <1>2, <2>1 DEF TalkType
  <2> QED BY <2>5, <2>6 DEF Fifo!FifoNext
<1>3. CASE ~(nReadOffset + 1 <= nWriteOffset)
  <2>1. szAudioTalk' = 0 /\ nReadOffset' = nReadOffset
    BY <1>3 DEF HD_AudioOutGetDataNew
  <2>2. nWriteOffset - nReadOffset = 0
    BY <1>1, <1>3
  <2>3. queue = <<>>
    BY <2>2 DEF queue, Unread
  <2>4. queue' = queue
    BY <1>1, <2>1, Zenon DEF queue
  <2>5. Fifo!PutOutSilence
    BY <1>1, <1>h, <2>1, <2>3, <2>4, QueueIs, Zenon DEF Fifo!PutOutSilence, Fifo!Silence
  <2>6. TalkType'
    BY <1>1, <2>1 DEF TalkType
  <2> QED BY <2>5, <2>6 DEF Fifo!FifoNext
<1> QED BY <1>2, <1>3

\* Whatever else happens stutters, or hushes the loudspeaker, or lets it be heard again.
LEMMA Others ==
  ASSUME TalkType, UNCHANGED <<NewAoBuffer, talkOffsets, szAudioTalk, sent>>
  PROVE  TalkType' /\ [Fifo!FifoNext]_(Fifo!fifoVars)
<1>1. TalkType'
  BY DEF TalkType, talkOffsets
<1>2. /\ [i \in 1 .. nWriteOffset - nReadOffset |-> NewAoBuffer[nReadOffset + i - 1]]'
           = [i \in 1 .. nWriteOffset - nReadOffset |-> NewAoBuffer[nReadOffset + i - 1]]
      /\ (nWriteOffset = Cap)' = (nWriteOffset = Cap)
      /\ szAudioTalk' = szAudioTalk
  BY DEF talkOffsets
<1>3. CASE (bStartPlayAlarmAudio \/ ~audiofd)' = (bStartPlayAlarmAudio \/ ~audiofd)
  BY <1>1, <1>2, <1>3, Zenon DEF Fifo!fifoVars
<1>4. CASE (bStartPlayAlarmAudio \/ ~audiofd)' = ~(bStartPlayAlarmAudio \/ ~audiofd)
  BY <1>1, <1>2, <1>4, Zenon DEF Fifo!Hush, Fifo!FifoNext
<1> QED BY <1>3, <1>4

LEMMA TalkSteps ==
  ASSUME TalkType, [TalkNext]_talkVars
  PROVE  TalkType' /\ [Fifo!FifoNext]_(Fifo!fifoVars)
<1>1. CASE HD_AudioOutSendDataNew
  BY <1>1, Sends
<1>2. CASE TalkWakes
  BY <1>2, Others DEF TalkWakes
<1>3. CASE HD_AudioOutGetDataNew
  BY <1>3, Gets
<1>4. CASE AudioInRelease
  BY <1>4, Others DEF AudioInRelease
<1>5. ASSUME NEW b \in BOOLEAN, PromptPlays(b)
      PROVE  TalkType' /\ [Fifo!FifoNext]_(Fifo!fifoVars)
  BY <1>5, Others DEF PromptPlays
<1>6. CASE UNCHANGED talkVars
  BY <1>6, Others DEF talkVars
<1> QED BY <1>1, <1>2, <1>3, <1>4, <1>5, <1>6 DEF TalkNext

\* But for what is put out in the end (TalkIsFifo), the talk's buffer is the queue of
\* TalkFifo, for every size: no frame is heard twice, out of turn or after a later one,
\* unless memcpy has jumbled a queue that was more than half full.
THEOREM TalkImplementsFifo == TalkSpec => Fifo!FifoInit /\ [][Fifo!FifoNext]_(Fifo!fifoVars)
<1>1. TalkInit => TalkType /\ Fifo!FifoInit
  BY TalkBegins
<1>2. TalkType /\ [TalkNext]_talkVars => TalkType' /\ [Fifo!FifoNext]_(Fifo!fifoVars)
  BY TalkSteps
<1> QED BY <1>1, <1>2, PTL DEF TalkSpec
=============================================================================

------------------------------ MODULE TalkFifo ------------------------------
(***************************************************************************)
(* What the queue of the talk promises those who speak to the visitor: the *)
(* frames come out of the loudspeaker in the order they came in, and one   *)
(* is lost only if the queue was full when the one before it had come in.  *)
(* A queue that is more than half full, and has made room by moving its    *)
(* frames down, may have jumbled them: it moves them with memcpy, which    *)
(* promises nothing for areas that overlap.                                *)
(*                                                                         *)
(* The loudspeaker may be hushed at any time and for any time.  While it   *)
(* is, nothing need come out, though it still may.                         *)
(***************************************************************************)
EXTENDS Sequences, Integers

CONSTANTS Frames,  \* the frames that may be sent
          Cap      \* the frames that fit into the queue

Silence == 0       \* what comes out when the queue is empty

VARIABLES queue,   \* frames still to be put out
          full,    \* the queue was full when the last frame had come
          out,     \* the last frame that was put out
          hushed   \* a prompt has the loudspeaker, or it is not open

fifoVars == <<queue, full, out, hushed>>

FifoInit == queue = <<>> /\ full = FALSE /\ out = Silence /\ hushed \in BOOLEAN

Jumbled(q) == [1 .. Len(q) -> {q[i] : i \in 1 .. Len(q)}]

Becomes(q) ==
  /\ \/ queue' = q
     \/ Len(q) \in (Cap \div 2 + 1) .. Cap - 1 /\ queue' \in Jumbled(q)
  /\ full' = (Len(q) = Cap)

Send(f) ==
  /\ \/ Len(queue) < Cap /\ Becomes(Append(queue, f))
     \/ full /\ Becomes(queue)
  /\ UNCHANGED <<out, hushed>>

PutOut ==
  /\ queue # <<>>
  /\ out' = Head(queue) /\ queue' = Tail(queue)
  /\ UNCHANGED <<full, hushed>>

PutOutSilence == queue = <<>> /\ out' = Silence /\ UNCHANGED <<queue, full, hushed>>

Hush == hushed' = ~hushed /\ UNCHANGED <<queue, full, out>>

FifoNext == PutOut \/ PutOutSilence \/ Hush \/ \E f \in Frames : Send(f)

\* Unless it is hushed for ever, or again and again, what was queued comes out in the end.
FifoSpec == FifoInit /\ [][FifoNext]_fifoVars /\ WF_fifoVars(~hushed /\ PutOut)
=============================================================================

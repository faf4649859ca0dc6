----------------------------- MODULE TalkQueue ------------------------------
(***************************************************************************)
(* The talk of a client on its way to the loudspeaker: NewAoBuffer, which  *)
(* HD_AudioOutSendDataNew fills and BaAudioTalkProc empties (audio.c).     *)
(*                                                                         *)
(* The buffer is one array with a read and a write offset; when it is      *)
(* written to its end, what is left to read is moved to its beginning.     *)
(* The unit is a frame: p2ptalkrcv always sends MAX_TALKLEN_DATA bytes,    *)
(* which decode to WAV_FILE_FRAME_SIZE, as much as is put out at a time.   *)
(* Prompts (module Prompts) silence the talk while they play.              *)
(***************************************************************************)
EXTENDS Integers, Sequences

CONSTANTS Cap,        \* AUDIOOUT_BUF / WAV_FILE_FRAME_SIZE
          MaxTalk,    \* bound: frames sent in a behaviour
          MaxPrompts  \* bound: prompts that play in a behaviour

ASSUME TalkAssumption == Cap \in Nat \ {0} /\ MaxTalk \in Nat /\ MaxPrompts \in Nat

VARIABLES
  NewAoBuffer, nReadOffset, nWriteOffset,
  szAudioTalk,  \* the frame the loudspeaker is given: 0 silence, else its number
  talking,      \* BaAudioTalkProc has found that no prompt plays
  bStartPlayAlarmAudio, \* a prompt plays, or has left the flag set
  audiofd,      \* the loudspeaker is open
  sent, prompts

talkOffsets == <<nReadOffset, nWriteOffset>>
talkVars == <<NewAoBuffer, talkOffsets, szAudioTalk, talking, bStartPlayAlarmAudio, audiofd,
              sent, prompts>>

\* AudioCodecInit may have failed to open the loudspeaker.
TalkInit ==
  /\ NewAoBuffer = [i \in 0 .. Cap - 1 |-> 0]
  /\ nReadOffset = 0 /\ nWriteOffset = 0 /\ szAudioTalk = 0
  /\ talking = FALSE /\ bStartPlayAlarmAudio = FALSE /\ audiofd \in BOOLEAN
  /\ sent = 0 /\ prompts = 0
-----------------------------------------------------------------------------
(* Sending, by the talk thread or a stream thread of netcmd.c, under aolock *)

\* memcpy(b, b + from, n) forwards, as for areas that do not overlap, or backwards, one
\* of the orders it may use.
Forwards(b, from, n) == [i \in DOMAIN b |-> IF i < n THEN b[from + i] ELSE b[i]]
Backwards(b, from, n) ==
  [i \in DOMAIN b |-> IF i < n THEN b[from + i + ((n - 1 - i) \div from) * from] ELSE b[i]]
Copies(b, from, n) ==
  {Forwards(b, from, n)} \cup (IF n > from THEN {Backwards(b, from, n)} ELSE {})

\* Mutant: the read offset is not reset.
MoveDownStale(b, w) ==
  IF w = Cap /\ nReadOffset > 0
  THEN /\ NewAoBuffer' \in Copies(b, nReadOffset, w - nReadOffset)
       /\ nWriteOffset' = w - nReadOffset /\ UNCHANGED nReadOffset
  ELSE NewAoBuffer' = b /\ nWriteOffset' = w /\ UNCHANGED nReadOffset

\* When the end is reached, what has not been read is moved down.
MoveDown(b, w) ==
  IF w = Cap /\ nReadOffset > 0
  THEN /\ NewAoBuffer' \in Copies(b, nReadOffset, w - nReadOffset)
       /\ nWriteOffset' = w - nReadOffset /\ nReadOffset' = 0
  ELSE NewAoBuffer' = b /\ nWriteOffset' = w /\ UNCHANGED nReadOffset

\* A frame that finds the buffer written to its end is dropped before room is made.
HD_AudioOutSendDataNew ==
  /\ sent < MaxTalk /\ sent' = sent + 1
  /\ IF nWriteOffset < Cap
     THEN MoveDown([NewAoBuffer EXCEPT ![nWriteOffset] = sent + 1], nWriteOffset + 1)
     ELSE MoveDown(NewAoBuffer, nWriteOffset)
  /\ UNCHANGED <<szAudioTalk, talking, bStartPlayAlarmAudio, audiofd, prompts>>
-----------------------------------------------------------------------------
(* BaAudioTalkProc *)

\* Without the loudspeaker the thread ends; nothing opens it again.
TalkWakes ==
  /\ ~talking /\ audiofd /\ ~bStartPlayAlarmAudio
  /\ talking' = TRUE
  /\ UNCHANGED <<NewAoBuffer, talkOffsets, szAudioTalk, bStartPlayAlarmAudio, audiofd, sent,
                 prompts>>

HD_AudioOutGetDataNew ==
  /\ talking /\ talking' = FALSE
  /\ IF nReadOffset + 1 <= nWriteOffset
     THEN szAudioTalk' = NewAoBuffer[nReadOffset] /\ nReadOffset' = nReadOffset + 1
     ELSE szAudioTalk' = 0 /\ UNCHANGED nReadOffset
  /\ UNCHANGED <<NewAoBuffer, nWriteOffset, bStartPlayAlarmAudio, audiofd, sent, prompts>>

\* A prompt begins, or ends; it need not end.
PromptPlays(b) ==
  /\ bStartPlayAlarmAudio # b /\ bStartPlayAlarmAudio' = b
  /\ IF b THEN prompts < MaxPrompts /\ prompts' = prompts + 1 ELSE UNCHANGED prompts
  /\ UNCHANGED <<NewAoBuffer, talkOffsets, szAudioTalk, talking, audiofd, sent>>

\* For a restart (SystemBoot).
AudioInRelease ==
  /\ audiofd /\ audiofd' = FALSE
  /\ UNCHANGED <<NewAoBuffer, talkOffsets, szAudioTalk, talking, bStartPlayAlarmAudio, sent,
                 prompts>>

TalkNext ==
  \/ HD_AudioOutSendDataNew
  \/ TalkWakes \/ HD_AudioOutGetDataNew
  \/ AudioInRelease
  \/ \E b \in BOOLEAN : PromptPlays(b)

TalkFairness == WF_talkVars(TalkWakes \/ HD_AudioOutGetDataNew)
TalkSpec == TalkInit /\ [][TalkNext]_talkVars /\ TalkFairness
-----------------------------------------------------------------------------
Fifo == INSTANCE TalkFifo WITH
  Frames <- 1 .. MaxTalk,
  queue <- [i \in 1 .. nWriteOffset - nReadOffset |-> NewAoBuffer[nReadOffset + i - 1]],
  full <- nWriteOffset = Cap,
  out <- szAudioTalk,
  hushed <- bStartPlayAlarmAudio \/ ~audiofd

\* HD_AudioOutSendDataNew and HD_AudioOutGetDataNew are the queue of TalkFifo: the visitor
\* hears the frames in order, none twice, all of them unless the buffer was full, and in the
\* end also those that were queued while a prompt played - unless its flag stays set for ever
\* (HeardOrStale of Prompts), prompts come again and again, or the loudspeaker is not open.
TalkIsFifo == Fifo!FifoSpec
=============================================================================

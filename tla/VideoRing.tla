----------------------------- MODULE VideoRing ------------------------------
(***************************************************************************)
(* The way of a video frame from the encoder to the viewers: encbufm,      *)
(* encbufj and userindp2p (vbuf/src/vbuf.c, mjpgbuf.c), and                *)
(* p2pmediaThreadProc (p2p/p2p.c).  The sensor library is chosen when the  *)
(* program is built: with "3861", which the Makefile names, a viewer is    *)
(* sent the latest JPEG picture; with the others, here "8433", H.264.      *)
(*                                                                         *)
(* The encoder's thread writes H.264 frames one after the other into one   *)
(* half of the buffer; a key frame, or one that does not fit, begins the   *)
(* other half and flags every viewer to go on there.  Each frame posts     *)
(* p2psem; the media thread then walks the slots and sends a viewer the    *)
(* frame at its own offset, if one has come since it last did.  A viewer   *)
(* falls behind when its channel is full, and catches up at the next half. *)
(*                                                                         *)
(* The buffer is as many units as its halves need; a frame is its number   *)
(* and its length, head included.  The slots are those that userindp2p has *)
(* an entry for.  The encoder and the client's channel are external.       *)
(***************************************************************************)
EXTENDS Integers

CONSTANTS Slots,     \* the number of slots, 0 .. Slots - 1
          Half,      \* EBUF_MAX_MLEN / 2
          Lens,      \* the lengths of frames
          MaxLen,    \* MAX_FRAME_LENGTH, MAX_JPEG_BUFFER_SIZE: frames as long as this
                     \* are not sent
          SnapEvery, \* 25: of so many frames a viewer of snapshots is sent one
          MaxFrames, \* bound: frames in a behaviour
          MaxWatches \* bound: watches in a behaviour

Viewers == 0 .. Slots - 1

\* No frame of the encoder is longer than a half.
ASSUME VideoAssumption ==
  /\ Slots \in Nat \ {0} /\ Half \in Nat \ {0}
  /\ Lens \subseteq 1 .. Half /\ MaxLen \in Nat /\ SnapEvery \in Nat \ {0}
  /\ MaxFrames \in Nat /\ MaxWatches \in Nat

VARIABLES
  sensor,    \* "3861" or "8433"
  jpeg,      \* the frame at encbufj.prelen
  bSnapshotVideo, nSnapshotVideo,
  ring,      \* encbufm.pbuf: the frame that starts at each unit
  totallen, prelen, firstflag, \* of encbufm
  flag, offset, \* userindp2p[v]
  p2pprelen,
  liveflag,  \* of p2pstream[v], whose socket is open
  p2psem,
  epc,       \* encoder: "push" a frame, or "note" it
  mpc, at,   \* media thread: "wait", or what it does next with slot at
  frames, watches,
  head,      \* history: the frame that began the half being written
  got,       \* history: the last frame that was copied for the slot's session
  begun,     \* history: a frame of this half was copied for the slot
  seen,      \* history: the last JPEG frame the media thread looked at for the slot
  skipped    \* history: the channel was full, failed, or was not watched, when the media
             \* thread last came, or the frame was none of the snapshots

encbufm == <<ring, totallen, prelen, firstflag>>
userindp2p == <<flag, offset>>
media == <<mpc, at>>
videoHistory == <<head, got, begun, skipped>>
snapshot == <<bSnapshotVideo, nSnapshotVideo>>
jpegVars == <<sensor, jpeg, snapshot, seen>>
videoVars == <<jpegVars, encbufm, userindp2p, p2pprelen, liveflag, p2psem, epc, media, frames,
               watches, videoHistory>>

\* What is not the start of a frame reads as a frame that was never pushed.
NoFrame == [no |-> 0, len |-> 1]

VideoInit ==
  /\ sensor \in {"3861", "8433"} /\ jpeg = NoFrame
  /\ bSnapshotVideo = FALSE /\ nSnapshotVideo = 0 /\ seen = [v \in Viewers |-> 0]
  /\ ring = [u \in 0 .. 2 * Half - 1 |-> NoFrame]
  /\ totallen = 0 /\ prelen = 0 /\ firstflag = FALSE
  /\ flag = [v \in Viewers |-> 0] /\ offset = [v \in Viewers |-> 0]
  /\ p2pprelen = [v \in Viewers |-> 0]
  /\ liveflag = [v \in Viewers |-> FALSE]
  /\ p2psem = 0 /\ epc = "push" /\ mpc = "wait" /\ at = 0
  /\ frames = 0 /\ watches = 0 /\ head = 0
  /\ got = [v \in Viewers |-> 0] /\ begun = [v \in Viewers |-> FALSE]
  /\ skipped = [v \in Viewers |-> FALSE]
-----------------------------------------------------------------------------
(* The encoder's thread *)

\* Mutant: the viewers are sent to the half that was written before.
SetMainStreamFlagSwapped(f) == flag' = [v \in Viewers |-> 3 - f]

\* The half to go on in: 1 the first, 2 the second.
SetMainStreamFlag(f) == flag' = [v \in Viewers |-> f]

\* A frame of this length, or a key frame, turns to the other half.
Turns(len, key) ==
  key \/ totallen + len > IF firstflag THEN 2 * Half ELSE Half

Store(no, len, to) ==
  /\ ring' = [u \in DOMAIN ring |->
                IF u = to THEN [no |-> no, len |-> len]
                ELSE IF u \in to + 1 .. to + len - 1 THEN NoFrame ELSE ring[u]]
  /\ prelen' = to /\ totallen' = to + len

PushVMencData(len, key) ==
  /\ sensor = "8433" /\ epc = "push" /\ frames < MaxFrames
  /\ IF Turns(len, key)
     THEN /\ Store(frames + 1, len, IF firstflag THEN 0 ELSE Half)
          /\ firstflag' = ~firstflag
          /\ SetMainStreamFlag(IF firstflag THEN 1 ELSE 2)
          /\ head' = frames + 1 /\ begun' = [v \in Viewers |-> FALSE]
     ELSE /\ Store(frames + 1, len, totallen)
          /\ UNCHANGED <<firstflag, flag, begun>>
          /\ head' = IF frames = 0 THEN 1 ELSE head
  /\ frames' = frames + 1 /\ epc' = "note"
  /\ UNCHANGED <<jpegVars, offset, p2pprelen, liveflag, p2psem, media, watches, got, skipped>>

\* Under mjpglock: the picture goes behind the one before, or to the buffer's beginning.
PushVJencData(len) ==
  /\ sensor = "3861" /\ epc = "push" /\ frames < MaxFrames
  /\ jpeg' = [no |-> frames + 1, len |-> len]
  /\ frames' = frames + 1 /\ epc' = "note"
  /\ UNCHANGED <<sensor, snapshot, seen, encbufm, userindp2p, p2pprelen, liveflag, p2psem,
                 media, watches, videoHistory>>

\* Mutant: only a media thread that waits is told.
NoteWaiting ==
  /\ epc = "note"
  /\ p2psem' = IF mpc = "wait" THEN 1 ELSE p2psem
  /\ epc' = "push"
  /\ UNCHANGED <<jpegVars, encbufm, userindp2p, p2pprelen, liveflag, media, frames,
                 watches, videoHistory>>

NoteMainStreamSend ==
  /\ epc = "note"
  /\ p2psem' = p2psem + 1
  /\ epc' = "push"
  /\ UNCHANGED <<jpegVars, encbufm, userindp2p, p2pprelen, liveflag, media, frames,
                 watches, videoHistory>>
-----------------------------------------------------------------------------
(* The media thread *)

\* A frame that is none of the snapshots.
NoSnapshot == sensor = "3861" /\ bSnapshotVideo /\ nSnapshotVideo + 1 # SnapEvery

WaitP2pSem ==
  /\ mpc = "wait" /\ p2psem > 0 /\ ~NoSnapshot
  /\ p2psem' = p2psem - 1
  /\ mpc' = "check" /\ at' = 0
  /\ nSnapshotVideo' = IF bSnapshotVideo THEN 0 ELSE nSnapshotVideo
  /\ UNCHANGED <<sensor, jpeg, bSnapshotVideo, seen, encbufm, userindp2p, p2pprelen, liveflag,
                 epc, frames, watches, videoHistory>>

SkipFrame ==
  /\ mpc = "wait" /\ p2psem > 0 /\ NoSnapshot
  /\ p2psem' = p2psem - 1
  /\ nSnapshotVideo' = nSnapshotVideo + 1
  /\ skipped' = [v \in Viewers |-> TRUE]
  /\ UNCHANGED <<sensor, jpeg, bSnapshotVideo, seen, encbufm, userindp2p, p2pprelen, liveflag,
                 epc, media, frames, watches, head, got, begun>>

NextSlot ==
  IF at + 1 \in Viewers THEN mpc' = "check" /\ at' = at + 1 ELSE mpc' = "wait" /\ at' = 0

NotLive ==
  /\ mpc = "check" /\ ~liveflag[at]
  /\ skipped' = [skipped EXCEPT ![at] = TRUE]
  /\ NextSlot
  /\ UNCHANGED <<jpegVars, encbufm, userindp2p, p2pprelen, liveflag, p2psem, epc, frames,
                 watches,
                 head, got, begun>>

\* PPPP_Check_Buffer finds 64 KByte still to be sent.
ChannelFull ==
  /\ mpc = "check" /\ liveflag[at]
  /\ skipped' = [skipped EXCEPT ![at] = TRUE]
  /\ NextSlot
  /\ UNCHANGED <<jpegVars, encbufm, userindp2p, p2pprelen, liveflag, p2psem, epc, frames,
                 watches,
                 head, got, begun>>

HasRoom ==
  /\ mpc = "check" /\ liveflag[at]
  /\ skipped' = [skipped EXCEPT ![at] = FALSE]
  /\ mpc' = "copy" /\ UNCHANGED at
  /\ UNCHANGED <<jpegVars, encbufm, userindp2p, p2pprelen, liveflag, p2psem, epc, frames,
                 watches,
                 head, got, begun>>

\* The check or the write fails, and PopP2pSocket closes the session.
SendFails ==
  /\ mpc \in {"check", "write"} /\ liveflag[at]
  /\ liveflag' = [liveflag EXCEPT ![at] = FALSE]
  /\ skipped' = [skipped EXCEPT ![at] = TRUE]
  /\ NextSlot
  /\ UNCHANGED <<jpegVars, encbufm, userindp2p, p2pprelen, p2psem, epc, frames, watches,
                 head, got, begun>>

\* Where a viewer is: at the beginning of a half it was flagged for, or at its offset.
Place(v) == CASE flag[v] = 1 -> 0 [] flag[v] = 2 -> Half [] OTHER -> offset[v]
GoOn(v, to) ==
  /\ offset' = [offset EXCEPT ![v] = to]
  /\ flag' = [flag EXCEPT ![v] = 0]

FrameAt(u) == IF u \in DOMAIN ring THEN ring[u] ELSE NoFrame

\* No frame has come since the viewer was last sent one, as far as prelen tells.
NothingNew ==
  /\ sensor = "8433" /\ mpc = "copy" /\ p2pprelen[at] = prelen
  /\ GoOn(at, Place(at))
  /\ NextSlot
  /\ UNCHANGED <<jpegVars, encbufm, p2pprelen, liveflag, p2psem, epc, frames, watches,
                 videoHistory>>

Seen(v) == p2pprelen' = [p2pprelen EXCEPT ![v] = prelen]

\* The viewer stays at a frame that is too long for sendbuf until the next half.
TooLong ==
  /\ sensor = "8433" /\ mpc = "copy" /\ p2pprelen[at] # prelen
  /\ FrameAt(Place(at)).len >= MaxLen
  /\ Seen(at) /\ GoOn(at, Place(at))
  /\ NextSlot
  /\ UNCHANGED <<jpegVars, encbufm, liveflag, p2psem, epc, frames, watches, videoHistory>>

CopyFrame ==
  /\ sensor = "8433" /\ mpc = "copy" /\ p2pprelen[at] # prelen
  /\ LET f == FrameAt(Place(at)) IN
       /\ f.len < MaxLen
       /\ GoOn(at, Place(at) + f.len)
       /\ got' = [got EXCEPT ![at] = f.no]
  /\ Seen(at)
  /\ begun' = [begun EXCEPT ![at] = TRUE]
  /\ mpc' = "write" /\ UNCHANGED at
  /\ UNCHANGED <<jpegVars, encbufm, liveflag, p2psem, epc, frames, watches, head, skipped>>

\* p2pmediasend: the latest picture, whether or not it has been sent before.
LooksAtJpeg == seen' = [seen EXCEPT ![at] = jpeg.no]

JpegTooLong ==
  /\ sensor = "3861" /\ mpc = "copy" /\ jpeg.len >= MaxLen
  /\ LooksAtJpeg
  /\ NextSlot
  /\ UNCHANGED <<sensor, jpeg, snapshot, encbufm, userindp2p, p2pprelen, liveflag, p2psem, epc,
                 frames, watches, videoHistory>>

CopyJpeg ==
  /\ sensor = "3861" /\ mpc = "copy" /\ jpeg.len < MaxLen
  /\ LooksAtJpeg
  /\ got' = [got EXCEPT ![at] = jpeg.no]
  /\ mpc' = "write" /\ UNCHANGED at
  /\ UNCHANGED <<sensor, jpeg, snapshot, encbufm, userindp2p, p2pprelen, liveflag, p2psem, epc,
                 frames, watches, head, begun, skipped>>

\* PPPP_WriteEx to the session that the slot has by now, if it has one.
WriteFrame ==
  /\ mpc = "write"
  /\ NextSlot
  /\ UNCHANGED <<jpegVars, encbufm, userindp2p, p2pprelen, liveflag, p2psem, epc, frames,
                 watches,
                 videoHistory>>

MediaStep ==
  \/ WaitP2pSem \/ SkipFrame \/ NotLive \/ ChannelFull \/ HasRoom \/ SendFails
  \/ NothingNew \/ TooLong \/ CopyFrame \/ JpegTooLong \/ CopyJpeg \/ WriteFrame
-----------------------------------------------------------------------------
(* The sessions *)

\* The session of slot v, or a new one there, asks for video.
Watch(v) ==
  /\ ~liveflag[v] /\ watches < MaxWatches
  /\ liveflag' = [liveflag EXCEPT ![v] = TRUE]
  /\ watches' = watches + 1
  /\ \/ got' = [got EXCEPT ![v] = 0]
     \/ UNCHANGED got
  /\ UNCHANGED <<jpegVars, encbufm, userindp2p, p2pprelen, p2psem, epc, media, frames, head,
                 begun, skipped>>

\* It asks for no more, leaves, or is not watching any more.
Unwatch(v) ==
  /\ liveflag[v]
  /\ liveflag' = [liveflag EXCEPT ![v] = FALSE]
  /\ UNCHANGED <<jpegVars, encbufm, userindp2p, p2pprelen, p2psem, epc, media, frames, watches,
                 videoHistory>>

\* A camera_control asks for snapshots, or for video again.
SetSnapshotVideo(b) ==
  /\ sensor = "3861"
  /\ bSnapshotVideo' = b /\ nSnapshotVideo' = 0
  /\ UNCHANGED <<sensor, jpeg, seen, encbufm, userindp2p, p2pprelen, liveflag, p2psem, epc,
                 media, frames, watches, videoHistory>>

VideoNext ==
  \/ \E len \in Lens, key \in BOOLEAN : PushVMencData(len, key)
  \/ \E len \in Lens : PushVJencData(len)
  \/ \E b \in BOOLEAN : SetSnapshotVideo(b)
  \/ NoteMainStreamSend
  \/ MediaStep
  \/ \E v \in Viewers : Watch(v) \/ Unwatch(v)

VideoFairness == WF_videoVars(NoteMainStreamSend) /\ WF_videoVars(MediaStep)
VideoSpec == VideoInit /\ [][VideoNext]_videoVars /\ VideoFairness
-----------------------------------------------------------------------------
\* An H.264 frame follows the one the viewer was sent before, or begins the half being
\* written: however far behind the media thread is, and whatever it skips, no viewer is
\* sent a frame twice, one without those it is coded from, or bytes that are no frame.  A
\* new session that takes over a slot within a half starts where the one before stopped.
FramesInOrder ==
  [][\A v \in Viewers : CopyFrame /\ at = v =>
       LET n == got'[v] IN
         /\ n > got[v]
         /\ n = got[v] + 1 \/ n = head \/ (got[v] = 0 /\ begun[v])]_videoVars

Behind(v) == IF sensor = "3861" THEN seen[v] # jpeg.no ELSE p2pprelen[v] # prelen

\* A frame that is pushed makes the media thread come to every viewer once more, until it
\* has seen the frame or one after it, unless the channel is full or fails, the frame is
\* none of the snapshots, or the viewer began to watch after the thread had been there.
EveryFrameNoticed ==
  \A v \in Viewers : (liveflag[v] /\ Behind(v)) ~> (~liveflag[v] \/ ~Behind(v) \/ skipped[v])
=============================================================================

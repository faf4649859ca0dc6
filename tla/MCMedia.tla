------------------------------ MODULE MCMedia -------------------------------
(***************************************************************************)
(* Model checking of VideoRing and TalkQueue.  They share nothing: each    *)
(* behaviour is one of the one or of the other.                            *)
(***************************************************************************)
EXTENDS VideoRing, TalkQueue

VARIABLE part  \* "video" or "talk"

\* What a part does not use is not chosen.
MCInit ==
  /\ VideoInit /\ TalkInit /\ part \in {"video", "talk"}
  /\ part = "video" => audiofd
  /\ part = "talk" => sensor = "3861"

MCNext ==
  /\ UNCHANGED part
  /\ \/ part = "video" /\ VideoNext /\ UNCHANGED talkVars
     \/ part = "talk" /\ TalkNext /\ UNCHANGED videoVars

MCVars == <<videoVars, talkVars, part>>

MCSpec ==
  /\ MCInit /\ [][MCNext]_MCVars
  /\ part = "video" => VideoFairness
  /\ part = "talk" => TalkFairness
=============================================================================

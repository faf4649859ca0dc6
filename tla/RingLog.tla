------------------------------ MODULE RingLog -------------------------------
(***************************************************************************)
(* What the bell log promises: the N newest rings in order, every change   *)
(* of them written to the file before the next one is made.  The file is   *)
(* thus one change behind at most, and a power failure takes back that     *)
(* change and nothing else - unless it strikes while the file is being     *)
(* written, which may cost some or all of the entries.  Two operations at  *)
(* once spoil the log, and then nothing is promised.                       *)
(***************************************************************************)
EXTENDS Naturals, Sequences

CONSTANTS N, Ids, Blank

VARIABLES
  log, saved,
  phase,  \* what the file holds: the log, the log before its last change, or part of it
  spoiled

Statuses == {"timeout", "agree", "alarm"}

Init == log = <<>> /\ saved = <<>> /\ phase = "saved" /\ spoiled = FALSE

\* Nothing is changed until the change before has been saved.
Change(new) ==
  /\ phase = "saved"
  /\ log' = new
  /\ phase' = "changed"
  /\ UNCHANGED <<saved, spoiled>>

Newest(s) == IF Len(s) > N THEN Tail(s) ELSE s

Ring(id) == Change(Newest(Append(log, [id |-> id, status |-> "timeout"])))

\* The newest ring of this name is told of.
Note(id, status) ==
  \E i \in DOMAIN log :
    /\ log[i].id = id /\ \A j \in DOMAIN log : log[j].id = id => j <= i
    /\ Change([log EXCEPT ![i].status = status])

\* The newest ring is deleted.
Retract == log # <<>> /\ Change(SubSeq(log, 1, Len(log) - 1))

Clear == Change(<<>>)

BeginSave ==
  /\ phase = "changed"
  /\ phase' = "writing"
  /\ UNCHANGED <<log, saved, spoiled>>

EndSave ==
  /\ phase = "writing"
  /\ phase' = "saved"
  /\ saved' = log
  /\ UNCHANGED <<log, spoiled>>

Damaged(s) == {[i \in DOMAIN s |-> IF i <= k THEN s[i] ELSE Blank] : k \in 0 .. Len(s)}

\* The log is what the file holds from now on.
PowerFails ==
  /\ \/ phase # "writing" /\ saved' = saved
     \/ phase = "writing" /\ saved' \in {<<>>} \cup Damaged(log)
  /\ log' = saved'
  /\ phase' = "saved"
  /\ UNCHANGED spoiled

Next ==
  \/ \E id \in Ids : Ring(id) \/ \E status \in Statuses : Note(id, status)
  \/ Retract \/ Clear \/ BeginSave \/ EndSave \/ PowerFails
  \/ spoiled'

Spec == Init /\ [][Next]_<<log, saved, phase, spoiled>>
=============================================================================

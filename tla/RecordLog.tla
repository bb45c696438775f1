----------------------------- MODULE RecordLog -----------------------------
(***************************************************************************)
(* What the logger of golang_common/log promises its callers: the records  *)
(* it accepted reach the files of their level, in the order they were      *)
(* accepted, each of them once; all of them are there when Close has       *)
(* returned.  Only a process that is killed loses records, and only the    *)
(* last ones of a file.                                                    *)
(***************************************************************************)
EXTENDS Naturals, Sequences, SequencesExt

CONSTANTS Files,    \* the log files
          Levels,   \* Levels[f]: the levels of the records file f is for
          Records,  \* a record has a field level
          Most      \* no more records than this are followed

VARIABLES
    accepted,  \* accepted[f]: the records accepted for file f, in order
    onDisk,    \* onDisk[f]: the records in file f
    ended      \* "no", "closed" or "killed"

vars == <<accepted, onDisk, ended>>

Init ==
    /\ accepted = [f \in Files |-> <<>>]
    /\ onDisk = [f \in Files |-> <<>>]
    /\ ended = "no"

\* A record is for every file of its level, and for no other one.
With(r) == [f \in Files |-> IF r.level \in Levels[f] THEN Append(accepted[f], r) ELSE accepted[f]]

Accept ==
    /\ ended = "no"
    /\ \E r \in Records : accepted' = With(r)
    /\ UNCHANGED <<onDisk, ended>>

Persist ==
    /\ ended = "no"
    /\ DOMAIN onDisk' = Files
    /\ \A f \in Files : /\ IsPrefix(onDisk[f], onDisk'[f])
                        /\ IsPrefix(onDisk'[f], accepted[f])
    /\ UNCHANGED <<accepted, ended>>

Close ==
    /\ ended = "no"
    /\ \A f \in Files : onDisk[f] = accepted[f]
    /\ ended' = "closed"
    /\ UNCHANGED <<accepted, onDisk>>

Kill ==
    /\ ended = "no"
    /\ ended' = "killed"
    /\ UNCHANGED <<accepted, onDisk>>

Next == Accept \/ Persist \/ Close \/ Kill

Safety == Init /\ [][Next]_vars

\* Whatever is accepted is on disk some time later.
Kept ==
    \A f \in Files : \A n \in 1 .. Most :
        (Len(accepted[f]) >= n) ~> (ended = "killed" \/ Len(onDisk[f]) >= n)

Spec == Safety /\ Kept
=============================================================================

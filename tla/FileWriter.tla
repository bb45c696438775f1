----------------------------- MODULE FileWriter -----------------------------
(***************************************************************************)
(* A log file and the file writers of the processes that have it open      *)
(* (golang_common/log/file_writer.go): buffered writes, the flush timer,   *)
(* hourly rotation, failing system calls, crash and restart.  Dashboard    *)
(* and server are started with one configuration (onekeyupdate.sh:7-9), so *)
(* both write to, rename and make the same file.                           *)
(*                                                                         *)
(* What the loop of boostrapLogWriter calls is done in its goroutine, one  *)
(* call at a time; between the system calls of one process those of the    *)
(* other may come.  A write of the buffer is whole or fails.               *)
(*                                                                         *)
(* KeepsItsHour, PatternOfNow and RotatesUnflushed are faulty variants.    *)
(***************************************************************************)
EXTENDS Naturals, Sequences, SequencesExt, FiniteSets

CONSTANTS Processes,   \* those that have the file open
          BufferSize,  \* records a buffer holds
          MaxWritten,  \* bound: records written
          MaxHour,     \* bound: the last hour, the first is 0
          MaxFaults,   \* bound: system calls that fail
          MaxCrashes   \* bound: processes that are killed

ASSUME FileWriterAssumption ==
    /\ BufferSize \in Nat \ {0}
    /\ {MaxWritten, MaxHour, MaxFaults, MaxCrashes} \subseteq Nat
    /\ IsFiniteSet(Processes)

VARIABLES
    hour,       \* the hour it is
    live,       \* the inode of the file's name, or None
    rotated,    \* rotated[h]: the inode of the name of hour h, or None
    content,    \* content[i]: the records in inode i, in order
    stage,      \* stage[p]: "down", "run", or where p is in Rotate
    writer,     \* writer[p]: the fields of p's FileWriter, see NewWriter
    faults, crashes,
    written,    \* how many records were written
    renamedBy,  \* history: renamedBy[h]: the processes that renamed a file to hour h
    troubled    \* history: the processes of which a call failed, or that were restarted

directory == <<live, rotated, content>>
bounds == <<faults, crashes, written>>
history == <<renamedBy, troubled>>
fvars == <<hour, directory, stage, writer, bounds, history>>

None == 0
\* What a file is named after, %Y%M%D%H: getYear to getHour, as one number.
Hours == 0 .. MaxHour
\* A record has its number, the process that wrote it, its hour, and whether
\* that process had not rotated for that hour yet.
FileRecord == [id : 1 .. MaxWritten, by : Processes, hour : Hours, late : BOOLEAN]

\* file: the inode, None once it is closed; failed: bufio keeps an error for
\* ever; variables: the hour; timing: the rotate timer runs, which the first
\* record starts; old: the hour to rename to.
NewWriter(file, h) == [file |-> file, buf |-> <<>>, failed |-> FALSE,
                       variables |-> h, timing |-> FALSE, old |-> h]

FInit ==
    /\ hour = 0
    /\ live = None /\ rotated = [h \in Hours |-> None]
    /\ content = <<>>
    /\ stage = [p \in Processes |-> "down"]
    /\ writer = [p \in Processes |-> NewWriter(None, 0)]
    /\ faults = 0 /\ crashes = 0 /\ written = 0
    /\ renamedBy = [h \in Hours |-> {}] /\ troubled = {}

Fail(p) ==
    /\ faults < MaxFaults
    /\ faults' = faults + 1
    /\ troubled' = troubled \cup {p}

NoFault == UNCHANGED <<faults, troubled>>

\* CreateLogFile: opens the name for appending, makes it if it is not there.
Open(p, fields) ==
    /\ IF live = None
       THEN live' = Len(content) + 1 /\ content' = Append(content, <<>>)
       ELSE UNCHANGED <<live, content>>
    /\ writer' = [writer EXCEPT ![p] = [fields EXCEPT !.file = live']]
    /\ UNCHANGED rotated

\* SetPathPattern takes the hour of the start, whatever is in the file.
Start(p) ==
    /\ stage[p] = "down"
    /\ Open(p, NewWriter(None, hour))
    /\ stage' = [stage EXCEPT ![p] = "run"]
    /\ UNCHANGED <<hour, bounds, history>>

(***************************************************************************)
(* The buffer.                                                             *)
(***************************************************************************)
Flushed(p) == [content EXCEPT ![writer[p].file] = @ \o writer[p].buf]

\* A flush of p's buffer that leaves rest in it: it fails if it failed before,
\* if the file is closed, or by itself.
FlushWorks(p, rest) ==
    /\ writer[p].file # None /\ ~writer[p].failed
    /\ content' = Flushed(p)
    /\ writer' = [writer EXCEPT ![p].buf = rest]
    /\ NoFault

FlushFails(p) ==
    /\ \/ (writer[p].failed \/ writer[p].file = None) /\ NoFault
       \/ writer[p].file # None /\ ~writer[p].failed /\ Fail(p)
    /\ writer' = [writer EXCEPT ![p].failed = TRUE]
    /\ UNCHANGED content

Write(p) ==
    /\ stage[p] = "run" /\ written < MaxWritten
    /\ written' = written + 1
    /\ LET late == writer[p].variables # hour
           r == [id |-> written', by |-> p, hour |-> hour, late |-> late]
       IN IF writer[p].failed
          THEN UNCHANGED <<content, writer>> /\ NoFault
          ELSE IF Len(writer[p].buf) < BufferSize
          THEN /\ writer' = [writer EXCEPT ![p].buf = Append(@, r), ![p].timing = TRUE]
               /\ UNCHANGED content /\ NoFault
          ELSE FlushWorks(p, <<r>>) \/ FlushFails(p)
    /\ UNCHANGED <<hour, live, rotated, stage, crashes, renamedBy>>

FlushFile(p) ==
    /\ stage[p] = "run" /\ writer[p].buf # <<>> /\ ~writer[p].failed
    /\ FlushWorks(p, <<>>) \/ FlushFails(p)
    /\ UNCHANGED <<hour, live, rotated, stage, crashes, written, renamedBy>>

(***************************************************************************)
(* Rotate, one action per system call.  variables are set before the       *)
(* calls, so a rotation that fails is not tried again in the same hour.    *)
(***************************************************************************)
KeepsItsHour(p) == writer[p].variables
NewHour(p) == hour
PatternOfNow(p) == hour
OldHour(p) == writer[p].variables
Due(p) == hour # writer[p].variables

Advanced(p) ==
    [writer[p] EXCEPT !.old = OldHour(p), !.variables = NewHour(p)]

RotatesUnflushed(p) == content
BeforeRotation(p) == IF writer[p].buf = <<>> THEN content ELSE Flushed(p)

RotateFlushes(p) ==
    /\ stage[p] = "run" /\ writer[p].timing /\ Due(p)
    /\ ~writer[p].failed /\ (writer[p].buf = <<>> \/ writer[p].file # None)
    /\ content' = BeforeRotation(p)
    /\ writer' = [writer EXCEPT ![p] = [Advanced(p) EXCEPT !.buf = <<>>]]
    /\ stage' = [stage EXCEPT ![p] = "rename"]
    /\ UNCHANGED <<hour, live, rotated, bounds, history>>

AfterFailedFlush(p) == "run"

RotateFails(p) ==
    /\ stage[p] = "run" /\ writer[p].timing /\ Due(p)
    /\ \/ writer[p].failed /\ NoFault
       \/ writer[p].buf # <<>> /\ writer[p].file = None /\ NoFault
       \/ writer[p].buf # <<>> /\ writer[p].file # None /\ ~writer[p].failed /\ Fail(p)
    /\ writer' = [writer EXCEPT ![p] = [Advanced(p) EXCEPT !.failed = TRUE]]
    /\ stage' = [stage EXCEPT ![p] = AfterFailedFlush(p)]
    /\ UNCHANGED <<hour, directory, crashes, written, renamedBy>>

\* The name is renamed, whatever file it names by now, over what had the new
\* name.
Rename(p) ==
    /\ stage[p] = "rename" /\ live # None
    /\ rotated' = [rotated EXCEPT ![writer[p].old] = live]
    /\ live' = None
    /\ renamedBy' = [renamedBy EXCEPT ![writer[p].old] = @ \cup {p}]
    /\ stage' = [stage EXCEPT ![p] = "close"]
    /\ UNCHANGED <<hour, content, writer, bounds, troubled>>

RenameFails(p) ==
    /\ stage[p] = "rename"
    /\ \/ live = None /\ troubled' = troubled \cup {p} /\ UNCHANGED faults
       \/ Fail(p)
    /\ stage' = [stage EXCEPT ![p] = "run"]
    /\ UNCHANGED <<hour, directory, writer, crashes, written, renamedBy>>

\* The file is closed even if Close reports an error, as it does for one that
\* an earlier rotation closed; then no file is made.
CloseFile(p) ==
    /\ stage[p] = "close"
    /\ writer' = [writer EXCEPT ![p].file = None]
    /\ \/ writer[p].file # None /\ NoFault /\ stage' = [stage EXCEPT ![p] = "create"]
       \/ writer[p].file # None /\ Fail(p) /\ stage' = [stage EXCEPT ![p] = "run"]
       \/ writer[p].file = None /\ NoFault /\ stage' = [stage EXCEPT ![p] = "run"]
    /\ UNCHANGED <<hour, directory, crashes, written, renamedBy>>

\* A new bufio.Writer has no error.
Create(p) ==
    /\ stage[p] = "create"
    /\ Open(p, [writer[p] EXCEPT !.failed = FALSE, !.buf = <<>>])
    /\ stage' = [stage EXCEPT ![p] = "run"]
    /\ UNCHANGED <<hour, bounds, history>>

CreateFails(p) ==
    /\ stage[p] = "create"
    /\ Fail(p)
    /\ stage' = [stage EXCEPT ![p] = "run"]
    /\ UNCHANGED <<hour, directory, writer, crashes, written, renamedBy>>

(***************************************************************************)
(* The environment.  Rotations come every ten seconds, so an hour does not *)
(* end before those due in it.                                             *)
(***************************************************************************)
HourPasses ==
    /\ hour < MaxHour
    /\ \A p \in Processes : stage[p] = "down" \/ (stage[p] = "run" /\ (writer[p].timing => ~Due(p)))
    /\ hour' = hour + 1
    /\ UNCHANGED <<directory, stage, writer, bounds, history>>

Crash(p) ==
    /\ stage[p] # "down" /\ crashes < MaxCrashes
    /\ crashes' = crashes + 1
    /\ stage' = [stage EXCEPT ![p] = "down"]
    /\ writer' = [writer EXCEPT ![p] = NewWriter(None, 0)]
    /\ troubled' = troubled \cup {p}
    /\ UNCHANGED <<hour, directory, faults, written, renamedBy>>

Rotate(p) ==
    \/ RotateFlushes(p) \/ RotateFails(p) \/ Rename(p) \/ RenameFails(p)
    \/ CloseFile(p) \/ Create(p) \/ CreateFails(p)

FNext ==
    \/ HourPasses
    \/ \E p \in Processes : Start(p) \/ Write(p) \/ FlushFile(p) \/ Rotate(p) \/ Crash(p)

\* The timers fire and the goroutine goes on.
FFairness == \A p \in Processes : WF_fvars(FlushFile(p)) /\ WF_fvars(Rotate(p))

FSpec == FInit /\ [][FNext]_fvars /\ FFairness
-----------------------------------------------------------------------------
Inodes == DOMAIN content

Writers == [file : {None} \cup Inodes, buf : Seq(FileRecord), failed : BOOLEAN,
            variables : Hours, timing : BOOLEAN, old : Hours]

FTypeOK ==
    /\ hour \in Hours
    /\ content \in Seq(Seq(FileRecord))
    /\ live \in {None} \cup Inodes
    /\ rotated \in [Hours -> {None} \cup Inodes]
    /\ stage \in [Processes -> {"down", "run", "rename", "close", "create"}]
    /\ writer \in [Processes -> Writers]
    /\ \A p \in Processes : Len(writer[p].buf) <= BufferSize
    /\ faults \in 0 .. MaxFaults /\ crashes \in 0 .. MaxCrashes
    /\ written \in 0 .. MaxWritten
    /\ renamedBy \in [Hours -> SUBSET Processes] /\ troubled \subseteq Processes

Named == {live} \cup {rotated[h] : h \in Hours}
TwoRenamed(h) == Cardinality(renamedBy[h]) > 1

\* What reached a file stays reachable under some name, through rotations,
\* failures and restarts, unless both processes renamed a file to the same
\* hour: file_writer.go:150-161.
LostToSecondRename ==
    \A i \in Inodes \ Named : content[i] # <<>> => \E h \in Hours : TwoRenamed(h)

\* The file of an hour has the records of that hour, and those written before
\* the rotation that was due, unless the process that wrote them failed, was
\* restarted, or is not the one that renamed it: file_writer.go:123-164.
FiledUnderItsHour ==
    \A h \in Hours :
        rotated[h] # None =>
            \A n \in DOMAIN content[rotated[h]] :
                LET r == content[rotated[h]][n] IN
                    \/ r.hour = h \/ r.late
                    \/ r.by \in troubled \/ renamedBy[h] # {r.by}

Has(records, id) == \E n \in DOMAIN records : records[n].id = id

\* A record in a buffer reaches a file, across rotations, unless its writer
\* fails or is killed: log.go:207-215, file_writer.go:144-148.
BufferedReachesFile ==
    \A p \in Processes, id \in 1 .. MaxWritten :
        (p \notin troubled /\ Has(writer[p].buf, id))
            ~> (p \in troubled \/ \E i \in Inodes : Has(content[i], id))
=============================================================================

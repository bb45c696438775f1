------------------------------- MODULE Logger -------------------------------
(***************************************************************************)
(* The process's default logger (golang_common/log/log.go): goroutines     *)
(* that serve requests deliver records, boostrapLogWriter takes them from  *)
(* the channel to the writers of the files, and Destroy closes the logger  *)
(* when main returns.                                                      *)
(*                                                                         *)
(* logger_default, takeup, lastTime and lastTimeStr are read and written   *)
(* without a lock by all goroutines: each access that another goroutine    *)
(* can tell is a step.  A logger made after Close has no writers, what it  *)
(* is sent is gone.  What a file writer does with a record and with a      *)
(* failing file is FileWriter's.                                           *)
(*                                                                         *)
(* QuitsWhenClosed, SaysNothing, SetsLevelOnly and StampsFirst are faulty  *)
(* variants.                                                               *)
(***************************************************************************)
EXTENDS Naturals, Sequences

CONSTANTS Callers,       \* goroutines that log
          TunnelSize,    \* capacity of the channel
          BufSize,       \* records a file's buffer holds
          ConfLevel,     \* log_level of the configuration
          LevelOf,       \* the levels of the records logged, in order; bounds them
          MaxClock       \* bound: the last second, the first is 1

ASSUME LoggerAssumption ==
    /\ TunnelSize \in Nat \ {0} /\ BufSize \in Nat \ {0}
    /\ ConfLevel \in 0 .. 5 /\ LevelOf \in Seq(0 .. 5)
    /\ MaxClock \in Nat \ {0}
    /\ "main" \notin Callers

MaxRecords == Len(LevelOf)

DEBUG == 1   INFO == 2   WARNING == 3   ERROR == 4
Nil == 0
Main == "main"
Procs == Callers \cup {Main}
Loggers == 1 .. MaxRecords + 2
Files == {"inf", "wf"}

\* SetupLogInstanceWithConf with a wf_log_path, the floors and ceils.
FileLevels == [inf |-> 0 .. INFO, wf |-> WARNING .. ERROR]

VARIABLES
    logger_default, takeup,  \* the package's variables, Nil or a logger
    made,     \* how many loggers were made
    logger,   \* logger[l]: its fields, see New
    boot,     \* boot[l]: where boostrapLogWriter is: "none", "first", "loop", "gone"
    buf,      \* buf[f]: the bufio.Writer of file f
    disk,     \* disk[f]: what file f holds
    pc,       \* pc[p]: where goroutine p is
    at,       \* at[p]: the logger p holds in a local
    rec,      \* rec[p]: the record p delivers
    clock,    \* the second it is
    logged,   \* how many records were logged
    accepted, \* history: accepted[f]: the records for file f sent to the first logger
    lastRace  \* history: the second two goroutines last met in lines 153-162

default == <<logger_default, takeup, made>>
files == <<buf, disk>>
vars == <<default, logger, boot, files, pc, at, rec, clock, logged, accepted, lastRace>>

NewOne == [tunnel |-> <<>>, closed |-> FALSE, c |-> 0, level |-> DEBUG,
           writers |-> {}, lastTime |-> 0, lastTimeStr |-> 0]

\* A record has its number for an identity; now and time, the second of the
\* call and the one the record is given, are kept until it is sent.
Record == [id : 0 .. MaxRecords, level : 0 .. 5]
InCall == [id : 0 .. MaxRecords, level : 0 .. 5,
           now : 0 .. MaxClock, time : 0 .. MaxClock]
Sent(r) == [id |-> r.id, level |-> r.level]
NoRecord == [id |-> 0, level |-> 0, now |-> 0, time |-> 0]

Init ==
    /\ logger_default = Nil /\ takeup = FALSE /\ made = 0
    /\ logger = [l \in Loggers |-> NewOne]
    /\ boot = [l \in Loggers |-> "none"]
    /\ buf = [f \in Files |-> <<>>] /\ disk = [f \in Files |-> <<>>]
    /\ pc = [p \in Procs |-> IF p = Main THEN "setup" ELSE "idle"]
    /\ at = [p \in Procs |-> Nil]
    /\ rec = [p \in Procs |-> NoRecord]
    /\ clock = 1 /\ logged = 0 /\ lastRace = 0
    /\ accepted = [f \in Files |-> <<>>]

Closed == {"untake", "returns", "exited"}   \* where main is after Close
Exited == pc[Main] \in {"exited", "killed"}
Running == ~Exited /\ pc[Main] # "setup"

Go(p, from, to) == Running /\ pc[p] = from /\ pc' = [pc EXCEPT ![p] = to]

(***************************************************************************)
(* InitBaseConf, before any other goroutine runs: a first logger, its two  *)
(* file writers and its level.  SetLayout finds takeup still false and     *)
(* sets it.  A base file that cannot be parsed makes it return before all  *)
(* this, and the process runs on without log files; that is left out.      *)
(***************************************************************************)
SetsLevelOnly == FALSE
SetLayout == TRUE

InitBaseConf ==
    /\ pc[Main] = "setup"
    /\ pc' = [pc EXCEPT ![Main] = "up"]
    /\ logger_default' = 1 /\ made' = 1 /\ takeup' = SetLayout
    /\ logger' = [logger EXCEPT ![1].writers = Files, ![1].level = ConfLevel]
    /\ boot' = [boot EXCEPT ![1] = "first"]
    /\ UNCHANGED <<files, at, rec, clock, logged, accepted, lastRace>>

(***************************************************************************)
(* defaultLoggerInit and NewLogger, of any goroutine.                      *)
(***************************************************************************)
Check(p) ==
    /\ Go(p, "check", IF takeup THEN "use" ELSE "new")
    /\ UNCHANGED <<default, logger, boot, files, at, rec, clock, logged, accepted, lastRace>>

NewLogger(p) ==
    /\ Go(p, "new", "assign")
    /\ IF logger_default # Nil /\ ~takeup
       THEN /\ takeup' = TRUE
            /\ at' = [at EXCEPT ![p] = logger_default]
            /\ UNCHANGED <<made, boot>>
       ELSE /\ made' = made + 1
            /\ at' = [at EXCEPT ![p] = made']
            /\ boot' = [boot EXCEPT ![made'] = "first"]
            /\ UNCHANGED takeup
    /\ UNCHANGED <<logger_default, logger, files, rec, clock, logged, accepted, lastRace>>

Assign(p) ==
    /\ Go(p, "assign", "use")
    /\ logger_default' = at[p]
    /\ at' = [at EXCEPT ![p] = Nil]
    /\ UNCHANGED <<takeup, made, logger, boot, files, rec, clock, logged, accepted, lastRace>>

(***************************************************************************)
(* Trace ... Fatal, of a caller.                                           *)
(***************************************************************************)
Log(p) ==
    /\ logged < MaxRecords
    /\ Go(p, "idle", "check")
    /\ logged' = logged + 1
    /\ rec' = [rec EXCEPT ![p] = [NoRecord EXCEPT !.id = logged',
                                                  !.level = LevelOf[logged']]]
    /\ UNCHANGED <<default, logger, boot, files, at, clock, accepted, lastRace>>

Stamping == {p \in Callers : pc[p] \in {"compare", "format", "take"}}

\* The call returns or panics.
Ends(p, panics) ==
    /\ pc' = [pc EXCEPT ![p] = IF panics THEN "dead" ELSE "idle"]
    /\ at' = [at EXCEPT ![p] = Nil]
    /\ rec' = [rec EXCEPT ![p] = NoRecord]

\* logger_default is read again; a record below the level is dropped, for
\* another one now is taken ...
Use(p) ==
    /\ pc[p] = "use" /\ Running
    /\ IF logger_default = Nil \/ rec[p].level < logger[logger_default].level
       THEN /\ Ends(p, logger_default = Nil)
            /\ UNCHANGED lastRace
       ELSE /\ at' = [at EXCEPT ![p] = logger_default]
            /\ rec' = [rec EXCEPT ![p].now = clock]
            /\ pc' = [pc EXCEPT ![p] = "compare"]
            /\ lastRace' = IF Stamping # {} THEN clock ELSE lastRace
    /\ UNCHANGED <<default, logger, boot, files, clock, logged, accepted>>

\* ... and compared with lastTime, which is set if it differs, be it back.
Compare(p) ==
    /\ Go(p, "compare", IF logger[at[p]].lastTime = rec[p].now THEN "take" ELSE "format")
    /\ logger' = [logger EXCEPT ![at[p]].lastTime = rec[p].now]
    /\ UNCHANGED <<default, boot, files, at, rec, clock, logged, accepted, lastRace>>

StampsFirst(p) ==
    IF logger[at[p]].lastTimeStr = 0 THEN rec[p].now ELSE logger[at[p]].lastTimeStr
Stamp(p) == rec[p].now

Format(p) ==
    /\ Go(p, "format", "take")
    /\ logger' = [logger EXCEPT ![at[p]].lastTimeStr = Stamp(p)]
    /\ UNCHANGED <<default, boot, files, at, rec, clock, logged, accepted, lastRace>>

Take(p) ==
    /\ Go(p, "take", "send")
    /\ rec' = [rec EXCEPT ![p].time = logger[at[p]].lastTimeStr]
    /\ UNCHANGED <<default, logger, boot, files, at, clock, logged, accepted, lastRace>>

\* For the history: a record is for the files of its level.
With(r) == [f \in Files |-> IF r.level \in FileLevels[f] THEN Append(accepted[f], r)
                                                       ELSE accepted[f]]

\* A send on a closed channel panics, on a full one it waits.
Send(p) ==
    /\ Running /\ pc[p] = "send"
    /\ Len(logger[at[p]].tunnel) < TunnelSize \/ logger[at[p]].closed
    /\ Ends(p, logger[at[p]].closed)
    /\ IF logger[at[p]].closed
       THEN UNCHANGED <<logger, accepted>>
       ELSE /\ logger' = [logger EXCEPT ![at[p]].tunnel = Append(@, Sent(rec[p]))]
            /\ accepted' = IF at[p] = 1 THEN With(Sent(rec[p])) ELSE accepted
    /\ UNCHANGED <<default, boot, files, clock, logged, lastRace>>

(***************************************************************************)
(* boostrapLogWriter.  Its timers run from the first record on.            *)
(***************************************************************************)
Fits(f) == Len(buf[f]) < BufSize

\* bufio.Writer: what does not fit pushes out what is there.
Written(f, r) ==
    IF r.level \notin FileLevels[f] THEN <<buf[f], disk[f]>>
    ELSE IF Fits(f) THEN <<Append(buf[f], r), disk[f]>>
    ELSE <<<<r>>, disk[f] \o buf[f]>>

Receive(l) ==
    /\ Running /\ boot[l] \in {"first", "loop"} /\ logger[l].tunnel # <<>>
    /\ LET r == Head(logger[l].tunnel)
           after == [f \in Files |-> IF f \in logger[l].writers
                                     THEN Written(f, r) ELSE <<buf[f], disk[f]>>]
       IN /\ buf' = [f \in Files |-> after[f][1]]
          /\ disk' = [f \in Files |-> after[f][2]]
    /\ boot' = [boot EXCEPT ![l] = "loop"]
    /\ logger' = [logger EXCEPT ![l].tunnel = Tail(@)]
    /\ UNCHANGED <<default, pc, at, rec, clock, logged, accepted, lastRace>>

\* Every writer flushes.
Flush(l) ==
    /\ disk' = [f \in Files |-> IF f \in logger[l].writers THEN disk[f] \o buf[f] ELSE disk[f]]
    /\ buf' = [f \in Files |-> IF f \in logger[l].writers THEN <<>> ELSE buf[f]]

FlushTimer(l) ==
    /\ Running /\ boot[l] = "loop"
    /\ \E f \in logger[l].writers : buf[f] # <<>>
    /\ Flush(l)
    /\ UNCHANGED <<default, logger, boot, pc, at, rec, clock, logged, accepted, lastRace>>

\* A receive from a closed channel fails when the channel is empty.
QuitsWhenClosed(l) == logger[l].closed
Drained(l) == logger[l].closed /\ logger[l].tunnel = <<>>

SaysNothing(l) == IF boot[l] = "first" THEN 0 ELSE 1
Signal(l) == 1

BootReturns(l) ==
    /\ Running /\ boot[l] \in {"first", "loop"} /\ Drained(l)
    /\ boot' = [boot EXCEPT ![l] = "gone"]
    /\ logger' = [logger EXCEPT ![l].c = @ + Signal(l)]
    /\ UNCHANGED <<default, files, pc, at, rec, clock, logged, accepted, lastRace>>

(***************************************************************************)
(* Destroy: log.Close, the last thing the process does.                    *)
(***************************************************************************)
Destroy ==
    /\ Go(Main, "up", "check")
    /\ UNCHANGED <<default, logger, boot, files, at, rec, clock, logged, accepted, lastRace>>

CloseTunnel ==
    /\ Go(Main, "use", "wait")
    /\ at' = [at EXCEPT ![Main] = logger_default]
    /\ logger' = [logger EXCEPT ![logger_default].closed = TRUE]
    /\ UNCHANGED <<default, boot, files, rec, clock, logged, accepted, lastRace>>

CloseWaits ==
    /\ Go(Main, "wait", "flush")
    /\ logger[at[Main]].c > 0
    /\ logger' = [logger EXCEPT ![at[Main]].c = @ - 1]
    /\ UNCHANGED <<default, boot, files, at, rec, clock, logged, accepted, lastRace>>

CloseFlushes ==
    /\ Go(Main, "flush", "drop")
    /\ Flush(at[Main])
    /\ UNCHANGED <<default, logger, boot, at, rec, clock, logged, accepted, lastRace>>

Drop ==
    /\ Go(Main, "drop", "untake")
    /\ logger_default' = Nil
    /\ UNCHANGED <<takeup, made, logger, boot, files, at, rec, clock, logged, accepted, lastRace>>

Untake ==
    /\ Go(Main, "untake", "returns")
    /\ takeup' = FALSE
    /\ UNCHANGED <<logger_default, made, logger, boot, files, at, rec, clock, logged, accepted, lastRace>>

\* The process's memory is gone with it.
Exit(how) ==
    /\ pc' = [p \in Procs |-> IF p = Main THEN how ELSE "idle"]
    /\ logger_default' = Nil /\ takeup' = FALSE /\ made' = 0
    /\ logger' = [l \in Loggers |-> NewOne]
    /\ boot' = [l \in Loggers |-> "none"]
    /\ buf' = [f \in Files |-> <<>>]
    /\ at' = [p \in Procs |-> Nil] /\ rec' = [p \in Procs |-> NoRecord]
    /\ clock' = 0 /\ logged' = 0 /\ lastRace' = 0
    /\ UNCHANGED <<disk, accepted>>

MainReturns == pc[Main] = "returns" /\ Exit("exited")

\* log.Fatalf of any goroutine, a panic nobody recovers (a file that cannot
\* be made, at the start), kill.
Kill ==
    /\ ~Exited
    /\ Exit(IF pc[Main] \in Closed THEN "exited" ELSE "killed")

Tick ==
    /\ Running /\ clock < MaxClock
    /\ clock' = clock + 1
    /\ UNCHANGED <<default, logger, boot, files, pc, at, rec, logged, accepted, lastRace>>

Shared(p) == Check(p) \/ NewLogger(p) \/ Assign(p)
Call(p) == Shared(p) \/ Use(p) \/ Compare(p) \/ Format(p) \/ Take(p) \/ Send(p)
Close == Shared(Main) \/ CloseTunnel \/ CloseWaits \/ CloseFlushes \/ Drop \/ Untake \/ MainReturns
Boot(l) == Receive(l) \/ BootReturns(l)

Next ==
    \/ InitBaseConf \/ Destroy \/ Kill \/ Tick \/ Close
    \/ \E p \in Callers : Log(p) \/ Call(p)
    \/ \E l \in Loggers : Boot(l) \/ FlushTimer(l)

\* The runtime schedules every goroutine; a select with two ready cases
\* picks either, so the flush timer is not starved by records.
Fairness ==
    /\ \A p \in Callers : WF_vars(Call(p))
    /\ \A l \in Loggers : WF_vars(Boot(l)) /\ WF_vars(FlushTimer(l))
    /\ WF_vars(Close)

Spec == Init /\ [][Next]_vars /\ Fairness
-----------------------------------------------------------------------------
LoggerFields ==
    [tunnel : Seq(Record), closed : BOOLEAN, c : 0 .. 2, level : 0 .. 5, writers : SUBSET Files,
     lastTime : 0 .. MaxClock, lastTimeStr : 0 .. MaxClock]

MainAt   == {"setup", "up", "check", "new", "assign", "use", "wait", "flush", "drop", "untake",
             "returns", "exited", "killed"}
CallerAt == {"idle", "check", "new", "assign", "use", "compare", "format", "take", "send", "dead"}

TypeOK ==
    /\ logger_default \in {Nil} \cup Loggers /\ takeup \in BOOLEAN
    /\ made \in {Nil} \cup Loggers
    /\ logger \in [Loggers -> LoggerFields]
    /\ \A l \in Loggers : Len(logger[l].tunnel) <= TunnelSize
    /\ boot \in [Loggers -> {"none", "first", "loop", "gone"}]
    /\ buf \in [Files -> Seq(Record)] /\ disk \in [Files -> Seq(Record)]
    /\ accepted \in [Files -> Seq(Record)]
    /\ \A f \in Files : Len(buf[f]) <= BufSize
    /\ pc \in [Procs -> MainAt \cup CallerAt]
    /\ pc[Main] \in MainAt /\ \A p \in Callers : pc[p] \in CallerAt
    /\ at \in [Procs -> {Nil} \cup Loggers]
    /\ rec \in [Procs -> InCall]
    /\ clock \in 0 .. MaxClock /\ logged \in 0 .. MaxRecords
    /\ lastRace \in 0 .. MaxClock

(***************************************************************************)
(* The logger implements RecordLog.                                        *)
(***************************************************************************)
Abstract ==
    INSTANCE RecordLog
    WITH Levels <- FileLevels,
         Records <- Record,
         Most <- MaxRecords,
         onDisk <- disk,
         ended <- IF pc[Main] = "killed" THEN "killed"
                  ELSE IF pc[Main] \in Closed THEN "closed" ELSE "no"

\* No record that was accepted is lost, repeated or moved, unless the process
\* is killed: log.go:122-132 and 168-228.
ImplementsRecordLog == Abstract!Spec

\* A goroutine dies of its log call, or logs into a logger without writers,
\* only once Destroy closed the logger: log.go:64-67 and 281-292.
LossOnlyAfterClose ==
    (made > 1 \/ \E p \in Callers : pc[p] = "dead") => logger[1].closed

\* A record has the second it was logged in, unless goroutines met between
\* lines 153 and 162 of log.go in that second or later: what their race leaves
\* in lastTimeStr does not outlive the second.
StampWrongForCause ==
    \A p \in Callers :
        pc[p] = "send" /\ rec[p].time # rec[p].now => lastRace >= rec[p].now

\* A log call ends, although the channel may be full, and so does Close,
\* although records keep coming.
CallsReturn ==
    /\ \A p \in Callers : (pc[p] # "idle") ~> (pc[p] \in {"idle", "dead"} \/ Exited)
    /\ (pc[Main] = "check") ~> Exited
=============================================================================

--------------------------- MODULE TelemetryIntake ---------------------------
(***************************************************************************)
(* How log lines become analysed events: the two collectors of the         *)
(* detection service (collectors/eve.py, collectors/filterlog.py), with    *)
(* the logs they tail and the offsets they persist, the stages of run_once *)
(* that the batch goes through (service.py), and the reset of the runtime  *)
(* state that takes the offsets away (cli.py).                             *)
(*                                                                         *)
(* A log is written in halves of lines, so that a poll can meet a line     *)
(* whose end is not flushed yet; positions and offsets count halves.  A    *)
(* line is named by its log, the epoch of the file it is in and its place  *)
(* in that file.  Every line stands for an event on a monitored interface  *)
(* with an id of its own.                                                  *)
(***************************************************************************)
EXTENDS Naturals, FiniteSets

CONSTANTS
  Present,       \* the logs that exist on this firewall, of {"eve", "filter"}
  MaxLines,      \* max_lines of run_once
  QueueLimit,    \* min(max_event_rate, 100000)
  MaxQueue,      \* max_queue_length
  LinesPerFile,  \* bound: lines written to one file
  Epochs,        \* bound: files of a log over time
  MaxFailures,   \* bound: iterations of the loop that fail
  Disturbances   \* which of AllDisturbances may happen

AllDisturbances ==
  {"burst",           \* a log grows by more than max_lines between two polls
   "rotate",          \* newsyslog renames the log and a new file is begun
   "rotate_in_read",  \* the same, between the stat and the open of one poll
   "truncate",        \* the log is emptied in place
   "unreadable",      \* stat or open is refused
   "save_fails",      \* the offset file cannot be written, or a read fails
   "db_full",         \* the database stays over its size limit after cleanup
   "fail",            \* an exception or a crash ends the iteration
   "offset_lost",     \* an offset file cannot be read or parsed
   "reset",           \* maintenance reset-runtime
   "reset_fails",     \* one of its steps on the offset files fails
   "reset_live"}      \* it runs beside the service: without
                      \* --restart-service, or the stop fails

ASSUME IntakeAssumption ==
  /\ Present \subseteq {"eve", "filter"}
  /\ MaxLines \in Nat \ {0} /\ QueueLimit \in Nat /\ MaxQueue \in Nat \ {0}
  /\ LinesPerFile \in Nat /\ Epochs \in Nat \ {0} /\ MaxFailures \in Nat
  /\ Disturbances \subseteq AllDisturbances

VARIABLES
  file,      \* the file at the path of each log: its epoch, inode and size
  saved,     \* the offset file of each collector
  pc,        \* the stage run_once has reached
  look,      \* inode and offset the current poll goes by
  batch,     \* the lines whose events run_once holds in memory
  reset,     \* what reset-runtime has to do next with the offset files
  seed,      \* inode and size it has seen of the EVE log
  fate,      \* history: what has become of each line
  forgotten, \* history: logs of which the place once saved has been lost
  failures   \* history: iterations that have failed

resetVars == <<reset, seed, forgotten>>

vars == <<file, saved, pc, look, batch, reset, seed, fate, forgotten, failures>>

Log == {"eve", "filter"}

Line == Log \X (1..Epochs) \X (0..LinesPerFile - 1)

Position == 0..2 * LinesPerFile

NoInode == 0

Offset == [inode : 0..Epochs, offset : Position]

Absent == [inode |-> NoInode, offset |-> 0]

Fate == {"new", "waived", "torn", "dropped", "lost", "stored", "analysed", "again"}

TypeOK ==
  /\ file \in [Present -> [epoch : 1..Epochs, inode : 1..Epochs, size : Position]]
  /\ saved \in [Present -> Offset]
  /\ pc \in {"idle", "eve_read", "filter", "filter_read", "insert", "analyse", "down"}
  /\ look \in Offset
  /\ batch \subseteq Line
  /\ reset \in {"none", "remove", "seed", "write"}
  /\ seed \in Offset
  /\ fate \in [Line -> Fate]
  /\ forgotten \subseteq Present
  /\ failures \in 0..MaxFailures

Init ==
  /\ file = [l \in Present |-> [epoch |-> 1, inode |-> 1, size |-> 0]]
  /\ saved = [l \in Present |-> Absent]
  /\ pc = "idle"
  /\ look = Absent
  /\ batch = {}
  /\ reset = "none"
  /\ seed = Absent
  /\ fate = [x \in Line |-> "new"]
  /\ forgotten = {}
  /\ failures = 0

-----------------------------------------------------------------------------
(* What a reader finds between an offset and the end of a file.             *)

LineAt(l, k) == <<l, file[l].epoch, k>>

(* Lines of which readline returns at least a part. *)
Touched(l, from) ==
  {k \in 0..LinesPerFile - 1 : 2 * k + 2 > from /\ 2 * k < file[l].size}

(* Those that max_lines lets the loop get to. *)
Reached(l, from) == {k \in Touched(l, from) : k < from \div 2 + MaxLines}

Intact(l, from) == {k \in Reached(l, from) : 2 * k >= from /\ 2 * k + 2 <= file[l].size}

Over(l, from) == Cardinality(Touched(l, from)) > MaxLines

FirstOf(S, n) == {x \in S : Cardinality({y \in S : y[3] < x[3]}) < n}

Smaller(m, n) == IF m < n THEN m ELSE n

Larger(m, n) == IF m < n THEN n ELSE m

(* Mutant: rotation is taken for granted only when the file has shrunk.      *)
FromBySize(l, place) == IF file[l].size < place.offset THEN 0 ELSE place.offset

(* Where a poll begins that goes by a place: at the start of a file that is  *)
(* not the one the place is in, or that has become too short for it.         *)
From(l, place) ==
  IF place.inode # file[l].inode \/ file[l].size < place.offset THEN 0 ELSE place.offset

End(l) == [inode |-> file[l].inode, offset |-> file[l].size]

(* Without an offset file the filter log is begun at its end, the EVE log at *)
(* its start.                                                                *)
Begun(l) == IF l = "filter" /\ saved[l] = Absent THEN End(l) ELSE saved[l]

(* Fates change only from what does not count as an outcome yet. *)
Settle(lines, new) ==
  fate' = [x \in Line |-> IF x \in lines /\ fate[x] = "new" THEN new ELSE fate[x]]

-----------------------------------------------------------------------------
(* The collectors. *)

After(l) == IF l = "eve" THEN "filter" ELSE "insert"

StatAt(l) == IF l = "eve" THEN "idle" ELSE "filter"

ReadAt(l) == IF l = "eve" THEN "eve_read" ELSE "filter_read"

(* A log that is missing or refuses stat yields no events. *)
PassOver(l) ==
  /\ pc = StatAt(l)
  /\ l \notin Present \/ "unreadable" \in Disturbances
  /\ pc' = After(l)
  /\ UNCHANGED <<file, saved, look, batch, fate, failures, resetVars>>

(* What _load_offset makes of the offset file.  One that cannot be read or   *)
(* parsed, or is removed while it is being opened, is no place at all, and   *)
(* the log is read from its start.                                           *)
Loaded(l) ==
  {Begun(l)} \cup
    {place \in {Absent} : saved[l] # Absent /\ ("offset_lost" \in Disturbances
                                                  \/ reset = "remove")}

(* stat, _load_offset, and the test for rotation. *)
StatLog(l) ==
  /\ l \in Present /\ pc = StatAt(l)
  /\ \E place \in Loaded(l) :
       /\ look' = [inode |-> file[l].inode, offset |-> From(l, place)]
       /\ forgotten' = IF place = Begun(l) THEN forgotten ELSE forgotten \cup {l}
  /\ pc' = ReadAt(l)
  /\ Settle({LineAt(l, k) : k \in
              {n \in 0..LinesPerFile - 1 : l = "filter" /\ saved[l] = Absent
                                             /\ 2 * n < file[l].size}}, "waived")
  /\ UNCHANGED <<file, saved, batch, reset, seed, failures>>

(* Mutant: one character too far. *)
EndedPastEnd(l) == Larger(look.offset, file[l].size) + 1

(* The position of handle.tell() after the loop over the lines. *)
Ended(l) == Larger(look.offset, file[l].size)

(* The events of the lines reached, up to queue_limit; a part of a line is   *)
(* a parser error.                                                           *)
Take(l) ==
  LET intact == {LineAt(l, k) : k \in Intact(l, look.offset)}
      torn == {LineAt(l, k) : k \in Reached(l, look.offset)} \ intact
      taken == FirstOf(intact, QueueLimit)
  IN  /\ pc = ReadAt(l)
      /\ batch' = batch \cup taken
      /\ fate' = [x \in Line |->
           IF fate[x] # "new" THEN fate[x]
           ELSE IF x \in torn THEN "torn"
           ELSE IF x \in intact \ taken THEN "dropped" ELSE "new"]
      /\ pc' = After(l)
      /\ look' = Absent
      /\ UNCHANGED <<file, failures, resetVars>>

(* A reset beside the service takes the directory of the offset files away.  *)
SaveMayFail == "save_fails" \in Disturbances \/ reset # "none"

Keep(l, offset) == saved' = [saved EXCEPT ![l] = [inode |-> look.inode, offset |-> offset]]

(* Mutant: the limit on lines is not applied. *)
EveReadAll ==
  LET intact == {LineAt("eve", k) : k \in
        {n \in Touched("eve", look.offset) :
           2 * n >= look.offset /\ 2 * n + 2 <= file["eve"].size}}
  IN  /\ "eve" \in Present /\ pc = "eve_read"
      /\ batch' = intact
      /\ Keep("eve", Ended("eve"))
      /\ pc' = "filter"
      /\ look' = Absent
      /\ UNCHANGED <<file, fate, failures, resetVars>>

(* Mutant: the line that trips the limit is consumed, as in filterlog.py. *)
EveReadOneMore ==
  /\ "eve" \in Present /\ Take("eve")
  /\ Keep("eve", IF Over("eve", look.offset)
                   THEN Smaller(2 * (look.offset \div 2 + MaxLines + 1), file["eve"].size)
                   ELSE Ended("eve"))

(* EveCollector.read_once iterates over the handle: when it breaks off at    *)
(* max_lines, tell() raises OSError and the offset is not saved.             *)
EveRead ==
  /\ "eve" \in Present /\ Take("eve")
  /\ IF Over("eve", look.offset) THEN UNCHANGED saved
     ELSE \/ Keep("eve", Ended("eve"))
          \/ SaveMayFail /\ UNCHANGED saved

(* Mutant: the offset that is saved is the one the loop started from. *)
FilterReadFromStart ==
  /\ "filter" \in Present /\ Take("filter")
  /\ Keep("filter", look.offset)

(* Mutant: the loop ends at line max_lines, before it has been looked at. *)
FilterReadOneLess ==
  LET reached == {k \in Touched("filter", look.offset) :
                    k + 1 < look.offset \div 2 + MaxLines}
  IN  /\ "filter" \in Present /\ pc = "filter_read"
      /\ batch' = batch \cup {LineAt("filter", k) : k \in
                              reached \cap Intact("filter", look.offset)}
      /\ Keep("filter", Smaller(2 * (look.offset \div 2 + MaxLines), file["filter"].size))
      /\ pc' = "insert"
      /\ look' = Absent
      /\ UNCHANGED <<file, fate, failures, resetVars>>

(* FilterLogCollector.read_once has read one line more than max_lines when   *)
(* it breaks off, and saves the position behind that line.                   *)
FilterRead ==
  /\ "filter" \in Present /\ Take("filter")
  /\ \/ Keep("filter", IF Over("filter", look.offset)
                 THEN Smaller(2 * (look.offset \div 2 + MaxLines + 1), file["filter"].size)
                 ELSE Ended("filter"))
     \/ SaveMayFail /\ UNCHANGED saved

-----------------------------------------------------------------------------
(* The rest of run_once. *)

(* Mutant: the queue is not cut. *)
InsertUncut ==
  /\ pc = "insert"
  /\ fate' = [x \in Line |-> IF x \in batch /\ fate[x] = "new" THEN "stored" ELSE fate[x]]
  /\ pc' = "analyse"
  /\ UNCHANGED <<file, saved, look, batch, failures, resetVars>>

(* _apply_queue_backpressure cuts the batch, EVE events first in line; with  *)
(* the database over its limit the whole batch is dropped; insert_events.    *)
Insert ==
  LET eve == FirstOf({x \in batch : x[1] = "eve"}, MaxQueue)
      filter == FirstOf({x \in batch : x[1] = "filter"}, MaxQueue - Cardinality(eve))
      kept == eve \cup filter
  IN  /\ pc = "insert"
      /\ \/ /\ batch' = kept
            /\ fate' = [x \in Line |->
                 IF x \notin batch \/ fate[x] \notin {"new", "lost"} THEN fate[x]
                 ELSE IF x \in kept THEN "stored" ELSE "dropped"]
            /\ pc' = "analyse"
         \/ /\ "db_full" \in Disturbances
            /\ batch' = {}
            /\ Settle(batch, "dropped")
            /\ pc' = "idle"
      /\ UNCHANGED <<file, saved, look, failures, resetVars>>

(* Features, detectors, cases and responses; the batch is done with. *)
Analyse ==
  /\ pc = "analyse"
  /\ fate' = [x \in Line |->
       IF x \notin batch THEN fate[x]
       ELSE IF fate[x] \in {"analysed", "again"} THEN "again" ELSE "analysed"]
  /\ batch' = {}
  /\ pc' = "idle"
  /\ UNCHANGED <<file, saved, look, failures, resetVars>>

(* run_forever logs the exception and goes on with the next poll; a process  *)
(* that dies is started again.  Either way the batch is gone.                *)
Fail ==
  /\ "fail" \in Disturbances /\ pc \notin {"idle", "down"} /\ failures < MaxFailures
  /\ Settle(batch, "lost")
  /\ batch' = {}
  /\ look' = Absent
  /\ pc' = "idle"
  /\ failures' = failures + 1
  /\ UNCHANGED <<file, saved, resetVars>>

-----------------------------------------------------------------------------
(* The writers of the logs and newsyslog.                                    *)

(* The place the next poll is to go by: while a reset is under way, the one  *)
(* that it is about to write.                                                *)
Place(l) ==
  IF l = "eve" /\ reset \in {"remove", "seed"} /\ saved[l] = Absent THEN End(l)
  ELSE IF l = "eve" /\ reset = "write" THEN seed
  ELSE saved[l]

(* What the next poll will find. *)
Unread(l) == Touched(l, From(l, Place(l)))

Write(l) ==
  /\ file[l].size < 2 * LinesPerFile
  /\ "burst" \in Disturbances \/ file[l].size % 2 = 1 \/ Cardinality(Unread(l)) < MaxLines
  /\ file' = [file EXCEPT ![l].size = @ + 1]
  /\ UNCHANGED <<saved, pc, look, batch, fate, failures, resetVars>>

Rotate(l) ==
  /\ "rotate" \in Disturbances /\ file[l].epoch < Epochs
  /\ "rotate_in_read" \in Disturbances \/ pc # ReadAt(l)
  /\ file' = [file EXCEPT ![l] =
                [epoch |-> @.epoch + 1, inode |-> @.epoch + 1, size |-> 0]]
  /\ UNCHANGED <<saved, pc, look, batch, fate, failures, resetVars>>

Truncate(l) ==
  /\ "truncate" \in Disturbances /\ file[l].epoch < Epochs
  /\ file' = [file EXCEPT ![l].epoch = @ + 1, ![l].size = 0]
  /\ UNCHANGED <<saved, pc, look, batch, fate, failures, resetVars>>

-----------------------------------------------------------------------------
(* reset-runtime: a process of its own that stops the service, removes the   *)
(* offset files, writes a new one for the EVE log and starts the service     *)
(* again.  The filter log is sought at a path that does not exist, and its   *)
(* collector will begin at the end by itself.                                *)

(* The service finishes its iteration before it stops.  A reset beside a     *)
(* running service does away with the EVE offset while polls go on.          *)
StartReset ==
  /\ "reset" \in Disturbances /\ reset = "none"
  /\ \/ /\ pc \in {"idle", "down"} /\ pc' = "down"
        /\ UNCHANGED forgotten
     \/ /\ "reset_live" \in Disturbances /\ pc # "down"
        /\ forgotten' = forgotten \cup ({"eve"} \cap Present)
        /\ UNCHANGED pc
  /\ reset' = "remove"
  /\ UNCHANGED <<file, saved, look, batch, seed, fate, failures>>

RemoveOffset(l) ==
  /\ reset = "remove" /\ saved[l] # Absent
  /\ saved' = [saved EXCEPT ![l] = Absent]
  /\ UNCHANGED <<file, pc, look, batch, fate, failures, resetVars>>

OffsetsRemoved ==
  /\ reset = "remove" /\ \A l \in Present : saved[l] = Absent
  /\ reset' = "seed"
  /\ UNCHANGED <<file, saved, pc, look, batch, seed, fate, forgotten, failures>>

SeedStat ==
  /\ reset = "seed" /\ "eve" \in Present
  /\ seed' = End("eve")
  /\ reset' = "write"
  /\ UNCHANGED <<file, saved, pc, look, batch, fate, forgotten, failures>>

(* Lines of the EVE log in front of a place in the file that is there now. *)
Before(place) ==
  {x \in Line : /\ x[1] = "eve" /\ x[2] = file["eve"].epoch
                /\ 2 * x[3] < From("eve", place)}

(* Mutant: the inode is left out of the file that is written. *)
SeedWriteNoInode ==
  /\ reset = "write"
  /\ saved' = [saved EXCEPT !["eve"] = [seed EXCEPT !.inode = NoInode]]
  /\ Settle(Before(seed) \ batch, "waived")
  /\ reset' = "none" /\ seed' = Absent
  /\ UNCHANGED <<file, pc, look, batch, forgotten, failures>>

(* What was written to the EVE log until it was looked at is left behind. *)
SeedWrite ==
  /\ reset = "write"
  /\ saved' = [saved EXCEPT !["eve"] = seed]
  /\ Settle(Before(seed) \ batch, "waived")
  /\ reset' = "none" /\ seed' = Absent
  /\ UNCHANGED <<file, pc, look, batch, forgotten, failures>>

(* A file that cannot be removed ends the reset; a stat or a write that      *)
(* fails is only reported; the process may die.  What a failed write leaves  *)
(* cannot be parsed.                                                         *)
EndReset ==
  /\ \/ "reset_fails" \in Disturbances /\ reset # "none"
     \/ "eve" \notin Present /\ reset = "seed"
  /\ forgotten' = forgotten \cup {l \in {"eve"} \cap Present : saved[l] = Absent}
  /\ reset' = "none" /\ seed' = Absent
  /\ UNCHANGED <<file, saved, pc, look, batch, fate, failures>>

(* By the reset itself, or by an operator where the reset has failed. *)
Restart ==
  /\ pc = "down" /\ reset = "none"
  /\ pc' = "idle"
  /\ UNCHANGED <<file, saved, look, batch, fate, failures, resetVars>>

-----------------------------------------------------------------------------
Service ==
  \/ \E l \in Log : PassOver(l) \/ StatLog(l)
  \/ EveRead \/ FilterRead \/ Insert \/ Analyse

Environment ==
  \/ \E l \in Present : Write(l) \/ Rotate(l) \/ Truncate(l)
  \/ Fail

Maintenance ==
  \/ \E l \in Present : RemoveOffset(l)
  \/ StartReset \/ OffsetsRemoved \/ SeedStat \/ SeedWrite \/ EndReset \/ Restart

Next == Service \/ Environment \/ Maintenance

Spec == Init /\ [][Next]_vars

(* run_forever polls every two seconds and survives exceptions. *)
FairSpec == Spec /\ WF_vars(Service)

-----------------------------------------------------------------------------
(* Properties. *)

(* The lines written completely to the current file of a log. *)
Written(l) == {k \in 0..LinesPerFile - 1 : 2 * k + 2 <= file[l].size}

(* Those that lie behind the persisted offset.  A file that was emptied in   *)
(* place and has grown past the offset again by the next poll cannot be told *)
(* from one that only grew, and is left out.                                 *)
Passed(l) ==
  {k \in Written(l) : /\ saved[l].inode = file[l].inode /\ file[l].inode = file[l].epoch
                      /\ 2 * k + 2 <= saved[l].offset}

(* Taken, or counted as a parser error or a drop. *)
Accounted(x) == fate[x] # "new" \/ x \in batch

(* The offset of the EVE log never runs ahead of its collector (read_once of *)
(* collectors/eve.py): every line behind it is accounted for.                *)
NothingSkipped ==
  "eve" \in Present => \A k \in Passed("eve") : Accounted(LineAt("eve", k))

(* The filter log is passed over one line at a time: before a line that is   *)
(* neither taken nor counted come MaxLines lines that are (the line that     *)
(* trips the limit in read_once of collectors/filterlog.py).                 *)
SkipsApart ==
  "filter" \in Present =>
    \A k \in Passed("filter") :
      \/ Accounted(LineAt("filter", k))
      \/ /\ MaxLines <= k
         /\ \A j \in k - MaxLines .. k - 1 : Accounted(LineAt("filter", j))

(* An iteration that fails costs at most the lines of one batch of each log: *)
(* offsets are saved before the events are stored, so these are gone, but    *)
(* only these.                                                               *)
LossIsBounded ==
  \A l \in Present :
    Cardinality({x \in Line \ batch : x[1] = l /\ fate[x] \in {"lost", "stored"}})
      <= failures * MaxLines

(* No event goes through features and detectors twice, which would count the *)
(* same traffic twice: the offset has moved past a batch that is analysed.   *)
AnalysedOnce == \A x \in Line : fate[x] # "again"

(* What a first start or a reset of the runtime state leaves behind is never *)
(* analysed later, not after a failure, a rotation, a new reset or a save    *)
(* that did not work (start_at_end, _seed_collector_offsets_at_end): as long *)
(* as the place that was saved for the log has not been lost, to an offset   *)
(* file that cannot be read or to a reset that could not seed a new one.     *)
WaivedForGood ==
  [][\A x \in Line : fate[x] = "waived" => fate'[x] = "waived" \/ x[1] \in forgotten]_vars

(* What the stages after the collectors see of a line. *)
Seen(x) ==
  CASE x \in batch -> "held"
    [] x \notin batch /\ fate[x] = "new" -> "ahead"
    [] x \notin batch /\ fate[x] \in {"analysed", "again"} -> "used"
    [] OTHER -> "out"

Feed == INSTANCE LineFeed WITH state <- [x \in Line |-> Seen(x)]

(* Files, offsets and stages together are a feed of lines in order: each     *)
(* poll goes on behind all that was read or given up before, takes and       *)
(* passes on no more than the limits say, and what was cut off, lost or left *)
(* behind never comes back.                                                  *)
KeepsFeed == Feed!Spec

(* Whatever is written to a log and not rotated away is read in the end.     *)
CatchesUp ==
  \A l \in Present : \A k \in 0..LinesPerFile - 1 :
    (k \in Written(l) /\ fate[LineAt(l, k)] = "new")
      ~> (k \notin Written(l) \/ fate[LineAt(l, k)] # "new")
=============================================================================

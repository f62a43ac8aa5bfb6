----------------------- MODULE TelemetryIntake_proofs -----------------------
(* Theorems about TelemetryIntake, for logs of any length, any limits and  *)
(* every combination of disturbances.                                      *)
EXTENDS TelemetryIntake, FiniteSetTheorems, TLAPS

-----------------------------------------------------------------------------
(* Type correctness. *)

LEMMA LineAtType ==
  ASSUME TypeOK, NEW l \in Present, NEW k \in 0..LinesPerFile - 1
  PROVE  LineAt(l, k) \in Line
  BY IntakeAssumption DEF TypeOK, LineAt, Line, Log

LEMMA SettleType ==
  ASSUME TypeOK, NEW lines, NEW new \in Fate, Settle(lines, new)
  PROVE  fate' \in [Line -> Fate]
  BY DEF TypeOK, Settle

(* Where a read can end, and what it does to the offset file. *)
LEMMA PositionType ==
  ASSUME TypeOK, NEW l \in Present
  PROVE  /\ Ended(l) \in Position
         /\ \A n \in Nat : Smaller(n, file[l].size) \in Position
<1>1. file[l].size \in Position /\ look.offset \in Position
  BY DEF TypeOK, Offset
<1>2. QED
  BY <1>1, IntakeAssumption DEF Ended, Larger, Smaller, Position

LEMMA KeepType ==
  ASSUME TypeOK, NEW l \in Present, NEW o \in Position, Keep(l, o)
  PROVE  saved' \in [Present -> Offset]
  BY DEF TypeOK, Keep, Offset

LEMMA TakeType ==
  ASSUME TypeOK, NEW l \in Present, Take(l)
  PROVE  /\ batch' \subseteq Line
         /\ fate' \in [Line -> Fate]
         /\ pc' \in {"filter", "insert"}
         /\ look' \in Offset
         /\ UNCHANGED <<file, failures, resetVars>>
<1>1. {LineAt(l, k) : k \in Intact(l, look.offset)} \subseteq Line
  BY LineAtType DEF Intact, Reached, Touched
<1>2. batch' \subseteq Line
  BY <1>1 DEF TypeOK, Take, FirstOf
<1>3. fate' \in [Line -> Fate]
  BY DEF TypeOK, Take, Fate
<1>4. look' \in Offset
  BY IntakeAssumption DEF Take, Absent, Offset, NoInode, Position
<1>5. QED
  BY <1>2, <1>3, <1>4 DEF Take, After

(* The places a poll or a reset can go by. *)
LEMMA PlaceType ==
  ASSUME TypeOK, NEW l \in Present
  PROVE  /\ saved[l] \in Offset /\ End(l) \in Offset /\ Begun(l) \in Offset
         /\ Place(l) \in Offset /\ Absent \in Offset
         /\ \A place \in Offset : From(l, place) \in Position
<1>1. /\ file[l].inode \in 0..Epochs /\ file[l].size \in Position
      /\ saved[l] \in Offset /\ seed \in Offset
  BY IntakeAssumption DEF TypeOK
<1>2. Absent \in Offset /\ End(l) \in Offset
  BY <1>1, IntakeAssumption DEF Absent, End, Offset, NoInode, Position
<1>3. \A place \in Offset : From(l, place) \in Position
  BY IntakeAssumption DEF From, Offset, Position
<1>4. QED
  BY <1>1, <1>2, <1>3 DEF Begun, Place

LEMMA StatLogType ==
  ASSUME TypeOK, NEW l \in Present, StatLog(l)
  PROVE  TypeOK'
<1>1. look' \in Offset /\ forgotten' \subseteq Present
  <2>1. PICK place \in Loaded(l) :
          /\ look' = [inode |-> file[l].inode, offset |-> From(l, place)]
          /\ forgotten' = IF place = Begun(l) THEN forgotten ELSE forgotten \cup {l}
    BY DEF StatLog
  <2>2. place \in Offset
    BY <2>1, PlaceType DEF Loaded
  <2>3. From(l, place) \in Position /\ file[l].inode \in 0..Epochs
    BY <2>2, PlaceType, IntakeAssumption DEF TypeOK
  <2>4. QED
    BY <2>1, <2>3 DEF TypeOK, Offset
<1>2. fate' \in [Line -> Fate]
  BY SettleType DEF StatLog, Fate
<1>3. pc' \in {"eve_read", "filter_read"}
  BY DEF StatLog, ReadAt
<1>4. QED
  BY <1>1, <1>2, <1>3 DEF TypeOK, StatLog

LEMMA EveReadType ==
  ASSUME TypeOK, EveRead
  PROVE  TypeOK'
<1>1. "eve" \in Present /\ Take("eve")
  BY DEF EveRead
<1>2. saved' \in [Present -> Offset]
  BY <1>1, PositionType, KeepType DEF EveRead, TypeOK
<1>3. QED
  BY <1>1, <1>2, TakeType DEF TypeOK, resetVars

LEMMA FilterReadType ==
  ASSUME TypeOK, FilterRead
  PROVE  TypeOK'
<1> DEFINE end == IF Over("filter", look.offset)
                    THEN Smaller(2 * (look.offset \div 2 + MaxLines + 1), file["filter"].size)
                    ELSE Ended("filter")
<1>1. "filter" \in Present /\ Take("filter")
  BY DEF FilterRead
<1>2. 2 * (look.offset \div 2 + MaxLines + 1) \in Nat
  BY IntakeAssumption DEF TypeOK, Offset, Position
<1>3. end \in Position
  BY <1>1, <1>2, PositionType
<1>4. saved' \in [Present -> Offset]
  <2>1. Keep("filter", end) \/ UNCHANGED saved
    BY DEF FilterRead
  <2>2. QED
    BY <1>1, <1>3, <2>1, KeepType DEF TypeOK
<1>5. QED
  BY <1>1, <1>4, TakeType DEF TypeOK, resetVars

LEMMA InsertType ==
  ASSUME TypeOK, Insert
  PROVE  TypeOK'
<1>1. batch' \subseteq Line
  BY DEF TypeOK, Insert, FirstOf
<1>2. fate' \in [Line -> Fate]
  BY DEF TypeOK, Insert, Settle, Fate
<1>3. QED
  BY <1>1, <1>2 DEF TypeOK, Insert, resetVars

LEMMA FailType ==
  ASSUME TypeOK, Fail
  PROVE  TypeOK'
<1>1. fate' \in [Line -> Fate]
  BY SettleType DEF Fail, Fate
<1>2. look' \in Offset
  BY IntakeAssumption DEF Fail, Absent, Offset, NoInode, Position
<1>3. failures' \in 0..MaxFailures
  BY IntakeAssumption DEF TypeOK, Fail
<1>4. QED
  BY <1>1, <1>2, <1>3 DEF TypeOK, Fail, resetVars

LEMMA LogsType ==
  ASSUME TypeOK, NEW l \in Present, Write(l) \/ Rotate(l) \/ Truncate(l)
  PROVE  TypeOK'
<1>1. file' \in [Present -> [epoch : 1..Epochs, inode : 1..Epochs, size : Position]]
  <2>1. file[l].size \in Nat /\ file[l].epoch \in Nat
    BY DEF TypeOK, Position
  <2>2. QED
    BY <2>1, IntakeAssumption DEF TypeOK, Write, Rotate, Truncate, Position
<1>2. QED
  BY <1>1 DEF TypeOK, Write, Rotate, Truncate, resetVars

LEMMA MaintenanceType ==
  ASSUME TypeOK, Maintenance
  PROVE  TypeOK'
<1>1. Absent \in Offset
  BY IntakeAssumption DEF Absent, Offset, NoInode, Position
<1>2. ASSUME NEW l \in Present, RemoveOffset(l)
      PROVE  TypeOK'
  BY <1>1, <1>2 DEF TypeOK, RemoveOffset, resetVars
<1>3. CASE StartReset
  BY <1>3 DEF TypeOK, StartReset
<1>4. CASE OffsetsRemoved \/ Restart
  BY <1>4 DEF TypeOK, OffsetsRemoved, Restart, resetVars
<1>5. CASE SeedStat
  BY <1>5, PlaceType DEF TypeOK, SeedStat
<1>6. CASE SeedWrite
  <2>1. saved' \in [Present -> Offset]
    BY <1>6 DEF TypeOK, SeedWrite
  <2>2. fate' \in [Line -> Fate]
    BY <1>6, SettleType DEF SeedWrite, Fate
  <2>3. QED
    BY <1>1, <1>6, <2>1, <2>2 DEF TypeOK, SeedWrite
<1>7. CASE EndReset
  BY <1>1, <1>7 DEF TypeOK, EndReset
<1>8. QED
  BY <1>2, <1>3, <1>4, <1>5, <1>6, <1>7 DEF Maintenance

LEMMA InitType == Init => TypeOK
  BY IntakeAssumption DEF Init, TypeOK, Offset, Position, Absent, NoInode, Fate

LEMMA NextType == TypeOK /\ [Next]_vars => TypeOK'
<1> SUFFICES ASSUME TypeOK, [Next]_vars
             PROVE  TypeOK'
  OBVIOUS
<1>1. ASSUME NEW l \in Log, PassOver(l)
      PROVE  TypeOK'
  BY <1>1 DEF TypeOK, PassOver, After, resetVars
<1>2. ASSUME NEW l \in Log, StatLog(l)
      PROVE  TypeOK'
  BY <1>2, StatLogType DEF StatLog
<1>3. ASSUME Analyse
      PROVE  TypeOK'
  BY <1>3 DEF TypeOK, Analyse, Fate, resetVars
<1>4. CASE UNCHANGED vars
  BY <1>4 DEF TypeOK, vars
<1>5. QED
  BY <1>1, <1>2, <1>3, <1>4, EveReadType, FilterReadType, InsertType, FailType, LogsType,
     MaintenanceType DEF Next, Service, Environment

(* Every variable keeps to its type: positions stay within the file, lines   *)
(* and fates are those there are.                                            *)
THEOREM IntakeTypeCorrect == Spec => []TypeOK
<1>1. QED
  BY InitType, NextType, PTL DEF Spec

-----------------------------------------------------------------------------
(* The collectors.  A place in a log may be saved, or be the start of a read,*)
(* only if the lines before it are accounted for; in the filter log a line   *)
(* may be passed over that has a full batch of such lines before it.         *)

Excused(l, k) ==
  \/ Accounted(LineAt(l, k))
  \/ /\ l = "filter" /\ MaxLines <= k
     /\ \A j \in k - MaxLines .. k - 1 : Accounted(LineAt(l, j))

(* Inodes are used once, and a file that was not emptied in place is         *)
(* recognized by its inode.                                                  *)
Sound(l, place) ==
  /\ place.inode <= file[l].epoch
  /\ place.inode = file[l].inode /\ file[l].inode = file[l].epoch =>
       /\ place.offset <= file[l].size
       /\ \A k \in Written(l) : 2 * k + 2 <= place.offset => Excused(l, k)

(* What a reset has seen of the log it is about to leave behind. *)
Seeded(l) ==
  l = "eve" /\ reset = "write" =>
    /\ seed.inode <= file[l].epoch
    /\ seed.inode = file[l].inode /\ file[l].inode = file[l].epoch =>
         seed.offset <= file[l].size

SoundLog(l) ==
  /\ file[l].inode <= file[l].epoch
  /\ Sound(l, saved[l])
  /\ pc = ReadAt(l) => Sound(l, look)
  /\ Seeded(l)

AllSound == \A l \in Present : SoundLog(l)

(* Nothing that was accounted for is forgotten by a step that keeps the file.*)
Remembers == \A x \in Line : Accounted(x) => Accounted(x)'

LEMMA ExcusedStays ==
  ASSUME TypeOK, NEW l \in Present, NEW k \in Written(l), Excused(l, k),
         file'[l].epoch = file[l].epoch, Remembers
  PROVE  Excused(l, k)'
<1>1. \A n \in 0..LinesPerFile - 1 : LineAt(l, n) \in Line /\ LineAt(l, n)' = LineAt(l, n)
  BY LineAtType DEF LineAt
<1>2. k \in 0..LinesPerFile - 1
  BY DEF Written
<1>3. \A n \in 0..LinesPerFile - 1 : Accounted(LineAt(l, n)) => Accounted(LineAt(l, n))'
  <2>1. ASSUME NEW x \in Line, Accounted(x)
        PROVE  fate'[x] # "new" \/ x \in batch'
    BY <2>1 DEF Remembers, Accounted
  <2>2. QED
    BY <1>1, <2>1 DEF Accounted
<1>4. CASE Accounted(LineAt(l, k))
  BY <1>2, <1>3, <1>4 DEF Excused
<1>5. CASE /\ l = "filter" /\ MaxLines <= k
           /\ \A j \in k - MaxLines .. k - 1 : Accounted(LineAt(l, j))
  <2>1. k - MaxLines .. k - 1 \subseteq 0..LinesPerFile - 1
    BY <1>2, <1>5, IntakeAssumption
  <2>2. QED
    BY <1>3, <1>5, <2>1 DEF Excused
<1>6. QED
  BY <1>4, <1>5 DEF Excused

LEMMA SoundStays ==
  ASSUME TypeOK, NEW l \in Present, NEW place \in Offset, Sound(l, place),
         file'[l] = file[l], Remembers
  PROVE  Sound(l, place)'
<1>1. Written(l)' = Written(l)
  BY DEF Written
<1>2. \A k \in Written(l) : Excused(l, k) => Excused(l, k)'
  BY ExcusedStays
<1>3. QED
  BY <1>1, <1>2 DEF Sound

(* A step of the service or of maintenance that touches neither the log nor  *)
(* the places in it. *)
LEMMA LogStays ==
  ASSUME TypeOK, NEW l \in Present, SoundLog(l), file'[l] = file[l],
         saved'[l] = saved[l], Remembers,
         pc' = ReadAt(l) => pc = ReadAt(l) /\ look' = look,
         reset' = "write" => reset = "write" /\ seed' = seed
  PROVE  SoundLog(l)'
<1>1. saved[l] \in Offset /\ look \in Offset
  BY DEF TypeOK
<1>2. Sound(l, saved[l]) /\ (pc = ReadAt(l) => Sound(l, look))
  BY DEF SoundLog
<1>3. Sound(l, saved[l])'
  BY <1>1, <1>2, SoundStays DEF Sound
<1>4. pc' = ReadAt(l) => Sound(l, look)'
  BY <1>1, <1>2, SoundStays DEF Sound
<1>5. Seeded(l)'
  BY DEF SoundLog, Seeded
<1>6. QED
  BY <1>3, <1>4, <1>5 DEF SoundLog, ReadAt

LEMMA SettleRemembers ==
  ASSUME TypeOK, NEW lines, NEW new \in Fate \ {"new"}, Settle(lines, new),
         batch \subseteq batch' \cup lines
  PROVE  Remembers
  BY DEF TypeOK, Settle, Remembers, Accounted

LEMMA TakeRemembers ==
  ASSUME TypeOK, NEW l \in Present, Take(l)
  PROVE  Remembers
<1>1. batch \subseteq batch'
  BY DEF Take
<1>2. \A x \in Line : fate[x] # "new" => fate'[x] = fate[x]
  BY DEF TypeOK, Take
<1>3. QED
  BY <1>1, <1>2 DEF Remembers, Accounted

(* Without more than MaxLines lines to read, the loop gets to them all. *)
LEMMA AllReached ==
  ASSUME TypeOK, NEW l \in Present, NEW from \in Position, ~Over(l, from)
  PROVE  Reached(l, from) = Touched(l, from)
<1> DEFINE start == from \div 2
<1>1. start \in Nat /\ 2 * start <= from /\ from <= 2 * start + 1
  BY IntakeAssumption DEF Position
<1>2. file[l].size \in Nat
  BY DEF TypeOK, Position
<1>3. ASSUME NEW k \in Touched(l, from), ~(k < start + MaxLines)
      PROVE  FALSE
  <2>1. k \in Nat /\ k <= LinesPerFile - 1 /\ 2 * k < file[l].size
    BY <1>3, IntakeAssumption DEF Touched
  <2>2. start..k \subseteq Touched(l, from)
    <3> SUFFICES ASSUME NEW n \in start..k
                 PROVE  n \in Touched(l, from)
      OBVIOUS
    <3> HIDE DEF start
    <3>1. n \in 0..LinesPerFile - 1 /\ 2 * n + 2 > from /\ 2 * n < file[l].size
      BY <1>1, <1>2, <2>1, IntakeAssumption DEF Position
    <3>2. QED
      BY <3>1 DEF Touched
  <2>3. IsFiniteSet(0..LinesPerFile - 1) /\ Touched(l, from) \subseteq 0..LinesPerFile - 1
    <3>1. 0 \in Int /\ LinesPerFile - 1 \in Int
      BY IntakeAssumption
    <3>2. IsFiniteSet(0..LinesPerFile - 1)
      BY <3>1, FS_Interval
    <3>3. QED
      BY <3>2 DEF Touched
  <2>4. IsFiniteSet(Touched(l, from))
    BY <2>3, FS_Subset
  <2>5. Cardinality(start..k) <= Cardinality(Touched(l, from))
    BY <2>2, <2>4, FS_Subset
  <2>6. Cardinality(start..k) > MaxLines
    <3> HIDE DEF start
    <3>1. Cardinality(start..k) = IF start > k THEN 0 ELSE k - start + 1
      BY <1>1, <2>1, FS_Interval
    <3>2. QED
      BY <1>1, <1>3, <2>1, <3>1, IntakeAssumption
  <2>7. Cardinality(Touched(l, from)) \in Nat /\ Cardinality(start..k) \in Nat
    BY <2>4, <1>1, <2>1, FS_CardinalityType, FS_Interval
  <2>8. QED
    BY <2>5, <2>6, <2>7, IntakeAssumption DEF Over
<1>4. QED
  BY <1>3 DEF Reached

(* What a read gets to is accounted for. *)
LEMMA ReadAccounts ==
  ASSUME TypeOK, NEW l \in Present, Take(l), NEW k \in Written(l),
         k \in Reached(l, look.offset)
  PROVE  Accounted(LineAt(l, k))'
<1> DEFINE x == LineAt(l, k)
           intact == {LineAt(l, n) : n \in Intact(l, look.offset)}
           reached == {LineAt(l, n) : n \in Reached(l, look.offset)}
           taken == FirstOf(intact, QueueLimit)
<1>1. x \in reached
  OBVIOUS
<1>2. x \in Line
  BY LineAtType DEF Written
<1>3. /\ batch' = batch \cup taken
      /\ fate' = [y \in Line |->
           IF fate[y] # "new" THEN fate[y]
           ELSE IF y \in reached \ intact THEN "torn"
           ELSE IF y \in intact \ taken THEN "dropped" ELSE "new"]
  BY DEF Take
<1>4. x' = x
  BY DEF Take, LineAt
<1> HIDE DEF x, intact, reached, taken
<1>5. fate'[x] # "new" \/ x \in batch'
  BY <1>1, <1>2, <1>3
<1>6. QED
  BY <1>4, <1>5 DEF Accounted, x

(* The two ways a read may move the offset: to the end, with all the lines   *)
(* there are, or behind the line that came after a full batch.               *)
LEMMA ReadExcuses ==
  ASSUME TypeOK, NEW l \in Present, Take(l), Sound(l, look), NEW end \in Nat,
         look.inode = file[l].inode, file[l].inode = file[l].epoch,
         \/ ~Over(l, look.offset) /\ end = Ended(l)
         \/ /\ l = "filter" /\ Over(l, look.offset)
            /\ end = Smaller(2 * (look.offset \div 2 + MaxLines + 1), file[l].size)
  PROVE  end <= file[l].size /\ \A k \in Written(l) : 2 * k + 2 <= end => Excused(l, k)'
<1> DEFINE start == look.offset \div 2
<1>1. /\ look.offset \in Position /\ look.offset \in Nat /\ file[l].size \in Nat
      /\ look.offset <= file[l].size
      /\ \A k \in Written(l) : 2 * k + 2 <= look.offset => Excused(l, k)
  BY DEF TypeOK, Offset, Position, Sound
<1>2. start \in Nat /\ 2 * start <= look.offset /\ look.offset <= 2 * start + 1
  BY <1>1
<1>3. Remembers /\ UNCHANGED file
  BY TakeRemembers DEF Take
<1>4. \A k \in Written(l) : k \in Nat /\ k <= LinesPerFile - 1 /\ 2 * k + 2 <= file[l].size
  BY IntakeAssumption DEF Written
<1>5. \A k \in Written(l) : 2 * k + 2 > look.offset => k \in Touched(l, look.offset)
  BY <1>1, <1>4 DEF Written, Touched
<1> HIDE DEF start
<1>6. ASSUME NEW k \in Written(l), 2 * k + 2 <= look.offset
      PROVE  Excused(l, k)'
  BY <1>1, <1>3, <1>6, ExcusedStays
<1>7. ASSUME NEW k \in Written(l), k \in Reached(l, look.offset)
      PROVE  Excused(l, k)'
  <2>1. Accounted(LineAt(l, k))'
    BY <1>7, ReadAccounts
  <2>2. QED
    BY <2>1 DEF Excused
<1>8. CASE ~Over(l, look.offset) /\ end = Ended(l)
  <2>1. end = file[l].size
    BY <1>1, <1>8 DEF Ended, Larger
  <2>2. ASSUME NEW k \in Written(l)
        PROVE  Excused(l, k)'
    <3>1. CASE 2 * k + 2 > look.offset
      BY <1>1, <1>5, <1>7, <1>8, <3>1, AllReached
    <3>2. CASE 2 * k + 2 <= look.offset
      BY <1>6, <3>2
    <3>3. QED
      BY <1>1, <1>4, <3>1, <3>2
  <2>3. QED
    BY <1>1, <2>1, <2>2
<1>9. CASE /\ l = "filter"
           /\ end = Smaller(2 * (start + MaxLines + 1), file[l].size)
  <2>1. end <= file[l].size /\ end <= 2 * (start + MaxLines + 1)
    BY <1>1, <1>2, <1>9, IntakeAssumption DEF Smaller
  <2>2. ASSUME NEW k \in Written(l), 2 * k + 2 <= end
        PROVE  Excused(l, k)'
    <3>1. k <= start + MaxLines
      BY <1>2, <1>4, <2>1, <2>2, IntakeAssumption
    <3>2. CASE 2 * k + 2 <= look.offset
      BY <1>6, <3>2
    <3>3. CASE 2 * k + 2 > look.offset /\ k < start + MaxLines
      BY <1>5, <1>7, <3>3 DEF Reached, start
    <3>4. CASE k = start + MaxLines
      <4>1. k \in Nat /\ MaxLines <= k /\ k - MaxLines = start
        BY <1>2, <1>4, <3>4, IntakeAssumption
      <4>2. ASSUME NEW j \in start .. k - 1
            PROVE  Accounted(LineAt(l, j))'
        <5>1. j \in Nat /\ j <= LinesPerFile - 1 /\ 2 * j + 2 <= file[l].size
              /\ 2 * j + 2 > look.offset /\ j < start + MaxLines
          BY <1>1, <1>2, <1>4, <3>4, <4>1, IntakeAssumption
        <5>2. j \in Written(l)
          BY <5>1, IntakeAssumption DEF Written
        <5>3. j \in Reached(l, look.offset)
          BY <1>5, <5>1, <5>2 DEF Reached, start
        <5>4. QED
          BY <5>2, <5>3, ReadAccounts
      <4>3. QED
        BY <1>9, <4>1, <4>2 DEF Excused
    <3>5. QED
      BY <1>1, <1>2, <1>4, <3>1, <3>2, <3>3, <3>4, IntakeAssumption
  <2>3. QED
    BY <2>1, <2>2
<1>10. QED
  BY <1>8, <1>9 DEF start

LEMMA ReadSound ==
  ASSUME TypeOK, NEW l \in Present, SoundLog(l), Take(l),
         \/ UNCHANGED saved
         \/ ~Over(l, look.offset) /\ Keep(l, Ended(l))
         \/ /\ l = "filter" /\ Over(l, look.offset)
            /\ Keep(l, Smaller(2 * (look.offset \div 2 + MaxLines + 1), file[l].size))
  PROVE  SoundLog(l)'
<1>1. /\ pc = ReadAt(l) /\ pc' # ReadAt(l) /\ UNCHANGED <<file, reset, seed>> /\ Remembers
      /\ Seeded(l)'
  BY TakeRemembers, IntakeAssumption DEF Take, After, ReadAt, resetVars, SoundLog, Seeded
<1>2. look \in Offset /\ saved[l] \in Offset /\ file[l].size \in Nat /\ look.offset \in Nat
  BY DEF TypeOK, Offset, Position
<1>3. Sound(l, look) /\ Sound(l, saved[l])
  BY <1>1 DEF SoundLog
<1>4. CASE UNCHANGED saved
  BY <1>1, <1>4, LogStays
<1>5. ASSUME NEW end \in Nat, Keep(l, end),
             \/ ~Over(l, look.offset) /\ end = Ended(l)
             \/ /\ l = "filter" /\ Over(l, look.offset)
                /\ end = Smaller(2 * (look.offset \div 2 + MaxLines + 1), file[l].size)
      PROVE  SoundLog(l)'
  <2>1. saved'[l].inode = look.inode /\ saved'[l].offset = end
    BY <1>5 DEF Keep, TypeOK
  <2>2. look.inode = file[l].inode /\ file[l].inode = file[l].epoch =>
          end <= file[l].size /\ \A k \in Written(l) : 2 * k + 2 <= end => Excused(l, k)'
    BY <1>3, <1>5, ReadExcuses
  <2>3. Written(l)' = Written(l)
    BY <1>1 DEF Written
  <2>4. Sound(l, saved[l])'
    BY <1>1, <1>3, <2>1, <2>2, <2>3 DEF Sound
  <2>5. file'[l].inode <= file'[l].epoch
    BY <1>1 DEF SoundLog
  <2>6. QED
    BY <1>1, <2>4, <2>5 DEF SoundLog, ReadAt
<1>6. Ended(l) \in Nat
      /\ Smaller(2 * (look.offset \div 2 + MaxLines + 1), file[l].size) \in Nat
  BY <1>2, IntakeAssumption DEF Ended, Larger, Smaller
<1>7. QED
  BY <1>4, <1>5, <1>6

(* A poll begins at the start of a file it does not know or of which it has  *)
(* lost the place, at the saved offset of one that it knows, and at the end  *)
(* of a filter log for which there is none yet.                              *)
LEMMA StatSound ==
  ASSUME TypeOK, NEW l \in Present, SoundLog(l), StatLog(l)
  PROVE  SoundLog(l)'
<1> DEFINE early == {LineAt(l, k) : k \in
                       {n \in 0..LinesPerFile - 1 : l = "filter" /\ saved[l] = Absent
                                                      /\ 2 * n < file[l].size}}
<1>1. PICK place \in Loaded(l) :
        look' = [inode |-> file[l].inode, offset |-> From(l, place)]
  BY DEF StatLog
<1>2. /\ UNCHANGED <<file, saved, batch, reset, seed>> /\ Remembers
      /\ Settle(early, "waived")
  BY SettleRemembers DEF StatLog, Fate
<1>3. /\ saved[l] \in Offset /\ file[l].size \in Nat /\ file[l].inode <= file[l].epoch
      /\ Sound(l, saved[l]) /\ Seeded(l)'
  BY <1>2 DEF TypeOK, Position, SoundLog, Seeded
<1>4. Sound(l, saved[l])' /\ Written(l)' = Written(l)
  BY <1>2, <1>3, SoundStays DEF Sound, Written
<1>5. \A k \in Written(l) : k \in 0..LinesPerFile - 1 /\ k \in Nat /\ 2 * k + 2 <= file[l].size
  BY IntakeAssumption DEF Written
<1> HIDE DEF early
<1>6. SUFFICES Sound(l, look)'
  BY <1>2, <1>3, <1>4 DEF SoundLog
<1>7. CASE From(l, place) = 0
  <2>1. look'.offset = 0 /\ look'.inode = file[l].inode
    BY <1>1, <1>7
  <2>2. \A k \in Written(l) : ~(2 * k + 2 <= 0)
    BY <1>5
  <2>3. QED
    BY <1>2, <1>3, <1>4, <2>1, <2>2 DEF Sound
<1>8. CASE place = Begun(l) /\ l = "filter" /\ saved[l] = Absent
  <2>1. look'.offset = file[l].size /\ look'.inode = file[l].inode
    BY <1>1, <1>3, <1>8 DEF Begun, End, From
  <2>2. ASSUME NEW k \in Written(l)
        PROVE  Excused(l, k)'
    <3>1. LineAt(l, k) \in early /\ LineAt(l, k) \in Line
      <4>1. 2 * k < file[l].size
        BY <1>3, <1>5
      <4>2. QED
        BY <1>5, <1>8, <4>1, LineAtType DEF early
    <3>2. fate'[LineAt(l, k)] # "new" /\ LineAt(l, k)' = LineAt(l, k)
      BY <1>2, <3>1 DEF Settle, LineAt
    <3>3. QED
      BY <3>2 DEF Excused, Accounted
  <2>3. QED
    BY <1>2, <1>3, <1>4, <2>1, <2>2 DEF Sound
<1>9. CASE place = saved[l] /\ From(l, place) # 0
  <2>1. look'.offset = saved[l].offset /\ saved[l].inode = file[l].inode
        /\ look'.inode = file[l].inode
    BY <1>1, <1>9 DEF From
  <2>2. QED
    BY <1>2, <1>3, <1>4, <2>1 DEF Sound
<1>10. From(l, Absent) = 0
  BY DEF From, Absent
<1>11. QED
  BY <1>7, <1>8, <1>9, <1>10 DEF Loaded, Begun

(* A log grows at its end only, a new file has an inode of its own, and one  *)
(* that was emptied keeps an inode that is not its own.                      *)
LEMMA SoundInNewFile ==
  ASSUME TypeOK, NEW l \in Present, NEW place \in Offset, Sound(l, place),
         file[l].inode <= file[l].epoch, Write(l) \/ Rotate(l) \/ Truncate(l)
  PROVE  Sound(l, place)' /\ file'[l].inode <= file'[l].epoch
<1>1. /\ file[l].epoch \in Nat /\ file[l].inode \in Nat /\ file[l].size \in Nat
      /\ place.inode \in Nat /\ place.offset \in Nat
      /\ file \in [Present -> [epoch : 1..Epochs, inode : 1..Epochs, size : Position]]
  BY IntakeAssumption DEF TypeOK, Offset, Position
<1>2. CASE Write(l)
  <2>1. file'[l] = [file[l] EXCEPT !.size = @ + 1] /\ UNCHANGED <<fate, batch>>
    BY <1>1, <1>2 DEF Write
  <2>2. /\ file'[l].epoch = file[l].epoch /\ file'[l].inode = file[l].inode
        /\ file'[l].size = file[l].size + 1
    BY <1>1, <2>1
  <2>3. Remembers
    BY <2>1 DEF Remembers, Accounted
  <2>4. ASSUME place.inode = file[l].inode, file[l].inode = file[l].epoch,
               NEW k \in Written(l)', 2 * k + 2 <= place.offset
        PROVE  Excused(l, k)'
    <3>1. k \in 0..LinesPerFile - 1 /\ place.offset <= file[l].size
      BY <2>4 DEF Written, Sound
    <3>2. k \in Written(l)
      BY <1>1, <2>4, <3>1, IntakeAssumption DEF Written
    <3>3. Excused(l, k)
      BY <2>4, <3>2 DEF Sound
    <3>4. QED
      BY <2>2, <2>3, <3>2, <3>3, ExcusedStays
  <2>5. QED
    BY <1>1, <2>2, <2>4 DEF Sound
<1>3. CASE Rotate(l)
  <2>1. file'[l].inode = file[l].epoch + 1 /\ file'[l].epoch = file[l].epoch + 1
    BY <1>1, <1>3 DEF Rotate
  <2>2. place.inode <= file[l].epoch
    BY DEF Sound
  <2>3. QED
    BY <1>1, <2>1, <2>2 DEF Sound
<1>4. CASE Truncate(l)
  <2>1. file'[l].inode = file[l].inode /\ file'[l].epoch = file[l].epoch + 1
    BY <1>1, <1>4 DEF Truncate
  <2>2. place.inode <= file[l].epoch
    BY DEF Sound
  <2>3. QED
    BY <1>1, <2>1, <2>2 DEF Sound
<1>5. QED
  BY <1>2, <1>3, <1>4

LEMMA LogsSound ==
  ASSUME TypeOK, AllSound, NEW l \in Present, Write(l) \/ Rotate(l) \/ Truncate(l),
         NEW o \in Present
  PROVE  SoundLog(o)'
<1>1. UNCHANGED <<saved, look, pc, batch, reset, seed, fate>> /\ SoundLog(o)
  BY DEF Write, Rotate, Truncate, AllSound, resetVars
<1>2. CASE o = l
  <2>1. saved[l] \in Offset /\ look \in Offset
    BY DEF TypeOK
  <2>2. Seeded(l)'
    <3>1. /\ file[l].epoch \in Nat /\ file[l].inode \in Nat /\ file[l].size \in Nat
          /\ seed.inode \in Nat /\ seed.offset \in Nat
          /\ file \in [Present -> [epoch : 1..Epochs, inode : 1..Epochs, size : Position]]
      BY IntakeAssumption DEF TypeOK, Offset, Position
    <3>2. Seeded(l) /\ file[l].inode <= file[l].epoch
      BY <1>1, <1>2 DEF SoundLog
    <3>3. CASE Write(l)
      <4>1. /\ file'[l].epoch = file[l].epoch /\ file'[l].inode = file[l].inode
            /\ file'[l].size = file[l].size + 1
        BY <3>1, <3>3 DEF Write
      <4>2. QED
        BY <1>1, <3>1, <3>2, <4>1 DEF Seeded
    <3>4. CASE Rotate(l) \/ Truncate(l)
      <4>1. /\ file'[l].epoch = file[l].epoch + 1
            /\ file'[l].inode \in {file[l].inode, file[l].epoch + 1}
        BY <3>1, <3>4 DEF Rotate, Truncate
      <4>2. QED
        BY <1>1, <3>1, <3>2, <4>1 DEF Seeded
    <3>5. QED
      BY <3>3, <3>4
  <2>3. QED
    BY <1>1, <1>2, <2>1, <2>2, SoundInNewFile DEF SoundLog, Sound, ReadAt
<1>3. CASE o # l
  <2>1. file'[o] = file[o]
    BY <1>3 DEF Write, Rotate, Truncate, TypeOK
  <2>2. Remembers
    BY <1>1 DEF Remembers, Accounted
  <2>3. QED
    BY <1>1, <2>1, <2>2, LogStays
<1>4. QED
  BY <1>2, <1>3

(* A reset seeds the EVE log where it has seen its end, and waives what is   *)
(* before it.                                                                *)
LEMMA SeedWriteSound ==
  ASSUME TypeOK, "eve" \in Present, SoundLog("eve"), SeedWrite
  PROVE  SoundLog("eve")'
<1> DEFINE lines == Before(seed) \ batch
<1>1. /\ UNCHANGED <<file, batch, pc, look>> /\ Settle(lines, "waived") /\ Remembers
      /\ reset' = "none" /\ saved'["eve"] = seed /\ reset = "write"
  BY SettleRemembers DEF SeedWrite, TypeOK, Fate
<1>2. /\ file["eve"].size \in Nat /\ Written("eve")' = Written("eve")
      /\ seed.offset \in Nat /\ look \in Offset /\ seed.inode <= file["eve"].epoch
      /\ file["eve"].inode <= file["eve"].epoch
      /\ pc = ReadAt("eve") => Sound("eve", look)
  BY <1>1 DEF TypeOK, Offset, Position, Written, SoundLog, Seeded
<1> HIDE DEF lines
<1>3. ASSUME seed.inode = file["eve"].inode, file["eve"].inode = file["eve"].epoch
      PROVE  /\ seed.offset <= file["eve"].size
             /\ \A k \in Written("eve") : 2 * k + 2 <= seed.offset => Excused("eve", k)'
  <2>1. seed.offset <= file["eve"].size
    BY <1>1, <1>3 DEF SoundLog, Seeded
  <2>2. From("eve", seed) = seed.offset
    BY <1>2, <1>3, <2>1 DEF From
  <2>3. ASSUME NEW k \in Written("eve"), 2 * k + 2 <= seed.offset
        PROVE  Excused("eve", k)'
    <3>1. LineAt("eve", k) \in Line /\ LineAt("eve", k)' = LineAt("eve", k) /\ k \in Nat
      BY <1>1, LineAtType, IntakeAssumption DEF Written, LineAt
    <3>2. LineAt("eve", k) \in lines \/ LineAt("eve", k) \in batch
      <4>1. 2 * k < seed.offset
        BY <1>2, <2>3, <3>1
      <4>2. QED
        BY <2>2, <3>1, <4>1 DEF LineAt, lines, Before
    <3>3. fate'[LineAt("eve", k)] # "new" \/ LineAt("eve", k) \in batch'
      BY <1>1, <3>1, <3>2 DEF Settle
    <3>4. QED
      BY <3>1, <3>3 DEF Excused, Accounted
  <2>4. QED
    BY <2>1, <2>3
<1>4. Sound("eve", saved["eve"])'
  <2>1. file' = file /\ saved'["eve"] = seed /\ Written("eve")' = Written("eve")
    BY <1>1, <1>2
  <2>2. seed.inode <= file["eve"].epoch
    BY <1>2
  <2>3. QED
    BY <1>3, <2>1, <2>2 DEF Sound
<1>5. pc' = ReadAt("eve") => Sound("eve", look)'
  <2>1. pc = ReadAt("eve") => Sound("eve", look)'
    BY <1>1, <1>2, SoundStays DEF Sound
  <2>2. QED
    BY <1>1, <2>1 DEF ReadAt
<1>6. QED
  BY <1>1, <1>2, <1>4, <1>5 DEF SoundLog, Seeded

LEMMA MaintenanceSound ==
  ASSUME TypeOK, NEW l \in Present, SoundLog(l), Maintenance
  PROVE  SoundLog(l)'
<1>1. ASSUME UNCHANGED <<file, saved, look, batch, fate>>, pc' = ReadAt(l) => pc = ReadAt(l),
             reset' # "write"
      PROVE  SoundLog(l)'
  <2>1. Remembers
    BY <1>1 DEF Remembers, Accounted
  <2>2. QED
    BY <1>1, <2>1, LogStays
<1>2. ASSUME NEW o \in Present, RemoveOffset(o)
      PROVE  SoundLog(l)'
  <2>1. /\ UNCHANGED <<file, pc, look, batch, fate, reset, seed>> /\ Remembers
        /\ reset' # "write"
    BY <1>2 DEF RemoveOffset, resetVars, Remembers, Accounted
  <2>2. CASE o # l
    <3>1. saved'[l] = saved[l]
      BY <1>2, <2>2 DEF RemoveOffset, TypeOK
    <3>2. QED
      BY <2>1, <3>1, LogStays
  <2>3. CASE o = l
    <3>1. saved'[l] = Absent
      BY <1>2, <2>3 DEF RemoveOffset, TypeOK
    <3>2. /\ file[l].inode \in Nat \ {0} /\ file[l].epoch \in Nat /\ look \in Offset
          /\ file[l].inode <= file[l].epoch /\ (pc = ReadAt(l) => Sound(l, look))
      BY IntakeAssumption DEF TypeOK, SoundLog
    <3>3. Sound(l, saved[l])'
      BY <2>1, <3>1, <3>2 DEF Sound, Absent, NoInode
    <3>4. pc' = ReadAt(l) => Sound(l, look)'
      <4>1. pc = ReadAt(l) => Sound(l, look)'
        BY <2>1, <3>2, SoundStays DEF Sound
      <4>2. QED
        BY <2>1, <4>1 DEF ReadAt
    <3>5. QED
      BY <2>1, <3>2, <3>3, <3>4 DEF SoundLog, Seeded
  <2>4. QED
    BY <2>2, <2>3
<1>3. CASE StartReset \/ OffsetsRemoved \/ EndReset
  <2>1. pc' = ReadAt(l) => pc = ReadAt(l)
    BY <1>3 DEF StartReset, OffsetsRemoved, EndReset, ReadAt
  <2>2. UNCHANGED <<file, saved, look, batch, fate>> /\ reset' # "write"
    BY <1>3 DEF StartReset, OffsetsRemoved, EndReset
  <2>3. QED
    BY <1>1, <2>1, <2>2
<1>4. CASE Restart
  BY <1>1, <1>4 DEF Restart, ReadAt, resetVars
<1>5. CASE SeedStat
  <2>1. UNCHANGED <<file, saved, pc, look, batch, fate>> /\ Remembers /\ seed' = End("eve")
    BY <1>5 DEF SeedStat, Remembers, Accounted
  <2>2. /\ file[l].size \in Nat /\ saved[l] \in Offset /\ look \in Offset
        /\ file[l].inode <= file[l].epoch /\ file[l].inode \in Nat
        /\ Sound(l, saved[l]) /\ (pc = ReadAt(l) => Sound(l, look))
    BY DEF TypeOK, Position, SoundLog
  <2>3. Sound(l, saved[l])' /\ (pc = ReadAt(l) => Sound(l, look)')
    BY <2>1, <2>2, SoundStays DEF Sound
  <2>4. Seeded(l)'
    BY <2>1, <2>2 DEF Seeded, End
  <2>5. QED
    BY <2>1, <2>2, <2>3, <2>4 DEF SoundLog, ReadAt
<1>6. CASE SeedWrite
  <2>1. CASE l = "eve"
    BY <1>6, <2>1, SeedWriteSound
  <2>2. CASE l # "eve"
    <3>1. /\ saved'[l] = saved[l] /\ UNCHANGED <<file, pc, look, batch>> /\ Remembers
          /\ reset' # "write"
      BY <1>6, <2>2, SettleRemembers DEF SeedWrite, TypeOK, Fate
    <3>2. QED
      BY <3>1, LogStays
  <2>3. QED
    BY <2>1, <2>2
<1>7. QED
  BY <1>2, <1>3, <1>4, <1>5, <1>6 DEF Maintenance

LEMMA InsertRemembers ==
  ASSUME TypeOK, Insert
  PROVE  Remembers
<1>1. CASE Settle(batch, "dropped")
  BY <1>1, SettleRemembers DEF Fate
<1> DEFINE kept == FirstOf({x \in batch : x[1] = "eve"}, MaxQueue) \cup
                   FirstOf({x \in batch : x[1] = "filter"}, MaxQueue
                     - Cardinality(FirstOf({x \in batch : x[1] = "eve"}, MaxQueue)))
<1>2. CASE fate' = [x \in Line |->
               IF x \notin batch \/ fate[x] \notin {"new", "lost"} THEN fate[x]
               ELSE IF x \in kept THEN "stored" ELSE "dropped"]
  <2> HIDE DEF kept
  <2>1. ASSUME NEW x \in Line, Accounted(x)
        PROVE  fate'[x] # "new"
    BY <1>2, <2>1 DEF Accounted
  <2>2. QED
    BY <2>1 DEF Remembers, Accounted
<1>3. QED
  BY <1>1, <1>2 DEF Insert

LEMMA AnalyseRemembers ==
  ASSUME TypeOK, Analyse
  PROVE  Remembers
  BY DEF TypeOK, Analyse, Remembers, Accounted

LEMMA InitSound == Init => AllSound
<1> SUFFICES ASSUME Init, NEW l \in Present
             PROVE  SoundLog(l)
  BY DEF AllSound
<1>1. /\ file[l] = [epoch |-> 1, inode |-> 1, size |-> 0] /\ saved[l] = Absent
      /\ pc # ReadAt(l)
  BY DEF Init, ReadAt
<1>2. Absent.inode = 0 /\ file[l].inode = 1 /\ file[l].epoch = 1
  BY <1>1 DEF Absent, NoInode
<1>3. QED
  BY <1>1, <1>2 DEF SoundLog, Sound, Seeded, Init

LEMMA NextSound == TypeOK /\ AllSound /\ [Next]_vars => AllSound'
<1> SUFFICES ASSUME TypeOK, AllSound, [Next]_vars, NEW o \in Present
             PROVE  SoundLog(o)'
  BY DEF AllSound
<1>1. SoundLog(o) /\ o \in Log
  BY IntakeAssumption DEF AllSound, Log
<1>2. ASSUME NEW l \in Log, PassOver(l)
      PROVE  SoundLog(o)'
  <2>1. Remembers /\ pc' # ReadAt(o) /\ UNCHANGED <<file, saved, reset, seed>>
    BY <1>2 DEF PassOver, After, ReadAt, Remembers, Accounted, resetVars
  <2>2. QED
    BY <1>1, <2>1, LogStays
<1>3. ASSUME NEW l \in Log, StatLog(l)
      PROVE  SoundLog(o)'
  <2>1. CASE o = l
    BY <1>1, <1>3, <2>1, StatSound
  <2>2. CASE o # l
    <3>1. pc' # ReadAt(o) /\ UNCHANGED <<file, saved, batch, reset, seed>>
      BY <1>1, <1>3, <2>2 DEF StatLog, ReadAt, Log
    <3>2. Remembers
      BY <1>3, <3>1, SettleRemembers DEF StatLog, Fate
    <3>3. QED
      BY <1>1, <3>1, <3>2, LogStays
  <2>3. QED
    BY <2>1, <2>2
<1>4. ASSUME NEW l \in Present, Take(l), o # l, saved'[o] = saved[o]
      PROVE  SoundLog(o)'
  <2>1. UNCHANGED <<file, reset, seed>> /\ pc' # ReadAt(o) /\ Remembers
    BY <1>4, TakeRemembers DEF Take, After, ReadAt, resetVars
  <2>2. QED
    BY <1>1, <1>4, <2>1, LogStays
<1>5. CASE EveRead
  <2>1. "eve" \in Present /\ Take("eve")
    BY <1>5 DEF EveRead
  <2>2. CASE o = "eve"
    BY <1>1, <1>5, <2>1, <2>2, ReadSound DEF EveRead
  <2>3. CASE o # "eve"
    <3>1. saved'[o] = saved[o]
      BY <1>5, <2>3 DEF EveRead, Keep, TypeOK
    <3>2. QED
      BY <1>4, <2>1, <2>3, <3>1
  <2>4. QED
    BY <2>2, <2>3
<1>6. CASE FilterRead
  <2>1. "filter" \in Present /\ Take("filter")
    BY <1>6 DEF FilterRead
  <2>2. CASE o = "filter"
    BY <1>1, <1>6, <2>1, <2>2, ReadSound DEF FilterRead
  <2>3. CASE o # "filter"
    <3>1. saved'[o] = saved[o]
      BY <1>6, <2>3 DEF FilterRead, Keep, TypeOK
    <3>2. QED
      BY <1>4, <2>1, <2>3, <3>1
  <2>4. QED
    BY <2>2, <2>3
<1>7. CASE Insert \/ Analyse \/ Fail
  <2>1. pc' # ReadAt(o) /\ UNCHANGED <<file, saved, reset, seed>>
    BY <1>7 DEF Insert, Analyse, Fail, ReadAt, resetVars
  <2>2. Remembers
    BY <1>7, InsertRemembers, AnalyseRemembers, SettleRemembers DEF Fail, Fate
  <2>3. QED
    BY <1>1, <2>1, <2>2, LogStays
<1>8. CASE UNCHANGED vars
  <2>1. Remembers /\ UNCHANGED <<file, saved, look, pc, reset, seed>>
    BY <1>8 DEF vars, Remembers, Accounted
  <2>2. QED
    BY <1>1, <2>1, LogStays
<1>9. QED
  BY <1>1, <1>2, <1>3, <1>5, <1>6, <1>7, <1>8, LogsSound, MaintenanceSound
     DEF Next, Service, Environment

LEMMA SoundAlways == Spec => [](TypeOK /\ AllSound)
<1>1. Init => TypeOK /\ AllSound
  BY InitType, InitSound
<1>2. TypeOK /\ AllSound /\ [Next]_vars => (TypeOK /\ AllSound)'
  BY NextType, NextSound
<1>3. QED
  BY <1>1, <1>2, PTL DEF Spec

(* Whatever rotates, bursts, fails or is reset, a saved offset of the EVE    *)
(* log never lies behind a line that was neither taken nor counted as an     *)
(* error or a drop.                                                          *)
THEOREM EveSkipsNothing == Spec => []NothingSkipped
<1>1. TypeOK /\ AllSound => NothingSkipped
  <2> SUFFICES ASSUME AllSound, "eve" \in Present, NEW k \in Passed("eve")
               PROVE  Accounted(LineAt("eve", k))
    BY DEF NothingSkipped
  <2>1. Excused("eve", k)
    BY DEF AllSound, SoundLog, Sound, Passed
  <2>2. QED
    BY <2>1 DEF Excused
<1>2. QED
  BY <1>1, SoundAlways, PTL

(* Under the same disturbances the filter log loses at most every            *)
(* (MaxLines + 1)-th of its lines to the limit of a poll.                    *)
THEOREM FilterSkipsApart == Spec => []SkipsApart
<1>1. TypeOK /\ AllSound => SkipsApart
  <2> SUFFICES ASSUME AllSound, "filter" \in Present, NEW k \in Passed("filter")
               PROVE  Excused("filter", k)
    BY DEF SkipsApart, Excused
  <2>1. QED
    BY DEF AllSound, SoundLog, Sound, Passed
<1>2. QED
  BY <1>1, SoundAlways, PTL

-----------------------------------------------------------------------------
(* What failures cost.  A batch holds at most MaxLines lines of each log, as *)
(* each log is read once between two empty batches.                          *)

Part(l) == {x \in batch : x[1] = l}

SmallBatch ==
  /\ \A l \in Log : IsFiniteSet(Part(l)) /\ Cardinality(Part(l)) <= MaxLines
  /\ \A l \in Log \ Present : Part(l) = {}
  /\ pc \in {"idle", "eve_read", "down"} => batch = {}
  /\ pc \in {"filter", "filter_read"} => Part("filter") = {}

(* One read gets to at most MaxLines lines. *)
LEMMA ReachedBounded ==
  ASSUME TypeOK, NEW l \in Present, NEW S, S \subseteq {LineAt(l, k) : k \in Reached(l, look.offset)}
  PROVE  IsFiniteSet(S) /\ Cardinality(S) <= MaxLines
<1> DEFINE start == look.offset \div 2
           window == start..start + MaxLines - 1
           f == [k \in window |-> LineAt(l, k)]
           lines == {LineAt(l, k) : k \in window}
<1>1. start \in Nat /\ look.offset <= 2 * start + 1
  BY IntakeAssumption DEF TypeOK, Offset, Position
<1>2. Reached(l, look.offset) \subseteq window
  <2> SUFFICES ASSUME NEW k \in Reached(l, look.offset)
               PROVE  k \in window
    OBVIOUS
  <2>1. k \in Nat /\ 2 * k + 2 > look.offset /\ k < start + MaxLines
    BY IntakeAssumption DEF Reached, Touched
  <2>2. look.offset \in Nat /\ 2 * start <= look.offset
    BY IntakeAssumption DEF TypeOK, Offset, Position
  <2> HIDE DEF start
  <2>3. start <= k
    BY <1>1, <2>1, <2>2
  <2>4. QED
    BY <1>1, <2>1, <2>3, IntakeAssumption
<1>3. IsFiniteSet(window) /\ Cardinality(window) = MaxLines
  <2> HIDE DEF start
  <2>1. start \in Int /\ start + MaxLines - 1 \in Int
    BY <1>1, IntakeAssumption
  <2>2. ASSUME NEW stop \in Int, stop = start + MaxLines - 1
        PROVE  IsFiniteSet(start..stop) /\ Cardinality(start..stop) = MaxLines
    <3>1. IsFiniteSet(start..stop)
          /\ Cardinality(start..stop) = IF start > stop THEN 0 ELSE stop - start + 1
      BY <2>1, FS_Interval
    <3>2. QED
      BY <1>1, <2>2, <3>1, IntakeAssumption
  <2>3. QED
    BY <2>1, <2>2
<1> HIDE DEF window
<1>4. f \in Surjection(window, lines)
  BY DEF Surjection
<1>5. IsFiniteSet(lines) /\ Cardinality(lines) <= MaxLines
  BY <1>3, <1>4, FS_Surjection
<1>6. S \subseteq lines
  BY <1>2
<1>7. IsFiniteSet(S) /\ Cardinality(S) <= Cardinality(lines)
  BY <1>5, <1>6, FS_Subset
<1>8. Cardinality(S) \in Nat /\ Cardinality(lines) \in Nat
  BY <1>5, <1>7, FS_CardinalityType
<1>9. QED
  BY <1>5, <1>7, <1>8, IntakeAssumption

LEMMA TakeSmall ==
  ASSUME TypeOK, SmallBatch, NEW l \in Present, Take(l)
  PROVE  SmallBatch'
<1> DEFINE intact == {LineAt(l, k) : k \in Intact(l, look.offset)}
           taken == FirstOf(intact, QueueLimit)
<1>1. batch' = batch \cup taken /\ taken \subseteq intact
  BY DEF Take, FirstOf
<1>2. pc' = After(l) /\ pc = ReadAt(l)
  BY DEF Take
<1>3. \A x \in intact : x[1] = l
  BY DEF LineAt
<1>4. Part(l) = {}
  BY <1>2, IntakeAssumption DEF SmallBatch, ReadAt, Part
<1>5. IsFiniteSet(taken) /\ Cardinality(taken) <= MaxLines
  <2>1. taken \subseteq {LineAt(l, k) : k \in Reached(l, look.offset)}
    BY <1>1 DEF Intact
  <2>2. QED
    BY <2>1, ReachedBounded
<1> HIDE DEF intact, taken
<1>6. Part(l)' = taken
  BY <1>1, <1>3, <1>4 DEF Part
<1>7. \A o \in Log \ {l} : Part(o)' = Part(o)
  BY <1>1, <1>3 DEF Part
<1>8. l = "eve" => batch = {}
  BY <1>2 DEF SmallBatch, ReadAt
<1>9. pc' \in {"filter", "filter_read"} => Part("filter")' = {}
  BY <1>2, <1>7, <1>8, IntakeAssumption DEF After, Log, Part
<1>10. QED
  BY <1>2, <1>5, <1>6, <1>7, <1>9, IntakeAssumption DEF SmallBatch, After, Log

(* What maintenance leaves alone. *)
LEMMA MaintenanceSteps ==
  ASSUME Maintenance
  PROVE  /\ UNCHANGED <<file, look, batch, failures>>
         /\ pc' = pc \/ {pc, pc'} \subseteq {"idle", "down"}
         /\ UNCHANGED fate \/ (SeedWrite /\ Settle(Before(seed) \ batch, "waived"))
<1>1. CASE \E l \in Present : RemoveOffset(l)
  BY <1>1 DEF RemoveOffset, resetVars
<1>2. CASE StartReset \/ OffsetsRemoved \/ SeedStat \/ EndReset \/ Restart
  BY <1>2 DEF StartReset, OffsetsRemoved, SeedStat, EndReset, Restart, resetVars
<1>3. CASE SeedWrite
  BY <1>3 DEF SeedWrite
<1>4. QED
  BY <1>1, <1>2, <1>3 DEF Maintenance

LEMMA NextSmall == TypeOK /\ SmallBatch /\ [Next]_vars => SmallBatch'
<1> SUFFICES ASSUME TypeOK, SmallBatch, [Next]_vars
             PROVE  SmallBatch'
  OBVIOUS
<1>1. ASSUME NEW l \in Log, PassOver(l) \/ StatLog(l)
      PROVE  SmallBatch'
  <2>1. batch' = batch /\ Part("filter")' = Part("filter") /\ \A o \in Log : Part(o)' = Part(o)
    BY <1>1 DEF PassOver, StatLog, Part
  <2>2. \/ pc = "idle" /\ pc' \in {"eve_read", "filter"}
        \/ pc = "filter" /\ pc' \in {"filter_read", "insert"}
    BY <1>1 DEF PassOver, StatLog, StatAt, ReadAt, After, Log
  <2>3. batch = {} => Part("filter") = {}
    BY DEF Part
  <2>4. QED
    BY <2>1, <2>2, <2>3 DEF SmallBatch
<1>2. CASE EveRead \/ FilterRead
  BY <1>2, TakeSmall DEF EveRead, FilterRead
<1>3. CASE Insert
  <2>1. batch' \subseteq batch /\ (pc' = "analyse" \/ (pc' = "idle" /\ batch' = {}))
    BY <1>3 DEF Insert, FirstOf
  <2>2. ASSUME NEW l \in Log
        PROVE  /\ Part(l)' \subseteq Part(l)
               /\ IsFiniteSet(Part(l)') /\ Cardinality(Part(l)') <= MaxLines
    <3>1. Part(l)' \subseteq Part(l) /\ IsFiniteSet(Part(l)) /\ Cardinality(Part(l)) <= MaxLines
      BY <2>1 DEF Part, SmallBatch
    <3>2. IsFiniteSet(Part(l)') /\ Cardinality(Part(l)') <= Cardinality(Part(l))
      BY <3>1, FS_Subset
    <3>3. Cardinality(Part(l)') \in Nat /\ Cardinality(Part(l)) \in Nat
      BY <3>1, <3>2, FS_CardinalityType
    <3>4. QED
      BY <3>1, <3>2, <3>3, IntakeAssumption
  <2>3. QED
    BY <2>1, <2>2 DEF SmallBatch
<1>4. CASE Analyse \/ Fail
  <2>1. batch' = {} /\ pc' = "idle"
    BY <1>4 DEF Analyse, Fail
  <2>2. \A l \in Log : Part(l)' = {}
    BY <2>1 DEF Part
  <2>3. QED
    BY <2>1, <2>2, FS_EmptySet, IntakeAssumption DEF SmallBatch
<1>5. CASE (\E l \in Present : Write(l) \/ Rotate(l) \/ Truncate(l)) \/ Maintenance
           \/ UNCHANGED vars
  <2>1. UNCHANGED batch /\ (pc' = pc \/ {pc, pc'} \subseteq {"idle", "down"})
    BY <1>5, MaintenanceSteps DEF Write, Rotate, Truncate, vars
  <2>2. \A l \in Log : Part(l)' = Part(l)
    BY <2>1 DEF Part
  <2>3. QED
    BY <2>1, <2>2 DEF SmallBatch, Log
<1>6. QED
  BY <1>1, <1>2, <1>3, <1>4, <1>5 DEF Next, Service, Environment

LEMMA InitSmall == Init => SmallBatch
<1> SUFFICES ASSUME Init
             PROVE  SmallBatch
  OBVIOUS
<1>1. \A l \in Log : Part(l) = {}
  BY DEF Init, Part
<1>2. QED
  BY <1>1, FS_EmptySet, IntakeAssumption DEF Init, SmallBatch, Log

(* The lines whose events are in the database at most, or nowhere at all.    *)
(* What is in the batch of the current iteration may still be analysed.      *)
Gone(l) == {x \in Line : x[1] = l /\ fate[x] \in {"lost", "stored"}}

Given(l) == IF pc = "analyse" THEN Gone(l) \ batch ELSE Gone(l)

Price == failures * MaxLines

LossInv == \A l \in Present : IsFiniteSet(Gone(l)) /\ Cardinality(Given(l)) <= Price

LEMMA CountWithin ==
  ASSUME NEW S, NEW T, IsFiniteSet(T), S \subseteq T
  PROVE  IsFiniteSet(S) /\ Cardinality(S) \in Nat /\ Cardinality(T) \in Nat
         /\ Cardinality(S) <= Cardinality(T)
<1>1. IsFiniteSet(S) /\ Cardinality(S) <= Cardinality(T)
  BY FS_Subset
<1>2. QED
  BY <1>1, FS_CardinalityType

LEMMA PriceType == TypeOK => Price \in Nat
  BY IntakeAssumption DEF TypeOK, Price

LEMMA NoneMoreGone ==
  ASSUME TypeOK, LossInv, UNCHANGED failures,
         \A l \in Present : Gone(l)' \subseteq Gone(l) /\ Given(l)' \subseteq Given(l)
  PROVE  LossInv'
<1> SUFFICES ASSUME NEW l \in Present
             PROVE  (IsFiniteSet(Gone(l)) /\ Cardinality(Given(l)) <= Price)'
  BY DEF LossInv
<1>1. /\ IsFiniteSet(Gone(l)) /\ Given(l) \subseteq Gone(l) /\ Cardinality(Given(l)) <= Price
      /\ Gone(l)' \subseteq Gone(l) /\ Given(l)' \subseteq Given(l)
  BY DEF LossInv, Given
<1>2. IsFiniteSet(Given(l)) /\ IsFiniteSet(Gone(l)')
  BY <1>1, CountWithin
<1>3. /\ Cardinality(Given(l)) \in Nat /\ Cardinality(Given(l)') \in Nat
      /\ Cardinality(Given(l)') <= Cardinality(Given(l))
  BY <1>1, <1>2, CountWithin
<1>4. Price' = Price /\ Price \in Nat
  BY PriceType DEF Price
<1>5. QED
  BY <1>1, <1>2, <1>3, <1>4

(* Storing a batch puts it where a failure finds it. *)
LEMMA InsertLoss ==
  ASSUME TypeOK, SmallBatch, LossInv, Insert
  PROVE  LossInv'
<1> DEFINE kept == FirstOf({x \in batch : x[1] = "eve"}, MaxQueue) \cup
                   FirstOf({x \in batch : x[1] = "filter"}, MaxQueue
                     - Cardinality(FirstOf({x \in batch : x[1] = "eve"}, MaxQueue)))
<1>1. UNCHANGED failures /\ pc = "insert"
  BY DEF Insert
<1>2. CASE Settle(batch, "dropped") /\ pc' = "idle"
  <2>1. \A l \in Present : Gone(l)' \subseteq Gone(l)
    BY <1>2 DEF Gone, Settle
  <2>2. QED
    BY <1>1, <1>2, <2>1, NoneMoreGone DEF Given
<1>3. CASE /\ batch' = kept
           /\ fate' = [x \in Line |->
               IF x \notin batch \/ fate[x] \notin {"new", "lost"} THEN fate[x]
               ELSE IF x \in kept THEN "stored" ELSE "dropped"]
           /\ pc' = "analyse"
  <2> SUFFICES ASSUME NEW l \in Present
               PROVE  (IsFiniteSet(Gone(l)) /\ Cardinality(Given(l)) <= Price)'
    BY DEF LossInv
  <2>1. kept \subseteq batch
    BY DEF FirstOf
  <2> HIDE DEF kept
  <2>2. Gone(l)' \subseteq Gone(l) \cup Part(l)
    BY <1>3, <2>1 DEF Gone, Part
  <2>3. Given(l)' \subseteq Given(l)
    BY <1>1, <1>3, <2>1 DEF Gone, Given
  <2>4. IsFiniteSet(Gone(l)) /\ IsFiniteSet(Part(l)) /\ Cardinality(Given(l)) <= Price
    BY IntakeAssumption DEF LossInv, SmallBatch, Log
  <2>5. IsFiniteSet(Gone(l) \cup Part(l))
    BY <2>4, FS_Union
  <2>6. IsFiniteSet(Gone(l)') /\ IsFiniteSet(Given(l))
    BY <2>2, <2>4, <2>5, CountWithin DEF Given
  <2>7. /\ Cardinality(Given(l)') <= Cardinality(Given(l))
        /\ Cardinality(Given(l)') \in Nat /\ Cardinality(Given(l)) \in Nat
    BY <2>3, <2>6, CountWithin
  <2>8. Price' = Price /\ Price \in Nat
    BY <1>1, PriceType DEF Price
  <2>9. QED
    BY <2>4, <2>6, <2>7, <2>8
<1>4. QED
  BY <1>2, <1>3 DEF Insert

(* A failure pays for the batch it costs. *)
LEMMA FailLoss ==
  ASSUME TypeOK, SmallBatch, LossInv, Fail
  PROVE  LossInv'
<1> SUFFICES ASSUME NEW l \in Present
             PROVE  (IsFiniteSet(Gone(l)) /\ Cardinality(Given(l)) <= Price)'
  BY DEF LossInv
<1>1. Settle(batch, "lost") /\ pc' = "idle" /\ failures' = failures + 1
  BY DEF Fail
<1>2. Gone(l)' \subseteq Given(l) \cup Part(l)
  BY <1>1 DEF Gone, Given, Settle, Part
<1>3. Given(l)' = Gone(l)'
  BY <1>1 DEF Given
<1>4. /\ IsFiniteSet(Given(l)) /\ Cardinality(Given(l)) \in Nat /\ Cardinality(Given(l)) <= Price
      /\ IsFiniteSet(Part(l)) /\ Cardinality(Part(l)) \in Nat
      /\ Cardinality(Part(l)) <= MaxLines
  BY CountWithin, FS_CardinalityType, IntakeAssumption DEF LossInv, Given, SmallBatch, Log
<1>5. /\ IsFiniteSet(Given(l) \cup Part(l))
      /\ Cardinality(Given(l) \cup Part(l)) <= Cardinality(Given(l)) + Cardinality(Part(l))
  <2>1. /\ IsFiniteSet(Given(l) \cup Part(l))
        /\ Cardinality(Given(l) \cup Part(l))
             = Cardinality(Given(l)) + Cardinality(Part(l)) - Cardinality(Given(l) \cap Part(l))
    BY <1>4, FS_Union
  <2>2. Cardinality(Given(l) \cap Part(l)) \in Nat
    BY <1>4, CountWithin
  <2>3. QED
    BY <1>4, <2>1, <2>2
<1>6. /\ IsFiniteSet(Gone(l)') /\ Cardinality(Gone(l)') \in Nat
      /\ Cardinality(Given(l) \cup Part(l)) \in Nat
      /\ Cardinality(Gone(l)') <= Cardinality(Given(l) \cup Part(l))
  BY <1>2, <1>5, CountWithin
<1>7. Price' = Price + MaxLines /\ Price \in Nat
  <2>1. \A m, n \in Nat : (n + 1) * m = n * m + m
    OBVIOUS
  <2>2. failures \in Nat /\ MaxLines \in Nat
    BY IntakeAssumption DEF TypeOK
  <2>3. QED
    BY <1>1, <2>1, <2>2, PriceType DEF Price
<1>8. QED
  BY <1>3, <1>4, <1>5, <1>6, <1>7, IntakeAssumption

LEMMA NextLoss == TypeOK /\ SmallBatch /\ LossInv /\ [Next]_vars => LossInv'
<1> SUFFICES ASSUME TypeOK, SmallBatch, LossInv, [Next]_vars
             PROVE  LossInv'
  OBVIOUS
<1>1. ASSUME pc # "analyse", pc' # "analyse", UNCHANGED failures,
             \A l \in Present : Gone(l)' \subseteq Gone(l)
      PROVE  LossInv'
  BY <1>1, NoneMoreGone DEF Given
<1>2. ASSUME NEW l \in Log, PassOver(l)
      PROVE  LossInv'
  BY <1>1, <1>2 DEF PassOver, StatAt, After, Gone
<1>3. ASSUME NEW l \in Log, StatLog(l)
      PROVE  LossInv'
  <2>1. \A o \in Present : Gone(o)' \subseteq Gone(o)
    BY <1>3 DEF StatLog, Settle, Gone
  <2>2. QED
    BY <1>1, <1>3, <2>1 DEF StatLog, StatAt, ReadAt
<1>4. ASSUME NEW l \in Present, Take(l)
      PROVE  LossInv'
  <2>1. \A o \in Present : Gone(o)' \subseteq Gone(o)
    BY <1>4 DEF Take, Gone
  <2>2. QED
    BY <1>1, <1>4, <2>1 DEF Take, ReadAt, After
<1>5. CASE Analyse
  <2>1. /\ \A o \in Present : Gone(o)' \subseteq Gone(o) \ batch
        /\ pc = "analyse" /\ pc' = "idle" /\ UNCHANGED failures
    BY <1>5 DEF Analyse, Gone
  <2>2. QED
    BY <2>1, NoneMoreGone DEF Given
<1>6. CASE Maintenance
  <2>1. UNCHANGED <<batch, failures>> /\ (pc' = pc \/ {pc, pc'} \subseteq {"idle", "down"})
    BY <1>6, MaintenanceSteps
  <2>2. \A o \in Present : Gone(o)' \subseteq Gone(o)
    BY <1>6, MaintenanceSteps DEF Settle, Gone
  <2>3. QED
    BY <2>1, <2>2, NoneMoreGone DEF Given
<1>7. CASE (\E l \in Present : Write(l) \/ Rotate(l) \/ Truncate(l)) \/ UNCHANGED vars
  <2>1. UNCHANGED <<pc, batch, fate, failures>>
    BY <1>7 DEF Write, Rotate, Truncate, vars
  <2>2. QED
    BY <2>1 DEF LossInv, Price, Given, Gone
<1>8. QED
  BY <1>2, <1>3, <1>4, <1>5, <1>6, <1>7, InsertLoss, FailLoss
     DEF Next, Service, Environment, EveRead, FilterRead

LEMMA InitLoss == Init => LossInv
<1> SUFFICES ASSUME Init, NEW l \in Present
             PROVE  IsFiniteSet(Gone(l)) /\ Cardinality(Given(l)) <= Price
  BY DEF LossInv
<1>1. Gone(l) = {} /\ Given(l) = {}
  BY DEF Init, Gone, Given
<1>2. Price = 0
  BY IntakeAssumption DEF Init, Price
<1>3. QED
  BY <1>1, <1>2, FS_EmptySet

(* An iteration that fails costs one batch at most, whatever else happens:   *)
(* outside the batch in hand, no more than MaxLines lines of a log per       *)
(* failure are left lost, or stored without having been analysed.            *)
THEOREM FailureCostsOneBatch == Spec => []LossIsBounded
<1>1. Init => TypeOK /\ SmallBatch /\ LossInv
  BY InitType, InitSmall, InitLoss
<1>2. TypeOK /\ SmallBatch /\ LossInv /\ [Next]_vars => (TypeOK /\ SmallBatch /\ LossInv)'
  BY NextType, NextSmall, NextLoss
<1>3. TypeOK /\ LossInv => LossIsBounded
  <2> SUFFICES ASSUME TypeOK, LossInv, NEW l \in Present
               PROVE  Cardinality({x \in Line \ batch :
                                    x[1] = l /\ fate[x] \in {"lost", "stored"}}) <= Price
    BY DEF LossIsBounded, Price
  <2> DEFINE outside == {x \in Line \ batch : x[1] = l /\ fate[x] \in {"lost", "stored"}}
  <2>1. outside \subseteq Given(l) /\ Given(l) \subseteq Gone(l)
    BY DEF Given, Gone
  <2>2. IsFiniteSet(Given(l)) /\ Cardinality(Given(l)) <= Price
    BY <2>1, CountWithin DEF LossInv
  <2> HIDE DEF outside
  <2>3. /\ Cardinality(outside) \in Nat /\ Cardinality(Given(l)) \in Nat
        /\ Cardinality(outside) <= Cardinality(Given(l))
    BY <2>1, <2>2, CountWithin
  <2>4. Cardinality(outside) <= Price
    BY <2>2, <2>3, PriceType
  <2>5. QED
    BY <2>4 DEF outside
<1>4. QED
  BY <1>1, <1>2, <1>3, PTL DEF Spec

-----------------------------------------------------------------------------
(* Unless a reset runs beside the service, the service is down while one is  *)
(* under way, and no offset file is left when the reset goes on to seed.     *)

Stopped ==
  reset # "none" /\ ("reset_live" \notin Disturbances \/ "eve" \in Present \ forgotten) =>
    /\ pc = "down"
    /\ reset \in {"seed", "write"} => \A l \in Present : saved[l] = Absent

LEMMA ForgottenGrows == [Next]_vars => forgotten \subseteq forgotten'
<1> SUFFICES ASSUME [Next]_vars
             PROVE  forgotten \subseteq forgotten'
  OBVIOUS
<1>1. ASSUME NEW l \in Log, PassOver(l) \/ StatLog(l)
      PROVE  forgotten \subseteq forgotten'
  BY <1>1 DEF PassOver, StatLog, resetVars
<1>2. CASE EveRead \/ FilterRead \/ Insert \/ Analyse \/ UNCHANGED vars
  BY <1>2 DEF EveRead, FilterRead, Take, Insert, Analyse, resetVars, vars
<1>3. CASE Environment
  BY <1>3 DEF Environment, Write, Rotate, Truncate, Fail, resetVars
<1>4. CASE Maintenance
  BY <1>4 DEF Maintenance, RemoveOffset, StartReset, OffsetsRemoved, SeedStat, SeedWrite,
              EndReset, Restart, resetVars
<1>5. QED
  BY <1>1, <1>2, <1>3, <1>4 DEF Next, Service

LEMMA NextStopped == TypeOK /\ Stopped /\ [Next]_vars => Stopped'
<1> SUFFICES ASSUME TypeOK, Stopped, [Next]_vars,
                    reset' # "none",
                    "reset_live" \notin Disturbances \/ "eve" \in Present \ forgotten'
             PROVE  /\ pc' = "down"
                    /\ reset' \in {"seed", "write"} => \A l \in Present : saved'[l] = Absent
  BY DEF Stopped
<1>1. reset # "none" => pc = "down"
      /\ (reset \in {"seed", "write"} => \A l \in Present : saved[l] = Absent)
  BY ForgottenGrows DEF Stopped
<1>2. CASE Service \/ Fail
  <2>1. UNCHANGED reset
    BY <1>2 DEF Service, Fail, PassOver, StatLog, EveRead, FilterRead, Take, Insert, Analyse,
                resetVars
  <2>2. pc # "down"
    BY <1>2 DEF Service, Fail, PassOver, StatLog, EveRead, FilterRead, Take, Insert, Analyse,
                StatAt, ReadAt
  <2>3. QED
    BY <1>1, <2>1, <2>2
<1>3. CASE (\E l \in Present : Write(l) \/ Rotate(l) \/ Truncate(l)) \/ UNCHANGED vars
  BY <1>1, <1>3 DEF Write, Rotate, Truncate, resetVars, vars
<1>4. CASE \E l \in Present : RemoveOffset(l)
  BY <1>1, <1>4 DEF RemoveOffset, resetVars
<1>5. CASE StartReset
  BY <1>5 DEF StartReset
<1>6. CASE OffsetsRemoved \/ SeedStat
  BY <1>1, <1>6 DEF OffsetsRemoved, SeedStat
<1>7. CASE SeedWrite \/ EndReset \/ Restart
  BY <1>7 DEF SeedWrite, EndReset, Restart, resetVars
<1>8. QED
  BY <1>2, <1>3, <1>4, <1>5, <1>6, <1>7 DEF Next, Service, Environment, Maintenance

(* Places that no later poll goes back to.  Within one file the place to go  *)
(* by only moves on: what lies behind it stays behind it, as long as it is   *)
(* not lost.                                                                 *)

Behind(l, p) ==
  /\ p <= file[l].size
  /\ \/ l = "filter" /\ saved[l] = Absent
     \/ /\ Place(l).inode = file[l].inode
        /\ p <= Place(l).offset /\ Place(l).offset <= file[l].size
  /\ pc = ReadAt(l) =>
       /\ look.inode = file[l].inode
       /\ p <= look.offset /\ look.offset <= file[l].size

(* While the service polls, that is the place in the offset file. *)
LEMMA PlaceSaved ==
  ASSUME Stopped, NEW l \in Present, l \notin forgotten, l = "eve" => pc # "down"
  PROVE  Place(l) = saved[l] /\ (l = "eve" => reset = "none")
  BY DEF Stopped, Place

LEMMA ReadEnds ==
  ASSUME TypeOK, NEW l \in Present, look.offset <= file[l].size
  PROVE  /\ Ended(l) = file[l].size
         /\ look.offset <= Smaller(2 * (look.offset \div 2 + MaxLines + 1), file[l].size)
         /\ Smaller(2 * (look.offset \div 2 + MaxLines + 1), file[l].size) <= file[l].size
<1> DEFINE start == look.offset \div 2
<1>1. look.offset \in Nat /\ file[l].size \in Nat /\ start \in Nat /\ look.offset <= 2 * start + 1
  BY DEF TypeOK, Offset, Position
<1> HIDE DEF start
<1>2. /\ look.offset <= Smaller(2 * (start + MaxLines + 1), file[l].size)
      /\ Smaller(2 * (start + MaxLines + 1), file[l].size) <= file[l].size
  BY <1>1, IntakeAssumption DEF Smaller
<1>3. QED
  BY <1>1, <1>2 DEF Ended, Larger, start

LEMMA BehindSaved ==
  ASSUME TypeOK, NEW l \in Present, NEW p \in Nat, Behind(l, p), pc = ReadAt(l),
         pc' # ReadAt(l), UNCHANGED <<file, reset>>, NEW end, Keep(l, end),
         l = "eve" => reset = "none",
         end = Ended(l) \/
         end = Smaller(2 * (look.offset \div 2 + MaxLines + 1), file[l].size)
  PROVE  Behind(l, p)'
<1>1. look.offset \in Nat /\ file[l].size \in Nat
  BY DEF TypeOK, Offset, Position
<1>2. p <= look.offset /\ look.offset <= file[l].size /\ look.inode = file[l].inode
  BY DEF Behind
<1>3. end \in Nat /\ look.offset <= end /\ end <= file[l].size
  <2>1. Smaller(2 * (look.offset \div 2 + MaxLines + 1), file[l].size) \in Nat
    BY <1>1, IntakeAssumption DEF Smaller
  <2>2. QED
    BY <1>1, <1>2, <2>1, ReadEnds
<1>4. saved'[l].inode = look.inode /\ saved'[l].offset = end
  BY DEF Keep, TypeOK
<1>5. Place(l)' = saved'[l]
  BY DEF Place
<1>6. QED
  BY <1>1, <1>2, <1>3, <1>4, <1>5 DEF Behind, ReadAt

LEMMA BehindStays ==
  ASSUME TypeOK, Stopped, NEW l \in Present, NEW p \in Nat, Behind(l, p), [Next]_vars,
         file'[l].epoch = file[l].epoch, l \notin forgotten'
  PROVE  Behind(l, p)'
<1>1. /\ l \in Log /\ file[l].size \in Nat /\ file[l].epoch \in Nat
      /\ file[l].inode \in Nat \ {0} /\ saved[l] \in Offset
      /\ saved[l].offset \in Nat /\ look.offset \in Nat /\ l \notin forgotten
      /\ Place(l).offset \in Nat
  BY ForgottenGrows, PlaceType, IntakeAssumption DEF TypeOK, Offset, Position, Log
<1>2. ASSUME file'[l] = file[l], saved'[l] = saved[l], UNCHANGED <<reset, seed>>,
             pc' = ReadAt(l) => pc = ReadAt(l) /\ look' = look
      PROVE  Behind(l, p)'
  <2>1. Place(l)' = Place(l)
    BY <1>2 DEF Place, End
  <2>2. QED
    BY <1>2, <2>1 DEF Behind, ReadAt
<1>3. ASSUME NEW o \in Log, PassOver(o)
      PROVE  Behind(l, p)'
  BY <1>2, <1>3 DEF PassOver, After, ReadAt, resetVars
<1>4. ASSUME NEW o \in Log, StatLog(o)
      PROVE  Behind(l, p)'
  <2>1. CASE o # l
    BY <1>1, <1>2, <1>4, <2>1 DEF StatLog, ReadAt, Log
  <2>2. CASE o = l
    <3>1. UNCHANGED <<file, saved, reset, seed>>
      BY <1>4 DEF StatLog
    <3>2. look' = [inode |-> file[l].inode, offset |-> From(l, Begun(l))]
      BY <1>1, <1>4, <2>2 DEF StatLog
    <3>3. Place(l)' = Place(l) /\ Place(l) = saved[l]
      <4>1. l = "eve" => pc # "down"
        BY <1>4, <2>2 DEF StatLog, StatAt
      <4>2. QED
        BY <1>1, <3>1, <4>1, PlaceSaved DEF Place, End
    <3>4. CASE l = "filter" /\ saved[l] = Absent
      <4>1. From(l, Begun(l)) = file[l].size
        BY <1>1, <3>4 DEF From, Begun, End
      <4>2. QED
        BY <1>1, <3>1, <3>2, <3>4, <4>1 DEF Behind
    <3>5. CASE ~(l = "filter" /\ saved[l] = Absent)
      <4>1. /\ saved[l].inode = file[l].inode /\ p <= saved[l].offset
            /\ saved[l].offset <= file[l].size
        BY <3>3, <3>5 DEF Behind
      <4>2. From(l, Begun(l)) = saved[l].offset
        BY <1>1, <3>5, <4>1 DEF From, Begun
      <4>3. QED
        BY <3>1, <3>2, <3>3, <4>1, <4>2 DEF Behind
    <3>6. QED
      BY <3>4, <3>5
  <2>3. QED
    BY <2>1, <2>2
<1>5. ASSUME NEW o \in Present, Take(o), o # l, saved'[l] = saved[l]
      PROVE  Behind(l, p)'
  BY <1>2, <1>5 DEF Take, After, ReadAt, resetVars
<1>6. ASSUME Take(l)
      PROVE  /\ UNCHANGED <<file, reset, seed>> /\ pc = ReadAt(l) /\ pc' # ReadAt(l)
             /\ l = "eve" => reset = "none"
  <2>1. UNCHANGED <<file, reset, seed>> /\ pc = ReadAt(l) /\ pc' # ReadAt(l)
    BY <1>1, <1>6 DEF Take, After, ReadAt, Log, resetVars
  <2>2. QED
    BY <1>1, <2>1, PlaceSaved DEF ReadAt
<1>7. CASE EveRead
  <2>1. "eve" \in Present /\ Take("eve")
    BY <1>7 DEF EveRead
  <2>2. CASE l = "eve"
    BY <1>2, <1>6, <1>7, <2>1, <2>2, BehindSaved DEF EveRead
  <2>3. CASE l # "eve"
    <3>1. saved'[l] = saved[l]
      BY <1>7, <2>3 DEF EveRead, Keep, TypeOK
    <3>2. QED
      BY <1>5, <2>1, <2>3, <3>1
  <2>4. QED
    BY <2>2, <2>3
<1>8. CASE FilterRead
  <2>1. "filter" \in Present /\ Take("filter")
    BY <1>8 DEF FilterRead
  <2>2. CASE l = "filter"
    BY <1>2, <1>6, <1>8, <2>1, <2>2, BehindSaved DEF FilterRead
  <2>3. CASE l # "filter"
    <3>1. saved'[l] = saved[l]
      BY <1>8, <2>3 DEF FilterRead, Keep, TypeOK
    <3>2. QED
      BY <1>5, <2>1, <2>3, <3>1
  <2>4. QED
    BY <2>2, <2>3
<1>9. CASE Insert \/ Analyse \/ Fail
  BY <1>2, <1>9 DEF Insert, Analyse, Fail, ReadAt, resetVars
<1>10. ASSUME NEW o \in Present, Write(o)
       PROVE  Behind(l, p)'
  <2>1. UNCHANGED <<saved, pc, look, reset, seed>>
    BY <1>10 DEF Write, resetVars
  <2>2. file'[l].inode = file[l].inode /\ file'[l].size \in Nat /\ file[l].size <= file'[l].size
    BY <1>1, <1>10 DEF Write, TypeOK
  <2>3. Place(l)' = Place(l) \/ Place(l)' = End(l)'
    BY <2>1 DEF Place
  <2>4. QED
    BY <1>1, <2>1, <2>2, <2>3 DEF Behind, ReadAt, End
<1>11. ASSUME NEW o \in Present, Rotate(o) \/ Truncate(o)
       PROVE  Behind(l, p)'
  <2>1. o # l
    BY <1>1, <1>11 DEF Rotate, Truncate, TypeOK
  <2>2. file'[l] = file[l] /\ UNCHANGED <<saved, pc, look, reset, seed>>
    BY <1>11, <2>1 DEF Rotate, Truncate, TypeOK, resetVars
  <2>3. QED
    BY <1>2, <2>2
<1>12. CASE Maintenance
  <2>1. UNCHANGED <<file, look>> /\ (pc' = ReadAt(l) => pc = ReadAt(l))
    BY <1>12, MaintenanceSteps DEF ReadAt
  <2>2. ASSUME Place(l)' \in {Place(l), End(l)}, l = "filter" /\ saved[l] = Absent => saved'[l] = Absent
        PROVE  Behind(l, p)'
    BY <1>1, <2>1, <2>2 DEF Behind, ReadAt, End
  <2>3. ASSUME NEW o \in Present, RemoveOffset(o)
        PROVE  Behind(l, p)'
    <3>1. reset' = reset /\ UNCHANGED <<file, seed>> /\ reset = "remove"
          /\ (o # l => saved'[l] = saved[l]) /\ (o = l => saved'[l] = Absent)
      BY <2>3 DEF RemoveOffset, resetVars, TypeOK
    <3>2. CASE l = "filter" /\ o = l
      BY <2>1, <3>1, <3>2 DEF Behind, ReadAt
    <3>3. CASE ~(l = "filter" /\ o = l)
      <4>1. Place(l)' \in {Place(l), End(l)}
        BY <1>1, <3>1, <3>3 DEF Place, End, Log
      <4>2. QED
        BY <2>2, <3>1, <3>3, <4>1
    <3>4. QED
      BY <3>2, <3>3
  <2>4. CASE StartReset
    <3>1. reset = "none" /\ reset' = "remove" /\ UNCHANGED <<file, saved>>
      BY <2>4 DEF StartReset
    <3>2. Place(l)' \in {Place(l), End(l)}
      BY <3>1 DEF Place, End
    <3>3. QED
      BY <2>2, <3>1, <3>2
  <2>5. CASE OffsetsRemoved
    <3>1. Place(l)' = Place(l) /\ UNCHANGED saved
      BY <2>5 DEF OffsetsRemoved, Place, End
    <3>2. QED
      BY <2>2, <3>1
  <2>6. CASE SeedStat
    <3>1. reset = "seed" /\ reset' = "write" /\ UNCHANGED <<file, saved>> /\ seed' = End("eve")
      BY <2>6 DEF SeedStat
    <3>2. Place(l)' \in {Place(l), End(l)}
      BY <3>1 DEF Place
    <3>3. QED
      BY <2>2, <3>1, <3>2
  <2>7. CASE SeedWrite
    <3>1. /\ reset = "write" /\ reset' = "none" /\ UNCHANGED file
          /\ (l = "eve" => saved'[l] = seed) /\ (l # "eve" => saved'[l] = saved[l])
      BY <2>7 DEF SeedWrite, TypeOK
    <3>2. Place(l)' = Place(l)
      BY <3>1 DEF Place
    <3>3. QED
      BY <2>2, <3>1, <3>2
  <2>8. CASE EndReset
    <3>1. UNCHANGED <<file, saved>> /\ reset' = "none" /\ reset # "none"
      BY <2>8 DEF EndReset
    <3>2. l = "eve" => saved[l] # Absent
      BY <1>1, <2>8 DEF EndReset
    <3>3. l = "eve" => reset = "remove"
      BY <1>1, <3>1, <3>2 DEF Stopped, TypeOK
    <3>4. Place(l)' = Place(l)
      BY <3>1, <3>2, <3>3 DEF Place
    <3>5. QED
      BY <2>2, <3>1, <3>4
  <2>9. CASE Restart
    BY <1>2, <2>9 DEF Restart, ReadAt, resetVars
  <2>10. QED
    BY <1>12, <2>3, <2>4, <2>5, <2>6, <2>7, <2>8, <2>9 DEF Maintenance
<1>13. CASE UNCHANGED vars
  BY <1>2, <1>13 DEF vars
<1>14. QED
  BY <1>3, <1>4, <1>7, <1>8, <1>9, <1>10, <1>11, <1>12, <1>13
     DEF Next, Service, Environment

-----------------------------------------------------------------------------
(* What is waived.  A step changes the fate of lines in hand and of lines of *)
(* the current files only.                                                   *)

LEMMA ElsewhereStays ==
  ASSUME TypeOK, [Next]_vars, NEW x \in Line, x \notin batch, x # LineAt(x[1], x[3])
  PROVE  fate'[x] = fate[x] /\ x \notin batch'
<1>1. \A l, k : x # LineAt(l, k)
  BY DEF LineAt
<1>2. ASSUME NEW lines, NEW new, x \notin lines, Settle(lines, new)
      PROVE  fate'[x] = fate[x]
  BY <1>2 DEF Settle
<1>3. ASSUME NEW l \in Log, PassOver(l)
      PROVE  fate'[x] = fate[x] /\ x \notin batch'
  BY <1>3 DEF PassOver
<1>4. ASSUME NEW l \in Log, StatLog(l)
      PROVE  fate'[x] = fate[x] /\ x \notin batch'
  BY <1>1, <1>2, <1>4 DEF StatLog
<1>5. ASSUME NEW l \in Present, Take(l)
      PROVE  fate'[x] = fate[x] /\ x \notin batch'
  <2> DEFINE intact == {LineAt(l, k) : k \in Intact(l, look.offset)}
             reached == {LineAt(l, k) : k \in Reached(l, look.offset)}
             taken == FirstOf(intact, QueueLimit)
  <2>1. x \notin intact /\ x \notin reached /\ taken \subseteq intact
    BY <1>1 DEF FirstOf
  <2>2. /\ batch' = batch \cup taken
        /\ fate' = [y \in Line |->
             IF fate[y] # "new" THEN fate[y]
             ELSE IF y \in reached \ intact THEN "torn"
             ELSE IF y \in intact \ taken THEN "dropped" ELSE "new"]
    BY <1>5 DEF Take
  <2> HIDE DEF intact, reached, taken
  <2>3. QED
    BY <2>1, <2>2
<1>6. CASE Insert
  BY <1>2, <1>6 DEF Insert, FirstOf
<1>7. CASE Analyse
  BY <1>7 DEF Analyse
<1>8. CASE Fail
  BY <1>2, <1>8 DEF Fail
<1>9. CASE Maintenance
  <2>1. x \notin Before(seed) \ batch
    BY DEF LineAt, Line, Before
  <2>2. UNCHANGED batch /\ (UNCHANGED fate \/ Settle(Before(seed) \ batch, "waived"))
    BY <1>9, MaintenanceSteps
  <2>3. QED
    BY <1>2, <2>1, <2>2
<1>10. CASE (\E l \in Present : Write(l) \/ Rotate(l) \/ Truncate(l)) \/ UNCHANGED vars
  BY <1>10 DEF Write, Rotate, Truncate, vars
<1>11. QED
  BY <1>3, <1>4, <1>5, <1>6, <1>7, <1>8, <1>9, <1>10
     DEF Next, Service, Environment, EveRead, FilterRead

(* Nothing has happened yet to the lines of files that are still to come. *)
Untouched ==
  \A l \in Present : \A e \in 1..Epochs : \A k \in 0..LinesPerFile - 1 :
    e > file[l].epoch => fate[<<l, e, k>>] = "new" /\ <<l, e, k>> \notin batch

LEMMA EpochSteps ==
  ASSUME TypeOK, [Next]_vars, NEW l \in Present
  PROVE  /\ file'[l].epoch = file[l].epoch \/ file'[l].epoch = file[l].epoch + 1
         /\ file'[l].epoch # file[l].epoch =>
              /\ UNCHANGED <<fate, batch, pc, saved, look, reset, seed, forgotten>>
              /\ Rotate(l) \/ Truncate(l)
<1>1. CASE UNCHANGED file
  BY <1>1
<1>2. CASE \E o \in Present : Write(o) \/ Rotate(o) \/ Truncate(o)
  BY <1>2 DEF Write, Rotate, Truncate, TypeOK, resetVars
<1>3. QED
  BY <1>1, <1>2, MaintenanceSteps
     DEF Next, Service, Environment, PassOver, StatLog, EveRead, FilterRead, Take,
         Insert, Analyse, Fail, vars

LEMMA NextUntouched == TypeOK /\ Untouched /\ [Next]_vars => Untouched'
<1> SUFFICES ASSUME TypeOK, Untouched, [Next]_vars,
                    NEW l \in Present, NEW e \in 1..Epochs, NEW k \in 0..LinesPerFile - 1,
                    e > file'[l].epoch
             PROVE  fate'[<<l, e, k>>] = "new" /\ <<l, e, k>> \notin batch'
  BY DEF Untouched
<1>1. file[l].epoch \in Nat /\ e \in Nat
  BY DEF TypeOK
<1>2. e > file[l].epoch
  BY <1>1, EpochSteps
<1>3. fate[<<l, e, k>>] = "new" /\ <<l, e, k>> \notin batch /\ <<l, e, k>> \in Line
  BY <1>2, IntakeAssumption DEF Untouched, Line, Log
<1>4. <<l, e, k>> # LineAt(l, k)
  BY <1>1, <1>2 DEF LineAt
<1>5. QED
  BY <1>3, <1>4, ElsewhereStays

(* A line is waived only by a poll that begins the filter log at its end, or *)
(* by a reset.                                                               *)
LEMMA WaivedWriters ==
  ASSUME TypeOK, [Next]_vars, NEW x \in Line, fate'[x] = "waived", fate[x] # "waived"
  PROVE  \/ /\ StatLog("filter") /\ saved["filter"] = Absent /\ "filter" \in Present
            /\ \E k \in 0..LinesPerFile - 1 :
                 x = LineAt("filter", k) /\ 2 * k < file["filter"].size
         \/ SeedWrite /\ x \in Before(seed) \ batch
<1>1. ASSUME NEW lines, NEW new, Settle(lines, new)
      PROVE  x \in lines /\ new = "waived"
  BY <1>1 DEF Settle
<1>2. ASSUME NEW l \in Log, StatLog(l)
      PROVE  /\ StatLog("filter") /\ saved["filter"] = Absent /\ "filter" \in Present
             /\ \E k \in 0..LinesPerFile - 1 :
                  x = LineAt("filter", k) /\ 2 * k < file["filter"].size
  <2>1. x \in {LineAt(l, k) : k \in
                 {n \in 0..LinesPerFile - 1 : l = "filter" /\ saved[l] = Absent
                                                /\ 2 * n < file[l].size}}
    BY <1>1, <1>2 DEF StatLog
  <2>2. QED
    BY <1>2, <2>1 DEF StatLog
<1>3. CASE Maintenance
  BY <1>1, <1>3, MaintenanceSteps
<1>4. ASSUME NEW l \in Present, Take(l)
      PROVE  FALSE
  BY <1>4 DEF Take
<1>5. CASE Insert
  <2>1. Settle(batch, "dropped") => FALSE
    BY <1>1
  <2>2. \A kept : fate' # [y \in Line |->
          IF y \notin batch \/ fate[y] \notin {"new", "lost"} THEN fate[y]
          ELSE IF y \in kept THEN "stored" ELSE "dropped"]
    OBVIOUS
  <2>3. QED
    BY <1>5, <2>1, <2>2 DEF Insert
<1>6. CASE Analyse \/ Fail
  BY <1>1, <1>6 DEF Analyse, Fail
<1>7. UNCHANGED fate => FALSE
  OBVIOUS
<1>8. QED
  BY <1>2, <1>3, <1>4, <1>5, <1>6, <1>7
     DEF Next, Service, Environment, EveRead, FilterRead, PassOver, Write, Rotate, Truncate, vars

(* The batch grows only by whole lines at or behind the start of a read. *)
LEMMA BatchGrows ==
  ASSUME TypeOK, [Next]_vars, NEW x \in batch', x \notin batch
  PROVE  \E l \in Present : /\ Take(l)
                            /\ \E k \in Intact(l, look.offset) : x = LineAt(l, k)
<1>1. ASSUME NEW l \in Present, Take(l)
      PROVE  \E k \in Intact(l, look.offset) : x = LineAt(l, k)
  BY <1>1 DEF Take, FirstOf
<1>2. batch' \subseteq batch => FALSE
  OBVIOUS
<1>3. QED
  BY <1>1, <1>2, MaintenanceSteps
     DEF Next, Service, Environment, EveRead, FilterRead, PassOver, StatLog, Insert,
                    Analyse, Fail, Write, Rotate, Truncate, FirstOf, vars

LEMMA IntactPlace ==
  ASSUME TypeOK, NEW l \in Present, NEW k \in Intact(l, look.offset)
  PROVE  /\ k \in 0..LinesPerFile - 1 /\ k \in Nat
         /\ look.offset <= 2 * k /\ 2 * k + 2 <= file[l].size
         /\ k < look.offset \div 2 + MaxLines
  BY IntakeAssumption DEF Intact, Reached, Touched, TypeOK, Offset, Position

WaivedInv ==
  /\ Untouched /\ Stopped
  /\ \A l \in Present \ forgotten : \A k \in 0..LinesPerFile - 1 :
       fate[LineAt(l, k)] = "waived" => Behind(l, 2 * k + 1)
  /\ \A x \in batch : fate[x] # "waived" \/ x[1] \in forgotten

LEMMA WaivedBehind ==
  ASSUME TypeOK, WaivedInv, [Next]_vars, NEW l \in Present \ forgotten',
         NEW k \in 0..LinesPerFile - 1, fate'[LineAt(l, k)'] = "waived"
  PROVE  Behind(l, 2 * k + 1)'
<1> DEFINE x == LineAt(l, k)
<1>1. /\ k \in Nat /\ file[l].size \in Nat /\ file[l].epoch \in Nat /\ x \in Line
      /\ saved[l] \in Offset /\ l \in Present /\ l \notin forgotten
  BY LineAtType, ForgottenGrows, IntakeAssumption DEF TypeOK, Position
<1>2. CASE file'[l].epoch # file[l].epoch
  <2>1. LineAt(l, k)' = <<l, file[l].epoch + 1, k>> /\ fate' = fate
    BY <1>2, EpochSteps DEF LineAt
  <2>2. file[l].epoch + 1 \in 1..Epochs
    <3>1. Rotate(l) \/ Truncate(l)
      BY <1>2, EpochSteps
    <3>2. file[l].epoch < Epochs
      BY <3>1 DEF Rotate, Truncate
    <3>3. QED
      BY <1>1, <3>2, IntakeAssumption
  <2>3. fate[<<l, file[l].epoch + 1, k>>] = "new"
    BY <1>1, <2>2 DEF WaivedInv, Untouched
  <2>4. QED
    BY <2>1, <2>3
<1>3. CASE file'[l].epoch = file[l].epoch
  <2>1. LineAt(l, k)' = x
    BY <1>3 DEF LineAt
  <2>2. CASE fate[x] = "waived"
    <3>1. Behind(l, 2 * k + 1) /\ 2 * k + 1 \in Nat
      BY <1>1, <2>2 DEF WaivedInv
    <3>2. \A p \in Nat : Behind(l, p) => Behind(l, p)'
      BY <1>1, <1>3, BehindStays DEF WaivedInv
    <3>3. QED
      BY <3>1, <3>2
  <2>3. CASE /\ fate[x] # "waived" /\ StatLog("filter") /\ saved["filter"] = Absent
             /\ \E n \in 0..LinesPerFile - 1 :
                  x = LineAt("filter", n) /\ 2 * n < file["filter"].size
    <3>1. l = "filter" /\ 2 * k < file[l].size
      BY <2>3 DEF LineAt
    <3>2. Begun(l) = End(l)
      BY <2>3, <3>1 DEF Begun
    <3>3. look' = [inode |-> file[l].inode, offset |-> From(l, End(l))]
      BY <1>1, <2>3, <3>1, <3>2 DEF StatLog
    <3>4. UNCHANGED <<file, saved>> /\ From(l, End(l)) = file[l].size
      BY <1>1, <2>3 DEF StatLog, From, End
    <3>5. QED
      BY <1>1, <2>3, <3>1, <3>3, <3>4 DEF Behind
  <2>4. CASE SeedWrite /\ x \in Before(seed) \ batch
    <3>1. l = "eve" /\ 2 * k < From(l, seed)
      BY <2>4 DEF LineAt, Before
    <3>2. /\ seed.inode = file[l].inode /\ 2 * k < seed.offset /\ seed.offset <= file[l].size
          /\ seed.offset \in Nat
      BY <1>1, <3>1 DEF From, TypeOK, Offset, Position
    <3>3. saved'[l] = seed /\ UNCHANGED <<file, pc>> /\ reset' = "none" /\ reset # "none"
      BY <1>1, <2>4, <3>1 DEF SeedWrite, TypeOK
    <3>4. pc' # ReadAt(l)
      BY <1>1, <3>1, <3>3 DEF WaivedInv, Stopped, ReadAt
    <3>5. Place(l)' = seed
      BY <3>3 DEF Place
    <3>6. QED
      BY <1>1, <3>2, <3>3, <3>4, <3>5 DEF Behind, ReadAt
  <2>5. QED
    BY <1>1, <2>1, <2>2, <2>3, <2>4, WaivedWriters
<1>4. QED
  BY <1>2, <1>3

LEMMA WaivedNotTaken ==
  ASSUME TypeOK, SmallBatch, WaivedInv, [Next]_vars, NEW x \in batch'
  PROVE  fate'[x] # "waived" \/ x[1] \in forgotten'
<1> SUFFICES ASSUME fate'[x] = "waived", x[1] \notin forgotten'
             PROVE  FALSE
  OBVIOUS
<1>1. x \in Line /\ x[1] \notin forgotten
  BY NextType, ForgottenGrows DEF TypeOK
<1>2. CASE x \in batch
  <2>1. fate[x] # "waived"
    BY <1>1, <1>2 DEF WaivedInv
  <2>2. CASE StatLog("filter") /\ \E k \in 0..LinesPerFile - 1 : x = LineAt("filter", k)
    <3>1. pc = "filter" /\ x[1] = "filter"
      BY <2>2 DEF StatLog, StatAt, LineAt
    <3>2. x \in Part("filter")
      BY <1>2, <3>1 DEF Part
    <3>3. QED
      BY <3>1, <3>2 DEF SmallBatch
  <2>3. QED
    BY <1>1, <1>2, <2>1, <2>2, WaivedWriters
<1>3. CASE x \notin batch
  <2>1. PICK l \in Present : /\ Take(l)
                             /\ \E k \in Intact(l, look.offset) : x = LineAt(l, k)
    BY <1>3, BatchGrows
  <2>2. PICK k \in Intact(l, look.offset) : x = LineAt(l, k)
    BY <2>1
  <2>3. fate[x] = "waived"
    BY <1>1, <2>1 DEF Take
  <2>4. k \in 0..LinesPerFile - 1 /\ k \in Nat /\ look.offset <= 2 * k
    BY IntactPlace
  <2>5. Behind(l, 2 * k + 1) /\ pc = ReadAt(l)
    BY <1>1, <2>1, <2>2, <2>3, <2>4 DEF WaivedInv, Take, LineAt
  <2>6. 2 * k + 1 <= look.offset /\ look.offset \in Nat
    BY <2>5 DEF Behind, TypeOK, Offset, Position
  <2>7. QED
    BY <2>4, <2>6
<1>4. QED
  BY <1>2, <1>3

LEMMA NextWaived == TypeOK /\ SmallBatch /\ WaivedInv /\ [Next]_vars => WaivedInv'
<1> SUFFICES ASSUME TypeOK, SmallBatch, WaivedInv, [Next]_vars
             PROVE  WaivedInv'
  OBVIOUS
<1>1. Untouched' /\ Stopped'
  BY NextUntouched, NextStopped DEF WaivedInv
<1>2. \A l \in Present \ forgotten' : \A k \in 0..LinesPerFile - 1 :
        fate'[LineAt(l, k)'] = "waived" => Behind(l, 2 * k + 1)'
  BY WaivedBehind
<1>3. \A x \in batch' : fate'[x] # "waived" \/ x[1] \in forgotten'
  BY WaivedNotTaken
<1>4. QED
  BY <1>1, <1>2, <1>3 DEF WaivedInv

LEMMA WaivedStays ==
  ASSUME TypeOK, WaivedInv, [Next]_vars, NEW x \in Line, fate[x] = "waived",
         x[1] \notin forgotten
  PROVE  fate'[x] = "waived"
<1>1. x \notin batch
  BY DEF WaivedInv
<1>2. ASSUME NEW lines, NEW new, Settle(lines, new)
      PROVE  fate'[x] = fate[x]
  BY <1>2 DEF Settle
<1>3. ASSUME NEW l \in Present, Take(l)
      PROVE  fate'[x] = fate[x]
  BY <1>3 DEF Take
<1>4. CASE Insert \/ Analyse
  BY <1>1, <1>2, <1>4 DEF Insert, Analyse
<1>5. CASE Fail \/ \E l \in Log : StatLog(l)
  BY <1>2, <1>5 DEF Fail, StatLog
<1>6. CASE Maintenance
  BY <1>2, <1>6, MaintenanceSteps
<1>7. CASE UNCHANGED fate
  BY <1>7
<1>8. QED
  BY <1>3, <1>4, <1>5, <1>6, <1>7
     DEF Next, Service, Environment, EveRead, FilterRead, PassOver, Write, Rotate, Truncate, vars

LEMMA InitWaived == Init => WaivedInv
<1> SUFFICES ASSUME Init
             PROVE  WaivedInv
  OBVIOUS
<1>1. \A x \in Line : fate[x] = "new"
  BY DEF Init
<1>2. \A l \in Present : \A e \in 1..Epochs : \A k \in 0..LinesPerFile - 1 : <<l, e, k>> \in Line
  BY IntakeAssumption DEF Line, Log
<1>3. Untouched /\ Stopped /\ batch = {}
  BY <1>1, <1>2 DEF Init, Untouched, Stopped
<1>4. \A l \in Present : \A k \in 0..LinesPerFile - 1 : LineAt(l, k) \in Line
  BY InitType, LineAtType
<1>5. QED
  BY <1>1, <1>3, <1>4 DEF WaivedInv

(* Under every combination of disturbances, a failing reset and a reset      *)
(* beside the service among them, what was in a log at a first start or at a *)
(* reset is never analysed, as long as the place saved for that log has not  *)
(* been lost: to an offset file that cannot be read, to a reset that has     *)
(* removed it and could not seed a new one, or to a reset that removes it    *)
(* while the service is polling.                                             *)
THEOREM OldLinesStayOut == Spec => WaivedForGood
<1>1. Init => TypeOK /\ SmallBatch /\ WaivedInv
  BY InitType, InitSmall, InitWaived
<1>2. TypeOK /\ SmallBatch /\ WaivedInv /\ [Next]_vars => (TypeOK /\ SmallBatch /\ WaivedInv)'
  BY NextType, NextSmall, NextWaived
<1>3. TypeOK /\ WaivedInv /\ [Next]_vars
        => [\A x \in Line :
              fate[x] = "waived" => fate'[x] = "waived" \/ x[1] \in forgotten]_vars
  BY WaivedStays
<1>4. QED
  BY <1>1, <1>2, <1>3, PTL DEF Spec, WaivedForGood

-----------------------------------------------------------------------------
(* Analysed once.  On firewalls where no log is rotated in the middle of a   *)
(* read, offsets can be written and read, resets stop the service, and the   *)
(* EVE log neither outgrows a poll nor is emptied in place nor loses its     *)
(* place to a failing reset, the lines in hand or analysed lie behind every  *)
(* place that a poll can begin at.                                           *)

QuietEnough ==
  /\ Disturbances \cap {"rotate_in_read", "save_fails", "offset_lost", "reset_live"} = {}
  /\ "eve" \in Present => Disturbances \cap {"burst", "truncate", "reset_fails"} = {}

Handled(x) == x \in batch \/ fate[x] \in {"analysed", "again"}

Start(l) == From(l, Place(l))

(* Never more than MaxLines lines of the EVE log are waiting. *)
Budget ==
  "eve" \in Present =>
    /\ file["eve"].inode = file["eve"].epoch
    /\ pc = "eve_read" => look.offset = Start("eve")
    /\ Cardinality(Touched("eve", Start("eve"))) <= MaxLines

Aligned == \A l \in Present : pc = ReadAt(l) => look.inode = file[l].inode

OnceInv ==
  /\ Untouched
  /\ Stopped /\ forgotten = {}
  /\ Aligned
  /\ Budget
  /\ \A l \in Present : \A k \in 0..LinesPerFile - 1 :
       Handled(LineAt(l, k)) => Behind(l, 2 * k + 2)
  /\ \A x \in batch : fate[x] \notin {"analysed", "again"}
  /\ \A x \in Line : fate[x] # "again"

LEMMA TouchedFinite ==
  ASSUME NEW l, NEW from
  PROVE  IsFiniteSet(Touched(l, from)) /\ Cardinality(Touched(l, from)) \in Nat
<1>1. 0 \in Int /\ LinesPerFile - 1 \in Int
  BY IntakeAssumption
<1>2. IsFiniteSet(0..LinesPerFile - 1)
  BY <1>1, FS_Interval
<1>3. Touched(l, from) \subseteq 0..LinesPerFile - 1
  BY DEF Touched
<1>4. QED
  BY <1>2, <1>3, FS_Subset, FS_CardinalityType

(* From the end of a file a poll finds at most the rest of one line. *)
LEMMA TouchedAtEnd ==
  ASSUME NEW S, NEW size \in Nat,
         S \subseteq {k \in 0..LinesPerFile - 1 : 2 * k + 2 > size /\ 2 * k < size}
  PROVE  IsFiniteSet(S) /\ Cardinality(S) \in Nat /\ Cardinality(S) <= 1
<1> DEFINE last == size \div 2
<1>1. S \subseteq {last}
  <2> SUFFICES ASSUME NEW k \in S
               PROVE  k = last
    OBVIOUS
  <2>1. k \in Nat /\ 2 * k + 2 > size /\ 2 * k < size
    BY IntakeAssumption
  <2>2. \A m, n \in Nat : 2 * n + 2 > m /\ 2 * n < m => m \div 2 = n
    OBVIOUS
  <2>3. QED
    BY <2>1, <2>2
<1> HIDE DEF last
<1>2. IsFiniteSet({last}) /\ Cardinality({last}) = 1
  BY FS_Singleton
<1>3. QED
  BY <1>1, <1>2, CountWithin

LEMMA WriteBudget ==
  ASSUME TypeOK, "eve" \in Present, "burst" \notin Disturbances, Write("eve"), NEW from,
         from = Start("eve"), Cardinality(Touched("eve", from)) <= MaxLines
  PROVE  Cardinality(Touched("eve", from)') <= MaxLines
<1> DEFINE size == file["eve"].size
           last == size \div 2
           old == Touched("eve", from)
           new == Touched("eve", from)'
<1>1. size \in Nat /\ file'["eve"].size = size + 1 /\ from \in Nat
  BY PlaceType DEF TypeOK, Position, Write, Start
<1>2. \A k \in 0..LinesPerFile - 1 :
        /\ k \in old <=> 2 * k + 2 > from /\ 2 * k < size
        /\ k \in new <=> 2 * k + 2 > from /\ 2 * k < size + 1
  BY <1>1 DEF Touched
<1>3. old \subseteq 0..LinesPerFile - 1 /\ new \subseteq 0..LinesPerFile - 1
  BY DEF Touched
<1>4. old = Unread("eve")
  BY DEF Unread, Start
<1>5. IsFiniteSet(old) /\ Cardinality(old) \in Nat
  BY TouchedFinite
<1>6. CASE size % 2 = 1
  <2> HIDE DEF size, old, new
  <2>1. \A k \in 0..LinesPerFile - 1 : 2 * k < size + 1 => 2 * k < size
    BY <1>1, <1>6, IntakeAssumption
  <2>2. new \subseteq old
    BY <1>2, <1>3, <2>1
  <2>3. Cardinality(new) <= Cardinality(old) /\ Cardinality(new) \in Nat
    BY <1>5, <2>2, CountWithin
  <2>4. Cardinality(old) <= MaxLines
    BY DEF old
  <2>5. QED
    BY <1>5, <2>3, <2>4, IntakeAssumption DEF new
<1>7. CASE size % 2 # 1
  <2>1. Cardinality(old) < MaxLines
    BY <1>4, <1>7 DEF Write
  <2> HIDE DEF size, old, new
  <2>2. \A k \in 0..LinesPerFile - 1 : 2 * k < size + 1 => 2 * k < size \/ k = last
    <3>1. \A m, n \in Nat : 2 * n < m + 1 => 2 * n < m \/ n = m \div 2
      OBVIOUS
    <3>2. QED
      BY <1>1, <3>1, IntakeAssumption
  <2> HIDE DEF last
  <2>3. new \subseteq old \cup {last}
    BY <1>2, <1>3, <2>2
  <2>4. IsFiniteSet(old \cup {last}) /\ Cardinality(old \cup {last}) <= Cardinality(old) + 1
    <3>1. IsFiniteSet(old \cup {last})
          /\ Cardinality(old \cup {last}) = IF last \in old THEN Cardinality(old)
                                            ELSE Cardinality(old) + 1
      BY <1>5, FS_AddElement
    <3>2. QED
      BY <1>5, <3>1
  <2>5. /\ Cardinality(new) \in Nat /\ Cardinality(old \cup {last}) \in Nat
        /\ Cardinality(new) <= Cardinality(old \cup {last})
    BY <2>3, <2>4, CountWithin
  <2>6. QED
    BY <1>5, <2>1, <2>4, <2>5, IntakeAssumption DEF new
<1>8. QED
  BY <1>6, <1>7

LEMMA NextBudget ==
  ASSUME QuietEnough, TypeOK, AllSound, Stopped, forgotten = {}, Aligned, Budget, [Next]_vars,
         "eve" \in Present
  PROVE  Budget'
<1> DEFINE here == file["eve"]
           place == Place("eve")
<1>1. /\ here.inode = here.epoch /\ here.size \in Nat /\ here.epoch \in Nat
      /\ place \in Offset /\ place.offset \in Nat /\ place.inode \in Nat
      /\ pc = "eve_read" => look.offset = Start("eve")
      /\ Cardinality(Touched("eve", Start("eve"))) <= MaxLines
      /\ file \in [Present -> [epoch : 1..Epochs, inode : 1..Epochs, size : Position]]
  BY PlaceType DEF TypeOK, Offset, Position, Budget
<1>2. /\ place.inode <= here.epoch
      /\ place.inode = here.inode => place.offset <= here.size
  BY <1>1 DEF AllSound, SoundLog, Seeded, Sound, Place, End
<1>3. ASSUME file'["eve"] = here, Place("eve")' = place, pc' # "eve_read"
      PROVE  Budget'
  BY <1>1, <1>3 DEF Budget, Start, From, Touched
<1>4. ASSUME file'["eve"] = here, pc' # "eve_read", Place("eve")' = End("eve")
      PROVE  Budget'
  <2>1. Start("eve")' = here.size
    BY <1>1, <1>4 DEF Start, From, End
  <2>2. Touched("eve", Start("eve"))' = Touched("eve", here.size)
    BY <1>4, <2>1 DEF Touched
  <2>3. Cardinality(Touched("eve", here.size)) \in Nat
        /\ Cardinality(Touched("eve", here.size)) <= 1
    BY <1>1, TouchedAtEnd DEF Touched
  <2>4. QED
    BY <1>1, <1>4, <2>2, <2>3, IntakeAssumption DEF Budget
<1>5. ASSUME NEW l \in Log, PassOver(l)
      PROVE  Budget'
  <2>1. UNCHANGED <<file, saved, reset, seed>>
    BY <1>5 DEF PassOver, resetVars
  <2>2. QED
    BY <1>3, <1>5, <2>1 DEF PassOver, After, Place, End
<1>6. ASSUME NEW l \in Log, StatLog(l)
      PROVE  Budget'
  <2>1. UNCHANGED <<file, saved, reset, seed>>
    BY <1>6 DEF StatLog
  <2>2. Place("eve")' = place
    BY <2>1 DEF Place, End
  <2>3. CASE l = "filter"
    BY <1>3, <1>6, <2>1, <2>2, <2>3 DEF StatLog, ReadAt
  <2>4. CASE l = "eve"
    <3>1. Place("eve") = saved["eve"] /\ reset = "none"
      BY <1>6, <2>4, PlaceSaved DEF StatLog, StatAt
    <3>2. PICK p \in Loaded("eve") : look'.offset = From("eve", p)
      BY <1>6, <2>4 DEF StatLog
    <3>3. p = saved["eve"]
      BY <3>1, <3>2 DEF Loaded, Begun, QuietEnough
    <3>4. look'.offset = Start("eve")
      BY <3>1, <3>2, <3>3 DEF Start
    <3>5. QED
      BY <1>1, <2>1, <2>2, <3>4 DEF Budget, Start, From, Touched
  <2>5. QED
    BY <2>3, <2>4 DEF Log
<1>7. CASE EveRead
  <2>1. pc = "eve_read" /\ pc' # "eve_read" /\ UNCHANGED <<file, reset, seed>>
    BY <1>7 DEF EveRead, Take, ReadAt, After, resetVars
  <2>2. reset = "none"
    BY <2>1, PlaceSaved
  <2>3. look.inode = here.inode /\ look.offset <= here.size
    BY <1>1, <1>2, <2>1 DEF Aligned, ReadAt, Start, From
  <2>4. CASE UNCHANGED saved
    BY <1>3, <2>1, <2>4 DEF Place, End
  <2>5. CASE Keep("eve", Ended("eve"))
    <3>1. saved'["eve"] = End("eve")
      BY <2>3, <2>5, ReadEnds DEF Keep, TypeOK, End
    <3>2. QED
      BY <1>4, <2>1, <2>2, <3>1 DEF Place
  <2>6. QED
    BY <1>7, <2>4, <2>5 DEF EveRead
<1>8. CASE FilterRead
  <2>1. pc' # "eve_read" /\ UNCHANGED <<file, reset, seed>>
    BY <1>8 DEF FilterRead, Take, After, resetVars
  <2>2. saved'["eve"] = saved["eve"]
    BY <1>8 DEF FilterRead, Keep, TypeOK
  <2>3. QED
    BY <1>3, <2>1, <2>2 DEF Place, End
<1>9. CASE Insert \/ Analyse \/ Fail
  <2>1. UNCHANGED <<file, saved, reset, seed>> /\ pc' # "eve_read"
    BY <1>9 DEF Insert, Analyse, Fail, resetVars
  <2>2. QED
    BY <1>3, <2>1 DEF Place, End
<1>10. ASSUME file'["eve"] = here, UNCHANGED <<saved, pc, look, reset, seed>>
       PROVE  Budget'
  <2>1. Place("eve")' = place
    BY <1>10 DEF Place, End
  <2>2. QED
    BY <1>1, <1>10, <2>1 DEF Budget, Start, From, Touched
<1>11. ASSUME NEW l \in Present, l # "eve", Write(l) \/ Rotate(l) \/ Truncate(l)
       PROVE  Budget'
  <2>1. file'["eve"] = here /\ UNCHANGED <<saved, pc, look, reset, seed>>
    BY <1>11 DEF Write, Rotate, Truncate, TypeOK, resetVars
  <2>2. QED
    BY <1>10, <2>1
<1>12. CASE Write("eve")
  <2>1. /\ file'["eve"].inode = here.inode /\ file'["eve"].epoch = here.epoch
        /\ file'["eve"].size = here.size + 1 /\ UNCHANGED <<saved, pc, look, reset, seed>>
    BY <1>1, <1>12 DEF Write, resetVars
  <2>2. CASE reset \in {"remove", "seed"} /\ saved["eve"] = Absent
    <3>1. pc = "down"
      BY <2>2 DEF Stopped, QuietEnough
    <3>2. Start("eve")' = here.size + 1
      BY <1>1, <2>1, <2>2 DEF Start, From, Place, End
    <3>3. Touched("eve", Start("eve"))' \subseteq
            {k \in 0..LinesPerFile - 1 : 2 * k + 2 > here.size + 1 /\ 2 * k < here.size + 1}
      BY <2>1, <3>2 DEF Touched
    <3>4. PICK size \in Nat : size = here.size + 1
      BY <1>1
    <3>5. PICK touched : touched = Touched("eve", Start("eve"))'
      OBVIOUS
    <3>6. touched \subseteq {k \in 0..LinesPerFile - 1 : 2 * k + 2 > size /\ 2 * k < size}
      BY <3>3, <3>4, <3>5
    <3>7. Cardinality(touched) \in Nat /\ Cardinality(touched) <= 1
      BY <3>6, TouchedAtEnd
    <3>8. QED
      BY <1>1, <2>1, <3>1, <3>5, <3>7, IntakeAssumption DEF Budget
  <2>3. CASE ~(reset \in {"remove", "seed"} /\ saved["eve"] = Absent)
    <3>1. Place("eve")' = place
      BY <2>1, <2>3 DEF Place
    <3>2. Start("eve")' = Start("eve")
      BY <1>1, <1>2, <2>1, <3>1 DEF Start, From
    <3>3. PICK from : from = Start("eve")
      OBVIOUS
    <3>4. Cardinality(Touched("eve", from)') <= MaxLines
      BY <1>1, <1>12, <3>3, WriteBudget DEF QuietEnough
    <3>5. Touched("eve", Start("eve"))' = Touched("eve", from)'
      BY <3>2, <3>3 DEF Touched
    <3>6. QED
      BY <1>1, <2>1, <3>2, <3>4, <3>5 DEF Budget
  <2>4. QED
    BY <2>2, <2>3
<1>13. CASE Rotate("eve")
  <2>1. /\ file'["eve"] = [epoch |-> here.epoch + 1, inode |-> here.epoch + 1, size |-> 0]
        /\ pc # "eve_read" /\ UNCHANGED pc
    BY <1>1, <1>13 DEF Rotate, QuietEnough, ReadAt
  <2>2. Cardinality(Touched("eve", Start("eve"))') = 0
    <3>1. Touched("eve", Start("eve"))' = {}
      BY <2>1, IntakeAssumption DEF Touched
    <3>2. QED
      BY <3>1, FS_EmptySet
  <2>3. QED
    BY <2>1, <2>2, IntakeAssumption DEF Budget
<1>14. CASE Truncate("eve")
  BY <1>14 DEF Truncate, QuietEnough
<1>15. CASE Maintenance
  <2>1. UNCHANGED file /\ (pc' = "eve_read" => UNCHANGED <<saved, pc, look, reset, seed>>)
    <3>1. pc' = "eve_read" => pc = "eve_read"
      BY <1>15, MaintenanceSteps
    <3>2. pc = "eve_read" => reset = "none"
      BY PlaceSaved
    <3>3. pc = "eve_read" => FALSE
      BY <1>15, <3>2 DEF Maintenance, RemoveOffset, StartReset, OffsetsRemoved, SeedStat,
                         SeedWrite, EndReset, Restart, QuietEnough
    <3>4. QED
      BY <1>15, <3>1, <3>3, MaintenanceSteps
  <2>2. CASE pc' = "eve_read"
    BY <1>10, <2>1, <2>2
  <2>3. CASE pc' # "eve_read" /\ Place("eve")' \in {place, End("eve")}
    BY <1>3, <1>4, <2>1, <2>3
  <2>4. Place("eve")' \in {place, End("eve")}
    <3>1. ASSUME NEW o \in Present, RemoveOffset(o)
          PROVE  Place("eve")' \in {place, End("eve")}
      BY <3>1 DEF RemoveOffset, resetVars, TypeOK, Place, End
    <3>2. CASE StartReset \/ OffsetsRemoved \/ SeedStat
      BY <3>2 DEF StartReset, OffsetsRemoved, SeedStat, Place, End
    <3>3. CASE SeedWrite
      BY <3>3 DEF SeedWrite, Place, TypeOK
    <3>4. CASE EndReset
      BY <3>4 DEF EndReset, QuietEnough
    <3>5. CASE Restart
      BY <3>5 DEF Restart, Place, End, resetVars
    <3>6. QED
      BY <1>15, <3>1, <3>2, <3>3, <3>4, <3>5 DEF Maintenance
  <2>5. QED
    BY <2>2, <2>3, <2>4
<1>16. CASE UNCHANGED vars
  BY <1>10, <1>16 DEF vars
<1>17. QED
  BY <1>5, <1>6, <1>7, <1>8, <1>9, <1>11, <1>12, <1>13, <1>14, <1>15, <1>16
     DEF Next, Service, Environment

LEMMA NextAligned ==
  ASSUME QuietEnough, TypeOK, Aligned, [Next]_vars
  PROVE  Aligned'
<1> SUFFICES ASSUME NEW l \in Present, pc' = ReadAt(l)
             PROVE  look'.inode = file'[l].inode
  BY DEF Aligned, ReadAt
<1>1. l \in Log
  BY IntakeAssumption DEF Log
<1>2. ASSUME pc = ReadAt(l), look' = look, file'[l].inode = file[l].inode
      PROVE  look'.inode = file'[l].inode
  BY <1>2 DEF Aligned
<1>3. ASSUME NEW o \in Log, PassOver(o) \/ StatLog(o)
      PROVE  look'.inode = file'[l].inode
  BY <1>1, <1>3 DEF PassOver, StatLog, After, ReadAt, Log
<1>4. EveRead \/ FilterRead \/ Insert \/ Analyse \/ Fail => FALSE
  BY DEF EveRead, FilterRead, Take, Insert, Analyse, Fail, After, ReadAt
<1>5. ASSUME NEW o \in Present, Write(o) \/ Rotate(o) \/ Truncate(o)
      PROVE  look'.inode = file'[l].inode
  <2>1. UNCHANGED <<pc, look>>
    BY <1>5 DEF Write, Rotate, Truncate
  <2>2. file'[l].inode = file[l].inode
    <3>1. CASE o # l
      BY <1>5, <3>1 DEF Write, Rotate, Truncate, TypeOK
    <3>2. CASE o = l
      <4>1. ~Rotate(o)
        BY <2>1, <3>2 DEF Rotate, QuietEnough
      <4>2. QED
        BY <1>5, <3>2, <4>1 DEF Write, Truncate, TypeOK
    <3>3. QED
      BY <3>1, <3>2
  <2>3. QED
    BY <1>2, <2>1, <2>2
<1>6. CASE UNCHANGED vars
  BY <1>2, <1>6 DEF vars
<1>7. CASE Maintenance
  BY <1>2, <1>7, MaintenanceSteps DEF ReadAt
<1>8. QED
  BY <1>3, <1>4, <1>5, <1>6, <1>7 DEF Next, Service, Environment

(* A line is analysed only out of the batch. *)
LEMMA AnalysedWriters ==
  ASSUME TypeOK, [Next]_vars, NEW x \in Line,
         fate'[x] \in {"analysed", "again"}, fate'[x] # fate[x]
  PROVE  /\ Analyse /\ x \in batch /\ batch' = {}
         /\ fate'[x] = "again" => fate[x] \in {"analysed", "again"}
<1>1. ASSUME NEW lines, NEW new, Settle(lines, new)
      PROVE  fate'[x] = new
  BY <1>1 DEF Settle
<1>2. (\E l \in Log : StatLog(l)) \/ Fail \/ Maintenance => FALSE
  BY <1>1, MaintenanceSteps DEF StatLog, Fail
<1>3. ASSUME NEW l \in Present, Take(l)
      PROVE  FALSE
  BY <1>3 DEF Take
<1>4. CASE Insert
  <2>1. Settle(batch, "dropped") => FALSE
    BY <1>1
  <2>2. \A kept : fate' # [y \in Line |->
          IF y \notin batch \/ fate[y] \notin {"new", "lost"} THEN fate[y]
          ELSE IF y \in kept THEN "stored" ELSE "dropped"]
    OBVIOUS
  <2>3. QED
    BY <1>4, <2>1, <2>2 DEF Insert
<1>5. CASE Analyse
  BY <1>5 DEF Analyse
<1>6. UNCHANGED fate => FALSE
  OBVIOUS
<1>7. QED
  BY <1>2, <1>3, <1>4, <1>5, <1>6
     DEF Next, Service, Environment, EveRead, FilterRead, PassOver, Write, Rotate, Truncate, vars

(* The offset a read saves when offsets can be saved. *)
LEMMA ReadKeeps ==
  ASSUME QuietEnough, TypeOK, OnceInv, [Next]_vars, NEW l \in Present, Take(l)
  PROVE  \/ Keep(l, Ended(l))
         \/ Keep(l, Smaller(2 * (look.offset \div 2 + MaxLines + 1), file[l].size))
<1>1. pc = ReadAt(l) /\ pc' = After(l)
  BY DEF Take
<1>2. l = "eve" => EveRead
  BY <1>1, MaintenanceSteps
     DEF Next, Service, Environment, PassOver, StatLog, FilterRead, Take, Insert, Analyse,
         Fail, Write, Rotate, Truncate, StatAt, ReadAt, After, vars, Log
<1>3. l = "filter" => FilterRead
  BY <1>1, MaintenanceSteps
     DEF Next, Service, Environment, PassOver, StatLog, EveRead, Take, Insert, Analyse,
         Fail, Write, Rotate, Truncate, StatAt, ReadAt, After, vars, Log
<1>0. ~SaveMayFail
  BY <1>1 DEF OnceInv, Stopped, SaveMayFail, QuietEnough, ReadAt
<1>4. CASE l = "eve"
  <2>1. Cardinality(Touched("eve", look.offset)) <= MaxLines
    BY <1>1, <1>4 DEF OnceInv, Budget, ReadAt
  <2>2. ~Over("eve", look.offset)
    BY <2>1, TouchedFinite, IntakeAssumption DEF Over
  <2>3. QED
    BY <1>0, <1>2, <1>4, <2>2 DEF EveRead
<1>5. CASE l = "filter"
  BY <1>0, <1>3, <1>5 DEF FilterRead
<1>6. QED
  BY <1>4, <1>5, IntakeAssumption

(* What lies before the end of a read whose offset is saved is left behind.  *)
LEMMA KeptBehind ==
  ASSUME TypeOK, NEW l \in Present, pc' # ReadAt(l), UNCHANGED file, reset' = "none",
         look.inode = file[l].inode, NEW p \in Nat, NEW end \in Nat,
         p <= end, end <= file[l].size, Keep(l, end)
  PROVE  Behind(l, p)'
<1>1. saved'[l].inode = look.inode /\ saved'[l].offset = end
  BY DEF Keep, TypeOK
<1>2. file[l].size \in Nat
  BY DEF TypeOK, Position
<1>3. Place(l)' = saved'[l]
  BY DEF Place
<1>4. QED
  BY <1>1, <1>2, <1>3 DEF Behind, ReadAt

(* A read that can save its offset leaves behind it all that it took. *)
LEMMA TakenBehind ==
  ASSUME QuietEnough, TypeOK, OnceInv, AllSound, [Next]_vars, NEW l \in Present, Take(l),
         NEW k \in Intact(l, look.offset)
  PROVE  Behind(l, 2 * k + 2)'
<1> DEFINE start == look.offset \div 2
           behind == Smaller(2 * (start + MaxLines + 1), file[l].size)
<1>1. /\ pc = ReadAt(l) /\ pc' # ReadAt(l) /\ UNCHANGED file /\ reset' = "none"
      /\ look.inode = file[l].inode
  BY IntakeAssumption DEF Take, After, ReadAt, OnceInv, Aligned, Stopped, QuietEnough, resetVars
<1>2. /\ k \in Nat /\ look.offset <= 2 * k /\ 2 * k + 2 <= file[l].size
      /\ k < start + MaxLines
      /\ look.offset \in Nat /\ file[l].size \in Nat /\ start \in Nat
  BY IntactPlace DEF TypeOK, Offset, Position
<1>3. Ended(l) = file[l].size
  BY <1>2 DEF Ended, Larger
<1>4. Keep(l, Ended(l)) \/ Keep(l, behind)
  BY ReadKeeps
<1> HIDE DEF start
<1>5. behind \in Nat /\ 2 * k + 2 <= behind /\ behind <= file[l].size /\ 2 * k + 2 \in Nat
  BY <1>2, IntakeAssumption DEF Smaller
<1> HIDE DEF behind
<1>6. QED
  BY <1>1, <1>2, <1>3, <1>4, <1>5, KeptBehind

LEMMA HandledBehind ==
  ASSUME QuietEnough, TypeOK, OnceInv, AllSound, [Next]_vars, forgotten' = {},
         NEW l \in Present, NEW k \in 0..LinesPerFile - 1, Handled(LineAt(l, k))'
  PROVE  Behind(l, 2 * k + 2)'
<1> DEFINE x == LineAt(l, k)
<1>1. k \in Nat /\ file[l].epoch \in Nat /\ x \in Line
  BY LineAtType, IntakeAssumption DEF TypeOK
<1>2. CASE file'[l].epoch # file[l].epoch
  <2>1. LineAt(l, k)' = <<l, file[l].epoch + 1, k>> /\ UNCHANGED <<fate, batch>>
    BY <1>2, EpochSteps DEF LineAt
  <2>2. file[l].epoch + 1 \in 1..Epochs
    <3>1. Rotate(l) \/ Truncate(l)
      BY <1>2, EpochSteps
    <3>2. file[l].epoch < Epochs
      BY <3>1 DEF Rotate, Truncate
    <3>3. QED
      BY <1>1, <3>2, IntakeAssumption
  <2>3. /\ fate[<<l, file[l].epoch + 1, k>>] = "new"
        /\ <<l, file[l].epoch + 1, k>> \notin batch
    BY <1>1, <2>2 DEF OnceInv, Untouched
  <2>4. QED
    BY <2>1, <2>3 DEF Handled
<1>3. CASE file'[l].epoch = file[l].epoch
  <2>1. LineAt(l, k)' = x
    BY <1>3 DEF LineAt
  <2>2. x \in batch' \/ fate'[x] \in {"analysed", "again"}
    BY <2>1 DEF Handled
  <2>3. CASE Handled(x)
    <3>1. Behind(l, 2 * k + 2) /\ 2 * k + 2 \in Nat
      BY <1>1, <2>3 DEF OnceInv
    <3>2. \A p \in Nat : Behind(l, p) => Behind(l, p)'
      BY <1>3, BehindStays DEF OnceInv
    <3>3. QED
      BY <3>1, <3>2
  <2>4. CASE ~Handled(x)
    <3>1. x \in batch' /\ x \notin batch
      BY <1>1, <2>2, <2>4, AnalysedWriters DEF Handled
    <3>2. PICK o \in Present : Take(o) /\ \E n \in Intact(o, look.offset) : x = LineAt(o, n)
      BY <3>1, BatchGrows
    <3>3. o = l /\ k \in Intact(l, look.offset)
      BY <3>2 DEF LineAt
    <3>4. QED
      BY <3>2, <3>3, TakenBehind
  <2>5. QED
    BY <2>3, <2>4
<1>4. QED
  BY <1>2, <1>3

LEMMA BatchUnhandled ==
  ASSUME TypeOK, OnceInv, [Next]_vars, NEW x \in batch'
  PROVE  fate'[x] \notin {"analysed", "again"}
<1> SUFFICES ASSUME fate'[x] \in {"analysed", "again"}
             PROVE  FALSE
  OBVIOUS
<1>1. x \in Line
  BY NextType DEF TypeOK
<1>2. fate[x] \in {"analysed", "again"}
  BY <1>1, AnalysedWriters
<1>3. x \notin batch
  BY <1>2 DEF OnceInv
<1>4. PICK l \in Present : /\ Take(l)
                           /\ \E k \in Intact(l, look.offset) : x = LineAt(l, k)
  BY <1>3, BatchGrows
<1>5. PICK k \in Intact(l, look.offset) : x = LineAt(l, k)
  BY <1>4
<1>6. k \in 0..LinesPerFile - 1 /\ k \in Nat /\ look.offset <= 2 * k
  BY IntactPlace
<1>7. Behind(l, 2 * k + 2) /\ pc = ReadAt(l)
  BY <1>2, <1>4, <1>5, <1>6 DEF OnceInv, Handled, Take
<1>8. 2 * k + 2 <= look.offset /\ look.offset \in Nat
  BY <1>7 DEF Behind, TypeOK, Offset, Position
<1>9. QED
  BY <1>6, <1>8

LEMMA NothingForgotten ==
  ASSUME QuietEnough, TypeOK, Stopped, forgotten = {}, [Next]_vars
  PROVE  forgotten' = {}
<1>1. ASSUME NEW l \in Log, StatLog(l)
      PROVE  forgotten' = {}
  <2>1. pc # "down"
    BY <1>1 DEF StatLog, StatAt
  <2>2. Loaded(l) = {Begun(l)}
    BY <2>1 DEF Loaded, Stopped, QuietEnough
  <2>3. QED
    BY <1>1, <2>2 DEF StatLog
<1>2. CASE StartReset \/ EndReset
  BY <1>2 DEF StartReset, EndReset, QuietEnough
<1>3. ASSUME NEW l \in Log, PassOver(l)
      PROVE  forgotten' = {}
  BY <1>3 DEF PassOver, resetVars
<1>4. CASE EveRead \/ FilterRead \/ Insert \/ Analyse \/ UNCHANGED vars
  BY <1>4 DEF EveRead, FilterRead, Take, Insert, Analyse, resetVars, vars
<1>5. CASE Environment
  BY <1>5 DEF Environment, Write, Rotate, Truncate, Fail, resetVars
<1>6. QED
  BY <1>1, <1>2, <1>3, <1>4, <1>5
     DEF Next, Service, Maintenance, RemoveOffset, OffsetsRemoved, SeedStat, SeedWrite, Restart,
         resetVars

LEMMA NextOnce ==
  QuietEnough /\ TypeOK /\ AllSound /\ OnceInv /\ [Next]_vars => OnceInv'
<1> SUFFICES ASSUME QuietEnough, TypeOK, AllSound, OnceInv, [Next]_vars
             PROVE  OnceInv'
  OBVIOUS
<1>1. Untouched' /\ Aligned' /\ Stopped' /\ forgotten' = {}
  BY NextUntouched, NextAligned, NextStopped, NothingForgotten DEF OnceInv
<1>2. Budget'
  <2>1. CASE "eve" \in Present
    BY <2>1, NextBudget DEF OnceInv
  <2>2. QED
    BY <2>1 DEF Budget
<1>3. \A l \in Present : \A k \in 0..LinesPerFile - 1 :
        Handled(LineAt(l, k))' => Behind(l, 2 * k + 2)'
  BY <1>1, HandledBehind
<1>4. \A x \in batch' : fate'[x] \notin {"analysed", "again"}
  BY BatchUnhandled
<1>5. \A x \in Line : fate'[x] # "again"
  BY AnalysedWriters DEF OnceInv
<1>6. QED
  BY <1>1, <1>2, <1>3, <1>4, <1>5 DEF OnceInv

LEMMA InitOnce == Init => OnceInv
<1> SUFFICES ASSUME Init
             PROVE  OnceInv
  OBVIOUS
<1>1. /\ Untouched /\ Stopped /\ forgotten = {} /\ \A x \in Line : fate[x] = "new"
      /\ \A l \in Present : \A k \in 0..LinesPerFile - 1 : LineAt(l, k) \in Line
  BY InitType, InitWaived, LineAtType DEF WaivedInv, Init
<1>2. batch = {} /\ pc = "idle"
  BY DEF Init
<1>3. ASSUME "eve" \in Present
      PROVE  /\ file["eve"].inode = file["eve"].epoch
             /\ Cardinality(Touched("eve", Start("eve"))) <= MaxLines
  <2>1. file["eve"] = [epoch |-> 1, inode |-> 1, size |-> 0]
    BY <1>3 DEF Init
  <2>2. Touched("eve", Start("eve")) = {}
    BY <2>1, IntakeAssumption DEF Touched
  <2>3. QED
    BY <2>1, <2>2, FS_EmptySet, IntakeAssumption
<1>4. Budget /\ Aligned
  BY <1>2, <1>3 DEF Budget, Aligned, ReadAt
<1>5. QED
  BY <1>1, <1>2, <1>4 DEF OnceInv, Handled

(* If a log may be rotated between two polls but not within one, offsets can *)
(* be written and read, and resets stop the service, then no line of the     *)
(* filter log is analysed twice whatever fails, bursts, is emptied, refused  *)
(* or reset, and no line of the EVE log either as long as it does not        *)
(* outgrow a poll, is not emptied in place, and no reset fails to seed it.   *)
THEOREM EventsAnalysedOnce ==
  ASSUME QuietEnough
  PROVE  Spec => []AnalysedOnce
<1>1. Init => TypeOK /\ AllSound /\ OnceInv
  BY InitType, InitSound, InitOnce
<1>2. TypeOK /\ AllSound /\ OnceInv /\ [Next]_vars => (TypeOK /\ AllSound /\ OnceInv)'
  BY NextType, NextSound, NextOnce
<1>3. OnceInv => AnalysedOnce
  BY DEF OnceInv, AnalysedOnce
<1>4. QED
  BY <1>1, <1>2, <1>3, PTL DEF Spec
=============================================================================

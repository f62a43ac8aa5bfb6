----------------------- MODULE IntakeAgreement_proofs -----------------------
(* The collectors and the stages of run_once implement LineFeed, for logs  *)
(* of any length, any limits and any failures, on firewalls that are quiet *)
(* enough; and with it events are analysed in the order of their lines.    *)
EXTENDS TelemetryIntake_proofs

-----------------------------------------------------------------------------
(* The cut by place. *)

(* FirstOf cuts a set of lines that differ in their places to size. *)
LEMMA FirstBounded ==
  ASSUME NEW S, IsFiniteSet(S), NEW n \in Nat,
         \A x \in S : x[3] \in Nat,
         \A x, y \in S : x[3] = y[3] => x = y
  PROVE  IsFiniteSet(FirstOf(S, n)) /\ Cardinality(FirstOf(S, n)) \in Nat
         /\ Cardinality(FirstOf(S, n)) <= n
<1> DEFINE below(x) == {y \in S : y[3] < x[3]}
           first == FirstOf(S, n)
           rank == [x \in first |-> Cardinality(below(x))]
           ranks == 0..n - 1
<1>1. ASSUME NEW x
      PROVE  IsFiniteSet(below(x)) /\ Cardinality(below(x)) \in Nat
  BY CountWithin
<1>2. \A x \in first : x \in S /\ Cardinality(below(x)) < n
  BY DEF FirstOf
<1>3. ASSUME NEW x \in S, NEW y \in S, x[3] < y[3]
      PROVE  Cardinality(below(x)) < Cardinality(below(y))
  <2>1. below(x) \subseteq below(y) /\ x \in below(y) /\ x \notin below(x)
    BY <1>3
  <2>2. IsFiniteSet(below(x)) /\ IsFiniteSet(below(y))
    BY <1>1
  <2> HIDE DEF below
  <2>3. Cardinality(below(x)) <= Cardinality(below(y))
        /\ Cardinality(below(x)) # Cardinality(below(y))
    BY <2>1, <2>2, FS_Subset
  <2>4. Cardinality(below(x)) \in Nat /\ Cardinality(below(y)) \in Nat
    BY <2>2, FS_CardinalityType
  <2>5. QED
    BY <2>3, <2>4
<1> HIDE DEF below, first
<1>4. rank \in [first -> ranks]
  BY <1>1, <1>2
<1>5. ASSUME NEW x \in first, NEW y \in first, rank[x] = rank[y]
      PROVE  x = y
  <2>1. Cardinality(below(x)) = Cardinality(below(y))
    BY <1>5
  <2>2. ~(x[3] < y[3]) /\ ~(y[3] < x[3])
    BY <1>1, <1>2, <1>3, <2>1
  <2>3. QED
    BY <1>2, <2>2
<1>6. rank \in Injection(first, ranks)
  BY <1>4, <1>5 DEF Injection, IsInjective
<1>7. IsFiniteSet(ranks) /\ Cardinality(ranks) = n
  <2>1. 0 \in Int /\ n - 1 \in Int
    OBVIOUS
  <2>2. \A stop \in Int : IsFiniteSet(0..stop)
          /\ Cardinality(0..stop) = IF 0 > stop THEN 0 ELSE stop - 0 + 1
    BY <2>1, FS_Interval
  <2>3. QED
    BY <2>1, <2>2
<1> HIDE DEF rank, ranks
<1>8. IsFiniteSet(first) /\ Cardinality(first) <= Cardinality(ranks)
  BY <1>6, <1>7, FS_Injection
<1>9. Cardinality(first) \in Nat
  BY <1>8, FS_CardinalityType
<1>10. QED
  BY <1>7, <1>8, <1>9 DEF first

-----------------------------------------------------------------------------
(* What is read or given up lies behind every place a poll can begin at, and *)
(* the batch is one cut of one file of each log.                             *)

FeedInv ==
  /\ \A l \in Present : \A k \in 0..LinesPerFile - 1 :
       Accounted(LineAt(l, k)) => Behind(l, 2 * k + 1)
  /\ \A x \in batch : fate[x] = IF pc = "analyse" THEN "stored" ELSE "new"
  /\ \A x, y \in batch : x[1] = y[1] => x[2] = y[2]
  /\ pc = "analyse" => Cardinality(batch) <= MaxQueue

(* Everything proved of the intake before. *)
Known == TypeOK /\ AllSound /\ SmallBatch /\ WaivedInv /\ OnceInv

(* A line is accounted for by a read that gets to it, or by being waived. *)
LEMMA AccountWriters ==
  ASSUME TypeOK, [Next]_vars, NEW x \in Line, ~Accounted(x), fate'[x] # "new" \/ x \in batch'
  PROVE  \/ fate'[x] = "waived"
         \/ \E l \in Present : Take(l) /\ \E k \in Reached(l, look.offset) : x = LineAt(l, k)
<1>1. fate[x] = "new" /\ x \notin batch
  BY DEF Accounted
<1>2. ASSUME NEW lines, NEW new, Settle(lines, new), UNCHANGED batch
      PROVE  fate'[x] = new
  BY <1>1, <1>2 DEF Settle
<1>3. CASE (\E l \in Log : StatLog(l)) \/ Maintenance
  BY <1>1, <1>2, <1>3, MaintenanceSteps DEF StatLog
<1>4. ASSUME NEW l \in Present, Take(l)
      PROVE  \E k \in Reached(l, look.offset) : x = LineAt(l, k)
  <2> DEFINE intact == {LineAt(l, k) : k \in Intact(l, look.offset)}
             reached == {LineAt(l, k) : k \in Reached(l, look.offset)}
             taken == FirstOf(intact, QueueLimit)
  <2>1. taken \subseteq intact /\ intact \subseteq reached
    BY DEF FirstOf, Intact
  <2>2. /\ batch' = batch \cup taken
        /\ fate' = [y \in Line |->
             IF fate[y] # "new" THEN fate[y]
             ELSE IF y \in reached \ intact THEN "torn"
             ELSE IF y \in intact \ taken THEN "dropped" ELSE "new"]
    BY <1>4 DEF Take
  <2> HIDE DEF intact, reached, taken
  <2>3. x \in reached
    BY <1>1, <2>1, <2>2
  <2>4. QED
    BY <2>3 DEF reached
<1>5. Insert \/ Analyse \/ Fail => FALSE
  BY <1>1 DEF Insert, Analyse, Fail, Settle, FirstOf
<1>6. UNCHANGED <<fate, batch>> => FALSE
  BY <1>1
<1>7. QED
  BY <1>3, <1>4, <1>5, <1>6
     DEF Next, Service, Environment, EveRead, FilterRead, PassOver, Write, Rotate, Truncate, vars

(* A read leaves behind it all that it got to. *)
LEMMA ReachedBehind ==
  ASSUME QuietEnough, TypeOK, OnceInv, [Next]_vars, NEW l \in Present, Take(l),
         NEW k \in Reached(l, look.offset)
  PROVE  Behind(l, 2 * k + 1)'
<1> DEFINE start == look.offset \div 2
           behind == Smaller(2 * (start + MaxLines + 1), file[l].size)
<1>1. /\ pc' # ReadAt(l) /\ UNCHANGED file /\ look.inode = file[l].inode /\ reset' = "none"
  BY IntakeAssumption DEF Take, After, ReadAt, OnceInv, Aligned, Stopped, QuietEnough, resetVars
<1>2. /\ k \in Nat /\ look.offset < 2 * k + 2 /\ 2 * k < file[l].size
      /\ k < start + MaxLines
      /\ look.offset \in Nat /\ file[l].size \in Nat /\ start \in Nat
  BY IntakeAssumption DEF Reached, Touched, TypeOK, Offset, Position
<1>3. Ended(l) = file[l].size
  BY <1>2 DEF Ended, Larger
<1>4. Keep(l, Ended(l)) \/ Keep(l, behind)
  BY ReadKeeps
<1> HIDE DEF start
<1>5. behind \in Nat /\ 2 * k + 1 <= behind /\ behind <= file[l].size
      /\ 2 * k + 1 \in Nat /\ 2 * k + 1 <= file[l].size
  BY <1>2, IntakeAssumption DEF Smaller
<1> HIDE DEF behind
<1>6. QED
  BY <1>1, <1>2, <1>3, <1>4, <1>5, KeptBehind

LEMMA AccountedBehind ==
  ASSUME QuietEnough, Known, FeedInv, [Next]_vars, forgotten' = {},
         NEW l \in Present, NEW k \in 0..LinesPerFile - 1, Accounted(LineAt(l, k))'
  PROVE  Behind(l, 2 * k + 1)'
<1> DEFINE x == LineAt(l, k)
<1> USE DEF Known
<1>1. k \in Nat /\ file[l].epoch \in Nat /\ x \in Line
  BY LineAtType, IntakeAssumption DEF TypeOK
<1>2. CASE file'[l].epoch # file[l].epoch
  <2>1. LineAt(l, k)' = <<l, file[l].epoch + 1, k>> /\ UNCHANGED <<fate, batch>>
    BY <1>2, EpochSteps DEF LineAt
  <2>2. file[l].epoch + 1 \in 1..Epochs
    <3>1. Rotate(l) \/ Truncate(l)
      BY <1>2, EpochSteps
    <3>2. file[l].epoch < Epochs
      BY <3>1 DEF Rotate, Truncate
    <3>3. QED
      BY <1>1, <3>2, IntakeAssumption
  <2>3. /\ fate[<<l, file[l].epoch + 1, k>>] = "new"
        /\ <<l, file[l].epoch + 1, k>> \notin batch
    BY <1>1, <2>2 DEF OnceInv, Untouched
  <2>4. QED
    BY <2>1, <2>3 DEF Accounted
<1>3. CASE file'[l].epoch = file[l].epoch
  <2>1. LineAt(l, k)' = x
    BY <1>3 DEF LineAt
  <2>2. fate'[x] # "new" \/ x \in batch'
    BY <2>1 DEF Accounted
  <2>3. CASE Accounted(x)
    <3>1. Behind(l, 2 * k + 1) /\ 2 * k + 1 \in Nat
      BY <1>1, <2>3 DEF FeedInv
    <3>2. \A p \in Nat : Behind(l, p) => Behind(l, p)'
      BY <1>3, BehindStays DEF OnceInv
    <3>3. QED
      BY <3>1, <3>2
  <2>4. CASE ~Accounted(x) /\ fate'[x] = "waived"
    BY <2>1, <2>4, WaivedBehind
  <2>5. CASE ~Accounted(x) /\ fate'[x] # "waived"
    <3>1. PICK o \in Present : Take(o) /\ \E n \in Reached(o, look.offset) : x = LineAt(o, n)
      BY <1>1, <2>2, <2>5, AccountWriters
    <3>2. o = l /\ k \in Reached(l, look.offset)
      BY <3>1 DEF LineAt
    <3>3. QED
      BY <3>1, <3>2, ReachedBehind
  <2>6. QED
    BY <2>3, <2>4, <2>5
<1>4. QED
  BY <1>2, <1>3

(* Whole lines that a read gets to are new. *)
LEMMA IntactNew ==
  ASSUME Known, FeedInv, NEW l \in Present, pc = ReadAt(l), NEW k \in Intact(l, look.offset)
  PROVE  fate[LineAt(l, k)] = "new" /\ LineAt(l, k) \notin batch
<1> USE DEF Known
<1>1. k \in 0..LinesPerFile - 1 /\ k \in Nat /\ look.offset <= 2 * k
  BY IntactPlace
<1>2. ASSUME Accounted(LineAt(l, k))
      PROVE  FALSE
  <2>1. 2 * k + 1 <= look.offset
    BY <1>1, <1>2 DEF FeedInv, Behind
  <2>2. look.offset \in Nat
    BY DEF TypeOK, Offset, Position
  <2>3. QED
    BY <1>1, <2>1, <2>2
<1>3. QED
  BY <1>2 DEF Accounted

(* What a read does, line by line. *)
ReadSets(l, intact, reached, taken) ==
  /\ intact = {LineAt(l, k) : k \in Intact(l, look.offset)}
  /\ reached = {LineAt(l, k) : k \in Reached(l, look.offset)}
  /\ taken = FirstOf(intact, QueueLimit)

LEMMA ReadFates ==
  ASSUME Known, FeedInv, NEW l \in Present, Take(l)
  PROVE  \E intact, reached, taken :
           /\ ReadSets(l, intact, reached, taken)
           /\ taken \subseteq intact /\ intact \subseteq reached /\ reached \subseteq Line
           /\ batch' = batch \cup taken
           /\ \A x \in reached : x[1] = l /\ x[2] = file[l].epoch /\ x \notin batch
           /\ \A x \in taken : fate[x] = "new" /\ fate'[x] = "new"
           /\ \A x \in reached \ taken :
                IF fate[x] = "new" THEN fate'[x] \in {"torn", "dropped"} ELSE fate'[x] = fate[x]
           /\ \A x \in Line \ reached : fate'[x] = fate[x]
<1> DEFINE intact == {LineAt(l, k) : k \in Intact(l, look.offset)}
           reached == {LineAt(l, k) : k \in Reached(l, look.offset)}
           taken == FirstOf(intact, QueueLimit)
<1>1. taken \subseteq intact /\ intact \subseteq reached
  BY DEF FirstOf, Intact
<1>2. reached \subseteq Line
  BY LineAtType DEF Reached, Touched, Known
<1>3. \A x \in reached : x[1] = l /\ x[2] = file[l].epoch /\ x \notin batch
  <2>1. Part(l) = {} /\ \A x \in reached : x[1] = l /\ x[2] = file[l].epoch
    BY IntakeAssumption DEF Known, SmallBatch, Take, ReadAt, Part, LineAt
  <2>2. QED
    BY <2>1 DEF Part
<1>4. \A x \in intact : fate[x] = "new"
  BY IntactNew DEF Take
<1>5. /\ batch' = batch \cup taken
      /\ fate' = [y \in Line |->
           IF fate[y] # "new" THEN fate[y]
           ELSE IF y \in reached \ intact THEN "torn"
           ELSE IF y \in intact \ taken THEN "dropped" ELSE "new"]
  BY DEF Take
<1>6. ReadSets(l, intact, reached, taken)
  BY DEF ReadSets
<1> HIDE DEF intact, reached, taken
<1>7. /\ \A x \in taken : fate[x] = "new" /\ fate'[x] = "new"
      /\ \A x \in reached \ taken :
           IF fate[x] = "new" THEN fate'[x] \in {"torn", "dropped"} ELSE fate'[x] = fate[x]
      /\ \A x \in Line \ reached : fate'[x] = fate[x]
  BY <1>1, <1>2, <1>4, <1>5
<1>8. QED
  BY <1>1, <1>2, <1>3, <1>5, <1>6, <1>7

LEMMA BatchFates ==
  ASSUME QuietEnough, Known, FeedInv, [Next]_vars, forgotten' = {}, NEW x \in batch'
  PROVE  fate'[x] = IF pc' = "analyse" THEN "stored" ELSE "new"
<1> USE DEF Known
<1>1. x \in Line /\ fate'[x] # "waived"
  BY NextType, WaivedNotTaken DEF TypeOK
<1>2. x \in batch => fate[x] = IF pc = "analyse" THEN "stored" ELSE "new"
  BY DEF FeedInv
<1>3. ASSUME NEW l \in Log, PassOver(l) \/ StatLog(l)
      PROVE  fate'[x] = IF pc' = "analyse" THEN "stored" ELSE "new"
  <2>1. pc # "analyse" /\ pc' # "analyse" /\ batch' = batch
    BY <1>3 DEF PassOver, StatLog, StatAt, ReadAt, After
  <2>2. fate'[x] = fate[x] \/ fate'[x] = "waived"
    BY <1>1, <1>3 DEF PassOver, StatLog, Settle
  <2>3. QED
    BY <1>1, <1>2, <2>1, <2>2
<1>4. ASSUME NEW l \in Present, Take(l)
      PROVE  fate'[x] = IF pc' = "analyse" THEN "stored" ELSE "new"
  <2>1. PICK reached, taken :
          /\ batch' = batch \cup taken
          /\ \A y \in taken : fate'[y] = "new"
          /\ \A y \in reached : y \notin batch
          /\ \A y \in Line \ reached : fate'[y] = fate[y]
    BY <1>4, ReadFates
  <2>2. pc # "analyse" /\ pc' # "analyse"
    BY <1>4 DEF Take, ReadAt, After
  <2>3. QED
    BY <1>1, <1>2, <2>1, <2>2
<1>5. CASE Insert
  <2>1. batch' = {} \/ /\ pc' = "analyse"
                       /\ \A y \in batch' : y \in batch /\ (fate[y] = "new" => fate'[y] = "stored")
    <3> DEFINE kept == FirstOf({y \in batch : y[1] = "eve"}, MaxQueue) \cup
                       FirstOf({y \in batch : y[1] = "filter"}, MaxQueue
                         - Cardinality(FirstOf({y \in batch : y[1] = "eve"}, MaxQueue)))
    <3>1. kept \subseteq batch /\ batch \subseteq Line
      BY DEF FirstOf, TypeOK
    <3>2. \/ batch' = {}
          \/ /\ batch' = kept /\ pc' = "analyse"
             /\ fate' = [y \in Line |->
                  IF y \notin batch \/ fate[y] \notin {"new", "lost"} THEN fate[y]
                  ELSE IF y \in kept THEN "stored" ELSE "dropped"]
      BY <1>5 DEF Insert
    <3> HIDE DEF kept
    <3>3. QED
      BY <3>1, <3>2
  <2>2. pc # "analyse"
    BY <1>5 DEF Insert
  <2>3. QED
    BY <1>2, <2>1, <2>2
<1>6. Analyse \/ Fail => FALSE
  BY DEF Analyse, Fail
<1>7. CASE Maintenance
  <2>1. SeedWrite => batch = {}
    BY DEF SeedWrite, OnceInv, Stopped, QuietEnough, SmallBatch
  <2>2. pc' # pc => batch = {}
    BY <1>7, MaintenanceSteps DEF SmallBatch
  <2>3. UNCHANGED <<batch, fate, pc>>
    BY <1>7, <2>1, <2>2, MaintenanceSteps
  <2>4. QED
    BY <1>2, <2>3
<1>8. CASE UNCHANGED <<batch, fate, pc>>
  BY <1>2, <1>8
<1>9. QED
  BY <1>3, <1>4, <1>5, <1>6, <1>7, <1>8
     DEF Next, Service, Environment, EveRead, FilterRead, Write, Rotate, Truncate, vars

LEMMA BatchFiles ==
  ASSUME Known, FeedInv, [Next]_vars, NEW x \in batch', NEW y \in batch', x[1] = y[1]
  PROVE  x[2] = y[2]
<1> USE DEF Known
<1>1. ASSUME NEW l \in Present, Take(l)
      PROVE  x[2] = y[2]
  <2>1. PICK taken : batch' = batch \cup taken
                     /\ \A z \in taken : z[1] = l /\ z[2] = file[l].epoch
    BY <1>1, ReadFates
  <2>2. \A z \in batch : z[1] # l
    BY <1>1, IntakeAssumption DEF SmallBatch, Take, ReadAt, Part
  <2>3. QED
    BY <2>1, <2>2 DEF FeedInv
<1>2. batch' \subseteq batch => x[2] = y[2]
  BY DEF FeedInv
<1>3. QED
  BY <1>1, <1>2, MaintenanceSteps
                DEF Next, Service, Environment, EveRead, FilterRead, PassOver, StatLog, Insert,
                    Analyse, Fail, Write, Rotate, Truncate, FirstOf, vars

(* The lines of one log in the batch differ in their places. *)
LEMMA PartApart ==
  ASSUME Known, FeedInv, NEW l \in Log
  PROVE  /\ IsFiniteSet(Part(l))
         /\ \A x \in Part(l) : x[3] \in Nat
         /\ \A x, y \in Part(l) : x[3] = y[3] => x = y
<1> USE DEF Known
<1>1. \A x \in Part(l) : x \in Log \X (1..Epochs) \X (0..LinesPerFile - 1) /\ x[1] = l
  BY DEF TypeOK, Line, Part
<1>2. \A x, y \in Part(l) : x[2] = y[2]
  BY DEF FeedInv, Part
<1>3. QED
  BY <1>1, <1>2, IntakeAssumption DEF SmallBatch

LEMMA QueueCut ==
  ASSUME Known, FeedInv, Insert, pc' = "analyse"
  PROVE  Cardinality(batch') <= MaxQueue
<1> DEFINE eve == FirstOf(Part("eve"), MaxQueue)
           room == MaxQueue - Cardinality(eve)
           filter == FirstOf(Part("filter"), room)
<1>1. batch' = eve \cup filter
  BY DEF Insert, Part
<1>2. "eve" \in Log /\ "filter" \in Log /\ MaxQueue \in Nat
  BY IntakeAssumption DEF Log
<1>3. IsFiniteSet(eve) /\ Cardinality(eve) \in Nat /\ Cardinality(eve) <= MaxQueue
  BY <1>2, PartApart, FirstBounded
<1> HIDE DEF eve
<1>4. room \in Nat
  BY <1>2, <1>3
<1> HIDE DEF room
<1>5. IsFiniteSet(filter) /\ Cardinality(filter) \in Nat /\ Cardinality(filter) <= room
  BY <1>2, <1>4, PartApart, FirstBounded
<1> HIDE DEF filter
<1>6. /\ IsFiniteSet(eve \cup filter)
      /\ Cardinality(eve \cup filter)
           = Cardinality(eve) + Cardinality(filter) - Cardinality(eve \cap filter)
  BY <1>3, <1>5, FS_Union
<1>7. Cardinality(eve \cap filter) \in Nat
  BY <1>3, CountWithin
<1>8. QED
  BY <1>1, <1>2, <1>3, <1>5, <1>6, <1>7 DEF room

LEMMA NextFeed ==
  ASSUME QuietEnough, Known, FeedInv, [Next]_vars
  PROVE  FeedInv'
<1> forgotten' = {}
  BY NothingForgotten DEF Known, OnceInv
<1>1. \A l \in Present : \A k \in 0..LinesPerFile - 1 :
        Accounted(LineAt(l, k))' => Behind(l, 2 * k + 1)'
  BY AccountedBehind
<1>2. \A x \in batch' : fate'[x] = IF pc' = "analyse" THEN "stored" ELSE "new"
  BY BatchFates
<1>3. \A x, y \in batch' : x[1] = y[1] => x[2] = y[2]
  BY BatchFiles
<1>4. ASSUME pc' = "analyse"
      PROVE  Cardinality(batch') <= MaxQueue
  <2>1. Insert \/ (pc = "analyse" /\ batch' = batch)
    BY <1>4, MaintenanceSteps
            DEF Next, Service, Environment, PassOver, StatLog, EveRead, FilterRead, Take, Analyse,
                Fail, Write, Rotate, Truncate, ReadAt, After, vars, Known, SmallBatch
  <2>2. QED
    BY <1>4, <2>1, QueueCut DEF FeedInv
<1>5. QED
  BY <1>1, <1>2, <1>3, <1>4 DEF FeedInv

LEMMA InitFeed == Init => FeedInv
<1> SUFFICES ASSUME Init
             PROVE  FeedInv
  OBVIOUS
<1>1. /\ \A x \in Line : fate[x] = "new"
      /\ \A l \in Present : \A k \in 0..LinesPerFile - 1 : LineAt(l, k) \in Line
  BY InitType, LineAtType DEF Init
<1>2. batch = {} /\ pc = "idle"
  BY DEF Init
<1>3. QED
  BY <1>1, <1>2 DEF FeedInv, Accounted

LEMMA AlwaysFeed ==
  ASSUME QuietEnough
  PROVE  Spec => [](Known /\ FeedInv)
<1>1. Init => Known /\ FeedInv
  BY InitType, InitSound, InitSmall, InitWaived, InitOnce, InitFeed DEF Known
<1>2. Known /\ FeedInv /\ [Next]_vars => (Known /\ FeedInv)'
  BY NextType, NextSound, NextSmall, NextWaived, NextOnce, NextFeed DEF Known
<1>3. QED
  BY <1>1, <1>2, PTL DEF Spec

-----------------------------------------------------------------------------
(* The refinement. *)

Track == [x \in Line |-> Seen(x)]

(* LineFeed counts as this module does. *)
LEMMA FeedCounts == \A S : Feed!Cardinality(S) = Cardinality(S)
  BY DEF Feed!Cardinality, Cardinality

LEMMA HeldIsBatch == TypeOK => Feed!Held = batch
  BY DEF TypeOK, Feed!Held, Seen

(* The steps of LineFeed, line by line. *)
LEMMA FeedStays ==
  ASSUME \A x \in Line : Seen(x)' = Seen(x)
  PROVE  UNCHANGED Track
  BY DEF Track

LEMMA FeedLeaves ==
  ASSUME TypeOK, NEW S, S \subseteq batch,
         \A x \in Line : Seen(x)' = IF x \in S THEN "out" ELSE Seen(x)
  PROVE  Feed!Next
<1>1. S \in SUBSET Feed!Held
  BY HeldIsBatch
<1>2. Feed!Leave(S)
  BY DEF Feed!Leave, Feed!Moves
<1>3. QED
  BY <1>1, <1>2 DEF Feed!Next

LEMMA FeedUses ==
  ASSUME TypeOK, Cardinality(batch) <= MaxQueue,
         \A x \in Line : Seen(x)' = IF x \in batch THEN "used" ELSE Seen(x)
  PROVE  Feed!Next
<1>1. Feed!Use
  BY HeldIsBatch, FeedCounts DEF Feed!Use, Feed!Moves
<1>2. QED
  BY <1>1 DEF Feed!Next

LEMMA FeedWaives ==
  ASSUME TypeOK, NEW l, NEW S, S \subseteq Line, \A x \in S : x[1] = l /\ Seen(x) = "ahead",
         \A x \in batch : x[1] # l,
         \A x \in Line : Seen(x)' = IF x \in S THEN "out" ELSE Seen(x)
  PROVE  Feed!Next \/ UNCHANGED Track
<1>1. CASE S = {}
  BY <1>1, FeedStays
<1>2. CASE S # {}
  <2>1. l \in Feed!Logs
    BY <1>2 DEF Feed!Logs
  <2>2. S \in SUBSET Feed!Ahead(l)
    BY DEF Feed!Ahead
  <2>3. Feed!Waive(l, S)
    BY HeldIsBatch DEF Feed!Waive, Feed!Moves
  <2>4. QED
    BY <2>1, <2>2, <2>3 DEF Feed!Next
<1>3. QED
  BY <1>1, <1>2

LEMMA FeedReads ==
  ASSUME TypeOK, NEW l, NEW S, NEW T, S \subseteq Line, T \subseteq Line, S \cap T = {},
         \A x \in S \cup T : x[1] = l /\ Seen(x) = "ahead",
         \A x \in batch : x[1] # l,
         \A x, y \in S \cup T : x[2] = y[2],
         \A x \in S \cup T, y \in Line : y[1] = l /\ Seen(y) # "ahead" => Feed!Before(y, x),
         Cardinality(S \cup T) <= MaxLines, Cardinality(S) <= QueueLimit,
         \A x \in Line : Seen(x)' = IF x \in S THEN "held" ELSE IF x \in T THEN "out" ELSE Seen(x)
  PROVE  Feed!Next \/ UNCHANGED Track
<1>1. CASE S \cup T = {}
  BY <1>1, FeedStays
<1>2. CASE S \cup T # {}
  <2>1. l \in Feed!Logs
    BY <1>2 DEF Feed!Logs
  <2>2. S \in SUBSET Feed!Ahead(l) /\ T \in SUBSET (Feed!Ahead(l) \ S)
    BY DEF Feed!Ahead
  <2>3. Feed!Read(l, S, T)
    BY HeldIsBatch, FeedCounts DEF Feed!Read
  <2>4. QED
    BY <2>1, <2>2, <2>3 DEF Feed!Next
<1>3. QED
  BY <1>1, <1>2

(* A poll goes on behind all that is accounted for. *)
LEMMA ReadsAfter ==
  ASSUME Known, FeedInv, NEW l \in Present, pc = ReadAt(l),
         NEW k \in Reached(l, look.offset), ~Accounted(LineAt(l, k)),
         NEW y \in Line, y[1] = l, Accounted(y)
  PROVE  Feed!Before(y, LineAt(l, k))
<1> USE DEF Known
<1>1. y \in Log \X (1..Epochs) \X (0..LinesPerFile - 1)
  BY DEF Line
<1>2. y = <<l, y[2], y[3]>> /\ y[2] \in 1..Epochs /\ y[3] \in 0..LinesPerFile - 1
  BY <1>1
<1>3. file[l].epoch \in Nat /\ look.offset \in Nat
  BY DEF TypeOK, Offset, Position
<1>4. k \in Nat /\ look.offset < 2 * k + 2
  BY IntakeAssumption DEF Reached, Touched
<1>5. y[2] <= file[l].epoch
  <2>1. ASSUME y[2] > file[l].epoch
        PROVE  FALSE
    BY <1>2, <2>1 DEF OnceInv, Untouched, Accounted
  <2>2. QED
    BY <1>2, <1>3, <2>1
<1>6. CASE y[2] < file[l].epoch
  BY <1>6 DEF Feed!Before, LineAt
<1>7. CASE y[2] = file[l].epoch
  <2>1. y = LineAt(l, y[3])
    BY <1>2, <1>7 DEF LineAt
  <2>2. Behind(l, 2 * y[3] + 1)
    BY <1>2, <2>1 DEF FeedInv
  <2>3. 2 * y[3] + 1 <= look.offset
    BY <2>2 DEF Behind
  <2>4. y[3] # k
    BY <2>1
  <2>5. y[3] < k
    BY <1>2, <1>3, <1>4, <2>3, <2>4, IntakeAssumption
  <2>6. QED
    BY <1>7, <2>5 DEF Feed!Before, LineAt
<1>8. QED
  BY <1>2, <1>3, <1>5, <1>6, <1>7

LEMMA TakeReads ==
  ASSUME Known, FeedInv, NEW l \in Present, Take(l)
  PROVE  Feed!Next \/ UNCHANGED Track
<1>1. PICK intact, reached, taken :
        /\ ReadSets(l, intact, reached, taken)
        /\ taken \subseteq intact /\ intact \subseteq reached /\ reached \subseteq Line
        /\ batch' = batch \cup taken
        /\ \A x \in reached : x[1] = l /\ x[2] = file[l].epoch /\ x \notin batch
        /\ \A x \in taken : fate[x] = "new" /\ fate'[x] = "new"
        /\ \A x \in reached \ taken :
             IF fate[x] = "new" THEN fate'[x] \in {"torn", "dropped"} ELSE fate'[x] = fate[x]
        /\ \A x \in Line \ reached : fate'[x] = fate[x]
  BY ReadFates
<1> DEFINE T == {x \in reached \ taken : fate[x] = "new"}
<1>2. \A x \in taken \cup T : x[1] = l /\ x[2] = file[l].epoch /\ fate[x] = "new" /\ x \notin batch
  BY <1>1
<1>3. \A x \in taken \cup T : Seen(x) = "ahead"
  BY <1>2 DEF Seen
<1>4. \A x \in batch : x[1] # l
  BY IntakeAssumption DEF Known, SmallBatch, Take, ReadAt, Part
<1>5. ASSUME NEW x \in taken \cup T, NEW y \in Line, y[1] = l, Seen(y) # "ahead"
      PROVE  Feed!Before(y, x)
  <2>1. x \in {LineAt(l, k) : k \in Reached(l, look.offset)}
    BY <1>1 DEF ReadSets
  <2>2. PICK k \in Reached(l, look.offset) : x = LineAt(l, k)
    BY <2>1
  <2>3. ~Accounted(x)
    BY <1>2 DEF Accounted
  <2>4. Accounted(y)
    BY <1>5 DEF Seen, Accounted
  <2>5. pc = ReadAt(l)
    BY DEF Take
  <2>6. QED
    BY <1>5, <2>2, <2>3, <2>4, <2>5, ReadsAfter
<1>6. IsFiniteSet(taken \cup T) /\ Cardinality(taken \cup T) <= MaxLines
  <2>1. taken \cup T \subseteq {LineAt(l, k) : k \in Reached(l, look.offset)}
    BY <1>1 DEF ReadSets
  <2>2. QED
    BY <2>1, ReachedBounded DEF Known
<1>7. Cardinality(taken) <= QueueLimit
  <2>1. intact \subseteq {LineAt(l, k) : k \in Reached(l, look.offset)}
    BY <1>1 DEF ReadSets
  <2>2. IsFiniteSet(intact)
    BY <2>1, ReachedBounded DEF Known
  <2>3. \A x \in intact : x \in Log \X (1..Epochs) \X (0..LinesPerFile - 1)
                          /\ x[1] = l /\ x[2] = file[l].epoch
    BY <1>1 DEF Line
  <2>4. /\ \A x \in intact : x[3] \in Nat
        /\ \A x, y \in intact : x[3] = y[3] => x = y
    BY <2>3, IntakeAssumption
  <2>5. taken = FirstOf(intact, QueueLimit)
    BY <1>1 DEF ReadSets
  <2>6. QED
    BY <2>2, <2>4, <2>5, FirstBounded, IntakeAssumption
<1>8. \A x \in Line : Seen(x)' = IF x \in taken THEN "held"
                                 ELSE IF x \in T THEN "out" ELSE Seen(x)
  BY <1>1 DEF Seen
<1>9. taken \subseteq Line /\ T \subseteq Line /\ taken \cap T = {}
  BY <1>1
<1> HIDE DEF T
<1>10. \A x, y \in taken \cup T : x[2] = y[2]
  BY <1>2
<1>11. \A x \in taken \cup T : x[1] = l /\ Seen(x) = "ahead"
  BY <1>2, <1>3
<1>12. \A x \in taken \cup T, y \in Line : y[1] = l /\ Seen(y) # "ahead" => Feed!Before(y, x)
  BY <1>5
<1>13. TypeOK
  BY DEF Known
<1>14. QED
  BY ONLY <1>4, <1>6, <1>7, <1>8, <1>9, <1>10, <1>11, <1>12, <1>13, FeedReads

(* Waiving lines of a log of which none is in the batch. *)
LEMMA SettleWaives ==
  ASSUME TypeOK, NEW l, NEW lines, \A x \in lines : x[1] = l, \A x \in batch : x[1] # l,
         Settle(lines, "waived"), UNCHANGED batch
  PROVE  Feed!Next \/ UNCHANGED Track
<1> DEFINE S == {x \in Line : x \in lines /\ fate[x] = "new"}
<1>1. \A x \in S : x[1] = l /\ Seen(x) = "ahead"
  BY DEF Seen
<1>2. \A x \in Line : Seen(x)' = IF x \in S THEN "out" ELSE Seen(x)
  BY DEF Settle, Seen
<1>3. S \subseteq Line
  OBVIOUS
<1> HIDE DEF S
<1>4. QED
  BY <1>1, <1>2, <1>3, FeedWaives

LEMMA StatWaives ==
  ASSUME Known, NEW l \in Log, StatLog(l)
  PROVE  Feed!Next \/ UNCHANGED Track
<1> DEFINE early == {LineAt(l, k) : k \in
                       {n \in 0..LinesPerFile - 1 : l = "filter" /\ saved[l] = Absent
                                                      /\ 2 * n < file[l].size}}
<1>1. Settle(early, "waived") /\ UNCHANGED batch
  BY DEF StatLog
<1>2. \A x \in early : x[1] = l
  BY DEF LineAt
<1>3. \A x \in batch : x[1] # l
  BY DEF StatLog, StatAt, Log, Known, SmallBatch, Part
<1> HIDE DEF early
<1>4. QED
  BY <1>1, <1>2, <1>3, SettleWaives DEF Known

LEMMA MaintenanceWaives ==
  ASSUME QuietEnough, Known, Maintenance
  PROVE  Feed!Next \/ UNCHANGED Track
<1>1. CASE UNCHANGED <<batch, fate>>
  BY <1>1, FeedStays DEF Seen
<1>2. CASE SeedWrite
  <2> DEFINE early == Before(seed) \ batch
  <2>1. Settle(early, "waived") /\ UNCHANGED batch
    BY <1>2 DEF SeedWrite
  <2>2. \A x \in early : x[1] = "eve"
    BY DEF Before
  <2>3. batch = {}
    BY <1>2 DEF SeedWrite, Known, SmallBatch, OnceInv, Stopped, QuietEnough
  <2> HIDE DEF early
  <2>4. QED
    BY <2>1, <2>2, <2>3, SettleWaives DEF Known
<1>3. QED
  BY <1>1, <1>2, MaintenanceSteps

(* What is cut from the queue, or refused with it, leaves; the rest is held. *)
LEMMA InsertLeaves ==
  ASSUME Known, FeedInv, Insert
  PROVE  Feed!Next
<1> DEFINE kept == FirstOf({x \in batch : x[1] = "eve"}, MaxQueue) \cup
                   FirstOf({x \in batch : x[1] = "filter"}, MaxQueue
                     - Cardinality(FirstOf({x \in batch : x[1] = "eve"}, MaxQueue)))
<1>1. /\ \A x \in batch : fate[x] = "new"
      /\ batch \subseteq Line /\ kept \subseteq batch
  BY DEF Insert, FeedInv, Known, TypeOK, FirstOf
<1>2. \/ /\ batch' = kept
         /\ fate' = [x \in Line |->
              IF x \notin batch \/ fate[x] \notin {"new", "lost"} THEN fate[x]
              ELSE IF x \in kept THEN "stored" ELSE "dropped"]
      \/ batch' = {} /\ Settle(batch, "dropped")
  BY DEF Insert
<1> HIDE DEF kept
<1>3. PICK S : /\ S \subseteq batch
               /\ batch' = batch \ S
               /\ \A x \in S : fate'[x] = "dropped"
               /\ \A x \in Line \ batch : fate'[x] = fate[x]
  <2>1. CASE /\ batch' = kept
             /\ fate' = [x \in Line |->
                  IF x \notin batch \/ fate[x] \notin {"new", "lost"} THEN fate[x]
                  ELSE IF x \in kept THEN "stored" ELSE "dropped"]
    <3>1. /\ batch' = batch \ (batch \ kept)
          /\ \A x \in batch \ kept : fate'[x] = "dropped"
          /\ \A x \in Line \ batch : fate'[x] = fate[x]
      BY <1>1, <2>1
    <3>2. QED
      BY <3>1
  <2>2. CASE batch' = {} /\ Settle(batch, "dropped")
    <3>1. /\ batch' = batch \ batch
          /\ \A x \in batch : fate'[x] = "dropped"
          /\ \A x \in Line \ batch : fate'[x] = fate[x]
      BY <1>1, <2>2 DEF Settle
    <3>2. QED
      BY <3>1
  <2>3. QED
    BY <1>2, <2>1, <2>2
<1>4. \A x \in Line : Seen(x)' = IF x \in S THEN "out" ELSE Seen(x)
  BY <1>1, <1>3 DEF Seen
<1>5. QED
  BY <1>3, <1>4, FeedLeaves DEF Known

LEMMA AnalyseUses ==
  ASSUME Known, FeedInv, Analyse
  PROVE  Feed!Next
<1>1. \A x \in Line : Seen(x)' = IF x \in batch THEN "used" ELSE Seen(x)
  BY DEF Analyse, Seen
<1>2. Cardinality(batch) <= MaxQueue
  BY DEF Analyse, FeedInv
<1>3. QED
  BY <1>1, <1>2, FeedUses DEF Known

LEMMA FailLeaves ==
  ASSUME Known, FeedInv, Fail
  PROVE  Feed!Next
<1>1. \A x \in batch : fate[x] \in {"new", "stored"}
  BY DEF FeedInv
<1>2. \A x \in Line : Seen(x)' = IF x \in batch THEN "out" ELSE Seen(x)
  BY <1>1 DEF Fail, Settle, Seen
<1>3. QED
  BY <1>2, FeedLeaves DEF Known

LEMMA NextImplements ==
  ASSUME QuietEnough, Known, FeedInv, [Next]_vars
  PROVE  Feed!Next \/ UNCHANGED Track
<1>1. CASE UNCHANGED <<batch, fate>>
  BY <1>1, FeedStays DEF Seen
<1>2. CASE EveRead \/ FilterRead
  BY <1>2, TakeReads DEF EveRead, FilterRead
<1>3. QED
  BY <1>1, <1>2, StatWaives, MaintenanceWaives, InsertLeaves, AnalyseUses, FailLeaves
     DEF Next, Service, Environment, PassOver, Write, Rotate, Truncate, vars

LEMMA InitImplements == Init => Feed!Init
  BY DEF Init, Feed!Init, Seen

(* On a firewall that is quiet enough the collectors and run_once implement  *)
(* LineFeed: lines are read on from where reading or giving up ended, within *)
(* the limits of a poll and of the queue, and each is used at most once,     *)
(* whatever fails, is refused, dropped, rotated between polls or reset.      *)
THEOREM ImplementsFeed ==
  ASSUME QuietEnough
  PROVE  Spec => KeepsFeed
<1>1. Known /\ FeedInv /\ [Next]_vars => [Feed!Next]_[x \in Line |-> Seen(x)]
  BY NextImplements DEF Track
<1>2. QED
  BY <1>1, InitImplements, AlwaysFeed, PTL DEF Spec, KeepsFeed, Feed!Spec

-----------------------------------------------------------------------------
(* What LineFeed promises its readers, carried over.                         *)

(* The steps of LineFeed as its readers see them. *)
GivesUp(S) ==
  /\ \A x \in S : Seen(x) \in {"ahead", "held"}
  /\ \A x \in Line : Seen(x)' = IF x \in S THEN "out" ELSE Seen(x)

UsesHeld == \A x \in Line : Seen(x)' = IF Seen(x) = "held" THEN "used" ELSE Seen(x)

GoesOn(l, S, T) ==
  /\ \A x \in S \cup T : x \in Line /\ x[1] = l /\ Seen(x) = "ahead"
  /\ \A x \in S \cup T, y \in Line : y[1] = l /\ Seen(y) # "ahead" => Feed!Before(y, x)
  /\ \A x \in Line : Seen(x)' = IF x \in S THEN "held" ELSE IF x \in T THEN "out" ELSE Seen(x)

LEMMA FeedSteps ==
  ASSUME [Feed!Next]_[x \in Line |-> Seen(x)]
  PROVE  UsesHeld \/ (\E S : GivesUp(S)) \/ (\E l, S, T : GoesOn(l, S, T))
<1>1. ASSUME NEW S, NEW to, Feed!Moves(S, to)
      PROVE  \A x \in Line : Seen(x)' = IF x \in S THEN to ELSE Seen(x)
  <2>1. [x \in Line |-> Seen(x)]'
          = [x \in Line |-> IF x \in S THEN to ELSE [y \in Line |-> Seen(y)][x]]
    BY <1>1 DEF Feed!Moves
  <2>2. QED
    BY <2>1
<1>2. Feed!Held = {x \in Line : Seen(x) = "held"}
  BY DEF Feed!Held
<1>3. \A l : Feed!Ahead(l) = {x \in Line : x[1] = l /\ Seen(x) = "ahead"}
  BY DEF Feed!Ahead
<1>4. CASE UNCHANGED [x \in Line |-> Seen(x)]
  <2>1. \A x \in Line : Seen(x)' = Seen(x)
    BY <1>4
  <2>2. GivesUp({})
    BY <2>1 DEF GivesUp
  <2>3. QED
    BY <2>2
<1>5. CASE Feed!Use
  BY <1>1, <1>2, <1>5 DEF Feed!Use, UsesHeld
<1>6. ASSUME NEW S \in SUBSET Feed!Held, Feed!Leave(S)
      PROVE  GivesUp(S)
  BY <1>1, <1>2, <1>6 DEF Feed!Leave, GivesUp
<1>7. ASSUME NEW l, NEW S \in SUBSET Feed!Ahead(l), Feed!Waive(l, S)
      PROVE  GivesUp(S)
  BY <1>1, <1>3, <1>7 DEF Feed!Waive, GivesUp
<1>8. ASSUME NEW l, NEW S \in SUBSET Feed!Ahead(l), NEW T \in SUBSET (Feed!Ahead(l) \ S),
             Feed!Read(l, S, T)
      PROVE  GoesOn(l, S, T)
  <2>1. [x \in Line |-> Seen(x)]'
          = [x \in Line |-> IF x \in S THEN "held" ELSE IF x \in T THEN "out" ELSE Seen(x)]
    BY <1>8 DEF Feed!Read
  <2>2. \A x \in S \cup T, y \in Line : y[1] = l /\ Seen(y) # "ahead" => Feed!Before(y, x)
    BY <1>8 DEF Feed!Read
  <2>3. \A x \in S \cup T : x \in Line /\ x[1] = l /\ Seen(x) = "ahead"
    BY <1>3
  <2>4. \A x \in Line : Seen(x)' = IF x \in S THEN "held"
                                   ELSE IF x \in T THEN "out" ELSE Seen(x)
    BY <2>1
  <2>5. QED
    BY <2>2, <2>3, <2>4 DEF GoesOn
<1>9. QED
  BY <1>4, <1>5, <1>6, <1>7, <1>8, Zenon DEF Feed!Next

LEMMA FeedHeldInOrder ==
  ASSUME Feed!HeldInOrder, [Feed!Next]_[x \in Line |-> Seen(x)]
  PROVE  Feed!HeldInOrder'
<1> SUFFICES ASSUME NEW x \in Line, NEW y \in Line,
                    Seen(x)' = "held", Seen(y)' = "used", x[1] = y[1]
             PROVE  Feed!Before(y, x)
  BY DEF Feed!HeldInOrder, Feed!Before
<1>1. Seen(x) = "held" /\ Seen(y) = "used" => Feed!Before(y, x)
  BY DEF Feed!HeldInOrder
<1>2. QED
  BY <1>1, FeedSteps DEF UsesHeld, GivesUp, GoesOn

(* No line that was analysed, cut off, lost, unreadable or left behind is    *)
(* taken up again by a poll or by a later stage (SettledForGood of LineFeed).*)
THEOREM NothingComesBack ==
  ASSUME QuietEnough
  PROVE  Spec => Feed!SettledForGood
<1>1. [Feed!Next]_[x \in Line |-> Seen(x)] => [Feed!StaysSettled]_[x \in Line |-> Seen(x)]
  <2> SUFFICES ASSUME [Feed!Next]_[x \in Line |-> Seen(x)],
                      NEW x \in Line, Seen(x) \in {"used", "out"}
               PROVE  Seen(x)' = Seen(x)
    BY DEF Feed!StaysSettled
  <2>1. QED
    BY FeedSteps DEF UsesHeld, GivesUp, GoesOn
<1>2. QED
  BY <1>1, ImplementsFeed, PTL DEF KeepsFeed, Feed!Spec, Feed!SettledForGood

LEMMA InitHeldInOrder == Init => Feed!HeldInOrder
  BY DEF Init, Feed!HeldInOrder, Seen

LEMMA AlwaysHeldInOrder ==
  ASSUME QuietEnough
  PROVE  Spec => []Feed!HeldInOrder
<1>1. Init => Feed!HeldInOrder
  BY InitHeldInOrder
<1>2. Feed!HeldInOrder /\ [Feed!Next]_[x \in Line |-> Seen(x)] => Feed!HeldInOrder'
  BY FeedHeldInOrder
<1>3. QED
  BY <1>1, <1>2, ImplementsFeed, PTL DEF Spec, KeepsFeed, Feed!Spec

(* A line that is analysed was written after every line of its log that was  *)
(* analysed before.                                                          *)
AnalysedInOrder ==
  [][\A x, y \in Line :
       x[1] = y[1] /\ fate[y] = "analysed" /\ fate[x] # "analysed" /\ fate'[x] = "analysed"
         => Feed!Before(y, x)]_vars

(* Features and detectors see the events of a log in the order of its lines, *)
(* over polls, rotations, failures and resets.                               *)
THEOREM EventsInOrder ==
  ASSUME QuietEnough
  PROVE  Spec => AnalysedInOrder
<1>1. Known /\ FeedInv /\ Feed!HeldInOrder /\ [Next]_vars
        => [\A x, y \in Line :
              x[1] = y[1] /\ fate[y] = "analysed" /\ fate[x] # "analysed"
                /\ fate'[x] = "analysed"
                => Feed!Before(y, x)]_vars
  <2> SUFFICES ASSUME Known, Feed!HeldInOrder, [Next]_vars,
                      NEW x \in Line, NEW y \in Line, x[1] = y[1], fate[y] = "analysed",
                      fate[x] # "analysed", fate'[x] = "analysed"
               PROVE  Feed!Before(y, x)
    OBVIOUS
  <2>1. x \in batch
    BY AnalysedWriters DEF Known
  <2>2. y \notin batch
    BY DEF Known, OnceInv
  <2>3. Seen(x) = "held" /\ Seen(y) = "used"
    BY <2>1, <2>2 DEF Seen
  <2>4. QED
    BY <2>3 DEF Feed!HeldInOrder
<1>2. QED
  BY <1>1, AlwaysFeed, AlwaysHeldInOrder, PTL DEF Spec, AnalysedInOrder
=============================================================================

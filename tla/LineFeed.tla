------------------------------- MODULE LineFeed -------------------------------
(***************************************************************************)
(* What the telemetry intake promises its readers, the features and the    *)
(* detectors: of the lines of each log some are read, in the order they    *)
(* were written; what has been read is used at most once; and no more than *)
(* the configured numbers are read and used at a time.  No files, offsets, *)
(* inodes or stages.  TelemetryIntake shows that the code keeps these      *)
(* promises where logs are not rotated in the middle of a read.            *)
(***************************************************************************)
EXTENDS Naturals, FiniteSets

CONSTANTS
  Line,        \* <<log, file, place>>: the lines the logs will ever hold
  MaxLines,    \* lines read from a log at a time
  QueueLimit,  \* those of them that are held
  MaxQueue     \* lines used at a time

VARIABLE state  \* what has become of each line

State ==
  {"ahead",  \* not read, perhaps not even written
   "held",   \* read, its event waits to be used
   "used",   \* its event went through features and detectors
   "out"}    \* given up: left behind, unreadable, cut off or lost

TypeOK == state \in [Line -> State]

Init == state = [x \in Line |-> "ahead"]

Logs == {x[1] : x \in Line}

(* The order in which the lines of one log are written. *)
Before(x, y) == x[2] < y[2] \/ (x[2] = y[2] /\ x[3] < y[3])

Ahead(l) == {x \in Line : x[1] = l /\ state[x] = "ahead"}

Held == {x \in Line : state[x] = "held"}

Moves(S, to) == state' = [x \in Line |-> IF x \in S THEN to ELSE state[x]]

(* Lines of one file are read that come after all that was read or given up  *)
(* of this log: some are held, the others could not be taken.                *)
Read(l, S, T) ==
  /\ \A x \in Held : x[1] # l
  /\ \A x, y \in S \cup T : x[2] = y[2]
  /\ \A x \in S \cup T, y \in Line : y[1] = l /\ state[y] # "ahead" => Before(y, x)
  /\ Cardinality(S \cup T) <= MaxLines /\ Cardinality(S) <= QueueLimit
  /\ state' = [x \in Line |-> IF x \in S THEN "held"
                              ELSE IF x \in T THEN "out" ELSE state[x]]

(* Lines of a log are left behind unread, while none of it is held. *)
Waive(l, S) == (\A x \in Held : x[1] # l) /\ Moves(S, "out")

(* Held lines are given up. *)
Leave(S) == Moves(S, "out")

(* All that is still held is used, within the limit of the queue. *)
Use == Cardinality(Held) <= MaxQueue /\ Moves(Held, "used")

Next ==
  \/ \E S \in SUBSET Held : Leave(S)
  \/ Use
  \/ \E l \in Logs : \E S \in SUBSET Ahead(l) :
       Waive(l, S) \/ \E T \in SUBSET (Ahead(l) \ S) : Read(l, S, T)

Spec == Init /\ [][Next]_state

-----------------------------------------------------------------------------
(* Properties. *)

(* What is held comes after everything of its log that was used. *)
HeldInOrder ==
  \A x, y \in Line :
    state[x] = "held" /\ state[y] = "used" /\ x[1] = y[1] => Before(y, x)

(* What is used or given up stays so. *)
StaysSettled == \A x \in Line : state[x] \in {"used", "out"} => state'[x] = state[x]

SettledForGood == [][StaysSettled]_state
=============================================================================

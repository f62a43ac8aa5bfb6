# PondSec NDR in TLA+

PondSec NDR is a network detection and response plugin for OPNsense: a Python
service tails the logs of Suricata and of the packet filter, turns their lines
into events, features, detections and cases, and may answer a case with a block
entry that puts an address into a PF table. This directory holds a
specification of the parts of it where order, concurrency and failure matter,
the TLC runs that check it and proofs checked by TLAPS.

Paths below are relative to `src/usr/local/share/pondsec-ndr/pondsec_ndr/` of
the repository unless they start with `docs/` or `README`.

## Modules

| Module | Models | Checked by |
| --- | --- | --- |
| `BlockContract` | what the response promises about enforcement, database and PF seen as one object | as property `KeepsContract` |
| `BlockResponse` | block entries, PF table and the handlers that change them (`response/engine.py`, `response/pf.py`, the block part of `storage/database.py`, the commands of `cli.py`) | `BlockSerial`, `BlockConcurrent`, `BlockForever` |
| `TelemetryIntake` | the two collectors with logs and offsets, and the stages of `run_once` (`collectors/*.py`, `service.py`) | `IntakeQuiet`, `IntakeRough`, `EveStarves` |
| `LineFeed` | what the intake promises the features and detectors: lines in order, in limited numbers, each at most once | as property `KeepsFeed` |
| `Detectors` | the normalizers, the interface filter, the features of a source and the rules that need no memory (`normalizers/suricata.py`, `collectors/filterlog.py`, `features/aggregator.py`, `detection/detectors.py`), as functions of the lines of one poll | through `HostBaselines` |
| `HostBaselines` | baselines, their scores and what they learn, false-positive feedback, the learning phase (`storage/database.py`, `service.py`, `config.py`, `detection/detectors.py`) | `Baselines`, `LearningBlind` |
| `Correlation` | from the detections of a poll to cases, scores, roles, the limit per minute and the host a response is about (`correlation.py`, `risk.py`, `detection/base.py`, `service.py`, `response/engine.py`) | `Correlate` |
| `IncidentStore` | rows of cases, their links to detections and the open-case counts (`insert_incidents` and the incident commands of `storage/database.py`) | `CasesSerial`, `CasesCollide` |
| `AutoIsolation` | what the service decides on its own: policy, target, limits over time (`response/policy.py`, `_auto_response` of `service.py`, the learning period of `config.py`) | `Isolation` |
| `BlockResponse_proofs`, `TelemetryIntake_proofs`, `HostBaselines_proofs`, `Correlation_proofs`, `IncidentStore_proofs`, `AutoIsolation_proofs` | theorems about the module in the name | `tlapm` |
| `BlockAgreement_proofs` | theorems about `BlockResponse` and `BlockContract`: the refinement, and what one process achieves | `tlapm` |
| `IntakeAgreement_proofs` | theorems about `TelemetryIntake` and `LineFeed`: the refinement, and the order it gives | `tlapm` |

`MC` and the name of a module gives that module's constants values for TLC
(`MCHostBaselines` those of `Detectors` too). To run one:
`tlc -config BlockSerial.cfg MCBlockResponse`; to check proofs:
`tlapm BlockResponse_proofs.tla`.

Along the way of a line: `TelemetryIntake` says which lines reach a poll and what
becomes of them when it fails, `Detectors` and `HostBaselines` what is found in
them, `Correlation` which cases that makes, `IncidentStore` how cases are kept,
`AutoIsolation` what is decided on them and `BlockResponse` how it is carried out.
Each module takes from the one before it only what an assumption or a property
states: `Correlation` assumes of a finding (`Reportable`) what `HostBaselines` shows
of every finding (`FindingsFit`); `IncidentStore` takes any batch of cases,
`AutoIsolation` any evidence, `BlockResponse` any decision.

## Inventory

### The system's parts

* **Service loop** (`service.py`). State: configuration read once, counters,
  rate windows; `run_once` every two seconds; exceptions are logged and the loop
  goes on. Calls every other part in a fixed order: collect, filter, cut to the
  queue, store events, features, baselines, detect, store detections,
  correlate, store cases, update baselines, respond, clean up. Hard: what a
  failure between two of these leaves behind. Correct if no line is counted
  twice, a failure costs one batch, and what is stored is dealt with.
* **Telemetry collectors** (`collectors/eve.py`, `filterlog.py`). State: an offset
  file with inode and offset per log. `read_once` reads up to `max_lines`. They
  share the logs with Suricata, syslog and newsyslog. Hard: rotation,
  truncation, lines not flushed to their end, the limits. Correct if the offset
  never passes an unread line and always gets on.
* **Event store** (`storage/database.py`). SQLite, one transaction per method, used
  by several processes at once. Events, features, detections, baselines, cases,
  links, hosts, block entries, allowlist, audit. Hard: reads that precede the
  transaction, several copies of one fact (`hosts.block_status`,
  `hosts.open_incidents`, counts and evidence of a case). Correct if the copies
  agree and no row outlives what it refers to.
* **Response engine and PF enforcer** (`response/engine.py`, `pf.py`). State: block
  entries (database) and the PF table (kernel), which no transaction covers
  together. Operations: propose, activate, remove, release, expire, reset.
  Callers: `_auto_response` of the service, the commands that GUI and configd
  start, `protection validate`. Hard: check-then-act between processes, PF
  failures and crashes between two steps, time running out. Correct if nothing
  protected is dropped, nothing stays in PF unaccounted for, limits hold and
  blocks end.
* **Response policy** (`response/policy.py`) and the **learning period**
  (`config.py`). Pure decisions: who may be proposed or activated. Correct if an
  answer of the model alone, or of a learning system, is never acted on.
* **Normalizers**, **aggregation** (`features/aggregator.py`) and the **detectors**
  (`detection/`). Functions of one poll, except for the baselines (database), which
  are scored in one transaction and taught in another while an operator may mark
  false positives, reset, or change settings. Hard: a baseline learns from the
  traffic it judges. Correct if attacks are not learnt as normal, forgiven
  changes are, and what is found is in the ranges that correlation counts on.
* **Correlation** (`correlation.py`) and **risk** (`risk.py`). State: none beyond the
  poll but the stamps of the rate limit. Hard: detections sorted by stamps of a
  clock that may be set back, the youngest related case, roles with fallbacks.
  Correct if every detection ends in one reported case, what is in a case belongs
  together in address and time, and the response is about a host that acted.
* **Command line** (`cli.py`). One process per command; the only way for GUI and
  configd into the backend.
* **Configuration, model runtime and manager, privacy, CVE data,
  diagnostics, providers, sensor hardening, logging**: conversions, file and
  network I/O, reports.
* **OPNsense pages, API, configd actions, rc script**: start the processes; no
  state of their own.

### Who shares what

The service and any number of command processes share the database and the PF
table, without a lock between two steps. Service and `reset-runtime` share the
offset files. Nothing calls back: all interaction is through these three.

### What is hard to test

`PROJECT.json` lists the hazards by line. The gravest: the check-then-act
sequences of `engine.py`, PF and database out of step after failures, offsets
saved before events are stored and after a loop that may throw, deterministic
case ids inserted with a plain INSERT, and rows read before the transaction
that writes them.

## BlockResponse

**State.** `block` is the table `block_entries`, of which a row keeps status,
source, case and whether `expires_at` lies ahead (`live`); ids are numbers in
order of creation, so that "latest" is "greatest". `host` is
`hosts.block_status`, `allow` the unexpired allowlist, `incidents` the ids of
cases, `aged` those of them that are closed and older than the retention, `pf` the
PF table. `pc` and `job` are where each process is and what its
handler remembers. An action is one store method (a transaction) or one PF
command; a handler such as `activate_block` is the sequence `ActivateGet`,
`ActivateCheckAllow`, `ActivateCount`, `ActivateAdd`, `ActivateUpdate`, and any other
process may act between two of them. `expire_block_entries` and `delete_incident`
select before their transaction begins, so they are two actions.

**Abstractions.** A blocked address or network is one value of `Source`; what
`is_protected_target` and `is_allowlisted` answer about it is given by `Protected`
and `allow`. The policy's and the thresholds' answer is free (`ProposeDenied`
after a proposal for a case, `Proposed` for whether it is activated). Audit
rows, results and reasons are left out. `responses` rows are written but read
by nothing that is modelled.

**Disturbances** are named members of a set, so that a run says which it admits:
PF failures and hangs, crashes, a reboot that empties PF, activation of any id
from the shell (the GUI offers only proposals), `reset-runtime` without flushing
PF or with the service running, time passing between the two reads of one
expire run, an allowlist entry of the other IP version (on which
`is_allowlisted` raises), and cases that are closed and left until the retention
is over (`AgeIncident`), which `purge_before` then deletes (`Purge`): in every poll of
the service, and as `privacy purge`.

**Runs.** `BlockSerial` has one process and no disturbance but the retention: two
entries, two sources, one case, limit one. It checks that no address leaks into PF
(`NothingLeaks`), that a source has one current entry (`OneCurrentPerSource`), the
limit (`WithinLimit`), that no step leaves a current response without its case, unless
it purges an aged one (`ResponseKeepsCase`), that the host list repeats the entries
(`HostClaimsAreRecorded`), that blocks end (`BlocksAreTemporary`), and the
refinement of `BlockContract` (`KeepsContract`). Two entries are enough for every
pair the properties speak of: two entries of one source, two sources with the
limit in between, one entry reused and one new.

`ResponseKeepsCase` is about steps. `delete_incident` refuses while the response of the
case is proposed or active, but `purge_before` looks at the age and the status
of the case only, and a response is allowed to a closed case. So the property admits
that one way and no other: not a deletion, not a proposal that outlives its case, not
a reset, and never for a case that is open or recent.

The refinement maps an entry to itself and *enforced* to the PF addresses that
an active entry backs, plus those a reset has flushed and not yet deleted from
the database. `ActivateAdd` and `RemoveUpdate`/`RemoveDelete` thereby become
stutters, `Grant`, `Retire` or `Relax` of the contract.

`BlockConcurrent` has the service and one command process, a protected address
and all disturbances but the retention, on which none of its properties depends. It
checks what is left: `ProtectedNeverBlocked` and
`WithinLimitPlusRacers`, the limit plus one for each process but one.

`BlockForever` is a counterexample; see below.

**Fairness.** A process that has begun a handler finishes it (`WF` on
`Continue(a)`): handlers are straight-line code without waiting, and PF commands
have a timeout. Nobody has to begin a handler. `ExpiringSpec` adds strong
fairness of `StartExpire`, that is, an operator or a cron job who keeps running
`blocklist expire` whenever the process is free for it infinitely often; the
package itself contains no such job, so the property under `FairSpec` alone is a
finding.

## TelemetryIntake

**State.** `file` is the file at each log's path: its epoch (which contents), its
inode and its size; `saved` is the offset file; `pc` the stage of `run_once`;
`look` the inode and offset of the current read; `batch` the lines whose events
are in memory; `fate` records what became of each line (history, like
`failures`). `reset` is what `reset-runtime` still has to do with the offset files, `seed`
what it has seen of the EVE log; `forgotten` records (history) the logs of which a saved
place has been lost. Logs are written in halves of lines, so that a poll can meet half a
line. Both collectors are the actions `StatLog` (stat, load the offset, test
for rotation) and `EveRead` or `FilterRead` (open, read, save), with rotation
possible in between; `Insert` and `Analyse` are the rest of `run_once`. `Loaded` is
`_load_offset`: a file that cannot be read or parsed, or vanishes under a reset, is no
place at all, and the log is read from its start.

`reset-runtime` is a process of its own. `StartReset` stops the service, which finishes its
iteration, `RemoveOffset` takes the offset files away, `SeedStat` looks at the EVE log and
`SeedWrite` leaves what was written by then behind, `Restart` starts the service. A
removal that fails ends it, a stat or a write that fails is only reported (`EndReset`,
with the disturbance `reset_fails`); without `--restart-service` all this goes on beside
polls (`reset_live`). The filter log is sought at a path where OPNsense has none
(`cli.py:441`), so that its collector begins at the end by itself.

`EveRead` and `FilterRead` differ where the code does: `eve.py` iterates over the
handle, so that `tell()` raises `OSError` after a break and nothing is saved;
`filterlog.py` has consumed the line that trips the limit when it saves the
position. Without an offset file the filter log is begun at its end, the EVE
log at its start. Rate windows, health and filters on interfaces are left out:
every line is an event that passes them.

**Bounds.** `LinesPerFile`, `Epochs` (files per log over time) and `MaxFailures`.
`IntakeQuiet`: both logs, two lines per file, two files, `MaxLines`, queue and
batch of one, so every limit is met with two lines, and logs that grow by
`MaxLines` between polls (no `burst`). `IntakeRough`: both logs, limits and files as
before, one failure, and every disturbance, of which `OneTrouble` keeps some apart: once a
saved place is lost no file is begun anew and no iteration fails, and a reset comes
before the first failure. The bound `OneLogGrows` of
`MCTelemetryIntake` keeps to behaviours in which one of the logs is written to
and the other stays empty (it can be rotated, emptied, reset and looked at all
the same). The two logs share the stages of a poll, the queue and the failures,
and no property of the run relates lines of both; that nothing is lost by these
bounds is what the theorems below say, which do without them. 1.5 million states.

**Runs.** `IntakeQuiet`: `AnalysedOnce` and, with weak fairness of the service
(`run_forever` polls every two seconds and survives exceptions), `CatchesUp`, and the
refinement of `LineFeed` (`KeepsFeed`): both logs, both offset files and the stages of
a poll are one map from lines to what became of them. A line in the batch is *held*, one
without a fate *ahead*, one that was analysed *used*, every other *out*. `StatLog` of
a first start and `SeedWrite` thereby become `Waive`, the reads `Read`, `Insert` is `Leave` of
what the queue cuts off, `Analyse` is `Use`, `Fail` is `Leave`, and all that the
logs do by themselves is a stutter. The run meets both cuts.
`IntakeRough`: `NothingSkipped`, the offset of the EVE log never passes a line
without an account; `SkipsApart`, what the filter log allows in its place: a line
passed over without an account has `MaxLines` lines with one before it;
`LossIsBounded`, a failed iteration costs a batch of each log and nothing else; and
`WaivedForGood`, what a first start or a reset left behind is never taken up later, as
long as the place that was saved for the log is not lost (`forgotten`): that is, its
offset file is read whenever it is there, and no reset has removed the EVE offset
without writing a new one, or while polls went on.
`AnalysedOnce` is not claimed there: with a burst the EVE collector reads
the same lines again, as `EveStarves` shows.

`NothingSkipped` and `SkipsApart` leave out files that were emptied in place. A log
that has grown past the old offset by the next poll cannot be told from one that
only grew, which inode and size do not decide.

`IntakeQuiet` has no reset; that clean ones, beside failures and a full database, keep
`AnalysedOnce` and `KeepsFeed` is what `EventsAnalysedOnce` and `ImplementsFeed` say.

## Detectors and HostBaselines

**State.** `batch` is what the poll has read, `found` its detections, `baseline` the table
`host_baselines` with the number of observations and the sum of each metric per
source (the mean the code keeps is their quotient), `feedback` how many days the
newest false positive of a source still counts, `blamed` the sources that may
have a case to mark, `status` the answer of `learning_status`. `streak` is history:
what was learnt of a source last, how often in a row, on top of how much else.

**Actions.** `Score` is the first half of a poll: `FindingsOf` is the choice of
detectors, the rules of `Detectors`, the comparison with the baseline, and the
verdict of the model, which is any. `Learn` is `update_host_baselines` for all
sources but `Skipped`, `Abandon` an exception or the end of the process between the
two. In between and at any time: `MarkFalsePositive`, `Day`, `ResetRuntime`; between
polls `Restart` with other settings.

**Detectors** has no state. `Accepted` and `EveEvent`/`FilterEvent` say which lines
become events and with what, `Events` adds the filter on interfaces, `Observation` is
the feature vector a baseline keeps, `OwnDeviation` the part of the deviation score
that looks at no baseline, and each detector is one operator. What a rule
cannot tell apart is left out. All numbers are integers: entropies, confidences
and anomaly scores in hundredths, ratios cut to whole parts. The deviation, which
the code rounds to four digits, is compared by cross-multiplication, and the
anomaly score of a baseline finding is its lower bound for the two severities.
That counts, sums and spans of what a batch holds are naturals is stated in
`TrafficAssumption` rather than proved (it would take an induction), and
evaluated by TLC for the traffic of the runs.

**Bounds.** Eight named batches: a quiet and a busy poll of one connection per
second, a flood, a fan-out to fifty addresses, a scan in the filter log, odd names, a
mixture of lateral movement, fingerprints and alerts, and a theft with a beacon;
between them they set off every rule, and most sources never appear in more than
one. A baseline is established from two observations on (50 by default), three are kept, and a
false positive lasts one day.

**Runs.** `Baselines`: `FindingsFit`, `DriftBounded` (what a source teaches an established
baseline without having been forgiven is below 7.5 times its mean, in every
interleaving) and `AdaptsInTime` (what was forgiven and learnt k times over stops
deviating once 13 k > 2 n). `LearningBlind` is a counterexample; see below. Both stop where the
bounds on observations do, hence `CHECK_DEADLOCK FALSE`.

**Noticed and kept in the model.** An established source whose own deviation is high
(65 connections in ten seconds, names of mean entropy 3.25, a ratio of 65) is
reported as an anomaly of its baseline whatever that baseline says; marking it a
false positive teaches it and changes nothing (`detectors.py:290`), which is why
`AdaptsInTime` speaks of `Deviates` alone. A metric that was always zero is passed
over, so behaviour that is entirely new is no deviation. With the baseline
detector off, or in the learning phase, whatever comes is learnt; `DriftBounded`
is about the armed state. A scan spread over polls meets no rule, nor does a
beacon of more than the seconds one poll covers. Flows that ended by timeout count
as failed. A line of the filter log without an RFC 5424 header has no time, and
the aggregation of its whole poll fails (`filterlog.py:176`), which for
`TelemetryIntake` is a `Fail`. The switches of single detectors in the
configuration are read by `providers.py` only. The host list calls a baseline
learnt from 50 observations on, whatever the setting (`database.py:701`).

## Correlation

**State.** `now` is the time that has passed; the clock reads anything from `Slew`
before that. `found` are the detections of the poll with their stamps, `left` those
not yet in a case, `cases` the list that `correlate_detections` builds with its indexes,
`stamps` the counter of the rate limit, `accepted` and `total` history.

**Actions.** `Detect` (a detector reports, `make_detection` stamps it), `Begin`, then for
the earliest remaining detection `Open` or `Join` of the youngest related case, then
`Report` (scores, threshold, limit per minute), `Restart`, `Tick`. `Related` is
`_is_related` literally, with the two disjuncts that lemma `RelatedLinks` shows to be
redundant. Roles (`ExternalActor`, `Victim`, `PivotHost`, ...) are functions of the list of a case's
detections, `Targets` is `_response_target_for_incident` with the order of equals left open.
Both notions of an internal address are kept: `Internal` of correlation and
`Private` of the response engine, which is larger.

**Abstractions.** Scores are integers in hundredths cut to whole points, rounding of
floats left out; the threshold is the code's 35. The second filter on the score
never drops anything, as `EveryDetectionReported` shows. Titles, stages and the identifier of a case are
left out (`IncidentStore` has the identifier).

**Bounds.** Seven findings: an attack from outside, a server that moves on, a
laptop of its own, and an address that only the engine takes for internal, with
the least and largest severities the detectors give; four detections, a window
of one, a minute of two, a limit of one, a clock that may be set back by one.
Four detections make cases with every role, and cases side by side of which
more than one could take the next detection. The bounds on clock and detections
end the behaviours, hence `CHECK_DEADLOCK FALSE`. 1.2 million states.

**Run.** `Correlate`: no detection without a reported case (`EveryDetectionReported`), what
is in a case is linked by addresses (`Linked`) and without a gap longer than the
window (`NoLongGap`), roles name hosts of the case in that role (`RolesFromCase`), the
response is about one that acted (`TargetActs`), and the limit holds over any minute,
less what the clock was set back (`RateKept`).

**Noticed and kept in the model.** Detections of one source may be split over two
cases, when the younger of two related cases takes what the older one could have
(`correlation.py:29` speaks of belonging in one case). `ARCHITECTURE.md:79` names the
category as a key of the grouping; the code does not look at it. `response_target`
may name the victim, while the engine then acts on the source. Cases beyond the
limit are dropped for good, the youngest first.

## IncidentStore

**State.** `db` is what is committed: `row` (incidents), `link`
(incident_detections), `opened` (hosts.open_incidents, `None` for a host without
a row) and `detections`. `draft` is what the writing transaction sees, `lock` who
has it. sqlite3 begins a transaction at the first writing statement: `Find` reads
the row to merge the first case into before that, `WriteFirst` begins the
transaction, `WriteNext` goes on in it, the last one commits. A case is its
deterministic id; source, targets and evidence are functions of it, as in
`correlate_detections` and `make_detection`.

**Abstractions.** Title, risk, severity and the other maxima are left out. Of
times a row keeps only whether it lies in the 30-minute window (`recent`); which
of several candidates is the latest is left open, and so is which closed rows
outside the window are past the retention. All cases carry the same validation
tag. The cap of 50 detections in evidence is not reached. Counts are cut off at
the number of detections there are, where no property tells them apart any more.
That a response holds a case back from deletion is in `BlockResponse`.

**Runs.** `CasesSerial`: one process, three cases (two of one source with targets
in different networks, a third of an intruder whose target is that source, so
that merging by target, by network and by role all happen), batches of two and
everything in `AllThatHappens`. `CountCoversLinks`, `EvidenceMatchesLinks`,
`NoOrphanLinks`, `OpenCasesShow`: the copies of a fact agree. The last is an
inequality because `merge_incidents` archives a case without recounting its host.
`ReportedEvidenceKept` (a case names, and is linked to, the detections it was
reported with, however often it is merged) and `LinksOnlyGrow` (a step takes a link
away only with its case): no evidence is lost on the way. The bound `TwoRows` of
`MCIncidentStore` goes on only from states in which at most two of the three
cases have a row; states with three are checked, their successors are not. A row is
merged with one other at a time, so that two rows and a case to come meet every
branch, and the theorems below do without the bound. 0.4 million states.

The module has the interleavings of several processes too (`Actor`, `lock`,
stale copies in `job`). With two of them the first three properties do not hold:
the row to merge into is read before the transaction, so that what is committed
in between is overwritten or, after a deletion, left as links without a case.
No document promises otherwise, so no run claims it. `OpenCasesShow`,
`ReportedEvidenceKept` and `LinksOnlyGrow` do hold, for any number of processes; the
theorems below say so.

## AutoIsolation

**State.** `now` is the clock, `settings` the configuration in force, `evidence` the
detections of each case, `grade` which of the three thresholds (risk, severity, confidence) it
reaches, `steady` the hosts with a stable baseline, `entry` the
table of entries with `automatic` and `created_at`, `queue` and `mass` the locals of
`_auto_response`. `isolations` is history: each time the service has activated an
entry for an internal host, whether the entry is automatic and whether it was
made in the same response (`fresh`).

**Actions.** `Poll` adds detections to cases and hands them over; for each,
`Isolate` proposes and activates, `Recommend` leaves it at the proposal (no
permission to activate, too many candidates, an entry already in force, or an
activation that failed), `Skip` does nothing (refused, rate limit, error).
`Refused` is `evaluate_automatic_response_policy` with the checks that repeat it.
Operators propose, activate, remove and expire at any moment, the clock may
move between two cases, a restart brings other settings, a reset empties all.

**Abstractions.** A detection is a record of detector, category, source, its marks and
whether its traffic was stopped. The marks are what the code tests: a severity of 9
(`severe`), a confidence of .95 (`sure`), and `signature_id` or `periodicity` in the
evidence, which count for the engine of Suricata and for beaconing whatever
detector it was. Risk, severity and confidence of a case are scores of the group that a poll
hands over, merged by the greater one each, so that different polls may bring a case over
different thresholds: `Reached` are the combinations one poll can reach, `grade` is
what they come to. The counts of events and detections are taken as
reached, which only lets the model isolate more than the code. Handling one
case takes one instant: the distances below are exact up to the seconds a PF
command takes. Manual and automatic entries have the same lifetime. Retention
of cases and the cap of 50 detections are left out.

**Runs.** `Isolation`: a laptop with a case of its own, a server that becomes the
target of a case from outside when it starts to behave, two entries, four
ticks, a cooldown of one, an hour of three, a lifetime of two, a limit of one per hour
and batches of two as mass. The bound `OwnHosts` of `MCAutoIsolation` keeps the proposals
of operators to internal hosts, the only ones that cooldown and limit count. 2.4 million states. The verdict of the model with a scan meets every
number that is asked for but the strong category. The clock is just long enough
for a second isolation within the limits. With a limit of one and an hour longer than the
cooldown, the limit refuses whatever the cooldown would; a limit of two needs a third
entry and a longer clock, which is beyond what TLC finishes. That the cooldown holds by
itself, for any limit, is the theorem `CooldownBetweenFresh`; the run shows what both
rest on, the query of recent entries, at its boundaries. `FreshIsolationsApart`: the cooldown
between entries made and activated at once. `HourKept`: the hourly limit holds
in an hour less the lifetime, because an entry counts from its creation.
`Corroborated`: neither the model nor signatures nor stopped traffic isolate alone.

## What the runs found

* **Blocks do not end by themselves** (`BlockForever`, `cli.py:331`). Expiry is
  applied only by `blocklist expire`, which nothing schedules. `README.md:69` and
  `docs/OPERATIONS.md:53` call blocks time-limited.
* **The EVE collector starves** (`EveStarves`, `eve.py:106`). With more than
  `max_lines` lines waiting the offset is never saved; the same lines are read
  and analysed in every poll.
* **Cases collide with themselves** (`CasesCollide`, `database.py:950`). The same
  detections seen again after their case was closed or has aged raise
  `IntegrityError`; the rollback drops every case of the poll, and detections
  without cases remain. `DetectionsKept` below states what it takes: without rows that
  were closed or have aged, and with one process that lives, no detection is lost.
* **The learning phase is blind** (`LearningBlind`, `service.py:172`). The settings
  page and `config.py:141` say that alarms of the model and of baselines are
  suppressed while the system learns. All detectors are off: alerts of Suricata
  in that time never make a detection. `AlertsMissedOnlyLearning` below says that this is
  the only time.

Known deviations that no run checks, met while modelling and kept in the models
as the code has them:

* Two processes that propose at once both find no entry and make one each
  (`engine.py:116`; `docs/VALIDATION.md:296` says an existing one is reused). The model has it in
  the interleavings of `ProposeFindSource` and `ProposeInsert`; `OneCurrentPerSource` is
  claimed for one process, and `DuplicatesStayBounded` says what holds for several.
* Retention takes a case from under its response (`database.py:1690`): `purge_before`
  spares open cases only, while `delete_incident` refuses as long as a response is current
  (`database.py:1101`). `ResponseKeepsCase` says that it is the only way.
* A reset that fails after it has removed the offsets, or runs beside the service, makes the
  EVE log be read from its start (`cli.py:449`, `cli.py:457`), and so does an offset file
  that cannot be read (`eve.py:41`); lines that were analysed are analysed again.
* The filter log loses one line per full batch, uncounted (`filterlog.py:88`, action
  `FilterRead`); `NothingSkipped` is claimed for the EVE log, `SkipsApart` for this one.
* The cooldown and the hourly limit count entries by their creation, not by their
  activation (`database.py:1290`). A recommendation made earlier is activated
  without being counted in the window of its activation; one that was removed
  counts. `general.xml:387` calls it the time between *executed* isolations.
  `FreshIsolationsApart` and `HourKept` say what does hold.
* `is_allowlisted` raises `TypeError` as soon as the allowlist holds an entry of the
  other IP version (`engine.py:71`; disturbance `mixed_versions`).
* `is_protected_target` compares protected hosts as strings, so that a network
  around one passes (`engine.py:61`). `Protected` is what it answers.

## Proofs

Theorems hold for every value of the constants that the named assumption admits;
the assumptions give constants their types and state facts of the code that a
module takes from elsewhere. TLC evaluates each of them in a run.

**`BlockResponse_proofs`**, from `ResponseAssumption`, for any number of processes,
entries, sources and cases, any limit and any disturbances:

| Theorem | States |
| --- | --- |
| `TypeCorrect` | `Spec => []TypeOK` |
| `ProtectionHolds` | `Spec => []ProtectedNeverBlocked` |
| `LimitHolds` | `Spec => []WithinLimitPlusRacers` |
| `LimitHoldsAlone` | with one process, `Spec => []WithinLimit` |
| `DuplicatesStayBounded` | without `raw_activate`, `Spec => []DuplicatesBounded` |

`ProtectedNeverBlocked` is not inductive: an address enters an entry or PF from
the local variables of a handler that has checked it some steps before. `Safe`
adds that: `JobsSafe` says that every process past the check of `propose_*` or
`activate_block` holds an unprotected source (and ids that exist), `EntriesSafe` that
entries which exist have a source. `TypeOK` and these are preserved by each
action, one lemma per handler, and imply the property.

`WithinLimitPlusRacers` counts entries in force together with processes past the
count of `activate_block`. A process that passes the count was admitted with
fewer than `MaxConcurrent` entries in force, and at most the other processes
are past it too; an entry is added only by a process that leaves `PastCount` in
the same step. The proof uses the cardinality facts of `FiniteSetTheorems`. With
one process the bound is `MaxConcurrent`, which gives `LimitHoldsAlone`.

`DuplicatesBounded`, stated beside its proof, is what is left of `OneCurrentPerSource` when
several processes propose, activate and remove at once: no source has more current
entries than there are processes. Two entries of a source may be made at once, and
an activation under way revives an entry that another process has removed meanwhile.
So `DuplicateInv` counts what is *wanted*, the current entries and those an activation has in
hand, together with the processes about to insert. A process gets there only when no
entry of the source is current; what is wanted then is in the hands of other processes,
one each (`FindDuplicates`). From there on an insertion trades the process for its entry. TLC
finds the bound reached with two processes, and the property true of two processes
and three entries under all other disturbances but the retention (9.8 million states, too many for a
run kept here). `raw_activate` brings removed entries back at any time.

**`BlockAgreement_proofs`** continues it. `Alone` says that there is one process,
for which most of this is claimed at all: two processes break it in the code, too.

| Theorem | Assumes | States |
| --- | --- | --- |
| `ClaimsHold` | any number of processes | `Spec => []HostClaimsAreRecorded` |
| `ImplementsContract` | `Alone`, no crash, no reboot | `Spec => KeepsContract` |
| `ActiveMeansDropped` | the same | every entry in force has its source in PF, or a reset is at it |
| `NoLeak` | `Alone`, `Orderly` | `Spec => []NothingLeaks` |
| `OneCurrent` | `Alone`, no `raw_activate` | `Spec => []OneCurrentPerSource` |
| `CasesKept` | the same | `Spec => ResponseKeepsCase` |

`HostClaimsAreRecorded` speaks of moments at which no process is at work;
`ClaimsRecorded` says it of every moment and is inductive, as each transaction that
changes entries refreshes the hosts of their sources.

Between two transactions a handler relies on what it has read before. `AloneInv`
says, step by step, which of it is still true when nobody else interferes
(`Known`): the source in hand is that of the entry, an entry about to be marked
active is in PF, and PF is told to let a source through only if no unexpired entry
in force has it. From that every step maps to one of `BlockContract` or to a
stutter, with `FlushedForReset` standing for what a reset has taken out of PF and
not yet out of the database. `ActiveMeansDropped` is an invariant of the contract
alone, carried over by the refinement. A crash inside a reset leaves PF flushed
under entries in force, and a reboot empties it, so neither is admitted.
`CurrentInv` adds what `propose_*` and `delete_incident` have found out (`Found`), from which
`KeepsCase` follows for every step: only a purge leaves a current response without a case;
`LeakInv` adds which addresses a handler has in hand (`Accounted`) and that `expire`
has collected all it will take out of the entries (`Prepared`). `Orderly` excludes
PF commands that fail, a crash, a reset that keeps PF, and an entry that runs out
in the middle of `expire`.

**`TelemetryIntake_proofs`**, from `IntakeAssumption`, for any limits, files and
disturbances:

| Theorem | States |
| --- | --- |
| `IntakeTypeCorrect` | `Spec => []TypeOK` |
| `EveSkipsNothing` | `Spec => []NothingSkipped` |
| `FilterSkipsApart` | `Spec => []SkipsApart` |
| `FailureCostsOneBatch` | `Spec => []LossIsBounded` |
| `OldLinesStayOut` | `Spec => WaivedForGood` |
| `EventsAnalysedOnce` | with `QuietEnough`, `Spec => []AnalysedOnce` |

`NothingSkipped` and `SkipsApart` speak of the current file only, and a read that is
under way has looked at the file before it may be rotated. `AllSound` adds what makes
them inductive: a place that is saved or in the hands of a read is no larger than the
file of that inode, and everything before it is `Excused` unless the file was emptied
in place, which means accounted for (EVE), or that or behind `MaxLines` lines that
are (filter log); and inodes never exceed the epoch, so that a file that comes later
is not mistaken for the old one. That a read which stops short of `MaxLines` has
reached every line (`AllReached`) is a fact about the cardinality of an interval.
`FailureCostsOneBatch` rests on `SmallBatch` (each log contributes at most `MaxLines`
lines to a batch) and `LossInv` (the bound holds in each stage, with the batch in
hand set apart).

`WaivedForGood` is about steps, and whether a read meets a line that was waived depends
on the place it begins at. `WaivedInv` says that the lines waived of the file at a
log's path are `Behind` every such place, the offset saved and the one a read under
way has loaded, and the one a reset is about to write, unless the place of that log is
`forgotten`; and that the lines of files yet to come are new (`Untouched`), so that a
rotation or truncation brings none back.

`AnalysedOnce` needs the same of every line that is in hand or analysed, and that a
read under way has looked at the file it will open (`Aligned`). `OnceInv`
has these and, for the EVE log, `Budget`: no more than `MaxLines` lines lie ahead, for
otherwise the offset is not saved. `QuietEnough` excludes four disturbances for every
log: a rotation between looking at it and reading it, an offset that cannot be written
or cannot be read, and a reset beside polls; and, if there is an EVE log, a log that
outgrows a poll or is emptied in place, and a reset that fails half-way. TLC
finds `AnalysedOnce` violated under each one of them (under the truncation from two
lines a poll on), so none is there for the proof's sake. Rotations between polls,
unreadable logs, crashes, a full database and clean resets remain and, where only the
filter log is read, bursts, truncation and failing resets.

**`IntakeAgreement_proofs`** continues it, for any limits, files and failures, with
`QuietEnough`:

| Theorem | States |
| --- | --- |
| `ImplementsFeed` | `Spec => KeepsFeed` |
| `NothingComesBack` | `Spec => Feed!SettledForGood` |
| `EventsInOrder` | `Spec => AnalysedInOrder` |

That a poll goes on behind all that was read or given up is a relation between places
in the current file and fates of lines of all files. `FeedInv` says that every line of
the current file that is accounted for (dropped, torn, waived and lost ones too, of which
`OnceInv` says nothing) is `Behind` each place a poll can begin at; that the batch
holds lines of one file per log with the fate they have in this stage; and that it has
been cut to `MaxQueue` lines when it is analysed. `AccountWriters` finds the steps that account
for a line, and they are those that move the place. `FirstBounded` says that the cut
keeps no more than the limit: the number of lines in front maps what is kept one
to one into as many numbers. `QueueCut` counts a batch of both logs as the sum of its parts.
The step is then one lemma per action (`TakeReads`, `StatWaives`, `InsertLeaves`,
...).

`StaysSettled` and `HeldInOrder` are shown of `LineFeed` alone and carried over by the
refinement: nothing comes back that was used or given up, and what waits was written
after all that was used. `AnalysedInOrder`, stated beside its proof, says the latter of the
fates in the intake: a line is never analysed after a later one of its log, across
rotations, failed polls and clean resets. The detectors sum and sort what they are given,
and baselines weigh polls by the order they come in.

TLC finds `KeepsFeed` violated under each of the disturbances that `QuietEnough` excludes, too.

**`HostBaselines_proofs`**, from `AddressAssumption` and `TrafficAssumption`, for any traffic and
settings:

| Theorem | States |
| --- | --- |
| `TypeCorrect` | `Spec => []TypeOK` |
| `FindingsFitHolds` | `Spec => []FindingsFit` |
| `Adapts` | `Spec => []AdaptsInTime` |
| `DriftHolds` | `Spec => DriftBounded` |
| `AlertsMissedOnlyLearning` | `Spec => []AlertsFound` |

`IInv` adds to the type: the sum of a baseline contains what the streak has taught
(`Streaks`), from which `AdaptsInTime` follows by arithmetic; and, until the poll ends,
every source of the poll that deviates from an established baseline is among the
detections (`DeviantsReported`; a reset leaves no baseline that is established), so that a learner who was not forgiven did not deviate, which
is `DriftBounded`.

`AlertsFound`, stated beside its proof, is the other side of the finding `LearningBlind`:
outside of the learning phase every alert or drop line that is accepted, on a watched
interface, with a rule and a source, is a signature detection of that source and
destination until the poll ends. `AlertsRuled` follows it through the operators of
`Detectors`; `RuledFound` keeps it while the operator, the clock, a restart or a
reset come in between.

**`Correlation_proofs`**, from `CorrelationAssumption`, for any findings, addresses, window,
limit, clock and number of detections:

| Theorem | States |
| --- | --- |
| `TypeCorrect` | `Spec => []TypeOK` |
| `LinksHold` | `Spec => []Linked` |
| `GapsBounded` | `Spec => []NoLongGap` |
| `AllReported` | `Spec => []EveryDetectionReported` |
| `RolesHold` | `Spec => []RolesFromCase` |
| `TargetsHold` | `Spec => []TargetActs` |
| `RateHolds` | `Spec => []RateKept` |

`Linked` and `NoLongGap` speak of detections, the search of `_find_related_case` looks at the
indexes of a case. The invariants relate the two: each member of an index is the
source or destination of some item, `last` is the stamp of the last item, and all that is left is
not earlier than what is in a case. Every detection is left or in exactly one
case, and a case's maxima and sums are at least those of one item, so that a
signature of severity 4 alone passes the 35 points. `RateHolds` rests on `Stamped`: a case whose
stamp no longer counts was let through a minute ago, less what the clock was set
back by, so that a stretch that ends now holds only cases whose stamps count.

**`IncidentStore_proofs`**, from `CaseAssumption`:

| Theorem | States |
| --- | --- |
| `StoreTypeCorrect` | `Spec => []TypeOK`, any number of processes |
| `NoOpenCaseHidden` | `Spec => []OpenCasesShow`, any number of processes |
| `EvidenceAgrees` | with one process, `Spec => []EvidenceMatchesLinks` |
| `LinksHaveCases` | with one process, `Spec => []NoOrphanLinks` |
| `CountsCover` | with one process, `Spec => []CountCoversLinks` |
| `ReportsStay` | `Spec => []ReportedEvidenceKept`, any number of processes |
| `LinksGrow` | `Spec => LinksOnlyGrow`, any number of processes |
| `DetectionsKept` | with `Undisturbed`, `Spec => []DetectionsHaveCases` |

`StoreInv` is what holds with any number of processes: committed tables and draft
are `Sane` (a case that is present has a host with a row, counts cover open
cases), draft and tables agree on which hosts there are, and the hosts of a
batch in hand have rows (`JobsReady`), because `_upsert_hosts` comes first. `AloneInv` adds
what needs one process: tables are `Coherent` (evidence is the links, the count
at least their number, an absent case has no links), and what a process has read
before its transaction is still what the tables say (`Fresh`), which is exactly
what a second process breaks.

`ReportedEvidenceKept` survives a second process although its copies are stale:
`KeptInv` says that committed tables and draft have it (`Kept`) and that a row a process
has read, perhaps long ago, tells what the case was reported with (`Held`), so that
writing it back tells it again, whatever else it loses. `LinksOnlyGrow` compares what
is committed before and after a step; an open transaction has taken nothing away
(`Ahead`), for every method that removes links is a transaction of one step.

`DetectionsKept` is about the property that `CasesCollide` refutes. `Undisturbed`
admits one process, resets and purges. TLC refutes the property with time, a change
of status, a deletion, the rate limit, a crash or a second process alone. `TidyInv`
says why it holds otherwise: every row is open, recent and of the network key of its
case, so that a case reported again finds its own row (`TidyFound`) and is never
inserted twice; a detection that is stored is linked or in the part of the batch
still to be written (`InHand`).

**`AutoIsolation_proofs`**, from `IsolationAssumption`, for any cases, hosts, entries,
evidence, settings and limits:

| Theorem | States |
| --- | --- |
| `IsolationTypeCorrect` | `Spec => []TypeOK` |
| `CooldownBetweenFresh` | `Spec => []FreshIsolationsApart` |
| `HourlyLimitHolds` | `Spec => []HourKept` |
| `IsolationCorroborated` | `Spec => []Corroborated` |

`FreshIsolationsApart` speaks of history only, which no guard reads. `IInv` adds
`FreshWitnessed`: a fresh isolation is still in the table, in a status that counts,
automatic, with the host and under the time it happened. No action takes such
an entry away (`Preserved`), so the query of the cooldown finds it. For `HourKept`
every isolation is found in that way (`Counts`), by an entry made at most its
lifetime earlier, and no two share an entry; those of an hour map one to one into
the rows the limit counts, which are finitely many (`Present`). `Corroborated`
is inductive, as evidence only grows while the history is kept.

**Model-checked only.** Every invariant and action property of a passing run is
stated by a theorem. Two processes keep
neither the contract nor `NothingLeaks`, `OneCurrentPerSource` (they keep
`DuplicatesBounded`) and `ResponseKeepsCase`, nor the three properties of
`IncidentStore` that assume one;
these are claimed for one process only, in the runs as in the theorems.
Out of the prover's reach are liveness under fairness (`BlocksAreTemporary`,
`CatchesUp`) and what an induction over data would take: the sums and counts of
`TrafficAssumption`.

## Coverage of actions

Between them the passing runs take every action: the disturbances fire in
`BlockConcurrent` (`Crash`, `Reboot`), `BlockSerial` (`AgeIncident`, `Purge` of a case) and
`IntakeRough` (`Fail`, `Truncate`, the steps of a reset from `StartReset` to `Restart`,
`PassOver` for a log that cannot be read).
Deadlock is checked in every run but `Correlate`, `Baselines` and `LearningBlind`, whose
bounds end the behaviours.

## Not modelled

* **ML engine, model manager, privacy, threat intelligence**: floating-point scores of
  an external model, downloads and checksums, redaction of text, a cache of CVE records.
  The verdict of the model is free in `HostBaselines`, and an engine among others
  in `AutoIsolation`. `validate_model_flow` and the seeding of a validation baseline
  write the rows the modules have, from data made up for a test.
* **Diagnostics, providers, reports, dashboards, statistics**: read only.
* **Sensor hardening**: edits of Suricata's and OPNsense's configuration files.
* **Schema migration and integrity checks** of the database, which run once at its
  opening; **parsing of the configuration file**. The modules start with an empty
  database of the current schema and a valid configuration.
* **OPNsense pages, API, configd actions, rc script**: they start the processes the
  modules have as actors. `pf table-op` of the command line edits the PF table
  past the database by design.
* **Address arithmetic**: `is_protected_target` and `is_allowlisted` are answers about a
  source. What they should cover, over both IP versions (an IPv6 address is treated
  as a network of 32 bits, `engine.py:56`), is a matter of a test.

## Plan

What is left, in the order of its worth:

1. `TargetAddresses`: the two checks over a small space of addresses and networks
   of both versions, against what they should cover.
2. A weaker contract of the block response that two processes keep.
3. Sensor hardening as edits of a file with a backup, if it comes to keep state.

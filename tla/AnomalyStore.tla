--------------------------- MODULE AnomalyStore ---------------------------
(***************************************************************************)
(* anomaly_log.jsonl and its in-memory counter (src/anomaly_store.py) under*)
(* everything that touches them: the camera workers of the running tick    *)
(* (src/camera_pipeline.py), the tick thread's own records                 *)
(* (src/fusion_pipeline.py), its compaction, recount and status.json       *)
(* (src/tick_persistence.py, src/jsonl_retention.py), the event loop's     *)
(* /api/v1/anomalies (main.py), and restarts of the process.               *)
(*                                                                         *)
(* A step ends where a thread may be switched out: at file operations and  *)
(* calls.  "_total_anomalies += 1" is one step: no switch point of the     *)
(* interpreter lies between its load and its store.                        *)
(***************************************************************************)
EXTENDS Integers, FiniteSets

CONSTANTS
  Cameras,    \* cameras of a tick, one worker each
  KeepDays,   \* JSONL_RETENTION_DAYS
  Polled,     \* whether somebody asks for /api/v1/anomalies
  MaxLines,   \* bound: lines ever written
  LastDay,    \* bound: last day of the run
  MaxFaults   \* bound: failed file operations and restarts

VARIABLES
  day,      \* date of the newest tick
  log,      \* lines of anomaly_log.jsonl: [id, day]
  written,  \* every line ever written
  total,    \* _total_anomalies
  worker,   \* what each camera worker is about to do
  pc,       \* what the tick thread is about to do
  kept,     \* lines a compaction has read and will write back
  changed,  \* result.changed of a retention pass, until its recount is done
  api,      \* what the event loop is about to do in get_total_count
  seen,     \* lines read by a recount: of the tick thread, of the event loop
  status,   \* total_anomalies of status.json, with the lines in the log at that time
  doubt,    \* why the counter may be off: a restart, a race, a failed file operation
  faults    \* faults so far

vars == <<day, log, written, total, worker, pc, kept, changed, api, seen, status, doubt, faults>>

ASSUME ConstantsAssumption ==
  /\ KeepDays \in Nat /\ MaxLines \in Nat /\ LastDay \in Nat /\ MaxFaults \in Nat
  /\ IsFiniteSet(Cameras) /\ Polled \in BOOLEAN

Lines   == [id : 1..MaxLines, day : 0..LastDay]
Threads == {"tick", "api"}

TickPc ==
  {"rest", "fetch", "analyse", "bump", "save", "prune", "replace", "metrics",
   "zero", "count", "store", "status", "report"}

TypeOK ==
  /\ day \in 0..LastDay
  /\ written \subseteq Lines /\ log \subseteq written
  /\ total \in Nat
  /\ worker \in [Cameras -> {"done", "write", "bump"}]
  /\ pc \in TickPc
  /\ kept \subseteq Lines
  /\ changed \in BOOLEAN
  /\ api \in {"idle", "zero", "count", "store"}
  /\ seen \in [Threads -> SUBSET Lines]
  /\ status \in [total : Nat, lines : 0..MaxLines]
  /\ doubt \subseteq {"restart", "race", "fault"}
  /\ faults \in 0..MaxFaults

Init ==
  /\ day = 0
  /\ log = {} /\ written = {} /\ total = 0
  /\ worker = [c \in Cameras |-> "done"] /\ pc = "rest"
  /\ kept = {} /\ changed = FALSE
  /\ api = "idle" /\ seen = [th \in Threads |-> {}]
  /\ status = [total |-> 0, lines |-> 0]
  /\ doubt = {} /\ faults = 0

Fault == faults < MaxFaults /\ faults' = faults + 1

(***************************************************************************)
(* record_anomaly: append the line, then count it.                         *)
(***************************************************************************)
Append ==
  LET line == [id |-> Cardinality(written) + 1, day |-> day] IN
  /\ Cardinality(written) < MaxLines
  /\ log' = log \cup {line}
  /\ written' = written \cup {line}

\* Mutant: a line that cannot be appended is counted all the same.
AfterFailedAppendCounted == "bump"
AfterFailedAppend        == "done"

WorkerWrites(c) ==
  /\ worker[c] = "write"
  /\ \/ Append /\ worker' = [worker EXCEPT ![c] = "bump"] /\ UNCHANGED faults
     \/ Fault /\ worker' = [worker EXCEPT ![c] = AfterFailedAppend] /\ UNCHANGED <<log, written>>
  /\ UNCHANGED <<day, total, pc, kept, changed, api, seen, status, doubt>>

WorkerCounts(c) ==
  /\ worker[c] = "bump"
  /\ total' = total + 1
  /\ worker' = [worker EXCEPT ![c] = "done"]
  /\ UNCHANGED <<day, log, written, pc, kept, changed, api, seen, status, doubt, faults>>

(***************************************************************************)
(* A tick.  Some cameras show an anomaly; both executors of the fetch phase*)
(* join their threads before the tick goes on, even those given up on.     *)
(***************************************************************************)
StartTick ==
  /\ pc = "rest"
  /\ day' \in {d \in day..LastDay : d <= day + 1}
  /\ worker' \in [Cameras -> {"done", "write"}]
  /\ Cardinality(written) + Cardinality({c \in Cameras : worker'[c] = "write"}) <= MaxLines
  /\ pc' = "fetch"
  /\ UNCHANGED <<log, written, total, kept, changed, api, seen, status, doubt, faults>>

\* Mutant: the tick goes on when the fetch has timed out.
FetchTimedOut == TRUE
FetchJoined   == \A c \in Cameras : worker[c] = "done"

EndFetch ==
  /\ pc = "fetch"
  /\ FetchJoined
  /\ pc' = "analyse"
  /\ UNCHANGED <<day, log, written, total, worker, kept, changed, api, seen, status, doubt, faults>>

\* A stopped vehicle or a slow sensor, recorded by the tick thread itself.
TickWrites ==
  /\ pc = "analyse"
  /\ Append
  /\ pc' = "bump"
  /\ UNCHANGED <<day, total, worker, kept, changed, api, seen, status, doubt, faults>>

TickCounts ==
  /\ pc = "bump"
  /\ total' = total + 1
  /\ pc' = "analyse"
  /\ UNCHANGED <<day, log, written, worker, kept, changed, api, seen, status, doubt, faults>>

\* The rest of the tick up to sensor_data.jsonl; if that raises, _persist_tick ends there.
SaveSensorData ==
  /\ pc = "analyse"
  /\ \/ pc' = "prune" /\ UNCHANGED faults
     \/ pc' = "rest" /\ Fault
  /\ UNCHANGED <<day, log, written, total, worker, kept, changed, api, seen, status, doubt>>

(***************************************************************************)
(* prune_jsonl_retention: old day directories (which may change something),*)
(* then anomaly_log.jsonl, then evaluation_metrics.jsonl (which may change *)
(* something, or hold a byte that is not UTF-8 and raise).                 *)
(***************************************************************************)
Cutoff == day - KeepDays

\* Mutant: the cutoff day itself is dropped.
RetainedAfterCutoff == {l \in log : l.day > Cutoff}
Retained            == {l \in log : l.day >= Cutoff}

ReadLog ==
  /\ pc = "prune"
  /\ kept' = Retained
  /\ changed' \in BOOLEAN
  /\ pc' = IF kept' = log THEN "metrics" ELSE "replace"
  /\ UNCHANGED <<day, log, written, total, worker, api, seen, status, doubt, faults>>

ReplaceLog ==
  /\ pc = "replace"
  /\ \/ log' = kept /\ changed' = TRUE /\ UNCHANGED faults
     \/ Fault /\ UNCHANGED <<log, changed>>
  /\ pc' = "metrics"
  /\ UNCHANGED <<day, written, total, worker, kept, api, seen, status, doubt>>

\* Mutant: status.json is written from the cached counter.
AfterPruneCached(c) == "status"
AfterPrune(c)       == IF c THEN "zero" ELSE "status"

CompactMetrics ==
  /\ pc = "metrics"
  /\ \/ /\ changed' \in {changed, TRUE}
        /\ pc' = AfterPrune(changed')
        /\ UNCHANGED <<doubt, faults>>
     \/ /\ Fault
        /\ pc' = "status"
        /\ changed' = FALSE
        /\ doubt' = doubt \cup {"fault"}
  /\ UNCHANGED <<day, log, written, total, worker, kept, api, seen, status>>

(***************************************************************************)
(* refresh_total_count, by thread th: zero, read the file, store.          *)
(***************************************************************************)
Zero == total' = 0

Count(th) ==
  /\ seen' = [seen EXCEPT ![th] = log]
  /\ UNCHANGED <<total, doubt, faults>>

\* The file cannot be read: the counter stays as it is.
CountFails ==
  /\ Fault
  /\ doubt' = doubt \cup {"fault"}
  /\ UNCHANGED <<total, seen>>

\* Nobody has appended a line and not yet counted it.
NoneUncounted == pc # "bump" /\ \A c \in Cameras : worker[c] # "bump"

\* Mutant: the count is off by one.
CountedFromZero(lines) == Cardinality(lines) - 1
Counted(lines)         == Cardinality(lines)

\* The stored count is exact unless the log moved on, or an append is still to be counted.
Store(th) ==
  /\ total' = Counted(seen[th])
  /\ doubt' = IF seen[th] = log /\ NoneUncounted THEN {} ELSE {"race"}
  /\ UNCHANGED <<seen, faults>>

\* refresh_total_count returns to the retention pass or to get_total_count.
Recounted == pc' = (IF changed THEN "status" ELSE "report") /\ changed' = FALSE

TickRecounts ==
  /\ \/ pc = "zero" /\ Zero /\ pc' = "count" /\ UNCHANGED <<seen, doubt, faults, changed>>
     \/ pc = "count" /\ Count("tick") /\ pc' = "store" /\ UNCHANGED changed
     \/ pc = "count" /\ CountFails /\ Recounted
     \/ pc = "store" /\ Store("tick") /\ Recounted
  /\ UNCHANGED <<day, log, written, worker, kept, api, status>>

\* /api/v1/anomalies: get_total_count recounts only when the counter is zero.
ApiRecounts ==
  /\ \/ api = "idle" /\ Polled /\ total = 0 /\ api' = "zero" /\ UNCHANGED <<total, seen, doubt, faults>>
     \/ api = "zero" /\ Zero /\ api' = "count" /\ UNCHANGED <<seen, doubt, faults>>
     \/ api = "count" /\ Count("api") /\ api' = "store"
     \/ api = "count" /\ CountFails /\ api' = "idle"
     \/ api = "store" /\ Store("api") /\ api' = "idle"
  /\ UNCHANGED <<day, log, written, worker, pc, kept, changed, status>>

(***************************************************************************)
(* _update_status: get_total_count tests the counter, then reads it again. *)
(***************************************************************************)
TestTotal ==
  /\ pc = "status"
  /\ pc' = IF total > 0 THEN "report" ELSE "zero"
  /\ UNCHANGED <<day, log, written, total, worker, kept, changed, api, seen, status, doubt, faults>>

WriteStatus ==
  /\ pc = "report"
  /\ \/ status' = [total |-> total, lines |-> Cardinality(log)] /\ UNCHANGED faults
     \/ Fault /\ UNCHANGED status
  /\ pc' = "rest"
  /\ UNCHANGED <<day, log, written, total, worker, kept, changed, api, seen, doubt>>

\* The process dies at any point; the next one starts with a counter of zero.
Restart ==
  /\ Fault
  /\ total' = 0
  /\ worker' = [c \in Cameras |-> "done"] /\ pc' = "rest"
  /\ kept' = {} /\ changed' = FALSE
  /\ api' = "idle" /\ seen' = [th \in Threads |-> {}]
  /\ doubt' = IF log = {} THEN {} ELSE {"restart"}
  /\ UNCHANGED <<day, log, written, status>>

Next ==
  \/ StartTick \/ EndFetch
  \/ \E c \in Cameras : WorkerWrites(c) \/ WorkerCounts(c)
  \/ TickWrites \/ TickCounts \/ SaveSensorData
  \/ ReadLog \/ ReplaceLog \/ CompactMetrics
  \/ TickRecounts \/ TestTotal \/ WriteStatus
  \/ ApiRecounts
  \/ Restart

Spec == Init /\ [][Next]_vars

(***************************************************************************)
(* Properties.                                                             *)
(***************************************************************************)

(* Compaction never throws away a line it has not read: every line ever    *)
(* appended is in the log or older than the retention cutoff, although     *)
(* appending takes no lock.  The joined fetch phase is what protects it.   *)
NoLineLost == \A l \in written \ log : l.day < Cutoff

\* No recount is under way and no line is between its append and its count.
Quiet ==
  /\ NoneUncounted
  /\ pc \notin {"metrics", "zero", "count", "store"}
  /\ api \notin {"count", "store"}

(* The cached counter is exact whenever the store is quiet, except after   *)
(* the three things that spoil it until the next clean recount: a restart  *)
(* onto an old log, a recount that overlapped an append, a failed recount. *)
CounterExact == Quiet /\ doubt = {} => total = Cardinality(log)

(* docs/notes/2026-06-29-jsonl-retention-state-sync.md:29 lists as failure *)
(* signal "status.json shows an anomaly total larger than the compacted    *)
(* anomaly_log.jsonl".                                                     *)
StatusNotAboveLog == status.total <= status.lines
=============================================================================

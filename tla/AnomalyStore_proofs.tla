------------------------ MODULE AnomalyStore_proofs ------------------------
(***************************************************************************)
(* Theorems about AnomalyStore, for any number of camera workers, lines,   *)
(* days and faults.                                                        *)
(***************************************************************************)
EXTENDS AnomalyStore, FiniteSetTheorems, TLAPS

\* Dates are numbers, and the log holds only lines that were written.
Dates == /\ day \in Nat
         /\ \A l \in written : l.day \in Nat
         /\ log \subseteq written

\* Camera workers run in the fetch phase only.
Joined == pc # "fetch" => \A c \in Cameras : worker[c] = "done"

\* Between reading the log and replacing it, only expired lines are missing from the copy.
CopyComplete == pc = "replace" => /\ kept \subseteq log
                                  /\ \A l \in log : l \in kept \/ l.day < Cutoff

Inv == Dates /\ Joined /\ CopyComplete /\ NoLineLost

(* Appending a line disturbs no copy, as long as none is being made.       *)
LEMMA AppendKeeps ==
  ASSUME Inv, Append, UNCHANGED day
  PROVE  Dates' /\ NoLineLost'
<1>1. PICK line : /\ line.day = day
                  /\ log' = log \cup {line}
                  /\ written' = written \cup {line}
  BY DEF Append
<1> QED
  BY <1>1 DEF Inv, Dates, NoLineLost, Cutoff

(* The retention cutoff never goes back.                                   *)
LEMMA CutoffGrows ==
  ASSUME Dates, day' \in day..LastDay
  PROVE  day' \in Nat /\ \A l \in written : l.day < Cutoff => l.day < Cutoff'
BY ConstantsAssumption DEF Dates, Cutoff

LEMMA InvHolds == Spec => []Inv
<1>1. Init => Inv
  BY DEF Init, Inv, Dates, Joined, CopyComplete, NoLineLost
<1>2. Inv /\ [Next]_vars => Inv'
  <2> SUFFICES ASSUME Inv, [Next]_vars
               PROVE  Inv'
    OBVIOUS
  <2> USE DEF Inv
  <2>1. CASE StartTick
    <3>1. /\ day' \in day..LastDay /\ pc' = "fetch"
          /\ UNCHANGED <<log, written, kept>>
      BY <2>1 DEF StartTick
    <3>2. day' \in Nat /\ \A l \in written : l.day < Cutoff => l.day < Cutoff'
      BY <3>1, CutoffGrows
    <3> QED
      BY <3>1, <3>2 DEF Dates, Joined, CopyComplete, NoLineLost
  <2>2. CASE EndFetch
    BY <2>2 DEF EndFetch, FetchJoined, Dates, Joined, CopyComplete, NoLineLost, Cutoff
  <2>3. ASSUME NEW c \in Cameras, WorkerWrites(c)
        PROVE  Inv'
    <3>1. pc = "fetch" /\ pc' = pc /\ UNCHANGED <<day, kept>>
      BY <2>3 DEF WorkerWrites, Joined
    <3>2. Dates' /\ NoLineLost'
      <4>1. CASE Append
        BY <3>1, <4>1, AppendKeeps
      <4>2. CASE UNCHANGED <<log, written>>
        BY <3>1, <4>2 DEF Dates, NoLineLost, Cutoff
      <4> QED
        BY <2>3, <4>1, <4>2 DEF WorkerWrites
    <3> QED
      BY <3>1, <3>2 DEF Joined, CopyComplete
  <2>4. ASSUME NEW c \in Cameras, WorkerCounts(c)
        PROVE  Inv'
    <3>1. pc = "fetch" /\ pc' = pc /\ UNCHANGED <<day, log, written, kept>>
      BY <2>4 DEF WorkerCounts, Joined
    <3> QED
      BY <3>1 DEF Dates, Joined, CopyComplete, NoLineLost, Cutoff
  <2>5. CASE TickWrites
    <3>1. pc' = "bump" /\ worker' = worker /\ pc = "analyse" /\ UNCHANGED day /\ Append
      BY <2>5 DEF TickWrites
    <3>2. Dates' /\ NoLineLost'
      BY <3>1, AppendKeeps
    <3> QED
      BY <3>1, <3>2 DEF Joined, CopyComplete
  <2>6. CASE TickCounts
    BY <2>6 DEF TickCounts, Dates, Joined, CopyComplete, NoLineLost, Cutoff
  <2>7. CASE SaveSensorData
    BY <2>7 DEF SaveSensorData, Dates, Joined, CopyComplete, NoLineLost, Cutoff
  <2>8. CASE ReadLog
    <3>1. /\ kept' = Retained /\ pc = "prune" /\ pc' \in {"metrics", "replace"}
          /\ UNCHANGED <<day, log, written, worker>>
      BY <2>8 DEF ReadLog
    <3>2. \A l \in log : l \in Retained \/ l.day < Cutoff
      BY ConstantsAssumption DEF Retained, Dates, Cutoff
    <3> QED
      BY <3>1, <3>2 DEF Dates, Joined, CopyComplete, NoLineLost, Cutoff, Retained
  <2>9. CASE ReplaceLog
    <3>1. /\ pc = "replace" /\ pc' = "metrics"
          /\ log' = kept \/ log' = log
          /\ UNCHANGED <<day, written, worker, kept>>
      BY <2>9 DEF ReplaceLog
    <3>2. CASE log' = log
      BY <3>1, <3>2 DEF Dates, Joined, CopyComplete, NoLineLost, Cutoff
    <3>3. CASE log' = kept
      BY <3>1, <3>3 DEF Dates, Joined, CopyComplete, NoLineLost, Cutoff
    <3> QED
      BY <3>1, <3>2, <3>3
  <2>10. CASE CompactMetrics
    BY <2>10 DEF CompactMetrics, AfterPrune, Dates, Joined, CopyComplete, NoLineLost, Cutoff
  <2>11. CASE TickRecounts
    <3>1. pc \notin {"fetch", "replace"} /\ pc' \notin {"fetch", "replace"} /\ UNCHANGED <<day, log, written, worker>>
      BY <2>11 DEF TickRecounts, Recounted
    <3> QED
      BY <3>1 DEF Dates, Joined, CopyComplete, NoLineLost, Cutoff
  <2>12. CASE TestTotal
    BY <2>12 DEF TestTotal, Dates, Joined, CopyComplete, NoLineLost, Cutoff
  <2>13. CASE WriteStatus
    BY <2>13 DEF WriteStatus, Dates, Joined, CopyComplete, NoLineLost, Cutoff
  <2>14. CASE ApiRecounts
    <3>1. UNCHANGED <<pc, day, log, written, worker, kept>>
      BY <2>14 DEF ApiRecounts
    <3> QED
      BY <3>1 DEF Dates, Joined, CopyComplete, NoLineLost, Cutoff
  <2>15. CASE Restart
    BY <2>15 DEF Restart, Dates, Joined, CopyComplete, NoLineLost, Cutoff
  <2>16. CASE UNCHANGED vars
    BY <2>16 DEF vars, Dates, Joined, CopyComplete, NoLineLost, Cutoff
  <2> QED
    BY <2>1, <2>2, <2>3, <2>4, <2>5, <2>6, <2>7, <2>8, <2>9, <2>10, <2>11, <2>12, <2>13, <2>14, <2>15,
       <2>16 DEF Next
<1> QED
  BY <1>1, <1>2, PTL DEF Spec

(* Compaction loses no line, however many workers append without a lock:   *)
(* what is missing from the log is older than the retention cutoff.        *)
THEOREM CompactionLosesNothing == Spec => []NoLineLost
<1>1. Inv => NoLineLost BY DEF Inv
<1> QED BY <1>1, InvHolds, PTL

(***************************************************************************)
(* The counter.  Lines that are appended and not yet counted make up for   *)
(* the difference to the log, as long as no recount is under way and none  *)
(* is due.                                                                 *)
(***************************************************************************)
Bumping == {c \in Cameras : worker[c] = "bump"}

Uncounted == Cardinality(Bumping) + (IF pc = "bump" THEN 1 ELSE 0)

Settled ==
  /\ pc \notin {"count", "store"} /\ api \notin {"count", "store"}
  /\ ~ (changed /\ pc \in {"metrics", "zero"})

Balanced == Settled /\ doubt = {} => total + Uncounted = Cardinality(log)

\* Lines are numbered in the order of their appends, and only written lines are read.
Numbered ==
  /\ IsFiniteSet(written) /\ Cardinality(written) <= MaxLines
  /\ \A l \in written : l.id \in 1..Cardinality(written)
  /\ \A th \in Threads : seen[th] \subseteq written

IInv == TypeOK /\ Numbered /\ Balanced

LEMMA WrittenSubset ==
  ASSUME Numbered, NEW S \in SUBSET written
  PROVE  IsFiniteSet(S) /\ Cardinality(S) \in Nat /\ Cardinality(S) <= Cardinality(written)
<1>1. IsFiniteSet(written) BY DEF Numbered
<1> QED BY <1>1, FS_Subset, FS_CardinalityType

LEMMA BumpingIsFinite == IsFiniteSet(Bumping) /\ Cardinality(Bumping) \in Nat
<1>1. Bumping \subseteq Cameras BY DEF Bumping
<1> QED BY <1>1, ConstantsAssumption, FS_Subset, FS_CardinalityType DEF ConstantsAssumption

LEMMA NobodyBumping ==
  ASSUME \A c \in Cameras : worker[c] # "bump"
  PROVE  Cardinality(Bumping) = 0
<1>1. Bumping = {} BY DEF Bumping
<1> QED BY <1>1, FS_EmptySet

(* An append adds a line to the log that was not there.                    *)
LEMMA AppendCounts ==
  ASSUME IInv, Append, UNCHANGED seen, day \in 0..LastDay
  PROVE  /\ Numbered' /\ written' \subseteq Lines /\ log' \subseteq written'
         /\ Cardinality(log') = Cardinality(log) + 1
<1> DEFINE n == Cardinality(written)
           line == [id |-> n + 1, day |-> day]
<1>1. /\ IsFiniteSet(written) /\ n \in Nat /\ n < MaxLines
      /\ log' = log \cup {line} /\ written' = written \cup {line}
  BY FS_CardinalityType DEF Append, IInv, Numbered
<1>2. \A l \in written : l.id \in 1..n BY DEF IInv, Numbered
<1>3. line.id = n + 1 OBVIOUS
<1>4. line \notin written
  <2> SUFFICES ASSUME line \in written PROVE FALSE OBVIOUS
  <2>1. n + 1 \in 1..n BY <1>2, <1>3
  <2> QED BY <2>1, <1>1
<1>5. Cardinality(written') = n + 1 /\ IsFiniteSet(written')
  BY <1>1, <1>4, FS_AddElement
<1>6. log \subseteq written /\ IsFiniteSet(log)
  BY WrittenSubset DEF IInv, TypeOK
<1>7. Cardinality(log') = Cardinality(log) + 1
  BY <1>1, <1>4, <1>6, FS_AddElement
<1>8. line \in Lines
  BY <1>1, ConstantsAssumption DEF Lines, ConstantsAssumption
<1>9. \A l \in written' : l.id \in 1..Cardinality(written')
  <2> SUFFICES ASSUME NEW l \in written' PROVE l.id \in 1..(n + 1) BY <1>5
  <2>1. CASE l \in written
    <3>1. l.id \in 1..n BY <2>1, <1>2
    <3> QED BY <3>1, <1>1
  <2>2. CASE l = line BY <2>2, <1>3, <1>1
  <2> QED BY <2>1, <2>2, <1>1
<1>10. written' \subseteq Lines /\ log' \subseteq written'
  BY <1>1, <1>6, <1>8 DEF IInv, TypeOK
<1>11. Numbered'
  <2>1. n + 1 <= MaxLines BY <1>1, ConstantsAssumption DEF ConstantsAssumption
  <2>2. Cardinality(written') <= MaxLines BY <2>1, <1>5
  <2>3. \A th \in Threads : seen'[th] \subseteq written' BY <1>1 DEF IInv, Numbered
  <2> QED BY <2>2, <2>3, <1>5, <1>9 DEF Numbered
<1> QED BY <1>7, <1>10, <1>11

(* Who begins to count, and who is done.                                   *)
LEMMA WorkerBumps ==
  ASSUME TypeOK, NEW c \in Cameras, worker[c] # "bump", worker' = [worker EXCEPT ![c] = "bump"]
  PROVE  Cardinality(Bumping') = Cardinality(Bumping) + 1
<1>1. Bumping' = Bumping \cup {c} /\ c \notin Bumping BY DEF Bumping, TypeOK
<1> QED BY <1>1, BumpingIsFinite, FS_AddElement

LEMMA WorkerStops ==
  ASSUME TypeOK, NEW c \in Cameras, worker' = [worker EXCEPT ![c] = "done"]
  PROVE  Cardinality(Bumping') = Cardinality(Bumping) - (IF worker[c] = "bump" THEN 1 ELSE 0)
<1>1. Bumping' = Bumping \ {c} BY DEF Bumping, TypeOK
<1>2. c \in Bumping <=> worker[c] = "bump" BY DEF Bumping
<1>3. Cardinality(Bumping') = IF c \in Bumping THEN Cardinality(Bumping) - 1 ELSE Cardinality(Bumping)
  BY <1>1, BumpingIsFinite, FS_RemoveElement
<1> QED BY <1>2, <1>3, BumpingIsFinite

(* A recount that stores stores what is in the log, or says that it raced. *)
LEMMA StoreBalances ==
  ASSUME IInv, NEW th \in Threads, Store(th)
  PROVE  /\ total' \in Nat /\ doubt' \subseteq {"restart", "race", "fault"}
         /\ doubt' = {} => NoneUncounted /\ total' = Cardinality(log)
<1>1. seen[th] \subseteq written BY DEF IInv, Numbered
<1>2. Cardinality(seen[th]) \in Nat BY <1>1, WrittenSubset DEF IInv
<1> QED BY <1>2 DEF Store, Counted

(* What a step keeps that appends nothing and leaves the readings alone.   *)
LEMMA NumberedKept ==
  ASSUME Numbered, written' = written, \A th \in Threads : seen'[th] \subseteq written
  PROVE  Numbered'
BY DEF Numbered

(* A step that neither appends nor counts.                                 *)
LEMMA QuietStep ==
  ASSUME IInv, UNCHANGED <<log, written, total>>, \A th \in Threads : seen'[th] \subseteq written,
         Uncounted' = Uncounted, Settled' /\ doubt' = {} => Settled /\ doubt = {}
  PROVE  Numbered' /\ Balanced'
BY NumberedKept DEF IInv, Balanced

LEMMA InitIInv == Init => IInv
<1> SUFFICES ASSUME Init PROVE IInv OBVIOUS
<1>1. TypeOK
  <2>1. 0 \in 0..LastDay /\ 0 \in 0..MaxFaults /\ 0 \in 0..MaxLines
    BY ConstantsAssumption DEF ConstantsAssumption
  <2>2. /\ written \subseteq Lines /\ log \subseteq written /\ kept \subseteq Lines
        /\ seen \in [Threads -> SUBSET Lines] /\ doubt \subseteq {"restart", "race", "fault"}
    BY DEF Init
  <2> QED BY <2>1, <2>2 DEF Init, TypeOK, TickPc
<1>2. Numbered
  BY FS_EmptySet, ConstantsAssumption DEF Init, Numbered, Threads, ConstantsAssumption
<1>3. Uncounted = 0 BY NobodyBumping DEF Init, Uncounted
<1>4. Balanced BY <1>3, FS_EmptySet DEF Init, Balanced
<1> QED BY <1>1, <1>2, <1>4 DEF IInv

LEMMA StepIInv == Inv /\ IInv /\ [Next]_vars => IInv'
<1> SUFFICES ASSUME Inv, IInv, [Next]_vars PROVE IInv' OBVIOUS
<1>0. /\ TypeOK /\ Numbered /\ Balanced
      /\ \A th \in Threads : seen[th] \subseteq written
      /\ Cardinality(Bumping) \in Nat /\ IsFiniteSet(log) /\ Cardinality(log) \in Nat
  BY WrittenSubset, BumpingIsFinite DEF IInv, Numbered, TypeOK
<1>1. CASE StartTick
  <2>1. /\ pc = "rest" /\ pc' = "fetch" /\ day' \in 0..LastDay
        /\ worker' \in [Cameras -> {"done", "write"}]
        /\ UNCHANGED <<log, written, total, kept, changed, api, seen, status, doubt, faults>>
    BY <1>0, <1>1, ConstantsAssumption DEF StartTick, TypeOK, ConstantsAssumption
  <2>2. \A c \in Cameras : worker[c] # "bump" BY <2>1 DEF Inv, Joined
  <2>3. \A c \in Cameras : worker'[c] # "bump" BY <2>1
  <2>4. Cardinality(Bumping) = 0 /\ Cardinality(Bumping') = 0
    <3>1. Bumping = {} /\ Bumping' = {} BY <2>2, <2>3 DEF Bumping
    <3> QED BY <3>1, FS_EmptySet
  <2>5. Uncounted' = Uncounted BY <2>1, <2>4 DEF Uncounted
  <2>6. TypeOK' BY <1>0, <2>1 DEF TypeOK, TickPc
  <2> QED BY <1>0, <2>1, <2>5, <2>6, QuietStep DEF IInv, Settled
<1>2. CASE EndFetch
  <2>1. TypeOK' BY <1>0, <1>2 DEF EndFetch, TypeOK, TickPc
  <2>2. Uncounted' = Uncounted BY <1>2 DEF EndFetch, Uncounted, Bumping
  <2> QED BY <1>0, <1>2, <2>1, <2>2, QuietStep DEF IInv, EndFetch, Settled
<1>3. ASSUME NEW c \in Cameras, WorkerWrites(c) PROVE IInv'
  <2>1. /\ worker[c] = "write" /\ UNCHANGED <<day, total, pc, kept, changed, api, seen, status, doubt>>
        /\ faults' \in 0..MaxFaults
    BY <1>0, <1>3, ConstantsAssumption DEF WorkerWrites, Fault, TypeOK, ConstantsAssumption
  <2>2. CASE Append /\ worker' = [worker EXCEPT ![c] = "bump"]
    <3>1. /\ Numbered' /\ written' \subseteq Lines /\ log' \subseteq written'
          /\ Cardinality(log') = Cardinality(log) + 1
      BY <2>1, <2>2, AppendCounts, <1>0 DEF TypeOK
    <3>2. Cardinality(Bumping') = Cardinality(Bumping) + 1
      BY <1>0, <2>1, <2>2, WorkerBumps
    <3>3. Uncounted' = Uncounted + 1 BY <1>0, <2>1, <3>2 DEF Uncounted
    <3>4. TypeOK' BY <1>0, <2>1, <2>2, <3>1 DEF TypeOK
    <3>5. Settled' => Settled BY <2>1 DEF Settled
    <3>6. Balanced'
      BY <1>0, <2>1, <3>1, <3>3, <3>5 DEF Balanced, TypeOK, Uncounted
    <3> QED BY <3>1, <3>4, <3>6 DEF IInv
  <2>3. CASE worker' = [worker EXCEPT ![c] = "done"] /\ UNCHANGED <<log, written>>
    <3>1. Cardinality(Bumping') = Cardinality(Bumping)
      <4>1. Cardinality(Bumping') = Cardinality(Bumping) - 0
        <5>1. worker[c] # "bump" BY <2>1
        <5> QED BY <1>0, <2>3, <5>1, WorkerStops, Zenon
      <4> QED BY <1>0, <4>1
    <3>2. Uncounted' = Uncounted BY <2>1, <3>1 DEF Uncounted
    <3>3. TypeOK' BY <1>0, <2>1, <2>3 DEF TypeOK
    <3> QED BY <1>0, <2>1, <2>3, <3>2, <3>3, QuietStep DEF IInv, Settled
  <2> QED BY <1>3, <2>2, <2>3 DEF WorkerWrites, AfterFailedAppend
<1>4. ASSUME NEW c \in Cameras, WorkerCounts(c) PROVE IInv'
  <2>1. /\ worker[c] = "bump" /\ total' = total + 1 /\ worker' = [worker EXCEPT ![c] = "done"]
        /\ UNCHANGED <<day, log, written, pc, kept, changed, api, seen, status, doubt, faults>>
    BY <1>4 DEF WorkerCounts
  <2>2. Cardinality(Bumping') = Cardinality(Bumping) - 1
    BY <1>0, <2>1, WorkerStops
  <2>3. Uncounted' = Uncounted - 1 BY <1>0, <2>1, <2>2 DEF Uncounted
  <2>4. TypeOK' BY <1>0, <2>1 DEF TypeOK
  <2>5. Numbered' BY <1>0, <2>1, NumberedKept
  <2>6. Settled' => Settled BY <2>1 DEF Settled
  <2>7. Balanced' BY <1>0, <2>1, <2>3, <2>6 DEF Balanced, TypeOK, Uncounted
  <2> QED BY <2>4, <2>5, <2>7 DEF IInv
<1>5. CASE TickWrites
  <2>1. /\ pc = "analyse" /\ Append /\ pc' = "bump"
        /\ UNCHANGED <<day, total, worker, kept, changed, api, seen, status, doubt, faults>>
    BY <1>5 DEF TickWrites
  <2>2. /\ Numbered' /\ written' \subseteq Lines /\ log' \subseteq written'
        /\ Cardinality(log') = Cardinality(log) + 1
    BY <2>1, AppendCounts, <1>0 DEF TypeOK
  <2>3. Uncounted' = Uncounted + 1 BY <1>0, <2>1 DEF Uncounted, Bumping
  <2>4. TypeOK' BY <1>0, <2>1, <2>2 DEF TypeOK, TickPc
  <2>5. Settled' => Settled BY <2>1 DEF Settled
  <2>6. Balanced' BY <1>0, <2>1, <2>2, <2>3, <2>5 DEF Balanced, TypeOK, Uncounted
  <2> QED BY <2>2, <2>4, <2>6 DEF IInv
<1>6. CASE TickCounts
  <2>1. /\ pc = "bump" /\ total' = total + 1 /\ pc' = "analyse"
        /\ UNCHANGED <<day, log, written, worker, kept, changed, api, seen, status, doubt, faults>>
    BY <1>6 DEF TickCounts
  <2>2. Uncounted' = Uncounted - 1 BY <1>0, <2>1 DEF Uncounted, Bumping
  <2>3. TypeOK' BY <1>0, <2>1 DEF TypeOK, TickPc
  <2>4. Numbered' BY <1>0, <2>1, NumberedKept
  <2>5. Settled' => Settled BY <2>1 DEF Settled
  <2>6. Balanced' BY <1>0, <2>1, <2>2, <2>5 DEF Balanced, TypeOK, Uncounted
  <2> QED BY <2>3, <2>4, <2>6 DEF IInv
<1>7. CASE SaveSensorData
  <2>1. /\ pc = "analyse" /\ pc' \in {"prune", "rest"} /\ faults' \in 0..MaxFaults
        /\ UNCHANGED <<day, log, written, total, worker, kept, changed, api, seen, status, doubt>>
    BY <1>0, <1>7, ConstantsAssumption DEF SaveSensorData, Fault, TypeOK, ConstantsAssumption
  <2>2. TypeOK' BY <1>0, <2>1 DEF TypeOK, TickPc
  <2>3. Uncounted' = Uncounted BY <2>1 DEF Uncounted, Bumping
  <2> QED BY <1>0, <2>1, <2>2, <2>3, QuietStep DEF IInv, Settled
<1>8. CASE ReadLog
  <2>1. /\ pc = "prune" /\ pc' \in {"metrics", "replace"} /\ kept' \subseteq log /\ changed' \in BOOLEAN
        /\ UNCHANGED <<day, log, written, total, worker, api, seen, status, doubt, faults>>
    BY <1>8 DEF ReadLog, Retained
  <2>2. TypeOK' BY <1>0, <2>1 DEF TypeOK, TickPc
  <2>3. Uncounted' = Uncounted BY <2>1 DEF Uncounted, Bumping
  <2> QED BY <1>0, <2>1, <2>2, <2>3, QuietStep DEF IInv, Settled
<1>9. CASE ReplaceLog
  <2>1. /\ pc = "replace" /\ pc' = "metrics" /\ faults' \in 0..MaxFaults
        /\ UNCHANGED <<day, written, total, worker, kept, api, seen, status, doubt>>
    BY <1>0, <1>9, ConstantsAssumption DEF ReplaceLog, Fault, TypeOK, ConstantsAssumption
  <2>2. Uncounted' = Uncounted BY <2>1 DEF Uncounted, Bumping
  <2>3. CASE log' = kept /\ changed' = TRUE
    <3>1. kept \subseteq log BY <2>1 DEF Inv, CopyComplete
    <3>2. TypeOK' BY <1>0, <2>1, <2>3, <3>1 DEF TypeOK, TickPc
    <3>3. Numbered' BY <1>0, <2>1, NumberedKept
    <3>4. Balanced' BY <2>1, <2>3 DEF Balanced, Settled
    <3> QED BY <3>2, <3>3, <3>4 DEF IInv
  <2>4. CASE UNCHANGED <<log, changed>>
    <3>1. TypeOK' BY <1>0, <2>1, <2>4 DEF TypeOK, TickPc
    <3> QED BY <1>0, <2>1, <2>2, <2>4, <3>1, QuietStep DEF IInv, Settled
  <2> QED BY <1>9, <2>3, <2>4 DEF ReplaceLog
<1>10. CASE CompactMetrics
  <2>1. /\ pc = "metrics" /\ UNCHANGED <<day, log, written, total, worker, kept, api, seen, status>>
        /\ changed \in BOOLEAN /\ faults' \in 0..MaxFaults
    <3>1. pc = "metrics" /\ UNCHANGED <<day, log, written, total, worker, kept, api, seen, status>>
      BY <1>10 DEF CompactMetrics
    <3>2. changed \in BOOLEAN BY <1>0 DEF TypeOK
    <3>3. faults' = faults \/ Fault BY <1>10 DEF CompactMetrics
    <3>4. faults' \in 0..MaxFaults
      BY <1>0, <3>3, ConstantsAssumption DEF Fault, TypeOK, ConstantsAssumption
    <3> QED BY <3>1, <3>2, <3>4
  <2>2. Uncounted' = Uncounted /\ Settled' /\ doubt' = {} => Settled /\ doubt = {}
    <3>1. CASE /\ changed' \in {changed, TRUE} /\ pc' = AfterPrune(changed') /\ doubt' = doubt
      <4>1. pc' \in {"zero", "status"} /\ (changed' => pc' = "zero") /\ (changed => changed')
        BY <2>1, <3>1 DEF AfterPrune
      <4> QED BY <2>1, <3>1, <4>1 DEF Settled
    <3>2. CASE doubt' = doubt \cup {"fault"} BY <3>2
    <3> QED BY <1>10, <3>1, <3>2 DEF CompactMetrics
  <2>3. /\ pc' \in {"zero", "status"} /\ changed' \in BOOLEAN
        /\ doubt' \subseteq {"restart", "race", "fault"}
    BY <1>0, <1>10, <2>1 DEF CompactMetrics, AfterPrune, TypeOK
  <2>4. Uncounted' = Uncounted BY <2>1, <2>3 DEF Uncounted, Bumping
  <2>5. TypeOK' BY <1>0, <2>1, <2>3 DEF TypeOK, TickPc
  <2> QED BY <1>0, <2>1, <2>2, <2>4, <2>5, QuietStep DEF IInv
<1>11. CASE TickRecounts
  <2>1. /\ pc \in {"zero", "count", "store"} /\ pc' \in TickPc \ {"bump"}
        /\ changed' \in BOOLEAN /\ faults' \in 0..MaxFaults
        /\ UNCHANGED <<day, log, written, worker, kept, api, status>>
    <3>1. pc \in {"zero", "count", "store"} /\ UNCHANGED <<day, log, written, worker, kept, api, status>>
      BY <1>11 DEF TickRecounts
    <3>2. faults' \in 0..MaxFaults
      BY <1>0, <1>11, ConstantsAssumption
         DEF TickRecounts, Count, CountFails, Store, Fault, TypeOK, ConstantsAssumption
    <3>3. pc' \in {"count", "store", "status", "report"} /\ changed' \in BOOLEAN
      BY <1>0, <1>11 DEF TickRecounts, Recounted, TypeOK
    <3> QED BY <3>1, <3>2, <3>3 DEF TickPc
  <2>2. CASE pc = "zero" /\ Zero /\ pc' = "count" /\ UNCHANGED <<seen, doubt>>
    <3>1. TypeOK' BY <1>0, <2>1, <2>2 DEF TypeOK, Zero
    <3>2. Numbered' BY <1>0, <2>1, <2>2, NumberedKept
    <3>3. Balanced' BY <2>2 DEF Balanced, Settled
    <3> QED BY <3>1, <3>2, <3>3 DEF IInv
  <2>3. CASE pc = "count" /\ Count("tick") /\ pc' = "store"
    <3>1. /\ seen' = [seen EXCEPT !["tick"] = log] /\ total' = total /\ doubt' = doubt
      BY <2>3 DEF Count
    <3>2. \A th \in Threads : seen'[th] \subseteq written BY <1>0, <3>1 DEF TypeOK
    <3>3. TypeOK' BY <1>0, <2>1, <3>1 DEF TypeOK
    <3>4. Numbered' BY <1>0, <2>1, <3>2, NumberedKept
    <3>5. Balanced' BY <2>3 DEF Balanced, Settled
    <3> QED BY <3>3, <3>4, <3>5 DEF IInv
  <2>4. CASE pc = "count" /\ CountFails
    <3>1. total' = total /\ seen' = seen /\ doubt' = doubt \cup {"fault"} BY <2>4 DEF CountFails
    <3>2. TypeOK' BY <1>0, <2>1, <3>1 DEF TypeOK
    <3>3. Numbered' BY <1>0, <2>1, <3>1, NumberedKept
    <3>4. Balanced' BY <3>1 DEF Balanced
    <3> QED BY <3>2, <3>3, <3>4 DEF IInv
  <2>5. CASE pc = "store" /\ Store("tick")
    <3>1. /\ total' \in Nat /\ doubt' \subseteq {"restart", "race", "fault"}
          /\ doubt' = {} => NoneUncounted /\ total' = Cardinality(log)
      BY <2>5, StoreBalances DEF Threads
    <3>2. seen' = seen BY <2>5 DEF Store
    <3>3. TypeOK' BY <1>0, <2>1, <3>1, <3>2 DEF TypeOK
    <3>4. Numbered' BY <1>0, <2>1, <3>2, NumberedKept
    <3>5. NoneUncounted => Uncounted' = 0
      <4> SUFFICES ASSUME NoneUncounted PROVE Uncounted' = 0 OBVIOUS
      <4>1. Cardinality(Bumping) = 0 BY NobodyBumping DEF NoneUncounted
      <4>2. Bumping' = Bumping BY <2>1 DEF Bumping
      <4> QED BY <2>1, <4>1, <4>2 DEF Uncounted
    <3>6. Balanced' BY <1>0, <2>1, <3>1, <3>5 DEF Balanced
    <3> QED BY <3>3, <3>4, <3>6 DEF IInv
  <2> QED BY <1>11, <2>2, <2>3, <2>4, <2>5 DEF TickRecounts
<1>12. CASE TestTotal
  <2>1. /\ pc = "status" /\ pc' \in {"report", "zero"}
        /\ UNCHANGED <<day, log, written, total, worker, kept, changed, api, seen, status, doubt, faults>>
    BY <1>12 DEF TestTotal
  <2>2. TypeOK' BY <1>0, <2>1 DEF TypeOK, TickPc
  <2>3. Uncounted' = Uncounted BY <2>1 DEF Uncounted, Bumping
  <2> QED BY <1>0, <2>1, <2>2, <2>3, QuietStep DEF IInv, Settled
<1>13. CASE WriteStatus
  <2>1. /\ pc = "report" /\ pc' = "rest" /\ faults' \in 0..MaxFaults
        /\ status' \in {status, [total |-> total, lines |-> Cardinality(log)]}
        /\ UNCHANGED <<day, log, written, total, worker, kept, changed, api, seen, doubt>>
    BY <1>0, <1>13, ConstantsAssumption DEF WriteStatus, Fault, TypeOK, ConstantsAssumption
  <2>2. Cardinality(log) \in 0..MaxLines
    <3>1. Cardinality(log) <= Cardinality(written) /\ Cardinality(written) \in Nat
      BY <1>0, WrittenSubset DEF TypeOK
    <3> QED BY <1>0, <3>1, ConstantsAssumption DEF Numbered, ConstantsAssumption
  <2>3. TypeOK' BY <1>0, <2>1, <2>2 DEF TypeOK, TickPc
  <2>4. Uncounted' = Uncounted BY <2>1 DEF Uncounted, Bumping
  <2> QED BY <1>0, <2>1, <2>3, <2>4, QuietStep DEF IInv, Settled
<1>14. CASE ApiRecounts
  <2>1. /\ UNCHANGED <<day, log, written, worker, pc, kept, changed, status>>
        /\ api' \in {"idle", "zero", "count", "store"} /\ faults' \in 0..MaxFaults
    BY <1>0, <1>14, ConstantsAssumption
       DEF ApiRecounts, Zero, Count, CountFails, Store, Fault, TypeOK, ConstantsAssumption
  <2>2. Uncounted' = Uncounted BY <2>1 DEF Uncounted, Bumping
  <2>3. CASE api = "idle" /\ api' = "zero" /\ UNCHANGED <<total, seen, doubt>>
    <3>1. TypeOK' BY <1>0, <2>1, <2>3 DEF TypeOK
    <3> QED BY <1>0, <2>1, <2>2, <2>3, <3>1, QuietStep DEF IInv, Settled
  <2>4. CASE api = "zero" /\ Zero /\ api' = "count" /\ UNCHANGED <<seen, doubt>>
    <3>1. TypeOK' BY <1>0, <2>1, <2>4 DEF TypeOK, Zero
    <3>2. Numbered' BY <1>0, <2>1, <2>4, NumberedKept
    <3>3. Balanced' BY <2>4 DEF Balanced, Settled
    <3> QED BY <3>1, <3>2, <3>3 DEF IInv
  <2>5. CASE api = "count" /\ Count("api") /\ api' = "store"
    <3>1. /\ seen' = [seen EXCEPT !["api"] = log] /\ total' = total /\ doubt' = doubt
      BY <2>5 DEF Count
    <3>2. \A th \in Threads : seen'[th] \subseteq written BY <1>0, <3>1 DEF TypeOK
    <3>3. TypeOK' BY <1>0, <2>1, <3>1 DEF TypeOK
    <3>4. Numbered' BY <1>0, <2>1, <3>2, NumberedKept
    <3>5. Balanced' BY <2>5 DEF Balanced, Settled
    <3> QED BY <3>3, <3>4, <3>5 DEF IInv
  <2>6. CASE api = "count" /\ CountFails
    <3>1. total' = total /\ seen' = seen /\ doubt' = doubt \cup {"fault"} BY <2>6 DEF CountFails
    <3>2. TypeOK' BY <1>0, <2>1, <3>1 DEF TypeOK
    <3>3. Numbered' BY <1>0, <2>1, <3>1, NumberedKept
    <3>4. Balanced' BY <3>1 DEF Balanced
    <3> QED BY <3>2, <3>3, <3>4 DEF IInv
  <2>7. CASE api = "store" /\ Store("api")
    <3>1. /\ total' \in Nat /\ doubt' \subseteq {"restart", "race", "fault"}
          /\ doubt' = {} => NoneUncounted /\ total' = Cardinality(log)
      BY <2>7, StoreBalances DEF Threads
    <3>2. seen' = seen BY <2>7 DEF Store
    <3>3. TypeOK' BY <1>0, <2>1, <3>1, <3>2 DEF TypeOK
    <3>4. Numbered' BY <1>0, <2>1, <3>2, NumberedKept
    <3>5. NoneUncounted => Uncounted' = 0
      <4> SUFFICES ASSUME NoneUncounted PROVE Uncounted' = 0 OBVIOUS
      <4>1. Cardinality(Bumping) = 0 BY NobodyBumping DEF NoneUncounted
      <4> QED BY <2>2, <4>1 DEF Uncounted, NoneUncounted
    <3>6. Balanced' BY <1>0, <2>1, <3>1, <3>5 DEF Balanced
    <3> QED BY <3>3, <3>4, <3>6 DEF IInv
  <2> QED BY <1>14, <2>3, <2>4, <2>5, <2>6, <2>7 DEF ApiRecounts
<1>15. CASE Restart
  <2>1. /\ faults' \in 0..MaxFaults /\ total' = 0
        /\ worker' = [c \in Cameras |-> "done"] /\ pc' = "rest"
        /\ kept' = {} /\ changed' = FALSE /\ api' = "idle" /\ seen' = [th \in Threads |-> {}]
        /\ doubt' = IF log = {} THEN {} ELSE {"restart"}
        /\ UNCHANGED <<day, log, written, status>>
    BY <1>0, <1>15, ConstantsAssumption DEF Restart, Fault, TypeOK, ConstantsAssumption
  <2>2. TypeOK' BY <1>0, <2>1 DEF TypeOK, TickPc
  <2>3. Numbered' BY <1>0, <2>1, NumberedKept
  <2>4. Uncounted' = 0
    <3>1. Bumping' = {} BY <2>1 DEF Bumping
    <3> QED BY <2>1, <3>1, FS_EmptySet DEF Uncounted
  <2>5. Balanced' BY <2>1, <2>4, FS_EmptySet DEF Balanced
  <2> QED BY <2>2, <2>3, <2>5 DEF IInv
<1>16. CASE UNCHANGED vars
  BY <1>0, <1>16 DEF vars, IInv, TypeOK, Numbered, Balanced, Settled, Uncounted, Bumping
<1> QED
  BY <1>1, <1>2, <1>3, <1>4, <1>5, <1>6, <1>7, <1>8, <1>9, <1>10, <1>11, <1>12, <1>13, <1>14,
     <1>15, <1>16 DEF Next

LEMMA IInvHolds == Spec => []IInv
<1> QED BY InitIInv, StepIInv, InvHolds, PTL DEF Spec

(* Every variable of the store keeps its type; in particular a recount     *)
(* never stores more than the lines there are (anomaly_store.py:108-123).  *)
THEOREM StoreTypes == Spec => []TypeOK
<1>1. IInv => TypeOK BY DEF IInv
<1> QED BY <1>1, IInvHolds, PTL

(* The counter is the number of lines in the log whenever nothing is under *)
(* way, except after a restart, a recount that raced or one that failed.   *)
THEOREM CounterIsExact == Spec => []CounterExact
<1>1. IInv => CounterExact
  <2> SUFFICES ASSUME IInv, Quiet, doubt = {} PROVE total = Cardinality(log)
    BY DEF CounterExact
  <2>1. Cardinality(Bumping) = 0 /\ pc # "bump" BY NobodyBumping DEF Quiet, NoneUncounted
  <2>2. total + 0 = Cardinality(log)
    BY <2>1 DEF IInv, Balanced, Settled, Quiet, Uncounted
  <2> QED BY <2>2 DEF IInv, TypeOK
<1> QED BY <1>1, IInvHolds, PTL
=============================================================================

--------------------------- MODULE MainLoop_proofs ---------------------------
(***************************************************************************)
(* Proofs about MainLoop: its types, that an exclusion holds, and that the *)
(* service implements ServiceContract, for any cameras, sources and bounds.*)
(***************************************************************************)
EXTENDS MainLoop, TLAPS, SequenceTheorems

(***************************************************************************)
(* Type correctness.  A tick is queued only below the bound on ticks.      *)
(***************************************************************************)
Bounded == thread = "queued" => tick < MaxTicks

LEMMA TypeInit == Init => TypeOK /\ Bounded
  BY ConstantsAssumption DEF Init, TypeOK, Bounded, Nothing, Fetches, Sources

(* Whatever a tick, the event loop or an operator does keeps every         *)
(* variable of the service in its type.                                    *)
LEMMA TypeStep == TypeOK /\ Bounded /\ [Next]_vars => TypeOK' /\ Bounded'
<1> USE ConstantsAssumption DEF TypeOK, Bounded, files, fetches, Fault
<1> SUFFICES ASSUME TypeOK, Bounded, [Next]_vars PROVE TypeOK' /\ Bounded'
  OBVIOUS
<1>1. CASE HandOver
  BY <1>1 DEF HandOver, _resolve_camera_ids
<1>2. CASE SubmitFetches
  <2>1. tick + 1 \in 1..MaxTicks
    BY <1>2 DEF SubmitFetches
  <2>2. running' \subseteq Fetches
    BY <1>2, <2>1 DEF SubmitFetches, Fetches
  <2>3. future' \in [Sources -> {"running", "ok", "error"}]
    BY <1>2 DEF SubmitFetches
  <2> QED BY <1>2, <2>1, <2>2, <2>3 DEF SubmitFetches, StatesBeforeFetch
<1>3. ASSUME NEW f \in running, FetchEnds(f) PROVE TypeOK' /\ Bounded'
  <2>1. f.source \in Sources
    BY DEF Fetches
  <2>2. future' \in [Sources -> {"running", "ok", "error"}]
    BY <1>3, <2>1 DEF FetchEnds
  <2> QED BY <1>3, <2>2 DEF FetchEnds
<1>4. CASE Collect
  <2>1. next' \in 1..(Len(Order) + 1)
    BY <1>4, LenProperties DEF Collect
  <2>2. got' \subseteq ids
    BY <1>4 DEF Collect
  <2> QED BY <1>4, <2>1, <2>2 DEF Collect
<1>5. CASE LeaveExecutor
  BY <1>5 DEF LeaveExecutor
<1>6. CASE Analyse
  BY <1>6 DEF Analyse
<1>7. CASE SaveRecords
  BY <1>7 DEF SaveRecords, AfterFailedSave
<1>8. CASE OpenVisionState
  <2>1. vision' \in [tick : 0..MaxTicks, cameras : SUBSET Cameras, whole : BOOLEAN]
    BY <1>8 DEF OpenVisionState
  <2> QED BY <1>8, <2>1 DEF OpenVisionState
<1>9. CASE WriteVisionState
  <2>1. got \in SUBSET Cameras
    BY <1>9 DEF WriteVisionState
  <2>2. [tick |-> tick, cameras |-> got, whole |-> TRUE]
          \in [tick : 0..MaxTicks, cameras : SUBSET Cameras, whole : BOOLEAN]
    BY <2>1
  <2>3. vision' = [tick |-> tick, cameras |-> got, whole |-> TRUE] \/ vision' = vision
    BY <1>9 DEF WriteVisionState
  <2>4. vision' \in [tick : 0..MaxTicks, cameras : SUBSET Cameras, whole : BOOLEAN]
    BY <2>2, <2>3
  <2>5. UNCHANGED <<disk, service, loop, ids, tick, fetches, got, saved, shown, since>>
    BY <1>9 DEF WriteVisionState
  <2>6. thread' = "returned" /\ thread = "torn" /\ faults' \in 0..MaxFaults
    BY <1>9 DEF WriteVisionState
  <2> QED BY <2>4, <2>5, <2>6
<1>10. CASE Publish
  BY <1>10 DEF Publish, Snapshot, AfterTickError
<1>11. CASE Interval
  BY <1>11 DEF Interval
<1>12. CASE Exit
  BY <1>12 DEF Exit
<1>13. ASSUME NEW c \in Cameras, exclude_camera(c) PROVE TypeOK' /\ Bounded'
  BY <1>13 DEF exclude_camera
<1>14. ASSUME NEW c \in Cameras, restore_camera(c) PROVE TypeOK' /\ Bounded'
  BY <1>14 DEF restore_camera
<1>15. CASE Stop
  BY <1>15 DEF Stop, AfterStop
<1>16. CASE Start
  BY <1>16 DEF Start, Nothing
<1>17. CASE UNCHANGED vars
  BY <1>17 DEF vars
<1> QED
  BY <1>1, <1>2, <1>3, <1>4, <1>5, <1>6, <1>7, <1>8, <1>9, <1>10, <1>11, <1>12, <1>13,
     <1>14, <1>15, <1>16, <1>17 DEF Next, TickThread, EventLoop

(* Every variable of the service keeps its type, and a tick's capacity     *)
(* states are of cameras the tick was given.                               *)
THEOREM ServiceTypes == Spec => []TypeOK
<1>1. TypeOK /\ Bounded /\ UNCHANGED vars => TypeOK' /\ Bounded'
  BY TypeStep
<1> QED
  BY TypeInit, TypeStep, PTL DEF Spec

(***************************************************************************)
(* The event loop and the tick thread.  While the loop does not await a    *)
(* tick there is none, unless a shutdown cancelled the wait for it.        *)
(***************************************************************************)
Awaited ==
  /\ service = "up" <=> loop # "ended"
  /\ loop = "await" => thread # "idle"
  /\ thread # "idle" => loop \in {"await", "ended"}
  /\ thread = "queued" => loop = "await"

LEMMA AwaitedStep == TypeOK /\ Awaited /\ [Next]_vars => Awaited'
<1> SUFFICES ASSUME TypeOK, Awaited, [Next]_vars PROVE Awaited'
  OBVIOUS
<1> USE DEF Awaited, fetches, files
<1>1. CASE HandOver
  BY <1>1 DEF HandOver
<1>2. CASE TickThread
  BY <1>2 DEF TickThread, SubmitFetches, Collect, LeaveExecutor, Analyse, SaveRecords,
              OpenVisionState, WriteVisionState, AfterFailedSave
<1>3. ASSUME NEW f \in running, FetchEnds(f) PROVE Awaited'
  BY <1>3 DEF FetchEnds
<1>4. CASE Publish
  BY <1>4 DEF Publish, AfterTickError
<1>5. CASE Interval \/ Exit
  BY <1>5 DEF Interval, Exit
<1>6. ASSUME NEW c \in Cameras, exclude_camera(c) \/ restore_camera(c) PROVE Awaited'
  BY <1>6 DEF exclude_camera, restore_camera
<1>7. CASE Stop \/ Start
  BY <1>7 DEF Stop, Start, AfterStop
<1>8. CASE UNCHANGED vars
  BY <1>8 DEF vars
<1> QED
  BY <1>1, <1>2, <1>3, <1>4, <1>5, <1>6, <1>7, <1>8 DEF Next, EventLoop

(***************************************************************************)
(* Exclusions.  The camera list of a tick is fixed when it is handed over, *)
(* so what protects an exclusion is that no fetch outlives its tick.       *)
(***************************************************************************)
\* The tick that will use the camera list handed over.
UserOfIds == IF thread = "queued" THEN tick + 1 ELSE tick

\* A fetch runs only in the fetch phase of its own tick, over the cameras of that tick.
FetchesOfTick == \A f \in running : thread = "fetch" /\ f.tick = tick /\ f.cameras = ids

\* A camera handed over and excluded since was excluded while that tick could use it.
ListedUntil == thread # "idle" => \A c \in ids \cap disk : UserOfIds <= since[c]

ShownUntil == /\ shown.tick <= tick
              /\ \A c \in shown.cameras \cap disk : shown.tick <= since[c]

Inv == TypeOK /\ Bounded /\ Awaited /\ FetchesOfTick /\ ListedUntil /\ ShownUntil

(* No step lets a tick use, or the dashboard show, a camera beyond the     *)
(* tick that was under way when it was excluded.                           *)
LEMMA InvStep == Inv /\ [Next]_vars => Inv'
<1> USE DEF Inv, files, fetches
<1> SUFFICES ASSUME Inv, [Next]_vars PROVE Inv'
  OBVIOUS
<1>0. TypeOK' /\ Bounded' /\ Awaited'
  BY TypeStep, AwaitedStep
<1>00. /\ tick \in Nat /\ shown.tick \in Nat /\ since \in [Cameras -> Nat]
       /\ disk \subseteq Cameras /\ ids \subseteq Cameras
  BY ConstantsAssumption DEF TypeOK
<1>1. CASE HandOver
  <2>1. running = {}
    BY <1>1 DEF HandOver, FetchesOfTick, Awaited
  <2>2. ids' \cap disk = {} \/ UNCHANGED <<ids, thread>>
    BY <1>1 DEF HandOver, _resolve_camera_ids
  <2>3. UNCHANGED <<disk, tick, running, shown, since>>
    BY <1>1 DEF HandOver
  <2> QED BY <1>0, <2>1, <2>2, <2>3 DEF FetchesOfTick, ListedUntil, UserOfIds, ShownUntil
<1>2. CASE SubmitFetches
  <2>1. running = {}
    BY <1>2 DEF SubmitFetches, FetchesOfTick
  <2>2. FetchesOfTick'
    BY <1>2, <2>1 DEF SubmitFetches, FetchesOfTick
  <2>3. ListedUntil'
    BY <1>2 DEF SubmitFetches, ListedUntil, UserOfIds
  <2>4. ShownUntil'
    BY <1>2, <1>00 DEF SubmitFetches, ShownUntil
  <2> QED BY <1>0, <2>2, <2>3, <2>4
<1>3. ASSUME NEW f \in running, FetchEnds(f) PROVE Inv'
  BY <1>0, <1>3 DEF FetchEnds, FetchesOfTick, ListedUntil, UserOfIds, ShownUntil
<1>4. CASE Collect
  BY <1>0, <1>4 DEF Collect, FetchesOfTick, ListedUntil, UserOfIds, ShownUntil
<1>5. CASE LeaveExecutor
  <2>1. running = {}
    BY <1>5 DEF LeaveExecutor, FetchJoined, FetchesOfTick
  <2> QED BY <1>0, <1>5, <2>1 DEF LeaveExecutor, FetchesOfTick, ListedUntil, UserOfIds, ShownUntil
<1>6. CASE Analyse \/ SaveRecords \/ OpenVisionState \/ WriteVisionState
  <2>1. /\ thread \notin {"idle", "queued", "fetch"} /\ thread' \notin {"idle", "queued", "fetch"}
        /\ UNCHANGED <<disk, ids, tick, running, shown, since>>
    BY <1>6 DEF Analyse, SaveRecords, OpenVisionState, WriteVisionState, AfterFailedSave
  <2> QED BY <1>0, <2>1 DEF FetchesOfTick, ListedUntil, UserOfIds, ShownUntil
<1>7. CASE Publish
  <2>1. running = {} /\ running' = {} /\ thread' = "idle" /\ UNCHANGED <<tick, disk, since>>
    BY <1>7 DEF Publish, FetchesOfTick
  <2>2. CASE shown' = Snapshot /\ thread = "returned"
    <3>1. shown'.tick = tick /\ shown'.cameras \subseteq ids
      BY <2>2 DEF Snapshot, TypeOK
    <3> QED BY <1>0, <1>00, <2>1, <2>2, <3>1 DEF FetchesOfTick, ListedUntil, UserOfIds, ShownUntil
  <2>3. CASE UNCHANGED shown
    BY <1>0, <2>1, <2>3 DEF FetchesOfTick, ListedUntil, ShownUntil
  <2> QED BY <1>7, <2>2, <2>3 DEF Publish
<1>8. CASE Interval \/ Exit
  BY <1>0, <1>8 DEF Interval, Exit, FetchesOfTick, ListedUntil, UserOfIds, ShownUntil
<1>9. ASSUME NEW c \in Cameras, exclude_camera(c) PROVE Inv'
  <2>1. /\ since'[c] = UserOfIds /\ UserOfIds >= tick
        /\ \A d \in Cameras \ {c} : since'[d] = since[d]
        /\ disk' = disk \cup {c}
    BY <1>9, <1>00 DEF exclude_camera, UserOfIds
  <2>2. UNCHANGED <<thread, ids, tick, running, shown>>
    BY <1>9 DEF exclude_camera
  <2>3. \A d \in disk : d # c
    BY <1>9 DEF exclude_camera
  <2>4. UserOfIds' = UserOfIds
    BY <2>2 DEF UserOfIds
  <2>5. ListedUntil'
    BY <1>00, <2>1, <2>2, <2>4 DEF ListedUntil, UserOfIds
  <2>6. ShownUntil'
    BY <1>00, <2>1, <2>2 DEF ShownUntil, UserOfIds
  <2>7. FetchesOfTick'
    BY <2>2 DEF FetchesOfTick
  <2> QED BY <1>0, <2>5, <2>6, <2>7
<1>10. ASSUME NEW c \in Cameras, restore_camera(c) PROVE Inv'
  BY <1>0, <1>10 DEF restore_camera, FetchesOfTick, ListedUntil, UserOfIds, ShownUntil
<1>11. CASE Stop
  BY <1>0, <1>11 DEF Stop, FetchesOfTick, ListedUntil, UserOfIds, ShownUntil
<1>12. CASE Start
  BY <1>0, <1>00, <1>12 DEF Start, Nothing, FetchesOfTick, ListedUntil, ShownUntil
<1>13. CASE UNCHANGED vars
  BY <1>0, <1>13 DEF vars, FetchesOfTick, ListedUntil, UserOfIds, ShownUntil
<1> QED
  BY <1>1, <1>2, <1>3, <1>4, <1>5, <1>6, <1>7, <1>8, <1>9, <1>10, <1>11, <1>12, <1>13
  DEF Next, TickThread, EventLoop

(* A camera an operator excluded is polled no more, and no newer tick      *)
(* shows it, once the tick under way at that moment is over.               *)
THEOREM ExclusionsHold == Spec => []ExclusionHolds
<1>1. Init => Inv
  BY TypeInit DEF Init, Inv, Nothing, Awaited, FetchesOfTick, ListedUntil, ShownUntil
<1>2. Inv => ExclusionHolds
  BY DEF Inv, ExclusionHolds, FetchesOfTick, ListedUntil, UserOfIds, ShownUntil
<1> QED
  BY <1>1, <1>2, InvStep, PTL DEF Spec

(***************************************************************************)
(* Refinement of ServiceContract.                                          *)
(***************************************************************************)
\* What is on disk lags behind the tick until its records are appended, and the dashboard behind that.
SavedSoFar ==
  /\ saved <= tick /\ shown.tick <= saved
  /\ thread \in {"fetch", "analyse", "save"} => saved < tick
  /\ thread \in {"vision", "torn", "returned"} => saved = tick /\ shown.tick < tick

ContractInv == TypeOK /\ Bounded /\ Awaited /\ SavedSoFar

\* The step of the contract a step of the service takes, or none.
ContractStep == [Contract!Next]_<<saved, shown.tick, service = "up">>

(* Every step of the service is one the contract allows.                   *)
LEMMA ServiceSteps == ContractInv /\ [Next]_vars => ContractInv' /\ ContractStep
<1> SUFFICES ASSUME ContractInv, [Next]_vars PROVE ContractInv' /\ ContractStep
  OBVIOUS
<1> USE DEF ContractInv, files, fetches
<1>0. TypeOK' /\ Bounded' /\ Awaited'
  BY TypeStep, AwaitedStep
<1>00. tick \in Nat /\ saved \in Nat /\ shown.tick \in Nat
  BY ConstantsAssumption DEF TypeOK
<1>1. ASSUME UNCHANGED <<saved, shown, service>>, SavedSoFar' PROVE ContractInv' /\ ContractStep
  BY <1>0, <1>1 DEF ContractStep
<1>2. CASE HandOver
  BY <1>1, <1>2 DEF HandOver, SavedSoFar, Awaited
<1>3. CASE SubmitFetches
  BY <1>00, <1>1, <1>3 DEF SubmitFetches, SavedSoFar
<1>4. ASSUME NEW f \in running, FetchEnds(f) PROVE ContractInv' /\ ContractStep
  BY <1>1, <1>4 DEF FetchEnds, SavedSoFar
<1>5. CASE Collect \/ LeaveExecutor \/ Analyse
  BY <1>1, <1>5 DEF Collect, LeaveExecutor, Analyse, SavedSoFar
<1>6. CASE SaveRecords
  <2>1. CASE saved' = tick /\ thread' = "vision"
    <3>1. UNCHANGED <<tick, shown, service>> /\ saved < tick
      BY <1>6 DEF SaveRecords, SavedSoFar
    <3>2. SavedSoFar'
      BY <1>00, <2>1, <3>1 DEF SavedSoFar
    <3>3. Contract!Save
      BY <1>00, <2>1, <3>1 DEF Contract!Save
    <3> QED BY <1>0, <3>2, <3>3 DEF ContractStep, Contract!Next
  <2>2. CASE thread' = AfterFailedSave /\ UNCHANGED saved
    BY <1>1, <1>6, <2>2 DEF SaveRecords, AfterFailedSave, SavedSoFar
  <2> QED BY <1>6, <2>1, <2>2 DEF SaveRecords
<1>7. CASE OpenVisionState \/ WriteVisionState
  BY <1>1, <1>7 DEF OpenVisionState, WriteVisionState, SavedSoFar
<1>8. CASE Publish
  <2>1. thread' = "idle" /\ service = "up" /\ UNCHANGED <<saved, service, tick>>
    BY <1>8 DEF Publish, Awaited
  <2>2. CASE shown' = Snapshot /\ thread = "returned"
    <3>1. shown'.tick = saved /\ saved > shown.tick
      BY <1>00, <2>2 DEF Snapshot, SavedSoFar
    <3>2. SavedSoFar'
      BY <1>00, <2>1, <3>1 DEF SavedSoFar
    <3>3. Contract!Show
      BY <2>1, <3>1 DEF Contract!Show
    <3> QED BY <1>0, <3>2, <3>3 DEF ContractStep, Contract!Next
  <2>3. CASE UNCHANGED shown
    BY <1>1, <2>1, <2>3 DEF SavedSoFar
  <2> QED BY <1>8, <2>2, <2>3 DEF Publish
<1>9. CASE Interval
  BY <1>1, <1>9 DEF Interval, SavedSoFar
<1>10. CASE Exit
  <2>1. SavedSoFar' /\ UNCHANGED <<saved, shown>> /\ service # "up" /\ service' # "up"
    BY <1>10 DEF Exit, SavedSoFar
  <2>2. UNCHANGED <<saved, shown.tick, service = "up">>
    BY <2>1
  <2> QED BY <1>0, <2>1, <2>2 DEF ContractStep
<1>11. ASSUME NEW c \in Cameras, exclude_camera(c) \/ restore_camera(c)
       PROVE  ContractInv' /\ ContractStep
  BY <1>1, <1>11 DEF exclude_camera, restore_camera, SavedSoFar
<1>12. CASE Stop
  <2>1. SavedSoFar' /\ UNCHANGED <<saved, shown>> /\ service = "up" /\ service' # "up"
    BY <1>12 DEF Stop, SavedSoFar
  <2>2. Contract!Stop
    BY <2>1 DEF Contract!Stop
  <2> QED BY <1>0, <2>1, <2>2 DEF ContractStep, Contract!Next
<1>13. CASE Start
  <2>1. shown'.tick = 0 /\ service' = "up" /\ thread' = "idle" /\ UNCHANGED <<saved, tick>>
    BY <1>13 DEF Start, Nothing
  <2>2. SavedSoFar'
    BY <1>00, <2>1 DEF SavedSoFar
  <2>3. Contract!Start
    BY <2>1 DEF Contract!Start
  <2> QED BY <1>0, <2>2, <2>3 DEF ContractStep, Contract!Next
<1>14. CASE UNCHANGED vars
  BY <1>1, <1>14 DEF vars, SavedSoFar
<1> QED
  BY <1>2, <1>3, <1>4, <1>5, <1>6, <1>7, <1>8, <1>9, <1>10, <1>11, <1>12, <1>13, <1>14
  DEF Next, TickThread, EventLoop

(* The dashboard shows only ticks that are on disk, never an older one     *)
(* after a newer one, and nothing new once a shutdown has begun.           *)
THEOREM ServiceImplementsContract == Spec => ImplementsContract
<1>1. Init => ContractInv /\ Contract!Init
  BY TypeInit DEF Init, ContractInv, Awaited, SavedSoFar, Nothing, Contract!Init
<1> QED
  BY <1>1, ServiceSteps, PTL DEF Spec, ContractStep, ImplementsContract, Contract!Spec
=============================================================================

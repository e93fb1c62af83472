------------------------------ MODULE MainLoop ------------------------------
(***************************************************************************)
(* The canonical service: main.py's event loop (its tick loop, the camera  *)
(* exclusion endpoints, startup and shutdown), the thread in which         *)
(* asyncio.to_thread runs tick_once (src/tick_orchestrator.py), and the    *)
(* executor threads of its fetch phase.                                    *)
(*                                                                         *)
(* Code of the event loop between two awaits is one step.  What a tick     *)
(* computes is reduced to the cameras it has a capacity state for.         *)
(***************************************************************************)
EXTENDS Naturals, Sequences

CONSTANTS
  Cameras,    \* CAMERA_IDS
  Order,      \* the sources a tick fetches, in the order it collects their futures
  MaxTicks,   \* bound: ticks over all processes
  MaxFaults   \* bound: failures and crashes

VARIABLES
  disk,     \* excluded_cameras.json
  service,  \* "up", "stopping" (lifespan is past its yield) or "down"
  loop,     \* where _tick_loop_background stands
  thread,   \* where tick_once stands
  ids,      \* camera_ids handed to tick_once
  tick,     \* ticks begun, over all processes
  running,  \* fetches in executor threads: [source, tick, cameras]
  future,   \* the futures of the tick, by source
  next,     \* position in Order of the future awaited
  got,      \* cameras the tick has a capacity state for
  saved,    \* newest tick whose records are in sensor_data.jsonl
  vision,   \* vision_state.json: [tick, cameras, whole]
  shown,    \* the published snapshot: [tick, cameras]
  since,    \* newest tick that may still use a camera its operator excluded
  faults    \* failures and crashes so far

files   == <<saved, vision>>
fetches == <<running, future, next>>
vars    == <<disk, service, loop, thread, ids, tick, fetches, got, files, shown, since, faults>>

ASSUME ConstantsAssumption ==
  /\ MaxTicks \in Nat /\ MaxFaults \in Nat
  /\ Order \in Seq(STRING)
  /\ "cameras" \in {Order[i] : i \in 1..Len(Order)}

Sources == {Order[i] : i \in 1..Len(Order)}
Fetches == [source : Sources, tick : 1..MaxTicks, cameras : SUBSET Cameras]

TypeOK ==
  /\ disk \subseteq Cameras
  /\ service \in {"up", "stopping", "down"}
  /\ loop \in {"check", "await", "sleep", "dead", "ended"}
  /\ thread \in {"idle", "queued", "fetch", "analyse", "save", "vision", "torn", "returned", "raised"}
  /\ ids \subseteq Cameras
  /\ tick \in 0..MaxTicks
  /\ running \subseteq Fetches
  /\ future \in [Sources -> {"running", "ok", "error"}]
  /\ next \in 1..(Len(Order) + 1)
  /\ got \subseteq IF thread \in {"idle", "queued"} THEN Cameras ELSE ids
  /\ saved \in 0..MaxTicks
  /\ vision \in [tick : 0..MaxTicks, cameras : SUBSET Cameras, whole : BOOLEAN]
  /\ shown \in [tick : 0..MaxTicks, cameras : SUBSET Cameras]
  /\ since \in [Cameras -> 0..MaxTicks]
  /\ faults \in 0..MaxFaults

Nothing == [tick |-> 0, cameras |-> {}]

Init ==
  /\ disk = {} /\ service = "up" /\ loop = "check" /\ thread = "idle"
  /\ ids = {} /\ tick = 0
  /\ running = {} /\ future = [s \in Sources |-> "error"] /\ next = 1
  /\ got = {} /\ saved = 0
  /\ vision = [tick |-> 0, cameras |-> {}, whole |-> TRUE]
  /\ shown = Nothing
  /\ since = [c \in Cameras |-> 0]
  /\ faults = 0

Fault == faults < MaxFaults /\ faults' = faults + 1

(***************************************************************************)
(* _tick_loop_background: read the exclusions, hand a tick to a thread.    *)
(* The read is outside the try: if it raises, the task is over.            *)
(***************************************************************************)
_resolve_camera_ids == Cameras \ disk

HandOver ==
  /\ loop = "check"
  /\ tick < MaxTicks
  /\ \/ ids' = _resolve_camera_ids /\ loop' = "await" /\ thread' = "queued" /\ UNCHANGED faults
     \/ Fault /\ loop' = "dead" /\ UNCHANGED <<ids, thread>>
  /\ UNCHANGED <<disk, service, tick, fetches, got, files, shown, since>>

(***************************************************************************)
(* tick_once: submit the fetches, collect their futures in order, each     *)
(* with a timeout, then leave the executor, which joins its threads.       *)
(***************************************************************************)
\* Mutant: the states of the last tick stand in until the cameras answer.
StatesOfLastTick  == got
StatesBeforeFetch == {}

SubmitFetches ==
  /\ thread = "queued"
  /\ thread' = "fetch"
  /\ tick' = tick + 1
  /\ running' = running \cup [source : Sources, tick : {tick + 1}, cameras : {ids}]
  /\ future' = [s \in Sources |-> "running"]
  /\ next' = 1
  /\ got' = StatesBeforeFetch
  /\ UNCHANGED <<disk, service, loop, ids, files, shown, since, faults>>

\* A fetch returns or raises; its own requests are bounded by timeouts.
FetchEnds(f) ==
  /\ running' = running \ {f}
  /\ \/ f.tick = tick /\ \E outcome \in {"ok", "error"} : future' = [future EXCEPT ![f.source] = outcome]
     \/ f.tick # tick /\ UNCHANGED future
  /\ UNCHANGED <<disk, service, loop, thread, ids, tick, next, got, files, shown, since, faults>>

\* future.result(timeout): a value, the exception of the fetch, or the timeout.
Collect ==
  /\ thread = "fetch"
  /\ next <= Len(Order)
  /\ IF Order[next] = "cameras" /\ future["cameras"] = "ok"
       THEN got' \in SUBSET ids
       ELSE UNCHANGED got
  /\ next' = next + 1
  /\ UNCHANGED <<disk, service, loop, thread, ids, tick, running, future, files, shown, since, faults>>

\* Mutant: the executor is left without waiting for its threads.
FetchAbandoned == TRUE
FetchJoined    == \A f \in running : f.tick # tick

LeaveExecutor ==
  /\ thread = "fetch"
  /\ next = Len(Order) + 1
  /\ FetchJoined
  /\ thread' = "analyse"
  /\ UNCHANGED <<disk, service, loop, ids, tick, fetches, got, files, shown, since, faults>>

\* Smoothing, fusion, calibration, physics and VMS: any of them may raise.
Analyse ==
  /\ thread = "analyse"
  /\ \/ thread' = "save" /\ UNCHANGED faults
     \/ thread' = "raised" /\ Fault
  /\ UNCHANGED <<disk, service, loop, ids, tick, fetches, got, files, shown, since>>

(***************************************************************************)
(* _persist_tick: sensor_data.jsonl (may raise), then vision_state.json    *)
(* (truncated, then written; a failure is logged and swallowed).           *)
(***************************************************************************)
\* Mutant: a failed append is swallowed like a failed vision_state.json.
AfterFailedSaveSwallowed == "vision"
AfterFailedSave          == "raised"

SaveRecords ==
  /\ thread = "save"
  /\ \/ saved' = tick /\ thread' = "vision" /\ UNCHANGED faults
     \/ Fault /\ thread' = AfterFailedSave /\ UNCHANGED saved
  /\ UNCHANGED <<disk, service, loop, ids, tick, fetches, got, vision, shown, since>>

OpenVisionState ==
  /\ thread = "vision"
  /\ \/ vision' = [vision EXCEPT !.whole = FALSE] /\ thread' = "torn" /\ UNCHANGED faults
     \/ Fault /\ thread' = "returned" /\ UNCHANGED vision
  /\ UNCHANGED <<disk, service, loop, ids, tick, fetches, got, saved, shown, since>>

WriteVisionState ==
  /\ thread = "torn"
  /\ \/ vision' = [tick |-> tick, cameras |-> got, whole |-> TRUE] /\ UNCHANGED faults
     \/ Fault /\ UNCHANGED vision
  /\ thread' = "returned"
  /\ UNCHANGED <<disk, service, loop, ids, tick, fetches, got, saved, shown, since>>

(***************************************************************************)
(* Back in the event loop: publish the snapshot, or log the exception.     *)
(***************************************************************************)
Snapshot == [tick |-> tick, cameras |-> got]

\* Mutant: the exception of a tick is not caught.
AfterTickErrorUncaught == "dead"
AfterTickError         == "sleep"

\* Building the incidents may raise before the snapshot is set, the evaluator after it.
Publish ==
  /\ loop = "await"
  /\ \/ thread = "returned" /\ shown' = Snapshot /\ loop' = "sleep" /\ UNCHANGED faults
     \/ thread = "returned" /\ shown' \in {shown, Snapshot} /\ loop' = AfterTickError /\ Fault
     \/ thread = "raised" /\ loop' = AfterTickError /\ UNCHANGED <<shown, faults>>
  /\ thread' = "idle"
  /\ UNCHANGED <<disk, service, ids, tick, fetches, got, files, since>>

Interval ==
  /\ loop = "sleep"
  /\ loop' = "check"
  /\ UNCHANGED <<disk, service, thread, ids, tick, fetches, got, files, shown, since, faults>>

(***************************************************************************)
(* The exclusion endpoints, atomic in the event loop and on disk.          *)
(***************************************************************************)
exclude_camera(c) ==
  /\ service = "up"
  /\ c \notin disk
  /\ disk' = disk \cup {c}
  /\ since' = [since EXCEPT ![c] = IF thread = "queued" THEN tick + 1 ELSE tick]
  /\ UNCHANGED <<service, loop, thread, ids, tick, fetches, got, files, shown, faults>>

restore_camera(c) ==
  /\ service = "up"
  /\ c \in disk
  /\ disk' = disk \ {c}
  /\ UNCHANGED <<service, loop, thread, ids, tick, fetches, got, files, shown, since, faults>>

(***************************************************************************)
(* lifespan: a shutdown sets the event and cancels the task wherever it    *)
(* awaits.  A tick not yet picked up by a thread is cancelled with it, one *)
(* that runs goes on, and the interpreter waits for its thread.            *)
(***************************************************************************)
\* Mutant: the shutdown does not reach the task.
AfterStopUncancelled == loop
AfterStop            == "ended"

Stop ==
  /\ service = "up"
  /\ service' = "stopping"
  /\ loop' = AfterStop
  /\ thread' = IF thread = "queued" THEN "idle" ELSE thread
  /\ UNCHANGED <<disk, ids, tick, fetches, got, files, shown, since, faults>>

Exit ==
  /\ service = "stopping"
  /\ loop = "ended"
  /\ thread \in {"idle", "returned", "raised"}
  /\ service' = "down"
  /\ UNCHANGED <<disk, loop, thread, ids, tick, fetches, got, files, shown, since, faults>>

\* A new process, after an orderly exit or a crash: only the files survive.
Start ==
  /\ \/ service = "down" /\ UNCHANGED faults
     \/ service # "down" /\ Fault
  /\ service' = "up" /\ loop' = "check" /\ thread' = "idle"
  /\ ids' = {} /\ got' = {}
  /\ running' = {} /\ future' = [s \in Sources |-> "error"] /\ next' = 1
  /\ shown' = Nothing
  /\ UNCHANGED <<disk, tick, files, since>>

TickThread ==
  \/ SubmitFetches \/ Collect \/ LeaveExecutor \/ Analyse
  \/ SaveRecords \/ OpenVisionState \/ WriteVisionState

EventLoop == HandOver \/ Publish \/ Interval \/ Exit

Next ==
  \/ TickThread
  \/ \E f \in running : FetchEnds(f)
  \/ EventLoop
  \/ \E c \in Cameras : exclude_camera(c) \/ restore_camera(c)
  \/ Stop
  \/ Start

Spec == Init /\ [][Next]_vars

(***************************************************************************)
(* The threads are scheduled; a fetch ends, for its requests have timeouts;*)
(* nothing obliges an operator to stop or to start the service.            *)
(***************************************************************************)
Fairness ==
  /\ WF_vars(TickThread)
  /\ WF_vars(\E f \in running : FetchEnds(f))
  /\ WF_vars(EventLoop)

FairSpec == Spec /\ Fairness

(***************************************************************************)
(* Properties.                                                             *)
(***************************************************************************)

(* A camera an operator excluded is polled no more, and no newer tick      *)
(* shows it, as soon as the tick that was under way at that moment is over *)
(* - although fetches may outlive their timeouts, and whatever restarts    *)
(* lie between.                                                            *)
ExclusionHolds ==
  \A c \in disk :
    /\ c \in shown.cameras => shown.tick <= since[c]
    /\ \A f \in running : f.source = "cameras" /\ c \in f.cameras => tick <= since[c]

(* A dashboard never shows a tick whose records are not on disk, never     *)
(* goes back to an older tick, and shows nothing new once shutdown began,  *)
(* even when a tick finishes during the shutdown.                          *)
Contract == INSTANCE ServiceContract
              WITH saved <- saved, shown <- shown.tick, up <- (service = "up")
ImplementsContract == Contract!Spec

(* Every tick is followed by another turn of the loop, whichever of its    *)
(* fetches time out and wherever it raises, unless the process ends first. *)
EveryTickEnds == loop = "await" ~> loop \in {"check", "ended"}

(* A shutdown gets the process to its end, after the tick that still runs. *)
ShutdownFinishes == service = "stopping" ~> service # "stopping"

(* docs/handoff.md:92 "The main loop re-reads this file every tick (no     *)
(* restart needed)": a serving process has a live tick loop.               *)
NoRestartNeeded == service = "up" => loop # "dead"
=============================================================================

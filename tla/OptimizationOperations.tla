----------------------- MODULE OptimizationOperations -----------------------
(***************************************************************************)
(* Semester optimizations and their durable receipts:                      *)
(* backend/app/services/optimization_operations.py with the solver process *)
(* of optimization_worker.py and the lifespan of main.py.                  *)
(*                                                                         *)
(* One operation is worked on by its start request, a run thread, a solver *)
(* process, and any number of accept and cancel requests.  live.lock       *)
(* orders most of them; it is held while the run thread is at "decide" or  *)
(* "check".  A start request holds the registry lock from its commit to    *)
(* its end (starting).  An apply holds live.lock and the database's writer *)
(* lock over all it does, so it is one step.  Everything but the receipts  *)
(* and the planning data is lost when the server process ends.             *)
(***************************************************************************)
EXTENDS Naturals, Sequences

CONSTANTS
  Ops,        (* operation ids                                              *)
  None,       (* no operation, no candidate                                 *)
  MaxInputs,  (* bound: versions of the planning data                       *)
  MaxCrashes  (* bound: ends of the server process                          *)

ASSUME BoundsAssumption == MaxInputs \in Nat /\ MaxCrashes \in Nat
ASSUME NoneAssumption == None \notin Ops

VARIABLES
  phase,       (* optimization_operations.phase; "absent" without a receipt *)
  inputs,      (* planning data of the semester: version, sessions saved?   *)
  prepared,    (* version the request of an operation was prepared from     *)
  starting,    (* operation whose start request holds the registry lock     *)
  registered,  (* operations in _registry                                   *)
  discarded,   (* LiveOperation.discarded                                   *)
  run,         (* where the run thread is                                   *)
  worker,      (* the solver process                                        *)
  pipe,        (* messages the solver sent and nobody received              *)
  got,         (* messages received by the poll in progress                 *)
  candidate,   (* checkpoint, then solution, then review of an operation    *)
  expired,     (* the captured deadline has passed                          *)
  cancelling,  (* cancel request between its look-up and its lock           *)
  server,      (* the server process                                        *)
  crashes,     (* ends of the server process so far                         *)
  saves,       (* history variable: what was saved                          *)
  sentFinal,   (* history variable: solvers that sent their final message   *)
  overlooked   (* history variable: cancelled behind the live operation     *)

receipts == <<phase, prepared>>
memory == <<registered, discarded, candidate>>
solver == <<worker, pipe, sentFinal>>
process == <<server, crashes, overlooked>>
vars == <<phase, inputs, prepared, starting, registered, discarded, run, worker, pipe,
          got, candidate, expired, cancelling, server, crashes, saves, sentFinal,
          overlooked>>

(* "worker_failed" stands for the phase failed with the terminal code      *)
(* OPTIMIZATION_WORKER_FAILED.                                             *)
TERMINAL == {"saved", "cancelled", "timeout_no_candidate", "failed", "worker_failed",
             "stale", "interrupted"}
Decidable == {"ready_to_save", "awaiting_decision"}
Computing == {"preparing", "optimizing", "checking"}
Phases == TERMINAL \cup Decidable \cup Computing \cup {"absent"}

(* proven: every objective is proven; empty: unproven and without a unit.  *)
Candidates == {"proven", "unproven", "empty"}
Message == [kind : {"checkpoint", "result"}, candidate : Candidates]
             \cup [kind : {"timeout", "failed"}, candidate : {None}]
Raising == {"raise_stale", "raise_failed", "raise_worker_failed"}
Running == {"prepare", "spawn", "poll", "decide", "conclude", "check"} \cup Raising
Save == [op : Ops, based : Nat, replaced : Nat, finalized : BOOLEAN, occupied : BOOLEAN]

Ended(o) == phase[o] \in TERMINAL
Current(o) == prepared[o] = inputs.version        (* _check_prepared *)
LockFree(o) == run[o] \notin {"decide", "check"}  (* live.lock       *)
Alive(o) == worker[o] \in {"searching", "improved", "answered"}

(* Mutant of NeedsAcceptance: sessions saved before are overlooked. *)
NeedsProof(o) == candidate[o] # "proven"

NeedsAcceptance(o) == candidate[o] # "proven" \/ inputs.occupied

Init ==
  /\ phase = [o \in Ops |-> "absent"]
  /\ inputs \in [version : {0}, occupied : BOOLEAN]
  /\ prepared = [o \in Ops |-> 0]
  /\ starting = None
  /\ registered = {}
  /\ discarded = {}
  /\ run = [o \in Ops |-> "none"]
  /\ worker = [o \in Ops |-> "none"]
  /\ pipe = [o \in Ops |-> << >>]
  /\ got = [o \in Ops |-> << >>]
  /\ candidate = [o \in Ops |-> None]
  /\ expired = {}
  /\ cancelling = [o \in Ops |-> "no"]
  /\ server = "up"
  /\ crashes = 0
  /\ saves = << >>
  /\ sentFinal = {}
  /\ overlooked = {}

(* Any change of the revision, its drafts, exams, constraints or catalog   *)
(* data that the tokens of a preparation cover.                            *)
ChangeInputs ==
  /\ inputs.version < MaxInputs
  /\ \E occupied \in BOOLEAN :
       inputs' = [version |-> inputs.version + 1, occupied |-> occupied]
  /\ UNCHANGED <<receipts, starting, memory, run, solver, got, expired, cancelling,
                 process, saves>>

(* LiveOperation and worker close; the receipt of o gets its ending.       *)
Close(o) ==
  /\ worker' = [worker EXCEPT ![o] = IF @ = "none" THEN "none" ELSE "closed"]
  /\ pipe' = [pipe EXCEPT ![o] = << >>]

(* Mutant of Finish: the worker is left to itself. *)
FinishWithoutClose(o, ending) ==
  /\ phase' = [phase EXCEPT ![o] = ending]
  /\ discarded' = discarded \cup {o}
  /\ candidate' = [candidate EXCEPT ![o] = None]
  /\ UNCHANGED <<worker, pipe>>

(* _finish *)
Finish(o, ending) ==
  /\ phase' = [phase EXCEPT ![o] = ending]
  /\ discarded' = discarded \cup {o}
  /\ candidate' = [candidate EXCEPT ![o] = None]
  /\ Close(o)

Goto(o, label) == run' = [run EXCEPT ![o] = label]
-----------------------------------------------------------------------------
(* start_operation: the receipt is committed, then the live operation is   *)
(* registered, then the thread started.  A repeated start of a known id    *)
(* answers with the receipt and changes nothing.                           *)
StartCommit(o) ==
  /\ server = "up" /\ starting = None /\ phase[o] = "absent"
  /\ \E version \in 0..inputs.version : prepared' = [prepared EXCEPT ![o] = version]
  /\ phase' = [phase EXCEPT ![o] = "preparing"]
  /\ starting' = o
  /\ UNCHANGED <<inputs, memory, run, solver, got, expired, cancelling, process, saves>>

StartRegister(o) ==
  /\ starting = o /\ o \notin registered
  /\ registered' = registered \cup {o}
  /\ UNCHANGED <<receipts, inputs, starting, discarded, candidate, run, solver, got,
                 expired, cancelling, process, saves>>

StartThread(o) ==
  /\ starting = o /\ o \in registered
  /\ starting' = None
  /\ Goto(o, "prepare")
  /\ UNCHANGED <<receipts, inputs, memory, solver, got, expired, cancelling, process, saves>>

(* The thread cannot be started; this _finish takes no live.lock. *)
StartFails(o) ==
  /\ starting = o /\ o \in registered
  /\ starting' = None
  /\ Finish(o, "failed")
  /\ UNCHANGED <<inputs, prepared, registered, run, got, expired, cancelling, process,
                 saves, sentFinal>>
-----------------------------------------------------------------------------
(* _run, up to the solver process *)
RunPrepare(o) ==
  /\ run[o] = "prepare"
  /\ Goto(o, IF Current(o) THEN "spawn" ELSE "raise_stale")
  /\ UNCHANGED <<receipts, inputs, starting, memory, solver, got, expired, cancelling,
                 process, saves>>

RunStops(o) ==
  /\ run[o] \in {"spawn", "poll", "conclude"} \cup Raising
  /\ o \in discarded
  /\ Goto(o, "done")
  /\ UNCHANGED <<receipts, inputs, starting, memory, solver, got, expired, cancelling,
                 process, saves>>

(* Mutant of RunSpawn: a discarded operation is spawned all the same. *)
RunSpawnAnyway(o) ==
  /\ run[o] = "spawn"
  /\ worker' = [worker EXCEPT ![o] = "searching"]
  /\ phase' = [phase EXCEPT ![o] = "optimizing"]
  /\ Goto(o, "poll")
  /\ UNCHANGED <<inputs, prepared, starting, memory, pipe, sentFinal, got, expired,
                 cancelling, process, saves>>

(* The phase is written whatever the receipt says. *)
RunSpawn(o) ==
  /\ run[o] = "spawn" /\ o \notin discarded
  /\ \/ /\ worker' = [worker EXCEPT ![o] = "searching"]
        /\ phase' = [phase EXCEPT ![o] = "optimizing"]
        /\ Goto(o, "poll")
     \/ /\ Goto(o, "raise_failed")
        /\ UNCHANGED <<worker, phase>>
  /\ UNCHANGED <<inputs, prepared, starting, memory, pipe, sentFinal, got, expired,
                 cancelling, process, saves>>

(* One turn of the polling loop: receive, then is_alive, then once more    *)
(* receive when the process has ended.                                     *)
PollReceive(o) ==
  /\ run[o] = "poll" /\ o \notin discarded
  /\ got' = [got EXCEPT ![o] = pipe[o]]
  /\ pipe' = [pipe EXCEPT ![o] = << >>]
  /\ Goto(o, "decide")
  /\ UNCHANGED <<receipts, inputs, starting, memory, worker, sentFinal, expired,
                 cancelling, process, saves>>

(* Mutant of Received: what arrived since the first receive is not read. *)
ReceivedOnce(o) == got[o]

Received(o) == IF Alive(o) THEN got[o] ELSE got[o] \o pipe[o]

Kinds(o) == {Received(o)[i].kind : i \in DOMAIN Received(o)}

(* The solution, else the latest checkpoint. *)
LatestCandidate(o) ==
  LET offers == {i \in DOMAIN Received(o) : Received(o)[i].candidate # None}
  IN IF offers = {} THEN candidate[o]
     ELSE Received(o)[CHOOSE i \in offers : \A j \in offers : j <= i].candidate

(* Mutant of AfterPoll: the thread does not look at its deadline. *)
AfterPollWithoutDeadline(o) ==
  IF "failed" \in Kinds(o) THEN "raise_failed"
  ELSE IF Kinds(o) \cap {"result", "timeout"} # {} THEN "conclude"
  ELSE IF ~ Alive(o) THEN "raise_worker_failed"
  ELSE "poll"

AfterPoll(o) ==
  IF "failed" \in Kinds(o) THEN "raise_failed"
  ELSE IF Kinds(o) \cap {"result", "timeout"} # {} THEN "conclude"
  ELSE IF ~ Alive(o) THEN "raise_worker_failed"
  ELSE IF o \in expired THEN "conclude"
  ELSE "poll"

PollDecide(o) ==
  /\ run[o] = "decide"
  /\ candidate' = [candidate EXCEPT ![o] = LatestCandidate(o)]
  /\ Goto(o, AfterPoll(o))
  /\ got' = [got EXCEPT ![o] = << >>]
  /\ pipe' = [pipe EXCEPT ![o] = IF Alive(o) THEN @ ELSE << >>]
  /\ UNCHANGED <<receipts, inputs, starting, registered, discarded, worker, sentFinal,
                 expired, cancelling, process, saves>>

(* The search is over: nothing usable, or a candidate to check.            *)
Conclude(o) ==
  /\ run[o] = "conclude" /\ o \notin discarded
  /\ \/ /\ candidate[o] \in {None, "empty"}
        /\ Finish(o, "timeout_no_candidate")
        /\ Goto(o, "done")
     \/ /\ candidate[o] \notin {None, "empty"}
        /\ Close(o)
        /\ phase' = [phase EXCEPT ![o] = "checking"]
        /\ Goto(o, "check")
        /\ UNCHANGED <<discarded, candidate>>
  /\ UNCHANGED <<inputs, prepared, starting, registered, sentFinal, got, expired,
                 cancelling, process, saves>>

(* Fresh inputs and validate_exact_candidate, then the review. *)
Check(o) ==
  /\ run[o] = "check"
  /\ \/ /\ Current(o)
        /\ phase' = [phase EXCEPT ![o] =
             IF NeedsAcceptance(o) THEN "awaiting_decision" ELSE "ready_to_save"]
        /\ Goto(o, "done")
     \/ /\ Current(o)
        /\ Goto(o, "raise_failed")
        /\ UNCHANGED phase
     \/ /\ ~ Current(o)
        /\ Goto(o, "raise_stale")
        /\ UNCHANGED phase
  /\ UNCHANGED <<inputs, prepared, starting, memory, solver, got, expired, cancelling,
                 process, saves>>

Ending(label) ==
  CASE label = "raise_stale" -> "stale"
    [] label = "raise_failed" -> "failed"
    [] label = "raise_worker_failed" -> "worker_failed"

(* The exception handler of _run *)
RunFails(o) ==
  /\ run[o] \in Raising /\ o \notin discarded
  /\ Goto(o, "done")
  /\ \/ /\ ~ Ended(o)
        /\ Finish(o, Ending(run[o]))
     \/ /\ Ended(o)
        /\ UNCHANGED <<phase, discarded, candidate, worker, pipe>>
  /\ UNCHANGED <<inputs, prepared, starting, registered, got, expired, cancelling,
                 process, saves, sentFinal>>
-----------------------------------------------------------------------------
(* _solve in its own process: at most one checkpoint here, then at most one*)
(* final message, then its end.  It can also be killed at any moment.      *)
WorkerSends(o, message, next) ==
  /\ pipe' = [pipe EXCEPT ![o] = Append(@, message)]
  /\ worker' = [worker EXCEPT ![o] = next]

WorkerImproves(o) ==
  /\ worker[o] = "searching"
  /\ \E c \in {"unproven", "empty"} :
       WorkerSends(o, [kind |-> "checkpoint", candidate |-> c], "improved")
  /\ UNCHANGED <<receipts, inputs, starting, memory, run, got, expired, cancelling,
                 process, saves, sentFinal>>

WorkerAnswers(o) ==
  /\ worker[o] \in {"searching", "improved"}
  /\ \/ \E c \in Candidates : WorkerSends(o, [kind |-> "result", candidate |-> c], "answered")
     \/ \E kind \in {"timeout", "failed"} :
          WorkerSends(o, [kind |-> kind, candidate |-> None], "answered")
  /\ sentFinal' = sentFinal \cup {o}
  /\ UNCHANGED <<receipts, inputs, starting, memory, run, got, expired, cancelling,
                 process, saves>>

WorkerEnds(o) ==
  /\ Alive(o)
  /\ worker' = [worker EXCEPT ![o] = "dead"]
  /\ UNCHANGED <<receipts, inputs, starting, memory, run, pipe, got, expired, cancelling,
                 process, saves, sentFinal>>

DeadlinePasses(o) ==
  /\ o \notin expired /\ run[o] \in Running
  /\ expired' = expired \cup {o}
  /\ UNCHANGED <<receipts, inputs, starting, memory, run, solver, got, cancelling,
                 process, saves>>
-----------------------------------------------------------------------------
(* apply_operation behind live.lock and the writer lock; the request must  *)
(* come from the originating session (a request that does not is refused   *)
(* and changes nothing, as is one for another phase).                      *)
Decision(o, finalize) ==
  /\ server = "up" /\ LockFree(o)
  /\ o \in registered \ discarded
  /\ phase[o] = IF finalize THEN "ready_to_save" ELSE "awaiting_decision"

(* Mutant of ApplySaves: the inputs are not compared again. *)
ApplySavesUnchecked(o, finalize) ==
  /\ Decision(o, finalize)
  /\ inputs.version < MaxInputs
  /\ finalize => ~ NeedsAcceptance(o)
  /\ inputs' = [version |-> inputs.version + 1, occupied |-> TRUE]
  /\ saves' = Append(saves, [op |-> o, based |-> prepared[o], replaced |-> inputs.version,
                             finalized |-> finalize, occupied |-> inputs.occupied])
  /\ Finish(o, "saved")
  /\ UNCHANGED <<prepared, starting, registered, run, got, expired, cancelling, process,
                 sentFinal>>

(* Every draft of the selection is replaced and the receipt is saved, in   *)
(* one transaction.                                                        *)
ApplySaves(o, finalize) ==
  /\ Decision(o, finalize)
  /\ inputs.version < MaxInputs
  /\ Current(o)
  /\ finalize => ~ NeedsAcceptance(o)
  /\ inputs' = [version |-> inputs.version + 1, occupied |-> TRUE]
  /\ saves' = Append(saves, [op |-> o, based |-> prepared[o], replaced |-> inputs.version,
                             finalized |-> finalize, occupied |-> inputs.occupied])
  /\ Finish(o, "saved")
  /\ UNCHANGED <<prepared, starting, registered, run, got, expired, cancelling, process,
                 sentFinal>>

(* Rolled back: the inputs changed, or any step of the application failed. *)
ApplyFails(o, finalize) ==
  /\ Decision(o, finalize)
  /\ Finish(o, IF Current(o) THEN "failed" ELSE "stale")
  /\ UNCHANGED <<inputs, prepared, starting, registered, run, got, expired, cancelling,
                 process, saves, sentFinal>>

(* cancel_operation looks the live operation up before it takes a lock:    *)
(* the operation's, or the registry's when it found none.                  *)
CancelLooksUp(o) ==
  /\ server = "up" /\ phase[o] # "absent" /\ cancelling[o] = "no"
  /\ cancelling' = [cancelling EXCEPT ![o] = IF o \in registered THEN "live" ELSE "unknown"]
  /\ UNCHANGED <<receipts, inputs, starting, memory, run, solver, got, expired, process,
                 saves>>

CancelLive(o) ==
  /\ cancelling[o] = "live" /\ LockFree(o)
  /\ cancelling' = [cancelling EXCEPT ![o] = "no"]
  /\ \/ /\ ~ Ended(o)
        /\ Finish(o, "cancelled")
     \/ /\ Ended(o)
        /\ UNCHANGED <<phase, discarded, candidate, worker, pipe>>
  /\ UNCHANGED <<inputs, prepared, starting, registered, run, got, expired, process,
                 saves, sentFinal>>

(* Without a live operation only the receipt changes. *)
CancelReceipt(o) ==
  /\ cancelling[o] = "unknown" /\ starting = None
  /\ cancelling' = [cancelling EXCEPT ![o] = "no"]
  /\ phase' = [phase EXCEPT ![o] = IF Ended(o) THEN @ ELSE "cancelled"]
  /\ overlooked' = IF ~ Ended(o) /\ o \in registered THEN overlooked \cup {o} ELSE overlooked
  /\ UNCHANGED <<inputs, prepared, starting, memory, run, solver, got, expired, server,
                 crashes, saves>>
-----------------------------------------------------------------------------
(* The lifespan: a shutdown ends the live operations once the requests are *)
(* answered, a crash ends the process at any moment, a start interrupts    *)
(* what the last process left (recover_operations).                        *)
BeginShutdown ==
  /\ server = "up" /\ crashes < MaxCrashes
  /\ starting = None /\ \A o \in Ops : cancelling[o] = "no"
  /\ server' = "stopping"
  /\ UNCHANGED <<receipts, inputs, starting, memory, run, solver, got, expired,
                 cancelling, crashes, overlooked, saves>>

ShutdownOperation(o) ==
  /\ server = "stopping" /\ o \in registered /\ LockFree(o)
  /\ registered' = registered \ {o}
  /\ \/ /\ ~ Ended(o)
        /\ Finish(o, "interrupted")
     \/ /\ Ended(o)
        /\ UNCHANGED <<phase, discarded, candidate, worker, pipe>>
  /\ UNCHANGED <<inputs, prepared, starting, run, got, expired, cancelling, process,
                 saves, sentFinal>>

ProcessEnds ==
  /\ server \in {"up", "stopping"} /\ crashes < MaxCrashes
  /\ server' = "down"
  /\ crashes' = crashes + 1
  /\ starting' = None
  /\ registered' = {}
  /\ discarded' = {}
  /\ run' = [o \in Ops |-> "none"]
  /\ worker' = [o \in Ops |-> "none"]
  /\ pipe' = [o \in Ops |-> << >>]
  /\ got' = [o \in Ops |-> << >>]
  /\ candidate' = [o \in Ops |-> None]
  /\ cancelling' = [o \in Ops |-> "no"]
  /\ UNCHANGED <<receipts, inputs, expired, saves, sentFinal, overlooked>>

(* Mutant of Restart: the receipts are left as they are. *)
RestartWithoutRecovery ==
  /\ server = "down"
  /\ server' = "up"
  /\ UNCHANGED <<receipts, inputs, starting, memory, run, solver, got, expired,
                 cancelling, crashes, overlooked, saves>>

Restart ==
  /\ server = "down"
  /\ server' = "up"
  /\ phase' = [o \in Ops |->
       IF Ended(o) \/ phase[o] = "absent" THEN phase[o] ELSE "interrupted"]
  /\ UNCHANGED <<inputs, prepared, starting, memory, run, solver, got, expired,
                 cancelling, crashes, overlooked, saves>>

StartStep(o) == StartCommit(o) \/ StartRegister(o) \/ StartThread(o) \/ StartFails(o)
RunStep(o) ==
  \/ RunPrepare(o) \/ RunStops(o) \/ RunSpawn(o) \/ PollReceive(o) \/ PollDecide(o)
  \/ Conclude(o) \/ Check(o) \/ RunFails(o)
WorkerStep(o) == WorkerImproves(o) \/ WorkerAnswers(o) \/ WorkerEnds(o)
CancelStep(o) == CancelLooksUp(o) \/ CancelLive(o) \/ CancelReceipt(o)

Next ==
  \/ \E o \in Ops :
       \/ StartStep(o) \/ RunStep(o) \/ WorkerStep(o) \/ DeadlinePasses(o) \/ CancelStep(o)
       \/ \E finalize \in BOOLEAN : ApplySaves(o, finalize) \/ ApplyFails(o, finalize)
       \/ ShutdownOperation(o)
  \/ ChangeInputs \/ BeginShutdown \/ ProcessEnds \/ Restart

Spec == Init /\ [][Next]_vars

(* Threads that can run do, time passes, and a stopped server is started   *)
(* again.  Nothing is assumed of the solver, the planners or crashes.      *)
Fairness ==
  /\ \A o \in Ops :
       /\ WF_vars(StartRegister(o))
       /\ WF_vars(StartThread(o) \/ StartFails(o))
       /\ WF_vars(RunStep(o))
       /\ WF_vars(DeadlinePasses(o))
  /\ WF_vars(Restart)

FairSpec == Spec /\ Fairness
-----------------------------------------------------------------------------
TypeOK ==
  /\ phase \in [Ops -> Phases]
  /\ inputs \in [version : Nat, occupied : BOOLEAN]
  /\ prepared \in [Ops -> Nat]
  /\ starting \in Ops \cup {None}
  /\ registered \subseteq Ops
  /\ discarded \subseteq Ops
  /\ run \in [Ops -> Running \cup {"none", "done"}]
  /\ worker \in [Ops -> {"none", "searching", "improved", "answered", "dead", "closed"}]
  /\ pipe \in [Ops -> Seq(Message)]
  /\ got \in [Ops -> Seq(Message)]
  /\ candidate \in [Ops -> Candidates \cup {None}]
  /\ expired \subseteq Ops
  /\ cancelling \in [Ops -> {"no", "live", "unknown"}]
  /\ server \in {"up", "stopping", "down"}
  /\ crashes \in Nat
  /\ saves \in Seq(Save)
  /\ sentFinal \subseteq Ops
  /\ overlooked \subseteq Ops

(* Whatever overlaps, an operation is saved at most once, and only over    *)
(* exactly the planning data its candidate was computed from (FR-019,      *)
(* FR-023 of I-006).                                                       *)
SavedOnceOverItsInputs ==
  /\ \A i \in DOMAIN saves : saves[i].based = saves[i].replaced
  /\ \A i, j \in DOMAIN saves : saves[i].op = saves[j].op => i = j
  /\ \A o \in Ops : (\E i \in DOMAIN saves : saves[i].op = o) <=> phase[o] = "saved"

(* Without a planner's decision nothing that was saved is replaced: the    *)
(* automatic finalization only fills a semester without sessions.          *)
FinalizationReplacesNothing ==
  \A i \in DOMAIN saves : saves[i].finalized => ~ saves[i].occupied

(* No solver runs for an operation that was discarded, nor without a       *)
(* server.                                                                 *)
NoStraySolver ==
  \A o \in Ops : Alive(o) => server # "down" /\ o \notin discarded

(* A receipt that has not ended is worked on: after any crash, nothing is  *)
(* left waiting for a process that is gone (recover_operations), unless a  *)
(* run revives an operation cancelled behind its registration.             *)
NoOrphanReceipt ==
  server # "down" =>
    \A o \in Ops \ overlooked :
      ~ Ended(o) /\ phase[o] # "absent" => o \in registered \/ starting = o

(* However an operation ends, at whatever moment the process is lost,      *)
(* neither a solver nor a receipt is left behind.                          *)
NothingLeftBehind == NoStraySolver /\ NoOrphanReceipt

(* An answer the solver sent before its process ended is not reported as a *)
(* worker failure (the second receive of _run).                            *)
AnswerNeverLost == \A o \in Ops : phase[o] = "worker_failed" => o \notin sentFinal

(* An ending stands, in particular a cancellation once it is answered, with*)
(* two exceptions: a start whose dispatch fails writes over it, and so does*)
(* the run of an operation that was cancelled behind its registration.     *)
EndingsStand ==
  [][\A o \in Ops :
       Ended(o) /\ o \notin overlooked /\ starting # o => phase'[o] = phase[o]]_vars

(* Every computation ends or asks for a decision, also when the solver     *)
(* hangs, dies or never answers, or the server restarts.                   *)
ComputationSettles ==
  \A o \in Ops : phase[o] \in Computing ~> phase[o] \in TERMINAL \cup Decidable

(* I-006 data-model.md:67 "No terminal-to-active transitions". *)
NoTerminalToActive ==
  [][\A o \in Ops : Ended(o) => phase'[o] \in TERMINAL]_vars
=============================================================================

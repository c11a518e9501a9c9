-------------------- MODULE OptimizationAndCatalogProofs ---------------------
(***************************************************************************)
(* Theorems about OptimizationOperations, for any number of operations,    *)
(* changes of the planning data and ends of the server process, and, in    *)
(* the second half, about Catalogs.                                        *)
(*                                                                         *)
(* The argument about the operations has three parts.  Who can still write *)
(* a receipt: nobody works on an operation whose receipt has ended, is     *)
(* decidable or saved, but for the two races the model names (Worked,      *)
(* Rested, Starting).  Who can still run a solver: only an operation that  *)
(* was not discarded.  And where an answer is between the solver's send    *)
(* and the run thread's decision: in the pipe, or in what the thread has   *)
(* received (AnswerKept).                                                  *)
(*                                                                         *)
(* The one about the catalogs is what a request knows between its read and *)
(* its write (RequestInv).  A reading step leaves a request with what is   *)
(* there (Fresh).  Any other step is a Step: it gives every versioned row  *)
(* it changes a new revision, or tells the requests about it in since, and *)
(* it tells them what comes into use.  So a revision that still matches    *)
(* means an unchanged row, and a record nobody was told about is as unused *)
(* as when its deletion looked.                                            *)
(***************************************************************************)
EXTENDS OptimizationOperations, Catalogs, SequenceTheorems, WellFoundedInduction, TLAPS

(* Without a server process there is nothing in memory.                    *)
NothingInMemory(o) ==
  server = "down" =>
    starting # o /\ o \notin registered /\ run[o] = "none" /\ worker[o] = "none"

(* A start request that is not finished: the receipt is new or already     *)
(* cancelled, and no thread runs.                                          *)
StartPending(o) ==
  starting = o => server = "up" /\ phase[o] \in {"preparing", "cancelled"} /\ run[o] = "none"

(* Before the solver process, there is no worker and no answer.            *)
Unspawned(o) == phase[o] = "absent" \/ starting = o \/ run[o] \in {"prepare", "spawn"}
BeforeTheSolver(o) ==
  /\ Unspawned(o) => worker[o] = "none" /\ o \notin sentFinal
  /\ phase[o] = "absent" => starting # o /\ run[o] = "none"

(* Nobody works on an operation that has ended, unless it is discarded and *)
(* will notice, or was overlooked.                                         *)
Resting(o) == run[o] \in {"none", "done"} /\ starting # o
Worked(o) == Ended(o) /\ o \notin overlooked => o \in discarded \/ Resting(o)

(* What holds the lock is not discarded meanwhile.                         *)
LockedIsLive(o) == ~ LockFree(o) => o \notin discarded

(* A candidate is offered, saved, or the worker reported as failed, only   *)
(* when the run thread is through.                                         *)
Rested(o) ==
  phase[o] \in Decidable \cup {"saved", "worker_failed"} => run[o] \in {"none", "done"}

(* An answer that was sent and not yet acted on is somewhere.              *)
Final(s) == \E i \in DOMAIN s : s[i].kind \in {"result", "timeout", "failed"}
AnswerKept(o) ==
  o \in sentFinal =>
    /\ run[o] = "poll" /\ o \notin discarded => Final(pipe[o])
    /\ run[o] = "decide" => Final(got[o]) \/ Final(pipe[o])

(* A worker is given up only when it ended without an answer.              *)
WorkerReallyFailed(o) ==
  run[o] = "raise_worker_failed" \/ phase[o] = "worker_failed" =>
    o \notin sentFinal /\ ~ Alive(o)

(* The parts of NothingLeftBehind for one operation.                       *)
SolverNotStray(o) == Alive(o) => server # "down" /\ o \notin discarded
ReceiptNotOrphaned(o) ==
  server # "down" /\ o \notin overlooked /\ ~ Ended(o) /\ phase[o] # "absent" =>
    o \in registered \/ starting = o

OperationInv(o) ==
  /\ NothingInMemory(o) /\ StartPending(o) /\ BeforeTheSolver(o) /\ Worked(o)
  /\ LockedIsLive(o) /\ Rested(o) /\ AnswerKept(o) /\ WorkerReallyFailed(o)
  /\ SolverNotStray(o) /\ ReceiptNotOrphaned(o)

OperationsInv == \A o \in Ops : OperationInv(o)

(* The inductive invariant.                                                *)
Inv == OperationsInv /\ SavedOnceOverItsInputs /\ FinalizationReplacesNothing
-----------------------------------------------------------------------------
(* A nonempty set of numbers up to n has a largest element.                *)
LEMMA LargestExists ==
  ASSUME NEW n \in Nat, NEW S \in SUBSET (1..n), S # {}
  PROVE  \E m \in S : \A k \in S : k <= m
<1> DEFINE Bounds == {b \in Nat : \A k \in S : k <= b}
<1>1. PICK b \in Bounds : \A c \in Bounds : ~ (<<c, b>> \in OpToRel(<, Nat))
  <2>1. n \in Bounds /\ Bounds \subseteq Nat OBVIOUS
  <2> HIDE DEF Bounds
  <2> QED BY <2>1, NatLessThanWellFounded, WFMin
<1>2. \A c \in Bounds : ~ (c < b)
  BY <1>1 DEF OpToRel
<1>3. ASSUME b \notin S PROVE FALSE
  <2>1. \A k \in S : k <= b - 1 BY <1>3
  <2>2. b - 1 \in Nat
    <3>1. PICK k \in S : TRUE OBVIOUS
    <3> QED BY <2>1, <3>1
  <2> QED BY <1>2, <2>1, <2>2
<1> QED BY <1>3

(* What a turn of the polling loop has received, and the candidate and the *)
(* label it leads to.                                                      *)
LEMMA ReceivedType ==
  ASSUME TypeOK, NEW o \in Ops
  PROVE  /\ Received(o) \in Seq(Message)
         /\ LatestCandidate(o) \in Candidates \cup {None}
         /\ AfterPoll(o) \in {"raise_failed", "raise_worker_failed", "conclude", "poll"}
<1>1. Received(o) \in Seq(Message)
  <2>1. got[o] \in Seq(Message) /\ pipe[o] \in Seq(Message)
    BY DEF TypeOK
  <2> QED BY <2>1, ConcatProperties DEF Received
<1>2. LatestCandidate(o) \in Candidates \cup {None}
  <2> DEFINE messages == Received(o)
             offers == {i \in DOMAIN messages : messages[i].candidate # None}
  <2>1. CASE offers = {}
    BY <2>1 DEF LatestCandidate, TypeOK
  <2>2. CASE offers # {}
    <3>1. Len(messages) \in Nat /\ offers \in SUBSET (1..Len(messages))
      BY <1>1, LenProperties
    <3>2. \E i \in offers : \A j \in offers : j <= i
      BY <2>2, <3>1, LargestExists
    <3>3. PICK i \in offers : LatestCandidate(o) = messages[i].candidate
      BY <2>2, <3>2 DEF LatestCandidate
    <3>4. messages[i] \in Message
      BY <1>1, ElementOfSeq, LenProperties
    <3> QED BY <3>3, <3>4 DEF Message
  <2> QED BY <2>1, <2>2
<1>3. AfterPoll(o) \in {"raise_failed", "raise_worker_failed", "conclude", "poll"}
  BY DEF AfterPoll
<1> QED BY <1>1, <1>2, <1>3

(* An ending is written, with the live operation and the worker closed.    *)
LEMMA FinishType ==
  ASSUME TypeOK, NEW o \in Ops, NEW ending \in TERMINAL, Finish(o, ending)
  PROVE  /\ phase' \in [Ops -> Phases] /\ discarded' \subseteq Ops
         /\ candidate' \in [Ops -> Candidates \cup {None}]
         /\ worker' \in [Ops -> {"none", "searching", "improved", "answered", "dead", "closed"}]
         /\ pipe' \in [Ops -> Seq(Message)]
BY DEF TypeOK, Finish, Close, Phases

LEMMA TypeAtFirst == Init => TypeOK
BY DEF Init, TypeOK, Phases

LEMMA TypeStep == TypeOK /\ [Next]_vars => TypeOK'
<1> SUFFICES ASSUME TypeOK, [Next]_vars PROVE TypeOK'
  OBVIOUS
<1> USE DEF receipts, memory, solver, process
<1>1. CASE UNCHANGED vars
  BY <1>1 DEF TypeOK, vars
<1>2. ASSUME NEW o \in Ops, StartStep(o) PROVE TypeOK'
  <2>1. CASE StartCommit(o)
    BY <2>1 DEF StartCommit, TypeOK, Phases, Computing
  <2>2. CASE StartRegister(o)
    BY <2>2 DEF StartRegister, TypeOK
  <2>3. CASE StartThread(o)
    BY <2>3 DEF StartThread, Goto, TypeOK, Running
  <2>4. CASE StartFails(o)
    BY <2>4, FinishType DEF StartFails, TypeOK, TERMINAL
  <2> QED BY <1>2, <2>1, <2>2, <2>3, <2>4 DEF StartStep
<1>3. ASSUME NEW o \in Ops, RunStep(o) PROVE TypeOK'
  <2>1. CASE RunPrepare(o)
    BY <2>1 DEF RunPrepare, Goto, TypeOK, Running, Raising
  <2>2. CASE RunStops(o)
    BY <2>2 DEF RunStops, Goto, TypeOK
  <2>3. CASE RunSpawn(o)
    BY <2>3 DEF RunSpawn, Goto, TypeOK, Running, Raising, Phases, Computing
  <2>4. CASE PollReceive(o)
    BY <2>4 DEF PollReceive, Goto, TypeOK, Running
  <2>5. CASE PollDecide(o)
    <3>1. run' \in [Ops -> Running \cup {"none", "done"}]
      BY <2>5, ReceivedType DEF PollDecide, Goto, TypeOK, Running, Raising
    <3>2. candidate' \in [Ops -> Candidates \cup {None}]
      BY <2>5, ReceivedType DEF PollDecide, TypeOK
    <3> QED BY <2>5, <3>1, <3>2 DEF PollDecide, TypeOK
  <2>6. CASE Conclude(o)
    <3>1. CASE Finish(o, "timeout_no_candidate") /\ Goto(o, "done")
      BY <2>6, <3>1, FinishType DEF Conclude, Goto, TypeOK, TERMINAL
    <3>2. CASE /\ Close(o) /\ phase' = [phase EXCEPT ![o] = "checking"]
               /\ Goto(o, "check") /\ UNCHANGED <<discarded, candidate>>
      BY <2>6, <3>2 DEF Conclude, Close, Goto, TypeOK, Running, Phases, Computing
    <3> QED BY <2>6, <3>1, <3>2 DEF Conclude
  <2>7. CASE Check(o)
    BY <2>7 DEF Check, Goto, TypeOK, Running, Raising, Phases, Decidable
  <2>8. CASE RunFails(o)
    <3>1. Ending(run[o]) \in TERMINAL
      BY <2>8 DEF RunFails, Raising, Ending, TERMINAL
    <3>2. CASE Finish(o, Ending(run[o]))
      <4>1. run' \in [Ops -> Running \cup {"none", "done"}]
        BY <2>8 DEF RunFails, Goto, TypeOK
      <4>2. /\ phase' \in [Ops -> Phases] /\ discarded' \subseteq Ops
            /\ candidate' \in [Ops -> Candidates \cup {None}]
            /\ worker' \in [Ops -> {"none", "searching", "improved", "answered", "dead", "closed"}]
            /\ pipe' \in [Ops -> Seq(Message)]
        BY <3>1, <3>2, FinishType
      <4> QED BY <2>8, <4>1, <4>2 DEF RunFails, TypeOK
    <3>3. CASE UNCHANGED <<phase, discarded, candidate, worker, pipe>>
      BY <2>8, <3>3 DEF RunFails, Goto, TypeOK
    <3> QED BY <2>8, <3>2, <3>3 DEF RunFails
  <2> QED BY <1>3, <2>1, <2>2, <2>3, <2>4, <2>5, <2>6, <2>7, <2>8 DEF RunStep
<1>4. ASSUME NEW o \in Ops, WorkerStep(o) \/ DeadlinePasses(o) PROVE TypeOK'
  <2>1. CASE WorkerImproves(o)
    BY <2>1 DEF WorkerImproves, WorkerSends, TypeOK, Message, Candidates
  <2>2. CASE WorkerAnswers(o)
    <3>1. PICK message \in Message : WorkerSends(o, message, "answered")
      BY <2>2 DEF WorkerAnswers, Message, Candidates
    <3> QED BY <2>2, <3>1 DEF WorkerAnswers, WorkerSends, TypeOK
  <2>3. CASE WorkerEnds(o)
    BY <2>3 DEF WorkerEnds, TypeOK
  <2>4. CASE DeadlinePasses(o)
    BY <2>4 DEF DeadlinePasses, TypeOK
  <2> QED BY <1>4, <2>1, <2>2, <2>3, <2>4 DEF WorkerStep
<1>5. ASSUME NEW o \in Ops, NEW finalize \in BOOLEAN, ApplySaves(o, finalize) PROVE TypeOK'
  <2>1. [op |-> o, based |-> prepared[o], replaced |-> inputs.version,
         finalized |-> finalize, occupied |-> inputs.occupied] \in Save
    BY DEF TypeOK, Save
  <2>2. saves' \in Seq(Save)
    BY <1>5, <2>1, AppendProperties DEF ApplySaves, TypeOK
  <2> QED BY <1>5, <2>2, FinishType DEF ApplySaves, TypeOK, TERMINAL
<1>6. ASSUME NEW o \in Ops, NEW finalize \in BOOLEAN, ApplyFails(o, finalize) PROVE TypeOK'
  BY <1>6, FinishType DEF ApplyFails, TypeOK, TERMINAL
<1>7. ASSUME NEW o \in Ops, CancelStep(o) \/ ShutdownOperation(o) PROVE TypeOK'
  <2>1. CASE CancelLooksUp(o)
    BY <2>1 DEF CancelLooksUp, TypeOK
  <2>2. CASE CancelLive(o)
    BY <2>2, FinishType DEF CancelLive, TypeOK, TERMINAL
  <2>3. CASE CancelReceipt(o)
    BY <2>3 DEF CancelReceipt, TypeOK, Phases, TERMINAL
  <2>4. CASE ShutdownOperation(o)
    BY <2>4, FinishType DEF ShutdownOperation, TypeOK, TERMINAL
  <2> QED BY <1>7, <2>1, <2>2, <2>3, <2>4 DEF CancelStep
<1>8. CASE ChangeInputs \/ BeginShutdown
  BY <1>8 DEF ChangeInputs, BeginShutdown, TypeOK
<1>9. CASE ProcessEnds \/ Restart
  <2>1. CASE ProcessEnds
    <3>1. << >> \in Seq(Message) OBVIOUS
    <3> QED BY <2>1, <3>1 DEF ProcessEnds, TypeOK
  <2>2. CASE Restart
    BY <2>2 DEF Restart, TypeOK, Phases, TERMINAL
  <2> QED BY <1>9, <2>1, <2>2
<1> QED
  BY <1>1, <1>2, <1>3, <1>4, <1>5, <1>6, <1>7, <1>8, <1>9 DEF Next

(* Every variable keeps its type.                                          *)
THEOREM TypesHold == Spec => []TypeOK
BY TypeAtFirst, TypeStep, PTL DEF Spec
-----------------------------------------------------------------------------
(* A step of one operation leaves the others as they are, and the server.  *)
StepOf(o) ==
  \/ StartStep(o) \/ RunStep(o) \/ WorkerStep(o) \/ DeadlinePasses(o) \/ CancelStep(o)
  \/ \E finalize \in BOOLEAN : ApplySaves(o, finalize) \/ ApplyFails(o, finalize)
  \/ ShutdownOperation(o)

SameFor(p) ==
  /\ phase'[p] = phase[p] /\ run'[p] = run[p] /\ worker'[p] = worker[p]
  /\ pipe'[p] = pipe[p] /\ got'[p] = got[p]
  /\ (starting' = p) = (starting = p) /\ (p \in registered') = (p \in registered)
  /\ (p \in discarded') = (p \in discarded) /\ (p \in sentFinal') = (p \in sentFinal)
  /\ (p \in overlooked') = (p \in overlooked)

LEMMA OthersStay ==
  ASSUME TypeOK, NEW o \in Ops, NEW p \in Ops, o # p, StepOf(o)
  PROVE  SameFor(p) /\ server' = server
<1> USE DEF receipts, memory, solver, process, Goto, Finish, Close
<1>1. ASSUME StartStep(o) PROVE SameFor(p) /\ server' = server
  BY <1>1, NoneAssumption
     DEF StartStep, StartCommit, StartRegister, StartThread, StartFails, SameFor, TypeOK
<1>2. ASSUME RunPrepare(o) \/ RunStops(o) \/ RunSpawn(o) \/ PollReceive(o)
      PROVE  SameFor(p) /\ server' = server
  BY <1>2 DEF RunPrepare, RunStops, RunSpawn, PollReceive, SameFor, TypeOK
<1>3. ASSUME PollDecide(o) \/ Conclude(o) \/ Check(o) \/ RunFails(o)
      PROVE  SameFor(p) /\ server' = server
  BY <1>3 DEF PollDecide, Conclude, Check, RunFails, SameFor, TypeOK
<1>4. ASSUME WorkerStep(o) \/ DeadlinePasses(o) PROVE SameFor(p) /\ server' = server
  <2>1. ASSUME NEW message, NEW next, WorkerSends(o, message, next)
        PROVE  pipe'[p] = pipe[p] /\ worker'[p] = worker[p]
    BY <2>1 DEF WorkerSends, TypeOK
  <2>2. CASE WorkerImproves(o) \/ WorkerAnswers(o)
    <3>1. \E message, next : WorkerSends(o, message, next)
      BY <2>2 DEF WorkerImproves, WorkerAnswers
    <3>2. pipe'[p] = pipe[p] /\ worker'[p] = worker[p]
      BY <2>1, <3>1
    <3> QED BY <2>2, <3>2 DEF WorkerImproves, WorkerAnswers, SameFor, TypeOK
  <2>3. CASE WorkerEnds(o) \/ DeadlinePasses(o)
    BY <2>3 DEF WorkerEnds, DeadlinePasses, SameFor, TypeOK
  <2> QED BY <1>4, <2>2, <2>3 DEF WorkerStep
<1>5. ASSUME CancelStep(o) \/ ShutdownOperation(o) PROVE SameFor(p) /\ server' = server
  BY <1>5 DEF CancelStep, CancelLooksUp, CancelLive, CancelReceipt, ShutdownOperation,
              SameFor, TypeOK
<1>6. ASSUME NEW finalize \in BOOLEAN, ApplySaves(o, finalize) \/ ApplyFails(o, finalize)
      PROVE  SameFor(p) /\ server' = server
  BY <1>6 DEF ApplySaves, ApplyFails, SameFor, TypeOK
<1> QED BY <1>1, <1>2, <1>3, <1>4, <1>5, <1>6 DEF StepOf, RunStep

LEMMA SameKeepsInv ==
  ASSUME NEW p \in Ops, OperationInv(p), SameFor(p), server' = server
  PROVE  OperationInv(p)'
BY DEF OperationInv, SameFor, NothingInMemory, StartPending, BeforeTheSolver, Unspawned,
       Worked, Resting, Ended, LockedIsLive, LockFree, Rested, AnswerKept, Final,
       WorkerReallyFailed, Alive, SolverNotStray, ReceiptNotOrphaned

(* The steps of a start request keep the invariant of its operation.       *)
LEMMA StartKeepsInv ==
  ASSUME TypeOK, NEW o \in Ops, OperationInv(o), StartStep(o)
  PROVE  OperationInv(o)'
<1> USE NoneAssumption
    DEF receipts, memory, solver, process, Goto, OperationInv, NothingInMemory, StartPending,
        BeforeTheSolver, Unspawned, Worked, Resting, Ended, LockedIsLive, LockFree, Rested,
        AnswerKept, Final, WorkerReallyFailed, Alive, SolverNotStray, ReceiptNotOrphaned,
        TERMINAL, Decidable
<1>1. CASE StartCommit(o)
  BY <1>1 DEF StartCommit, TypeOK
<1>2. CASE StartRegister(o)
  BY <1>2 DEF StartRegister
<1>3. CASE StartThread(o)
  BY <1>3 DEF StartThread, TypeOK
<1>4. CASE StartFails(o)
  BY <1>4 DEF StartFails, Finish, Close, TypeOK
<1> QED BY <1>1, <1>2, <1>3, <1>4 DEF StartStep

LEMMA RunBeforeSolverKeepsInv ==
  ASSUME TypeOK, NEW o \in Ops, OperationInv(o), RunPrepare(o) \/ RunStops(o) \/ RunSpawn(o)
  PROVE  OperationInv(o)'
<1> USE DEF receipts, memory, solver, process, Goto, OperationInv, NothingInMemory, StartPending,
        BeforeTheSolver, Unspawned, Worked, Resting, Ended, LockedIsLive, LockFree, Rested,
        AnswerKept, Final, WorkerReallyFailed, Alive, SolverNotStray, ReceiptNotOrphaned,
        TERMINAL, Decidable
<1>1. CASE RunPrepare(o)
  BY <1>1 DEF RunPrepare, TypeOK
<1>2. CASE RunStops(o)
  BY <1>2 DEF RunStops, Raising, TypeOK
<1>3. CASE RunSpawn(o)
  BY <1>3 DEF RunSpawn, TypeOK
<1> QED BY <1>1, <1>2, <1>3

(* An answer stays in what arrived before or after the first receive.      *)
LEMMA FinalInConcatenation ==
  ASSUME NEW s \in Seq(Message), NEW t \in Seq(Message), Final(s) \/ Final(t)
  PROVE  Final(s \o t)
<1>1. Len(s) \in Nat /\ Len(t) \in Nat
  BY LenProperties
<1>2. CASE Final(s)
  <2>1. PICK i \in 1..Len(s) : s[i].kind \in {"result", "timeout", "failed"}
    BY <1>2, LenProperties DEF Final
  <2>2. i \in DOMAIN (s \o t) /\ (s \o t)[i] = s[i]
    BY <1>1, ConcatProperties, LenProperties
  <2> QED BY <2>1, <2>2 DEF Final
<1>3. CASE Final(t)
  <2>1. PICK i \in 1..Len(t) : t[i].kind \in {"result", "timeout", "failed"}
    BY <1>3, LenProperties DEF Final
  <2>2. Len(s) + i \in DOMAIN (s \o t) /\ (s \o t)[Len(s) + i] = t[i]
    BY <1>1, ConcatProperties, LenProperties
  <2> QED BY <2>1, <2>2 DEF Final
<1> QED BY <1>2, <1>3

LEMMA PollDecideKeepsInv ==
  ASSUME TypeOK, NEW o \in Ops, OperationInv(o), PollDecide(o)
  PROVE  OperationInv(o)'
<1> USE DEF receipts, memory, solver, process, Goto
<1>1. /\ run[o] = "decide" /\ run'[o] = AfterPoll(o)
      /\ pipe'[o] = IF Alive(o) THEN pipe[o] ELSE << >>
  BY DEF PollDecide, TypeOK
<1>2. /\ phase'[o] = phase[o] /\ worker'[o] = worker[o]
      /\ UNCHANGED <<starting, registered, discarded, sentFinal, overlooked, server>>
  BY DEF PollDecide
<1>3. AfterPoll(o) \in {"raise_failed", "raise_worker_failed", "conclude", "poll"}
  BY ReceivedType
<1>4. ASSUME Final(Received(o)) PROVE AfterPoll(o) \in {"raise_failed", "conclude"}
  <2>1. Kinds(o) \cap {"result", "timeout", "failed"} # {}
    BY <1>4 DEF Final, Kinds
  <2> QED BY <2>1 DEF AfterPoll
<1>5. ASSUME o \in sentFinal, ~ Alive(o) PROVE Final(Received(o))
  <2>1. Final(got[o]) \/ Final(pipe[o])
    BY <1>1, <1>5 DEF OperationInv, AnswerKept
  <2> QED BY <1>5, <2>1, FinalInConcatenation DEF Received, TypeOK
<1>6. ASSUME o \in sentFinal, Alive(o), run'[o] = "poll" PROVE Final(pipe'[o])
  <2>1. Received(o) = got[o] /\ ~ Final(Received(o))
    BY <1>1, <1>4, <1>6 DEF Received
  <2>2. Final(pipe[o])
    BY <1>1, <1>6, <2>1 DEF OperationInv, AnswerKept
  <2> QED BY <1>1, <1>6, <2>2
<1>7. AnswerKept(o)'
  BY <1>1, <1>2, <1>3, <1>4, <1>5, <1>6 DEF AnswerKept
<1>8. WorkerReallyFailed(o)'
  <2>1. ASSUME run'[o] = "raise_worker_failed" PROVE ~ Alive(o) /\ o \notin sentFinal
    BY <1>1, <1>4, <1>5, <2>1 DEF AfterPoll
  <2>2. phase[o] # "worker_failed"
    BY <1>1 DEF OperationInv, Rested
  <2> QED BY <1>1, <1>2, <2>1, <2>2 DEF WorkerReallyFailed, Alive
<1> HIDE DEF receipts, memory, solver, process, Goto
<1> QED
  BY <1>1, <1>2, <1>3, <1>7, <1>8
     DEF OperationInv, NothingInMemory, StartPending, BeforeTheSolver, Unspawned, Worked, Resting,
         Ended, LockedIsLive, LockFree, Rested, Alive, SolverNotStray, ReceiptNotOrphaned

LEMMA RunAfterSolverKeepsInv ==
  ASSUME TypeOK, NEW o \in Ops, OperationInv(o),
         PollReceive(o) \/ Conclude(o) \/ Check(o) \/ RunFails(o)
  PROVE  OperationInv(o)'
<1> USE DEF receipts, memory, solver, process, Goto, OperationInv, NothingInMemory, StartPending,
        BeforeTheSolver, Unspawned, Worked, Resting, Ended, LockedIsLive, LockFree, Rested,
        AnswerKept, Final, WorkerReallyFailed, Alive, SolverNotStray, ReceiptNotOrphaned,
        TERMINAL, Decidable
<1>1. CASE PollReceive(o)
  BY <1>1 DEF PollReceive, TypeOK
<1>2. CASE Conclude(o)
  BY <1>2 DEF Conclude, Finish, Close, TypeOK
<1>3. CASE Check(o)
  BY <1>3 DEF Check, TypeOK
<1>4. CASE RunFails(o)
  BY <1>4 DEF RunFails, Finish, Close, Ending, Raising, TypeOK
<1> QED BY <1>1, <1>2, <1>3, <1>4

LEMMA FinalAfterAppend ==
  ASSUME NEW s \in Seq(Message), NEW m \in Message,
         Final(s) \/ m.kind \in {"result", "timeout", "failed"}
  PROVE  Final(Append(s, m))
<1>1. Len(s) \in Nat /\ DOMAIN s = 1..Len(s) /\ DOMAIN Append(s, m) = 1..(Len(s) + 1)
  BY LenProperties, AppendProperties
<1>2. Append(s, m)[Len(s) + 1] = m /\ \A i \in 1..Len(s) : Append(s, m)[i] = s[i]
  BY AppendProperties
<1>3. CASE Final(s)
  BY <1>1, <1>2, <1>3 DEF Final
<1>4. CASE m.kind \in {"result", "timeout", "failed"}
  BY <1>1, <1>2, <1>4 DEF Final
<1> QED BY <1>3, <1>4

LEMMA WorkerKeepsInv ==
  ASSUME TypeOK, NEW o \in Ops, OperationInv(o), WorkerStep(o) \/ DeadlinePasses(o)
  PROVE  OperationInv(o)'
<1> USE DEF receipts, memory, solver, process, Goto, OperationInv, NothingInMemory, StartPending,
        BeforeTheSolver, Unspawned, Worked, Resting, Ended, LockedIsLive, LockFree, Rested,
        AnswerKept, Final, WorkerReallyFailed, Alive, SolverNotStray, ReceiptNotOrphaned,
        TERMINAL, Decidable
<1>1. ASSUME NEW m \in Message, NEW next, WorkerSends(o, m, next)
      PROVE  /\ worker'[o] = next
             /\ Final(pipe[o]) \/ m.kind \in {"result", "timeout", "failed"} => Final(pipe'[o])
  <2>1. worker'[o] = next /\ pipe[o] \in Seq(Message) /\ pipe'[o] = Append(pipe[o], m)
    BY <1>1 DEF WorkerSends, TypeOK
  <2> QED BY <2>1, FinalAfterAppend
<1>2. CASE WorkerImproves(o) \/ WorkerAnswers(o)
  <2> HIDE DEF Final
  <2>1. PICK m \in Message, next \in {"improved", "answered"} :
          /\ WorkerSends(o, m, next)
          /\ o \in sentFinal' \ sentFinal => m.kind \in {"result", "timeout", "failed"}
    BY <1>2 DEF WorkerImproves, WorkerAnswers, Message, Candidates
  <2>2. /\ worker'[o] = next
        /\ Final(pipe[o]) \/ m.kind \in {"result", "timeout", "failed"} => Final(pipe'[o])
    BY <1>1, <2>1
  <2>3. UNCHANGED <<phase, run, starting, registered, discarded, got, overlooked, server>>
    BY <1>2 DEF WorkerImproves, WorkerAnswers
  <2> QED BY <1>2, <2>1, <2>2, <2>3 DEF WorkerImproves, WorkerAnswers
<1>3. CASE WorkerEnds(o)
  BY <1>3 DEF WorkerEnds, TypeOK
<1>4. CASE DeadlinePasses(o)
  BY <1>4 DEF DeadlinePasses
<1> QED BY <1>2, <1>3, <1>4 DEF WorkerStep

LEMMA RequestKeepsInv ==
  ASSUME TypeOK, NEW o \in Ops, OperationInv(o),
         \/ \E finalize \in BOOLEAN : ApplySaves(o, finalize) \/ ApplyFails(o, finalize)
         \/ CancelStep(o) \/ ShutdownOperation(o)
  PROVE  OperationInv(o)'
<1> USE DEF receipts, memory, solver, process, Goto, OperationInv, NothingInMemory, StartPending,
        BeforeTheSolver, Unspawned, Worked, Resting, Ended, LockedIsLive, LockFree, Rested,
        AnswerKept, Final, WorkerReallyFailed, Alive, SolverNotStray, ReceiptNotOrphaned,
        TERMINAL, Decidable
<1>1. ASSUME NEW finalize \in BOOLEAN, ApplySaves(o, finalize) PROVE OperationInv(o)'
  BY <1>1 DEF ApplySaves, Decision, Finish, Close, TypeOK
<1>2. ASSUME NEW finalize \in BOOLEAN, ApplyFails(o, finalize) PROVE OperationInv(o)'
  BY <1>2 DEF ApplyFails, Decision, Finish, Close, TypeOK
<1>3. CASE CancelLooksUp(o)
  BY <1>3 DEF CancelLooksUp
<1>4. CASE CancelLive(o)
  BY <1>4 DEF CancelLive, Finish, Close, TypeOK
<1>5. CASE CancelReceipt(o)
  BY <1>5, NoneAssumption DEF CancelReceipt, TypeOK
<1>6. CASE ShutdownOperation(o)
  BY <1>6 DEF ShutdownOperation, Finish, Close, TypeOK
<1> QED BY <1>1, <1>2, <1>3, <1>4, <1>5, <1>6 DEF CancelStep

LEMMA ServerKeepsInv ==
  ASSUME TypeOK, NEW o \in Ops, OperationInv(o),
         ChangeInputs \/ BeginShutdown \/ ProcessEnds \/ Restart
  PROVE  OperationInv(o)'
<1> USE DEF receipts, memory, solver, process, Goto, OperationInv, NothingInMemory, StartPending,
        BeforeTheSolver, Unspawned, Worked, Resting, Ended, LockedIsLive, LockFree, Rested,
        AnswerKept, Final, WorkerReallyFailed, Alive, SolverNotStray, ReceiptNotOrphaned,
        TERMINAL, Decidable
<1>1. CASE ChangeInputs
  BY <1>1 DEF ChangeInputs
<1>2. CASE BeginShutdown
  BY <1>2, NoneAssumption DEF BeginShutdown
<1>3. CASE ProcessEnds
  BY <1>3, NoneAssumption DEF ProcessEnds
<1>4. CASE Restart
  BY <1>4 DEF Restart, TypeOK
<1> QED BY <1>1, <1>2, <1>3, <1>4

LEMMA OperationsStep == TypeOK /\ OperationsInv /\ [Next]_vars => OperationsInv'
<1> SUFFICES ASSUME TypeOK, OperationsInv, [Next]_vars, NEW p \in Ops PROVE OperationInv(p)'
  BY DEF OperationsInv
<1>1. OperationInv(p)
  BY DEF OperationsInv
<1>2. CASE UNCHANGED vars
  <2>1. SameFor(p) /\ server' = server
    BY <1>2 DEF vars, SameFor
  <2> QED BY <1>1, <2>1, SameKeepsInv
<1>3. ASSUME NEW o \in Ops, StepOf(o) PROVE OperationInv(p)'
  <2>1. CASE o = p
    BY <1>1, <1>3, <2>1, StartKeepsInv, RunBeforeSolverKeepsInv, PollDecideKeepsInv,
       RunAfterSolverKeepsInv, WorkerKeepsInv, RequestKeepsInv DEF StepOf, RunStep
  <2>2. CASE o # p
    BY <1>1, <1>3, <2>2, OthersStay, SameKeepsInv
  <2> QED BY <2>1, <2>2
<1>4. CASE ChangeInputs \/ BeginShutdown \/ ProcessEnds \/ Restart
  BY <1>1, <1>4, ServerKeepsInv
<1> QED BY <1>2, <1>3, <1>4 DEF Next, StepOf
-----------------------------------------------------------------------------
(* What a step of an operation can still do to a receipt that has ended.   *)
LEMMA EndingStays ==
  ASSUME TypeOK, NEW o \in Ops, OperationInv(o), StepOf(o),
         Ended(o), o \notin overlooked, starting # o
  PROVE  phase'[o] = phase[o]
<1> USE DEF receipts, memory, solver, process, Ended
<1>1. o \in discarded \/ run[o] \in {"none", "done"}
  BY DEF OperationInv, Worked, Resting
<1>2. run[o] = "check" => o \notin discarded
  BY DEF OperationInv, LockedIsLive, LockFree
<1>3. CASE StartStep(o)
  BY <1>3 DEF StartStep, StartCommit, StartRegister, StartThread, StartFails, TERMINAL
<1>4. CASE RunPrepare(o) \/ RunStops(o) \/ RunSpawn(o) \/ PollReceive(o) \/ PollDecide(o)
  BY <1>1, <1>4 DEF RunPrepare, RunStops, RunSpawn, PollReceive, PollDecide
<1>5. CASE Conclude(o) \/ Check(o) \/ RunFails(o)
  BY <1>1, <1>2, <1>5 DEF Conclude, Check, RunFails, Raising
<1>6. CASE WorkerStep(o) \/ DeadlinePasses(o)
  BY <1>6 DEF WorkerStep, WorkerImproves, WorkerAnswers, WorkerEnds, DeadlinePasses
<1>7. CASE CancelStep(o) \/ ShutdownOperation(o)
  BY <1>7 DEF CancelStep, CancelLooksUp, CancelLive, CancelReceipt, ShutdownOperation, TypeOK
<1>8. ASSUME NEW finalize \in BOOLEAN, ApplySaves(o, finalize) \/ ApplyFails(o, finalize)
      PROVE  FALSE
  BY <1>8 DEF ApplySaves, ApplyFails, Decision, TERMINAL
<1> QED BY <1>3, <1>4, <1>5, <1>6, <1>7, <1>8 DEF StepOf, RunStep

LEMMA EndingsStandStep ==
  TypeOK /\ OperationsInv /\ [Next]_vars =>
    \A p \in Ops : Ended(p) /\ p \notin overlooked /\ starting # p => phase'[p] = phase[p]
<1> SUFFICES ASSUME TypeOK, OperationsInv, [Next]_vars, NEW p \in Ops,
                    Ended(p), p \notin overlooked, starting # p
             PROVE  phase'[p] = phase[p]
  OBVIOUS
<1>1. CASE UNCHANGED vars
  BY <1>1 DEF vars
<1>2. ASSUME NEW o \in Ops, StepOf(o) PROVE phase'[p] = phase[p]
  <2>1. CASE o = p
    BY <1>2, <2>1, EndingStays DEF OperationsInv
  <2>2. CASE o # p
    BY <1>2, <2>2, OthersStay DEF SameFor
  <2> QED BY <2>1, <2>2
<1>3. CASE ChangeInputs \/ BeginShutdown \/ ProcessEnds
  BY <1>3 DEF ChangeInputs, BeginShutdown, ProcessEnds, receipts
<1>4. CASE Restart
  BY <1>4 DEF Restart, TypeOK, Ended
<1> QED BY <1>1, <1>2, <1>3, <1>4 DEF Next, StepOf

(* Only an apply saves: no other step writes the phase saved, and none     *)
(* writes over it.                                                         *)
Saving == \E o \in Ops, finalize \in BOOLEAN : ApplySaves(o, finalize)

LEMMA SavedStays ==
  ASSUME TypeOK, NEW o \in Ops, OperationInv(o), StepOf(o),
         ~ \E finalize \in BOOLEAN : ApplySaves(o, finalize)
  PROVE  saves' = saves /\ (phase'[o] = "saved") = (phase[o] = "saved")
<1> USE DEF receipts, memory, solver, process, Finish, Close
<1>1. phase[o] = "saved" => starting # o /\ run[o] \in {"none", "done"}
  BY DEF OperationInv, StartPending, Rested
<1>2. CASE StartStep(o)
  BY <1>1, <1>2 DEF StartStep, StartCommit, StartRegister, StartThread, StartFails, TypeOK
<1>3. CASE RunPrepare(o) \/ RunStops(o) \/ RunSpawn(o) \/ PollReceive(o) \/ PollDecide(o)
  BY <1>1, <1>3 DEF RunPrepare, RunStops, RunSpawn, PollReceive, PollDecide, TypeOK
<1>4. CASE Conclude(o) \/ Check(o) \/ RunFails(o)
  BY <1>1, <1>4 DEF Conclude, Check, RunFails, Raising, Ending, Ended, TERMINAL, TypeOK
<1>5. CASE WorkerStep(o) \/ DeadlinePasses(o)
  BY <1>5 DEF WorkerStep, WorkerImproves, WorkerAnswers, WorkerEnds, DeadlinePasses
<1>6. CASE CancelStep(o) \/ ShutdownOperation(o)
  BY <1>6 DEF CancelStep, CancelLooksUp, CancelLive, CancelReceipt, ShutdownOperation, Ended,
              TERMINAL, TypeOK
<1>7. ASSUME NEW finalize \in BOOLEAN, ApplyFails(o, finalize)
      PROVE  saves' = saves /\ phase'[o] # "saved" /\ phase[o] # "saved"
  BY <1>7 DEF ApplyFails, Decision, TypeOK
<1> QED BY <1>2, <1>3, <1>4, <1>5, <1>6, <1>7 DEF StepOf, RunStep

LEMMA OnlyApplySaves ==
  ASSUME TypeOK, OperationsInv, [Next]_vars, ~ Saving
  PROVE  saves' = saves /\ \A p \in Ops : (phase'[p] = "saved") = (phase[p] = "saved")
<1>1. CASE UNCHANGED vars
  BY <1>1 DEF vars
<1>2. ASSUME NEW o \in Ops, StepOf(o)
      PROVE  saves' = saves /\ \A p \in Ops : (phase'[p] = "saved") = (phase[p] = "saved")
  <2>1. saves' = saves /\ (phase'[o] = "saved") = (phase[o] = "saved")
    BY <1>2, SavedStays DEF OperationsInv, Saving
  <2>2. \A p \in Ops \ {o} : phase'[p] = phase[p]
    BY <1>2, OthersStay DEF SameFor
  <2> QED BY <2>1, <2>2
<1>3. CASE ChangeInputs \/ BeginShutdown \/ ProcessEnds
  BY <1>3 DEF ChangeInputs, BeginShutdown, ProcessEnds, receipts
<1>4. CASE Restart
  BY <1>4 DEF Restart, TypeOK, Ended, TERMINAL
<1> QED BY <1>1, <1>2, <1>3, <1>4 DEF Next, StepOf

(* A save appends one record, over the inputs the operation was prepared   *)
(* from, for an operation that was not saved before.                       *)
LEMMA SavingAppends ==
  ASSUME TypeOK, NEW o \in Ops, NEW finalize \in BOOLEAN, ApplySaves(o, finalize)
  PROVE  \E s \in Save :
           /\ saves' = Append(saves, s) /\ s.op = o /\ s.based = s.replaced
           /\ s.finalized => ~ s.occupied
           /\ phase[o] # "saved" /\ phase' = [phase EXCEPT ![o] = "saved"]
<1> DEFINE s == [op |-> o, based |-> prepared[o], replaced |-> inputs.version,
                 finalized |-> finalize, occupied |-> inputs.occupied]
<1>1. s \in Save
  BY DEF TypeOK, Save
<1>2. saves' = Append(saves, s) /\ s.op = o /\ s.based = s.replaced
  BY DEF ApplySaves, Current
<1>3. s.finalized => ~ s.occupied
  BY DEF ApplySaves, NeedsAcceptance
<1>4. phase[o] # "saved" /\ phase' = [phase EXCEPT ![o] = "saved"]
  BY DEF ApplySaves, Decision, Finish
<1> QED BY <1>1, <1>2, <1>3, <1>4

LEMMA SavesStep ==
  /\ TypeOK /\ Inv /\ [Next]_vars => SavedOnceOverItsInputs'
  /\ TypeOK /\ Inv /\ [Next]_vars => FinalizationReplacesNothing'
<1> SUFFICES ASSUME TypeOK, Inv, [Next]_vars
             PROVE  SavedOnceOverItsInputs' /\ FinalizationReplacesNothing'
  OBVIOUS
<1>1. CASE ~ Saving
  <2>1. saves' = saves /\ \A p \in Ops : (phase'[p] = "saved") = (phase[p] = "saved")
    BY <1>1, OnlyApplySaves DEF Inv
  <2> QED BY <2>1 DEF Inv, SavedOnceOverItsInputs, FinalizationReplacesNothing
<1>2. CASE Saving
  <2>1. PICK o \in Ops, s \in Save :
          /\ saves' = Append(saves, s) /\ s.op = o /\ s.based = s.replaced
          /\ s.finalized => ~ s.occupied
          /\ phase[o] # "saved" /\ phase' = [phase EXCEPT ![o] = "saved"]
    BY <1>2, SavingAppends DEF Saving
  <2>2. saves \in Seq(Save) /\ Len(saves) \in Nat /\ DOMAIN saves = 1..Len(saves)
    BY LenProperties DEF TypeOK
  <2>3. /\ DOMAIN saves' = 1..(Len(saves) + 1) /\ saves'[Len(saves) + 1] = s
        /\ \A i \in 1..Len(saves) : saves'[i] = saves[i]
    BY <2>1, <2>2, AppendProperties
  <2>4. \A i \in DOMAIN saves : saves[i].op # o
    BY <2>1 DEF Inv, SavedOnceOverItsInputs
  <2>5. \A i \in DOMAIN saves' : saves'[i].based = saves'[i].replaced
    BY <2>1, <2>2, <2>3 DEF Inv, SavedOnceOverItsInputs
  <2>6. \A i, j \in DOMAIN saves' : saves'[i].op = saves'[j].op => i = j
    BY <2>1, <2>2, <2>3, <2>4 DEF Inv, SavedOnceOverItsInputs
  <2>7. \A p \in Ops : (\E i \in DOMAIN saves' : saves'[i].op = p) <=> phase'[p] = "saved"
    <3> SUFFICES ASSUME NEW p \in Ops
                 PROVE  (\E i \in DOMAIN saves' : saves'[i].op = p) <=> phase'[p] = "saved"
      OBVIOUS
    <3>1. (\E i \in DOMAIN saves : saves[i].op = p) <=> phase[p] = "saved"
      BY DEF Inv, SavedOnceOverItsInputs
    <3>2. phase'[p] = IF p = o THEN "saved" ELSE phase[p]
      BY <2>1 DEF TypeOK
    <3>3. CASE p = o
      BY <2>1, <2>2, <2>3, <3>2, <3>3
    <3>4. CASE p # o
      BY <2>1, <2>2, <2>3, <3>1, <3>2, <3>4
    <3> QED BY <3>3, <3>4
  <2>8. FinalizationReplacesNothing'
    BY <2>1, <2>2, <2>3 DEF Inv, FinalizationReplacesNothing
  <2> QED BY <2>5, <2>6, <2>7, <2>8 DEF SavedOnceOverItsInputs
<1> QED BY <1>1, <1>2
-----------------------------------------------------------------------------
LEMMA InvAtFirst == Init => Inv
<1> SUFFICES ASSUME Init PROVE Inv OBVIOUS
<1>1. OperationsInv
  BY NoneAssumption
     DEF Init, OperationsInv, OperationInv, NothingInMemory, StartPending, BeforeTheSolver,
         Unspawned, Worked,
         Resting, Ended, LockedIsLive, LockFree, Rested, AnswerKept, Final, WorkerReallyFailed,
         Alive, SolverNotStray, ReceiptNotOrphaned, TERMINAL, Decidable
<1>2. SavedOnceOverItsInputs /\ FinalizationReplacesNothing
  BY DEF Init, SavedOnceOverItsInputs, FinalizationReplacesNothing
<1> QED BY <1>1, <1>2 DEF Inv

THEOREM InvHolds == Spec => [](TypeOK /\ Inv)
<1>1. TypeOK /\ Inv /\ [Next]_vars => Inv'
  BY OperationsStep, SavesStep DEF Inv
<1> QED BY <1>1, TypeAtFirst, TypeStep, InvAtFirst, PTL DEF Spec

(* Whatever overlaps, an operation is saved at most once, over exactly the *)
(* planning data its candidate was computed from.                          *)
THEOREM SavesAreExact == Spec => []SavedOnceOverItsInputs
<1>1. Inv => SavedOnceOverItsInputs
  BY DEF Inv
<1> QED BY <1>1, InvHolds, PTL

(* An automatic finalization never replaces sessions that were saved.      *)
THEOREM FinalizationsOnlyFill == Spec => []FinalizationReplacesNothing
<1>1. Inv => FinalizationReplacesNothing
  BY DEF Inv
<1> QED BY <1>1, InvHolds, PTL

(* No solver outlives its operation or the server, and no receipt waits    *)
(* for a process that is gone.                                             *)
THEOREM NothingIsLeftBehind == Spec => []NothingLeftBehind
<1>1. Inv => NothingLeftBehind
  BY DEF Inv, OperationsInv, OperationInv, SolverNotStray, ReceiptNotOrphaned, NothingLeftBehind,
         NoStraySolver, NoOrphanReceipt
<1> QED BY <1>1, InvHolds, PTL

(* An answer that was sent is never reported as a failure of the worker.   *)
THEOREM AnswersArrive == Spec => []AnswerNeverLost
<1>1. Inv => AnswerNeverLost
  BY DEF Inv, OperationsInv, OperationInv, WorkerReallyFailed, AnswerNeverLost
<1> QED BY <1>1, InvHolds, PTL

(* An ending stands, but for the two races EndingsStand names.             *)
THEOREM EndingsAreFinal == Spec => EndingsStand
<1>1. TypeOK /\ Inv /\ [Next]_vars =>
        [\A o \in Ops : Ended(o) /\ o \notin overlooked /\ starting # o => phase'[o] = phase[o]]_vars
  BY EndingsStandStep DEF Inv
<1> QED BY <1>1, InvHolds, PTL DEF Spec, EndingsStand

-----------------------------------------------------------------------------
(* The catalogs: their tables, and what the requests hold.                 *)

RequestKinds == {"write", "link", "insert", "delete"}
Events == {"created", "used", "unlinked"}

(* What Request makes of the arguments the reading steps give it.          *)
IsRequest(q) ==
  /\ q = [kind |-> q.kind, target |-> q.target, copy |-> q.copy, active |-> q.active,
          value |-> q.value, links |-> q.links, chosen |-> q.chosen, since |-> q.since,
          periods |-> q.periods]
  /\ q.kind \in RequestKinds /\ q.target \in Records /\ q.active \in BOOLEAN
  /\ q.value \in ValuesOf(q.target)
  /\ IF q.kind = "insert" THEN q.copy = NoRow ELSE q.copy \in RowsOf(q.target)
  /\ q.kind = "insert" => q.target \in Courses \cup Periods
  /\ q.kind = "insert" /\ q.target \notin Courses => q.chosen = {}
  /\ q.kind = "link" => q.target \in Courses
  /\ q.chosen \subseteq Resources /\ q.since \subseteq Events

(* The tables and the requests.                                            *)
TypeInv ==
  /\ row = [r \in Records |-> row[r]]
  /\ \A r \in Records : row[r] \in RowsOf(r) \cup {NoRow}
  /\ eligible \in [Courses -> SUBSET Resources]
  /\ saved \in [Courses -> Draft \cup {NoRow}]
  /\ published \in SUBSET Published
  /\ request = [p \in Planners |-> request[p]]
  /\ \A p \in Planners : request[p] = Idle \/ IsRequest(request[p])

LEMMA TablesAreDisjoint ==
  /\ Courses \cap (Semesters \cup Cohorts \cup StudyTypes \cup Windows) = {}
  /\ Courses \cap (Resources \cup Periods \cup Holidays) = {}
  /\ Resources \cap (Academic \cup Periods \cup Holidays) = {}
  /\ Lecturers \cap Rooms = {}
  /\ Periods \cap (Academic \cup Holidays) = {}
  /\ Holidays \cap Academic = {}
  /\ Cohorts \cap (Semesters \cup StudyTypes \cup Windows) = {}
  /\ Semesters \cap (StudyTypes \cup Windows) = {}
  /\ StudyTypes \cap Windows = {}
  /\ NoRow \notin Records
<1> DEFINE T == Tables
<1>1. /\ T[1] = Semesters /\ T[2] = Cohorts /\ T[3] = StudyTypes /\ T[4] = Windows
      /\ T[5] = Courses /\ T[6] = Lecturers /\ T[7] = Rooms /\ T[8] = Periods /\ T[9] = Holidays
  BY DEF Tables
<1> HIDE DEF T
<1>2. \A i, j \in 1..9 : i # j => T[i] \cap T[j] = {}
  BY IdsAssumption DEF T
<1>3. /\ \A j \in {1, 2, 3, 4, 6, 7, 8, 9} : T[5] \cap T[j] = {}
      /\ \A j \in {1, 2, 3, 4, 5, 7, 8, 9} : T[6] \cap T[j] = {}
      /\ \A j \in {1, 2, 3, 4, 5, 6, 8, 9} : T[7] \cap T[j] = {}
      /\ \A j \in {1, 2, 3, 4, 5, 6, 7, 9} : T[8] \cap T[j] = {}
      /\ \A j \in {1, 2, 3, 4, 5, 6, 7, 8} : T[9] \cap T[j] = {}
      /\ \A j \in {1, 3, 4} : T[2] \cap T[j] = {}
      /\ \A j \in {3, 4} : T[1] \cap T[j] = {}
      /\ T[3] \cap T[4] = {}
  BY <1>2
<1>4. NoRow \notin Records BY IdsAssumption
<1> QED BY <1>1, <1>3, <1>4 DEF Resources, Academic

(* A request is pending exactly when it is one.                            *)
LEMMA PendingIsRequest ==
  ASSUME TypeInv, NEW p \in Planners
  PROVE  /\ request[p].kind \in RequestKinds <=> request[p] # Idle
         /\ request[p].kind # "idle" <=> request[p] # Idle
         /\ request[p] # Idle => IsRequest(request[p])
BY DEF TypeInv, IsRequest, RequestKinds, Idle
-----------------------------------------------------------------------------
(* What becomes of a request in a step of others.                          *)
Later(q, r) ==
  /\ IsRequest(q) /\ IsRequest(r)
  /\ r.kind = q.kind /\ r.target = q.target /\ r.copy = q.copy /\ r.links = q.links
  /\ r.periods = q.periods /\ q.since \subseteq r.since

(* The pending requests stay pending, or are answered.                     *)
Kept(requests) ==
  /\ requests = [p \in Planners |-> requests[p]]
  /\ \A p \in Planners : requests[p] = Idle \/ Later(request[p], requests[p])

(* They are told what happened to these records.                           *)
Told(requests, what, records) ==
  \A p \in Planners :
    requests[p] # Idle /\ requests[p].target \in records => what \in requests[p].since

LEMMA RequestsKept ==
  ASSUME TypeInv
  PROVE  /\ Kept(request)
         /\ \A p \in Planners : Kept(Answered(p)) /\ Answered(p)[p] = Idle
<1>1. \A p \in Planners : request[p] = Idle \/ IsRequest(request[p])
  BY DEF TypeInv
<1>2. \A p \in Planners : request[p] = Idle \/ Later(request[p], request[p])
  BY <1>1 DEF Later
<1>3. Kept(request)
  BY <1>2 DEF Kept, TypeInv
<1>4. ASSUME NEW p \in Planners PROVE Kept(Answered(p)) /\ Answered(p)[p] = Idle
  <2>1. Answered(p) = [k \in Planners |-> IF k = p THEN Idle ELSE request[k]]
    BY DEF Answered, TypeInv
  <2>2. \A k \in Planners : Answered(p)[k] = IF k = p THEN Idle ELSE request[k]
    BY <2>1
  <2>3. Answered(p) = [k \in Planners |-> Answered(p)[k]]
    BY <2>1
  <2> QED BY <2>2, <2>3, <1>2 DEF Kept
<1> QED BY <1>3, <1>4

LEMMA NotedKeeps ==
  ASSUME TypeInv, NEW requests, Kept(requests), NEW what \in Events, NEW records
  PROVE  /\ Kept(Noted(requests, what, records))
         /\ Told(Noted(requests, what, records), what, records)
         /\ \A p \in Planners : requests[p] = Idle => Noted(requests, what, records)[p] = Idle
         /\ \A e, rs : Told(requests, e, rs) => Told(Noted(requests, what, records), e, rs)
<1> DEFINE n == Noted(requests, what, records)
<1>1. ASSUME NEW p \in Planners, requests[p] = Idle PROVE n[p] = Idle
  BY <1>1 DEF Noted, Idle
<1>2. ASSUME NEW p \in Planners, requests[p] # Idle
      PROVE  /\ Later(request[p], n[p]) /\ n[p] # Idle /\ n[p].target = requests[p].target
             /\ requests[p].since \subseteq n[p].since
             /\ requests[p].target \in records => what \in n[p].since
  <2> DEFINE q == requests[p]
  <2>1. Later(request[p], q) /\ IsRequest(q) BY <1>2 DEF Kept, Later
  <2>2. q.kind # "idle" BY <2>1 DEF IsRequest, RequestKinds
  <2>3. CASE q.target \in records
    <3>1. n[p] = [q EXCEPT !.since = @ \cup {what}] BY <2>2, <2>3 DEF Noted
    <3>2. n[p] = [kind |-> q.kind, target |-> q.target, copy |-> q.copy, active |-> q.active,
                  value |-> q.value, links |-> q.links, chosen |-> q.chosen,
                  since |-> q.since \cup {what}, periods |-> q.periods]
      BY <3>1, <2>1 DEF IsRequest
    <3>3. /\ n[p].kind = q.kind /\ n[p].target = q.target /\ n[p].copy = q.copy
          /\ n[p].active = q.active /\ n[p].value = q.value /\ n[p].links = q.links
          /\ n[p].chosen = q.chosen /\ n[p].since = q.since \cup {what}
          /\ n[p].periods = q.periods
          /\ n[p] = [kind |-> n[p].kind, target |-> n[p].target, copy |-> n[p].copy,
                     active |-> n[p].active, value |-> n[p].value, links |-> n[p].links,
                     chosen |-> n[p].chosen, since |-> n[p].since, periods |-> n[p].periods]
      BY <3>2
    <3> HIDE DEF n, q
    <3>4. IsRequest(n[p]) BY <3>3, <2>1 DEF IsRequest
    <3>5. n[p] # Idle BY <3>4 DEF IsRequest, RequestKinds, Idle
    <3>6. Later(request[p], n[p]) BY <3>3, <3>4, <2>1 DEF Later
    <3> QED BY <3>3, <3>5, <3>6 DEF q, n
  <2>4. CASE q.target \notin records
    <3>1. n[p] = q BY <2>4 DEF Noted
    <3> QED BY <3>1, <2>1, <2>4, <1>2
  <2> QED BY <2>3, <2>4
<1>3. n = [p \in Planners |-> n[p]]
  BY DEF Noted
<1> HIDE DEF n
<1>4. Kept(n) BY <1>1, <1>2, <1>3 DEF Kept
<1>5. Told(n, what, records)
  BY <1>1, <1>2 DEF Told
<1>6. \A e, rs : Told(requests, e, rs) => Told(n, e, rs)
  BY <1>1, <1>2 DEF Told
<1> QED BY <1>1, <1>4, <1>5, <1>6 DEF n
-----------------------------------------------------------------------------
(* Reading steps leave a request with what they have read.                 *)
InUse(r) == InSaved(r) \/ InPublished(r) \/ \E c \in Listing(r) : Active(c)

(* A request that holds what is there, and deletes nothing in use.         *)
Fresh(q) ==
  /\ IsRequest(q) /\ q.since = {}
  /\ q.kind # "insert" => Exists(q.target) /\ q.copy = row[q.target]
  /\ q.target \in Courses /\ q.kind \in {"link", "delete"} => q.links = eligible[q.target]
  /\ q.kind = "delete" => ~ InUse(q.target)

LEMMA RequestFields ==
  ASSUME NEW kind \in RequestKinds, NEW r \in Records, NEW copy, NEW active \in BOOLEAN,
         NEW value \in ValuesOf(r), NEW links, NEW chosen \in SUBSET Resources,
         IF kind = "insert" THEN copy = NoRow ELSE copy \in RowsOf(r),
         kind = "insert" => r \in Courses \cup Periods,
         kind = "insert" /\ r \notin Courses => chosen = {},
         kind = "link" => r \in Courses
  PROVE  LET q == Request(kind, r, copy, active, value, links, chosen)
         IN  /\ IsRequest(q) /\ q.kind = kind /\ q.target = r /\ q.copy = copy
             /\ q.links = links /\ q.since = {}
<1> DEFINE q == Request(kind, r, copy, active, value, links, chosen)
<1>1. /\ q.kind = kind /\ q.target = r /\ q.copy = copy /\ q.active = active /\ q.value = value
      /\ q.links = links /\ q.chosen = chosen /\ q.since = {}
      /\ q = [kind |-> q.kind, target |-> q.target, copy |-> q.copy, active |-> q.active,
              value |-> q.value, links |-> q.links, chosen |-> q.chosen, since |-> q.since,
              periods |-> q.periods]
  BY DEF Request
<1> HIDE DEF q
<1>2. IsRequest(q)
  BY <1>1 DEF IsRequest
<1> QED BY <1>1, <1>2 DEF q

LEMMA ExistingRow ==
  ASSUME TypeInv, NEW r \in Records, Exists(r)
  PROVE  /\ row[r] \in RowsOf(r) /\ row[r].active \in BOOLEAN /\ row[r].revision \in Nat \ {0}
         /\ row[r].value \in ValuesOf(r)
BY DEF TypeInv, Exists, RowsOf

LEMMA OnlyTeachingIsUsed ==
  ASSUME TypeInv, NEW r \in Periods \cup Holidays
  PROVE  ~ InUse(r)
<1>1. ASSUME NEW c \in Courses, saved[c] # NoRow PROVE r \notin Mentions(c, saved[c])
  <2>1. saved[c] \in Draft BY <1>1 DEF TypeInv
  <2>2. Mentions(c, saved[c]) \subseteq Academic \cup Resources
    BY <2>1 DEF Mentions, Draft, Academic, Resources
  <2> QED BY <2>2, TablesAreDisjoint
<1>2. ASSUME NEW x \in published PROVE r \notin SnapshotMentions(x)
  <2>1. x \in Published BY <1>2 DEF TypeInv
  <2>2. /\ x.semester \in Semesters
        /\ \A c \in Courses : x.courses[c] # NoRow => x.courses[c] \in Captured
    BY <2>1 DEF Published
  <2>3. ASSUME NEW c \in Courses, x.courses[c] # NoRow
        PROVE  /\ x.courses[c].cohort \in Cohorts /\ x.courses[c].type \in StudyTypes
               /\ x.courses[c].draft # NoRow => /\ x.courses[c].draft.lecturer \in Lecturers
                                                /\ x.courses[c].draft.room \in Rooms
    BY <2>2, <2>3 DEF Captured, Draft
  <2>4. SnapshotMentions(x) \subseteq Academic \cup Resources
    BY <2>2, <2>3 DEF SnapshotMentions, Academic, Resources
  <2> QED BY <2>4, TablesAreDisjoint
<1>3. Listing(r) = {}
  BY TablesAreDisjoint DEF Listing, TypeInv
<1> QED BY <1>1, <1>2, <1>3 DEF InUse, InSaved, InPublished

LEMMA OnlyResourcesAreListed ==
  ASSUME TypeInv, NEW r, r \notin Resources
  PROVE  Listing(r) = {}
BY DEF Listing, TypeInv

LEMMA WriteIsFresh ==
  ASSUME TypeInv, NEW p \in Planners, NEW r \in Records, Exists(r), NEW active \in BOOLEAN,
         NEW value \in ValuesOf(r), Write(p, r, active, value)
  PROVE  \E q : Read(p, q) /\ Fresh(q)
<1> DEFINE q == Request("write", r, row[r], active, value, {}, {})
<1>1. /\ IsRequest(q) /\ q.kind = "write" /\ q.target = r /\ q.copy = row[r] /\ q.since = {}
  BY ExistingRow, RequestFields DEF RequestKinds
<1>2. Read(p, q) BY DEF Write
<1> HIDE DEF q
<1>3. Fresh(q) BY <1>1 DEF Fresh
<1> QED BY <1>2, <1>3

LEMMA DeleteIsFresh ==
  ASSUME TypeInv, NEW p \in Planners, NEW r \in Records, Exists(r), NEW active \in BOOLEAN,
         NEW links, r \in Courses => links = eligible[r], ~ InUse(r),
         Read(p, Request("delete", r, row[r], active, row[r].value, links, {}))
  PROVE  \E q : Read(p, q) /\ Fresh(q)
<1> DEFINE q == Request("delete", r, row[r], active, row[r].value, links, {})
<1>1. /\ IsRequest(q) /\ q.kind = "delete" /\ q.target = r /\ q.copy = row[r] /\ q.since = {}
      /\ q.links = links
  BY ExistingRow, RequestFields DEF RequestKinds
<1> HIDE DEF q
<1>2. Fresh(q) BY <1>1 DEF Fresh
<1> QED BY <1>2 DEF q

LEMMA InsertIsFresh ==
  ASSUME TypeInv, NEW p \in Planners, NEW r \in Courses \cup Periods, NEW value \in ValuesOf(r),
         NEW chosen \in SUBSET Resources, r \notin Courses => chosen = {},
         Read(p, Request("insert", r, NoRow, TRUE, value, {}, chosen))
  PROVE  \E q : Read(p, q) /\ Fresh(q)
<1> DEFINE q == Request("insert", r, NoRow, TRUE, value, {}, chosen)
<1>0. r \in Records BY DEF Records, Academic
<1>1. /\ IsRequest(q) /\ q.kind = "insert" /\ q.target = r /\ q.since = {}
  <2>1. ASSUME NEW kind \in RequestKinds, NEW copy, NEW active \in BOOLEAN,
             kind = "insert", copy = NoRow
        PROVE  LET k == Request(kind, r, copy, active, value, {}, chosen)
               IN  IsRequest(k) /\ k.kind = kind /\ k.target = r /\ k.since = {}
    <3>1. {} \in SUBSET Resources /\ (kind # "link") BY <2>1
    <3> QED BY <1>0, <2>1, <3>1, RequestFields
  <2>2. "insert" \in RequestKinds /\ TRUE \in BOOLEAN BY DEF RequestKinds
  <2> QED BY <2>1, <2>2
<1> HIDE DEF q
<1>2. Fresh(q) BY <1>1 DEF Fresh
<1> QED BY <1>2 DEF q

(* The reading steps.                                                      *)
Reads(p) ==
  \/ \E c \in Courses : CreateCourse(p, c) \/ ReplaceEligibility(p, c)
  \/ \E s \in Semesters : UpdateSemester(p, s)
  \/ \E r \in Records : Update(p, r) \/ Archive(p, r) \/ Reactivate(p, r)
                        \/ Delete(p, r) \/ Remove(p, r) \/ Reschedule(p, r) \/ Discard(p, r)
  \/ \E u \in Periods : CreatePeriod(p, u)

LEMMA ReadsAreFresh ==
  ASSUME TypeInv, NEW p \in Planners, Reads(p)
  PROVE  \E q : Read(p, q) /\ Fresh(q)
<1>1. ASSUME NEW c \in Courses, CreateCourse(p, c) PROVE \E q : Read(p, q) /\ Fresh(q)
  <2>1. PICK v \in CourseFacts, l \in Lecturers, m \in Rooms :
          Read(p, Request("insert", c, NoRow, TRUE, v, {}, {l, m}))
    BY <1>1 DEF CreateCourse
  <2>2. v \in ValuesOf(c) /\ {l, m} \in SUBSET Resources
    BY DEF ValuesOf, Resources
  <2> QED BY <2>1, <2>2, InsertIsFresh
<1>2. ASSUME NEW c \in Courses, ReplaceEligibility(p, c) PROVE \E q : Read(p, q) /\ Fresh(q)
  <2>1. PICK chosen \in SUBSET Resources :
          Read(p, Request("link", c, row[c], row[c].active, row[c].value, eligible[c], chosen))
    BY <1>2 DEF ReplaceEligibility
  <2> DEFINE q == Request("link", c, row[c], row[c].active, row[c].value, eligible[c], chosen)
  <2>2. c \in Records /\ Exists(c) BY <1>2 DEF ReplaceEligibility, Records, Academic
  <2>3. /\ IsRequest(q) /\ q.kind = "link" /\ q.target = c /\ q.copy = row[c] /\ q.since = {}
        /\ q.links = eligible[c]
    BY <2>2, ExistingRow, RequestFields DEF RequestKinds
  <2> HIDE DEF q
  <2>4. Fresh(q) BY <2>2, <2>3 DEF Fresh
  <2> QED BY <2>1, <2>4 DEF q
<1>3. ASSUME NEW s \in Semesters, UpdateSemester(p, s) PROVE \E q : Read(p, q) /\ Fresh(q)
  <2>1. s \in Records BY DEF Records, Academic
  <2>2. Exists(s) BY <1>3 DEF UpdateSemester
  <2>3. PICK v \in ValuesOf(s) : Write(p, s, row[s].active, v) BY <1>3 DEF UpdateSemester
  <2> QED BY <2>1, <2>2, <2>3, ExistingRow, WriteIsFresh
<1>4. ASSUME NEW r \in Records, Update(p, r) PROVE \E q : Read(p, q) /\ Fresh(q)
  <2>1. Exists(r) BY <1>4 DEF Update
  <2>2. PICK v \in IF r \in Windows THEN {row[r].value} ELSE ValuesOf(r) :
          Write(p, r, row[r].active, v)
    BY <1>4 DEF Update
  <2>3. v \in ValuesOf(r) /\ row[r].active \in BOOLEAN BY <2>1, ExistingRow
  <2> QED BY <2>1, <2>2, <2>3, WriteIsFresh
<1>5. ASSUME NEW r \in Records, Archive(p, r) \/ Reactivate(p, r)
      PROVE  \E q : Read(p, q) /\ Fresh(q)
  <2>1. Exists(r) /\ \E active \in BOOLEAN : Write(p, r, active, row[r].value)
    BY <1>5 DEF Archive, Reactivate
  <2>2. row[r].value \in ValuesOf(r) BY <2>1, ExistingRow
  <2> QED BY <2>1, <2>2, WriteIsFresh
<1>6. ASSUME NEW r \in Records, Delete(p, r) PROVE \E q : Read(p, q) /\ Fresh(q)
  <2>1. r \in Academic /\ Exists(r) /\ ~ InSchedules(r)
    BY <1>6 DEF Delete
  <2>2. Listing(r) = {} BY <2>1, TablesAreDisjoint, OnlyResourcesAreListed
  <2>3. ~ InUse(r) BY <2>1, <2>2 DEF InSchedules, InUse
  <2>4. Read(p, Request("delete", r, row[r], FALSE, row[r].value, Links(r), {}))
    BY <1>6 DEF Delete
  <2>5. r \in Courses => Links(r) = eligible[r] BY DEF Links
  <2> QED BY <2>1, <2>3, <2>4, <2>5, DeleteIsFresh
<1>7. ASSUME NEW r \in Records, Remove(p, r) PROVE \E q : Read(p, q) /\ Fresh(q)
  <2>1. r \in Resources /\ Exists(r) BY <1>7 DEF Remove
  <2>2. CASE InUse(r)
    <3>1. Write(p, r, FALSE, row[r].value) BY <1>7, <2>2 DEF Remove, InUse, InSchedules
    <3> QED BY <3>1, <2>1, ExistingRow, WriteIsFresh
  <2>3. CASE ~ InUse(r)
    <3>1. Read(p, Request("delete", r, row[r], FALSE, row[r].value, Links(r), {}))
      BY <1>7, <2>3 DEF Remove, InUse, InSchedules
    <3>2. r \in Courses => Links(r) = eligible[r] BY DEF Links
    <3> QED BY <2>1, <2>3, <3>1, <3>2, DeleteIsFresh
  <2> QED BY <2>2, <2>3
<1>8. ASSUME NEW r \in Records, Reschedule(p, r) PROVE \E q : Read(p, q) /\ Fresh(q)
  <2>1. Exists(r) BY <1>8 DEF Reschedule
  <2>2. PICK v \in ValuesOf(r) : Write(p, r, TRUE, v) BY <1>8 DEF Reschedule
  <2> QED BY <2>1, <2>2, WriteIsFresh
<1>9. ASSUME NEW r \in Records, Discard(p, r) PROVE \E q : Read(p, q) /\ Fresh(q)
  <2>1. r \in Periods \cup Holidays /\ Exists(r) BY <1>9 DEF Discard
  <2>2. Read(p, Request("delete", r, row[r], TRUE, row[r].value, {}, {}))
    BY <1>9 DEF Discard
  <2>3. ~ InUse(r) /\ r \notin Courses BY <2>1, OnlyTeachingIsUsed, TablesAreDisjoint
  <2> QED BY <2>1, <2>2, <2>3, DeleteIsFresh
<1>10. ASSUME NEW u \in Periods, CreatePeriod(p, u) PROVE \E q : Read(p, q) /\ Fresh(q)
  <2>1. PICK v \in ValuesOf(u) : Read(p, Request("insert", u, NoRow, TRUE, v, {}, {}))
    BY <1>10 DEF CreatePeriod
  <2>2. u \in Courses \cup Periods /\ {} \in SUBSET Resources OBVIOUS
  <2> QED BY <2>1, <2>2, InsertIsFresh
<1> QED BY <1>1, <1>2, <1>3, <1>4, <1>5, <1>6, <1>7, <1>8, <1>9, <1>10 DEF Reads
-----------------------------------------------------------------------------
(* What a step does to the rows, to their users and to the requests.       *)
RevisionsRise ==
  \A t \in Versioned : Exists(t)' =>
    \/ ~ Exists(t) /\ Told(request', "created", {t})
    \/ Exists(t) /\ row'[t].revision > row[t].revision
    \/ /\ Exists(t) /\ row'[t] = row[t]
       /\ t \in Courses => eligible'[t] = eligible[t] \/ Told(request', "unlinked", {t})
UsesAreTold ==
  \A t \in Records : InUse(t)' => InUse(t) \/ Told(request', "used", {t})
Step == TypeInv' /\ Kept(request') /\ RevisionsRise /\ UsesAreTold

(* No row goes.                                                            *)
RowsStay == \A r \in Records : Exists(r) => Exists(r)'

LEMMA RowsAreThere ==
  ASSUME NEW r \in Records, row'[r] \in RowsOf(r)
  PROVE  Exists(r)'
BY IdsAssumption DEF Exists

(* What a pending request knows: the revision of its copy is none of the   *)
(* future, and its target's as long as that has not changed; what it is to *)
(* delete is used by nothing it was not told of.                           *)
RequestInv(q) ==
  /\ q.kind # "insert" /\ q.target \in Versioned /\ "created" \notin q.since /\ Exists(q.target) =>
       /\ q.copy.revision <= row[q.target].revision
       /\ q.copy.revision = row[q.target].revision =>
            /\ row[q.target] = q.copy
            /\ q.target \in Courses /\ q.kind \in {"link", "delete"} /\ "unlinked" \notin q.since
               => eligible[q.target] = q.links
  /\ q.kind = "delete" /\ "used" \notin q.since => ~ InUse(q.target)
RequestsInv == \A p \in Planners : request[p] # Idle => RequestInv(request[p])

(* What such a step leaves of what a request knows.                        *)
LEMMA RequestStep ==
  ASSUME TypeInv, Step, NEW q, NEW r, RequestInv(q), Later(q, r),
         \A e : Told(request', e, {q.target}) => e \in r.since
  PROVE  RequestInv(r)'
<1> DEFINE t == q.target
<1>1. /\ r.kind = q.kind /\ r.target = t /\ r.copy = q.copy /\ r.links = q.links
      /\ q.since \subseteq r.since /\ t \in Records
      /\ q.kind # "insert" => q.copy.revision \in Nat \ {0}
  BY DEF Later, IsRequest, RowsOf
<1>2. ASSUME q.kind # "insert", t \in Versioned, "created" \notin r.since, Exists(t)'
      PROVE  /\ q.copy.revision <= row'[t].revision
             /\ q.copy.revision = row'[t].revision =>
                  /\ row'[t] = q.copy
                  /\ t \in Courses /\ q.kind \in {"link", "delete"} /\ "unlinked" \notin r.since
                     => eligible'[t] = q.links
  <2>1. Exists(t) BY <1>2 DEF Step, RevisionsRise
  <2>2. /\ q.copy.revision <= row[t].revision
        /\ q.copy.revision = row[t].revision =>
             /\ row[t] = q.copy
             /\ t \in Courses /\ q.kind \in {"link", "delete"} /\ "unlinked" \notin q.since
                => eligible[t] = q.links
    BY <2>1, <1>1, <1>2 DEF RequestInv
  <2>3. row[t].revision \in Nat /\ row'[t].revision \in Nat \ {0}
    <3>1. row[t] \in RowsOf(t) BY <1>1, <2>1 DEF TypeInv, Exists
    <3>2. row'[t] \in RowsOf(t)
      <4>1. \A x \in Records : row'[x] \in RowsOf(x) \cup {NoRow}
        BY DEF Step, TypeInv, RowsOf, ValuesOf
      <4> QED BY <4>1, <1>1, <1>2 DEF Exists
    <3> QED BY <3>1, <3>2 DEF RowsOf
  <2>4. CASE row'[t].revision > row[t].revision
    BY <1>1, <1>2, <2>2, <2>3, <2>4
  <2>5. CASE /\ row'[t] = row[t]
             /\ t \in Courses => eligible'[t] = eligible[t] \/ Told(request', "unlinked", {t})
    BY <1>1, <2>2, <2>5
  <2> QED BY <2>1, <2>4, <2>5, <1>2 DEF Step, RevisionsRise
<1>3. ASSUME q.kind = "delete", "used" \notin r.since PROVE ~ InUse(t)'
  <2>1. ~ InUse(t) BY <1>1, <1>3 DEF RequestInv
  <2> QED BY <1>1, <1>3, <2>1 DEF Step, UsesAreTold
<1> QED BY <1>1, <1>2, <1>3 DEF RequestInv

(* A step that tells what it does keeps what the requests know.            *)
LEMMA StepKeeps ==
  ASSUME TypeInv, RequestsInv, Step
  PROVE  RequestsInv'
<1> SUFFICES ASSUME NEW p \in Planners, request'[p] # Idle
             PROVE  RequestInv(request[p])'
  BY DEF RequestsInv, Idle
<1>1. Later(request[p], request'[p]) BY DEF Step, Kept
<1>2. RequestInv(request[p])
  BY <1>1 DEF Later, IsRequest, RequestKinds, Idle, RequestsInv
<1>3. \A e : Told(request', e, {request[p].target}) => e \in request'[p].since
  BY <1>1 DEF Told, Later
<1>4. \A r : r = request'[p] => RequestInv(r)'
  <2> SUFFICES ASSUME NEW r, r = request'[p] PROVE RequestInv(r)' OBVIOUS
  <2>1. PICK q : q = request[p] OBVIOUS
  <2> QED BY <1>1, <1>2, <1>3, <2>1, RequestStep
<1> QED BY <1>4 DEF RequestInv

LEMMA ReadKeeps ==
  ASSUME TypeInv, RequestsInv, NEW p \in Planners, NEW q, Read(p, q), Fresh(q)
  PROVE  TypeInv' /\ RequestsInv'
<1>1. /\ UNCHANGED <<row, eligible, saved, published>>
      /\ request' = [k \in Planners |-> IF k = p THEN q ELSE request[k]]
      /\ IsRequest(q) /\ q \notin {Idle}
  BY DEF Read, TypeInv, Fresh, IsRequest, RequestKinds, Idle
<1>2. \A k \in Planners : request'[k] = IF k = p THEN q ELSE request[k]
  BY <1>1
<1>3. RequestInv(q)
  <2>1. q.kind # "insert" => row[q.target].revision \in Nat \ {0}
    BY DEF Fresh, IsRequest, RowsOf
  <2> QED BY <2>1 DEF RequestInv, Fresh
<1>4. \A r : RequestInv(r) => RequestInv(r)'
  <2>1. ASSUME NEW r PROVE /\ Exists(r.target)' <=> Exists(r.target)
                           /\ InUse(r.target)' <=> InUse(r.target)
    BY <1>1 DEF Exists, InUse, InSaved, InPublished, Listing, Active
  <2> QED BY <1>1, <2>1 DEF RequestInv
<1>5. TypeInv'
  <2>1. \A k \in Planners : request'[k] = Idle \/ IsRequest(request'[k])
    BY <1>1, <1>2 DEF TypeInv
  <2>2. request' = [k \in Planners |-> request'[k]] BY <1>1
  <2> QED BY <1>1, <2>1, <2>2 DEF TypeInv, Idle
<1>6. ASSUME NEW k \in Planners, request'[k] # Idle PROVE RequestInv(request'[k])
  BY <1>2, <1>3, <1>6 DEF RequestsInv
<1>7. \A k \in Planners : \A r : r = request'[k] /\ r # Idle => RequestInv(r)'
  BY <1>4, <1>6
<1>8. \A k \in Planners : request'[k] # Idle => RequestInv(request[k])'
  BY <1>7 DEF RequestInv
<1> QED BY <1>5, <1>8 DEF RequestsInv, Idle
-----------------------------------------------------------------------------
(* The writing steps, from the types of the tables after them.             *)
TablesInv ==
  /\ row = [r \in Records |-> row[r]]
  /\ \A r \in Records : row[r] \in RowsOf(r) \cup {NoRow}
  /\ eligible \in [Courses -> SUBSET Resources]
  /\ saved \in [Courses -> Draft \cup {NoRow}]
  /\ published \in SUBSET Published

LEMMA KeptTypes ==
  ASSUME TypeInv, TablesInv', Kept(request')
  PROVE  TypeInv'
BY DEF TypeInv, TablesInv, Kept, Later, Idle

(* Without new drafts and snapshots a record comes into use when an active *)
(* course comes to list it.                                                *)
LEMMA UsesOfListings ==
  ASSUME TypeInv, UNCHANGED <<saved, published>>,
         \A t \in Records : \A c \in Courses : t \in eligible'[c] /\ Active(c)' =>
           (t \in eligible[c] /\ Active(c)) \/ Told(request', "used", {t})
  PROVE  UsesAreTold
<1> SUFFICES ASSUME NEW t \in Records, InUse(t)' PROVE InUse(t) \/ Told(request', "used", {t})
  BY DEF UsesAreTold
<1>1. CASE InSaved(t)' \/ InPublished(t)'
  BY <1>1 DEF InUse, InSaved, InPublished
<1>2. ASSUME NEW c \in Listing(t)', Active(c)' PROVE InUse(t) \/ Told(request', "used", {t})
  BY <1>2 DEF Listing, InUse
<1> QED BY <1>1, <1>2 DEF InUse

LEMMA ToldOfOne ==
  ASSUME NEW requests, NEW e, NEW records, Told(requests, e, records), NEW t \in records
  PROVE  Told(requests, e, {t})
BY DEF Told

LEMMA CoursesAreVersioned ==
  /\ Courses \subseteq Versioned /\ Versioned \subseteq Records /\ Courses \subseteq Records
BY DEF Versioned, Records, Academic

LEMMA MergedRow ==
  ASSUME TypeInv, NEW q, IsRequest(q), q.kind = "write", Found(q)
  PROVE  /\ Merged(q) \in RowsOf(q.target) /\ Merged(q).revision = q.copy.revision + 1
         /\ Merged(q).active => row[q.target].active \/ (q.active /\ ~ q.copy.active)
         /\ q.target \in Versioned => row[q.target].revision = q.copy.revision
         /\ q.copy.revision \in Nat /\ Exists(q.target) /\ row[q.target] \in RowsOf(q.target)
<1>1. /\ Exists(q.target) /\ q.target \in Records
      /\ q.target \in Versioned => row[q.target].revision = q.copy.revision
  BY DEF Found, IsRequest
<1>2. row[q.target] \in RowsOf(q.target) /\ q.copy \in RowsOf(q.target)
  BY <1>1, ExistingRow DEF IsRequest
<1>3. q.active \in BOOLEAN /\ q.value \in ValuesOf(q.target)
  BY DEF IsRequest
<1> DEFINE active == IF q.active = q.copy.active THEN row[q.target].active ELSE q.active
           value == IF q.value = q.copy.value THEN row[q.target].value ELSE q.value
<1>4. Merged(q) = [active |-> active, value |-> value, revision |-> q.copy.revision + 1]
  BY DEF Merged
<1>5. row[q.target].active \in BOOLEAN /\ q.copy.active \in BOOLEAN
  BY <1>2 DEF RowsOf
<1>6. active \in BOOLEAN /\ (active => row[q.target].active \/ (q.active /\ ~ q.copy.active))
  BY <1>3, <1>5, Zenon
<1>7. value \in ValuesOf(q.target) /\ q.copy.revision \in Nat /\ q.copy.revision + 1 \in Nat
  BY <1>2, <1>3 DEF RowsOf
<1> HIDE DEF active, value
<1>8. Merged(q).active = active /\ Merged(q).revision = q.copy.revision + 1
  BY <1>4
<1>9. Merged(q) \in RowsOf(q.target)
  BY <1>4, <1>6, <1>7 DEF RowsOf
<1> QED BY <1>1, <1>2, <1>6, <1>7, <1>8, <1>9, Zenon

LEMMA WriteSteps ==
  ASSUME TypeInv, NEW p \in Planners, CommitWrite(p)
  PROVE  Step /\ RowsStay
<1>0. PICK q : q = request[p]
  OBVIOUS
<1>1. q.kind = "write" /\ Found(q) /\ IsRequest(q)
  BY <1>0, PendingIsRequest DEF CommitWrite, RequestKinds
<1>2. /\ UNCHANGED <<saved, published>>
      /\ row' = RowsAfter(q)
      /\ eligible' = [c \in Courses |-> eligible[c] \ Outgrown(q, c)]
      /\ request' = IF q.target \in Courses /\ q.active /\ ~ q.copy.active
                    THEN Noted(Answered(p), "used", eligible[q.target]) ELSE Answered(p)
  BY <1>0 DEF CommitWrite
<1>3. /\ Merged(q) \in RowsOf(q.target) /\ Merged(q).revision = q.copy.revision + 1
      /\ Merged(q).active => row[q.target].active \/ (q.active /\ ~ q.copy.active)
      /\ q.target \in Versioned => row[q.target].revision = q.copy.revision
      /\ q.copy.revision \in Nat /\ Exists(q.target) /\ row[q.target] \in RowsOf(q.target)
  BY <1>1, MergedRow
<1>4. \A r \in Records : row'[r] =
        IF r = q.target THEN Merged(q)
        ELSE IF r \in Courses /\ Outgrown(q, r) # {}
        THEN [row[r] EXCEPT !.revision = @ + 1] ELSE row[r]
  BY <1>2 DEF RowsAfter
<1>5. \A c \in Courses :
        /\ eligible'[c] = eligible[c] \ Outgrown(q, c)
        /\ Outgrown(q, c) # {} => Exists(c)
  BY <1>2 DEF Outgrown
<1>6. \A r \in Records : Exists(r) =>
        /\ row[r] \in RowsOf(r)
        /\ [row[r] EXCEPT !.revision = @ + 1] \in RowsOf(r)
        /\ [row[r] EXCEPT !.revision = @ + 1].revision > row[r].revision
        /\ [row[r] EXCEPT !.revision = @ + 1].active = row[r].active
  BY ExistingRow DEF RowsOf
<1>7. TablesInv'
  <2>1. \A r \in Records : row'[r] \in RowsOf(r) \cup {NoRow}
    BY <1>3, <1>4, <1>5, <1>6 DEF TypeInv
  <2>2. row' = [r \in Records |-> row'[r]] BY <1>2 DEF RowsAfter
  <2>3. eligible' \in [Courses -> SUBSET Resources] BY <1>2 DEF TypeInv
  <2> QED BY <1>2, <2>1, <2>2, <2>3 DEF TypeInv, TablesInv
<1>8. Kept(request')
  BY <1>2, RequestsKept, NotedKeeps DEF Events
<1>9. RevisionsRise
  <2> SUFFICES ASSUME NEW t \in Versioned, Exists(t)'
               PROVE  \/ Exists(t) /\ row'[t].revision > row[t].revision
                      \/ /\ Exists(t) /\ row'[t] = row[t]
                         /\ t \in Courses => eligible'[t] = eligible[t]
    BY DEF RevisionsRise
  <2>1. t \in Records BY CoursesAreVersioned
  <2>2. CASE t = q.target
    <3>1. row'[t] = Merged(q) /\ row[t].revision = q.copy.revision BY <2>1, <2>2, <1>3, <1>4
    <3> QED BY <3>1, <2>2, <1>3
  <2>3. CASE t # q.target /\ t \in Courses /\ Outgrown(q, t) # {}
    BY <2>1, <2>3, <1>4, <1>5, <1>6
  <2>4. CASE t # q.target /\ ~ (t \in Courses /\ Outgrown(q, t) # {})
    <3>1. row'[t] = row[t] BY <2>1, <2>4, <1>4
    <3> QED BY <3>1, <2>4, <1>5 DEF Exists
  <2> QED BY <2>2, <2>3, <2>4
<1>10. UsesAreTold
  <2>1. ASSUME NEW t \in Records, NEW c \in Courses, t \in eligible'[c], Active(c)'
        PROVE  (t \in eligible[c] /\ Active(c)) \/ Told(request', "used", {t})
    <3>1. t \in eligible[c] BY <2>1, <1>5
    <3>2. c \in Records BY CoursesAreVersioned
    <3>3. CASE c # q.target
      <4>1. Exists(c) /\ row'[c].active = row[c].active
        BY <3>2, <3>3, <2>1, <1>4, <1>5, <1>6 DEF Active, Exists
      <4> QED BY <3>1, <4>1, <2>1 DEF Active
    <3>4. CASE c = q.target /\ row[c].active
      BY <3>1, <3>4, <1>3 DEF Active
    <3>5. CASE c = q.target /\ ~ row[c].active
      <4>1. q.active /\ ~ q.copy.active BY <3>2, <3>5, <2>1, <1>3, <1>4 DEF Active
      <4>2. request' = Noted(Answered(p), "used", eligible[c]) BY <4>1, <3>5, <1>2
      <4>3. Told(request', "used", eligible[c]) BY <4>2, RequestsKept, NotedKeeps DEF Events
      <4> QED BY <4>3, <3>1, ToldOfOne
    <3> QED BY <3>3, <3>4, <3>5
  <2> QED BY <2>1, <1>2, UsesOfListings
<1>11. ASSUME NEW r \in Records, Exists(r) PROVE row'[r] \in RowsOf(r)
  BY <1>3, <1>4, <1>6, <1>11
<1>12. RowsStay BY <1>11, RowsAreThere DEF RowsStay
<1> QED BY <1>7, <1>8, <1>9, <1>10, <1>12, KeptTypes DEF Step

LEMMA LinkSteps ==
  ASSUME TypeInv, NEW p \in Planners, CommitLink(p)
  PROVE  Step /\ RowsStay
<1> DEFINE q == request[p]
           k == q.target
           inserted == q.chosen \ q.links
<1>1. q.kind = "link" /\ Found(q) /\ IsRequest(q) /\ k \in Courses
  BY PendingIsRequest DEF CommitLink, RequestKinds, IsRequest
<1>2. /\ UNCHANGED <<saved, published>>
      /\ row' = [row EXCEPT ![k].revision = @ + 1]
      /\ eligible' = [eligible EXCEPT ![k] = (@ \cap q.chosen) \cup inserted]
      /\ request' = IF row[k].active THEN Noted(Answered(p), "used", inserted) ELSE Answered(p)
  BY DEF CommitLink
<1>3. k \in Records /\ Exists(k) /\ row[k] \in RowsOf(k) /\ inserted \subseteq Resources
  BY <1>1, CoursesAreVersioned, ExistingRow DEF Found, IsRequest
<1> HIDE DEF q, k, inserted
<1>4. \A r \in Records : row'[r] = IF r = k THEN [row[r] EXCEPT !.revision = @ + 1] ELSE row[r]
  BY <1>2, <1>3 DEF TypeInv
<1>5. /\ [row[k] EXCEPT !.revision = @ + 1] \in RowsOf(k)
      /\ [row[k] EXCEPT !.revision = @ + 1].revision > row[k].revision
      /\ [row[k] EXCEPT !.revision = @ + 1].active = row[k].active
  BY <1>3 DEF RowsOf
<1>6. \A c \in Courses : eligible'[c] =
        IF c = k THEN (eligible[c] \cap q.chosen) \cup inserted ELSE eligible[c]
  BY <1>1, <1>2 DEF TypeInv
<1>7. TablesInv'
  <2>1. \A r \in Records : row'[r] \in RowsOf(r) \cup {NoRow}
    BY <1>4, <1>5 DEF TypeInv
  <2>2. row' = [r \in Records |-> row'[r]]
    <3>1. DOMAIN row = Records BY DEF TypeInv
    <3> QED BY <1>2, <3>1
  <2>3. eligible' \in [Courses -> SUBSET Resources] BY <1>1, <1>2, <1>3 DEF TypeInv
  <2> QED BY <1>2, <2>1, <2>2, <2>3 DEF TypeInv, TablesInv
<1>8. Kept(request')
  BY <1>2, RequestsKept, NotedKeeps DEF Events
<1>9. RevisionsRise
  <2> SUFFICES ASSUME NEW t \in Versioned, Exists(t)'
               PROVE  \/ Exists(t) /\ row'[t].revision > row[t].revision
                      \/ /\ Exists(t) /\ row'[t] = row[t]
                         /\ t \in Courses => eligible'[t] = eligible[t]
    BY DEF RevisionsRise
  <2>1. t \in Records BY CoursesAreVersioned
  <2>2. CASE t = k BY <2>1, <2>2, <1>3, <1>4, <1>5
  <2>3. CASE t # k BY <2>1, <2>3, <1>4, <1>6 DEF Exists
  <2> QED BY <2>2, <2>3
<1>10. UsesAreTold
  <2>1. ASSUME NEW t \in Records, NEW c \in Courses, t \in eligible'[c], Active(c)'
        PROVE  (t \in eligible[c] /\ Active(c)) \/ Told(request', "used", {t})
    <3>1. c \in Records BY CoursesAreVersioned
    <3>2. Active(c) BY <2>1, <3>1, <1>3, <1>4, <1>5 DEF Active, Exists
    <3>3. CASE t \in eligible[c] BY <3>2, <3>3
    <3>4. CASE t \notin eligible[c]
      <4>1. c = k /\ t \in inserted BY <2>1, <3>4, <1>6
      <4>2. request' = Noted(Answered(p), "used", inserted) BY <4>1, <3>2, <1>2 DEF Active
      <4>3. Told(request', "used", inserted) BY <4>2, RequestsKept, NotedKeeps DEF Events
      <4> QED BY <4>1, <4>3, ToldOfOne
    <3> QED BY <3>3, <3>4
  <2> QED BY <2>1, <1>2, UsesOfListings
<1>11. ASSUME NEW r \in Records, Exists(r) PROVE row'[r] \in RowsOf(r)
  BY <1>4, <1>5, <1>11, ExistingRow
<1>12. RowsStay BY <1>11, RowsAreThere DEF RowsStay
<1> QED BY <1>7, <1>8, <1>9, <1>10, <1>12, KeptTypes DEF Step

LEMMA InsertSteps ==
  ASSUME TypeInv, NEW p \in Planners, CommitInsert(p)
  PROVE  Step /\ RowsStay
<1> DEFINE q == request[p]
           k == q.target
<1>1. /\ q.kind = "insert" /\ ~ Exists(k) /\ IsRequest(q) /\ k \in Records
      /\ k \notin Courses => q.chosen = {}
      /\ q.chosen \subseteq Resources /\ q.value \in ValuesOf(k)
  BY PendingIsRequest DEF CommitInsert, RequestKinds, IsRequest
<1>2. /\ UNCHANGED <<saved, published>>
      /\ row' = [row EXCEPT ![k] = NewRow(q.value)]
      /\ eligible' = [eligible EXCEPT ![k] = q.chosen]
      /\ request' = Noted(Noted(Answered(p), "created", {k}), "used", q.chosen)
  BY DEF CommitInsert
<1> HIDE DEF q, k
<1>3. NewRow(q.value) \in RowsOf(k)
  BY <1>1 DEF NewRow, RowsOf
<1>4. \A r \in Records : row'[r] = IF r = k THEN NewRow(q.value) ELSE row[r]
  BY <1>1, <1>2 DEF TypeInv
<1>5. \A c \in Courses : eligible'[c] = IF c = k THEN q.chosen ELSE eligible[c]
  BY <1>2 DEF TypeInv
<1>6. TablesInv'
  <2>1. \A r \in Records : row'[r] \in RowsOf(r) \cup {NoRow}
    BY <1>3, <1>4 DEF TypeInv
  <2>2. row' = [r \in Records |-> row'[r]]
    <3>1. DOMAIN row = Records BY DEF TypeInv
    <3> QED BY <1>2, <3>1
  <2>3. eligible' \in [Courses -> SUBSET Resources] BY <1>1, <1>2 DEF TypeInv
  <2> QED BY <1>2, <2>1, <2>2, <2>3 DEF TypeInv, TablesInv
<1> DEFINE created == Noted(Answered(p), "created", {k})
<1>7. Kept(created) /\ Told(created, "created", {k})
  BY RequestsKept, NotedKeeps DEF Events
<1>8. request' = Noted(created, "used", q.chosen)
  BY <1>2
<1> HIDE DEF created
<1>9. /\ Kept(request') /\ Told(request', "created", {k}) /\ Told(request', "used", q.chosen)
  BY <1>7, <1>8, NotedKeeps DEF Events
<1>10. RevisionsRise
  <2> SUFFICES ASSUME NEW t \in Versioned, Exists(t)'
               PROVE  \/ ~ Exists(t) /\ Told(request', "created", {t})
                      \/ /\ Exists(t) /\ row'[t] = row[t]
                         /\ t \in Courses => eligible'[t] = eligible[t]
    BY DEF RevisionsRise
  <2>1. t \in Records BY CoursesAreVersioned
  <2>2. CASE t = k BY <2>2, <1>1, <1>9
  <2>3. CASE t # k BY <2>1, <2>3, <1>4, <1>5 DEF Exists
  <2> QED BY <2>2, <2>3
<1>11. UsesAreTold
  <2>1. ASSUME NEW t \in Records, NEW c \in Courses, t \in eligible'[c], Active(c)'
        PROVE  (t \in eligible[c] /\ Active(c)) \/ Told(request', "used", {t})
    <3>1. c \in Records BY CoursesAreVersioned
    <3>2. CASE c = k
      <4>1. t \in q.chosen BY <2>1, <3>2, <1>5
      <4> QED BY <4>1, <1>9, ToldOfOne
    <3>3. CASE c # k
      BY <2>1, <3>1, <3>3, <1>4, <1>5 DEF Active, Exists
    <3> QED BY <3>2, <3>3
  <2> QED BY <2>1, <1>2, UsesOfListings
<1>12. RowsStay
  <2>1. ASSUME NEW r \in Records, Exists(r) PROVE row'[r] = row[r] BY <2>1, <1>1, <1>4
  <2> QED BY <2>1 DEF RowsStay, Exists
<1> QED BY <1>6, <1>9, <1>10, <1>11, <1>12, KeptTypes DEF Step

LEMMA DeleteSteps ==
  ASSUME TypeInv, NEW p \in Planners, CommitDelete(p)
  PROVE  Step
<1> DEFINE q == request[p]
           k == q.target
           gone == {k} \cup PeriodsOf(k)
<1>1. /\ UNCHANGED <<saved, published>>
      /\ row' = [r \in Records |-> IF r \in gone THEN NoRow ELSE row[r]]
      /\ eligible' = [c \in Courses |-> IF c = k THEN {} ELSE eligible[c] \ {k}]
      /\ request' = Noted(Answered(p), "unlinked", Links(k) \cap Courses)
  BY DEF CommitDelete
<1>2. k \in gone
  OBVIOUS
<1> HIDE DEF q, k, gone
<1>3. \A r \in Records : row'[r] = IF r \in gone THEN NoRow ELSE row[r]
  BY <1>1
<1>4. \A c \in Courses : eligible'[c] = IF c = k THEN {} ELSE eligible[c] \ {k}
  BY <1>1
<1>5. TablesInv'
  <2>1. \A r \in Records : row'[r] \in RowsOf(r) \cup {NoRow}
    BY <1>3 DEF TypeInv
  <2>2. row' = [r \in Records |-> row'[r]] BY <1>1
  <2>3. eligible' \in [Courses -> SUBSET Resources] BY <1>1 DEF TypeInv
  <2> QED BY <1>1, <2>1, <2>2, <2>3 DEF TypeInv, TablesInv
<1>6. Kept(request') /\ Told(request', "unlinked", Links(k) \cap Courses)
  BY <1>1, RequestsKept, NotedKeeps DEF Events
<1>7. RevisionsRise
  <2> SUFFICES ASSUME NEW t \in Versioned, Exists(t)'
               PROVE  /\ Exists(t) /\ row'[t] = row[t]
                      /\ t \in Courses => eligible'[t] = eligible[t] \/ Told(request', "unlinked", {t})
    BY DEF RevisionsRise
  <2>1. t \in Records BY CoursesAreVersioned
  <2>2. t \notin gone /\ row'[t] = row[t] /\ t # k BY <2>1, <1>2, <1>3 DEF Exists
  <2>3. Exists(t) BY <2>2 DEF Exists
  <2>4. ASSUME t \in Courses, k \in eligible[t] PROVE Told(request', "unlinked", {t})
    <3>1. k \in Resources BY <2>4 DEF TypeInv
    <3>2. t \in Links(k) \cap Courses BY <2>4, <3>1, TablesAreDisjoint DEF Links, Listing
    <3> QED BY <3>2, <1>6, ToldOfOne
  <2>5. ASSUME t \in Courses, k \notin eligible[t] PROVE eligible'[t] = eligible[t]
    BY <2>2, <2>5, <1>4
  <2> QED BY <2>2, <2>3, <2>4, <2>5
<1>8. UsesAreTold
  <2>1. ASSUME NEW t \in Records, NEW c \in Courses, t \in eligible'[c], Active(c)'
        PROVE  t \in eligible[c] /\ Active(c)
    <3>1. c \in Records BY CoursesAreVersioned
    <3> QED BY <2>1, <3>1, <1>3, <1>4 DEF Active, Exists
  <2> QED BY <2>1, <1>1, UsesOfListings
<1> QED BY <1>5, <1>6, <1>7, <1>8, KeptTypes DEF Step

LEMMA RefusedSteps ==
  ASSUME TypeInv, NEW p \in Planners, Refused(p)
  PROVE  Step
<1>1. UNCHANGED <<row, eligible, saved, published>> /\ Kept(request')
  BY RequestsKept DEF Refused
<1>2. RevisionsRise
  BY <1>1 DEF RevisionsRise, Exists
<1>3. UsesAreTold
  BY <1>1, UsesOfListings DEF Active, Exists
<1> QED BY <1>1, <1>2, <1>3, KeptTypes DEF Step, TypeInv, TablesInv

LEMMA CreateSteps ==
  ASSUME TypeInv, NEW k \in Records, Create(k)
  PROVE  Step /\ RowsStay
<1>1. /\ k \notin Courses /\ ~ Exists(k)
      /\ UNCHANGED <<eligible, saved, published>>
      /\ request' = Noted(request, "created", {k})
  BY DEF Create
<1>2. PICK v \in ValuesOf(k) : row' = [row EXCEPT ![k] = NewRow(v)]
  BY DEF Create
<1>3. \A r \in Records : row'[r] = IF r = k THEN NewRow(v) ELSE row[r]
  BY <1>2 DEF TypeInv
<1>4. TablesInv'
  <2>1. NewRow(v) \in RowsOf(k) BY DEF NewRow, RowsOf
  <2>2. \A r \in Records : row'[r] \in RowsOf(r) \cup {NoRow}
    BY <1>3, <2>1 DEF TypeInv
  <2>3. row' = [r \in Records |-> row'[r]]
    <3>1. DOMAIN row = Records BY DEF TypeInv
    <3> QED BY <1>2, <3>1
  <2> QED BY <1>1, <2>2, <2>3 DEF TypeInv, TablesInv
<1>5. Kept(request') /\ Told(request', "created", {k})
  BY <1>1, RequestsKept, NotedKeeps DEF Events
<1>6. RevisionsRise
  <2> SUFFICES ASSUME NEW t \in Versioned, Exists(t)'
               PROVE  \/ ~ Exists(t) /\ Told(request', "created", {t})
                      \/ Exists(t) /\ row'[t] = row[t] /\ eligible'[t] = eligible[t]
    BY DEF RevisionsRise
  <2>1. t \in Records BY CoursesAreVersioned
  <2> QED BY <2>1, <1>1, <1>3, <1>5 DEF Exists
<1>7. UsesAreTold
  <2>1. ASSUME NEW t \in Records, NEW c \in Courses, t \in eligible'[c], Active(c)'
        PROVE  t \in eligible[c] /\ Active(c)
    <3>1. c \in Records BY CoursesAreVersioned
    <3> QED BY <2>1, <3>1, <1>1, <1>3 DEF Active, Exists
  <2> QED BY <2>1, <1>1, UsesOfListings
<1>8. RowsStay
  <2>1. ASSUME NEW r \in Records, Exists(r) PROVE row'[r] = row[r] BY <2>1, <1>1, <1>3
  <2> QED BY <2>1 DEF RowsStay, Exists
<1> QED BY <1>4, <1>5, <1>6, <1>7, <1>8, KeptTypes DEF Step
-----------------------------------------------------------------------------
(* The steps of the schedules: the catalogs stay, and whatever the drafts  *)
(* and snapshots come to use is told.                                      *)
LEMMA ScheduleSteps ==
  ASSUME TypeInv, UNCHANGED <<row, eligible>>, Kept(request'),
         saved' \in [Courses -> Draft \cup {NoRow}], published' \in SUBSET Published,
         \A t \in Records : InSaved(t)' \/ InPublished(t)' =>
           InSaved(t) \/ InPublished(t) \/ Told(request', "used", {t})
  PROVE  Step
<1>1. TypeInv'
  <2>1. TablesInv' BY DEF TypeInv, TablesInv
  <2> QED BY <2>1, KeptTypes
<1>2. RevisionsRise
  BY DEF RevisionsRise, Exists
<1>3. ASSUME NEW t \in Records, InUse(t)' PROVE InUse(t) \/ Told(request', "used", {t})
  <2>1. CASE InSaved(t)' \/ InPublished(t)' BY <2>1 DEF InUse
  <2>2. CASE ~ (InSaved(t)' \/ InPublished(t)')
    <3>1. PICK c \in Courses : t \in eligible'[c] /\ Active(c)' BY <1>3, <2>2 DEF InUse, Listing
    <3> QED BY <3>1 DEF InUse, Listing, Active, Exists
  <2> QED BY <2>1, <2>2
<1> QED BY <1>1, <1>2, <1>3 DEF Step, UsesAreTold

(* One draft changes or is new.                                            *)
LEMMA DraftStep ==
  ASSUME TypeInv, NEW c \in Courses, NEW draft \in Draft,
         saved' = [saved EXCEPT ![c] = draft],
         request' = Noted(request, "used", Mentions(c, draft)),
         UNCHANGED <<row, eligible, published>>
  PROVE  Step
<1>1. Kept(request') /\ Told(request', "used", Mentions(c, draft))
  BY RequestsKept, NotedKeeps DEF Events
<1>2. saved' \in [Courses -> Draft \cup {NoRow}]
  BY DEF TypeInv
<1>3. \A k \in Courses : saved'[k] = IF k = c THEN draft ELSE saved[k]
  BY DEF TypeInv
<1>4. ASSUME NEW t \in Records, InSaved(t)' PROVE InSaved(t) \/ Told(request', "used", {t})
  <2>1. PICK k \in Courses : saved'[k] # NoRow /\ t \in Mentions(k, saved'[k])
    BY <1>4 DEF InSaved, Mentions
  <2>2. CASE k = c
    <3>1. t \in Mentions(c, draft) BY <2>1, <2>2, <1>3
    <3> QED BY <3>1, <1>1, ToldOfOne
  <2>3. CASE k # c BY <2>1, <2>3, <1>3 DEF InSaved
  <2> QED BY <2>2, <2>3
<1>5. \A t : InPublished(t)' => InPublished(t)
  BY DEF InPublished, SnapshotMentions
<1>6. published' \in SUBSET Published BY DEF TypeInv
<1> QED BY <1>1, <1>2, <1>4, <1>5, <1>6, ScheduleSteps

LEMMA LastDay ==
  ASSUME TypeInv, NEW s \in Semesters, Exists(s)
  PROVE  row[s].value.size \in Days
<1>1. s \in Records /\ s \notin Courses \cup Windows \cup Periods
  BY TablesAreDisjoint DEF Records, Academic
<1>2. row[s].value \in ValuesOf(s) BY <1>1, ExistingRow
<1>3. ValuesOf(s) = {Value(NoRow, NoRow, x) : x \in Days}
  BY <1>1 DEF ValuesOf
<1> QED BY <1>2, <1>3 DEF Value

LEMMA CourseRow ==
  ASSUME TypeInv, NEW c \in Courses, Exists(c)
  PROVE  row[c].value.cohort \in Cohorts /\ row[c].value.type \in StudyTypes
<1>1. row[c].value \in ValuesOf(c) BY CoursesAreVersioned, ExistingRow
<1> QED BY <1>1 DEF ValuesOf, CourseFacts

LEMMA SaveDraftSteps ==
  ASSUME TypeInv, NEW c \in Courses, SaveDraft(c)
  PROVE  Step
<1>1. PICK s \in Semesters, l \in Lecturers, m \in Rooms, d \in Days :
        LET draft == [semester |-> s, cohort |-> row[c].value.cohort, type |-> row[c].value.type,
                      until |-> row[s].value.size, day |-> d, lecturer |-> l, room |-> m]
        IN  /\ Exists(s)
            /\ saved' = [saved EXCEPT ![c] = draft]
            /\ request' = Noted(request, "used", Mentions(c, draft))
  BY DEF SaveDraft
<1>2. Exists(c) /\ UNCHANGED <<row, eligible, published>>
  BY DEF SaveDraft
<1>3. row[c].value.cohort \in Cohorts /\ row[c].value.type \in StudyTypes
  BY <1>2, CourseRow
<1>4. row[s].value.size \in Days
  BY <1>1, LastDay
<1>5. PICK draft :
        /\ draft = [semester |-> s, cohort |-> row[c].value.cohort, type |-> row[c].value.type,
                    until |-> row[s].value.size, day |-> d, lecturer |-> l, room |-> m]
        /\ saved' = [saved EXCEPT ![c] = draft]
        /\ request' = Noted(request, "used", Mentions(c, draft))
  BY <1>1
<1>6. draft \in Draft
  BY <1>3, <1>4, <1>5 DEF Draft
<1> QED BY <1>2, <1>5, <1>6, DraftStep

LEMMA EditDraftSteps ==
  ASSUME TypeInv, NEW c \in Courses, EditDraft(c)
  PROVE  Step
<1>1. PICK l \in Lecturers, m \in Rooms, d \in Days :
        LET draft == [saved[c] EXCEPT !.lecturer = l, !.room = m, !.day = d]
        IN  /\ saved' = [saved EXCEPT ![c] = draft]
            /\ request' = Noted(request, "used", Mentions(c, draft))
  BY DEF EditDraft
<1>2. PICK draft :
        /\ draft = [saved[c] EXCEPT !.lecturer = l, !.room = m, !.day = d]
        /\ saved' = [saved EXCEPT ![c] = draft]
        /\ request' = Noted(request, "used", Mentions(c, draft))
  BY <1>1
<1>3. saved[c] \in Draft /\ UNCHANGED <<row, eligible, published>>
  BY DEF EditDraft, TypeInv
<1>4. draft \in Draft
  BY <1>2, <1>3 DEF Draft
<1> QED BY <1>2, <1>3, <1>4, DraftStep

LEMMA ClearDraftSteps ==
  ASSUME TypeInv, NEW c \in Courses, ClearDraft(c)
  PROVE  Step
<1>1. /\ saved' = [saved EXCEPT ![c] = NoRow]
      /\ UNCHANGED <<row, eligible, published, request>>
  BY DEF ClearDraft
<1>2. \A k \in Courses : saved'[k] # NoRow => saved'[k] = saved[k]
  BY <1>1 DEF TypeInv
<1>3. saved' \in [Courses -> Draft \cup {NoRow}] /\ published' \in SUBSET Published
  BY <1>1 DEF TypeInv
<1>4. \A t : InSaved(t)' => InSaved(t)
  BY <1>2 DEF InSaved, Mentions
<1>5. \A t : InPublished(t)' => InPublished(t)
  BY <1>1 DEF InPublished, SnapshotMentions
<1>6. Kept(request') BY <1>1, RequestsKept DEF Kept, Later
<1> QED BY <1>1, <1>3, <1>4, <1>5, <1>6, ScheduleSteps

LEMMA PublishSteps ==
  ASSUME TypeInv, NEW s \in Semesters, Publish(s)
  PROVE  Step
<1> DEFINE Part(c) == Exists(c) /\ (row[c].value.semester = s \/ HasDraft(c, s))
           part(c) == [cohort |-> row[c].value.cohort, type |-> row[c].value.type,
                       draft |-> IF HasDraft(c, s) THEN saved[c] ELSE NoRow]
<1>1. PICK snapshot :
        /\ snapshot = [semester |-> s, until |-> row[s].value.size,
                       courses |-> [c \in Courses |-> IF Part(c) THEN part(c) ELSE NoRow]]
        /\ published' = published \cup {snapshot}
        /\ request' = Noted(request, "used", SnapshotMentions(snapshot))
  BY DEF Publish
<1>2. Exists(s) /\ UNCHANGED <<row, eligible, saved>>
  BY DEF Publish
<1>3. ASSUME NEW c \in Courses, Exists(c) PROVE part(c) \in Captured
  <2>1. row[c].value.cohort \in Cohorts /\ row[c].value.type \in StudyTypes BY <1>3, CourseRow
  <2>2. saved[c] \in Draft \cup {NoRow} BY DEF TypeInv
  <2> QED BY <2>1, <2>2 DEF Captured
<1> HIDE DEF part
<1>4. snapshot \in Published
  <2>1. row[s].value.size \in Days BY <1>2, LastDay
  <2>2. [c \in Courses |-> IF Part(c) THEN part(c) ELSE NoRow]
          \in [Courses -> Captured \cup {NoRow}]
    BY <1>3
  <2> QED BY <1>1, <2>1, <2>2 DEF Published
<1>5. Kept(request') /\ Told(request', "used", SnapshotMentions(snapshot))
  BY <1>1, RequestsKept, NotedKeeps DEF Events
<1>6. ASSUME NEW t \in Records, InPublished(t)' PROVE InPublished(t) \/ Told(request', "used", {t})
  <2>1. PICK x \in published' : t \in SnapshotMentions(x)
    BY <1>6 DEF InPublished, SnapshotMentions
  <2>2. CASE x \in published BY <2>1, <2>2 DEF InPublished
  <2>3. CASE x = snapshot BY <2>1, <2>3, <1>5, ToldOfOne
  <2> QED BY <2>2, <2>3, <1>1
<1>7. \A t : InSaved(t)' => InSaved(t)
  BY <1>2 DEF InSaved, Mentions
<1>8. saved' \in [Courses -> Draft \cup {NoRow}] /\ published' \in SUBSET Published
  BY <1>1, <1>2, <1>4 DEF TypeInv
<1> QED BY <1>2, <1>5, <1>6, <1>7, <1>8, ScheduleSteps

LEMMA RestoreSteps ==
  ASSUME TypeInv, NEW x \in published, Restore(x)
  PROVE  Step
<1> DEFINE listed == {c \in Courses : x.courses[c] # NoRow}
           drafted == {c \in listed : x.courses[c].draft # NoRow}
           Restored(c) == [x.courses[c].draft EXCEPT !.cohort = x.courses[c].cohort,
                                                     !.type = x.courses[c].type, !.until = x.until]
           users == UNION {Mentions(c, Restored(c)) : c \in drafted}
<1>1. /\ saved' = [c \in Courses |->
                     IF c \in drafted THEN Restored(c)
                     ELSE IF HasDraft(c, x.semester) THEN NoRow ELSE saved[c]]
      /\ request' = Noted(request, "used", users)
      /\ UNCHANGED <<row, eligible, published>>
  BY DEF Restore
<1>2. ASSUME NEW c \in drafted PROVE Restored(c) \in Draft /\ c \in Courses
  <2>1. x \in Published BY DEF TypeInv
  <2>2. /\ x.until \in Days /\ x.courses[c] \in Captured
    BY <1>2, <2>1 DEF Published
  <2>3. /\ x.courses[c].draft \in Draft /\ x.courses[c].cohort \in Cohorts
        /\ x.courses[c].type \in StudyTypes
    BY <1>2, <2>2 DEF Captured
  <2> QED BY <2>2, <2>3 DEF Draft
<1> DEFINE mentioned(c) == Mentions(c, Restored(c))
<1>3. \A c \in drafted : mentioned(c) \subseteq users
  OBVIOUS
<1> HIDE DEF Restored, drafted, users
<1>4. saved' \in [Courses -> Draft \cup {NoRow}]
  BY <1>1, <1>2 DEF TypeInv
<1>5. Kept(request') /\ Told(request', "used", users)
  BY <1>1, RequestsKept, NotedKeeps DEF Events
<1>6. ASSUME NEW t \in Records, InSaved(t)' PROVE InSaved(t) \/ Told(request', "used", {t})
  <2>1. PICK c \in Courses : saved'[c] # NoRow /\ t \in Mentions(c, saved'[c])
    BY <1>6 DEF InSaved, Mentions
  <2>2. CASE c \in drafted
    <3>1. saved'[c] = Restored(c) BY <2>2, <1>1
    <3>2. t \in mentioned(c) BY <2>1, <3>1
    <3>3. t \in users BY <2>2, <3>2, <1>3
    <3> QED BY <3>3, <1>5, ToldOfOne
  <2>3. CASE c \notin drafted
    <3>1. saved'[c] = saved[c] BY <2>1, <2>3, <1>1
    <3> QED BY <2>1, <3>1 DEF InSaved
  <2> QED BY <2>2, <2>3
<1>7. \A t : InPublished(t)' => InPublished(t)
  BY <1>1 DEF InPublished, SnapshotMentions
<1>8. published' \in SUBSET Published
  BY <1>1 DEF TypeInv
<1> QED BY <1>1, <1>4, <1>5, <1>6, <1>7, <1>8, ScheduleSteps
-----------------------------------------------------------------------------
LEMMA CatalogInitInv == CatalogInit => TypeInv /\ RequestsInv
<1> SUFFICES ASSUME CatalogInit PROVE TypeInv /\ RequestsInv
  OBVIOUS
<1>2. /\ row = [r \in Records |-> row[r]]
      /\ \A r \in Records : row[r] \in RowsOf(r) \cup {NoRow}
  BY DataAssumption DEF CatalogInit
<1>3. /\ eligible \in [Courses -> SUBSET Resources]
      /\ saved \in [Courses -> Draft \cup {NoRow}] /\ published \in SUBSET Published
      /\ request = [p \in Planners |-> request[p]]
      /\ \A p \in Planners : request[p] = Idle
  BY DataAssumption DEF CatalogInit
<1> QED BY <1>2, <1>3 DEF TypeInv, RequestsInv

(* Every step is a reading one, or tells what it does.                     *)
LEMMA CatalogNextInv ==
  ASSUME TypeInv, RequestsInv, [CatalogNext]_tables
  PROVE  TypeInv' /\ RequestsInv'
<1>1. ASSUME NEW p \in Planners, Reads(p) PROVE TypeInv' /\ RequestsInv'
  <2>1. PICK q : Read(p, q) /\ Fresh(q) BY <1>1, ReadsAreFresh
  <2> QED BY <2>1, ReadKeeps
<1>2. CASE Step
  BY <1>2, StepKeeps DEF Step
<1>3. ASSUME NEW p \in Planners,
             CommitWrite(p) \/ CommitLink(p) \/ CommitInsert(p) \/ CommitDelete(p) \/ Refused(p)
      PROVE  Step
  BY <1>3, WriteSteps, LinkSteps, InsertSteps, DeleteSteps, RefusedSteps
<1>4. CASE \/ \E r \in Records : Create(r)
           \/ \E c \in Courses : SaveDraft(c) \/ EditDraft(c) \/ ClearDraft(c)
           \/ \E s \in Semesters : Publish(s)
           \/ \E x \in published : Restore(x)
  BY <1>2, <1>4, CreateSteps, SaveDraftSteps, EditDraftSteps, ClearDraftSteps,
     PublishSteps, RestoreSteps
<1>5. CASE UNCHANGED tables
  <2>1. UNCHANGED <<row, eligible, saved, published, request>> BY <1>5 DEF tables
  <2>2. Kept(request') BY <2>1, RequestsKept DEF Kept, Later
  <2>3. \A t : (InSaved(t)' => InSaved(t)) /\ (InPublished(t)' => InPublished(t))
    BY <2>1 DEF InSaved, InPublished, Mentions, SnapshotMentions
  <2>4. saved' \in [Courses -> Draft \cup {NoRow}] /\ published' \in SUBSET Published
    BY <2>1 DEF TypeInv
  <2>5. Step BY <2>1, <2>2, <2>3, <2>4, ScheduleSteps
  <2> QED BY <2>5, <1>2
<1>6. CASE \E p \in Planners :
             \/ Reads(p)
             \/ CommitWrite(p) \/ CommitLink(p) \/ CommitInsert(p) \/ CommitDelete(p) \/ Refused(p)
  BY <1>1, <1>2, <1>3, <1>6
<1> QED BY <1>4, <1>5, <1>6 DEF CatalogNext, Reads

(* A revision that still matches means that nothing has changed: what a    *)
(* handler is about to write over is what it has read (version_id_col of   *)
(* courses, resources, periods and holidays, and the revisions that        *)
(* update_cohort_with_capacity_impact gives to courses).                   *)
THEOREM RevisionsTellChange == CatalogSpec => []RevisionTellsChange
<1>1. TypeInv /\ RequestsInv => RevisionTellsChange
  <2> SUFFICES ASSUME TypeInv, RequestsInv, NEW p \in Planners,
                      request[p].kind \in {"write", "link", "delete"},
                      request[p].target \in Versioned, "created" \notin request[p].since,
                      Found(request[p])
               PROVE  /\ row[request[p].target] = request[p].copy
                      /\ /\ request[p].target \in Courses /\ request[p].kind \in {"link", "delete"}
                         /\ "unlinked" \notin request[p].since
                         => eligible[request[p].target] = request[p].links
    BY DEF RevisionTellsChange
  <2>1. request[p] # Idle /\ RequestInv(request[p])
    BY DEF Idle, RequestsInv
  <2> QED BY <2>1 DEF RequestInv, Found
<1>2. CatalogInit => TypeInv /\ RequestsInv
  BY CatalogInitInv
<1>3. TypeInv /\ RequestsInv /\ [CatalogNext]_tables => (TypeInv /\ RequestsInv)'
  BY CatalogNextInv
<1> QED BY <1>1, <1>2, <1>3, PTL DEF CatalogSpec

(* A row only goes with the request that deletes it or its owner.          *)
LEMMA OnlyDeletions ==
  ASSUME TypeInv, [CatalogNext]_tables, NEW r \in Records, Exists(r), ~ Exists(r)'
  PROVE  \E p \in Planners : CommitDelete(p)
<1>1. ASSUME NEW p \in Planners, Reads(p) PROVE FALSE
  <2>1. PICK q : Read(p, q) BY <1>1, ReadsAreFresh
  <2> QED BY <2>1 DEF Read, Exists
<1>2. ASSUME NEW p \in Planners, CommitWrite(p) \/ CommitLink(p) \/ CommitInsert(p) PROVE FALSE
  BY <1>2, WriteSteps, LinkSteps, InsertSteps DEF RowsStay
<1>3. ASSUME NEW p \in Planners, Refused(p) PROVE FALSE
  BY <1>3 DEF Refused, Exists
<1>4. ASSUME NEW k \in Records, Create(k) PROVE FALSE
  BY <1>4, CreateSteps DEF RowsStay
<1>5. ASSUME NEW c \in Courses, SaveDraft(c) \/ EditDraft(c) \/ ClearDraft(c) PROVE FALSE
  BY <1>5 DEF SaveDraft, EditDraft, ClearDraft, Exists
<1>6. ASSUME NEW s \in Semesters, Publish(s) PROVE FALSE
  BY <1>6 DEF Publish, Exists
<1>7. ASSUME NEW x \in published, Restore(x) PROVE FALSE
  BY <1>7 DEF Restore, Exists
<1>8. CASE UNCHANGED tables
  BY <1>8 DEF tables, Exists
<1> QED BY <1>1, <1>2, <1>3, <1>4, <1>5, <1>6, <1>7, <1>8 DEF CatalogNext, Reads

LEMMA PeriodRow ==
  ASSUME TypeInv, NEW u \in Periods, Exists(u)
  PROVE  u \in Records /\ row[u].value.owner \in Resources
<1>1. u \in Records /\ u \notin Courses \cup Windows
  BY TablesAreDisjoint DEF Records, Academic
<1>2. row[u].value \in ValuesOf(u) BY <1>1, ExistingRow
<1>3. ValuesOf(u) = {Value(NoRow, o, d) : o \in Resources, d \in Days}
  BY <1>1 DEF ValuesOf
<1> QED BY <1>1, <1>2, <1>3 DEF Value

(* What a deletion takes is what its request was about, or a period of it. *)
LEMMA DeletionSparesUsers ==
  ASSUME TypeInv, RequestsInv, NEW p \in Planners, CommitDelete(p),
         NEW r \in Records, Exists(r), ~ Exists(r)'
  PROVE  /\ request[p].kind = "delete" /\ request'[p] = Idle
         /\ request[p].target \in {r, row[r].value.owner}
         /\ \A x \in request[p].periods : x[1] = r => row[r].revision = x[2]
         /\ ~ SavedKeys(r)
         /\ \A x \in published : x.semester # r
         /\ \A c \in Listing(r) : Active(c) => c \in request[p].links
         /\ "used" \notin request[p].since => ~ InUse(r)
<1>1. PICK q : q = request[p]
  OBVIOUS
<1>2. /\ q.kind = "delete" /\ Deletable(q)
      /\ row' = [x \in Records |->
                   IF x \in {q.target} \cup PeriodsOf(q.target) THEN NoRow ELSE row[x]]
      /\ request' = Noted(Answered(p), "unlinked", Links(q.target) \cap Courses)
  BY <1>1 DEF CommitDelete
<1>3. request'[p] = Idle
  BY <1>2, RequestsKept, NotedKeeps DEF Events
<1>4. r \in {q.target} \cup PeriodsOf(q.target)
  BY <1>2 DEF Exists
<1>5. q.target \in {r, row[r].value.owner}
  BY <1>4 DEF PeriodsOf
<1>6. \A x \in q.periods : x[1] = r => row[r].revision = x[2]
  BY <1>2 DEF Deletable
<1>7. ASSUME "used" \notin q.since PROVE ~ InUse(r)
  <2>1. CASE r = q.target
    <3>1. RequestInv(q) BY <1>1, <1>2 DEF RequestsInv, Idle
    <3> QED BY <3>1, <2>1, <1>2, <1>7 DEF RequestInv
  <2>2. CASE r \in PeriodsOf(q.target)
    BY <2>2, OnlyTeachingIsUsed DEF PeriodsOf
  <2> QED BY <1>4, <2>1, <2>2
<1>8. /\ ~ SavedKeys(r)
      /\ \A x \in published : x.semester # r
      /\ \A c \in Listing(r) : Active(c) => c \in q.links
  <2>1. CASE r = q.target
    <3>1. Listing(r) # {} => r \in Resources
      BY DEF TypeInv, Listing
    <3> QED BY <1>2, <2>1, <3>1 DEF Deletable
  <2>2. CASE r \in PeriodsOf(q.target)
    <3>1. ~ InUse(r) BY <2>2, OnlyTeachingIsUsed DEF PeriodsOf
    <3>2. ~ SavedKeys(r) BY <3>1 DEF InUse, InSaved, SavedKeys
    <3>3. \A x \in published : x.semester # r BY <3>1 DEF InUse, InPublished, SnapshotMentions
    <3>4. \A c \in Listing(r) : ~ Active(c) BY <3>1 DEF InUse
    <3> QED BY <3>2, <3>3, <3>4
  <2> QED BY <1>4, <2>1, <2>2
<1> QED BY <1>1, <1>2, <1>3, <1>5, <1>6, <1>7, <1>8

(* Only the request of a planner deletes a record, a period also with its  *)
(* resource and as it was loaded with it; what refers to it by key keeps   *)
(* it whenever it came to do so, and unless the record came into use after *)
(* the request had looked, no saved or published schedule and no active    *)
(* course loses it (delete_record, remove_resource).                       *)
THEOREM DeletionsSpare == CatalogSpec => DeletionSpares
<1> DEFINE Spares(r) ==
      Exists(r) /\ row'[r] = NoRow =>
        \E p \in Planners :
          /\ request[p].kind = "delete" /\ request'[p] = Idle
          /\ request[p].target \in {r, row[r].value.owner}
          /\ \A x \in request[p].periods : x[1] = r => row[r].revision = x[2]
          /\ ~ SavedKeys(r)
          /\ \A x \in published : x.semester # r
          /\ \A c \in Listing(r) : Active(c) => c \in request[p].links
          /\ "used" \notin request[p].since =>
               /\ ~ InSaved(r) /\ ~ InPublished(r)
               /\ \A c \in Listing(r) : ~ Active(c)
<1>1. ASSUME TypeInv, RequestsInv, [CatalogNext]_tables, NEW r \in Records PROVE Spares(r)
  <2> SUFFICES ASSUME Exists(r), ~ Exists(r)' PROVE Spares(r)
    BY DEF Exists
  <2>1. PICK p \in Planners : CommitDelete(p) BY <1>1, OnlyDeletions
  <2> QED BY <1>1, <2>1, DeletionSparesUsers DEF InUse
<1>2. TypeInv /\ RequestsInv /\ [CatalogNext]_tables => [\A r \in Records : Spares(r)]_tables
  BY <1>1
<1>3. CatalogInit => TypeInv /\ RequestsInv
  BY CatalogInitInv
<1>4. TypeInv /\ RequestsInv /\ [CatalogNext]_tables => (TypeInv /\ RequestsInv)'
  BY CatalogNextInv
<1> QED BY <1>2, <1>3, <1>4, PTL DEF CatalogSpec, DeletionSpares

LEMMA CommitsAreCounted ==
  ASSUME TypeInv, writes \in Nat, [CatalogNext]_tables
  PROVE  writes' \in Nat
<1>1. ASSUME NEW p \in Planners, Reads(p) PROVE writes' = writes
  <2>1. PICK q : Read(p, q) BY <1>1, ReadsAreFresh
  <2> QED BY <2>1 DEF Read
<1>2. ASSUME NEW p \in Planners,
             CommitWrite(p) \/ CommitLink(p) \/ CommitInsert(p) \/ CommitDelete(p)
      PROVE  writes' = writes + 1
  BY <1>2 DEF CommitWrite, CommitLink, CommitInsert, CommitDelete
<1>3. ASSUME NEW p \in Planners, Refused(p) PROVE writes' = writes
  BY <1>3 DEF Refused
<1>4. ASSUME NEW k \in Records, Create(k) PROVE writes' = writes + 1
  BY <1>4 DEF Create
<1>5. ASSUME NEW c \in Courses, SaveDraft(c) \/ EditDraft(c) \/ ClearDraft(c)
      PROVE  writes' = writes
  BY <1>5 DEF SaveDraft, EditDraft, ClearDraft
<1>6. ASSUME NEW s \in Semesters, Publish(s) PROVE writes' = writes
  BY <1>6 DEF Publish
<1>7. ASSUME NEW x \in published, Restore(x) PROVE writes' = writes
  BY <1>7 DEF Restore
<1>8. CASE UNCHANGED tables
  BY <1>8 DEF tables
<1> QED BY <1>1, <1>2, <1>3, <1>4, <1>5, <1>6, <1>7, <1>8 DEF CatalogNext, Reads

(* The tables hold rows of their own records, and a pending request what   *)
(* it read of its target and a value its target can have.                  *)
THEOREM TablesAreTyped == CatalogSpec => []TablesOK
<1>1. TypeInv /\ writes \in Nat => TablesOK
  BY DEF TypeInv, TablesOK, IsRequest
<1>2. CatalogInit => TypeInv /\ RequestsInv /\ writes \in Nat
  BY CatalogInitInv DEF CatalogInit
<1>3. TypeInv /\ RequestsInv /\ writes \in Nat /\ [CatalogNext]_tables
        => (TypeInv /\ RequestsInv /\ writes \in Nat)'
  BY CatalogNextInv, CommitsAreCounted
<1> QED BY <1>1, <1>2, <1>3, PTL DEF CatalogSpec
=============================================================================

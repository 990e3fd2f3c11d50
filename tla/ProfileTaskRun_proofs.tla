----------------------- MODULE ProfileTaskRun_proofs -----------------------
(***************************************************************************)
(* Proofs about ProfileTaskRun, for any sets of callers, any faults and    *)
(* any crashes.  IndInv is the inductive invariant.  Its parts support one *)
(* another: LabelInv and LockInv say who is alone with the meta, so that   *)
(* RunningInv and LaunchInv survive the other actors' steps; CarryInv and  *)
(* EvidenceInv carry what the finalizer found out to the step that writes  *)
(* it.  There is one lemma for each operation, then the initial state, the *)
(* next-state relation, and the theorems that follow.                      *)
(***************************************************************************)
EXTENDS ProfileTaskRun, TLAPS

(* StartBegin: only the gate leaves "frozen", and the lock it takes was    *)
(* free.                                                                   *)
LEMMA StartBeginInd ==
    ASSUME IndInv, NEW s \in Starters, StartBegin(s)
    PROVE  IndInv'
<1> USE ActorsAssumption DEF IndInv, Actors, StartBegin, Goto, metaVars, fileVars,
   workerVars, procVars, HasReceipt, HasHandoff, Take
<1>1. TypeOK'
  BY DEF TypeOK, Labels, Statuses, TermStates
<1>2. LabelInv' /\ LockInv'
  BY DEF LabelInv, LockInv
<1>3. LaunchInv' /\ RunningInv'
  BY DEF LaunchInv, RunningInv
<1>4. WorkerInv' /\ CarryInv'
  BY DEF WorkerInv, CarryInv, Exits
<1>5. FiledInv' /\ PublishInv'
  BY DEF FiledInv, PublishInv, Terminal
<1>6. CancelledIffConfirmed'
  BY DEF CancelledIffConfirmed
<1>7. EvidenceInv'
  BY DEF EvidenceInv, StatusHasEvidence, Evidence, TrustedOutcome
<1> QED BY <1>1, <1>2, <1>3, <1>4, <1>5, <1>6, <1>7

(* StartRejected: the call enters the failure path with the lock it has    *)
(* taken.                                                                  *)
LEMMA StartRejectedInd ==
    ASSUME IndInv, NEW s \in Starters, StartRejected(s)
    PROVE  IndInv'
<1> USE ActorsAssumption DEF IndInv, Actors, StartRejected, Goto, Take, metaVars,
   fileVars, workerVars, procVars, HasReceipt, HasHandoff
<1>1. TypeOK'
  BY DEF TypeOK, Labels, Statuses, TermStates
<1>2. LabelInv' /\ LockInv'
  BY DEF LabelInv, LockInv, FailureLabels
<1>3. LaunchInv' /\ RunningInv'
  BY DEF LaunchInv, RunningInv
<1>4. WorkerInv' /\ CarryInv'
  BY DEF WorkerInv, CarryInv, Exits
<1>5. FiledInv' /\ PublishInv'
  BY DEF FiledInv, PublishInv
<1>6. EvidenceInv'
  BY DEF EvidenceInv, StatusHasEvidence, Evidence, TrustedOutcome
<1> QED BY <1>1, <1>2, <1>3, <1>4, <1>5, <1>6 DEF CancelledIffConfirmed

(* StartFails: the lock is kept on the way into the failure path.          *)
LEMMA StartFailsInd ==
    ASSUME IndInv, NEW s \in Starters, StartFails(s)
    PROVE  IndInv'
<1> USE ActorsAssumption DEF IndInv, Actors, StartFails, Goto, metaVars, fileVars,
   workerVars, procVars, HasReceipt, HasHandoff
<1>1. TypeOK'
  BY DEF TypeOK, Labels, Statuses, TermStates
<1>2. LabelInv' /\ LockInv'
  BY DEF LabelInv, LockInv, Critical, FailureLabels
<1>3. LaunchInv' /\ RunningInv'
  BY DEF LaunchInv, RunningInv
<1>4. WorkerInv' /\ CarryInv'
  BY DEF WorkerInv, CarryInv, Exits
<1>5. FiledInv' /\ PublishInv'
  BY DEF FiledInv, PublishInv
<1>6. EvidenceInv'
  BY DEF EvidenceInv, StatusHasEvidence, Evidence, TrustedOutcome
<1> QED BY <1>1, <1>2, <1>3, <1>4, <1>5, <1>6 DEF CancelledIffConfirmed

(* StartSpawn: launches was 0: the starter is past the gate and alone      *)
(* (LaunchInv).                                                            *)
LEMMA StartSpawnInd ==
    ASSUME IndInv, NEW s \in Starters, StartSpawn(s)
    PROVE  IndInv'
<1> USE ActorsAssumption DEF IndInv, Actors, StartSpawn, Goto, metaVars, fileVars,
   workerVars, procVars, HasReceipt, HasHandoff
<1>1. TypeOK'
  BY DEF TypeOK, Labels, Statuses, TermStates
<1>2. LabelInv' /\ LockInv'
  BY DEF TypeOK, LabelInv, LockInv, Critical, FailureLabels
<1>3. LaunchInv' /\ RunningInv'
  BY DEF TypeOK, LockInv, LaunchInv, RunningInv, Critical
<1>4. WorkerInv' /\ CarryInv'
  BY DEF TypeOK, WorkerInv, CarryInv, Exits
<1>5. FiledInv' /\ PublishInv'
  BY DEF TypeOK, FiledInv, PublishInv
<1>6. EvidenceInv'
  BY DEF TypeOK, LaunchInv, EvidenceInv, StatusHasEvidence, Evidence, TrustedOutcome
<1> QED BY <1>1, <1>2, <1>3, <1>4, <1>5, <1>6 DEF CancelledIffConfirmed

(* StartCommit: the task is still running: its starter holds the lock      *)
(* (RunningInv).                                                           *)
LEMMA StartCommitInd ==
    ASSUME IndInv, NEW s \in Starters, StartCommit(s)
    PROVE  IndInv'
<1> USE ActorsAssumption DEF IndInv, Actors, StartCommit, Goto, metaVars, fileVars,
   workerVars, procVars, HasReceipt, HasHandoff, Return, Drop, Home
<1>1. TypeOK'
  <2>1. pc' \in [Actors -> Labels]
    BY DEF TypeOK, Labels
  <2>2. status' \in Statuses /\ session' \in BOOLEAN /\ term' \in TermStates
    BY DEF TypeOK, Statuses, TermStates
  <2> QED BY <2>1, <2>2 DEF TypeOK
<1>2. LabelInv' /\ LockInv'
  BY DEF TypeOK, LabelInv, LockInv, Critical, FailureLabels
<1>3. LaunchInv' /\ RunningInv'
  BY DEF LaunchInv, RunningInv
<1>4. WorkerInv' /\ CarryInv'
  BY DEF WorkerInv, CarryInv, Exits
<1>5. FiledInv' /\ PublishInv'
  BY DEF RunningInv, FiledInv, PublishInv
<1>6. CancelledIffConfirmed'
  BY DEF CancelledIffConfirmed
<1>7. EvidenceInv'
  BY DEF EvidenceInv, StatusHasEvidence, Evidence, TrustedOutcome
<1> QED BY <1>1, <1>2, <1>3, <1>4, <1>5, <1>6, <1>7

(* StartCommitFails: the failure path begins with the lock still held.     *)
LEMMA StartCommitFailsInd ==
    ASSUME IndInv, NEW s \in Starters, StartCommitFails(s)
    PROVE  IndInv'
<1> USE ActorsAssumption DEF IndInv, Actors, StartCommitFails, Goto, metaVars, fileVars,
   workerVars, procVars, HasReceipt, HasHandoff, LauncherUp
<1>1. TypeOK'
  <2>1. killed' \in BOOLEAN
    BY DEF TypeOK
  <2> QED BY <2>1 DEF TypeOK, Labels
<1>2. LabelInv' /\ LockInv'
  BY DEF LabelInv, LockInv, Critical, FailureLabels
<1>3. LaunchInv' /\ RunningInv'
  BY DEF LaunchInv, RunningInv
<1>4. WorkerInv' /\ CarryInv'
  BY DEF WorkerInv, CarryInv, Exits
<1>5. FiledInv' /\ PublishInv'
  BY DEF FiledInv, PublishInv
<1>6. EvidenceInv'
  BY DEF EvidenceInv, StatusHasEvidence, Evidence, TrustedOutcome
<1> QED BY <1>1, <1>2, <1>3, <1>4, <1>5, <1>6 DEF CancelledIffConfirmed

(* WorkerSubmit: the intent is an outcome; nothing else of the task        *)
(* changes.                                                                *)
LEMMA WorkerSubmitInd ==
    ASSUME IndInv, NEW out \in Outcomes, WorkerSubmit(out)
    PROVE  IndInv'
<1> USE ActorsAssumption DEF IndInv, Actors, WorkerSubmit, Goto, metaVars, fileVars,
   workerVars, procVars, HasReceipt, HasHandoff
<1>1. TypeOK'
  BY DEF TypeOK, Labels, Statuses, TermStates
<1>2. LabelInv' /\ LockInv'
  BY DEF LabelInv, LockInv
<1>3. LaunchInv' /\ RunningInv'
  BY DEF LaunchInv, RunningInv
<1>4. WorkerInv' /\ CarryInv'
  BY DEF WorkerInv, CarryInv, Exits
<1>5. FiledInv' /\ PublishInv'
  BY DEF FiledInv, PublishInv
<1>6. EvidenceInv'
  BY DEF EvidenceInv, StatusHasEvidence, Evidence, TrustedOutcome
<1> QED BY <1>1, <1>2, <1>3, <1>4, <1>5, <1>6 DEF CancelledIffConfirmed

(* WorkerWrite: the outcome changes only while the worker lives, so no     *)
(* receipt quotes it yet.                                                  *)
LEMMA WorkerWriteInd ==
    ASSUME IndInv, WorkerWrite
    PROVE  IndInv'
<1> USE ActorsAssumption DEF IndInv, Actors, WorkerWrite, Goto, metaVars, fileVars,
   workerVars, procVars, HasReceipt, HasHandoff
<1>1. TypeOK'
  BY DEF TypeOK, Labels, Statuses, TermStates
<1>2. LabelInv' /\ LockInv'
  BY DEF LabelInv, LockInv
<1>3. LaunchInv' /\ RunningInv'
  BY DEF LaunchInv, RunningInv
<1>4. WorkerInv' /\ CarryInv'
  BY DEF WorkerInv, CarryInv, Exits
<1>5. FiledInv' /\ PublishInv'
  BY DEF FiledInv, PublishInv
<1>6. EvidenceInv'
  BY DEF EvidenceInv, StatusHasEvidence, Evidence, TrustedOutcome
<1> QED BY <1>1, <1>2, <1>3, <1>4, <1>5, <1>6 DEF CancelledIffConfirmed

(* WorkerExit: the exit code is set once, before the launcher finalizes.   *)
LEMMA WorkerExitInd ==
    ASSUME IndInv, NEW code \in Exits, WorkerExit(code)
    PROVE  IndInv'
<1> USE ActorsAssumption DEF IndInv, Actors, WorkerExit, Goto, metaVars, fileVars,
   workerVars, procVars, HasReceipt, HasHandoff
<1>1. TypeOK'
  BY DEF TypeOK, Labels, Statuses, TermStates
<1>2. LabelInv' /\ LockInv'
  BY DEF LabelInv, LockInv
<1>3. LaunchInv' /\ RunningInv'
  BY DEF LaunchInv, RunningInv
<1>4. WorkerInv' /\ CarryInv'
  BY DEF WorkerInv, CarryInv, Exits
<1>5. FiledInv' /\ PublishInv'
  BY DEF FiledInv, PublishInv
<1>6. EvidenceInv'
  BY DEF EvidenceInv, StatusHasEvidence, Evidence, TrustedOutcome
<1> QED BY <1>1, <1>2, <1>3, <1>4, <1>5, <1>6 DEF CancelledIffConfirmed

(* LauncherSpawnsWorker: the worker was absent, so nothing is claimed of   *)
(* it.                                                                     *)
LEMMA LauncherSpawnsWorkerInd ==
    ASSUME IndInv, LauncherSpawnsWorker
    PROVE  IndInv'
<1> USE ActorsAssumption DEF IndInv, Actors, LauncherSpawnsWorker, Goto, metaVars,
   fileVars, workerVars, procVars, HasReceipt, HasHandoff
<1>1. TypeOK'
  BY DEF TypeOK, Labels, Statuses, TermStates
<1>2. LabelInv' /\ LockInv'
  BY DEF LabelInv, LockInv, Critical
<1>3. LaunchInv' /\ RunningInv'
  BY DEF LaunchInv, RunningInv
<1>4. WorkerInv' /\ CarryInv'
  BY DEF WorkerInv, CarryInv, Exits
<1>5. FiledInv' /\ PublishInv'
  BY DEF FiledInv, PublishInv
<1>6. EvidenceInv'
  BY DEF TypeOK, EvidenceInv, StatusHasEvidence, Evidence, TrustedOutcome
<1> QED BY <1>1, <1>2, <1>3, <1>4, <1>5, <1>6 DEF CancelledIffConfirmed

(* LauncherRefuses: without a worker only the failure path remains.        *)
LEMMA LauncherRefusesInd ==
    ASSUME IndInv, LauncherRefuses
    PROVE  IndInv'
<1> USE ActorsAssumption DEF IndInv, Actors, LauncherRefuses, Goto, metaVars, fileVars,
   workerVars, procVars, HasReceipt, HasHandoff
<1>1. TypeOK'
  BY DEF TypeOK, Labels, Statuses, TermStates
<1>2. LabelInv' /\ LockInv'
  BY DEF LabelInv, LockInv, Critical, FailureLabels
<1>3. LaunchInv' /\ RunningInv'
  BY DEF LaunchInv, RunningInv
<1>4. WorkerInv' /\ CarryInv'
  BY DEF WorkerInv, CarryInv, Exits
<1>5. FiledInv' /\ PublishInv'
  BY DEF FiledInv, PublishInv
<1>6. EvidenceInv'
  BY DEF EvidenceInv, StatusHasEvidence, Evidence, TrustedOutcome
<1> QED BY <1>1, <1>2, <1>3, <1>4, <1>5, <1>6 DEF CancelledIffConfirmed

(* LauncherTimesOut: the worker is gone and its code is known from here    *)
(* on.                                                                     *)
LEMMA LauncherTimesOutInd ==
    ASSUME IndInv, LauncherTimesOut
    PROVE  IndInv'
<1> USE ActorsAssumption DEF IndInv, Actors, LauncherTimesOut, Goto, metaVars, fileVars,
   workerVars, procVars, HasReceipt, HasHandoff
<1>1. TypeOK'
  BY DEF TypeOK, Labels, Statuses, TermStates, Exits
<1>2. LabelInv' /\ LockInv'
  BY DEF LabelInv, LockInv, Critical
<1>3. LaunchInv' /\ RunningInv'
  BY DEF LaunchInv, RunningInv
<1>4. WorkerInv' /\ CarryInv'
  BY DEF WorkerInv, CarryInv, Exits
<1>5. FiledInv' /\ PublishInv'
  BY DEF FiledInv, PublishInv
<1>6. EvidenceInv'
  BY DEF EvidenceInv, StatusHasEvidence, Evidence, TrustedOutcome
<1> QED BY <1>1, <1>2, <1>3, <1>4, <1>5, <1>6 DEF CancelledIffConfirmed

(* LauncherReaps: the worker is gone and its code is known from here on.   *)
LEMMA LauncherReapsInd ==
    ASSUME IndInv, LauncherReaps
    PROVE  IndInv'
<1> USE ActorsAssumption DEF IndInv, Actors, LauncherReaps, Goto, metaVars, fileVars,
   workerVars, procVars, HasReceipt, HasHandoff
<1>1. TypeOK'
  BY DEF TypeOK, Labels, Statuses, TermStates
<1>2. LabelInv' /\ LockInv'
  BY DEF LabelInv, LockInv, Critical
<1>3. LaunchInv' /\ RunningInv'
  BY DEF LaunchInv, RunningInv
<1>4. WorkerInv' /\ CarryInv'
  BY DEF WorkerInv, CarryInv, Exits
<1>5. FiledInv' /\ PublishInv'
  BY DEF FiledInv, PublishInv
<1>6. EvidenceInv'
  BY DEF EvidenceInv, StatusHasEvidence, Evidence, TrustedOutcome
<1> QED BY <1>1, <1>2, <1>3, <1>4, <1>5, <1>6 DEF CancelledIffConfirmed

(* FinalizeRender: the launcher carries the trusted outcome; a conflict    *)
(* carries nothing.                                                        *)
LEMMA FinalizeRenderInd ==
    ASSUME IndInv, FinalizeRender
    PROVE  IndInv'
<1> USE ActorsAssumption DEF IndInv, Actors, FinalizeRender, Goto, metaVars, fileVars,
   workerVars, procVars, HasReceipt, HasHandoff, Carry
<1>1. TypeOK'
  BY DEF TypeOK, Labels, Statuses, TermStates, Outcomes, TrustedOutcome
<1>2. LabelInv' /\ LockInv'
  BY DEF TypeOK, LabelInv, LockInv, Critical, FailureLabels
<1>3. LaunchInv' /\ RunningInv'
  BY DEF TypeOK, LaunchInv, RunningInv
<1>4. WorkerInv' /\ CarryInv'
  BY DEF TypeOK, WorkerInv, CarryInv, EvidenceInv, TrustedOutcome, Outcomes, Exits
<1>5. FiledInv' /\ PublishInv'
  BY DEF TypeOK, FiledInv, PublishInv
<1>6. EvidenceInv'
  BY DEF TypeOK, EvidenceInv, StatusHasEvidence, Evidence, TrustedOutcome
<1> QED BY <1>1, <1>2, <1>3, <1>4, <1>5, <1>6 DEF CancelledIffConfirmed

(* FinalizeRecord: the receipt quotes the exit code and the trusted        *)
(* outcome.                                                                *)
LEMMA FinalizeRecordInd ==
    ASSUME IndInv, FinalizeRecord
    PROVE  IndInv'
<1> USE ActorsAssumption DEF IndInv, Actors, FinalizeRecord, Goto, metaVars, fileVars,
   workerVars, procVars, HasReceipt, HasHandoff, RenderedStatus
<1>1. TypeOK'
  BY DEF TypeOK, Labels, Statuses, TermStates, WorkerInv, CarryInv, Receipts, Terminal
<1>2. LabelInv' /\ LockInv'
  BY DEF LabelInv, LockInv, Critical
<1>3. LaunchInv' /\ RunningInv'
  BY DEF LaunchInv, RunningInv
<1>4. WorkerInv' /\ CarryInv'
  BY DEF WorkerInv, CarryInv, Exits
<1>5. FiledInv' /\ PublishInv'
  BY DEF FiledInv, PublishInv, NoReceipt
<1>6. EvidenceInv'
  BY DEF EvidenceInv, StatusHasEvidence, Evidence, TrustedOutcome
<1> QED BY <1>1, <1>2, <1>3, <1>4, <1>5, <1>6 DEF CancelledIffConfirmed

(* FinalizeLock: the finalizer enters its critical section only with the   *)
(* lock.                                                                   *)
LEMMA FinalizeLockInd ==
    ASSUME IndInv, FinalizeLock
    PROVE  IndInv'
<1> USE ActorsAssumption DEF IndInv, Actors, FinalizeLock, Goto, metaVars, fileVars,
   workerVars, procVars, HasReceipt, HasHandoff, Take
<1>1. TypeOK'
  BY DEF TypeOK, Labels, Statuses, TermStates
<1>2. LabelInv' /\ LockInv'
  BY DEF TypeOK, LabelInv, LockInv, Critical, FailureLabels
<1>3. LaunchInv' /\ RunningInv'
  BY DEF TypeOK, LaunchInv, RunningInv
<1>4. WorkerInv' /\ CarryInv'
  BY DEF TypeOK, WorkerInv, CarryInv, Exits
<1>5. FiledInv' /\ PublishInv'
  BY DEF TypeOK, FiledInv, PublishInv
<1>6. EvidenceInv'
  BY DEF TypeOK, EvidenceInv, StatusHasEvidence, Evidence, TrustedOutcome
<1> QED BY <1>1, <1>2, <1>3, <1>4, <1>5, <1>6 DEF CancelledIffConfirmed

(* FinalizeReceipt: the status the launcher decides has its evidence; the  *)
(* task is running.                                                        *)
LEMMA FinalizeReceiptInd ==
    ASSUME IndInv, FinalizeReceipt
    PROVE  IndInv'
<1> USE ActorsAssumption DEF IndInv, Actors, FinalizeReceipt, DecidedReceipt, Goto, metaVars, fileVars,
   workerVars, procVars, HasReceipt, HasHandoff, Return, Drop, Home, Carry, FinalStatus,
   RenderedStatus
<1>1. TypeOK'
  BY DEF TypeOK, Labels, Statuses, TermStates, WorkerInv, CarryInv, Receipts, Terminal
<1>2. LabelInv' /\ LockInv'
  BY DEF TypeOK, LabelInv, LockInv, Critical
<1>3. LaunchInv' /\ RunningInv'
  <2>1. status # "frozen"
    BY DEF LaunchInv
  <2> QED BY <2>1 DEF TypeOK, LaunchInv, RunningInv, Statuses
<1>4. WorkerInv' /\ CarryInv'
  BY DEF TypeOK, WorkerInv, CarryInv, Terminal, Exits
<1>5. FiledInv' /\ PublishInv'
  BY DEF TypeOK, FiledInv, PublishInv, NoReceipt
<1>6. EvidenceInv'
  BY DEF TypeOK, EvidenceInv, StatusHasEvidence, Evidence, TrustedOutcome
<1> QED BY <1>1, <1>2, <1>3, <1>4, <1>5, <1>6 DEF CancelledIffConfirmed

(* FinalizeMeta: the carried status is written; its evidence was           *)
(* established a step ago.                                                 *)
LEMMA FinalizeMetaInd ==
    ASSUME IndInv, FinalizeMeta
    PROVE  IndInv'
<1> USE ActorsAssumption DEF IndInv, Actors, FinalizeMeta, Goto, metaVars, fileVars,
   workerVars, procVars, HasReceipt, HasHandoff, Return, Drop, Home, Carry
<1>1. TypeOK'
  BY DEF TypeOK, Labels, Statuses, TermStates, CarryInv, Terminal
<1>2. LabelInv' /\ LockInv'
  BY DEF TypeOK, LabelInv, LockInv, Critical, FailureLabels
<1>3. LaunchInv' /\ RunningInv'
  BY DEF TypeOK, LockInv, LaunchInv, RunningInv, Critical, Terminal, CarryInv
<1>4. WorkerInv' /\ CarryInv'
  BY DEF TypeOK, WorkerInv, CarryInv, Terminal, Exits
<1>5. FiledInv' /\ PublishInv'
  BY DEF TypeOK, RunningInv, FiledInv, PublishInv, Terminal, CarryInv
<1>6. CancelledIffConfirmed'
  BY DEF RunningInv, CancelledIffConfirmed
<1>7. EvidenceInv'
  BY DEF TypeOK, EvidenceInv, StatusHasEvidence, Evidence, TrustedOutcome
<1> QED BY <1>1, <1>2, <1>3, <1>4, <1>5, <1>6, <1>7

(* FinalizeAborts: the lock is released before the fallback starts.        *)
LEMMA FinalizeAbortsInd ==
    ASSUME IndInv, FinalizeAborts
    PROVE  IndInv'
<1> USE ActorsAssumption DEF IndInv, Actors, FinalizeAborts, Goto, metaVars, fileVars,
   workerVars, procVars, HasReceipt, HasHandoff, Drop
<1>1. TypeOK'
  BY DEF TypeOK, Labels, Statuses, TermStates
<1>2. LabelInv' /\ LockInv'
  BY DEF TypeOK, LabelInv, LockInv, Critical, FailureLabels
<1>3. LaunchInv' /\ RunningInv'
  BY DEF LaunchInv, RunningInv
<1>4. WorkerInv' /\ CarryInv'
  BY DEF WorkerInv, CarryInv, Exits
<1>5. FiledInv' /\ PublishInv'
  BY DEF FiledInv, PublishInv
<1>6. EvidenceInv'
  BY DEF EvidenceInv, StatusHasEvidence, Evidence, TrustedOutcome
<1> QED BY <1>1, <1>2, <1>3, <1>4, <1>5, <1>6 DEF CancelledIffConfirmed

(* FailureCheck: a caller that gives up under a success receipt leaves a   *)
(* filed task.                                                             *)
LEMMA FailureCheckInd ==
    ASSUME IndInv, NEW p \in Actors, FailureCheck(p)
    PROVE  IndInv'
<1> USE ActorsAssumption DEF IndInv, Actors, FailureCheck, Goto, metaVars, fileVars,
   workerVars, procVars, HasReceipt, HasHandoff, GiveUp, Return, Drop, Home, IsSuccess
<1>1. TypeOK'
  BY DEF TypeOK, Labels, Statuses, TermStates
<1>2. LabelInv' /\ LockInv'
  BY DEF TypeOK, LabelInv, LockInv, Critical, FailureLabels
<1>3. LaunchInv' /\ RunningInv'
  BY DEF TypeOK, LaunchInv, RunningInv
<1>4. WorkerInv' /\ CarryInv'
  BY DEF TypeOK, WorkerInv, CarryInv, Exits
<1>5. FiledInv' /\ PublishInv'
  BY DEF TypeOK, FiledInv, PublishInv, NoReceipt
<1>6. EvidenceInv'
  BY DEF TypeOK, EvidenceInv, StatusHasEvidence, Evidence, TrustedOutcome
<1> QED BY <1>1, <1>2, <1>3, <1>4, <1>5, <1>6 DEF CancelledIffConfirmed

(* FailureReceipt: a failure receipt claims neither a clean exit nor an    *)
(* outcome.                                                                *)
LEMMA FailureReceiptInd ==
    ASSUME IndInv, NEW p \in Actors, FailureReceipt(p)
    PROVE  IndInv'
<1> USE ActorsAssumption DEF IndInv, Actors, FailureReceipt, Goto, metaVars, fileVars,
   workerVars, procVars, HasReceipt, HasHandoff, FailureExit
<1>1. TypeOK'
  BY DEF TypeOK, Labels, Statuses, TermStates, Receipts, Terminal, Outcomes, Exits
<1>2. LabelInv' /\ LockInv'
  BY DEF LabelInv, LockInv, Critical, FailureLabels
<1>3. LaunchInv' /\ RunningInv'
  BY DEF LaunchInv, RunningInv
<1>4. WorkerInv' /\ CarryInv'
  BY DEF WorkerInv, CarryInv, Exits
<1>5. FiledInv' /\ PublishInv'
  BY DEF FiledInv, PublishInv, NoReceipt
<1>6. EvidenceInv'
  BY DEF EvidenceInv, StatusHasEvidence, Evidence, TrustedOutcome
<1> QED BY <1>1, <1>2, <1>3, <1>4, <1>5, <1>6 DEF CancelledIffConfirmed

(* FailureLock: the fallback reaches the meta only with the lock.          *)
LEMMA FailureLockInd ==
    ASSUME IndInv, NEW p \in Actors, FailureLock(p)
    PROVE  IndInv'
<1> USE ActorsAssumption DEF IndInv, Actors, FailureLock, Goto, metaVars, fileVars,
   workerVars, procVars, HasReceipt, HasHandoff, Take, Home
<1>1. TypeOK'
  BY DEF TypeOK, Labels, Statuses, TermStates
<1>2. LabelInv' /\ LockInv'
  BY DEF TypeOK, LabelInv, LockInv, Critical, FailureLabels
<1>3. LaunchInv' /\ RunningInv'
  BY DEF TypeOK, LaunchInv, RunningInv
<1>4. WorkerInv' /\ CarryInv'
  BY DEF TypeOK, WorkerInv, CarryInv, Exits
<1>5. FiledInv' /\ PublishInv'
  BY DEF TypeOK, FiledInv, PublishInv
<1>6. EvidenceInv'
  BY DEF TypeOK, EvidenceInv, StatusHasEvidence, Evidence, TrustedOutcome
<1> QED BY <1>1, <1>2, <1>3, <1>4, <1>5, <1>6 DEF CancelledIffConfirmed

(* FailureMeta: a failed task needs no evidence; a terminal one is left as *)
(* it is.                                                                  *)
LEMMA FailureMetaInd ==
    ASSUME IndInv, NEW p \in Actors, FailureMeta(p)
    PROVE  IndInv'
<1> USE ActorsAssumption DEF IndInv, Actors, FailureMeta, Goto, metaVars, fileVars,
   workerVars, procVars, HasReceipt, HasHandoff, Carry, Drop
<1>1. TypeOK'
  BY DEF TypeOK, Labels, Statuses, TermStates, Terminal
<1>2. LabelInv' /\ LockInv'
  BY DEF TypeOK, LabelInv, LockInv, Critical, FailureLabels
<1>3. LaunchInv' /\ RunningInv'
  BY DEF LockInv, LaunchInv, RunningInv, Critical
<1>4. WorkerInv' /\ CarryInv'
  BY DEF TypeOK, WorkerInv, CarryInv, Terminal, Exits
<1>5. FiledInv' /\ PublishInv'
  BY DEF FiledInv, PublishInv, Terminal
<1>6. CancelledIffConfirmed'
  BY DEF CancelledIffConfirmed, Terminal
<1>7. EvidenceInv'
  BY DEF EvidenceInv, StatusHasEvidence, Evidence, TrustedOutcome
<1> QED BY <1>1, <1>2, <1>3, <1>4, <1>5, <1>6, <1>7

(* FailureAborts: only with the "fallback" fault may a task be concluded   *)
(* unfiled.                                                                *)
LEMMA FailureAbortsInd ==
    ASSUME IndInv, NEW p \in Actors, FailureAborts(p)
    PROVE  IndInv'
<1> USE ActorsAssumption DEF IndInv, Actors, FailureAborts, Goto, metaVars, fileVars,
   workerVars, procVars, HasReceipt, HasHandoff, GiveUp, Return, Drop, Home
<1>1. TypeOK'
  BY DEF TypeOK, Labels, Statuses, TermStates
<1>2. LabelInv' /\ LockInv'
  BY DEF TypeOK, LabelInv, LockInv, Critical, FailureLabels
<1>3. LaunchInv' /\ RunningInv'
  BY DEF TypeOK, LaunchInv, RunningInv
<1>4. WorkerInv' /\ CarryInv'
  BY DEF TypeOK, WorkerInv, CarryInv, Exits
<1>5. FiledInv' /\ PublishInv'
  BY DEF TypeOK, FiledInv, PublishInv
<1>6. EvidenceInv'
  BY DEF TypeOK, EvidenceInv, StatusHasEvidence, Evidence, TrustedOutcome
<1> QED BY <1>1, <1>2, <1>3, <1>4, <1>5, <1>6 DEF CancelledIffConfirmed

(* ScanHandoff: going to "notify" requires that a handoff exists.          *)
LEMMA ScanHandoffInd ==
    ASSUME IndInv, NEW p \in Actors, ScanHandoff(p)
    PROVE  IndInv'
<1> USE ActorsAssumption DEF IndInv, Actors, ScanHandoff, Goto, metaVars, fileVars,
   workerVars, procVars, HasReceipt, HasHandoff
<1>1. TypeOK'
  BY DEF TypeOK, Labels, Statuses, TermStates
<1>2. LabelInv' /\ LockInv'
  BY DEF LabelInv, LockInv, Critical, FailureLabels
<1>3. LaunchInv' /\ RunningInv'
  BY DEF LaunchInv, RunningInv
<1>4. WorkerInv' /\ CarryInv'
  BY DEF WorkerInv, CarryInv, Exits
<1>5. FiledInv' /\ PublishInv'
  BY DEF FiledInv, PublishInv
<1>6. EvidenceInv'
  BY DEF EvidenceInv, StatusHasEvidence, Evidence, TrustedOutcome
<1> QED BY <1>1, <1>2, <1>3, <1>4, <1>5, <1>6 DEF CancelledIffConfirmed

(* PublishHandoff: the handoff exists from here on.                        *)
LEMMA PublishHandoffInd ==
    ASSUME IndInv, NEW p \in Actors, PublishHandoff(p)
    PROVE  IndInv'
<1> USE ActorsAssumption DEF IndInv, Actors, PublishHandoff, Goto, metaVars, fileVars,
   workerVars, procVars, HasReceipt, HasHandoff
<1>1. TypeOK'
  BY DEF TypeOK, Labels, Statuses, TermStates, CarryInv
<1>2. LabelInv' /\ LockInv'
  BY DEF LabelInv, LockInv, Critical, FailureLabels
<1>3. LaunchInv' /\ RunningInv'
  BY DEF LaunchInv, RunningInv
<1>4. WorkerInv' /\ CarryInv'
  BY DEF WorkerInv, CarryInv, Exits
<1>5. FiledInv' /\ PublishInv'
  BY DEF TypeOK, FiledInv, PublishInv, Terminal, CarryInv
<1>6. EvidenceInv'
  BY DEF EvidenceInv, StatusHasEvidence, Evidence, TrustedOutcome
<1> QED BY <1>1, <1>2, <1>3, <1>4, <1>5, <1>6 DEF CancelledIffConfirmed

(* WriteEvent: the actor returns, or goes on to answer for a terminal      *)
(* task.                                                                   *)
LEMMA WriteEventInd ==
    ASSUME IndInv, NEW p \in Actors, WriteEvent(p)
    PROVE  IndInv'
<1> USE ActorsAssumption DEF IndInv, Actors, WriteEvent, Goto, metaVars, fileVars,
   workerVars, procVars, HasReceipt, HasHandoff, HandedOver, Return, Drop, Home
<1>1. TypeOK'
  BY DEF TypeOK, Labels, Statuses, TermStates, CarryInv
<1>2. LabelInv' /\ LockInv'
  BY DEF TypeOK, LabelInv, LockInv, Critical, FailureLabels
<1>3. LaunchInv' /\ RunningInv'
  BY DEF TypeOK, LaunchInv, RunningInv
<1>4. WorkerInv' /\ CarryInv'
  BY DEF TypeOK, WorkerInv, CarryInv, Exits
<1>5. FiledInv' /\ PublishInv'
  BY DEF TypeOK, FiledInv, PublishInv
<1>6. EvidenceInv'
  BY DEF TypeOK, EvidenceInv, StatusHasEvidence, Evidence, TrustedOutcome
<1> QED BY <1>1, <1>2, <1>3, <1>4, <1>5, <1>6 DEF CancelledIffConfirmed

(* PublishFails: the actor returns, or goes on to answer for a terminal    *)
(* task.                                                                   *)
LEMMA PublishFailsInd ==
    ASSUME IndInv, NEW p \in Actors, PublishFails(p)
    PROVE  IndInv'
<1> USE ActorsAssumption DEF IndInv, Actors, PublishFails, Goto, metaVars, fileVars,
   workerVars, procVars, HasReceipt, HasHandoff, HandedOver, Return, Drop, Home
<1>1. TypeOK'
  BY DEF TypeOK, Labels, Statuses, TermStates
<1>2. LabelInv' /\ LockInv'
  BY DEF TypeOK, LabelInv, LockInv, Critical, FailureLabels
<1>3. LaunchInv' /\ RunningInv'
  BY DEF TypeOK, LaunchInv, RunningInv
<1>4. WorkerInv' /\ CarryInv'
  BY DEF TypeOK, WorkerInv, CarryInv, Exits
<1>5. FiledInv' /\ PublishInv'
  BY DEF TypeOK, FiledInv, PublishInv
<1>6. EvidenceInv'
  BY DEF TypeOK, EvidenceInv, StatusHasEvidence, Evidence, TrustedOutcome
<1> QED BY <1>1, <1>2, <1>3, <1>4, <1>5, <1>6 DEF CancelledIffConfirmed

(* CancelIntent: the task runs, so it is not cancelled and may be          *)
(* "requested".                                                            *)
LEMMA CancelIntentInd ==
    ASSUME IndInv, NEW c \in Cancellers, CancelIntent(c)
    PROVE  IndInv'
<1> USE ActorsAssumption DEF IndInv, Actors, CancelIntent, Goto, metaVars, fileVars,
   workerVars, procVars, HasReceipt, HasHandoff
<1>1. TypeOK'
  BY DEF TypeOK, Labels, Statuses, TermStates
<1>2. LabelInv' /\ LockInv'
  BY DEF LabelInv, LockInv, Critical, FailureLabels
<1>3. LaunchInv' /\ RunningInv'
  BY DEF LaunchInv, RunningInv
<1>4. WorkerInv' /\ CarryInv'
  BY DEF WorkerInv, CarryInv, Exits
<1>5. FiledInv' /\ PublishInv'
  BY DEF FiledInv, PublishInv
<1>6. CancelledIffConfirmed'
  BY DEF CancelledIffConfirmed
<1>7. EvidenceInv'
  BY DEF EvidenceInv, StatusHasEvidence, Evidence, TrustedOutcome
<1> QED BY <1>1, <1>2, <1>3, <1>4, <1>5, <1>6, <1>7

(* CancelQuery: the caller carries "unresolved" if it skips the signal.    *)
LEMMA CancelQueryInd ==
    ASSUME IndInv, NEW c \in Cancellers, CancelQuery(c)
    PROVE  IndInv'
<1> USE ActorsAssumption DEF IndInv, Actors, CancelQuery, Goto, metaVars, fileVars,
   workerVars, procVars, HasReceipt, HasHandoff, Carry, LauncherUp
<1>1. TypeOK'
  BY DEF TypeOK, Labels, Statuses, TermStates
<1>2. LabelInv' /\ LockInv'
  BY DEF TypeOK, LabelInv, LockInv, Critical, FailureLabels
<1>3. LaunchInv' /\ RunningInv'
  BY DEF TypeOK, LaunchInv, RunningInv
<1>4. WorkerInv' /\ CarryInv'
  BY DEF TypeOK, WorkerInv, CarryInv, Exits
<1>5. FiledInv' /\ PublishInv'
  BY DEF TypeOK, FiledInv, PublishInv
<1>6. EvidenceInv'
  BY DEF TypeOK, EvidenceInv, StatusHasEvidence, Evidence, TrustedOutcome
<1> QED BY <1>1, <1>2, <1>3, <1>4, <1>5, <1>6 DEF CancelledIffConfirmed

(* CancelKill: the caller carries "signal_sent" or "unresolved".           *)
LEMMA CancelKillInd ==
    ASSUME IndInv, NEW c \in Cancellers, CancelKill(c)
    PROVE  IndInv'
<1> USE ActorsAssumption DEF IndInv, Actors, CancelKill, Goto, metaVars, fileVars,
   workerVars, procVars, HasReceipt, HasHandoff, Carry, LauncherUp, LauncherGone
<1>1. TypeOK'
  <2>1. loc' \in [Actors -> Statuses \union Outcomes \union TermStates]
    BY DEF TypeOK, TermStates
  <2>2. pc' \in [Actors -> Labels]
    BY DEF TypeOK, Labels
  <2>3. killed' \in BOOLEAN
    BY DEF TypeOK
  <2> QED BY <2>1, <2>2, <2>3 DEF TypeOK
<1>2. LabelInv' /\ LockInv'
  BY DEF LabelInv, LockInv, Critical, FailureLabels
<1>3. LaunchInv' /\ RunningInv'
  BY DEF LaunchInv, RunningInv
<1>4. WorkerInv' /\ CarryInv'
  BY DEF TypeOK, WorkerInv, CarryInv, Exits
<1>5. FiledInv' /\ PublishInv'
  BY DEF FiledInv, PublishInv
<1>6. EvidenceInv'
  BY DEF TypeOK, EvidenceInv, StatusHasEvidence, Evidence, TrustedOutcome
<1> QED BY <1>1, <1>2, <1>3, <1>4, <1>5, <1>6 DEF CancelledIffConfirmed

(* CancelPersist: status and termination are written together; done needs  *)
(* a clean receipt.                                                        *)
LEMMA CancelPersistInd ==
    ASSUME IndInv, NEW c \in Cancellers, CancelPersist(c)
    PROVE  IndInv'
<1> USE ActorsAssumption DEF IndInv, Actors, CancelPersist, Goto, metaVars, fileVars,
   workerVars, procVars, HasReceipt, HasHandoff
<1>1. TypeOK'
  BY DEF TypeOK, Labels, Statuses, TermStates, CarryInv, Terminal
<1>2. LabelInv' /\ LockInv'
  BY DEF LabelInv, LockInv, Critical, FailureLabels
<1>3. LaunchInv' /\ RunningInv'
  BY DEF LockInv, LaunchInv, RunningInv, Critical
<1>4. WorkerInv' /\ CarryInv'
  BY DEF WorkerInv, CarryInv, Exits
<1>5. FiledInv' /\ PublishInv'
  BY DEF FiledInv, PublishInv, Terminal
<1>6. CancelledIffConfirmed'
  BY DEF CarryInv, CancelledIffConfirmed
<1>7. EvidenceInv'
  BY DEF CarryInv, EvidenceInv, StatusHasEvidence, Evidence, TrustedOutcome
<1> QED BY <1>1, <1>2, <1>3, <1>4, <1>5, <1>6, <1>7

(* CancelGivesUp: nothing but the caller moves.                            *)
LEMMA CancelGivesUpInd ==
    ASSUME IndInv, NEW c \in Cancellers, CancelGivesUp(c)
    PROVE  IndInv'
<1> USE ActorsAssumption DEF IndInv, Actors, CancelGivesUp, Goto, metaVars, fileVars,
   workerVars, procVars, HasReceipt, HasHandoff
<1>1. TypeOK'
  BY DEF TypeOK, Labels, Statuses, TermStates
<1>2. LabelInv' /\ LockInv'
  BY DEF LabelInv, LockInv, Critical, FailureLabels
<1>3. LaunchInv' /\ RunningInv'
  BY DEF LaunchInv, RunningInv
<1>4. WorkerInv' /\ CarryInv'
  BY DEF WorkerInv, CarryInv, Exits
<1>5. FiledInv' /\ PublishInv'
  BY DEF FiledInv, PublishInv
<1>6. EvidenceInv'
  BY DEF EvidenceInv, StatusHasEvidence, Evidence, TrustedOutcome
<1> QED BY <1>1, <1>2, <1>3, <1>4, <1>5, <1>6 DEF CancelledIffConfirmed

(* ObserveTerminal: the answer carries the terminal status it read.        *)
LEMMA ObserveTerminalInd ==
    ASSUME IndInv, NEW o \in Observers, ObserveTerminal(o)
    PROVE  IndInv'
<1> USE ActorsAssumption DEF IndInv, Actors, ObserveTerminal, Goto, metaVars, fileVars,
   workerVars, procVars, HasReceipt, HasHandoff, Carry
<1>1. TypeOK'
  BY DEF TypeOK, Labels, Statuses, TermStates
<1>2. LabelInv' /\ LockInv'
  BY DEF LabelInv, LockInv, Critical, FailureLabels
<1>3. LaunchInv' /\ RunningInv'
  BY DEF LaunchInv, RunningInv, Terminal
<1>4. WorkerInv' /\ CarryInv'
  BY DEF TypeOK, WorkerInv, CarryInv, Exits
<1>5. FiledInv' /\ PublishInv'
  BY DEF FiledInv, PublishInv
<1>6. EvidenceInv'
  BY DEF EvidenceInv, StatusHasEvidence, Evidence, TrustedOutcome
<1> QED BY <1>1, <1>2, <1>3, <1>4, <1>5, <1>6 DEF CancelledIffConfirmed

(* ObserveRunning: the lock was free and is taken.                         *)
LEMMA ObserveRunningInd ==
    ASSUME IndInv, NEW o \in Observers, ObserveRunning(o)
    PROVE  IndInv'
<1> USE ActorsAssumption DEF IndInv, Actors, ObserveRunning, Goto, metaVars, fileVars,
   workerVars, procVars, HasReceipt, HasHandoff, Take
<1>1. TypeOK'
  BY DEF TypeOK, Labels, Statuses, TermStates
<1>2. LabelInv' /\ LockInv'
  BY DEF LabelInv, LockInv
<1>3. LaunchInv' /\ RunningInv'
  BY DEF LaunchInv, RunningInv
<1>4. WorkerInv' /\ CarryInv'
  BY DEF WorkerInv, CarryInv, Exits
<1>5. FiledInv' /\ PublishInv'
  BY DEF FiledInv, PublishInv
<1>6. EvidenceInv'
  BY DEF EvidenceInv, StatusHasEvidence, Evidence, TrustedOutcome
<1> QED BY <1>1, <1>2, <1>3, <1>4, <1>5, <1>6 DEF CancelledIffConfirmed

(* ReconcileTerminal: the answer carries the terminal status it read.      *)
LEMMA ReconcileTerminalInd ==
    ASSUME IndInv, NEW o \in Observers, ReconcileTerminal(o)
    PROVE  IndInv'
<1> USE ActorsAssumption DEF IndInv, Actors, ReconcileTerminal, Goto, metaVars, fileVars,
   workerVars, procVars, HasReceipt, HasHandoff, Carry
<1>1. TypeOK'
  BY DEF TypeOK, Labels, Statuses, TermStates
<1>2. LabelInv' /\ LockInv'
  BY DEF LabelInv, LockInv, Critical
<1>3. LaunchInv' /\ RunningInv'
  BY DEF LaunchInv, RunningInv
<1>4. WorkerInv' /\ CarryInv'
  BY DEF TypeOK, WorkerInv, CarryInv, Exits
<1>5. FiledInv' /\ PublishInv'
  BY DEF FiledInv, PublishInv
<1>6. EvidenceInv'
  BY DEF EvidenceInv, StatusHasEvidence, Evidence, TrustedOutcome
<1> QED BY <1>1, <1>2, <1>3, <1>4, <1>5, <1>6 DEF CancelledIffConfirmed

(* ReconcileReceipt: the receipt has the evidence of the status read off   *)
(* it.                                                                     *)
LEMMA ReconcileReceiptInd ==
    ASSUME IndInv, NEW o \in Observers, ReconcileReceipt(o)
    PROVE  IndInv'
<1> USE ActorsAssumption DEF IndInv, Actors, ReconcileReceipt, Goto, metaVars, fileVars,
   workerVars, procVars, HasReceipt, HasHandoff, Reconcile, ReconciledStatus,
   AuthoritativeStatus, Carry, Return, Drop, Home
<1>1. TypeOK'
  BY DEF TypeOK, Labels, Statuses, TermStates, Terminal
<1>2. LabelInv' /\ LockInv'
  BY DEF TypeOK, LabelInv, LockInv, Critical, FailureLabels
<1>3. LaunchInv' /\ RunningInv'
  BY DEF TypeOK, LockInv, LaunchInv, RunningInv, Critical
<1>4. WorkerInv' /\ CarryInv'
  BY DEF TypeOK, WorkerInv, CarryInv, Terminal, Exits
<1>5. FiledInv' /\ PublishInv'
  BY DEF TypeOK, FiledInv, PublishInv, Terminal
<1>6. CancelledIffConfirmed'
  BY DEF CancelledIffConfirmed
<1>7. EvidenceInv'
  <2> DEFINE new == ReconciledStatus(AuthoritativeStatus(receipt))
  <2>1. new \in {"done", "needs_input", "failed", "cancelled", "running"}
    BY DEF IsSuccess
  <2>2. new = "done" => receipt.exit = "zero" /\ receipt.outcome = "completed"
    BY DEF IsSuccess
  <2>3. new = "needs_input" => receipt.outcome = "needs_input"
    BY DEF IsSuccess
  <2>4. status' \in {status, new} /\ term' \in {term, "confirmed"}
    OBVIOUS
  <2>5. Evidence(status)' /\ (status' \in {"done", "needs_input",
     "timeout"} => worker = "exited")
    BY <2>1, <2>2, <2>3, <2>4 DEF EvidenceInv, Evidence
  <2>6. pc'[Launcher] = pc[Launcher] /\ loc'[Launcher] = loc[Launcher]
    BY DEF TypeOK
  <2>7. UNCHANGED <<receipt, outcome, worker, workerExit>>
    OBVIOUS
  <2>8. pc[Launcher] # "finMeta"
    BY DEF LockInv, Critical
  <2> QED BY <2>5, <2>6, <2>7, <2>8 DEF EvidenceInv, StatusHasEvidence, TrustedOutcome
<1> QED BY <1>1, <1>2, <1>3, <1>4, <1>5, <1>6, <1>7

(* ReconcileNoReceipt: the lock is kept.                                   *)
LEMMA ReconcileNoReceiptInd ==
    ASSUME IndInv, NEW o \in Observers, ReconcileNoReceipt(o)
    PROVE  IndInv'
<1> USE ActorsAssumption DEF IndInv, Actors, ReconcileNoReceipt, Goto, metaVars,
   fileVars, workerVars, procVars, HasReceipt, HasHandoff
<1>1. TypeOK'
  BY DEF TypeOK, Labels, Statuses, TermStates
<1>2. LabelInv' /\ LockInv'
  BY DEF LabelInv, LockInv, Critical
<1>3. LaunchInv' /\ RunningInv'
  BY DEF LaunchInv, RunningInv
<1>4. WorkerInv' /\ CarryInv'
  BY DEF WorkerInv, CarryInv, Exits
<1>5. FiledInv' /\ PublishInv'
  BY DEF FiledInv, PublishInv
<1>6. EvidenceInv'
  BY DEF EvidenceInv, StatusHasEvidence, Evidence, TrustedOutcome
<1> QED BY <1>1, <1>2, <1>3, <1>4, <1>5, <1>6 DEF CancelledIffConfirmed

(* ReconcileRegistry: a call that skips the failure path has a receipt     *)
(* before it.                                                              *)
LEMMA ReconcileRegistryInd ==
    ASSUME IndInv, NEW o \in Observers, ReconcileRegistry(o)
    PROVE  IndInv'
<1> USE ActorsAssumption DEF IndInv, Actors, ReconcileRegistry, Goto, metaVars, fileVars,
   workerVars, procVars, HasReceipt, HasHandoff, LauncherGone
<1>1. TypeOK'
  BY DEF TypeOK, Labels, Statuses, TermStates
<1>2. LabelInv' /\ LockInv'
  BY DEF LabelInv, LockInv, Critical, FailureLabels
<1>3. LaunchInv' /\ RunningInv'
  BY DEF LaunchInv, RunningInv
<1>4. WorkerInv' /\ CarryInv'
  BY DEF WorkerInv, CarryInv, Exits
<1>5. FiledInv' /\ PublishInv'
  BY DEF FiledInv, PublishInv
<1>6. EvidenceInv'
  BY DEF EvidenceInv, StatusHasEvidence, Evidence, TrustedOutcome
<1> QED BY <1>1, <1>2, <1>3, <1>4, <1>5, <1>6 DEF CancelledIffConfirmed

(* ReconcileConclude: failed needs no evidence, and cancelled is confirmed *)
(* with it.                                                                *)
LEMMA ReconcileConcludeInd ==
    ASSUME IndInv, NEW o \in Observers, ReconcileConclude(o)
    PROVE  IndInv'
<1> USE ActorsAssumption DEF IndInv, Actors, ReconcileConclude, Goto, metaVars, fileVars,
   workerVars, procVars, HasReceipt, HasHandoff, Reconcile, ReconciledStatus, Carry,
   Return, Drop, Home
<1>1. TypeOK'
  BY DEF TypeOK, Labels, Statuses, TermStates, Terminal
<1>2. LabelInv' /\ LockInv'
  BY DEF TypeOK, LabelInv, LockInv, Critical, FailureLabels
<1>3. LaunchInv' /\ RunningInv'
  BY DEF TypeOK, LockInv, LaunchInv, RunningInv, Critical
<1>4. WorkerInv' /\ CarryInv'
  BY DEF TypeOK, WorkerInv, CarryInv, Terminal, Exits
<1>5. FiledInv' /\ PublishInv'
  BY DEF TypeOK, FiledInv, PublishInv, Terminal
<1>6. CancelledIffConfirmed'
  BY DEF CancelledIffConfirmed
<1>7. EvidenceInv'
  BY DEF TypeOK, EvidenceInv, StatusHasEvidence, Evidence, TrustedOutcome
<1> QED BY <1>1, <1>2, <1>3, <1>4, <1>5, <1>6, <1>7

(* ReconcileNothing: the call returns and releases the lock.               *)
LEMMA ReconcileNothingInd ==
    ASSUME IndInv, NEW o \in Observers, ReconcileNothing(o)
    PROVE  IndInv'
<1> USE ActorsAssumption DEF IndInv, Actors, ReconcileNothing, Goto, metaVars, fileVars,
   workerVars, procVars, HasReceipt, HasHandoff, Return, Drop, Home
<1>1. TypeOK'
  BY DEF TypeOK, Labels, Statuses, TermStates
<1>2. LabelInv' /\ LockInv'
  BY DEF TypeOK, LabelInv, LockInv, Critical, FailureLabels
<1>3. LaunchInv' /\ RunningInv'
  BY DEF LaunchInv, RunningInv
<1>4. WorkerInv' /\ CarryInv'
  BY DEF WorkerInv, CarryInv, Exits
<1>5. FiledInv' /\ PublishInv'
  BY DEF FiledInv, PublishInv
<1>6. EvidenceInv'
  BY DEF EvidenceInv, StatusHasEvidence, Evidence, TrustedOutcome
<1> QED BY <1>1, <1>2, <1>3, <1>4, <1>5, <1>6 DEF CancelledIffConfirmed

(* RecoverScan: the carried status was terminal when it was read.          *)
LEMMA RecoverScanInd ==
    ASSUME IndInv, NEW o \in Observers, RecoverScan(o)
    PROVE  IndInv'
<1> USE ActorsAssumption DEF IndInv, Actors, RecoverScan, Goto, metaVars, fileVars,
   workerVars, procVars, HasReceipt, HasHandoff, Return, Drop, Home
<1>1. TypeOK'
  BY DEF TypeOK, Labels, Statuses, TermStates
<1>2. LabelInv' /\ LockInv'
  BY DEF TypeOK, LabelInv, LockInv, Critical, FailureLabels
<1>3. LaunchInv' /\ RunningInv'
  BY DEF TypeOK, LaunchInv, RunningInv
<1>4. WorkerInv' /\ CarryInv'
  BY DEF TypeOK, WorkerInv, CarryInv, Exits
<1>5. FiledInv' /\ PublishInv'
  BY DEF TypeOK, FiledInv, PublishInv
<1>6. EvidenceInv'
  BY DEF TypeOK, EvidenceInv, StatusHasEvidence, Evidence, TrustedOutcome
<1> QED BY <1>1, <1>2, <1>3, <1>4, <1>5, <1>6 DEF CancelledIffConfirmed

(* RecoverHandoff: handoffs only add up.                                   *)
LEMMA RecoverHandoffInd ==
    ASSUME IndInv, NEW o \in Observers, RecoverHandoff(o)
    PROVE  IndInv'
<1> USE ActorsAssumption DEF IndInv, Actors, RecoverHandoff, Goto, metaVars, fileVars,
   workerVars, procVars, HasReceipt, HasHandoff, Return, Drop, Home
<1>1. TypeOK'
  BY DEF TypeOK, Labels, Statuses, TermStates, CarryInv
<1>2. LabelInv' /\ LockInv'
  BY DEF LabelInv, LockInv, Critical, FailureLabels
<1>3. LaunchInv' /\ RunningInv'
  BY DEF LaunchInv, RunningInv
<1>4. WorkerInv' /\ CarryInv'
  BY DEF WorkerInv, CarryInv, Exits
<1>5. FiledInv' /\ PublishInv'
  BY DEF TypeOK, FiledInv, PublishInv, Terminal, CarryInv
<1>6. EvidenceInv'
  BY DEF EvidenceInv, StatusHasEvidence, Evidence, TrustedOutcome
<1> QED BY <1>1, <1>2, <1>3, <1>4, <1>5, <1>6 DEF CancelledIffConfirmed

(* LauncherDies: a dead process releases its lock and promises nothing.    *)
LEMMA LauncherDiesInd ==
    ASSUME IndInv, LauncherDies
    PROVE  IndInv'
<1> USE ActorsAssumption DEF IndInv, Actors, LauncherDies, Goto, metaVars, fileVars,
   workerVars, procVars, HasReceipt, HasHandoff, LauncherUp, Drop
<1>1. TypeOK'
  BY DEF TypeOK, Labels, Statuses, TermStates
<1>2. LabelInv' /\ LockInv'
  BY DEF TypeOK, LabelInv, LockInv, Critical
<1>3. LaunchInv' /\ RunningInv'
  BY DEF LaunchInv, RunningInv
<1>4. WorkerInv' /\ CarryInv'
  BY DEF WorkerInv, CarryInv, Exits
<1>5. FiledInv' /\ PublishInv'
  BY DEF FiledInv, PublishInv
<1>6. EvidenceInv'
  BY DEF EvidenceInv, StatusHasEvidence, Evidence, TrustedOutcome
<1> QED BY <1>1, <1>2, <1>3, <1>4, <1>5, <1>6 DEF CancelledIffConfirmed

(* Crash: a dead process releases its lock and promises nothing.           *)
LEMMA CrashInd ==
    ASSUME IndInv, NEW p \in Actors, Crash(p)
    PROVE  IndInv'
<1> USE ActorsAssumption DEF IndInv, Actors, Crash, Goto, metaVars, fileVars, workerVars,
   procVars, HasReceipt, HasHandoff, Drop, Home
<1>1. TypeOK'
  BY DEF TypeOK, Labels, Statuses, TermStates
<1>2. LabelInv' /\ LockInv'
  BY DEF TypeOK, LabelInv, LockInv, Critical, FailureLabels
<1>3. LaunchInv' /\ RunningInv'
  BY DEF LaunchInv, RunningInv
<1>4. WorkerInv' /\ CarryInv'
  BY DEF WorkerInv, CarryInv, Exits
<1>5. FiledInv' /\ PublishInv'
  BY DEF FiledInv, PublishInv
<1>6. EvidenceInv'
  BY DEF EvidenceInv, StatusHasEvidence, Evidence, TrustedOutcome
<1> QED BY <1>1, <1>2, <1>3, <1>4, <1>5, <1>6 DEF CancelledIffConfirmed

(* The initial state satisfies the inductive invariant. *)
LEMMA InitInd == Init => IndInv
<1> SUFFICES ASSUME Init PROVE IndInv
  OBVIOUS
<1> USE ActorsAssumption DEF Init, Actors
<1>1. TypeOK
  BY DEF TypeOK, Statuses, TermStates, Labels
<1>2. LabelInv /\ LockInv
  BY DEF LabelInv, LockInv, Critical, FailureLabels
<1>3. LaunchInv
  <2>1. \A p \in Actors : pc[p] \in {"idle", "absent"}
    OBVIOUS
  <2>2. launches = 0 /\ launches <= 1
    OBVIOUS
  <2>3. pc[Launcher] = "absent"
    OBVIOUS
  <2> HIDE DEF Init
  <2> QED BY <2>1, <2>2, <2>3 DEF LaunchInv
<1>4. RunningInv /\ WorkerInv /\ CarryInv
  BY DEF RunningInv, WorkerInv, CarryInv
<1>5. FiledInv /\ PublishInv
  BY DEF FiledInv, PublishInv, Terminal
<1>6. CancelledIffConfirmed
  BY DEF CancelledIffConfirmed
<1>7. EvidenceInv
  BY DEF EvidenceInv, StatusHasEvidence, Evidence, NoReceipt
<1> QED BY <1>1, <1>2, <1>3, <1>4, <1>5, <1>6, <1>7 DEF IndInv

(* So does every step: one case per operation. *)
LEMMA StepInd == IndInv /\ [Next]_vars => IndInv'
<1> SUFFICES ASSUME IndInv, [Next]_vars PROVE IndInv'
  OBVIOUS
<1>1. ASSUME NEW s \in Starters,
   StartBegin(s) \/ StartRejected(s) \/ StartStep(s) PROVE IndInv'
  BY <1>1, StartBeginInd, StartRejectedInd, StartFailsInd, StartSpawnInd, StartCommitInd,
     StartCommitFailsInd DEF StartStep
<1>2. CASE WorkerStep
  BY <1>2, WorkerSubmitInd, WorkerWriteInd, WorkerExitInd DEF WorkerStep
<1>3. CASE LauncherStep
  BY <1>3, LauncherSpawnsWorkerInd, LauncherRefusesInd, LauncherTimesOutInd,
     LauncherReapsInd, FinalizeRenderInd, FinalizeRecordInd, FinalizeLockInd,
     FinalizeReceiptInd, FinalizeMetaInd, FinalizeAbortsInd DEF LauncherStep
<1>4. ASSUME NEW p \in Actors, FailureStep(p) \/ HandOverStep(p) PROVE IndInv'
  BY <1>4, FailureCheckInd, FailureReceiptInd, FailureLockInd, FailureMetaInd,
     FailureAbortsInd, ScanHandoffInd, PublishHandoffInd, WriteEventInd,
     PublishFailsInd DEF FailureStep, HandOverStep
<1>5. ASSUME NEW c \in Cancellers, CancelIntent(c) \/ CancelStep(c) PROVE IndInv'
  BY <1>5, CancelIntentInd, CancelQueryInd, CancelKillInd, CancelPersistInd,
     CancelGivesUpInd DEF CancelStep
<1>6. ASSUME NEW o \in Observers, ObserveTerminal(o) \/ ObserveRunning(o) \/ ObserveStep(o)
      PROVE  IndInv'
  BY <1>6, ObserveTerminalInd, ObserveRunningInd, ReconcileTerminalInd,
     ReconcileReceiptInd, ReconcileNoReceiptInd, ReconcileRegistryInd,
     ReconcileConcludeInd, ReconcileNothingInd, RecoverScanInd,
     RecoverHandoffInd DEF ObserveStep
<1>7. CASE LauncherDies
  BY <1>7, LauncherDiesInd
<1>8. ASSUME NEW p \in Actors, Crash(p) PROVE IndInv'
  BY <1>8, CrashInd
<1>9. CASE UNCHANGED vars
  BY <1>9 DEF vars, IndInv, TypeOK, LabelInv, LockInv, LaunchInv, RunningInv, WorkerInv,
     CarryInv, FiledInv, PublishInv, CancelledIffConfirmed, EvidenceInv,
     StatusHasEvidence, Evidence, TrustedOutcome, HasReceipt, HasHandoff
<1> QED BY <1>1, <1>2, <1>3, <1>4, <1>5, <1>6, <1>7, <1>8, <1>9 DEF Next

(* IndInv holds in every reachable state, for any sets of callers, any     *)
(* faults and any crashes.                                                 *)
THEOREM InductiveInvariance == Spec => []IndInv
<1> QED BY InitInd, StepInd, PTL DEF Spec

(* Every variable keeps its type. *)
THEOREM TypeCorrect == Spec => []TypeOK
<1>1. IndInv => TypeOK
  BY DEF IndInv
<1> QED BY <1>1, InductiveInvariance, PTL

(* However many start calls race or die half-way, one launcher is spawned. *)
THEOREM OneLaunch == Spec => []AtMostOneLaunch
<1>1. IndInv => AtMostOneLaunch
  BY DEF IndInv, LaunchInv, AtMostOneLaunch
<1> QED BY <1>1, InductiveInvariance, PTL

(* The four writers of status and termination keep the two in step.        *)
THEOREM CancelledConfirmed == Spec => []CancelledIffConfirmed
<1>1. IndInv => CancelledIffConfirmed
  BY DEF IndInv
<1> QED BY <1>1, InductiveInvariance, PTL

(* Whoever decided it, a status is backed by what the worker did.          *)
THEOREM EvidenceBacked == Spec => []StatusHasEvidence
<1>1. IndInv => StatusHasEvidence
  BY DEF IndInv, EvidenceInv
<1> QED BY <1>1, InductiveInvariance, PTL

(* Unless the failure path cannot write its receipt, a terminal task has   *)
(* one (operator consistency rule A).                                      *)
THEOREM TerminalFiled ==
    ASSUME "fallback" \notin Faults
    PROVE  Spec => []TerminalHasReceipt
<1>1. IndInv => TerminalHasReceipt
  BY DEF IndInv, FiledInv, TerminalHasReceipt
<1> QED BY <1>1, InductiveInvariance, PTL

(* The status of a terminal task is never written again: seven actions     *)
(* write it, six of them guard the write, and RunningInv keeps the         *)
(* finalizer's, which is decided a step earlier.                           *)
LEMMA FinalStep ==
    IndInv /\ [Next]_vars => [(status \in Terminal) => UNCHANGED status]_vars
<1> SUFFICES ASSUME IndInv, Next, status \in Terminal PROVE UNCHANGED status
  OBVIOUS
<1> USE DEF metaVars
<1>1. status \notin {"frozen", "running"}
  BY DEF Terminal
<1>2. ASSUME NEW s \in Starters,
   StartBegin(s) \/ StartRejected(s) \/ StartStep(s) PROVE UNCHANGED status
  BY <1>1, <1>2 DEF IndInv, RunningInv, StartBegin, StartRejected, StartStep, StartFails,
     StartSpawn, StartCommit, StartCommitFails
<1>3. CASE WorkerStep
  BY <1>3 DEF WorkerStep, WorkerSubmit, WorkerWrite, WorkerExit
<1>4. CASE LauncherStep
  BY <1>1, <1>4 DEF IndInv, RunningInv, LauncherStep, LauncherSpawnsWorker,
     LauncherRefuses, LauncherTimesOut, LauncherReaps, FinalizeRender, FinalizeRecord,
     FinalizeLock, FinalizeReceipt, FinalizeMeta, FinalizeAborts
<1>5. ASSUME NEW p \in Actors, FailureStep(p) \/ HandOverStep(p) PROVE UNCHANGED status
  BY <1>5 DEF FailureStep, HandOverStep, FailureCheck, FailureReceipt, FailureLock,
     FailureMeta, FailureAborts, ScanHandoff, PublishHandoff, WriteEvent, PublishFails
<1>6. ASSUME NEW c \in Cancellers, CancelIntent(c) \/ CancelStep(c) PROVE UNCHANGED status
  BY <1>1, <1>6 DEF CancelIntent, CancelStep, CancelQuery, CancelKill, CancelPersist,
     CancelGivesUp
<1>7. ASSUME NEW o \in Observers, ObserveTerminal(o) \/ ObserveRunning(o) \/ ObserveStep(o)
      PROVE  UNCHANGED status
  BY <1>1, <1>7 DEF ObserveTerminal, ObserveRunning, ObserveStep, ReconcileTerminal,
     ReconcileReceipt, ReconcileNoReceipt, ReconcileRegistry, ReconcileConclude,
     ReconcileNothing, RecoverScan, RecoverHandoff
<1>8. CASE LauncherDies
  BY <1>8 DEF LauncherDies
<1>9. ASSUME NEW p \in Actors, Crash(p) PROVE UNCHANGED status
  BY <1>9 DEF Crash
<1> QED BY <1>2, <1>3, <1>4, <1>5, <1>6, <1>7, <1>8, <1>9 DEF Next

(* A task concludes once, whoever races to conclude it. *)
THEOREM Finality == Spec => TerminalIsFinal
<1> QED BY InductiveInvariance, FinalStep, PTL DEF Spec, TerminalIsFinal

(* Each step of the code is a step of TaskLifecycle or changes nothing     *)
(* TaskLifecycle sees, as long as the receipt of the failure path and the  *)
(* meta of a status call can be written.                                   *)
LEMMA RefineStep ==
    ASSUME "fallback" \notin Faults, "reconcile" \notin Faults, IndInv, [Next]_vars
    PROVE  [Lifecycle!ALNext]_(Lifecycle!alVars)
<1> USE DEF IndInv, Lifecycle!ALNext, Lifecycle!alVars, HasReceipt, HasHandoff, metaVars,
   fileVars, procVars
<1>0. Lifecycle!Terminal = Terminal
  BY DEF Lifecycle!Terminal, Terminal
<1>1. ASSUME NEW s \in Starters, StartBegin(s) PROVE Lifecycle!Start
  BY <1>1 DEF StartBegin, Lifecycle!Start
<1>2. ASSUME NEW s \in Starters, StartRejected(s) \/ StartStep(s)
      PROVE  UNCHANGED Lifecycle!alVars
  BY <1>2 DEF StartRejected, StartStep, StartFails, StartSpawn, StartCommit,
     StartCommitFails, RunningInv, workerVars
<1>3. CASE WorkerStep
  BY <1>3 DEF WorkerStep, WorkerSubmit, WorkerWrite, WorkerExit
<1>4. CASE LauncherStep
  <2>1. status # "frozen" \/ pc[Launcher] \in {"idle", "absent"}
    BY DEF LaunchInv, Actors
  <2>2. CASE FinalizeRecord
    BY <2>1, <2>2 DEF FinalizeRecord, NoReceipt, Lifecycle!File, CarryInv, Outcomes
  <2>3. CASE FinalizeReceipt
    BY <2>1, <2>3 DEF FinalizeReceipt, DecidedReceipt, NoReceipt, Lifecycle!File, CarryInv, Outcomes
  <2>4. CASE FinalizeMeta
    BY <1>0, <2>4 DEF FinalizeMeta, Lifecycle!Conclude, RunningInv, CarryInv, FiledInv,
       Actors, Terminal
  <2>5. CASE ~(FinalizeRecord \/ FinalizeReceipt \/ FinalizeMeta)
    BY <1>4, <2>5 DEF LauncherStep, LauncherSpawnsWorker, LauncherRefuses,
       LauncherTimesOut, LauncherReaps, FinalizeRender, FinalizeLock, FinalizeAborts
  <2> QED BY <2>2, <2>3, <2>4, <2>5
<1>5. ASSUME NEW p \in Actors, FailureStep(p) PROVE [Lifecycle!ALNext]_(Lifecycle!alVars)
  <2>1. status # "frozen" \/ pc[p] \in {"idle", "absent"}
    BY DEF LaunchInv
  <2>2. CASE FailureReceipt(p)
    BY <2>1, <2>2 DEF FailureReceipt, NoReceipt, Lifecycle!File
  <2>3. CASE FailureMeta(p)
    BY <1>0, <2>1, <2>3 DEF FailureMeta, Lifecycle!Conclude, FiledInv, TypeOK, Statuses,
       Terminal
  <2>4. CASE ~(FailureReceipt(p) \/ FailureMeta(p))
    BY <1>5, <2>4 DEF FailureStep, FailureCheck, FailureLock, FailureAborts
  <2> QED BY <2>2, <2>3, <2>4
<1>6. ASSUME NEW p \in Actors, HandOverStep(p) PROVE [Lifecycle!ALNext]_(Lifecycle!alVars)
  <2>1. CASE PublishHandoff(p)
    <3>1. handoff'[p] # "none"
      BY <2>1 DEF PublishHandoff, TypeOK, CarryInv, Terminal
    <3> QED BY <1>0, <2>1, <3>1 DEF PublishHandoff, Lifecycle!Publish, PublishInv
  <2>2. CASE WriteEvent(p)
    BY <2>2 DEF WriteEvent, Lifecycle!Notify, PublishInv
  <2>3. CASE ~(PublishHandoff(p) \/ WriteEvent(p))
    BY <1>6, <2>3 DEF HandOverStep, ScanHandoff, PublishFails
  <2> QED BY <2>1, <2>2, <2>3
<1>7. ASSUME NEW c \in Cancellers, CancelIntent(c) \/ CancelStep(c)
      PROVE  [Lifecycle!ALNext]_(Lifecycle!alVars)
  <2>1. CASE CancelPersist(c)
    BY <1>0, <2>1 DEF CancelPersist, Lifecycle!Conclude, Terminal
  <2>2. CASE ~CancelPersist(c)
    BY <1>7, <2>2 DEF CancelIntent, CancelStep, CancelQuery, CancelKill, CancelGivesUp
  <2> QED BY <2>1, <2>2
<1>8. ASSUME NEW o \in Observers, ObserveTerminal(o) \/ ObserveRunning(o) \/ ObserveStep(o)
      PROVE  [Lifecycle!ALNext]_(Lifecycle!alVars)
  <2>1. CASE ReconcileReceipt(o)
    BY <1>0, <2>1 DEF ReconcileReceipt, Reconcile, ReconciledStatus, AuthoritativeStatus,
       Lifecycle!Conclude, Terminal
  <2>2. CASE ReconcileConclude(o)
    BY <1>0, <2>2 DEF ReconcileConclude, Reconcile, ReconciledStatus, Lifecycle!Conclude,
       Terminal, TypeOK, Statuses, LaunchInv, FiledInv, Actors
  <2>3. CASE RecoverHandoff(o)
    <3>1. handoff' # handoff => handoff'[o] # "none"
      BY <2>3 DEF RecoverHandoff, TypeOK, CarryInv, Terminal, Actors
    <3>2. o \in Actors
      BY DEF Actors
    <3> QED BY <1>0, <2>3, <3>1, <3>2 DEF RecoverHandoff, Lifecycle!Publish, PublishInv
  <2>4. CASE ~(ReconcileReceipt(o) \/ ReconcileConclude(o) \/ RecoverHandoff(o))
    BY <1>8, <2>4 DEF ObserveTerminal, ObserveRunning, ObserveStep, ReconcileTerminal,
       ReconcileNoReceipt, ReconcileRegistry, ReconcileNothing, RecoverScan
  <2> QED BY <2>1, <2>2, <2>3, <2>4
<1>9. CASE LauncherDies
  BY <1>9 DEF LauncherDies
<1>10. ASSUME NEW p \in Actors, Crash(p) PROVE UNCHANGED Lifecycle!alVars
  BY <1>10 DEF Crash
<1>11. CASE UNCHANGED vars
  BY <1>11 DEF vars
<1> QED BY <1>1, <1>2, <1>3, <1>4, <1>5, <1>6, <1>7, <1>8, <1>9, <1>10, <1>11 DEF Next

(* The code implements the promise of TaskLifecycle under those two        *)
(* assumptions, whatever else fails or crashes.                            *)
THEOREM Refinement ==
    ASSUME "fallback" \notin Faults, "reconcile" \notin Faults
    PROVE  Spec => ImplementsLifecycle
<1>1. Init => Lifecycle!ALInit
  BY DEF Init, Lifecycle!ALInit, HasReceipt, HasHandoff
<1>2. IndInv /\ [Next]_vars => [Lifecycle!ALNext]_(Lifecycle!alVars)
  BY RefineStep
<1> QED BY <1>1, <1>2, InductiveInvariance, PTL DEF Spec, ImplementsLifecycle,
   Lifecycle!ALSpec

=============================================================================

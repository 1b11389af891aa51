-------------------------- MODULE PantavisorProofs --------------------------
(***************************************************************************)
(* Proofs about Pantavisor, for every set of revisions, every retry limit  *)
(* and every kind of boot environment: types, the inductive invariant IInv *)
(* and, from it, what the device was booted into, what DONE means and that *)
(* the boot environment implements SafeUpdate.  With two more invariants   *)
(* (StagedInv, KeptInv) an installed revision is the one that is tried,    *)
(* and the rollback point stays on disk.  All but the types assume that no *)
(* write to the environment is lost unnoticed (NoLostWrites); with such    *)
(* writes TLC finds counterexamples.                                       *)
(* The last part leaves the loop: the stores of EnvStore implement the     *)
(* environment that the loop is given.                                     *)
(*                                                                         *)
(* Each conjunct of IInv says what one variable knows of another at some   *)
(* point of the loop: what st says of update and running (LoopInv), what   *)
(* bl remembers of env before _pv_run (BootInv), and who is on trial       *)
(* (TrialInv, TransitionInv).  The refinement needs them to tell a commit  *)
(* from a change of an arbitrary key.                                      *)
(***************************************************************************)
EXTENDS Pantavisor, Integers, Sequences, WellFoundedInduction, TLAPS

\* An update that is being downloaded has not been tried yet.
DownloadInv == st = "UPDATE" => update.status \in {"INIT", "QUEUED", "RETRY_DOWNLOAD"}

(***************************************************************************)
(* What st says about running and update.                                  *)
(***************************************************************************)
Fresh == st \in {"OFF", "INIT"} \/ (st = "RUN" /\ update.status # "TRANSITION")

LoopInv ==
  /\ Fresh => running = NoRev /\ update = NoUpdate
  /\ ~Fresh /\ st \notin GivingUp => running # NoRev
  /\ st = "UPDATE" \/ update.status = "RETRY_DOWNLOAD" => update.pending \in Revs
  /\ st \in {"INSTALL", "INSTALL_ENV"} =>
       update.pending \in Revs /\ update.status \notin {"TRY", "TESTING_REBOOT"}
  /\ st = "INSTALLED" => update.status = "INSTALLED"
  /\ st \in {"FINISH_FAILED", "UPDATE_FAILED"} => update.status = "FAILED"
  /\ st \in {"COMMIT_TRY", "COMMIT_FLUSH", "COMMITTED"} => update.status = "TESTING_REBOOT"

(***************************************************************************)
(* What the boot loader did, as long as pantavisor has not looked at it.   *)
(***************************************************************************)
BootInv ==
  st = "INIT" \/ (st = "RUN" /\ update.status # "TRANSITION") =>
    /\ bl.pv_try = env["pv_try"]
    /\ bl.pv_rev \in {env["pv_try"], RollbackPoint(env)} \ {NoRev}

(***************************************************************************)
(* The phases of a trial.                                                  *)
(***************************************************************************)
Committing == {"COMMIT_TRY", "COMMIT_FLUSH", "COMMITTED"}

TrialInv ==
  /\ update.status \in {"TRY", "TESTING_REBOOT"} /\ st \notin GivingUp =>
       /\ running = bl.pv_rev
       /\ update.pending = running
       /\ st \notin Committing => env["pv_try"] = running
  /\ st \in Committing => env["pv_rev"] = running
  /\ st \in {"COMMIT_FLUSH", "COMMITTED"} => env["pv_try"] = NoRev

\* A revision about to be run in place is the candidate.
TransitionInv ==
  st = "INSTALLED" \/ (st = "RUN" /\ update.status = "TRANSITION") =>
    env["pv_try"] = update.pending /\ update.pending \in Revs

\* A revision to run is named, and "0" is made anew only when no update is there.
CmdInv ==
  /\ cmd.op = "LOCAL_RUN" => cmd.rev \in Revs
  /\ st = "MAKE_FACTORY" => update = NoUpdate

IInv ==
  /\ TypeOK
  /\ DownloadInv
  /\ LoopInv
  /\ BootInv
  /\ BootedIsRollbackPoint
  /\ TrialInv
  /\ TransitionInv
  /\ CmdInv

-----------------------------------------------------------------------------
(***************************************************************************)
(* The boot environment operators (bootloader.c, uboot.c, grub.c) yield    *)
(* environments.                                                           *)
(***************************************************************************)
LEMMA EnvOpsType ==
  ASSUME NEW e \in Env
  PROVE  /\ \A key \in EnvKeys : unset_env_key(e, key) \in Env
         /\ \A key \in EnvKeys, r \in RevOrNone : set_env_key(e, key, r) \in Env
         /\ flush_env(e) \in Env
         /\ BootNotes(e) \subseteq Env
         /\ RollbackPoint(e) \in Revs
         /\ BootRev(e) \in Revs
BY BootEnvAssumption DEF unset_env_key, set_env_key, flush_env, BootNotes, RollbackPoint,
     BootRev, FirstTry, Env, EnvKeys, RevOrNone

\* A write to the environment leaves what was there or what was to be written.
LEMMA EnvWritesType ==
  ASSUME NEW old, NEW new, NEW w \in EnvWrites(old, new)
  PROVE  w.env \in {old, new}
BY DEF EnvWrites

\* A stored status leaves a table of progress reports.
LEMMA StoreStatusType ==
  ASSUME NEW prog \in [Revs -> Reports], NEW tr, NEW u, NEW s
  PROVE  StoreStatus(prog, tr, u, s) \in [Revs -> Reports]
BY DEF StoreStatus, pv_storage_set_rev_progress, ProgressOf, Reports

\* Removing revisions leaves tables of trails and of progress reports.
LEMMA RmRevType ==
  ASSUME NEW S, NEW T, NEW f \in [Revs -> T], NEW gone \in T
  PROVE  pv_storage_rm_rev(f, S, gone) \in [Revs -> T]
BY DEF pv_storage_rm_rev

\* The same of the two tables at once.
LEMMA RemovedType ==
  ASSUME TypeOK, NEW S, Removed(S)
  PROVE  trail' \in [Revs -> Trails] /\ progress' \in [Revs -> Reports]
BY DEF Removed, TypeOK, pv_storage_rm_rev, Trails, Reports

-----------------------------------------------------------------------------
(***************************************************************************)
(* Type correctness.                                                       *)
(***************************************************************************)
TypeInv == TypeOK /\ DownloadInv

\* NoUpdate, NoCmd and BlDown have the types of update, cmd and bl.
LEMMA NoneType ==
  /\ NoUpdate \in Update
  /\ NoCmd \in Cmd
  /\ BlDown \in [pv_rev : RevOrNone, pv_try : RevOrNone, pv_done : RevOrNone]
BY BootEnvAssumption, PantavisorAssumption
   DEF NoUpdate, Update, Statuses, NoCmd, Cmd, BlDown, RevOrNone

\* The first state is well typed.
LEMMA TypeInit == Init => TypeInv
<1> SUFFICES ASSUME Init PROVE TypeInv
  OBVIOUS
<1>1. env \in Env
  BY BootEnvAssumption DEF Init, Env, EnvKeys, RevOrNone
<1>2. trail \in [Revs -> Trails] /\ progress \in [Revs -> Reports]
  BY DEF Init, Trails, Reports
<1> QED
  BY <1>1, <1>2, NoneType DEF Init, TypeInv, TypeOK, DownloadInv, LoopStates, RevOrNone

(***************************************************************************)
(* pv_update_finish keeps the types of what it changes.                    *)
(***************************************************************************)
LEMMA FinishType ==
  ASSUME TypeOK, NEW u, NEW tr, NEW prog \in [Revs -> Reports], NEW next \in {"CTRL", "WAIT"},
         u \in Update \/ (u.status \notin {"FAILED", "TESTING_REBOOT"} /\ ~WillRetry(u)),
         pv_update_finish(u, tr, prog, next)
  PROVE  /\ env' \in Env
         /\ st' \in LoopStates \ {"UPDATE"}
         /\ bl' \in [pv_rev : RevOrNone, pv_try : RevOrNone, pv_done : RevOrNone]
         /\ update' \in Update
         /\ progress' \in [Revs -> Reports]
<1>1. CASE u.status = "FAILED" /\ pv_bootloader_set_failed
           /\ st' \in {"FINISH_FAILED", "UPDATE_FAILED"} /\ update' = u /\ progress' = prog
  <2>1. PICK w \in EnvWrites(env, unset_env_key(env, "pv_try")) : env' = w.env
    BY <1>1 DEF pv_bootloader_set_failed
  <2>2. env' \in Env
    BY <2>1, EnvWritesType, EnvOpsType, BootEnvAssumption DEF TypeOK, EnvKeys, RevOrNone
  <2>3. bl' \in [pv_rev : RevOrNone, pv_try : RevOrNone, pv_done : RevOrNone]
    BY <1>1 DEF pv_bootloader_set_failed, TypeOK, RevOrNone
  <2> QED
    BY <1>1, <2>2, <2>3 DEF LoopStates
<1>2. CASE u.status = "TESTING_REBOOT" /\ SetRev /\ update' = u /\ progress' = prog
  <2>1. PICK w \in EnvWrites(env, set_env_key(env, "pv_rev", running)) :
          env' = w.env /\ st' = IF w.ok THEN "COMMIT_TRY" ELSE "ROLLBACK"
    BY <1>2 DEF SetRev
  <2>2. env' \in Env
    BY <2>1, EnvWritesType, EnvOpsType DEF TypeOK, EnvKeys
  <2>3. bl' \in [pv_rev : RevOrNone, pv_try : RevOrNone, pv_done : RevOrNone]
    BY <1>2 DEF SetRev, TypeOK
  <2> QED
    BY <1>2, <2>1, <2>2, <2>3 DEF LoopStates
<1>3. CASE WillRetry(u) /\ st' = next /\ update' = u /\ progress' = prog
           /\ UNCHANGED <<env, bl>>
  BY <1>3 DEF TypeOK, LoopStates, WillRetry
<1>4. CASE st' = next /\ update' = NoUpdate
           /\ progress' = StoreStatus(prog, tr, u, FinalStatus(u)) /\ UNCHANGED <<env, bl>>
  BY <1>4, NoneType, StoreStatusType DEF TypeOK, LoopStates
<1> QED
  BY <1>1, <1>2, <1>3, <1>4 DEF pv_update_finish

(***************************************************************************)
(* Every step keeps the types.                                             *)
(***************************************************************************)
LEMMA TypeNext == TypeInv /\ [Next]_vars => TypeInv'
<1> SUFFICES ASSUME TypeInv, [Next]_vars PROVE TypeInv'
  OBVIOUS
<1> USE DEF TypeInv, DownloadInv
<1>1. CASE Boot
  <2>1. env' \in Env /\ BootRev(env) \in Revs
    BY <1>1, EnvOpsType DEF Boot, TypeOK
  <2>2. bl' \in [pv_rev : RevOrNone, pv_try : RevOrNone, pv_done : RevOrNone]
    BY <1>1, <2>1 DEF Boot, TypeOK, Env, EnvKeys, RevOrNone
  <2> QED
    BY <1>1, <2>1, <2>2 DEF Boot, TypeOK, LoopStates, timerVars
<1>2. CASE GoDown /\ UNCHANGED storageVars
  BY <1>2, NoneType DEF GoDown, storageVars, TypeOK, LoopStates, RevOrNone
<1>3. CASE PowerLoss
  BY <1>2, <1>3 DEF PowerLoss
<1>4. CASE PvInit
  BY <1>2, <1>4 DEF PvInit, TypeOK, LoopStates, memoryVars, storageVars
<1>5. pv_update_resume \in Update
  BY BootEnvAssumption, PantavisorAssumption
     DEF pv_update_resume, pv_update_new, Update, Statuses, TypeOK, RevOrNone
<1>6. CASE RunNoState
  BY <1>5, <1>6 DEF RunNoState, TypeOK, LoopStates, timerVars
<1>7. CASE RunState
  <2>1. RunUpdate(pv_update_resume) \in Update /\ RunTarget(pv_update_resume) \in RevOrNone
    BY <1>5 DEF RunUpdate, RunTarget, Update, TypeOK
  <2>2. progress' \in [Revs -> Reports]
    BY <1>7 DEF RunState, TypeOK, pv_storage_set_rev_progress, Reports
  <2> QED
    BY <1>7, <2>1, <2>2 DEF RunState, TypeOK, LoopStates, timerVars
<1>8. CASE Finish
  <2>1. StoreStatus(progress, trail, update, "FAILED") \in [Revs -> Reports]
        /\ StoreStatus(progress, trail, update, "DONE") \in [Revs -> Reports]
    BY StoreStatusType DEF TypeOK
  <2>2. CASE FinishFailed
    BY <2>1, <2>2, NoneType DEF FinishFailed, TypeOK, LoopStates, timerVars
  <2>3. CASE CommitTry
    <3>1. PICK w \in EnvWrites(env, unset_env_key(env, "pv_try")) :
            env' = w.env /\ st' = IF w.ok THEN "COMMIT_FLUSH" ELSE "ROLLBACK"
      BY <2>3 DEF CommitTry
    <3>2. env' \in Env
      BY <3>1, EnvWritesType, EnvOpsType DEF TypeOK, EnvKeys
    <3> QED
      BY <2>3, <3>1, <3>2 DEF CommitTry, TypeOK, LoopStates, timerVars, RevOrNone
  <2>4. CASE CommitFlush
    <3>1. env' \in Env
      BY <2>4, EnvWritesType, EnvOpsType DEF CommitFlush, TypeOK
    <3> QED
      BY <2>4, <3>1 DEF CommitFlush, TypeOK, LoopStates, memoryVars
  <2>5. CASE Committed
    BY <2>1, <2>5, NoneType DEF Committed, TypeOK, LoopStates, timerVars
  <2> QED
    BY <1>8, <2>2, <2>3, <2>4, <2>5 DEF Finish
<1>9. CASE Wait
  <2>1. ASSUME NEW prog \in [Revs -> Reports], pv_wait_update(prog),
               UNCHANGED <<unclaimed, running, cmd>>
        PROVE  TypeInv'
    <3>1. CASE update = NoUpdate /\ st' = "CTRL" /\ progress' = prog
               /\ UNCHANGED <<env, trail, bl, update, commitFin, rollbackFin>>
      BY <2>1, <3>1 DEF TypeOK, LoopStates
    <3>2. CASE /\ commitFin' = FALSE
               /\ update' = SetStatus(update, pv_update_test(update))
               /\ progress' = StoreStatus(prog, trail, update, pv_update_test(update))
               /\ st' = "CTRL"
               /\ UNCHANGED <<env, trail, bl, rollbackFin>>
      <4>1. update' \in Update
        BY <3>2 DEF SetStatus, pv_update_test, TypeOK, Update, Statuses
      <4> QED
        BY <2>1, <3>2, <4>1, StoreStatusType DEF TypeOK, LoopStates
    <3>3. CASE st' = "CTRL" /\ progress' = prog
               /\ UNCHANGED <<env, trail, bl, update, commitFin, rollbackFin>>
      BY <2>1, <3>3 DEF TypeOK, LoopStates
    <3>4. CASE pv_update_finish(update, trail, prog, "CTRL")
               /\ UNCHANGED <<trail, commitFin, rollbackFin>>
      BY <2>1, <3>4, FinishType DEF TypeOK
    <3> QED
      BY <2>1, <3>1, <3>2, <3>3, <3>4 DEF pv_wait_update
  <2>2. CASE PlatformExited \/ WaitIdle \/ WaitNoAuth \/ WaitFactoryMeta
    BY <2>2 DEF PlatformExited, WaitIdle, WaitNoAuth, WaitFactoryMeta, TypeOK, LoopStates,
         storageVars, memoryVars
  <2>3. CASE WaitLocal
    BY <2>1, <2>3 DEF WaitLocal, TypeOK
  <2>4. CASE WaitUnclaimed
    BY <2>4 DEF WaitUnclaimed, TypeOK, LoopStates, memoryVars, pv_storage_set_rev_progress, Reports
  <2>5. CASE WaitNewUpdate
    <3>1. ASSUME NEW r \in HubRevs, NEW n \in 0 .. MaxRetries
          PROVE  pv_update_new(r, r, "QUEUED", FALSE, n) \in Update
      BY PantavisorAssumption DEF pv_update_new, Update, Statuses, RevOrNone
    <3>2. update' \in Update /\ update'.status \in {"QUEUED", "RETRY_DOWNLOAD"}
      BY <2>5, <3>1 DEF WaitNewUpdate, AcceptStep, pv_update_new, TypeOK
    <3> QED
      BY <2>5, <3>2 DEF WaitNewUpdate, TypeOK, LoopStates, storageVars, timerVars
  <2>6. CASE WaitNetwork
    <3>1. PICK synced \in BOOLEAN :
            pv_wait_update(IF synced /\ running = Factory
                           THEN pv_storage_set_rev_progress(progress, trail, Factory, "DONE")
                           ELSE progress)
      BY <2>6 DEF WaitNetwork
    <3>2. pv_storage_set_rev_progress(progress, trail, Factory, "DONE") \in [Revs -> Reports]
      BY DEF pv_storage_set_rev_progress, Reports, TypeOK
    <3>3. (IF synced /\ running = Factory
           THEN pv_storage_set_rev_progress(progress, trail, Factory, "DONE")
           ELSE progress) \in [Revs -> Reports]
      BY <3>2 DEF TypeOK
    <3> QED
      BY <2>1, <2>6, <3>1, <3>3 DEF WaitNetwork
  <2> QED
    BY <1>9, <2>2, <2>3, <2>4, <2>5, <2>6 DEF Wait
<1>10. CASE Ctrl
  <2>1. trail' \in [Revs -> Trails] /\ progress' \in [Revs -> Reports]
    BY <1>10, RemovedType DEF Ctrl
  <2>2. cmd' \in Cmd /\ st' \in {"WAIT", "COMMAND"}
    BY <1>10 DEF Ctrl, TypeOK, Cmd, RevOrNone
  <2> QED
    BY <1>10, <2>1, <2>2 DEF Ctrl, TypeOK, LoopStates, timerVars
<1>11. CASE PutStep
  BY <1>11 DEF PutStep, TypeOK, LoopStates, memoryVars, Trails
<1>12. CASE FactoryUpload
  BY <1>12 DEF FactoryUpload, TypeOK, LoopStates, storageVars, memoryVars

<1>13. ASSUME NEW r \in RevOrNone
      PROVE  pv_update_new(r, r, "INIT", TRUE, 0) \in Update
             /\ pv_update_new(r, r, "INIT", TRUE, 0).status = "INIT"
  BY PantavisorAssumption DEF pv_update_new, Update, Statuses
<1>14. CASE Command
  <2>1. trail' \in [Revs -> Trails] /\ progress' \in [Revs -> Reports]
    BY <1>14, RemovedType DEF Command, TypeOK
  <2>2. cmd.rev \in RevOrNone
    BY DEF TypeOK, Cmd
  <2>3. update' \in Update /\ (st' = "UPDATE" => update'.status = "INIT") /\ st' \in LoopStates
    BY <1>13, <1>14, <2>2 DEF Command, TypeOK, LoopStates, pv_update_get_step_local
  <2> QED
    BY <1>14, <2>1, <2>3, NoneType DEF Command, TypeOK, timerVars
<1>15. CASE CommandMakeFactory
  BY <1>15, RemovedType DEF CommandMakeFactory, TypeOK, LoopStates, memoryVars
<1>16. CASE MakeFactory
  <2>1. trail' \in [Revs -> Trails]
    BY <1>16 DEF MakeFactory, TypeOK, Trails
  <2>2. update' \in Update /\ (st' = "UPDATE" => update'.status = "INIT") /\ st' \in LoopStates
    BY <1>13, <1>16, BootEnvAssumption DEF MakeFactory, TypeOK, LoopStates, RevOrNone
  <2> QED
    BY <1>16, <2>1, <2>2, NoneType DEF MakeFactory, TypeOK, timerVars
<1>17. CASE UpdateStep
  <2>1. ASSUME NEW tr \in [Revs -> Trails]
        PROVE  MkTrail(tr) \in [Revs -> Trails]
    BY DEF MkTrail, Trails
  <2>2. CASE DownloadLocal
    BY <2>1, <2>2 DEF DownloadLocal, TypeOK, LoopStates, memoryVars
  <2>3. CASE DownloadNotNow
    BY <2>1, <2>3, FinishType DEF DownloadNotNow, TypeOK, timerVars
  <2>4. CASE DownloadNoMoreRetries
    <3>1. NextTry(update).status \notin {"FAILED", "TESTING_REBOOT"}
          /\ ~WillRetry(NextTry(update))
      BY <2>4, PantavisorAssumption
         DEF DownloadNoMoreRetries, NextTry, WillRetry, TypeOK, Update
    <3> QED
      BY <2>1, <2>4, <3>1, FinishType DEF DownloadNoMoreRetries, TypeOK, timerVars
  <2>5. ASSUME NEW t \in {"DOWNLOADED", "RETRY_DOWNLOAD", "NO_DOWNLOAD"}, NEW S, Attempt(t, S)
        PROVE  TypeInv'
    <3> DEFINE u == SetStatus(NextTry(update), t)
               prog == StoreStatus(pv_storage_rm_rev(progress, S, "NONE"), trail', u, t)
    <3>1. u \in Update
      <4>1. update.retries + 1 \in 0 .. MaxRetries + 1
        BY <2>5, PantavisorAssumption DEF Attempt, NextTry, TypeOK, Update
      <4> QED
        BY <4>1 DEF SetStatus, NextTry, TypeOK, Update, Statuses
    <3>2. trail' \in [Revs -> Trails]
      BY <2>1, <2>5, RmRevType DEF Attempt, TypeOK, Trails
    <3>3. prog \in [Revs -> Reports]
      BY RmRevType, StoreStatusType DEF TypeOK, Reports
    <3>4. CASE t = "DOWNLOADED"
      BY <2>5, <3>1, <3>2, <3>3, <3>4 DEF Attempt, TypeOK, LoopStates, timerVars
    <3>5. CASE t # "DOWNLOADED"
      <4>1. pv_update_finish(u, trail', prog, "WAIT")
        BY <2>5, <3>5 DEF Attempt
      <4> HIDE DEF u, prog
      <4> QED
        BY <2>5, <3>1, <3>2, <3>3, <4>1, FinishType DEF Attempt, TypeOK, timerVars
    <3> QED
      BY <3>4, <3>5
  <2>6. CASE Download
    BY <2>5, <2>6 DEF Download
  <2>7. CASE InstallFailed
    <3>1. trail' \in [Revs -> Trails]
          /\ pv_storage_rm_rev(progress, {update.pending}, "NONE") \in [Revs -> Reports]
      BY <2>7, RmRevType DEF InstallFailed, TypeOK, Trails, Reports
    <3>2. PICK t \in {"FAILED", update.status} :
            pv_update_finish(SetStatus(update, t), trail',
                             pv_storage_rm_rev(progress, {update.pending}, "NONE"), "WAIT")
      BY <2>7 DEF InstallFailed
    <3>3. SetStatus(update, t) \in Update
      BY DEF SetStatus, TypeOK, Update, Statuses
    <3> QED
      BY <2>7, <3>1, <3>2, <3>3, FinishType DEF InstallFailed, TypeOK, timerVars
  <2>8. CASE Install
    BY <2>8 DEF Install, TypeOK, LoopStates, memoryVars, Trails
  <2>9. CASE pv_bootloader_set_try
    <3>1. env' \in Env
      BY <2>9, EnvWritesType, EnvOpsType DEF pv_bootloader_set_try, TypeOK, EnvKeys, Update
    <3>2. bl' \in [pv_rev : RevOrNone, pv_try : RevOrNone, pv_done : RevOrNone]
      BY <2>9 DEF pv_bootloader_set_try, TypeOK, Update
    <3>3. SetStatus(update, "INSTALLED") \in Update
      BY DEF SetStatus, TypeOK, Update, Statuses
    <3>4. trail' \in [Revs -> Trails] /\ progress' \in [Revs -> Reports]
      BY <2>9, RemovedType, StoreStatusType DEF pv_bootloader_set_try, TypeOK
    <3> QED
      BY <2>9, <3>1, <3>2, <3>3, <3>4, NoneType
         DEF pv_bootloader_set_try, TypeOK, LoopStates, timerVars
  <2>10. CASE Installed
    <3>1. update' \in Update /\ progress' \in [Revs -> Reports] /\ st' \in LoopStates \ {"UPDATE"}
      BY <2>10, StoreStatusType
         DEF Installed, SetStatus, TypeOK, Update, Statuses, LoopStates
    <3> QED
      BY <2>10, <3>1 DEF Installed, TypeOK, timerVars
  <2> QED
    BY <1>17, <2>2, <2>3, <2>4, <2>6, <2>7, <2>8, <2>9, <2>10 DEF UpdateStep
<1>18. CASE Rollback
  <2>1. update' \in Update /\ progress' \in [Revs -> Reports] /\ st' \in LoopStates \ {"UPDATE"}
    BY <1>18, StoreStatusType
       DEF Rollback, SetStatus, TypeOK, Update, Statuses, LoopStates
  <2> QED
    BY <1>18, <2>1 DEF Rollback, TypeOK, timerVars
<1>19. CASE Error
  BY <1>19 DEF Error, TypeOK, LoopStates, storageVars, memoryVars
<1>20. CASE Shutdown
  BY <1>2, <1>20 DEF Shutdown
<1>21. CASE CommitTimer \/ RollbackTimer
  BY <1>21 DEF CommitTimer, RollbackTimer, TypeOK, storageVars
<1>22. CASE UNCHANGED vars
  BY <1>22 DEF vars, TypeOK
<1> QED
  BY <1>1, <1>3, <1>4, <1>6, <1>7, <1>8, <1>9, <1>10, <1>11, <1>12, <1>14, <1>15, <1>16, <1>17,
     <1>18, <1>19, <1>20, <1>21, <1>22 DEF Next, Loop

(***************************************************************************)
(* Every variable keeps its type, and no download is attempted once the    *)
(* retries are used up, for any set of revisions and any configuration.    *)
(***************************************************************************)
THEOREM TypeCorrect == Spec => []TypeOK
<1>1. TypeInv => TypeOK
  BY DEF TypeInv
<1> QED
  BY <1>1, TypeInit, TypeNext, PTL DEF Spec

-----------------------------------------------------------------------------
(***************************************************************************)
(* The inductive invariant, when no write is lost unnoticed.               *)
(***************************************************************************)
NoLostWrites == "lost" \notin EnvFaults

\* What each environment operator does to the two keys pantavisor sets.
LEMMA EnvOps ==
  ASSUME NEW e \in Env, NEW r \in RevOrNone
  PROVE  /\ unset_env_key(e, "pv_try")["pv_rev"] = e["pv_rev"]
         /\ unset_env_key(e, "pv_try")["pv_try"] = NoRev
         /\ set_env_key(e, "pv_try", r)["pv_rev"] = e["pv_rev"]
         /\ set_env_key(e, "pv_try", r)["pv_try"] = r
         /\ set_env_key(e, "pv_rev", r)["pv_rev"] = r
         /\ set_env_key(e, "pv_rev", r)["pv_try"] = e["pv_try"]
         /\ flush_env(e)["pv_rev"] = e["pv_rev"]
         /\ flush_env(e)["pv_try"] = e["pv_try"]
         /\ \A n \in BootNotes(e) : n["pv_rev"] = e["pv_rev"] /\ n["pv_try"] = e["pv_try"]
BY DEF unset_env_key, set_env_key, flush_env, Hits, BootNotes, Env, EnvKeys

\* The boot loader picks the candidate or the rollback point.
LEMMA BootRevIs ==
  ASSUME NEW e \in Env
  PROVE  BootRev(e) \in {e["pv_try"], RollbackPoint(e)} \ {NoRev}
BY BootEnvAssumption DEF BootRev, FirstTry, RollbackPoint, Env, EnvKeys, RevOrNone

\* A write takes effect exactly when it is reported to.
LEMMA HonestWrites ==
  ASSUME NoLostWrites, NEW old, NEW new, NEW w \in EnvWrites(old, new)
  PROVE  w.env = IF w.ok THEN new ELSE old
BY DEF NoLostWrites, EnvWrites

(***************************************************************************)
(* pv_update_finish keeps the invariant: called from _pv_wait for the      *)
(* update itself, or from _pv_update for one that was not tried.           *)
(***************************************************************************)
LEMMA FinishKeeps ==
  ASSUME NoLostWrites, IInv, TypeOK', CmdInv',
         NEW u, NEW tr, NEW prog, NEW next \in {"CTRL", "WAIT"},
         st \in {"WAIT", "UPDATE", "INSTALL"},
         u.status # "TRY",
         u.pending = update.pending,
         st = "WAIT" => u = update,
         IF u.status = "TESTING_REBOOT" THEN u = update
         ELSE update.status \notin {"TRY", "TESTING_REBOOT"},
         pv_update_finish(u, tr, prog, next),
         running' = running
  PROVE  IInv'
<1> USE DEF GivingUp, Fresh, Committing
<1>1. running # NoRev
  BY DEF IInv, LoopInv
<1>2. CASE /\ u.status = "FAILED"
           /\ pv_bootloader_set_failed
           /\ st' \in {"FINISH_FAILED", "UPDATE_FAILED"}
           /\ update' = u
  <2>1. PICK w \in EnvWrites(env, unset_env_key(env, "pv_try")) : env' = w.env
    BY <1>2 DEF pv_bootloader_set_failed
  <2>2. env'["pv_rev"] = env["pv_rev"]
    BY <2>1, HonestWrites, EnvOps, BootEnvAssumption DEF IInv, TypeOK, RevOrNone
  <2>3. bl'.pv_rev = bl.pv_rev
    BY <1>2 DEF pv_bootloader_set_failed, IInv, TypeOK
  <2>4. bl.pv_rev = RollbackPoint(env)
    BY <1>1, <1>2 DEF IInv, BootedIsRollbackPoint
  <2>5. BootedIsRollbackPoint'
    BY <2>2, <2>3, <2>4 DEF BootedIsRollbackPoint, RollbackPoint
  <2> QED
    BY <1>1, <1>2, <2>5 DEF IInv, DownloadInv, LoopInv, BootInv, TrialInv, TransitionInv, CmdInv
<1>3. CASE u.status = "TESTING_REBOOT" /\ SetRev /\ update' = u
  <2>1. update.status = "TESTING_REBOOT" /\ u = update
    BY <1>3
  <2>2. running = bl.pv_rev /\ update.pending = running /\ env["pv_try"] = running
    BY <2>1 DEF IInv, TrialInv
  <2>3. PICK w \in EnvWrites(env, set_env_key(env, "pv_rev", running)) :
          env' = w.env /\ st' = IF w.ok THEN "COMMIT_TRY" ELSE "ROLLBACK"
    BY <1>3 DEF SetRev
  <2>4. bl'.pv_rev = running
    BY <1>3 DEF SetRev, IInv, TypeOK
  <2>5. CASE w.ok
    <3>1. env'["pv_rev"] = running /\ env'["pv_try"] = running /\ st' = "COMMIT_TRY"
      BY <2>2, <2>3, <2>5, HonestWrites, EnvOps DEF IInv, TypeOK
    <3> QED
      BY <1>1, <1>3, <2>1, <2>2, <2>4, <3>1
         DEF IInv, DownloadInv, LoopInv, BootInv, TrialInv, TransitionInv, BootedIsRollbackPoint
  <2>6. CASE ~w.ok
    BY <1>3, <2>1, <2>3, <2>6
       DEF IInv, DownloadInv, LoopInv, BootInv, TrialInv, TransitionInv, BootedIsRollbackPoint
  <2> QED
    BY <2>5, <2>6
<1>4. CASE u.status \notin {"FAILED", "TESTING_REBOOT"} /\ st' = next
           /\ update' \in {u, NoUpdate} /\ UNCHANGED <<env, bl>>
  <2>1. bl.pv_rev = RollbackPoint(env)
    BY <1>1, <1>4 DEF IInv, BootedIsRollbackPoint
  <2>2. update'.status \notin {"TRY", "TESTING_REBOOT"}
    BY <1>4 DEF NoUpdate
  <2>3. update'.status = "RETRY_DOWNLOAD" => update'.pending \in Revs
    BY <1>4 DEF IInv, LoopInv, NoUpdate
  <2> QED
    BY <1>1, <1>4, <2>1, <2>2, <2>3
       DEF IInv, DownloadInv, LoopInv, BootInv, TrialInv, TransitionInv, BootedIsRollbackPoint
<1> QED
  BY <1>2, <1>3, <1>4 DEF pv_update_finish, WillRetry

\* Steps keep what is known of commands.
LEMMA CmdNext ==
  ASSUME TypeInv, CmdInv, [Next]_vars
  PROVE  CmdInv'
<1>1. CASE cmd' \in {cmd, NoCmd} /\ st' # "MAKE_FACTORY"
  BY <1>1 DEF CmdInv, NoCmd
<1>2. CASE UNCHANGED <<st, update, cmd>>
  BY <1>2 DEF CmdInv
<1>3. CASE Ctrl
  BY <1>3 DEF Ctrl, CmdInv
<1>4. CASE CommandMakeFactory
  BY <1>4 DEF CommandMakeFactory, Ignored, CmdInv, memoryVars
<1>5. ASSUME NEW u, NEW tr, NEW prog, NEW next \in {"CTRL", "WAIT"},
             pv_update_finish(u, tr, prog, next)
      PROVE  st' # "MAKE_FACTORY"
  BY <1>5 DEF pv_update_finish, SetRev
<1>6. CASE Boot \/ PowerLoss \/ PvInit \/ RunNoState \/ RunState \/ Finish \/ PutStep \/ FactoryUpload
  BY <1>1, <1>6 DEF Boot, PowerLoss, PvInit, RunNoState, RunState, Finish, FinishFailed, CommitTry,
       CommitFlush, Committed, PutStep, FactoryUpload, GoDown, memoryVars
<1>7. CASE Wait
  <2>1. ASSUME NEW prog, pv_wait_update(prog)
        PROVE  st' # "MAKE_FACTORY"
    BY <1>5, <2>1 DEF pv_wait_update
  <2>2. CASE WaitLocal \/ WaitNetwork
    BY <1>1, <2>1, <2>2 DEF WaitLocal, WaitNetwork
  <2> QED
    BY <1>1, <1>7, <2>2 DEF Wait, PlatformExited, WaitIdle, WaitUnclaimed, WaitNoAuth,
         WaitFactoryMeta, WaitNewUpdate, memoryVars
<1>8. CASE Command \/ MakeFactory
  BY <1>1, <1>8 DEF Command, MakeFactory, pv_update_get_step_local
<1>9. CASE UpdateStep
  <2>1. CASE DownloadNotNow \/ DownloadNoMoreRetries \/ InstallFailed
    BY <1>1, <1>5, <2>1 DEF DownloadNotNow, DownloadNoMoreRetries, InstallFailed
  <2>2. ASSUME NEW t, NEW S, Attempt(t, S)
        PROVE  CmdInv'
    BY <1>1, <1>5, <2>2 DEF Attempt
  <2>3. CASE Download
    BY <2>2, <2>3 DEF Download
  <2> QED
    BY <1>1, <1>9, <2>1, <2>3 DEF UpdateStep, DownloadLocal, Install, pv_bootloader_set_try,
         Installed, memoryVars
<1>10. CASE Rollback \/ Error \/ Shutdown
  BY <1>1, <1>10 DEF Rollback, Error, Shutdown, GoDown, memoryVars
<1>11. CASE CommitTimer \/ RollbackTimer \/ UNCHANGED vars
  BY <1>2, <1>11 DEF CommitTimer, RollbackTimer, vars
<1> QED
  BY <1>3, <1>4, <1>6, <1>7, <1>8, <1>9, <1>10, <1>11 DEF Next, Loop

\* The invariant holds at power-up.
LEMMA IInit == Init => IInv
BY TypeInit DEF Init, IInv, TypeInv, CmdInv, NoCmd, LoopInv, BootInv, TrialInv, TransitionInv,
     BootedIsRollbackPoint, Fresh, GivingUp, Committing, NoUpdate

(***************************************************************************)
(* Every step keeps the invariant.                                         *)
(***************************************************************************)
LEMMA INext ==
  ASSUME NoLostWrites, IInv, [Next]_vars
  PROVE  IInv'
<1> USE DEF GivingUp, Fresh, Committing
<1>0. TypeOK' /\ DownloadInv' /\ CmdInv'
  BY TypeNext, CmdNext DEF IInv, TypeInv
<1>1. CASE Boot
  <2>1. env'["pv_rev"] = env["pv_rev"] /\ env'["pv_try"] = env["pv_try"]
    BY <1>1, EnvOps, BootEnvAssumption DEF Boot, IInv, TypeOK, RevOrNone
  <2>2. bl'.pv_try = env["pv_try"]
        /\ bl'.pv_rev \in {env["pv_try"], RollbackPoint(env)} \ {NoRev}
    BY <1>1, BootRevIs DEF Boot, IInv, TypeOK
  <2>3. running = NoRev /\ update = NoUpdate
    BY <1>1 DEF Boot, IInv, LoopInv
  <2> QED
    BY <1>0, <1>1, <2>1, <2>2, <2>3
       DEF Boot, IInv, LoopInv, BootInv, TrialInv, TransitionInv, BootedIsRollbackPoint,
           RollbackPoint, NoUpdate
<1>2. CASE GoDown
  BY <1>0, <1>2 DEF GoDown, IInv, LoopInv, BootInv, TrialInv, TransitionInv,
       BootedIsRollbackPoint, NoUpdate
<1>3. CASE PowerLoss
  BY <1>2, <1>3 DEF PowerLoss
<1>4. CASE PvInit
  <2>1. CASE st' = "RUN" /\ UNCHANGED memoryVars /\ UNCHANGED storageVars
    BY <1>0, <1>4, <2>1
       DEF PvInit, IInv, LoopInv, BootInv, TrialInv, TransitionInv, BootedIsRollbackPoint,
           memoryVars, storageVars, NoUpdate
  <2> QED
    BY <1>2, <1>4, <2>1 DEF PvInit
<1>5. CASE RunNoState
  BY <1>0, <1>5 DEF RunNoState, pv_update_resume, pv_update_new, IInv, LoopInv, BootInv, TrialInv,
       TransitionInv, BootedIsRollbackPoint
<1>6. CASE RunState
  <2>1. UNCHANGED <<env, bl>> /\ st' \in {"ROLLBACK", "WAIT"}
    BY <1>6 DEF RunState
  <2>2. CASE update.status = "TRANSITION"
    <3>0. update # NoUpdate
      BY <2>2 DEF NoUpdate
    <3>1. update' = update /\ running' = update.pending
      BY <1>6, <2>2, <3>0 DEF RunState, pv_update_resume, RunUpdate, RunTarget
    <3>2. running' # NoRev /\ running # NoRev
      BY <1>6, <2>2, <3>1, BootEnvAssumption DEF RunState, IInv, TransitionInv, LoopInv
    <3>3. bl.pv_rev = RollbackPoint(env)
      BY <1>6, <2>2, <3>2 DEF RunState, IInv, BootedIsRollbackPoint
    <3> QED
      BY <1>0, <2>1, <2>2, <3>1, <3>2, <3>3
         DEF IInv, LoopInv, BootInv, TrialInv, TransitionInv, BootedIsRollbackPoint
  <2>3. CASE update.status # "TRANSITION"
    <3>1. update = NoUpdate /\ running = NoRev /\ bl.pv_try = env["pv_try"]
          /\ bl.pv_rev \in {env["pv_try"], RollbackPoint(env)} \ {NoRev}
      BY <1>6, <2>3 DEF RunState, IInv, LoopInv, BootInv
    <3>2. pv_update_resume.status # "TRANSITION"
      BY <2>3, <3>1 DEF pv_update_resume, pv_update_new
    <3>3. running' = bl.pv_rev
      BY <1>6, <3>2 DEF RunState, RunTarget
    <3>4. CASE bl.pv_try = NoRev
      BY <1>0, <1>6, <2>1, <3>1, <3>3, <3>4
         DEF RunState, RunUpdate, pv_update_resume, IInv, LoopInv, BootInv, TrialInv,
             TransitionInv, BootedIsRollbackPoint, NoUpdate
    <3>5. CASE bl.pv_try # NoRev
      <4>1. pv_update_resume # NoUpdate
        BY <3>1, <3>5 DEF pv_update_resume, pv_update_new, NoUpdate
      <4>2. update'.pending = bl.pv_rev
            /\ update'.status = IF bl.pv_rev = bl.pv_try THEN "TRY" ELSE "FAILED"
        BY <1>6, <3>1, <3>2, <3>5, <4>1
           DEF RunState, RunUpdate, pv_update_resume, pv_update_new, pv_bootloader_trying_update
      <4> QED
        BY <1>0, <2>1, <3>1, <3>3, <3>5, <4>2
           DEF IInv, LoopInv, BootInv, TrialInv, TransitionInv, BootedIsRollbackPoint
    <3> QED
      BY <3>4, <3>5
  <2> QED
    BY <2>2, <2>3
<1>7. CASE FinishFailed
  BY <1>0, <1>7 DEF FinishFailed, IInv, LoopInv, BootInv, TrialInv, TransitionInv,
       BootedIsRollbackPoint, NoUpdate
<1>8. CASE CommitTry
  <2>1. PICK w \in EnvWrites(env, unset_env_key(env, "pv_try")) :
          env' = w.env /\ st' = IF w.ok THEN "COMMIT_FLUSH" ELSE "ROLLBACK"
    BY <1>8 DEF CommitTry
  <2>2. bl'.pv_rev = bl.pv_rev
    BY <1>8 DEF CommitTry, IInv, TypeOK
  <2>3. CASE w.ok
    <3>1. env'["pv_rev"] = env["pv_rev"] /\ env'["pv_try"] = NoRev
      BY <2>1, <2>3, HonestWrites, EnvOps, BootEnvAssumption DEF IInv, TypeOK, RevOrNone
    <3> QED
      BY <1>0, <1>8, <2>1, <2>2, <2>3, <3>1
         DEF CommitTry, IInv, LoopInv, BootInv, TrialInv, TransitionInv, BootedIsRollbackPoint
  <2>4. CASE ~w.ok
    BY <1>0, <1>8, <2>1, <2>4
       DEF CommitTry, IInv, LoopInv, BootInv, TrialInv, TransitionInv, BootedIsRollbackPoint
  <2> QED
    BY <2>3, <2>4
<1>9. CASE CommitFlush
  <2>1. env'["pv_rev"] = env["pv_rev"] /\ env'["pv_try"] = env["pv_try"]
    BY <1>9, EnvWritesType, EnvOps, BootEnvAssumption DEF CommitFlush, IInv, TypeOK, RevOrNone
  <2> QED
    BY <1>0, <1>9, <2>1
       DEF CommitFlush, IInv, LoopInv, BootInv, TrialInv, TransitionInv, BootedIsRollbackPoint,
           memoryVars
<1>10. CASE Committed
  <2>1. running # NoRev /\ bl.pv_rev = running /\ env["pv_rev"] = running
    BY <1>10 DEF Committed, IInv, LoopInv, TrialInv
  <2> QED
    BY <1>0, <1>10, <2>1
       DEF Committed, IInv, LoopInv, BootInv, TrialInv, TransitionInv, BootedIsRollbackPoint,
           NoUpdate, RollbackPoint
<1>11. ASSUME NEW prog, st = "WAIT", pv_wait_update(prog), running' = running
       PROVE  IInv'
  <2>1. running # NoRev
    BY <1>11 DEF IInv, LoopInv
  <2>2. CASE st' = "CTRL" /\ UNCHANGED <<env, bl, update>>
    BY <1>0, <1>11, <2>2
       DEF IInv, LoopInv, BootInv, TrialInv, TransitionInv, BootedIsRollbackPoint
  <2>3. CASE /\ pv_update_is_trying(update)
             /\ update' = SetStatus(update, pv_update_test(update))
             /\ st' = "CTRL"
             /\ UNCHANGED <<env, bl>>
    <3>1. update'.pending = update.pending
          /\ update'.status = IF update.status = "TRY" THEN "TESTING_REBOOT" ELSE "TESTING_NONREBOOT"
      BY <2>3 DEF SetStatus, pv_update_test, IInv, TypeOK, Update
    <3> QED
      BY <1>0, <1>11, <2>1, <2>3, <3>1
         DEF pv_update_is_trying, IInv, LoopInv, BootInv, TrialInv, TransitionInv,
             BootedIsRollbackPoint
  <2>4. CASE /\ ~pv_update_is_trying(update)
             /\ pv_update_finish(update, trail, prog, "CTRL")
    BY <1>0, <1>11, <2>4, FinishKeeps DEF pv_update_is_trying
  <2> QED
    BY <1>11, <2>2, <2>3, <2>4 DEF pv_wait_update
<1>12. CASE PlatformExited \/ WaitIdle \/ WaitUnclaimed \/ WaitNoAuth \/ WaitFactoryMeta
  BY <1>0, <1>12
     DEF PlatformExited, WaitIdle, WaitUnclaimed, WaitNoAuth, WaitFactoryMeta, memoryVars,
         storageVars, IInv, LoopInv, BootInv, TrialInv, TransitionInv, BootedIsRollbackPoint
<1>13. CASE WaitLocal
  BY <1>11, <1>13 DEF WaitLocal
<1>14. CASE WaitNetwork
  BY <1>11, <1>14 DEF WaitNetwork
<1>15. CASE WaitNewUpdate
  <2>1. st = "WAIT" /\ st' = "UPDATE" /\ UNCHANGED <<env, bl, running>>
    BY <1>15 DEF WaitNewUpdate, storageVars
  <2>2. update'.status \in {"QUEUED", "RETRY_DOWNLOAD"}
        /\ update.status \in {"NONE", "RETRY_DOWNLOAD"}
    BY <1>15 DEF WaitNewUpdate, AcceptStep, pv_update_new, NoUpdate
  <2>3. update'.pending \in Revs
    BY <1>15, PantavisorAssumption
       DEF WaitNewUpdate, AcceptStep, pv_update_new, IInv, LoopInv
  <2> QED
    BY <1>0, <2>1, <2>2, <2>3
       DEF IInv, LoopInv, BootInv, TrialInv, TransitionInv, BootedIsRollbackPoint
<1>16. CASE Ctrl \/ PutStep \/ FactoryUpload \/ CommandMakeFactory
  BY <1>0, <1>16
     DEF Ctrl, PutStep, FactoryUpload, CommandMakeFactory, memoryVars, storageVars, IInv, LoopInv,
         BootInv, TrialInv, TransitionInv, BootedIsRollbackPoint
<1>17. CASE Command
  <2>1. CASE UNCHANGED update /\ st' \in {"WAIT", "REBOOT", "POWEROFF"}
    BY <1>0, <1>17, <2>1
       DEF Command, IInv, LoopInv, BootInv, TrialInv, TransitionInv, BootedIsRollbackPoint
  <2>2. CASE /\ ~Ignored(cmd)
             /\ cmd.op = "LOCAL_RUN"
             /\ trail[cmd.rev] # "none"
             /\ update' = pv_update_new(cmd.rev, cmd.rev, "INIT", TRUE, 0)
             /\ st' = "UPDATE"
    <3>1. update.status = "NONE"
      BY <2>2 DEF Ignored, NoUpdate
    <3>2. update'.status = "INIT" /\ update'.pending = cmd.rev
      BY <2>2 DEF pv_update_new
    <3>3. cmd.rev \in Revs
      BY <2>2 DEF IInv, CmdInv
    <3> QED
      BY <1>0, <1>17, <2>2, <3>1, <3>2, <3>3
         DEF Command, IInv, LoopInv, BootInv, TrialInv, TransitionInv, BootedIsRollbackPoint
  <2> QED
    BY <1>17, <2>1, <2>2 DEF Command, pv_update_get_step_local
<1>18. CASE MakeFactory
  <2>1. CASE UNCHANGED update /\ st' = "WAIT"
    BY <1>0, <1>18, <2>1
       DEF MakeFactory, IInv, LoopInv, BootInv, TrialInv, TransitionInv, BootedIsRollbackPoint
  <2>2. CASE update' = pv_update_new(Factory, Factory, "INIT", TRUE, 0) /\ st' = "UPDATE"
    <3>1. update'.status = "INIT" /\ update'.pending \in Revs
      BY <2>2, BootEnvAssumption DEF pv_update_new
    <3>2. update.status = "NONE"
      BY <1>18 DEF MakeFactory, IInv, CmdInv, NoUpdate
    <3> QED
      BY <1>0, <1>18, <2>2, <3>1, <3>2
         DEF MakeFactory, IInv, LoopInv, BootInv, TrialInv, TransitionInv, BootedIsRollbackPoint
  <2> QED
    BY <1>18, <2>1, <2>2 DEF MakeFactory
<1>19. CASE UpdateStep
  <2>1. st \in {"UPDATE", "INSTALL", "INSTALL_ENV", "INSTALLED"} /\ running' = running
    BY <1>19 DEF UpdateStep, DownloadLocal, DownloadNotNow, DownloadNoMoreRetries, Download, Attempt,
         InstallFailed, Install, pv_bootloader_set_try, Installed, memoryVars
  <2>2. running # NoRev /\ update.status \notin {"TRY", "TESTING_REBOOT"}
    BY <2>1 DEF IInv, DownloadInv, LoopInv
  <2>3. bl.pv_rev = RollbackPoint(env)
    BY <2>1, <2>2 DEF IInv, BootedIsRollbackPoint
  <2>4. ASSUME NEW u, NEW tr, NEW prog, st \in {"UPDATE", "INSTALL"},
               u.status \notin {"TRY", "TESTING_REBOOT"}, u.pending = update.pending,
               pv_update_finish(u, tr, prog, "WAIT")
        PROVE  IInv'
    BY <1>0, <2>1, <2>2, <2>4, FinishKeeps
  <2>5. CASE DownloadLocal
    BY <1>0, <2>2, <2>3, <2>5
       DEF DownloadLocal, IInv, LoopInv, BootInv, TrialInv, TransitionInv, BootedIsRollbackPoint,
           memoryVars
  <2>6. CASE DownloadNotNow
    BY <2>2, <2>4, <2>6 DEF DownloadNotNow
  <2>7. CASE DownloadNoMoreRetries
    <3>1. NextTry(update).status = update.status /\ NextTry(update).pending = update.pending
      BY DEF NextTry, IInv, TypeOK, Update
    <3> QED
      BY <2>2, <2>4, <2>7, <3>1 DEF DownloadNoMoreRetries
  <2>8. ASSUME NEW t \in {"DOWNLOADED", "RETRY_DOWNLOAD", "NO_DOWNLOAD"}, NEW S, Attempt(t, S)
        PROVE  IInv'
    <3> DEFINE u == SetStatus(NextTry(update), t)
    <3>1. u.status = t /\ u.pending = update.pending
      BY DEF SetStatus, NextTry, IInv, TypeOK, Update
    <3>2. CASE t = "DOWNLOADED"
      <4>1. st = "UPDATE" /\ st' = "INSTALL" /\ update' = u /\ UNCHANGED <<env, bl>>
        BY <2>8, <3>2 DEF Attempt
      <4> HIDE DEF u
      <4> QED
        BY <1>0, <2>1, <2>2, <2>3, <3>1, <3>2, <4>1
           DEF IInv, LoopInv, BootInv, TrialInv, TransitionInv, BootedIsRollbackPoint
    <3>3. CASE t # "DOWNLOADED"
      BY <2>4, <2>8, <3>1, <3>3 DEF Attempt
    <3> QED
      BY <3>2, <3>3
  <2>9. CASE Download
    BY <2>8, <2>9 DEF Download
  <2>10. CASE InstallFailed
    <3>1. ASSUME NEW t \in {"FAILED", update.status}
          PROVE  SetStatus(update, t).status = t /\ SetStatus(update, t).pending = update.pending
      BY DEF SetStatus, IInv, TypeOK, Update
    <3> QED
      BY <2>2, <2>4, <2>10, <3>1 DEF InstallFailed
  <2>11. CASE Install
    BY <1>0, <2>2, <2>3, <2>11
       DEF Install, IInv, LoopInv, BootInv, TrialInv, TransitionInv, BootedIsRollbackPoint,
           memoryVars
  <2>12. CASE pv_bootloader_set_try
    <3>1. PICK w \in EnvWrites(env, set_env_key(env, "pv_try", update.pending)) :
            /\ env' = w.env
            /\ \/ w.ok /\ st' = "INSTALLED" /\ update' = SetStatus(update, "INSTALLED")
               \/ ~w.ok /\ st' = "WAIT" /\ update' = NoUpdate
      BY <2>12 DEF pv_bootloader_set_try
    <3>2. update.pending \in Revs /\ bl'.pv_rev = bl.pv_rev
      BY <2>12 DEF pv_bootloader_set_try, IInv, LoopInv, TypeOK
    <3>3. env'["pv_rev"] = env["pv_rev"]
      BY <3>1, <3>2, HonestWrites, EnvOps DEF IInv, TypeOK, RevOrNone
    <3>4. BootedIsRollbackPoint'
      BY <2>3, <3>2, <3>3 DEF BootedIsRollbackPoint, RollbackPoint
    <3>5. CASE w.ok
      <4>1. env'["pv_try"] = update.pending
        BY <3>1, <3>2, <3>5, HonestWrites, EnvOps DEF IInv, TypeOK, RevOrNone
      <4>2. update'.status = "INSTALLED" /\ update'.pending = update.pending
        BY <3>1, <3>5 DEF SetStatus, IInv, TypeOK, Update
      <4> QED
        BY <1>0, <2>1, <2>2, <3>1, <3>2, <3>4, <3>5, <4>1, <4>2
           DEF IInv, LoopInv, BootInv, TrialInv, TransitionInv
    <3>6. CASE ~w.ok
      BY <1>0, <2>1, <2>2, <3>1, <3>4, <3>6
         DEF IInv, LoopInv, BootInv, TrialInv, TransitionInv, NoUpdate
    <3> QED
      BY <3>5, <3>6
  <2>13. CASE Installed
    <3>1. PICK t \in {"REBOOT", "TRANSITION"} :
            /\ update' = SetStatus(update, t)
            /\ \/ t = "REBOOT" /\ st' = "REBOOT"
               \/ t = "TRANSITION" /\ st' \in {"RUN", "ROLLBACK"}
      BY <2>13 DEF Installed
    <3>2. update'.status = t /\ update'.pending = update.pending
      BY <3>1 DEF SetStatus, IInv, TypeOK, Update
    <3> QED
      BY <1>0, <2>1, <2>2, <2>3, <2>13, <3>1, <3>2
         DEF Installed, IInv, LoopInv, BootInv, TrialInv, TransitionInv, BootedIsRollbackPoint
  <2> QED
    BY <1>19, <2>5, <2>6, <2>7, <2>9, <2>10, <2>11, <2>12, <2>13 DEF UpdateStep
<1>20. CASE Rollback
  <2>1. update'.status = "RETRY_DOWNLOAD" => update'.pending \in Revs
    BY <1>20 DEF Rollback, SetStatus, IInv, LoopInv, TypeOK, Update
  <2> QED
    BY <1>0, <1>20, <2>1
       DEF Rollback, IInv, LoopInv, BootInv, TrialInv, TransitionInv, BootedIsRollbackPoint
<1>21. CASE Error
  BY <1>0, <1>21
     DEF Error, IInv, LoopInv, BootInv, TrialInv, TransitionInv, BootedIsRollbackPoint, storageVars,
         memoryVars
<1>22. CASE Shutdown
  BY <1>2, <1>22 DEF Shutdown
<1>23. CASE CommitTimer \/ RollbackTimer \/ UNCHANGED vars
  BY <1>0, <1>23
     DEF CommitTimer, RollbackTimer, vars, storageVars, IInv, LoopInv, BootInv, TrialInv,
         TransitionInv, BootedIsRollbackPoint
<1> QED
  BY <1>1, <1>3, <1>4, <1>5, <1>6, <1>7, <1>8, <1>9, <1>10, <1>12, <1>13, <1>14, <1>15, <1>16,
     <1>17, <1>18, <1>19, <1>20, <1>21, <1>22, <1>23 DEF Next, Loop, Wait, Finish

(***************************************************************************)
(* The inductive invariant holds in every behaviour in which the backend   *)
(* reports the writes that fail.                                           *)
(***************************************************************************)
THEOREM Invariance ==
  ASSUME NoLostWrites
  PROVE  Spec => []IInv
<1>1. IInv /\ [Next]_vars => IInv'
  BY INext
<1> QED
  BY <1>1, IInit, PTL DEF Spec

(***************************************************************************)
(* Outside a trial the device was booted into the rollback point.          *)
(***************************************************************************)
THEOREM BootedCorrect ==
  ASSUME NoLostWrites
  PROVE  Spec => []BootedIsRollbackPoint
<1>1. IInv => BootedIsRollbackPoint
  BY DEF IInv
<1> QED
  BY <1>1, Invariance, PTL

-----------------------------------------------------------------------------
(***************************************************************************)
(* Refinement.  A step that leaves env and running alone, and the booted   *)
(* revision while something runs, is a stuttering step of SafeUpdate.      *)
(***************************************************************************)
LEMMA Stutters ==
  ASSUME RollbackPoint(env') = RollbackPoint(env), env'["pv_try"] = env["pv_try"],
         running' = running, running = NoRev \/ bl'.pv_rev = bl.pv_rev
  PROVE  UNCHANGED Safe!vars
BY DEF Safe!vars

\* The candidate may be replaced or withdrawn when no trial is pending.
LEMMA NotPending ==
  ASSUME BootedIsRollbackPoint, running # NoRev, st \notin GivingUp,
         update.status \notin {"TRY", "TESTING_REBOOT"}
  PROVE  ~Safe!TrialPending
BY DEF BootedIsRollbackPoint, Safe!TrialPending

\* Going down is PowerDown of SafeUpdate.
LEMMA DownRefines ==
  ASSUME GoDown, UNCHANGED storageVars
  PROVE  Safe!PowerDown
BY DEF GoDown, storageVars, Safe!PowerDown

(***************************************************************************)
(* pv_update_finish withdraws a failed candidate, commits a tried one or   *)
(* leaves both keys alone.                                                 *)
(***************************************************************************)
LEMMA FinishRefines ==
  ASSUME NoLostWrites, IInv, 
         NEW u, NEW tr, NEW prog, NEW next,
         st \in {"WAIT", "UPDATE", "INSTALL"},
         IF u.status = "TESTING_REBOOT" THEN u = update
         ELSE update.status \notin {"TRY", "TESTING_REBOOT"},
         pv_update_finish(u, tr, prog, next),
         running' = running
  PROVE  [Safe!Next]_Safe!vars
<1> USE DEF GivingUp, Fresh, Committing
<1>1. running # NoRev
  BY DEF IInv, LoopInv
<1>2. CASE u.status = "FAILED" /\ pv_bootloader_set_failed
  <2>1. PICK w \in EnvWrites(env, unset_env_key(env, "pv_try")) : env' = w.env
    BY <1>2 DEF pv_bootloader_set_failed
  <2>2. env'["pv_rev"] = env["pv_rev"] /\ env'["pv_try"] \in {env["pv_try"], NoRev}
    BY <2>1, HonestWrites, EnvOps, BootEnvAssumption DEF IInv, TypeOK, RevOrNone
  <2>3. bl'.pv_rev = bl.pv_rev
    BY <1>2 DEF pv_bootloader_set_failed, IInv, TypeOK
  <2>4. ~Safe!TrialPending
    BY <1>1, <1>2, NotPending DEF IInv
  <2>5. CASE env'["pv_try"] = NoRev
    BY <1>1, <2>2, <2>3, <2>4, <2>5 DEF Safe!Next, Safe!Withdraw, RollbackPoint
  <2>6. CASE env'["pv_try"] = env["pv_try"]
    BY <2>2, <2>3, <2>6, Stutters DEF RollbackPoint
  <2> QED
    BY <2>2, <2>5, <2>6
<1>3. CASE u.status = "TESTING_REBOOT" /\ SetRev
  <2>1. running = bl.pv_rev /\ env["pv_try"] = running
    BY <1>3 DEF IInv, TrialInv
  <2>2. PICK w \in EnvWrites(env, set_env_key(env, "pv_rev", running)) : env' = w.env
    BY <1>3 DEF SetRev
  <2>3. bl'.pv_rev = bl.pv_rev
    BY <1>3, <2>1 DEF SetRev, IInv, TypeOK
  <2>4. CASE env' = env
    BY <2>3, <2>4, Stutters
  <2>5. CASE env' = set_env_key(env, "pv_rev", running)
    <3>1. env'["pv_rev"] = running /\ env'["pv_try"] = env["pv_try"]
      BY <2>5, EnvOps DEF IInv, TypeOK
    <3>2. RollbackPoint(env') = running
      BY <1>1, <3>1 DEF RollbackPoint
    <3>3. CASE RollbackPoint(env) = running
      BY <2>3, <3>1, <3>2, <3>3, Stutters
    <3>4. CASE RollbackPoint(env) # running
      BY <1>1, <2>1, <2>3, <3>1, <3>2, <3>4 DEF Safe!Next, Safe!Commit, Safe!TrialPending
    <3> QED
      BY <3>3, <3>4
  <2> QED
    BY <2>2, <2>4, <2>5, EnvWritesType
<1>4. CASE UNCHANGED <<env, bl>>
  BY <1>4, Stutters
<1> QED
  BY <1>2, <1>3, <1>4 DEF pv_update_finish

(***************************************************************************)
(* Every step is a step of SafeUpdate or leaves its variables alone.       *)
(***************************************************************************)
LEMMA StepRefines ==
  ASSUME NoLostWrites, IInv, [Next]_vars
  PROVE  [Safe!Next]_Safe!vars
<1> USE DEF GivingUp, Fresh, Committing
<1>1. CASE UNCHANGED <<env, bl, running>>
  BY <1>1, Stutters
<1>2. CASE GoDown /\ UNCHANGED storageVars
  BY <1>2, DownRefines DEF Safe!Next
<1>3. CASE Boot
  <2>1. env'["pv_rev"] = env["pv_rev"] /\ env'["pv_try"] = env["pv_try"]
    BY <1>3, EnvOps, BootEnvAssumption DEF Boot, IInv, TypeOK, RevOrNone
  <2>2. running = NoRev /\ running' = running
    BY <1>3 DEF Boot, IInv, LoopInv
  <2> QED
    BY <2>1, <2>2, Stutters DEF RollbackPoint
<1>4. CASE RunState
  <2>1. UNCHANGED <<env, bl>>
    BY <1>4 DEF RunState
  <2>2. CASE update.status = "TRANSITION"
    <3>0. update # NoUpdate
      BY <2>2 DEF NoUpdate
    <3>1. running' = update.pending
      BY <1>4, <2>2, <3>0 DEF RunState, pv_update_resume, RunTarget
    <3>2. running # NoRev /\ env["pv_try"] = update.pending /\ update.pending # NoRev
      BY <1>4, <2>2, BootEnvAssumption DEF RunState, IInv, LoopInv, TransitionInv
    <3>3. ~Safe!TrialPending
      BY <1>4, <2>2, <3>2, NotPending DEF RunState, IInv
    <3> QED
      BY <2>1, <3>1, <3>2, <3>3 DEF Safe!Next, Safe!Switch
  <2>3. CASE update.status # "TRANSITION"
    <3>1. update = NoUpdate /\ running = NoRev
          /\ bl.pv_rev \in {env["pv_try"], RollbackPoint(env)} \ {NoRev}
      BY <1>4, <2>3 DEF RunState, IInv, LoopInv, BootInv
    <3>2. pv_update_resume.status # "TRANSITION"
      BY <2>3, <3>1 DEF pv_update_resume, pv_update_new
    <3>3. running' = bl.pv_rev
      BY <1>4, <3>2 DEF RunState, RunTarget
    <3> QED
      BY <2>1, <3>1, <3>3 DEF Safe!Next, Safe!PowerUp
  <2> QED
    BY <2>2, <2>3
<1>5. CASE CommitTry
  <2>1. PICK w \in EnvWrites(env, unset_env_key(env, "pv_try")) : env' = w.env
    BY <1>5 DEF CommitTry
  <2>2. env'["pv_rev"] = env["pv_rev"] /\ env'["pv_try"] \in {env["pv_try"], NoRev}
    BY <2>1, HonestWrites, EnvOps, BootEnvAssumption DEF IInv, TypeOK, RevOrNone
  <2>3. bl'.pv_rev = bl.pv_rev /\ running' = running
    BY <1>5 DEF CommitTry, IInv, TypeOK
  <2>4. running # NoRev /\ RollbackPoint(env) = running
    BY <1>5 DEF CommitTry, IInv, LoopInv, TrialInv, RollbackPoint
  <2>5. CASE env'["pv_try"] = NoRev
    BY <2>2, <2>3, <2>4, <2>5 DEF Safe!Next, Safe!Withdraw, Safe!TrialPending, RollbackPoint
  <2>6. CASE env'["pv_try"] = env["pv_try"]
    BY <2>2, <2>3, <2>6, Stutters DEF RollbackPoint
  <2> QED
    BY <2>2, <2>5, <2>6
<1>6. CASE CommitFlush
  <2>1. env'["pv_rev"] = env["pv_rev"] /\ env'["pv_try"] = env["pv_try"]
    BY <1>6, EnvWritesType, EnvOps, BootEnvAssumption DEF CommitFlush, IInv, TypeOK, RevOrNone
  <2> QED
    BY <1>6, <2>1, Stutters DEF CommitFlush, memoryVars, RollbackPoint
<1>7. ASSUME NEW prog, st = "WAIT", pv_wait_update(prog), running' = running
      PROVE  [Safe!Next]_Safe!vars
  <2>1. CASE UNCHANGED <<env, bl>>
    BY <1>1, <1>7, <2>1
  <2>2. CASE ~pv_update_is_trying(update) /\ pv_update_finish(update, trail, prog, "CTRL")
    BY <1>7, <2>2, FinishRefines DEF pv_update_is_trying
  <2> QED
    BY <1>7, <2>1, <2>2 DEF pv_wait_update
<1>8. CASE Wait
  <2>1. CASE WaitLocal \/ WaitNetwork
    BY <1>7, <2>1 DEF WaitLocal, WaitNetwork
  <2> QED
    BY <1>1, <1>8, <2>1 DEF Wait, PlatformExited, WaitIdle, WaitUnclaimed, WaitNoAuth,
         WaitFactoryMeta, WaitNewUpdate, memoryVars, storageVars
<1>9. CASE UpdateStep
  <2>1. st \in {"UPDATE", "INSTALL", "INSTALL_ENV", "INSTALLED"} /\ running' = running
    BY <1>9 DEF UpdateStep, DownloadLocal, DownloadNotNow, DownloadNoMoreRetries, Download, Attempt,
         InstallFailed, Install, pv_bootloader_set_try, Installed, memoryVars
  <2>2. running # NoRev /\ update.status \notin {"TRY", "TESTING_REBOOT"}
    BY <2>1 DEF IInv, DownloadInv, LoopInv
  <2>3. ASSUME NEW u, NEW tr, NEW prog, st \in {"UPDATE", "INSTALL"},
               u.status # "TESTING_REBOOT", pv_update_finish(u, tr, prog, "WAIT")
        PROVE  [Safe!Next]_Safe!vars
    BY <2>1, <2>2, <2>3, FinishRefines
  <2>4. CASE DownloadLocal \/ Install \/ Installed
    BY <1>1, <2>4 DEF DownloadLocal, Install, Installed, memoryVars
  <2>5. CASE DownloadNotNow
    BY <2>2, <2>3, <2>5 DEF DownloadNotNow
  <2>6. CASE DownloadNoMoreRetries
    <3>1. NextTry(update).status = update.status
      BY DEF NextTry, IInv, TypeOK, Update
    <3> QED
      BY <2>2, <2>3, <2>6, <3>1 DEF DownloadNoMoreRetries
  <2>7. ASSUME NEW t \in {"DOWNLOADED", "RETRY_DOWNLOAD", "NO_DOWNLOAD"}, NEW S, Attempt(t, S)
        PROVE  [Safe!Next]_Safe!vars
    <3>1. SetStatus(NextTry(update), t).status = t
      BY DEF SetStatus, NextTry, IInv, TypeOK, Update
    <3> QED
      BY <1>1, <2>3, <2>7, <3>1 DEF Attempt
  <2>8. CASE Download
    BY <2>7, <2>8 DEF Download
  <2>9. CASE InstallFailed
    <3>1. ASSUME NEW t \in {"FAILED", update.status}
          PROVE  SetStatus(update, t).status = t
      BY DEF SetStatus, IInv, TypeOK, Update
    <3> QED
      BY <2>2, <2>3, <2>9, <3>1 DEF InstallFailed
  <2>10. CASE pv_bootloader_set_try
    <3>1. PICK w \in EnvWrites(env, set_env_key(env, "pv_try", update.pending)) : env' = w.env
      BY <2>10 DEF pv_bootloader_set_try
    <3>2. update.pending \in Revs /\ bl'.pv_rev = bl.pv_rev
      BY <2>10 DEF pv_bootloader_set_try, IInv, LoopInv, TypeOK
    <3>3. ~Safe!TrialPending
      BY <2>1, <2>2, NotPending DEF IInv
    <3>4. CASE env' = env
      BY <2>1, <3>2, <3>4, Stutters
    <3>5. CASE env' = set_env_key(env, "pv_try", update.pending)
      <4>1. env'["pv_rev"] = env["pv_rev"] /\ env'["pv_try"] = update.pending
        BY <3>2, <3>5, EnvOps DEF IInv, TypeOK, RevOrNone
      <4> QED
        BY <2>1, <2>2, <3>2, <3>3, <4>1 DEF Safe!Next, Safe!Stage, RollbackPoint
    <3> QED
      BY <3>1, <3>4, <3>5, EnvWritesType
  <2> QED
    BY <1>9, <2>4, <2>5, <2>6, <2>8, <2>9, <2>10 DEF UpdateStep
<1>10. CASE PvInit
  BY <1>1, <1>2, <1>10 DEF PvInit, memoryVars, storageVars
<1>11. CASE PowerLoss \/ Shutdown
  BY <1>2, <1>11 DEF PowerLoss, Shutdown
<1>12. CASE \/ RunNoState \/ FinishFailed \/ Committed \/ Ctrl \/ PutStep \/ FactoryUpload
            \/ Command \/ CommandMakeFactory \/ MakeFactory \/ Rollback \/ Error
            \/ CommitTimer \/ RollbackTimer \/ UNCHANGED vars
  BY <1>1, <1>12 DEF RunNoState, FinishFailed, Committed, Ctrl, PutStep, FactoryUpload, Command,
       CommandMakeFactory, MakeFactory, Rollback, Error, CommitTimer, RollbackTimer, vars,
       storageVars, memoryVars
<1> QED
  BY <1>3, <1>4, <1>5, <1>6, <1>8, <1>9, <1>10, <1>11, <1>12 DEF Next, Loop, Finish

(***************************************************************************)
(* Pantavisor implements SafeUpdate for any set of revisions, any backend, *)
(* any configuration and any pattern of power losses and reported write    *)
(* errors: the rollback point moves only to a revision that was booted on  *)
(* trial and runs.                                                         *)
(***************************************************************************)
THEOREM Implements ==
  ASSUME NoLostWrites
  PROVE  Spec => Refinement
<1>1. Init => Safe!Init
  BY DEF Init, Safe!Init, RollbackPoint, EnvKeys
<1>2. IInv /\ [Next]_vars => [Safe!Next]_Safe!vars
  BY StepRefines
<1> QED
  BY <1>1, <1>2, Invariance, PTL DEF Spec, Refinement, Safe!Spec

-----------------------------------------------------------------------------
(***************************************************************************)
(* What is stored as "DONE".  A step of these kinds marks nothing new.     *)
(***************************************************************************)
NewlyDone(prog, r) == prog[r] = "DONE" /\ progress[r] # "DONE"

\* Only the status DONE is stored as "DONE", in the trail of the update.
LEMMA StoreNotDone ==
  ASSUME NEW prog \in [Revs -> Reports], NEW tr, NEW u, NEW s, NEW r \in Revs,
         StoreStatus(prog, tr, u, s)[r] = "DONE", prog[r] # "DONE"
  PROVE  s = "DONE" /\ r = u.pending
BY DEF StoreStatus, pv_storage_set_rev_progress, ProgressOf

\* Removing revisions marks none of them.
LEMMA RmNotDone ==
  ASSUME TypeOK, NEW S, NEW r \in Revs
  PROVE  ~NewlyDone(pv_storage_rm_rev(progress, S, "NONE"), r)
BY DEF NewlyDone, pv_storage_rm_rev, TypeOK

\* Neither does pv_update_finish, apart from the commit that it leads to.
LEMMA FinishNotDone ==
  ASSUME NEW u, u.status \in Statuses, NEW tr, NEW prog \in [Revs -> Reports], NEW next,
         pv_update_finish(u, tr, prog, next), NEW r \in Revs, NewlyDone(progress', r)
  PROVE  NewlyDone(prog, r)
<1>1. FinalStatus(u) # "DONE"
  BY DEF FinalStatus, Statuses
<1>2. CASE progress' = prog
  BY <1>2
<1>3. CASE progress' = StoreStatus(prog, tr, u, FinalStatus(u))
  BY <1>1, <1>3, StoreNotDone DEF NewlyDone
<1> QED
  BY <1>2, <1>3 DEF pv_update_finish

\* One step marks a revision only when it is the rollback point, or "0" synced.
LEMMA DoneStep ==
  ASSUME IInv, Next, NEW r \in Revs, NewlyDone(progress', r)
  PROVE  \/ r = Factory /\ st = "WAIT"
         \/ env["pv_rev"] = r /\ env["pv_try"] = NoRev
<1>0. TypeOK /\ progress \in [Revs -> Reports] /\ update.status \in Statuses
  BY DEF IInv, TypeOK, Update
<1>1. CASE UNCHANGED progress
  BY <1>1 DEF NewlyDone
<1>2. ASSUME NEW S, Removed(S) PROVE FALSE
  BY <1>0, <1>2, RmNotDone DEF Removed
<1>3. CASE Committed
  <2>1. r = update.pending
    BY <1>0, <1>3, StoreNotDone DEF Committed, NewlyDone
  <2> QED
    BY <1>3, <2>1 DEF Committed, IInv, LoopInv, TrialInv, Committing, GivingUp
<1>4. ASSUME NEW s \in Statuses, progress' = StoreStatus(progress, trail, update, s) PROVE FALSE
  BY <1>0, <1>4, StoreNotDone DEF NewlyDone, Statuses
<1>5. CASE RunState
  BY <1>0, <1>5 DEF RunState, pv_storage_set_rev_progress, NewlyDone
<1>6. ASSUME NEW prog \in [Revs -> Reports], pv_wait_update(prog) PROVE NewlyDone(prog, r)
  <2>1. CASE progress' = prog
    BY <2>1
  <2>2. CASE progress' = StoreStatus(prog, trail, update, pv_update_test(update))
    BY <1>6, <2>2, StoreNotDone DEF NewlyDone, pv_update_test
  <2>3. CASE pv_update_finish(update, trail, prog, "CTRL")
    BY <1>0, <1>6, <2>3, FinishNotDone
  <2> QED
    BY <1>6, <2>1, <2>2, <2>3 DEF pv_wait_update
<1>7. CASE WaitLocal
  BY <1>0, <1>6, <1>7 DEF WaitLocal, NewlyDone
<1>8. CASE WaitNetwork
  <2> DEFINE synced0 == pv_storage_set_rev_progress(progress, trail, Factory, "DONE")
  <2>1. synced0 \in [Revs -> Reports]
    BY <1>0 DEF pv_storage_set_rev_progress, Reports
  <2>2. NewlyDone(progress, r) \/ NewlyDone(synced0, r)
    BY <1>0, <1>6, <1>8, <2>1 DEF WaitNetwork
  <2> QED
    BY <1>0, <1>8, <2>2 DEF WaitNetwork, pv_storage_set_rev_progress, NewlyDone
<1>9. CASE WaitUnclaimed
  BY <1>0, <1>9 DEF WaitUnclaimed, pv_storage_set_rev_progress, NewlyDone
<1>10. CASE FinishFailed \/ Installed \/ Rollback
  BY <1>1, <1>4, <1>10 DEF FinishFailed, Installed, Rollback, Statuses
<1>11. CASE Ctrl \/ Command \/ CommandMakeFactory
  BY <1>1, <1>2, <1>11 DEF Ctrl, Command, CommandMakeFactory
<1>12. CASE pv_bootloader_set_try
  BY <1>2, <1>4, <1>12 DEF pv_bootloader_set_try, Statuses
<1>13. CASE DownloadNotNow
  BY <1>0, <1>13, FinishNotDone DEF DownloadNotNow, NewlyDone
<1>14. CASE DownloadNoMoreRetries
  <2>1. NextTry(update).status \in Statuses
    BY <1>0 DEF NextTry, TypeOK, Update
  <2> QED
    BY <1>0, <1>14, <2>1, FinishNotDone DEF DownloadNoMoreRetries, NewlyDone
<1>15. ASSUME NEW t \in {"DOWNLOADED", "RETRY_DOWNLOAD", "NO_DOWNLOAD"}, NEW S, Attempt(t, S)
       PROVE  FALSE
  <2> DEFINE u == SetStatus(NextTry(update), t)
             rm == pv_storage_rm_rev(progress, S, "NONE")
             prog == StoreStatus(rm, trail', u, t)
  <2>1. u.status \in Statuses
    BY <1>0 DEF SetStatus, NextTry, TypeOK, Update, Statuses
  <2>2. rm \in [Revs -> Reports] /\ prog \in [Revs -> Reports]
    BY <1>0, RmRevType, StoreStatusType DEF Reports
  <2>3. ~NewlyDone(rm, r)
    BY <1>0, RmNotDone
  <2>4. ~NewlyDone(prog, r)
    <3> HIDE DEF rm, u
    <3> QED
      BY <2>2, <2>3, StoreNotDone DEF NewlyDone
  <2>5. progress' = prog \/ pv_update_finish(u, trail', prog, "WAIT")
    BY <1>15 DEF Attempt
  <2> HIDE DEF u, prog
  <2> QED
    BY <2>1, <2>2, <2>4, <2>5, FinishNotDone
<1>16. CASE Download
  BY <1>15, <1>16 DEF Download
<1>17. CASE InstallFailed
  <2>1. PICK t \in {"FAILED", update.status} :
          pv_update_finish(SetStatus(update, t), trail',
                           pv_storage_rm_rev(progress, {update.pending}, "NONE"), "WAIT")
    BY <1>17 DEF InstallFailed
  <2>2. SetStatus(update, t).status \in Statuses
    BY <1>0 DEF SetStatus, TypeOK, Update, Statuses
  <2>3. pv_storage_rm_rev(progress, {update.pending}, "NONE") \in [Revs -> Reports]
    BY <1>0, RmRevType DEF Reports
  <2>4. ~NewlyDone(pv_storage_rm_rev(progress, {update.pending}, "NONE"), r)
    BY <1>0, RmNotDone
  <2> QED
    BY <2>1, <2>2, <2>3, <2>4, FinishNotDone
<1>18. CASE \/ Boot \/ PowerLoss \/ PvInit \/ RunNoState \/ PlatformExited \/ WaitIdle
            \/ WaitNoAuth \/ WaitFactoryMeta \/ WaitNewUpdate \/ CommitTry \/ CommitFlush
            \/ PutStep \/ FactoryUpload \/ MakeFactory \/ DownloadLocal \/ Install
            \/ Error \/ Shutdown \/ CommitTimer \/ RollbackTimer
  BY <1>1, <1>18 DEF Boot, PowerLoss, PvInit, RunNoState, PlatformExited, WaitIdle, WaitNoAuth,
       WaitFactoryMeta, WaitNewUpdate, CommitTry, CommitFlush, PutStep, FactoryUpload, MakeFactory,
       DownloadLocal, Install, Error, Shutdown, CommitTimer, RollbackTimer, storageVars
<1> QED
  BY <1>3, <1>5, <1>7, <1>8, <1>9, <1>10, <1>11, <1>12, <1>13, <1>14, <1>16, <1>17, <1>18
     DEF Next, Loop, Wait, Finish, UpdateStep

(***************************************************************************)
(* A revision is stored as DONE only when it is the rollback point and no  *)
(* trial is open, or when it is "0" and was synced to the cloud.           *)
(***************************************************************************)
THEOREM DoneCorrect ==
  ASSUME NoLostWrites
  PROVE  Spec => DoneIsRollbackPoint
<1>1. IInv /\ [Next]_vars =>
        [\A r \in Revs :
           progress'[r] = "DONE" /\ progress[r] # "DONE" =>
             \/ r = Factory /\ st = "WAIT"
             \/ env["pv_rev"] = r /\ env["pv_try"] = NoRev]_vars
  BY DoneStep DEF NewlyDone
<1> QED
  BY <1>1, Invariance, PTL DEF Spec, DoneIsRollbackPoint

-----------------------------------------------------------------------------
\* Going down and giving up are for good, until the device boots.
LEMMA GivenUp ==
  ASSUME [Next]_vars, st \in GivingUp
  PROVE  st' \in GivingUp \cup {"OFF"}
<1> USE DEF GivingUp
<1>1. CASE Rollback \/ Error \/ Shutdown \/ PowerLoss
  BY <1>1 DEF Rollback, Error, Shutdown, PowerLoss, GoDown
<1>2. CASE CommitTimer \/ RollbackTimer \/ UNCHANGED vars
  BY <1>2 DEF CommitTimer, RollbackTimer, vars
<1>3. ~(Wait \/ Finish)
  BY DEF Wait, PlatformExited, WaitLocal, WaitIdle, WaitUnclaimed, WaitNoAuth, WaitFactoryMeta,
         WaitNewUpdate, WaitNetwork, Finish, FinishFailed, CommitTry, CommitFlush, Committed
<1>4. ~UpdateStep
  BY DEF UpdateStep, DownloadLocal, DownloadNotNow, DownloadNoMoreRetries, Download, Attempt,
         InstallFailed, Install, pv_bootloader_set_try, Installed
<1>5. ~(\/ Boot \/ PvInit \/ RunNoState \/ RunState \/ Ctrl \/ PutStep \/ FactoryUpload
        \/ Command \/ CommandMakeFactory \/ MakeFactory)
  BY DEF Boot, PvInit, RunNoState, RunState, Ctrl, PutStep, FactoryUpload, Command,
         CommandMakeFactory, MakeFactory
<1> QED BY <1>1, <1>2, <1>3, <1>4, <1>5 DEF Next, Loop

-----------------------------------------------------------------------------
(***************************************************************************)
(* An installed revision is the one that is tried.  From its download to   *)
(* the reboot an update has one revision, and from the write of pv_try on  *)
(* that is what the boot loader finds, with no note of an earlier trial.   *)
(***************************************************************************)
Installing == {"UPDATE", "INSTALL", "INSTALL_ENV", "INSTALLED"}

StagedInv ==
  /\ st \in Installing \/ update.status \in {"RETRY_DOWNLOAD", "REBOOT"} =>
       update.rev = update.pending
  /\ update.status = "REBOOT" => st = "REBOOT"
  /\ st = "INSTALLED" \/ update.status = "REBOOT" =>
       env["pv_try"] = update.pending /\ update.pending # NoRev /\ env["pv_trying"] = NoRev

\* pv_update_finish keeps it.
LEMMA FinishStaged ==
  ASSUME IInv, StagedInv, NEW u, NEW tr, NEW prog, NEW next \in {"CTRL", "WAIT"},
         u.rev = update.rev, u.pending = update.pending,
         u.status # "REBOOT", u.status = "RETRY_DOWNLOAD" => update.rev = update.pending,
         pv_update_finish(u, tr, prog, next)
  PROVE  StagedInv'
<1>1. update' \in {u, NoUpdate}
  BY DEF pv_update_finish
<1>2. st' \in {"CTRL", "WAIT", "FINISH_FAILED", "UPDATE_FAILED", "COMMIT_TRY", "ROLLBACK"}
  BY DEF pv_update_finish, SetRev
<1> QED BY <1>1, <1>2 DEF StagedInv, Installing, NoUpdate

\* The key is written, and the note that starts with it goes (bootloader.c).
LEMMA StageClears ==
  ASSUME EnvKind # "uboot", NEW e \in Env, NEW r \in Revs
  PROVE  /\ set_env_key(e, "pv_try", r)["pv_try"] = r
         /\ set_env_key(e, "pv_try", r)["pv_trying"] = NoRev
BY DEF set_env_key, unset_env_key, Hits, Env, EnvKeys

LEMMA StagedNext ==
  ASSUME NoLostWrites, EnvKind # "uboot", IInv, StagedInv, [Next]_vars
  PROVE  StagedInv'
<1> USE DEF Installing
<1>0. update \in Update /\ env \in Env
  BY DEF IInv, TypeOK
<1>1. ASSUME UNCHANGED <<env, update>>, st' = st \/ (st' \notin Installing /\ st # "REBOOT")
      PROVE  StagedInv'
  BY <1>1 DEF StagedInv
<1>2. CASE GoDown
  BY <1>2 DEF GoDown, StagedInv, NoUpdate
<1>3. CASE Boot
  BY <1>3 DEF Boot, IInv, LoopInv, Fresh, StagedInv, NoUpdate
<1>4. CASE PvInit \/ PowerLoss \/ Shutdown
  BY <1>1, <1>2, <1>4 DEF PvInit, PowerLoss, Shutdown, memoryVars, storageVars
<1>5. CASE RunNoState \/ RunState
  <2>1. st = "RUN" /\ st' \in {"ROLLBACK", "WAIT"}
    BY <1>5 DEF RunNoState, RunState
  <2>2. CASE update.status = "TRANSITION"
    <3>1. update # NoUpdate
      BY <2>2 DEF NoUpdate
    <3>2. update' = update /\ env' = env
      BY <1>5, <2>2, <3>1 DEF RunNoState, RunState, pv_update_resume, RunUpdate
    <3> QED BY <2>1, <2>2, <3>2 DEF StagedInv
  <2>3. CASE update.status # "TRANSITION"
    <3>1. update = NoUpdate
      BY <2>1, <2>3 DEF IInv, LoopInv, Fresh
    <3>2. pv_update_resume \in Update /\ pv_update_resume.status \in {"NONE", "TRY", "FAILED"}
      BY <3>1, NoneType DEF pv_update_resume, pv_update_new, NoUpdate, Update, Statuses,
           IInv, TypeOK, RevOrNone
    <3>3. update'.status \in {"NONE", "TRY", "FAILED"}
      BY <1>5, <3>2 DEF RunNoState, RunState, RunUpdate, Update
    <3> QED BY <2>1, <3>3 DEF StagedInv
  <2> QED BY <2>2, <2>3
<1>6. ASSUME NEW prog, st = "WAIT", pv_wait_update(prog)
      PROVE  StagedInv'
  <2>1. CASE st' = "CTRL" /\ UNCHANGED <<env, update>>
    BY <1>1, <1>6, <2>1
  <2>2. CASE /\ update' = SetStatus(update, pv_update_test(update))
             /\ st' = "CTRL"
    <3>1. update'.status \in {"TESTING_REBOOT", "TESTING_NONREBOOT"}
      BY <1>0, <2>2 DEF SetStatus, pv_update_test, Update
    <3> QED BY <2>2, <3>1 DEF StagedInv
  <2>3. CASE pv_update_finish(update, trail, prog, "CTRL")
    BY <1>6, <2>3, FinishStaged DEF StagedInv
  <2> QED BY <1>6, <2>1, <2>2, <2>3 DEF pv_wait_update
<1>7. CASE WaitLocal \/ WaitNetwork
  BY <1>6, <1>7 DEF WaitLocal, WaitNetwork
<1>8. CASE WaitNewUpdate
  <2>1. st = "WAIT" /\ st' = "UPDATE" /\ update'.status # "REBOOT"
    BY <1>8 DEF WaitNewUpdate, AcceptStep, pv_update_new
  <2>2. update'.rev = update'.pending
    BY <1>8 DEF WaitNewUpdate, AcceptStep, pv_update_new, StagedInv
  <2> QED BY <2>1, <2>2 DEF StagedInv
<1>9. CASE PlatformExited \/ WaitIdle \/ WaitUnclaimed \/ WaitNoAuth \/ WaitFactoryMeta
  BY <1>1, <1>9 DEF PlatformExited, WaitIdle, WaitUnclaimed, WaitNoAuth, WaitFactoryMeta,
       memoryVars, storageVars
<1>10. CASE FinishFailed \/ Committed
  BY <1>10 DEF FinishFailed, Committed, StagedInv, NoUpdate
<1>11. CASE CommitTry \/ CommitFlush
  <2>1. update.status = "TESTING_REBOOT"
    BY <1>11 DEF CommitTry, CommitFlush, IInv, LoopInv
  <2> QED BY <1>11, <2>1 DEF CommitTry, CommitFlush, memoryVars, StagedInv
<1>12. CASE Ctrl \/ PutStep \/ FactoryUpload \/ CommandMakeFactory
  BY <1>1, <1>12 DEF Ctrl, PutStep, FactoryUpload, CommandMakeFactory, memoryVars, storageVars
<1>13. CASE Command \/ MakeFactory
  <2>1. st \in {"COMMAND", "MAKE_FACTORY"} /\ env' = env
    BY <1>13 DEF Command, MakeFactory
  <2>2. \/ update' = update /\ st' \in {"WAIT", "REBOOT", "POWEROFF"}
        \/ /\ update'.rev = update'.pending /\ update'.status = "INIT" /\ st' = "UPDATE"
    BY <1>13 DEF Command, MakeFactory, pv_update_get_step_local, pv_update_new
  <2> QED BY <2>1, <2>2 DEF StagedInv
<1>14. CASE DownloadLocal \/ Install
  BY <1>14 DEF DownloadLocal, Install, memoryVars, StagedInv
<1>15. CASE DownloadNotNow
  BY <1>15, FinishStaged DEF DownloadNotNow, StagedInv
<1>16. CASE DownloadNoMoreRetries
  <2>1. /\ NextTry(update).status = update.status
        /\ NextTry(update).rev = update.rev /\ NextTry(update).pending = update.pending
    BY <1>0 DEF NextTry, Update
  <2> QED BY <1>16, <2>1, FinishStaged DEF DownloadNoMoreRetries, StagedInv
<1>17. ASSUME NEW t \in {"DOWNLOADED", "RETRY_DOWNLOAD", "NO_DOWNLOAD"}, NEW S, Attempt(t, S)
       PROVE  StagedInv'
  <2> DEFINE u == SetStatus(NextTry(update), t)
  <2>1. u.status = t /\ u.rev = update.rev /\ u.pending = update.pending
    BY <1>0 DEF SetStatus, NextTry, Update
  <2>2. st = "UPDATE" /\ update.rev = update.pending
    BY <1>17 DEF Attempt, StagedInv
  <2>3. CASE update' = u /\ st' = "INSTALL"
    BY <1>17, <2>1, <2>2, <2>3 DEF StagedInv
  <2>4. ASSUME NEW prog, pv_update_finish(u, trail', prog, "WAIT")
        PROVE  StagedInv'
    <3> HIDE DEF u
    <3> QED BY <1>17, <2>1, <2>2, <2>4, FinishStaged
  <2> QED BY <1>17, <2>3, <2>4 DEF Attempt
<1>18. CASE Download
  BY <1>17, <1>18 DEF Download
<1>19. CASE InstallFailed
  <2>1. st = "INSTALL" /\ update.rev = update.pending /\ update.status # "REBOOT"
    BY <1>19 DEF InstallFailed, StagedInv
  <2>2. PICK t \in {"FAILED", update.status} :
          pv_update_finish(SetStatus(update, t), trail',
                           pv_storage_rm_rev(progress, {update.pending}, "NONE"), "WAIT")
    BY <1>19 DEF InstallFailed
  <2>3. /\ SetStatus(update, t).status = t
        /\ SetStatus(update, t).rev = update.rev /\ SetStatus(update, t).pending = update.pending
    BY <1>0 DEF SetStatus, Update
  <2> QED BY <2>1, <2>2, <2>3, FinishStaged
<1>20. CASE pv_bootloader_set_try
  <2>1. update.pending \in Revs /\ update.rev = update.pending /\ NoRev \notin Revs
    BY <1>20, BootEnvAssumption DEF pv_bootloader_set_try, IInv, LoopInv, StagedInv
  <2>2. PICK w \in EnvWrites(env, set_env_key(env, "pv_try", update.pending)) :
          /\ env' = w.env
          /\ \/ w.ok /\ st' = "INSTALLED" /\ update' = SetStatus(update, "INSTALLED")
             \/ st' = "WAIT" /\ update' = NoUpdate
    BY <1>20 DEF pv_bootloader_set_try
  <2>3. CASE w.ok /\ st' = "INSTALLED" /\ update' = SetStatus(update, "INSTALLED")
    <3>1. env'["pv_try"] = update.pending /\ env'["pv_trying"] = NoRev
      BY <1>0, <2>1, <2>2, <2>3, HonestWrites, StageClears
    <3>2. update'.rev = update.rev /\ update'.pending = update.pending
          /\ update'.status = "INSTALLED"
      BY <1>0, <2>3 DEF SetStatus, Update
    <3> QED BY <2>1, <2>3, <3>1, <3>2 DEF StagedInv
  <2>4. CASE st' = "WAIT" /\ update' = NoUpdate
    BY <2>4 DEF StagedInv, NoUpdate
  <2> QED BY <2>2, <2>3, <2>4
<1>21. CASE Installed
  <2>1. PICK s \in {"REBOOT", "TRANSITION"} :
          /\ update' = SetStatus(update, s)
          /\ s = "REBOOT" => st' = "REBOOT"
          /\ st' \in {"REBOOT", "RUN", "ROLLBACK"}
    BY <1>21 DEF Installed
  <2>2. update'.rev = update.rev /\ update'.pending = update.pending /\ update'.status = s
    BY <1>0, <2>1 DEF SetStatus, Update
  <2> QED BY <1>21, <2>1, <2>2 DEF Installed, StagedInv
<1>22. CASE Rollback
  <2>1. st = "ROLLBACK" /\ env' = env /\ st' \in {"ERROR", "REBOOT"}
        /\ update' \in {update, SetStatus(update, "FAILED")}
    BY <1>22 DEF Rollback
  <2>2. update'.status \in {update.status, "FAILED"} /\ update'.rev = update.rev
        /\ update'.pending = update.pending
    BY <1>0, <2>1 DEF SetStatus, Update
  <2> QED BY <2>1, <2>2 DEF StagedInv
<1>23. CASE Error \/ CommitTimer \/ RollbackTimer \/ UNCHANGED vars
  BY <1>1, <1>23 DEF Error, CommitTimer, RollbackTimer, vars, storageVars, memoryVars
<1> QED
  BY <1>3, <1>4, <1>5, <1>7, <1>8, <1>9, <1>10, <1>11, <1>12, <1>13, <1>14, <1>15, <1>16, <1>18,
     <1>19, <1>20, <1>21, <1>22, <1>23
     DEF Next, Loop, Wait, Finish, UpdateStep

(***************************************************************************)
(* Whatever trial of the same revision went before, the boot loader picks  *)
(* the revision that was installed, if setting pv_try drops the note       *)
(* pv_trying, as it does in every store but uboot.txt (uboot.c, grub.c).   *)
(***************************************************************************)
THEOREM InstalledCorrect ==
  ASSUME NoLostWrites, EnvKind # "uboot"
  PROVE  Spec => []InstalledIsTried
<1>1. Init => StagedInv
  BY DEF Init, StagedInv, Installing, NoUpdate
<1>2. IInv /\ StagedInv /\ [Next]_vars => StagedInv'
  BY StagedNext
<1>3. StagedInv => InstalledIsTried
  BY DEF StagedInv, InstalledIsTried, BootRev, FirstTry
<1> QED BY <1>1, <1>2, <1>3, Invariance, PTL DEF Spec

-----------------------------------------------------------------------------
(***************************************************************************)
(* The rollback point stays on disk.  What the collector spares as done is *)
(* what the environment calls pv_rev, and what is on trial is complete.    *)
(***************************************************************************)
OnTrial == update.status \in {"TRY", "TESTING_REBOOT"} /\ st \notin GivingUp

KeptInv ==
  /\ env["pv_rev"] # NoRev /\ st \notin GivingUp \cup {"OFF"} => bl.pv_done = env["pv_rev"]
  /\ OnTrial => trail[running] = "full"
  /\ st = "MAKE_FACTORY" => cmd.op = "MAKE_FACTORY"

\* The write that makes the revision on trial the one to fall back to.
Commits ==
  /\ st = "WAIT" /\ update.status = "TESTING_REBOOT"
  /\ SetRev
  /\ UNCHANGED <<trail, running, update, cmd>>

LEMMA FinishRev ==
  ASSUME env \in Env, NEW u, NEW tr, NEW prog, NEW next,
         u.status # "TESTING_REBOOT", pv_update_finish(u, tr, prog, next),
         bl \in [pv_rev : RevOrNone, pv_try : RevOrNone, pv_done : RevOrNone]
  PROVE  env'["pv_rev"] = env["pv_rev"] /\ bl'.pv_done = bl.pv_done
<1>1. CASE pv_bootloader_set_failed
  <2>1. PICK w \in EnvWrites(env, unset_env_key(env, "pv_try")) : env' = w.env
    BY <1>1 DEF pv_bootloader_set_failed
  <2>2. env'["pv_rev"] = env["pv_rev"]
    BY <2>1, EnvWritesType, EnvOps DEF RevOrNone
  <2> QED BY <1>1, <2>2 DEF pv_bootloader_set_failed
<1>2. CASE UNCHANGED <<env, bl>>
  BY <1>2
<1> QED BY <1>1, <1>2 DEF pv_update_finish

\* Nothing else changes pv_rev, or what is remembered of it while up.
LEMMA RevSteps ==
  ASSUME IInv, [Next]_vars
  PROVE  \/ Commits
         \/ env'["pv_rev"] = env["pv_rev"] /\ (bl'.pv_done = bl.pv_done \/ "OFF" \in {st, st'})
<1> DEFINE P == env'["pv_rev"] = env["pv_rev"] /\ (bl'.pv_done = bl.pv_done \/ "OFF" \in {st, st'})
<1>0. /\ env \in Env /\ update \in Update
      /\ bl \in [pv_rev : RevOrNone, pv_try : RevOrNone, pv_done : RevOrNone]
  BY DEF IInv, TypeOK
<1>1. CASE UNCHANGED <<env, bl>>
  BY <1>1
<1>2. CASE Boot
  BY <1>0, <1>2, EnvOps, BootEnvAssumption DEF Boot, RevOrNone
<1>3. CASE PvInit \/ PowerLoss \/ Shutdown
  BY <1>3 DEF PvInit, PowerLoss, Shutdown, GoDown, memoryVars, storageVars
<1>4. ASSUME NEW prog, st = "WAIT", pv_wait_update(prog), UNCHANGED <<running, cmd>>
      PROVE  Commits \/ P
  <2>1. CASE update.status # "TESTING_REBOOT" /\ pv_update_finish(update, trail, prog, "CTRL")
    BY <1>0, <2>1, FinishRev
  <2>2. CASE update.status = "TESTING_REBOOT" /\ pv_update_finish(update, trail, prog, "CTRL")
    BY <1>4, <2>2 DEF pv_update_finish, WillRetry, Commits, pv_wait_update
  <2> QED BY <1>1, <1>4, <2>1, <2>2 DEF pv_wait_update
<1>5. CASE WaitLocal \/ WaitNetwork
  BY <1>4, <1>5 DEF WaitLocal, WaitNetwork
<1>6. CASE CommitTry
  <2>1. PICK w \in EnvWrites(env, unset_env_key(env, "pv_try")) : env' = w.env
    BY <1>6 DEF CommitTry
  <2>2. env'["pv_rev"] = env["pv_rev"]
    BY <1>0, <2>1, EnvWritesType, EnvOps, BootEnvAssumption DEF RevOrNone
  <2> QED BY <1>0, <1>6, <2>2 DEF CommitTry
<1>7. CASE CommitFlush
  <2>1. env'["pv_rev"] = env["pv_rev"]
    BY <1>0, <1>7, EnvWritesType, EnvOps, BootEnvAssumption DEF CommitFlush, RevOrNone
  <2> QED BY <1>7, <2>1 DEF CommitFlush, memoryVars
<1>8. CASE UpdateStep
  <2>1. st \in {"UPDATE", "INSTALL"} => update.status # "TESTING_REBOOT"
    BY DEF IInv, DownloadInv, LoopInv
  <2>2. CASE DownloadLocal \/ Install \/ Installed
    BY <1>1, <2>2 DEF DownloadLocal, Install, Installed, memoryVars
  <2>3. CASE DownloadNotNow
    BY <1>0, <2>1, <2>3, FinishRev DEF DownloadNotNow
  <2>4. CASE DownloadNoMoreRetries
    <3>1. NextTry(update).status = update.status
      BY <1>0 DEF NextTry, Update
    <3> QED BY <1>0, <2>1, <2>4, <3>1, FinishRev DEF DownloadNoMoreRetries
  <2>5. ASSUME NEW t \in {"DOWNLOADED", "RETRY_DOWNLOAD", "NO_DOWNLOAD"}, NEW S, Attempt(t, S)
        PROVE  P
    <3>1. SetStatus(NextTry(update), t).status = t
      BY <1>0 DEF SetStatus, NextTry, Update
    <3> QED BY <1>0, <1>1, <2>5, <3>1, FinishRev DEF Attempt
  <2>6. CASE Download
    BY <2>5, <2>6 DEF Download
  <2>7. CASE InstallFailed
    <3>1. \A t \in {"FAILED", update.status} : SetStatus(update, t).status = t
      BY <1>0 DEF SetStatus, Update
    <3> QED BY <1>0, <2>1, <2>7, <3>1, FinishRev DEF InstallFailed
  <2>8. CASE pv_bootloader_set_try
    <3>1. PICK w \in EnvWrites(env, set_env_key(env, "pv_try", update.pending)) : env' = w.env
      BY <2>8 DEF pv_bootloader_set_try
    <3>2. update.pending \in RevOrNone
      BY <1>0 DEF Update
    <3>3. env'["pv_rev"] = env["pv_rev"]
      BY <1>0, <3>1, <3>2, EnvWritesType, EnvOps
    <3> QED BY <1>0, <2>8, <3>3 DEF pv_bootloader_set_try
  <2> QED BY <1>8, <2>2, <2>3, <2>4, <2>6, <2>7, <2>8 DEF UpdateStep
<1>9. CASE \/ RunNoState \/ RunState \/ PlatformExited \/ WaitIdle \/ WaitUnclaimed
           \/ WaitNoAuth \/ WaitFactoryMeta \/ WaitNewUpdate \/ FinishFailed \/ Committed
           \/ Ctrl \/ PutStep \/ FactoryUpload \/ Command \/ CommandMakeFactory \/ MakeFactory
           \/ Rollback \/ Error \/ CommitTimer \/ RollbackTimer \/ UNCHANGED vars
  BY <1>1, <1>9 DEF RunNoState, RunState, PlatformExited, WaitIdle, WaitUnclaimed, WaitNoAuth,
       WaitFactoryMeta, WaitNewUpdate, FinishFailed, Committed, Ctrl, PutStep, FactoryUpload,
       Command, CommandMakeFactory, MakeFactory, Rollback, Error, CommitTimer, RollbackTimer, vars,
       storageVars, memoryVars
<1> QED
  BY <1>2, <1>3, <1>5, <1>6, <1>7, <1>8, <1>9 DEF Next, Loop, Wait, Finish

\* A collection spares what runs.
LEMMA CollectSpares ==
  ASSUME IInv, NEW r \in Revs, NEW S \in MaybeGc(update), Removed(S)
  PROVE  trail'[r] = trail[r] \/ r \notin GcKeeps(update)
BY DEF Removed, MaybeGc, pv_storage_gc_run, pv_storage_rm_rev

LEMMA TrialKeeps ==
  ASSUME NoLostWrites, IInv, KeptInv, [Next]_vars, OnTrial'
  PROVE  trail'[running'] = "full"
<1> USE DEF GivingUp
<1>0. /\ update \in Update /\ running \in RevOrNone
      /\ update'.status \in {"TRY", "TESTING_REBOOT"} /\ st' \notin GivingUp
  BY DEF IInv, TypeOK, OnTrial
<1>1. ASSUME UNCHANGED <<update, running, trail>>, st \notin GivingUp
      PROVE  trail'[running'] = "full"
  BY <1>0, <1>1 DEF KeptInv, OnTrial
<1>2. CASE st \in GivingUp
  <2>1. st' = "OFF"
    BY <1>0, <1>2, GivenUp
  <2>2. IInv'
    BY INext
  <2> QED BY <1>0, <2>1, <2>2 DEF IInv, LoopInv, Fresh, NoUpdate
<1>3. CASE st \notin GivingUp
  <2> USE <1>3
  <2>1. CASE Boot \/ PvInit
    <3>1. update' = NoUpdate
      BY <2>1 DEF Boot, PvInit, GoDown, memoryVars, IInv, LoopInv, Fresh
    <3> QED BY <1>0, <3>1 DEF NoUpdate
  <2>2. CASE RunNoState
    BY <1>0, <2>2 DEF RunNoState
  <2>3. CASE RunState
    <3>1. trail[running'] = "full" /\ UNCHANGED trail
      BY <1>0, <2>3 DEF RunState
    <3> QED BY <3>1
  <2>4. ASSUME NEW prog, st = "WAIT", pv_wait_update(prog), running' = running
        PROVE  trail'[running'] = "full"
    <3>1. trail' = trail
      BY <2>4 DEF pv_wait_update
    <3>2. CASE UNCHANGED update
      BY <1>1, <2>4, <3>1, <3>2
    <3>3. CASE pv_update_is_trying(update) /\ update' = SetStatus(update, pv_update_test(update))
      <4>1. update.status = "TRY"
        BY <1>0, <3>3 DEF pv_update_is_trying, SetStatus, pv_update_test, Update
      <4> QED BY <2>4, <3>1, <4>1 DEF KeptInv, OnTrial
    <3>4. CASE pv_update_finish(update, trail, prog, "CTRL")
      <4>1. update' \in {update, NoUpdate}
        BY <3>4 DEF pv_update_finish
      <4>2. update' = update
        BY <1>0, <4>1 DEF NoUpdate
      <4> QED BY <1>1, <2>4, <3>1, <4>2
    <3> QED BY <2>4, <3>2, <3>3, <3>4 DEF pv_wait_update
  <2>5. CASE WaitLocal \/ WaitNetwork
    BY <2>4, <2>5 DEF WaitLocal, WaitNetwork
  <2>6. CASE WaitNewUpdate
    BY <1>0, <2>6 DEF WaitNewUpdate, AcceptStep, pv_update_new
  <2>7. CASE \/ PlatformExited \/ WaitIdle \/ WaitUnclaimed \/ WaitNoAuth \/ WaitFactoryMeta
             \/ CommitTry \/ CommitFlush \/ FactoryUpload \/ CommitTimer \/ RollbackTimer
             \/ UNCHANGED vars
    BY <1>1, <2>7 DEF PlatformExited, WaitIdle, WaitUnclaimed, WaitNoAuth, WaitFactoryMeta,
         CommitTry, CommitFlush, FactoryUpload, CommitTimer, RollbackTimer, vars,
         storageVars, memoryVars
  <2>8. CASE FinishFailed \/ Committed \/ PowerLoss
    BY <1>0, <2>8 DEF FinishFailed, Committed, PowerLoss, GoDown, NoUpdate
  <2>9. ASSUME UNCHANGED <<update, running>>, NEW S \in MaybeGc(update), Removed(S),
               st \in {"CTRL", "COMMAND"}
        PROVE  trail'[running'] = "full"
    <3>1. running \in Revs /\ trail[running] = "full"
      BY <1>0, <2>9 DEF IInv, LoopInv, Fresh, KeptInv, OnTrial, RevOrNone
    <3>2. running \in GcKeeps(update)
      BY DEF GcKeeps
    <3> QED BY <2>9, <3>1, <3>2, CollectSpares
  <2>10. CASE Ctrl
    BY <2>9, <2>10 DEF Ctrl
  <2>11. CASE PutStep
    <3>1. trail[running] = "full" /\ UNCHANGED <<update, running>>
      BY <1>0, <2>11 DEF PutStep, memoryVars, KeptInv, OnTrial
    <3> QED BY <2>11, <3>1 DEF PutStep, IInv, TypeOK
  <2>12. CASE Command
    <3>1. CASE UNCHANGED <<trail, update>>
      BY <1>1, <2>12, <3>1 DEF Command
    <3>2. CASE Removed(pv_storage_gc_run(update)) /\ UNCHANGED update
      BY <2>9, <2>12, <3>2 DEF Command, MaybeGc
    <3>3. CASE update' = pv_update_new(cmd.rev, cmd.rev, "INIT", TRUE, 0)
      BY <1>0, <3>3 DEF pv_update_new
    <3> QED BY <2>12, <3>1, <3>2, <3>3 DEF Command, pv_update_get_step_local
  <2>13. CASE CommandMakeFactory
    <3>1. update = NoUpdate /\ update' = update
      BY <2>13 DEF CommandMakeFactory, Ignored, memoryVars
    <3> QED BY <1>0, <3>1 DEF NoUpdate
  <2>14. CASE MakeFactory
    <3>1. update = NoUpdate
      BY <2>14 DEF MakeFactory, IInv, CmdInv
    <3>2. update'.status \in {"NONE", "INIT"}
      BY <2>14, <3>1 DEF MakeFactory, NoUpdate, pv_update_new
    <3> QED BY <1>0, <3>2
  <2>15. CASE UpdateStep
    <3>1. st \in {"UPDATE", "INSTALL", "INSTALL_ENV", "INSTALLED"} /\ running' = running
      BY <2>15 DEF UpdateStep, DownloadLocal, DownloadNotNow, DownloadNoMoreRetries, Download,
           Attempt, InstallFailed, Install, pv_bootloader_set_try, Installed, memoryVars
    <3>2. update.status \notin {"TRY", "TESTING_REBOOT"}
      BY <3>1 DEF IInv, DownloadInv, LoopInv
    <3>3. ASSUME NEW u, NEW tr, NEW prog, u.status \notin {"TRY", "TESTING_REBOOT"},
                 pv_update_finish(u, tr, prog, "WAIT")
          PROVE  FALSE
      <4>1. update' \in {u, NoUpdate}
        BY <3>3 DEF pv_update_finish
      <4> QED BY <1>0, <3>3, <4>1 DEF NoUpdate
    <3>4. CASE DownloadLocal \/ Install
      BY <1>0, <3>2, <3>4 DEF DownloadLocal, Install, memoryVars
    <3>5. CASE DownloadNotNow
      BY <3>2, <3>3, <3>5 DEF DownloadNotNow
    <3>6. CASE DownloadNoMoreRetries
      <4>1. NextTry(update).status = update.status
        BY <1>0 DEF NextTry, Update
      <4> QED BY <3>2, <3>3, <3>6, <4>1 DEF DownloadNoMoreRetries
    <3>7. ASSUME NEW t \in {"DOWNLOADED", "RETRY_DOWNLOAD", "NO_DOWNLOAD"}, NEW S, Attempt(t, S)
          PROVE  FALSE
      <4>1. SetStatus(NextTry(update), t).status = t
        BY <1>0 DEF SetStatus, NextTry, Update
      <4> QED BY <1>0, <3>3, <3>7, <4>1 DEF Attempt
    <3>8. CASE Download
      BY <3>7, <3>8 DEF Download
    <3>9. CASE InstallFailed
      <4>1. \A t \in {"FAILED", update.status} : SetStatus(update, t).status = t
        BY <1>0 DEF SetStatus, Update
      <4> QED BY <3>2, <3>3, <3>9, <4>1 DEF InstallFailed
    <3>10. CASE pv_bootloader_set_try \/ Installed
      <4>1. \A t : SetStatus(update, t).status = t
        BY <1>0 DEF SetStatus, Update
      <4> QED BY <1>0, <3>10, <4>1 DEF pv_bootloader_set_try, Installed, NoUpdate
    <3> QED BY <2>15, <3>4, <3>5, <3>6, <3>8, <3>9, <3>10 DEF UpdateStep
  <2>16. ~(Rollback \/ Error \/ Shutdown)
    BY DEF Rollback, Error, Shutdown
  <2> QED
    BY <2>1, <2>2, <2>3, <2>5, <2>6, <2>7, <2>8, <2>10, <2>11, <2>12, <2>13, <2>14, <2>15, <2>16
       DEF Next, Loop, Wait, Finish
<1> QED BY <1>2, <1>3

\* The loop gets to make-factory by its command only.
LEMMA FactoryByCommand ==
  ASSUME IInv, KeptInv, [Next]_vars, st' = "MAKE_FACTORY"
  PROVE  cmd'.op = "MAKE_FACTORY"
<1>1. CASE CommandMakeFactory
  BY <1>1 DEF CommandMakeFactory, memoryVars
<1>2. CASE CommitTimer \/ RollbackTimer \/ UNCHANGED vars
  BY <1>2 DEF CommitTimer, RollbackTimer, vars, KeptInv
<1>3. ~(Wait \/ Finish)
  <2>1. ASSUME NEW u, NEW tr, NEW prog, pv_update_finish(u, tr, prog, "CTRL")
        PROVE  FALSE
    BY <2>1 DEF pv_update_finish, SetRev
  <2>2. ASSUME NEW prog, pv_wait_update(prog)
        PROVE  FALSE
    BY <2>1, <2>2 DEF pv_wait_update
  <2> QED
    BY <2>2 DEF Wait, PlatformExited, WaitLocal, WaitIdle, WaitUnclaimed, WaitNoAuth,
         WaitFactoryMeta, WaitNewUpdate, WaitNetwork, Finish, FinishFailed, CommitTry, CommitFlush,
         Committed
<1>4. ~UpdateStep
  <2>1. ASSUME NEW u, NEW tr, NEW prog, pv_update_finish(u, tr, prog, "WAIT")
        PROVE  FALSE
    BY <2>1 DEF pv_update_finish, SetRev
  <2>2. ASSUME NEW t, NEW S, Attempt(t, S)
        PROVE  FALSE
    BY <2>1, <2>2 DEF Attempt
  <2> QED
    BY <2>1, <2>2 DEF UpdateStep, DownloadLocal, DownloadNotNow, DownloadNoMoreRetries, Download,
         InstallFailed, Install, pv_bootloader_set_try, Installed
<1>5. ~(\/ Boot \/ PvInit \/ RunNoState \/ RunState \/ Ctrl \/ PutStep \/ FactoryUpload
        \/ Command \/ MakeFactory \/ Rollback \/ Error \/ Shutdown \/ PowerLoss)
  BY DEF Boot, PvInit, RunNoState, RunState, Ctrl, PutStep, FactoryUpload, Command,
         pv_update_get_step_local, MakeFactory, Rollback, Error, Shutdown, PowerLoss, GoDown
<1> QED BY <1>1, <1>2, <1>3, <1>4, <1>5 DEF Next, Loop

LEMMA KeptNext ==
  ASSUME NoLostWrites, IInv, KeptInv, [Next]_vars
  PROVE  KeptInv'
<1>1. ASSUME env'["pv_rev"] # NoRev, st' \notin GivingUp \cup {"OFF"}
      PROVE  bl'.pv_done = env'["pv_rev"]
  <2>0. st \notin GivingUp /\ env \in Env
    BY <1>1, GivenUp DEF IInv, TypeOK
  <2>1. CASE Commits
    <3>1. PICK w \in EnvWrites(env, set_env_key(env, "pv_rev", running)) :
            env' = w.env /\ st' = IF w.ok THEN "COMMIT_TRY" ELSE "ROLLBACK"
      BY <2>1 DEF Commits, SetRev
    <3>2. env' = set_env_key(env, "pv_rev", running) /\ running \in RevOrNone
      BY <1>1, <3>1, HonestWrites DEF GivingUp, IInv, TypeOK
    <3> QED BY <2>0, <2>1, <3>2, EnvOps DEF Commits, SetRev, IInv, TypeOK
  <2>2. CASE st = "OFF"
    <3>1. Boot \/ UNCHANGED <<env, bl, st>>
      <4>1. ~(Loop \/ PowerLoss)
        BY <2>2 DEF Loop, PvInit, RunNoState, RunState, Wait, PlatformExited, WaitLocal, WaitIdle,
             WaitUnclaimed, WaitNoAuth, WaitFactoryMeta, WaitNewUpdate, WaitNetwork, Finish,
             FinishFailed, CommitTry, CommitFlush, Committed, Ctrl, PutStep, FactoryUpload, Command,
             CommandMakeFactory, MakeFactory, UpdateStep, DownloadLocal, DownloadNotNow,
             DownloadNoMoreRetries, Download, Attempt, InstallFailed, Install,
             pv_bootloader_set_try, Installed, Rollback, Error, Shutdown, PowerLoss
      <4> QED BY <4>1 DEF Next, CommitTimer, RollbackTimer, vars, storageVars
    <3>2. Boot
      BY <1>1, <2>2, <3>1
    <3>3. env'["pv_rev"] = env["pv_rev"]
      BY <2>0, <3>2, EnvOps, BootEnvAssumption DEF Boot, RevOrNone
    <3> QED BY <1>1, <3>2, <3>3 DEF Boot
  <2>3. CASE st # "OFF" /\ ~Commits
    <3>1. env'["pv_rev"] = env["pv_rev"] /\ bl'.pv_done = bl.pv_done
      BY <1>1, <2>3, RevSteps
    <3> QED BY <1>1, <2>0, <2>3, <3>1 DEF KeptInv
  <2> QED BY <2>1, <2>2, <2>3
<1>2. OnTrial' => trail'[running'] = "full"
  BY TrialKeeps
<1>3. st' = "MAKE_FACTORY" => cmd'.op = "MAKE_FACTORY"
  BY FactoryByCommand
<1> QED BY <1>1, <1>2, <1>3 DEF KeptInv

(***************************************************************************)
(* Who takes a complete revision away.                                     *)
(***************************************************************************)
MayTake(r) ==
  \/ update.pending = r /\ st \in {"INSTALL", "INSTALL_ENV"}
  \/ r = Factory /\ cmd.op = "MAKE_FACTORY"
  \/ r \notin GcKeeps(update) /\ st \in {"CTRL", "COMMAND", "UPDATE"}

LEMMA TakenBy ==
  ASSUME IInv, KeptInv, [Next]_vars, NEW r \in Revs, trail[r] = "full", trail'[r] # "full"
  PROVE  MayTake(r)
<1>0. trail \in [Revs -> Trails]
  BY DEF IInv, TypeOK
<1>1. trail' # trail
  OBVIOUS
<1>2. CASE Ctrl
  BY <1>2, CollectSpares DEF Ctrl, MayTake
<1>3. CASE Command
  <2>1. Removed(pv_storage_gc_run(update)) /\ st = "COMMAND"
    BY <1>1, <1>3 DEF Command, pv_update_get_step_local
  <2> QED BY <2>1, CollectSpares DEF MaybeGc, MayTake
<1>4. CASE CommandMakeFactory
  BY <1>4 DEF CommandMakeFactory, Removed, pv_storage_rm_rev, MayTake
<1>5. CASE MakeFactory
  BY <1>0, <1>5 DEF MakeFactory, KeptInv, MayTake
<1>6. CASE PutStep
  BY <1>0, <1>6 DEF PutStep
<1>7. CASE Install
  BY <1>0, <1>7 DEF Install
<1>8. CASE InstallFailed
  BY <1>8 DEF InstallFailed, pv_storage_rm_rev, MayTake
<1>9. CASE pv_bootloader_set_try
  BY <1>1, <1>9 DEF pv_bootloader_set_try, Removed, pv_storage_rm_rev, MayTake
<1>10. CASE DownloadLocal \/ DownloadNotNow \/ DownloadNoMoreRetries
  <2>1. trail' = MkTrail(trail)
    BY <1>10 DEF DownloadLocal, DownloadNotNow, DownloadNoMoreRetries
  <2> QED BY <1>0, <2>1 DEF MkTrail
<1>11. CASE Download
  <2>1. PICK S \in MaybeGc(update) :
          st = "UPDATE" /\ trail' = MkTrail(pv_storage_rm_rev(trail, S, "none"))
    BY <1>11 DEF Download, Attempt, MaybeGc
  <2>2. r \in S
    BY <1>0, <2>1 DEF MkTrail, pv_storage_rm_rev
  <2> QED BY <2>1, <2>2 DEF MaybeGc, pv_storage_gc_run, MayTake
<1>12. CASE WaitLocal \/ WaitNetwork
  BY <1>1, <1>12 DEF WaitLocal, WaitNetwork, pv_wait_update
<1>13. ~(\/ Boot \/ PowerLoss \/ PvInit \/ RunNoState \/ RunState \/ PlatformExited \/ WaitIdle
         \/ WaitUnclaimed \/ WaitNoAuth \/ WaitFactoryMeta \/ WaitNewUpdate \/ FinishFailed
         \/ CommitTry \/ CommitFlush \/ Committed \/ FactoryUpload \/ Installed \/ Rollback \/ Error
         \/ Shutdown \/ CommitTimer \/ RollbackTimer \/ UNCHANGED vars)
  BY <1>1 DEF Boot, PowerLoss, PvInit, RunNoState, RunState, PlatformExited, WaitIdle, WaitUnclaimed,
       WaitNoAuth, WaitFactoryMeta, WaitNewUpdate, FinishFailed, CommitTry, CommitFlush, Committed,
       FactoryUpload, Installed, Rollback, Error, Shutdown, CommitTimer, RollbackTimer, vars,
       storageVars
<1> QED
  BY <1>2, <1>3, <1>4, <1>5, <1>6, <1>7, <1>8, <1>9, <1>10, <1>11, <1>12, <1>13
     DEF Next, Loop, Wait, Finish, UpdateStep

(***************************************************************************)
(* The revision to fall back to is complete when it is set, and it stays   *)
(* so, except for the three ways the property names (storage.c).           *)
(***************************************************************************)
THEOREM RollbackPointCorrect ==
  ASSUME NoLostWrites
  PROVE  Spec => RollbackPointKept
<1> DEFINE Kept == LET r == RollbackPoint(env)
                       s == RollbackPoint(env')
                   IN /\ s # r => trail'[s] = "full"
                      /\ trail[r] = "full" /\ trail'[r] # "full" =>
                           \/ update.pending = r /\ st \in {"INSTALL", "INSTALL_ENV"}
                           \/ r = Factory /\ cmd.op = "MAKE_FACTORY"
                           \/ env["pv_rev"] = NoRev /\ ~KeepFactory
<1>1. Init => KeptInv
  BY DEF Init, KeptInv, OnTrial, NoUpdate
<1>2. IInv /\ KeptInv /\ [Next]_vars => KeptInv'
  BY KeptNext
<1>3. ASSUME IInv, KeptInv, [Next]_vars
      PROVE  Kept
  <2>1. RollbackPoint(env') # RollbackPoint(env) => trail'[RollbackPoint(env')] = "full"
    <3> SUFFICES ASSUME RollbackPoint(env') # RollbackPoint(env)
                 PROVE  trail'[RollbackPoint(env')] = "full"
      OBVIOUS
    <3>1. Commits
      BY <1>3, RevSteps DEF RollbackPoint
    <3>2. trail'[running] = "full" /\ running # NoRev /\ running \in RevOrNone /\ env \in Env
      BY <1>3, <3>1
         DEF Commits, KeptInv, OnTrial, GivingUp, IInv, TypeOK, LoopInv, Fresh
    <3>3. env' = set_env_key(env, "pv_rev", running)
      BY <3>1, EnvWritesType DEF Commits, SetRev
    <3> QED BY <3>2, <3>3, EnvOps DEF RollbackPoint
  <2>2. ASSUME trail[RollbackPoint(env)] = "full", trail'[RollbackPoint(env)] # "full"
        PROVE  \/ update.pending = RollbackPoint(env) /\ st \in {"INSTALL", "INSTALL_ENV"}
               \/ RollbackPoint(env) = Factory /\ cmd.op = "MAKE_FACTORY"
               \/ env["pv_rev"] = NoRev /\ ~KeepFactory
    <3>1. RollbackPoint(env) \in Revs
      BY <1>3, EnvOpsType DEF IInv, TypeOK
    <3>2. MayTake(RollbackPoint(env))
      BY <1>3, <2>2, <3>1, TakenBy
    <3>3. CASE RollbackPoint(env) \notin GcKeeps(update) /\ st \in {"CTRL", "COMMAND", "UPDATE"}
      <4>1. env["pv_rev"] # NoRev => bl.pv_done = env["pv_rev"]
        BY <1>3, <3>3 DEF KeptInv, GivingUp
      <4> QED BY <3>3, <4>1 DEF GcKeeps, RollbackPoint
    <3> QED BY <3>2, <3>3 DEF MayTake
  <2> QED BY <2>1, <2>2
<1>4. IInv /\ KeptInv /\ [Next]_vars => [Kept]_vars
  BY <1>3
<1> QED BY <1>1, <1>2, <1>4, Invariance, PTL DEF Spec, RollbackPointKept

-----------------------------------------------------------------------------
(***************************************************************************)
(* The stores behind env.  All of the above takes the boot environment for *)
(* three keys, each read and written on its own.  The code keeps lists of  *)
(* entries that it rewrites as a whole (EnvStore): for lists of any length *)
(* and all three kinds of store, every step of theirs is an operation of   *)
(* BootEnv or leaves the keys alone.                                       *)
(***************************************************************************)
VARIABLES kind, main, flag, up, loader, calls, erased, new

Store == INSTANCE EnvStore WITH EnvKind <- kind, bl <- loader

LEMMA Least ==
  ASSUME NEW T, T \subseteq Nat, T # {}
  PROVE  \E x \in T : \A y \in T : x <= y
<1> DEFINE R == OpToRel(<, Nat)
<1>1. PICK x \in T : \A y \in T : <<y, x>> \notin R
  <2>1. IsWellFoundedOn(R, Nat)
    BY NatLessThanWellFounded
  <2> HIDE DEF R
  <2> QED BY <2>1, WFMin
<1>2. ASSUME NEW y \in T
      PROVE  x <= y
  <2>1. x \in Nat /\ y \in Nat /\ <<y, x>> \notin R
    BY <1>1
  <2> QED BY <2>1 DEF OpToRel
<1> QED BY <1>2

LEMMA FromZero ==
  ASSUME NEW S, 0 \in S, \A n \in Nat : n \in S => n + 1 \in S
  PROVE  Nat \subseteq S
<1> DEFINE T == Nat \ S
<1> SUFFICES ASSUME T # {}
             PROVE  FALSE
  OBVIOUS
<1>1. PICK x \in T : \A y \in T : x <= y
  BY Least
<1>2. x - 1 \in Nat /\ x - 1 < x /\ (x - 1) + 1 = x
  BY DEF T
<1> QED BY <1>1, <1>2

\* What Without computes exists: one entry after the other is kept or left out.
LEMMA KeptExists ==
  ASSUME NEW s \in Seq(Store!Entry), NEW key
  PROVE  \E kept : kept =
           [n \in 0..Len(s) |->
              IF n = 0 THEN <<>>
              ELSE IF Store!StartsWith(s[n], key) THEN kept[n-1] ELSE Append(kept[n-1], s[n])]
<1> DEFINE More(n, k) == IF Store!StartsWith(s[n], key) THEN k ELSE Append(k, s[n])
           Is(a, m) == a = [n \in 0..m |-> IF n = 0 THEN <<>> ELSE More(n, a[n-1])]
           S == {m \in Nat : \E a : Is(a, m)}
<1> HIDE DEF More
<1>1. 0 \in S
  <2> DEFINE a == [n \in 0..0 |-> <<>>]
  <2>1. Is(a, 0)
    OBVIOUS
  <2> QED BY <2>1
<1>2. ASSUME NEW m \in Nat, m \in S
      PROVE  m + 1 \in S
  <2>1. PICK a : Is(a, m)
    BY <1>2
  <2> DEFINE b == [n \in 0..m+1 |-> IF n = 0 THEN <<>> ELSE More(n, a[n-1])]
  <2>2. \A n \in 0..m : b[n] = a[n]
    <3> TAKE n \in 0..m
    <3>1. n \in 0..m+1
      OBVIOUS
    <3>2. a[n] = IF n = 0 THEN <<>> ELSE More(n, a[n-1])
      BY <2>1
    <3> QED BY <3>1, <3>2
  <2>3. \A n \in 0..m+1 : n # 0 => n - 1 \in 0..m
    OBVIOUS
  <2> HIDE DEF b
  <2>4. b = [n \in 0..m+1 |-> IF n = 0 THEN <<>> ELSE More(n, b[n-1])]
    BY <2>2, <2>3 DEF b
  <2>5. Is(b, m + 1)
    BY <2>4
  <2> QED BY <2>5
<1>3. Len(s) \in S
  <2>1. Len(s) \in Nat
    OBVIOUS
  <2> HIDE DEF S
  <2> QED BY <1>1, <1>2, <2>1, FromZero
<1> QED BY <1>3 DEF More

\* The value of key k in s, or none, without the choice of the first entry.
Reads(s, k, v) ==
  \/ v = NoRev /\ \A n \in 1..Len(s) : s[n].key # k
  \/ \E n \in 1..Len(s) : s[n].key = k /\ s[n].val = v /\ \A m \in 1..n-1 : s[m].key # k

LEMMA GetReads ==
  ASSUME NEW s \in Seq(Store!Entry), NEW k, NEW v
  PROVE  Reads(s, k, v) <=> Store!get_env_key(s, k) = v
<1> DEFINE found == {n \in 1..Len(s) : s[n].key = k}
           first == CHOOSE n \in found : \A m \in found : n <= m
<1>0. Len(s) \in Nat
  OBVIOUS
<1>1. CASE found = {}
  BY <1>1 DEF Reads, Store!get_env_key
<1>2. CASE found # {}
  <2>1. \E n \in found : \A m \in found : n <= m
    <3>1. found \subseteq Nat
      OBVIOUS
    <3> HIDE DEF found
    <3> QED BY <1>2, <3>1, Least
  <2>2. first \in found /\ \A m \in found : first <= m
    BY <2>1
  <2> HIDE DEF first
  <2>3. Store!get_env_key(s, k) = s[first].val
    BY <1>2 DEF Store!get_env_key, first
  <2>4. \A n \in 1..Len(s) : s[n].key = k /\ (\A m \in 1..n-1 : s[m].key # k) => n = first
    <3> TAKE n \in 1..Len(s)
    <3> HAVE s[n].key = k /\ (\A m \in 1..n-1 : s[m].key # k)
    <3>1. first <= n /\ first \in 1..Len(s) /\ s[first].key = k
      BY <2>2
    <3>2. first \notin 1..n-1
      BY <3>1
    <3> QED BY <1>0, <3>1, <3>2
  <2>5. \A m \in 1..first-1 : s[m].key # k
    BY <1>0, <2>2
  <2> QED BY <1>2, <2>2, <2>3, <2>4, <2>5 DEF Reads
<1> QED BY <1>1, <1>2

LEMMA EntryOf ==
  ASSUME NEW s \in Seq(Store!Entry), NEW n \in 1..Len(s)
  PROVE  s[n].key \in Store!EnvKeys /\ s[n].val \in Revs
<1>1. s[n] \in Store!Entry
  OBVIOUS
<1> QED BY <1>1 DEF Store!Entry

LEMMA GetType ==
  ASSUME NEW s \in Seq(Store!Entry), NEW k
  PROVE  Store!get_env_key(s, k) \in Store!RevOrNone
<1>1. Reads(s, k, Store!get_env_key(s, k))
  BY GetReads
<1>2. \A n \in 1..Len(s) : s[n].val \in Revs
  BY EntryOf
<1> QED BY <1>1, <1>2 DEF Reads, Store!RevOrNone

\* An entry at the end counts for a key that is not there yet.
LEMMA AppendReads ==
  ASSUME NEW s \in Seq(Store!Entry), NEW e \in Store!Entry, NEW k, NEW v, Reads(s, k, v)
  PROVE  /\ e.key # k => Reads(Append(s, e), k, v)
         /\ v # NoRev => Reads(Append(s, e), k, v)
         /\ e.key = k /\ v = NoRev => Reads(Append(s, e), k, e.val)
<1> DEFINE t == Append(s, e)
<1>1. /\ Len(s) \in Nat /\ Len(t) = Len(s) + 1 /\ t[Len(s) + 1] = e
      /\ \A n \in 1..Len(s) : t[n] = s[n]
  OBVIOUS
<1>2. \A n \in 1..Len(s) : s[n].val # NoRev
  BY BootEnvAssumption, EntryOf
<1> HIDE DEF t
<1>3. CASE \A n \in 1..Len(s) : s[n].key # k
  <2>1. v = NoRev
    BY <1>3 DEF Reads
  <2>2. \A n \in 1..Len(s) : t[n].key # k
    BY <1>1, <1>3
  <2>3. ASSUME e.key # k PROVE \A n \in 1..Len(t) : t[n].key # k
    BY <1>1, <2>2, <2>3
  <2>4. ASSUME e.key = k PROVE \A m \in 1..(Len(s) + 1) - 1 : t[m].key # k
    BY <1>1, <2>2
  <2>5. Len(s) + 1 \in 1..Len(t)
    BY <1>1
  <2> QED BY <1>1, <2>1, <2>3, <2>4, <2>5 DEF Reads, t
<1>4. CASE ~\A n \in 1..Len(s) : s[n].key # k
  <2>1. PICK n \in 1..Len(s) : s[n].key = k /\ s[n].val = v /\ \A m \in 1..n-1 : s[m].key # k
    BY <1>4 DEF Reads
  <2>2. n \in 1..Len(t) /\ t[n] = s[n] /\ v # NoRev
    BY <1>1, <1>2, <2>1
  <2>3. \A m \in 1..n-1 : t[m].key # k
    BY <1>1, <2>1
  <2> QED BY <2>1, <2>2, <2>3 DEF Reads, t
<1> QED BY <1>3, <1>4

LEMMA GetAppend ==
  ASSUME NEW s \in Seq(Store!Entry), NEW e \in Store!Entry, NEW k
  PROVE  Store!get_env_key(Append(s, e), k) =
           IF e.key = k /\ Store!get_env_key(s, k) = NoRev THEN e.val ELSE Store!get_env_key(s, k)
<1> DEFINE v == Store!get_env_key(s, k)
           t == Append(s, e)
<1>1. t \in Seq(Store!Entry) /\ Reads(s, k, v)
  BY GetReads
<1> HIDE DEF v, t
<1>2. /\ e.key # k => Reads(t, k, v)
      /\ v # NoRev => Reads(t, k, v)
      /\ e.key = k /\ v = NoRev => Reads(t, k, e.val)
  BY <1>1, AppendReads DEF t
<1>3. \A w : Reads(t, k, w) => Store!get_env_key(t, k) = w
  BY <1>1, GetReads
<1> QED BY <1>2, <1>3 DEF v, t

LEMMA GetEmpty ==
  ASSUME NEW k
  PROVE  <<>> \in Seq(Store!Entry) /\ Store!get_env_key(<<>>, k) = NoRev
BY DEF Store!get_env_key

\* No key has two entries.
Unique(s) == \A i, j \in 1..Len(s) : s[i].key = s[j].key => i = j

LEMMA GetNone ==
  ASSUME NEW s \in Seq(Store!Entry), NEW k, Store!get_env_key(s, k) = NoRev
  PROVE  \A n \in 1..Len(s) : s[n].key # k
<1>1. Reads(s, k, NoRev)
  BY GetReads
<1>2. \A n \in 1..Len(s) : s[n].val # NoRev
  BY BootEnvAssumption, EntryOf
<1> QED BY <1>1, <1>2 DEF Reads

LEMMA NoneGet ==
  ASSUME NEW s \in Seq(Store!Entry), NEW k, \A n \in 1..Len(s) : s[n].key # k
  PROVE  Store!get_env_key(s, k) = NoRev
<1>1. Reads(s, k, NoRev)
  BY DEF Reads
<1> QED BY <1>1, GetReads

LEMMA UniqueAppend ==
  ASSUME NEW s \in Seq(Store!Entry), NEW e \in Store!Entry, Unique(s),
         Store!get_env_key(s, e.key) = NoRev
  PROVE  Unique(Append(s, e))
<1> DEFINE t == Append(s, e)
<1>1. /\ Len(s) \in Nat /\ Len(t) = Len(s) + 1 /\ t[Len(s) + 1] = e
      /\ \A n \in 1..Len(s) : t[n] = s[n]
  OBVIOUS
<1>2. \A n \in 1..Len(s) : s[n].key # e.key
  BY GetNone
<1> HIDE DEF t
<1>3. ASSUME NEW i \in 1..Len(t), NEW j \in 1..Len(t), t[i].key = t[j].key
      PROVE  i = j
  <2>1. (i = Len(s) + 1 \/ i \in 1..Len(s)) /\ (j = Len(s) + 1 \/ j \in 1..Len(s))
    BY <1>1
  <2> QED BY <1>1, <1>2, <1>3, <2>1 DEF Unique
<1> QED BY <1>3 DEF Unique, t

\* There are three keys.
LEMMA UniqueIsShort ==
  ASSUME NEW s \in Seq(Store!Entry), Unique(s)
  PROVE  s \in Store!Lists
<1>1. Len(s) \in Nat /\ s \in [1..Len(s) -> Store!Entry]
  OBVIOUS
<1>2. Len(s) <= 3
  <2> SUFFICES ASSUME Len(s) > 3
               PROVE  FALSE
    BY <1>1
  <2>1. 1 \in 1..Len(s) /\ 2 \in 1..Len(s) /\ 3 \in 1..Len(s) /\ 4 \in 1..Len(s)
    BY <1>1
  <2>2. /\ s[1].key # s[2].key /\ s[1].key # s[3].key /\ s[1].key # s[4].key
        /\ s[2].key # s[3].key /\ s[2].key # s[4].key /\ s[3].key # s[4].key
    BY <2>1 DEF Unique
  <2>3. \A n \in 1..Len(s) : s[n].key \in Store!EnvKeys
    BY EntryOf
  <2>4. /\ s[1].key \in Store!EnvKeys /\ s[2].key \in Store!EnvKeys
        /\ s[3].key \in Store!EnvKeys /\ s[4].key \in Store!EnvKeys
    BY <2>1, <2>3
  <2> QED BY <2>2, <2>4 DEF Store!EnvKeys
<1> QED BY <1>1, <1>2 DEF Store!Lists

\* An entry is hit by its key and by every key it starts with.
Hit(k, key) == k = key \/ (k = "pv_trying" /\ key = "pv_try")

LEMMA GetWithout ==
  ASSUME NEW s \in Seq(Store!Entry), NEW key
  PROVE  /\ Store!Without(s, key) \in Seq(Store!Entry)
         /\ \A k : Store!get_env_key(Store!Without(s, key), k) =
                     IF Hit(k, key) THEN NoRev ELSE Store!get_env_key(s, k)
         /\ Unique(s) => Unique(Store!Without(s, key))
<1> DEFINE Is(g) == g = [n \in 0..Len(s) |->
              IF n = 0 THEN <<>>
              ELSE IF Store!StartsWith(s[n], key) THEN g[n-1] ELSE Append(g[n-1], s[n])]
           kept == CHOOSE g : Is(g)
           Prefix(m) == SubSeq(s, 1, m)
           Good(m) == /\ kept[m] \in Seq(Store!Entry)
                      /\ \A k : Store!get_env_key(kept[m], k) =
                                  IF Hit(k, key) THEN NoRev ELSE Store!get_env_key(Prefix(m), k)
                      /\ Unique(s) => Unique(kept[m])
           S == {m \in Nat : m <= Len(s) => Good(m)}
<1>1. Is(kept)
  <2>1. \E g : Is(g)
    BY KeptExists
  <2> HIDE DEF Is
  <2> QED BY <2>1
<1>2. Store!Without(s, key) = kept[Len(s)]
  BY DEF Store!Without
<1> HIDE DEF kept
<1>3. Len(s) \in Nat /\ kept[0] = <<>>
  BY <1>1
<1>4. Prefix(0) = <<>> /\ Prefix(Len(s)) = s
  OBVIOUS
<1>5. 0 \in S
  <2>1. Unique(<<>>)
    BY DEF Unique
  <2>2. kept[0] \in Seq(Store!Entry) /\ Unique(kept[0])
    BY <1>3, <2>1
  <2>3. \A k : Store!get_env_key(kept[0], k) = NoRev /\ Store!get_env_key(Prefix(0), k) = NoRev
    BY <1>3, <1>4, GetEmpty
  <2> HIDE DEF Prefix
  <2> QED BY <2>2, <2>3
<1>6. ASSUME NEW m \in Nat, m \in S
      PROVE  m + 1 \in S
  <2> SUFFICES ASSUME m + 1 <= Len(s)
               PROVE  Good(m + 1)
    OBVIOUS
  <2> DEFINE e == s[m + 1]
  <2>1. Good(m)
    BY <1>3, <1>6
  <2>2. kept[m + 1] = IF Store!StartsWith(e, key) THEN kept[m] ELSE Append(kept[m], e)
    <3>1. m + 1 \in 0..Len(s) /\ m + 1 # 0 /\ (m + 1) - 1 = m
      BY <1>3
    <3> QED BY <1>1, <3>1
  <2>3. e \in Store!Entry /\ Prefix(m) \in Seq(Store!Entry) /\ Prefix(m + 1) = Append(Prefix(m), e)
    BY <1>3
  <2>4. Store!StartsWith(e, key) <=> Hit(e.key, key)
    BY DEF Store!StartsWith, Hit
  <2>7. Unique(s) => Store!get_env_key(Prefix(m), e.key) = NoRev
    <3> SUFFICES ASSUME Unique(s)
                 PROVE  \A n \in 1..Len(Prefix(m)) : Prefix(m)[n].key # e.key
      BY <2>3, NoneGet
    <3> TAKE n \in 1..Len(Prefix(m))
    <3>1. n \in 1..Len(s) /\ n # m + 1 /\ m + 1 \in 1..Len(s) /\ Prefix(m)[n] = s[n]
      BY <1>3
    <3> QED BY <3>1 DEF Unique
  <2> HIDE DEF e, Prefix
  <2>5. kept[m + 1] \in Seq(Store!Entry)
    BY <2>1, <2>2, <2>3
  <2>6. ASSUME NEW k
        PROVE  Store!get_env_key(kept[m + 1], k) =
                 IF Hit(k, key) THEN NoRev ELSE Store!get_env_key(Prefix(m + 1), k)
    <3>1. Store!get_env_key(kept[m], k) = IF Hit(k, key) THEN NoRev ELSE Store!get_env_key(Prefix(m), k)
      BY <2>1
    <3>2. Store!get_env_key(Prefix(m + 1), k) =
            IF e.key = k /\ Store!get_env_key(Prefix(m), k) = NoRev THEN e.val
            ELSE Store!get_env_key(Prefix(m), k)
      <4>1. Store!get_env_key(Append(Prefix(m), e), k) =
              IF e.key = k /\ Store!get_env_key(Prefix(m), k) = NoRev THEN e.val
              ELSE Store!get_env_key(Prefix(m), k)
        BY <2>3, GetAppend
      <4>2. Prefix(m + 1) = Append(Prefix(m), e)
        BY <2>3
      <4> QED BY <4>1, <4>2
    <3>3. Store!get_env_key(Append(kept[m], e), k) =
            IF e.key = k /\ Store!get_env_key(kept[m], k) = NoRev THEN e.val
            ELSE Store!get_env_key(kept[m], k)
      BY <2>1, <2>3, GetAppend
    <3> QED BY <2>2, <2>4, <3>1, <3>2, <3>3
  <2>8. ASSUME Unique(s)
        PROVE  Unique(kept[m + 1])
    <3>1. CASE Store!StartsWith(e, key)
      BY <2>1, <2>2, <2>8, <3>1
    <3>2. CASE ~Store!StartsWith(e, key)
      <4>1. Store!get_env_key(kept[m], e.key) = NoRev
        BY <2>1, <2>4, <2>7, <2>8, <3>2
      <4>2. Unique(Append(kept[m], e))
        BY <2>1, <2>3, <2>8, <4>1, UniqueAppend
      <4> QED BY <2>2, <3>2, <4>2
    <3> QED BY <3>1, <3>2
  <2> QED BY <2>5, <2>6, <2>8
<1>7. Good(Len(s))
  <2>1. Len(s) \in S
    <3> HIDE DEF S
    <3> QED BY <1>3, <1>5, <1>6, FromZero
  <2> HIDE DEF Good
  <2> QED BY <1>3, <2>1
<1> QED BY <1>2, <1>4, <1>7

LEMMA GetWith ==
  ASSUME NEW s \in Seq(Store!Entry), NEW key \in Store!EnvKeys, NEW val \in Revs
  PROVE  /\ Store!With(s, key, val) \in Seq(Store!Entry)
         /\ \A k : Store!get_env_key(Store!With(s, key, val), k) =
                     IF k = key THEN val ELSE IF Hit(k, key) THEN NoRev ELSE Store!get_env_key(s, k)
         /\ Unique(s) => Unique(Store!With(s, key, val))
<1> DEFINE e == [key |-> key, val |-> val]
<1>1. e \in Store!Entry /\ e.key = key /\ e.val = val
  BY DEF Store!Entry
<1>2. Store!Without(s, key) \in Seq(Store!Entry)
  BY GetWithout
<1> HIDE DEF e
<1>3. Store!With(s, key, val) = Append(Store!Without(s, key), e)
  BY DEF Store!With, e
<1>4. \A k : Store!get_env_key(Store!With(s, key, val), k) =
              IF e.key = k /\ Store!get_env_key(Store!Without(s, key), k) = NoRev THEN e.val
              ELSE Store!get_env_key(Store!Without(s, key), k)
  BY <1>1, <1>2, <1>3, GetAppend
<1>5. Hit(key, key)
  BY DEF Hit
<1>6. Store!get_env_key(Store!Without(s, key), key) = NoRev
  BY <1>5, GetWithout
<1>7. Unique(s) => Unique(Store!With(s, key, val))
  BY <1>1, <1>2, <1>3, <1>6, GetWithout, UniqueAppend
<1> QED BY <1>1, <1>2, <1>3, <1>4, <1>5, <1>7, GetWithout

-----------------------------------------------------------------------------
(* What the functions of bootloader.c ask for. *)
Call == [op : {"set"}, key : {"pv_rev", "pv_try"}, val : Revs]
          \cup {Store!Unset("pv_try"), Store!Flush}

\* The same on the keys of BootEnv.
Apply(c, e) ==
  IF c.op = "set" THEN Store!set_env_key(e, c.key, c.val)
  ELSE IF c.op = "unset" THEN Store!unset_env_key(e, c.key)
  ELSE Store!flush_env(e)

StoreInv ==
  /\ kind \in Store!Kinds
  /\ main \in Seq(Store!Entry) /\ flag \in Seq(Store!Entry) /\ new \in Seq(Store!Entry)
  /\ loader.pv_try \in Store!RevOrNone
  /\ loader = [pv_try |-> loader.pv_try, pv_done |-> loader.pv_done]
  /\ calls \in Seq(Call)
  /\ erased \in BOOLEAN
  /\ ~erased => new = <<>>
  /\ erased => up /\ kind = "mtd" /\ main = <<>> /\ calls # <<>>

LEMMA EnvIs ==
  ASSUME NEW m, NEW f, NEW k \in Store!EnvKeys
  PROVE  Store!EnvOf(m, f)[k] = Store!get_env_key(IF kind = "uboot" /\ k = "pv_trying" THEN f ELSE m, k)
BY DEF Store!EnvOf

LEMMA EnvType ==
  ASSUME NEW m \in Seq(Store!Entry), NEW f \in Seq(Store!Entry)
  PROVE  Store!EnvOf(m, f) \in Store!Env
<1>1. ASSUME NEW k \in Store!EnvKeys
      PROVE  Store!get_env_key(IF kind = "uboot" /\ k = "pv_trying" THEN f ELSE m, k) \in Store!RevOrNone
  BY GetType
<1> QED BY <1>1 DEF Store!EnvOf, Store!Env

LEMMA EnvEqual ==
  ASSUME NEW e \in Store!Env, NEW g \in Store!Env, \A k \in Store!EnvKeys : e[k] = g[k]
  PROVE  e = g
BY DEF Store!Env

LEMMA ApplyType ==
  ASSUME NEW c \in Call, NEW e \in Store!Env
  PROVE  /\ Apply(c, e) \in Store!Env
         /\ \A k \in Store!EnvKeys : Apply(c, e)[k] =
              IF c.op = "set" /\ k = c.key THEN c.val
              ELSE IF c.op = "flush"
                     THEN IF kind # "grub" /\ k = "pv_trying" THEN NoRev ELSE e[k]
              ELSE IF k \in Store!Hits(c.key) THEN NoRev ELSE e[k]
<1>1. CASE c.op = "set"
  <2>1. c.key \in Store!EnvKeys /\ c.val \in Store!RevOrNone
    BY <1>1 DEF Call, Store!EnvKeys, Store!RevOrNone, Store!Unset, Store!Flush
  <2> QED BY <1>1, <2>1 DEF Apply, Store!set_env_key, Store!unset_env_key, Store!Env, Store!RevOrNone
<1>2. CASE c.op # "set"
  <2>1. c \in {Store!Unset("pv_try"), Store!Flush}
    BY <1>2 DEF Call
  <2>2. CASE c = Store!Unset("pv_try")
    BY <2>2 DEF Apply, Store!unset_env_key, Store!Env, Store!RevOrNone, Store!Unset
  <2>3. CASE c = Store!Flush
    BY <2>3 DEF Apply, Store!flush_env, Store!Env, Store!EnvKeys, Store!RevOrNone, Store!Flush
  <2> QED BY <2>1, <2>2, <2>3
<1> QED BY <1>1, <1>2

(* A call that rewrites the list does to the keys what its operation says. *)
LEMMA ResultApplies ==
  ASSUME StoreInv, NEW c \in Call, Store!WritesMain(c)
  PROVE  Store!Result(c) \in Seq(Store!Entry) /\ Store!EnvOf(Store!Result(c), flag) = Apply(c, Store!EnvOf(main, flag))
<1> DEFINE e == Store!EnvOf(main, flag)
           g == Store!EnvOf(Store!Result(c), flag)
<1>1. c.key \in Store!EnvKeys /\ (c.op = "set" => c.val \in Revs)
  BY DEF Call, Store!EnvKeys, Store!Unset, Store!Flush
<1>2. /\ Store!Result(c) \in Seq(Store!Entry)
      /\ \A k : Store!get_env_key(Store!Result(c), k) =
                  IF c.op = "set" /\ k = c.key THEN c.val
                  ELSE IF Hit(k, c.key) THEN NoRev ELSE Store!get_env_key(main, k)
  <2>1. CASE c.op = "set"
    BY <1>1, <2>1, GetWith DEF Store!Result, StoreInv
  <2>2. CASE c.op # "set"
    BY <2>2, GetWithout DEF Store!Result, StoreInv
  <2> QED BY <2>1, <2>2
<1>3. e \in Store!Env /\ g \in Store!Env /\ Apply(c, e) \in Store!Env
  BY <1>2, EnvType, ApplyType DEF StoreInv
<1>4. ASSUME NEW k \in Store!EnvKeys
      PROVE  g[k] = Apply(c, e)[k]
  <2>1. /\ g[k] = Store!get_env_key(IF kind = "uboot" /\ k = "pv_trying" THEN flag ELSE Store!Result(c), k)
        /\ e[k] = Store!get_env_key(IF kind = "uboot" /\ k = "pv_trying" THEN flag ELSE main, k)
    BY EnvIs
  <2>2. Apply(c, e)[k] =
              IF c.op = "set" /\ k = c.key THEN c.val
              ELSE IF c.op = "flush"
                     THEN IF kind # "grub" /\ k = "pv_trying" THEN NoRev ELSE e[k]
              ELSE IF k \in Store!Hits(c.key) THEN NoRev ELSE e[k]
    BY <1>3, ApplyType
  <2>3. /\ c.op = "flush" => c.key = "pv_trying"
        /\ c.op # "flush" => c.key \in {"pv_rev", "pv_try"}
        /\ c.op = "flush" => kind = "mtd"
    BY DEF Call, Store!WritesMain, Store!Unset, Store!Flush
  <2>4. k \in Store!Hits(c.key) <=> k = c.key \/ (k = "pv_trying" /\ c.key = "pv_try" /\ kind # "uboot")
    BY DEF Store!Hits
  <2> HIDE DEF e, g
  <2>5. CASE kind = "uboot" /\ k = "pv_trying"
    BY <2>1, <2>2, <2>3, <2>4, <2>5
  <2>6. CASE ~(kind = "uboot" /\ k = "pv_trying")
    BY <1>2, <2>1, <2>2, <2>3, <2>4, <2>6 DEF Hit
  <2> QED BY <2>5, <2>6
<1> QED BY <1>2, <1>3, <1>4, EnvEqual

-----------------------------------------------------------------------------
(* One step. *)

EnvStep ==
  \/ Store!env' = Store!env
  \/ calls # <<>> /\ Store!env' = Apply(Head(calls), Store!env)
  \/ ~up /\ Store!env' \in Store!BootNotes(Store!env)
  \/ erased /\ Store!env' = Store!NoKeys

LEMMA EnvNext ==
  ASSUME kind' = kind
  PROVE  Store!env' = Store!EnvOf(IF erased' THEN new' ELSE main', flag')
BY DEF Store!env, Store!EnvOf

LEMMA HeadIsCall ==
  ASSUME StoreInv, calls # <<>>
  PROVE  Head(calls) \in Call /\ Tail(calls) \in Seq(Call)
BY DEF StoreInv

LEMMA Returned ==
  ASSUME StoreInv, calls # <<>>, NEW ok \in BOOLEAN, Store!Return(ok)
  PROVE  /\ calls' \in Seq(Call)
         /\ loader'.pv_try \in Store!RevOrNone
         /\ loader' = [pv_try |-> loader'.pv_try, pv_done |-> loader'.pv_done]
<1>1. calls' \in Seq(Call)
  BY HeadIsCall DEF Store!Return
<1>2. loader' = loader \/ loader' = [loader EXCEPT !.pv_try = NoRev]
  BY DEF Store!Return
<1> QED BY <1>1, <1>2 DEF StoreInv, Store!RevOrNone

LEMMA WriteFileStep ==
  ASSUME StoreInv, Store!WriteFile
  PROVE  StoreInv' /\ EnvStep
<1>1. /\ calls # <<>> /\ Store!WritesMain(Head(calls)) /\ kind # "mtd" /\ ~erased /\ new = <<>>
      /\ UNCHANGED <<kind, flag, up, erased, new>>
      /\ main' \in {main, Store!Result(Head(calls))}
      /\ \E ok \in BOOLEAN : Store!Return(ok)
  BY DEF Store!WriteFile, StoreInv
<1>2. Head(calls) \in Call
  BY <1>1, HeadIsCall
<1>3. Store!Result(Head(calls)) \in Seq(Store!Entry)
      /\ Store!EnvOf(Store!Result(Head(calls)), flag) = Apply(Head(calls), Store!EnvOf(main, flag))
  BY <1>1, <1>2, ResultApplies
<1>4. Store!env = Store!EnvOf(main, flag) /\ Store!env' = Store!EnvOf(main', flag)
  BY <1>1, EnvNext DEF Store!env
<1>5. StoreInv'
  BY <1>1, <1>3, Returned DEF StoreInv
<1> QED BY <1>1, <1>3, <1>4, <1>5 DEF EnvStep

LEMMA EraseSectorStep ==
  ASSUME StoreInv, Store!EraseSector
  PROVE  StoreInv' /\ EnvStep
<1>1. /\ calls # <<>> /\ Store!WritesMain(Head(calls)) /\ kind = "mtd" /\ ~erased /\ new = <<>> /\ up
      /\ UNCHANGED <<kind, flag, up>>
  BY DEF Store!EraseSector, StoreInv
<1>2. Head(calls) \in Call
  BY <1>1, HeadIsCall
<1>3. Store!Result(Head(calls)) \in Seq(Store!Entry)
      /\ Store!EnvOf(Store!Result(Head(calls)), flag) = Apply(Head(calls), Store!EnvOf(main, flag))
  BY <1>1, <1>2, ResultApplies
<1>4. Store!env = Store!EnvOf(main, flag) /\ Store!env' = Store!EnvOf(IF erased' THEN new' ELSE main', flag)
  BY <1>1, EnvNext DEF Store!env
<1>5. CASE main' = <<>> /\ erased' = TRUE /\ new' = Store!Result(Head(calls)) /\ UNCHANGED <<loader, calls>>
  <2>1. StoreInv'
    BY <1>1, <1>3, <1>5, GetEmpty DEF StoreInv
  <2> QED BY <1>1, <1>3, <1>4, <1>5, <2>1 DEF EnvStep
<1>6. CASE Store!Return(Head(calls).op = "flush") /\ UNCHANGED <<main, erased, new>>
  <2>1. StoreInv'
    BY <1>1, <1>6, Returned DEF StoreInv
  <2> QED BY <1>1, <1>4, <1>6, <2>1 DEF EnvStep
<1> QED BY <1>5, <1>6 DEF Store!EraseSector

LEMMA NothingStored ==
  ASSUME kind = "mtd", NEW f
  PROVE  Store!EnvOf(<<>>, f) = Store!NoKeys
BY GetEmpty DEF Store!EnvOf, Store!NoKeys

LEMMA WriteSectorStep ==
  ASSUME StoreInv, Store!WriteSector
  PROVE  StoreInv' /\ EnvStep
<1>1. /\ erased /\ kind = "mtd" /\ main = <<>> /\ calls # <<>>
      /\ erased' = FALSE /\ new' = <<>> /\ main' \in {main, new} /\ Store!Return(TRUE)
      /\ UNCHANGED <<kind, flag, up>>
  BY DEF Store!WriteSector, StoreInv
<1>2. Store!env = Store!EnvOf(new, flag) /\ Store!env' = Store!EnvOf(main', flag)
  BY <1>1, EnvNext DEF Store!env
<1>3. StoreInv'
  BY <1>1, Returned, GetEmpty DEF StoreInv
<1> QED BY <1>1, <1>2, <1>3, NothingStored DEF EnvStep

LEMMA FlushFlagStep ==
  ASSUME StoreInv, Store!FlushFlag
  PROVE  StoreInv' /\ EnvStep
<1>1. /\ calls # <<>> /\ ~Store!WritesMain(Head(calls)) /\ Store!Return(TRUE)
      /\ UNCHANGED <<kind, main, up, erased, new>>
      /\ flag' = flag \/ (kind = "uboot" /\ flag' = <<>>)
  BY DEF Store!FlushFlag
<1>2. Head(calls) \in Call /\ Head(calls).op = "flush" /\ kind # "mtd" /\ ~erased
  BY <1>1, HeadIsCall DEF Store!WritesMain, StoreInv
<1>3. Store!env = Store!EnvOf(main, flag) /\ Store!env' = Store!EnvOf(main, flag')
  BY <1>1, <1>2, EnvNext DEF Store!env
<1>4. StoreInv'
  BY <1>1, <1>2, Returned, GetEmpty DEF StoreInv
<1>5. CASE flag' = flag
  BY <1>3, <1>4, <1>5 DEF EnvStep
<1>6. CASE kind = "uboot" /\ flag' = <<>>
  <2>1. Store!env \in Store!Env /\ Store!env' \in Store!Env /\ Apply(Head(calls), Store!env) \in Store!Env
    BY <1>2, <1>3, <1>6, EnvType, ApplyType, GetEmpty DEF StoreInv
  <2>2. ASSUME NEW k \in Store!EnvKeys
        PROVE  Store!EnvOf(main, flag')[k] = Apply(Head(calls), Store!env)[k]
    <3>1. Apply(Head(calls), Store!env)[k] = IF k = "pv_trying" THEN NoRev ELSE Store!env[k]
      BY <1>2, <1>6, <2>1, ApplyType
    <3>2. Store!EnvOf(main, flag')[k] = IF k = "pv_trying" THEN NoRev ELSE Store!get_env_key(main, k)
      BY <1>6, EnvIs, GetEmpty
    <3>3. Store!EnvOf(main, flag)[k] = IF k = "pv_trying" THEN Store!get_env_key(flag, k) ELSE Store!get_env_key(main, k)
      BY <1>6, EnvIs
    <3> QED BY <1>3, <3>1, <3>2, <3>3
  <2>3. Store!env' = Apply(Head(calls), Store!env)
    BY <1>3, <2>1, <2>2, EnvEqual
  <2> QED BY <1>1, <1>4, <2>3 DEF EnvStep
<1> QED BY <1>1, <1>5, <1>6

LEMMA NotedStore ==
  ASSUME NEW s \in Seq(Store!Entry), NEW e, e["pv_trying"] \in Store!RevOrNone
  PROVE  /\ Store!Noted(s, e) \in Seq(Store!Entry)
         /\ \A k : Store!get_env_key(Store!Noted(s, e), k) =
                     IF k = "pv_trying" THEN e["pv_trying"] ELSE Store!get_env_key(s, k)
<1>1. CASE e["pv_trying"] = NoRev
  BY <1>1, GetWithout DEF Store!Noted, Hit
<1>2. CASE e["pv_trying"] # NoRev
  <2>1. e["pv_trying"] \in Revs /\ "pv_trying" \in Store!EnvKeys
    BY <1>2 DEF Store!RevOrNone, Store!EnvKeys
  <2>2. Store!Noted(s, e) = Store!With(s, "pv_trying", e["pv_trying"])
    BY <1>2 DEF Store!Noted, Store!With
  <2> QED BY <2>1, <2>2, GetWith DEF Hit
<1> QED BY <1>1, <1>2

LEMMA NotesType ==
  ASSUME NEW old \in Store!Env, NEW e \in Store!BootNotes(old)
  PROVE  e \in Store!Env /\ \A k \in Store!EnvKeys : k # "pv_trying" => e[k] = old[k]
BY DEF Store!BootNotes, Store!FirstTry, Store!Env, Store!EnvKeys, Store!RevOrNone

LEMMA BootStep ==
  ASSUME StoreInv, Store!pv_bl_early_init
  PROVE  StoreInv' /\ EnvStep
<1>1. /\ ~up /\ ~erased /\ UNCHANGED <<kind, calls, erased, new>>
      /\ loader' = [pv_try |-> Store!OnDisk["pv_try"], pv_done |-> loader'.pv_done]
  BY DEF Store!pv_bl_early_init, StoreInv
<1>2. PICK e \in Store!BootNotes(Store!OnDisk) :
        IF kind = "uboot" THEN flag' = Store!Noted(flag, e) /\ main' = main
                             ELSE main' = Store!Noted(main, e) /\ flag' = flag
  BY DEF Store!pv_bl_early_init
<1>3. /\ Store!OnDisk = Store!EnvOf(main, flag) /\ Store!env = Store!OnDisk /\ Store!OnDisk \in Store!Env
      /\ Store!env' = Store!EnvOf(main', flag')
  BY <1>1, EnvNext, EnvType DEF Store!env, Store!OnDisk, StoreInv
<1>4. e \in Store!Env /\ \A k \in Store!EnvKeys : k # "pv_trying" => e[k] = Store!OnDisk[k]
  BY <1>3, NotesType
<1>5. {"pv_try", "pv_trying"} \subseteq Store!EnvKeys
  BY DEF Store!EnvKeys
<1>6. Store!OnDisk["pv_try"] \in Store!RevOrNone /\ e["pv_trying"] \in Store!RevOrNone
  BY <1>3, <1>4, <1>5 DEF Store!Env
<1>7. /\ Store!Noted(main, e) \in Seq(Store!Entry) /\ Store!Noted(flag, e) \in Seq(Store!Entry)
      /\ \A k : Store!get_env_key(Store!Noted(main, e), k) =
                  IF k = "pv_trying" THEN e["pv_trying"] ELSE Store!get_env_key(main, k)
      /\ \A k : Store!get_env_key(Store!Noted(flag, e), k) =
                  IF k = "pv_trying" THEN e["pv_trying"] ELSE Store!get_env_key(flag, k)
  BY <1>6, NotedStore DEF StoreInv
<1>8. StoreInv'
  BY <1>1, <1>2, <1>6, <1>7 DEF StoreInv
<1>9. ASSUME NEW k \in Store!EnvKeys
      PROVE  Store!EnvOf(main', flag')[k] = e[k]
  <2>1. Store!EnvOf(main, flag)[k] =
          Store!get_env_key(IF kind = "uboot" /\ k = "pv_trying" THEN flag ELSE main, k)
    BY EnvIs
  <2>2. Store!EnvOf(main', flag')[k] =
          Store!get_env_key(IF kind = "uboot" /\ k = "pv_trying" THEN flag' ELSE main', k)
    BY EnvIs
  <2>3. CASE kind = "uboot"
    <3>1. flag' = Store!Noted(flag, e) /\ main' = main
      BY <1>2, <2>3
    <3>2. CASE k = "pv_trying"
      BY <1>7, <2>2, <2>3, <3>1, <3>2
    <3>3. CASE k # "pv_trying"
      BY <1>3, <1>4, <2>1, <2>2, <2>3, <3>1, <3>3
    <3> QED BY <3>2, <3>3
  <2>4. CASE kind # "uboot"
    <3>1. main' = Store!Noted(main, e)
      BY <1>2, <2>4
    <3>2. CASE k = "pv_trying"
      BY <1>7, <2>2, <2>4, <3>1, <3>2
    <3>3. CASE k # "pv_trying"
      BY <1>3, <1>4, <1>7, <2>1, <2>2, <2>4, <3>1, <3>3
    <3> QED BY <3>2, <3>3
  <2> QED BY <2>3, <2>4
<1>10. main' \in Seq(Store!Entry) /\ flag' \in Seq(Store!Entry)
  BY <1>8 DEF StoreInv
<1>11. Store!env' = e
  BY <1>3, <1>4, <1>9, <1>10, EnvType, EnvEqual
<1> QED BY <1>1, <1>2, <1>3, <1>8, <1>11 DEF EnvStep

LEMMA PowerLossStep ==
  ASSUME StoreInv, Store!PowerLoss
  PROVE  StoreInv' /\ EnvStep
<1>1. /\ calls' = <<>> /\ erased' = FALSE /\ new' = <<>> /\ UNCHANGED <<kind, main, flag, loader>>
  BY DEF Store!PowerLoss
<1>2. Store!env' = Store!EnvOf(main, flag)
  BY <1>1, EnvNext
<1>3. StoreInv'
  <2>1. calls' \in Seq(Call) /\ new' \in Seq(Store!Entry)
    BY <1>1
  <2> QED BY <1>1, <2>1 DEF StoreInv
<1>4. CASE erased
  BY <1>2, <1>3, <1>4, NothingStored DEF StoreInv, EnvStep
<1>5. CASE ~erased
  BY <1>2, <1>3, <1>5 DEF EnvStep, Store!env
<1> QED BY <1>4, <1>5

LEMMA AskStep ==
  ASSUME StoreInv,
         \/ \E rev \in Revs : Store!pv_bootloader_set_installed(rev)
         \/ Store!pv_bootloader_set_commited \/ Store!pv_bootloader_set_failed
  PROVE  StoreInv' /\ UNCHANGED <<main, flag, erased, new, Store!env>>
<1>1. UNCHANGED <<kind, main, flag, up, erased, new>> /\ Store!Idle
  BY DEF Store!pv_bootloader_set_installed, Store!pv_bootloader_set_commited,
         Store!pv_bootloader_set_failed
<1>2. ~erased
  BY <1>1 DEF StoreInv, Store!Idle
<1>3. Store!env' = Store!env
  BY <1>1, EnvNext DEF Store!env
<1>4. /\ loader'.pv_try \in Store!RevOrNone
      /\ loader' = [pv_try |-> loader'.pv_try, pv_done |-> loader'.pv_done]
  BY DEF StoreInv, Store!RevOrNone,
         Store!pv_bootloader_set_installed, Store!pv_bootloader_set_commited, Store!pv_bootloader_set_failed
<1>5. calls' \in Seq(Call)
  <2>1. ASSUME NEW rev \in Revs, Store!pv_bootloader_set_installed(rev)
        PROVE  calls' \in Seq(Call)
    BY <2>1 DEF Store!pv_bootloader_set_installed, Call, Store!Set
  <2>2. CASE Store!pv_bootloader_set_commited
    <3>1. loader.pv_try \in Revs
      BY <2>2 DEF Store!pv_bootloader_set_commited, StoreInv, Store!RevOrNone
    <3>2. /\ Store!Set("pv_rev", loader.pv_try) \in Call
          /\ Store!Unset("pv_try") \in Call /\ Store!Flush \in Call
      BY <3>1 DEF Call, Store!Set
    <3>3. calls' = <<Store!Set("pv_rev", loader.pv_try), Store!Unset("pv_try"), Store!Flush>>
      BY <2>2 DEF Store!pv_bootloader_set_commited
    <3> QED BY <3>2, <3>3
  <2>3. CASE Store!pv_bootloader_set_failed
    <3>1. Store!Unset("pv_try") \in Call
      BY DEF Call
    <3> QED BY <2>3, <3>1 DEF Store!pv_bootloader_set_failed
  <2> QED BY <2>1, <2>2, <2>3
<1> QED BY <1>1, <1>2, <1>3, <1>4, <1>5 DEF StoreInv

LEMMA StoreStep ==
  ASSUME StoreInv, [Store!Next]_Store!vars
  PROVE  StoreInv' /\ EnvStep
<1>1. CASE UNCHANGED Store!vars
  <2>1. Store!env' = Store!env
    BY <1>1, EnvNext DEF Store!vars, Store!env
  <2> QED BY <1>1, <2>1 DEF Store!vars, StoreInv, EnvStep
<1>2. CASE Store!Next
  BY <1>2, AskStep, WriteFileStep, EraseSectorStep, WriteSectorStep, FlushFlagStep,
     BootStep, PowerLossStep DEF Store!Next, EnvStep
<1> QED BY <1>1, <1>2

LEMMA StoreInit == Store!Init => StoreInv
<1> SUFFICES ASSUME Store!Init
             PROVE  StoreInv
  OBVIOUS
<1>1. main \in Seq(Store!Entry) /\ flag \in Seq(Store!Entry) /\ new \in Seq(Store!Entry) /\ calls \in Seq(Call)
  BY DEF Store!Init
<1> QED BY <1>1 DEF Store!Init, StoreInv, Store!RevOrNone

LEMMA StoreSafe == Store!Spec => []StoreInv
BY StoreInit, StoreStep, PTL DEF Store!Spec

\* What AtomicOrErased says of one step.
LEMMA Atomic ==
  ASSUME StoreInv, EnvStep
  PROVE  \/ \E key \in Store!EnvKeys, val \in Revs : Store!env' = Store!set_env_key(Store!env, key, val)
         \/ \E key \in Store!EnvKeys : Store!env' = Store!unset_env_key(Store!env, key)
         \/ Store!env' = Store!flush_env(Store!env)
         \/ ~up /\ Store!env' \in Store!BootNotes(Store!env)
         \/ erased /\ Store!env' = Store!NoKeys
<1>1. Store!env \in Store!Env
  BY EnvType DEF Store!env, StoreInv
<1>2. CASE Store!env' = Store!env
  <2>1. CASE Store!env["pv_rev"] = NoRev
    <3>1. Store!env = Store!unset_env_key(Store!env, "pv_rev")
      BY <1>1, <2>1 DEF Store!unset_env_key, Store!Hits, Store!Env, Store!EnvKeys
    <3> QED BY <1>2, <3>1 DEF Store!EnvKeys
  <2>2. CASE Store!env["pv_rev"] # NoRev
    <3>1. Store!env["pv_rev"] \in Revs
      BY <1>1, <2>2 DEF Store!Env, Store!EnvKeys, Store!RevOrNone
    <3>2. Store!env = Store!set_env_key(Store!env, "pv_rev", Store!env["pv_rev"])
      BY <1>1 DEF Store!set_env_key, Store!unset_env_key, Store!Hits, Store!Env, Store!EnvKeys
    <3> QED BY <1>2, <3>1, <3>2 DEF Store!EnvKeys
  <2> QED BY <2>1, <2>2
<1>3. CASE calls # <<>> /\ Store!env' = Apply(Head(calls), Store!env)
  <2>1. Head(calls) \in Call
    BY <1>3, HeadIsCall
  <2>2. Head(calls).key \in Store!EnvKeys /\ (Head(calls).op = "set" => Head(calls).val \in Revs)
    BY <2>1 DEF Call, Store!EnvKeys, Store!Unset, Store!Flush
  <2> QED BY <1>3, <2>2 DEF Apply
<1> QED BY <1>2, <1>3 DEF EnvStep

LEMMA ElementsFit ==
  ASSUME NEW T, NEW s, NEW n \in Nat, s \in [1..n -> T]
  PROVE  s \in Seq(T)
OBVIOUS

\* What a write leaves behind has one entry for each key again.
LEMMA ResultUnique ==
  ASSUME StoreInv, calls # <<>>, Unique(main)
  PROVE  Unique(Store!Result(Head(calls)))
<1>1. Head(calls) \in Call
  BY HeadIsCall
<1>2. CASE Head(calls).op = "set"
  <2>1. Head(calls).key \in Store!EnvKeys /\ Head(calls).val \in Revs
    BY <1>1, <1>2 DEF Call, Store!EnvKeys, Store!Unset, Store!Flush
  <2> QED BY <1>2, <2>1, GetWith DEF Store!Result, StoreInv
<1>3. CASE Head(calls).op # "set"
  BY <1>3, GetWithout DEF Store!Result, StoreInv
<1> QED BY <1>2, <1>3

LEMMA NotedUnique ==
  ASSUME NEW s \in Seq(Store!Entry), Unique(s), NEW e, e["pv_trying"] \in Store!RevOrNone
  PROVE  Unique(Store!Noted(s, e))
<1>1. CASE e["pv_trying"] = NoRev
  BY <1>1, GetWithout DEF Store!Noted
<1>2. CASE e["pv_trying"] # NoRev
  <2>1. e["pv_trying"] \in Revs /\ "pv_trying" \in Store!EnvKeys
    BY <1>2 DEF Store!RevOrNone, Store!EnvKeys
  <2>2. Store!Noted(s, e) = Store!With(s, "pv_trying", e["pv_trying"])
    BY <1>2 DEF Store!Noted, Store!With
  <2> QED BY <2>1, <2>2, GetWith
<1> QED BY <1>1, <1>2

SmallInv ==
  /\ Unique(main) /\ Unique(flag) /\ Unique(new)
  /\ Len(calls) <= 3
  /\ up \in BOOLEAN /\ loader.pv_done \in Store!RevOrNone

LEMMA ReturnedSmall ==
  ASSUME StoreInv, SmallInv, calls # <<>>, NEW ok \in BOOLEAN, Store!Return(ok)
  PROVE  Len(calls') <= 3 /\ loader'.pv_done \in Store!RevOrNone
<1>1. calls' = Tail(calls) \/ calls' = <<>>
  BY DEF Store!Return
<1>2. Len(calls) \in Nat /\ Len(Tail(calls)) = Len(calls) - 1
  BY DEF StoreInv
<1>3. loader' = loader \/ loader' = [loader EXCEPT !.pv_try = NoRev]
  BY DEF Store!Return
<1>4. Len(calls') <= 3
  BY <1>1, <1>2 DEF SmallInv
<1>5. loader'.pv_done = loader.pv_done
  <2>1. loader = [pv_try |-> loader.pv_try, pv_done |-> loader.pv_done]
    BY DEF StoreInv
  <2> QED BY <1>3, <2>1
<1> QED BY <1>4, <1>5 DEF SmallInv

LEMMA SmallStep ==
  ASSUME StoreInv, SmallInv, [Store!Next]_Store!vars
  PROVE  SmallInv'
<1>0. Unique(<<>>)
  BY DEF Unique
<1>1. ASSUME Store!WriteFile \/ Store!EraseSector \/ Store!WriteSector \/ Store!FlushFlag
      PROVE  SmallInv'
  <2>1. /\ calls # <<>> /\ up' = up
        /\ main' \in {main, <<>>, new, Store!Result(Head(calls))}
        /\ new' \in {new, <<>>, Store!Result(Head(calls))}
        /\ flag' \in {flag, <<>>}
    BY <1>1 DEF Store!WriteFile, Store!EraseSector, Store!WriteSector, Store!FlushFlag, StoreInv
  <2>2. \/ \E ok \in BOOLEAN : Store!Return(ok)
        \/ UNCHANGED <<loader, calls>>
    BY <1>1 DEF Store!WriteFile, Store!EraseSector, Store!WriteSector, Store!FlushFlag
  <2>3. Len(calls') <= 3 /\ loader'.pv_done \in Store!RevOrNone
    BY <2>1, <2>2, ReturnedSmall DEF SmallInv
  <2> QED BY <1>0, <2>1, <2>3, ResultUnique DEF SmallInv
<1>2. CASE Store!pv_bl_early_init
  <2>1. PICK e \in Store!BootNotes(Store!OnDisk) :
          IF kind = "uboot" THEN flag' = Store!Noted(flag, e) /\ main' = main
                            ELSE main' = Store!Noted(main, e) /\ flag' = flag
    BY <1>2 DEF Store!pv_bl_early_init
  <2>2. Store!OnDisk \in Store!Env
    BY EnvType DEF Store!OnDisk, StoreInv
  <2>3. e["pv_trying"] \in Store!RevOrNone
    BY <2>2, NotesType DEF Store!Env, Store!EnvKeys
  <2>4. Unique(main') /\ Unique(flag')
    BY <2>1, <2>3, NotedUnique DEF StoreInv, SmallInv
  <2>5. Store!BootRev(Store!OnDisk) \in Store!RevOrNone
    BY <2>2, BootEnvAssumption
       DEF Store!BootRev, Store!RollbackPoint, Store!Env, Store!EnvKeys, Store!RevOrNone
  <2>6. Store!get_env_key(main, "pv_rev") \in Store!RevOrNone
    BY GetType DEF StoreInv
  <2>7. /\ UNCHANGED <<calls, new>> /\ up' = TRUE
        /\ loader'.pv_done \in {Store!BootRev(Store!OnDisk), Store!get_env_key(main, "pv_rev")}
    BY <1>2 DEF Store!pv_bl_early_init
  <2> QED BY <2>4, <2>5, <2>6, <2>7 DEF SmallInv
<1>3. CASE Store!PowerLoss
  <2>1. UNCHANGED <<main, flag, loader>> /\ new' = <<>> /\ calls' = <<>> /\ up' = FALSE
    BY <1>3 DEF Store!PowerLoss
  <2>2. Len(calls') <= 3 /\ Unique(new')
    BY <1>0, <2>1
  <2> QED BY <2>1, <2>2 DEF SmallInv
<1>4. ASSUME \/ \E rev \in Revs : Store!pv_bootloader_set_installed(rev)
             \/ Store!pv_bootloader_set_commited \/ Store!pv_bootloader_set_failed
      PROVE  SmallInv'
  <2>1. UNCHANGED <<main, flag, up, new>>
    BY <1>4 DEF Store!pv_bootloader_set_installed, Store!pv_bootloader_set_commited,
                Store!pv_bootloader_set_failed
  <2>2. loader'.pv_done \in {loader.pv_done, loader.pv_try}
    BY <1>4 DEF Store!pv_bootloader_set_installed, Store!pv_bootloader_set_commited,
                Store!pv_bootloader_set_failed, StoreInv
  <2>3. Len(calls') <= 3
    <3>1. ASSUME NEW rev \in Revs, Store!pv_bootloader_set_installed(rev)
          PROVE  Len(calls') <= 3
      BY <3>1 DEF Store!pv_bootloader_set_installed
    <3>2. CASE Store!pv_bootloader_set_commited
      BY <3>2 DEF Store!pv_bootloader_set_commited
    <3>3. CASE Store!pv_bootloader_set_failed
      BY <3>3 DEF Store!pv_bootloader_set_failed
    <3> QED BY <1>4, <3>1, <3>2, <3>3
  <2> QED BY <2>1, <2>2, <2>3 DEF SmallInv, StoreInv
<1>5. CASE UNCHANGED Store!vars
  BY <1>5 DEF Store!vars, SmallInv
<1> QED BY <1>1, <1>2, <1>3, <1>4, <1>5 DEF Store!Next

(* The stores stay small: however often revisions are tried, committed and *)
(* given up, no list of uboot.txt, grubenv or the partition ever has two   *)
(* entries for a key, and every variable keeps its type.                   *)
THEOREM StoreTypeCorrect == Store!Spec => []Store!TypeOK
<1>1. Store!Init => SmallInv
  <2> SUFFICES ASSUME Store!Init
               PROVE  SmallInv
    OBVIOUS
  <2>1. main = <<>> /\ flag = <<>> /\ new = <<>> /\ calls = <<>> /\ up = FALSE
    BY DEF Store!Init
  <2>2. loader.pv_done \in Store!RevOrNone
    BY DEF Store!Init, Store!RevOrNone
  <2>3. Unique(<<>>)
    BY DEF Unique
  <2>4. Len(calls) <= 3
    BY <2>1
  <2>5. Unique(main) /\ Unique(flag) /\ Unique(new)
    BY <2>1, <2>3
  <2> QED BY <2>1, <2>2, <2>4, <2>5 DEF SmallInv
<1>2. StoreInv /\ SmallInv /\ [Store!Next]_Store!vars => (StoreInv /\ SmallInv)'
  BY StoreStep, SmallStep
<1>3. ASSUME StoreInv, SmallInv
      PROVE  Store!TypeOK
  <2>1. main \in Store!Lists /\ flag \in Store!Lists /\ new \in Store!Lists
    BY <1>3, UniqueIsShort DEF StoreInv, SmallInv
  <2>2. loader \in [pv_try : Store!RevOrNone, pv_done : Store!RevOrNone]
    BY <1>3 DEF StoreInv, SmallInv
  <2>3. Call \subseteq [op : {"set", "unset", "flush"}, key : Store!EnvKeys,
                        val : Store!RevOrNone]
    BY DEF Call, Store!Unset, Store!Flush, Store!EnvKeys, Store!RevOrNone
  <2>4. calls \in Seq([op : {"set", "unset", "flush"}, key : Store!EnvKeys,
                       val : Store!RevOrNone])
    <3> HIDE DEF Call
    <3>1. calls \in [1..Len(calls) -> Call] /\ Len(calls) \in Nat
      <4>1. calls \in Seq(Call)
        BY <1>3 DEF StoreInv
      <4> QED BY <4>1
    <3>2. calls \in [1..Len(calls) -> [op : {"set", "unset", "flush"}, key : Store!EnvKeys,
                                       val : Store!RevOrNone]]
      BY <2>3, <3>1
    <3> QED BY <3>1, <3>2, ElementsFit
  <2> QED BY <1>3, <2>1, <2>2, <2>4 DEF Store!TypeOK, StoreInv, SmallInv
<1> QED BY <1>1, <1>2, <1>3, StoreInit, PTL DEF Store!Spec

(* The lists of entries implement the keys of BootEnv (uboot.c, grub.c):   *)
(* with prefix matching, failed and lost writes and power losses, each     *)
(* step is one operation on the keys or none, for lists of any length and  *)
(* any number of revisions; only an erased sector loses them all.          *)
THEOREM StoreImplements == Store!Spec => Store!AtomicOrErased
<1>1. StoreInv /\ [Store!Next]_Store!vars =>
        [\/ \E key \in Store!EnvKeys, val \in Revs : Store!env' = Store!set_env_key(Store!env, key, val)
         \/ \E key \in Store!EnvKeys : Store!env' = Store!unset_env_key(Store!env, key)
         \/ Store!env' = Store!flush_env(Store!env)
         \/ ~up /\ Store!env' \in Store!BootNotes(Store!env)
         \/ erased /\ Store!env' = Store!NoKeys]_<<main, flag, erased, new>>
  BY StoreStep, Atomic
<1> QED BY <1>1, StoreSafe, PTL DEF Store!Spec, Store!AtomicOrErased

(* No write and no power loss replaces the rollback point by another       *)
(* revision than the one pv_bootloader_set_commited is writing; only an    *)
(* erased sector loses it, with all the other keys.                        *)
THEOREM CommittedCorrect == Store!Spec => Store!CommittedIsKept
<1>1. ASSUME StoreInv, EnvStep, Store!RollbackPoint(Store!env') # Store!RollbackPoint(Store!env)
      PROVE  \/ calls # <<>> /\ Head(calls) = Store!Set("pv_rev", Store!RollbackPoint(Store!env'))
             \/ erased /\ Store!env' = Store!NoKeys
  <2>1. Store!env \in Store!Env
    BY <1>1, EnvType DEF Store!env, StoreInv
  <2>2. Store!env'["pv_rev"] # Store!env["pv_rev"] /\ Store!env' # Store!env
    BY <1>1 DEF Store!RollbackPoint
  <2>3. ~(Store!env' \in Store!BootNotes(Store!env))
    BY <2>1, <2>2, NotesType DEF Store!EnvKeys
  <2>4. CASE calls # <<>> /\ Store!env' = Apply(Head(calls), Store!env)
    <3> DEFINE c == Head(calls)
    <3>1. c \in Call
      BY <1>1, <2>4, HeadIsCall
    <3> HIDE DEF c
    <3>2. Apply(c, Store!env)["pv_rev"] =
              IF c.op = "set" /\ "pv_rev" = c.key THEN c.val
              ELSE IF c.op = "flush"
                     THEN IF kind # "grub" /\ "pv_rev" = "pv_trying" THEN NoRev ELSE Store!env["pv_rev"]
              ELSE IF "pv_rev" \in Store!Hits(c.key) THEN NoRev ELSE Store!env["pv_rev"]
      BY <2>1, <3>1, ApplyType DEF Store!EnvKeys
    <3>3. c.op # "set" => c.key # "pv_rev"
      BY <3>1 DEF Call, Store!Unset, Store!Flush
    <3>4. c.key # "pv_rev" => "pv_rev" \notin Store!Hits(c.key)
      BY DEF Store!Hits
    <3>5. Store!env' = Apply(c, Store!env)
      BY <2>4 DEF c
    <3>6. c.op = "set" /\ c.key = "pv_rev" /\ Store!env'["pv_rev"] = c.val
      BY <2>2, <3>2, <3>3, <3>4, <3>5
    <3>7. c \in [op : {"set"}, key : {"pv_rev", "pv_try"}, val : Revs]
      BY <3>1, <3>6 DEF Call, Store!Unset, Store!Flush
    <3>8. c = Store!Set("pv_rev", c.val) /\ c.val # NoRev
      BY <3>6, <3>7, BootEnvAssumption DEF Store!Set
    <3>9. Store!RollbackPoint(Store!env') = c.val
      BY <3>6, <3>8 DEF Store!RollbackPoint
    <3> QED BY <2>4, <3>8, <3>9 DEF c
  <2> QED BY <1>1, <2>2, <2>3, <2>4 DEF EnvStep
<1>2. StoreInv /\ [Store!Next]_Store!vars =>
        [Store!RollbackPoint(Store!env') # Store!RollbackPoint(Store!env) =>
           \/ calls # <<>> /\ Head(calls) = Store!Set("pv_rev", Store!RollbackPoint(Store!env'))
           \/ erased /\ Store!env' = Store!NoKeys]_Store!vars
  BY <1>1, StoreStep
<1> QED BY <1>2, StoreSafe, PTL DEF Store!Spec, Store!CommittedIsKept
=============================================================================

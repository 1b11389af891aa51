----------------------------- MODULE Pantavisor -----------------------------
(***************************************************************************)
(* The main loop of pantavisor.c and the life of an update (updater.c):    *)
(* boot, run, wait, command, download, install, trial, commit, rollback    *)
(* and reboot, with a power loss possible between any two writes to        *)
(* storage.  One action per state function; a function that writes the     *)
(* boot environment or the trail several times is cut at those writes, so  *)
(* that a power loss can fall between them, and nothing else can.          *)
(***************************************************************************)
EXTENDS BootEnv, Naturals

CONSTANTS
  LocalRevs,      \* revisions named "locals/..."
  HubRevs,        \* revisions the cloud offers as steps
  RevNum,         \* atoi() of a revision's name
  RemoteControl,  \* config control.remote
  KeepFactory,    \* config storage.gc.keep_factory
  MaxRetries,     \* config updater.revision_retries
  Ops,            \* commands that clients send on the control socket
  Broken,         \* revisions that may fail to load, to start or to stay up
  IoFaults        \* whether file operations other than boot env writes may fail

ASSUME PantavisorAssumption ==
  /\ LocalRevs \subseteq Revs \ {Factory}
  /\ HubRevs \subseteq Revs \ (LocalRevs \cup {Factory})
  /\ RevNum \in [Revs -> Nat]
  /\ RemoteControl \in BOOLEAN
  /\ KeepFactory \in BOOLEAN
  /\ MaxRetries \in Nat
  /\ Ops \subseteq {"REBOOT_DEVICE", "POWEROFF_DEVICE", "LOCAL_RUN",
                    "MAKE_FACTORY", "RUN_GC", "PUT_STEP"}
  /\ Broken \subseteq Revs
  /\ IoFaults \in BOOLEAN

VARIABLES
  (* storage *)
  env,          \* the boot environment
  trail,        \* trails/<rev>: "none", "part" (incomplete) or "full"
  progress,     \* trails/<rev>/.pv/progress
  unclaimed,    \* pv->unclaimed, kept in the credentials
  (* memory *)
  st,           \* state of the main loop, "OFF" when the device is down
  bl,           \* struct pv_bootloader
  running,      \* pv->state->rev, NoRev while pv->state is NULL
  update,       \* pv->update
  cmd,          \* pv->cmd
  commitFin,    \* timer_commit has run out
  rollbackFin   \* rollback_timer has run out

storageVars == <<env, trail, progress, unclaimed>>
timerVars   == <<commitFin, rollbackFin>>
memoryVars  == <<bl, running, update, cmd, commitFin, rollbackFin>>
vars == <<env, trail, progress, unclaimed, st, bl, running, update, cmd,
          commitFin, rollbackFin>>

Statuses ==
  {"NONE", "INIT", "QUEUED", "DOWNLOADED", "INSTALLED", "TRY", "TRANSITION",
   "REBOOT", "FAILED", "NO_DOWNLOAD", "RETRY_DOWNLOAD", "TESTING_REBOOT",
   "TESTING_NONREBOOT"}

\* rev is the revision of the cloud endpoint, pending that of update->pending.
Update == [rev : RevOrNone, pending : RevOrNone, status : Statuses,
           local : BOOLEAN, retries : 0 .. MaxRetries + 1]

NoUpdate == [rev |-> NoRev, pending |-> NoRev, status |-> "NONE",
             local |-> FALSE, retries |-> 0]

pv_update_new(r, pend, s, loc, n) ==
  [rev |-> r, pending |-> pend, status |-> s, local |-> loc, retries |-> n]

NoCmd == [op |-> "NONE", rev |-> NoRev]

\* An empty make-factory payload is NoRev.
Cmd == [op : Ops \cup {"NONE"}, rev : RevOrNone]

\* Main loop states; the lower two rows are the cuts inside state functions.
LoopStates ==
  {"OFF", "INIT", "RUN", "WAIT", "COMMAND", "UPDATE", "ROLLBACK", "REBOOT",
   "POWEROFF", "ERROR", "FACTORY_UPLOAD",
   "CTRL", "INSTALL", "INSTALL_ENV", "INSTALLED", "COMMIT_TRY", "COMMIT_FLUSH",
   "COMMITTED", "FINISH_FAILED", "UPDATE_FAILED", "MAKE_FACTORY"}

Trails == {"none", "part", "full"}

BlDown == [pv_rev |-> NoRev, pv_try |-> NoRev, pv_done |-> NoRev]

Init ==
  /\ env \in {[k \in EnvKeys |-> IF k = "pv_rev" THEN r ELSE NoRev] :
                r \in {NoRev, Factory}}
  /\ trail = [r \in Revs |-> IF r = Factory THEN "full" ELSE "none"]
  /\ progress = [r \in Revs |-> "NONE"]
  /\ unclaimed \in BOOLEAN
  /\ st = "OFF"
  /\ bl = BlDown
  /\ running = NoRev
  /\ update = NoUpdate
  /\ cmd = NoCmd
  /\ commitFin = FALSE
  /\ rollbackFin = FALSE

(***************************************************************************)
(* Status reports.  A report sets update->status and is stored in the      *)
(* trail of update->pending, if there is one and its directory exists.     *)
(* Everything between the acceptance of an update and its outcome (QUEUED, *)
(* DOWNLOADING, INPROGRESS, TESTING) reads "ONGOING" here.                 *)
(***************************************************************************)
Reports == {"NONE", "ONGOING", "ERROR", "WONTGO", "UPDATED", "DONE"}

ProgressOf(s) ==
  IF s \in {"FAILED", "INIT"} THEN "ERROR"
  ELSE IF s = "NO_DOWNLOAD" THEN "WONTGO"
  ELSE IF s \in {"UPDATED", "DONE"} THEN s
  ELSE "ONGOING"

pv_storage_set_rev_progress(prog, tr, r, p) ==
  IF r # NoRev /\ tr[r] # "none" THEN [prog EXCEPT ![r] = p] ELSE prog

StoreStatus(prog, tr, u, s) ==
  pv_storage_set_rev_progress(prog, tr, u.pending, ProgressOf(s))

SetStatus(u, s) == [u EXCEPT !.status = s]

pv_update_is_trying(u) == u.status \in {"TRY", "TRANSITION"}

pv_update_is_testing(u) == u.status \in {"TESTING_REBOOT", "TESTING_NONREBOOT"}

\* Running a local revision turns remote mode off.
remote_mode == RemoteControl /\ running \notin LocalRevs

(***************************************************************************)
(* Removal of a revision, and the garbage collector, which spares the      *)
(* running, the pending and the done revision and, if configured, "0".     *)
(***************************************************************************)
GcKeepsNotDone(u) == {running, u.pending} \cup {r \in {Factory} : KeepFactory}

GcKeeps(u) == {running, u.pending, bl.pv_done} \cup {r \in {Factory} : KeepFactory}

\* f without the revisions in S, whose directories (progress included) go.
pv_storage_rm_rev(f, S, gone) == [r \in Revs |-> IF r \in S THEN gone ELSE f[r]]

Removed(S) ==
  /\ trail' = pv_storage_rm_rev(trail, S, "none")
  /\ progress' = pv_storage_rm_rev(progress, S, "NONE")

\* The revisions the collector removes.
pv_storage_gc_run(u) == Revs \ GcKeeps(u)

\* It runs or not, depending on the free space.
MaybeGc(u) == {{}, pv_storage_gc_run(u)}

(***************************************************************************)
(* Going down: memory is lost, storage stays.                              *)
(***************************************************************************)
GoDown ==
  /\ st' = "OFF"
  /\ bl' = BlDown
  /\ running' = NoRev
  /\ update' = NoUpdate
  /\ cmd' = NoCmd
  /\ commitFin' = FALSE
  /\ rollbackFin' = FALSE

PowerLoss ==
  /\ st # "OFF"
  /\ GoDown
  /\ UNCHANGED storageVars

\* The boot loader picks a revision; pv_bl_early_init reads what it picked.
Boot ==
  /\ st = "OFF"
  /\ st' = "INIT"
  /\ env' \in BootNotes(env)
  /\ bl' = [pv_rev |-> BootRev(env), pv_try |-> env["pv_try"],
            pv_done |-> IF env["pv_rev"] = NoRev THEN BootRev(env) ELSE env["pv_rev"]]
  /\ UNCHANGED <<trail, progress, unclaimed, running, update, cmd, timerVars>>

\* A failed init step makes pantavisor exit, and init reboots the device.
PvInit ==
  /\ st = "INIT"
  /\ \/ st' = "RUN" /\ UNCHANGED memoryVars
     \/ IoFaults /\ GoDown
  /\ UNCHANGED storageVars

(***************************************************************************)
(* _pv_run                                                                 *)
(***************************************************************************)
pv_bootloader_trying_update == bl.pv_try # NoRev /\ bl.pv_rev = bl.pv_try

pv_update_resume ==
  IF update # NoUpdate \/ bl.pv_try = NoRev THEN update
  ELSE pv_update_new(bl.pv_try, NoRev,
                     IF pv_bootloader_trying_update THEN "TRY" ELSE "FAILED",
                     FALSE, 0)

\* After a transition the pending state is merged into the running one.
RunTarget(u) == IF u.status = "TRANSITION" THEN u.pending ELSE bl.pv_rev

RunUpdate(u) ==
  IF u = NoUpdate \/ u.status = "TRANSITION" THEN u ELSE [u EXCEPT !.pending = bl.pv_rev]

MayFail(r) == r \in Broken \/ trail[r] # "full"

\* The state json is missing, or fails signature or parsing: no pv->state.
RunNoState ==
  LET u == pv_update_resume IN
  /\ st = "RUN"
  /\ u.status # "TRANSITION"
  /\ MayFail(bl.pv_rev)
  /\ update' = u
  /\ st' = "ROLLBACK"
  /\ UNCHANGED <<env, trail, progress, unclaimed, bl, running, cmd, timerVars>>

\* Checksums, volumes, config or platforms fail, or all of them come up.
RunState ==
  LET u == pv_update_resume
      r == RunTarget(u)
  IN
  /\ st = "RUN"
  /\ u.status = "TRANSITION" \/ trail[r] # "none"
  /\ running' = r
  /\ update' = RunUpdate(u)
  /\ \/ MayFail(r) /\ st' = "ROLLBACK" /\ UNCHANGED <<progress, timerVars>>
     \/ /\ trail[r] = "full"
        /\ progress' = IF r = Factory
                       THEN pv_storage_set_rev_progress(progress, trail, r, "ONGOING")
                       ELSE progress
        /\ \/ MayFail(r) /\ st' = "ROLLBACK" /\ UNCHANGED timerVars
           \/ st' = "WAIT" /\ commitFin' = TRUE /\ rollbackFin' = FALSE
  /\ UNCHANGED <<env, trail, unclaimed, bl, cmd>>

(***************************************************************************)
(* pv_update_finish, called with the update u after tr and prog were       *)
(* written; next is where its caller goes on.  The cases that write the    *)
(* boot environment stop at that write.                                    *)
(***************************************************************************)
FinalStatus(u) ==
  IF u.status = "RETRY_DOWNLOAD" THEN "NO_DOWNLOAD"
  ELSE IF u.status = "TESTING_NONREBOOT" THEN "UPDATED"
  ELSE u.status

WillRetryForever(u) == u.status = "RETRY_DOWNLOAD"

WillRetry(u) == u.status = "RETRY_DOWNLOAD" /\ u.retries <= MaxRetries

SetRevIgnoresError ==
  /\ bl' = [bl EXCEPT !.pv_rev = running, !.pv_done = running]
  /\ \E w \in EnvWrites(env, set_env_key(env, "pv_rev", running)) : env' = w.env
  /\ st' = "COMMIT_TRY"

\* set_rev: memory changes whether or not the environment does.
SetRev ==
  /\ bl' = [bl EXCEPT !.pv_rev = running, !.pv_done = running]
  /\ \E w \in EnvWrites(env, set_env_key(env, "pv_rev", running)) :
       /\ env' = w.env
       /\ st' = IF w.ok THEN "COMMIT_TRY" ELSE "ROLLBACK"

SetFailedInMemory ==
  /\ bl' = [bl EXCEPT !.pv_try = NoRev]
  /\ UNCHANGED env

pv_bootloader_set_failed ==
  /\ bl' = [bl EXCEPT !.pv_try = NoRev]
  /\ \E w \in EnvWrites(env, unset_env_key(env, "pv_try")) : env' = w.env

pv_update_finish(u, tr, prog, next) ==
  \/ /\ u.status = "FAILED"
     /\ pv_bootloader_set_failed
     /\ st' = IF next = "CTRL" THEN "FINISH_FAILED" ELSE "UPDATE_FAILED"
     /\ update' = u
     /\ progress' = prog
  \/ /\ u.status = "TESTING_REBOOT"
     /\ SetRev
     /\ update' = u
     /\ progress' = prog
  \/ /\ WillRetry(u)
     /\ st' = next
     /\ update' = u
     /\ progress' = prog
     /\ UNCHANGED <<env, bl>>
  \/ /\ u.status \notin {"FAILED", "TESTING_REBOOT"}
     /\ ~WillRetry(u)
     /\ st' = next
     /\ update' = NoUpdate
     /\ progress' = StoreStatus(prog, tr, u, FinalStatus(u))
     /\ UNCHANGED <<env, bl>>

\* The failed update is reported and removed.
FinishFailed ==
  /\ st \in {"FINISH_FAILED", "UPDATE_FAILED"}
  /\ progress' = StoreStatus(progress, trail, update, "FAILED")
  /\ update' = NoUpdate
  /\ st' = IF st = "FINISH_FAILED" THEN "CTRL" ELSE "WAIT"
  /\ UNCHANGED <<env, trail, unclaimed, bl, running, cmd, timerVars>>

\* The rest of pv_bootloader_set_commited.
CommitTry ==
  /\ st = "COMMIT_TRY"
  /\ bl' = [bl EXCEPT !.pv_try = NoRev]
  /\ \E w \in EnvWrites(env, unset_env_key(env, "pv_try")) :
       /\ env' = w.env
       /\ st' = IF w.ok THEN "COMMIT_FLUSH" ELSE "ROLLBACK"
  /\ UNCHANGED <<trail, progress, unclaimed, running, update, cmd, timerVars>>

CommitFlush ==
  /\ st = "COMMIT_FLUSH"
  /\ \E w \in EnvWrites(env, flush_env(env)) : env' = w.env
  /\ st' = "COMMITTED"
  /\ UNCHANGED <<trail, progress, unclaimed, memoryVars>>

Committed ==
  /\ st = "COMMITTED"
  /\ progress' = StoreStatus(progress, trail, update, "DONE")
  /\ update' = NoUpdate
  /\ st' = "CTRL"
  /\ UNCHANGED <<env, trail, unclaimed, bl, running, cmd, timerVars>>

pv_update_test(u) == IF u.status = "TRY" THEN "TESTING_REBOOT" ELSE "TESTING_NONREBOOT"

(***************************************************************************)
(* _pv_wait.  A pass that stays in WAIT goes on to "CTRL", the rest of the *)
(* function: the collector's threshold and the control socket.             *)
(***************************************************************************)
pv_wait_update(prog) ==
  /\ UNCHANGED <<trail, rollbackFin>>
  /\ \/ /\ update = NoUpdate
        /\ st' = "CTRL"
        /\ progress' = prog
        /\ UNCHANGED <<env, bl, update, commitFin>>
     \/ /\ pv_update_is_trying(update)
        /\ commitFin' = FALSE
        /\ update' = SetStatus(update, pv_update_test(update))
        /\ progress' = StoreStatus(prog, trail, update, pv_update_test(update))
        /\ st' = "CTRL"
        /\ UNCHANGED <<env, bl>>
     \/ /\ pv_update_is_testing(update)
        /\ ~commitFin
        /\ st' = "CTRL"
        /\ progress' = prog
        /\ UNCHANGED <<env, bl, update, commitFin>>
     \/ /\ update # NoUpdate
        /\ ~pv_update_is_trying(update)
        /\ pv_update_is_testing(update) => commitFin
        /\ pv_update_finish(update, trail, prog, "CTRL")
        /\ UNCHANGED commitFin

PlatformExited ==
  /\ st = "WAIT"
  /\ running \in Broken
  /\ st' = IF pv_update_is_trying(update) \/ pv_update_is_testing(update)
           THEN "ROLLBACK" ELSE "REBOOT"
  /\ UNCHANGED <<storageVars, memoryVars>>

\* While a device is unclaimed, an update is finished before the cloud is used.
NetworkTurn == remote_mode /\ (~unclaimed \/ update = NoUpdate)

WaitLocal ==
  /\ st = "WAIT"
  /\ ~NetworkTurn
  /\ pv_wait_update(progress)
  /\ UNCHANGED <<unclaimed, running, cmd>>

\* The network interval has not passed: the pass does nothing else.
WaitIdle ==
  /\ st = "WAIT"
  /\ NetworkTurn
  /\ st' = "CTRL"
  /\ UNCHANGED <<storageVars, memoryVars>>

\* pv_wait_unclaimed: registration fails, or the device is owned or not yet.
WaitUnclaimed ==
  /\ st = "WAIT"
  /\ NetworkTurn
  /\ unclaimed
  /\ \/ st' = "CTRL" /\ UNCHANGED <<progress, unclaimed>>
     \/ /\ st' = "FACTORY_UPLOAD"
        /\ unclaimed' \in BOOLEAN
        /\ progress' = pv_storage_set_rev_progress(progress, trail, Factory, "ONGOING")
  /\ UNCHANGED <<env, trail, memoryVars>>

\* pv_wait_network without connection.
WaitNoAuth ==
  /\ st = "WAIT"
  /\ NetworkTurn
  /\ ~unclaimed
  /\ st' = IF \/ pv_update_is_testing(update)
              \/ pv_update_is_trying(update) /\ rollbackFin
           THEN "ROLLBACK" ELSE "CTRL"
  /\ UNCHANGED <<storageVars, memoryVars>>

\* pv_wait_network on revision "0" whose factory metadata is not uploaded.
WaitFactoryMeta ==
  /\ st = "WAIT"
  /\ NetworkTurn
  /\ ~unclaimed
  /\ running = Factory
  /\ st' = "FACTORY_UPLOAD"
  /\ UNCHANGED <<storageVars, memoryVars>>

\* A step is taken only when no update is there and it is not a stale one.
AcceptStep(r) ==
  /\ update = NoUpdate
  /\ RevNum[r] >= RevNum[running]
  /\ \E n \in 0 .. MaxRetries : update' = pv_update_new(r, r, "QUEUED", FALSE, n)

WaitNewUpdate ==
  /\ st = "WAIT"
  /\ NetworkTurn
  /\ ~unclaimed
  /\ \/ update.status = "RETRY_DOWNLOAD" /\ UNCHANGED update
     \/ \E r \in HubRevs : AcceptStep(r)
  /\ st' = "UPDATE"
  /\ UNCHANGED <<storageVars, bl, running, cmd, timerVars>>

\* Nothing new (or no answer) from the cloud: the ongoing update progresses.
WaitNetwork ==
  /\ st = "WAIT"
  /\ NetworkTurn
  /\ ~unclaimed
  /\ \E synced \in BOOLEAN :
       pv_wait_update(IF synced /\ running = Factory
                      THEN pv_storage_set_rev_progress(progress, trail, Factory, "DONE")
                      ELSE progress)
  /\ UNCHANGED <<unclaimed, running, cmd>>

\* pv_ctrl_socket_wait: nothing, a command, or the json of a new local step.
Ctrl ==
  /\ st = "CTRL"
  /\ \E S \in MaybeGc(update) : Removed(S)
  /\ \/ st' = "WAIT" /\ UNCHANGED cmd
     \/ /\ st' = "COMMAND"
        /\ \/ \E op \in Ops \cap {"REBOOT_DEVICE", "POWEROFF_DEVICE", "RUN_GC"} :
                cmd' = [op |-> op, rev |-> NoRev]
           \/ "LOCAL_RUN" \in Ops /\ \E r \in Revs : cmd' = [op |-> "LOCAL_RUN", rev |-> r]
           \/ /\ "MAKE_FACTORY" \in Ops
              /\ \E r \in RevOrNone : cmd' = [op |-> "MAKE_FACTORY", rev |-> r]
  /\ UNCHANGED <<env, unclaimed, bl, running, update, timerVars>>

\* The file is created exclusively, so an existing step is left as it is.
PutStep ==
  /\ st = "CTRL"
  /\ "PUT_STEP" \in Ops
  /\ \E r \in LocalRevs :
       /\ trail[r] = "none"
       /\ trail' = [trail EXCEPT ![r] = "part"]
  /\ st' = "WAIT"
  /\ UNCHANGED <<env, progress, unclaimed, memoryVars>>

FactoryUpload ==
  /\ st = "FACTORY_UPLOAD"
  /\ st' \in {"WAIT", "FACTORY_UPLOAD"}
  /\ UNCHANGED <<storageVars, memoryVars>>

\* The timers; each is looked at only while the update is in that phase.
CommitTimer ==
  /\ pv_update_is_testing(update)
  /\ ~commitFin
  /\ commitFin' = TRUE
  /\ UNCHANGED <<storageVars, st, bl, running, update, cmd, rollbackFin>>

RollbackTimer ==
  /\ pv_update_is_trying(update)
  /\ ~rollbackFin
  /\ rollbackFin' = TRUE
  /\ UNCHANGED <<storageVars, st, bl, running, update, cmd, commitFin>>

(***************************************************************************)
(* _pv_command                                                             *)
(***************************************************************************)
IgnoredIfClaimed(c) == c.op = "MAKE_FACTORY" /\ ~unclaimed

Ignored(c) ==
  /\ c.op # "RUN_GC"
  /\ update # NoUpdate \/ (c.op = "MAKE_FACTORY" /\ ~unclaimed)

\* NULL when the json is missing, not signed or not parsed.
pv_update_get_step_local(r) ==
  \/ MayFail(r) /\ st' = "WAIT" /\ UNCHANGED update
  \/ /\ trail[r] # "none"
     /\ update' = pv_update_new(r, r, "INIT", TRUE, 0)
     /\ st' = "UPDATE"

Command ==
  /\ st = "COMMAND"
  /\ cmd' = NoCmd
  /\ \/ /\ Ignored(cmd)
        /\ st' = "WAIT"
        /\ UNCHANGED <<trail, progress, update>>
     \/ /\ ~Ignored(cmd)
        /\ \/ /\ cmd.op = "REBOOT_DEVICE"
              /\ st' = "REBOOT"
              /\ UNCHANGED <<trail, progress, update>>
           \/ /\ cmd.op = "POWEROFF_DEVICE"
              /\ st' = "POWEROFF"
              /\ UNCHANGED <<trail, progress, update>>
           \/ /\ cmd.op = "LOCAL_RUN"
              /\ pv_update_get_step_local(cmd.rev)
              /\ UNCHANGED <<trail, progress>>
           \/ /\ cmd.op = "RUN_GC"
              /\ Removed(pv_storage_gc_run(update))
              /\ st' = "WAIT"
              /\ UNCHANGED update
  /\ UNCHANGED <<env, unclaimed, bl, running, timerVars>>

\* pv_storage_update_factory first removes revision "0" ...
CommandMakeFactory ==
  /\ st = "COMMAND"
  /\ cmd.op = "MAKE_FACTORY"
  /\ ~Ignored(cmd)
  /\ Removed({Factory})
  /\ st' = "MAKE_FACTORY"
  /\ UNCHANGED <<env, unclaimed, memoryVars>>

\* ... then makes a new one out of the source's json, which is gone if it was "0".
MakeFactory ==
  LET source == IF cmd.rev = NoRev THEN running ELSE cmd.rev IN
  /\ st = "MAKE_FACTORY"
  /\ trail' = [trail EXCEPT ![Factory] = "part"]
  /\ cmd' = NoCmd
  /\ \/ /\ source = Factory \/ MayFail(source) \/ IoFaults
        /\ st' = "WAIT"
        /\ UNCHANGED update
     \/ /\ trail[source] # "none"
        /\ update' = pv_update_new(Factory, Factory, "INIT", TRUE, 0)
        /\ st' = "UPDATE"
  /\ UNCHANGED <<env, progress, unclaimed, bl, running, timerVars>>

(***************************************************************************)
(* _pv_update: pv_update_download                                          *)
(***************************************************************************)
MkTrail(tr) == IF tr[update.pending] = "none"
               THEN [tr EXCEPT ![update.pending] = "part"] ELSE tr

DownloadLocal ==
  /\ st = "UPDATE"
  /\ update.local
  /\ trail' = MkTrail(trail)
  /\ st' = "INSTALL"
  /\ UNCHANGED <<env, progress, unclaimed, memoryVars>>

\* The cloud is not there, or the time to retry has not come.
DownloadNotNow ==
  /\ st = "UPDATE"
  /\ ~update.local
  /\ trail' = MkTrail(trail)
  /\ pv_update_finish(update, trail', progress, "WAIT")
  /\ UNCHANGED <<unclaimed, running, cmd, timerVars>>

NextTry(u) == [u EXCEPT !.retries = @ + 1]

DownloadNoMoreRetries ==
  /\ st = "UPDATE"
  /\ ~update.local
  /\ NextTry(update).retries > MaxRetries
  /\ trail' = MkTrail(trail)
  /\ pv_update_finish(NextTry(update), trail', progress, "WAIT")
  /\ UNCHANGED <<unclaimed, running, cmd, timerVars>>

\* An attempt, which may have to collect garbage first, ends with status s.
Attempt(s, S) ==
  /\ st = "UPDATE"
  /\ ~update.local
  /\ NextTry(update).retries <= MaxRetries
  /\ trail' = MkTrail(pv_storage_rm_rev(trail, S, "none"))
  /\ LET u == SetStatus(NextTry(update), s)
         prog == StoreStatus(pv_storage_rm_rev(progress, S, "NONE"), trail', u, s)
     IN IF s = "DOWNLOADED"
        THEN /\ update' = u
             /\ progress' = prog
             /\ st' = "INSTALL"
             /\ UNCHANGED <<env, bl>>
        ELSE pv_update_finish(u, trail', prog, "WAIT")
  /\ UNCHANGED <<unclaimed, running, cmd, timerVars>>

Download ==
  \/ \E S \in MaybeGc(update), s \in {"DOWNLOADED", "RETRY_DOWNLOAD"} : Attempt(s, S)
  \/ Attempt("NO_DOWNLOAD", pv_storage_gc_run(update))  \* still no space

(***************************************************************************)
(* _pv_update: pv_update_install, up to the write of pv_try and after it   *)
(***************************************************************************)
InstallFailed ==
  /\ st = "INSTALL"
  /\ IoFaults \/ update.pending \in Broken
  /\ trail' = pv_storage_rm_rev(trail, {update.pending}, "none")
  /\ \E s \in {"FAILED", update.status} :  \* objects not linked, or later
       pv_update_finish(SetStatus(update, s), trail',
                        pv_storage_rm_rev(progress, {update.pending}, "NONE"), "WAIT")
  /\ UNCHANGED <<unclaimed, running, cmd, timerVars>>

Install ==
  /\ st = "INSTALL"
  /\ trail' = [trail EXCEPT ![update.pending] = "full"]
  /\ st' = "INSTALL_ENV"
  /\ UNCHANGED <<env, progress, unclaimed, memoryVars>>

\* A failed write is reported when the trail is gone already, so not stored.
pv_bootloader_set_try ==
  /\ st = "INSTALL_ENV"
  /\ bl' = [bl EXCEPT !.pv_try = update.pending]
  /\ \E w \in EnvWrites(env, set_env_key(env, "pv_try", update.pending)) :
       /\ env' = w.env
       /\ \/ /\ w.ok
             /\ st' = "INSTALLED"
             /\ update' = SetStatus(update, "INSTALLED")
             /\ progress' = StoreStatus(progress, trail, update, "INSTALLED")
             /\ UNCHANGED trail
          \/ /\ ~w.ok
             /\ st' = "WAIT"
             /\ update' = NoUpdate
             /\ Removed({update.pending})
  /\ UNCHANGED <<unclaimed, running, cmd, timerVars>>

\* pv_update_requires_reboot and the end of _pv_update.
Installed ==
  /\ st = "INSTALLED"
  /\ \E s \in {"REBOOT", "TRANSITION"} :
       /\ update' = SetStatus(update, s)
       /\ progress' = StoreStatus(progress, trail, update, s)
       /\ \/ s = "REBOOT" /\ st' = "REBOOT"
          \/ s = "TRANSITION" /\ st' = "RUN"
          \/ s = "TRANSITION" /\ IoFaults /\ st' = "ROLLBACK"  \* stop or unmount fails
  /\ UNCHANGED <<env, trail, unclaimed, bl, running, cmd, timerVars>>

(***************************************************************************)
(* _pv_rollback, _pv_error, _pv_reboot, _pv_poweroff                       *)
(***************************************************************************)
Rollback ==
  /\ st = "ROLLBACK"
  /\ \/ /\ running = Factory
        /\ st' = "ERROR"
        /\ UNCHANGED <<progress, update>>
     \/ /\ running # Factory
        /\ st' = "REBOOT"
        /\ IF update = NoUpdate
           THEN UNCHANGED <<progress, update>>
           ELSE /\ update' = SetStatus(update, "FAILED")
                /\ progress' = StoreStatus(progress, trail, update, "FAILED")
  /\ UNCHANGED <<env, trail, unclaimed, bl, running, cmd, timerVars>>

Error ==
  /\ st = "ERROR"
  /\ st' = "REBOOT"
  /\ UNCHANGED <<storageVars, memoryVars>>

Shutdown ==
  /\ st \in {"REBOOT", "POWEROFF"}
  /\ GoDown
  /\ UNCHANGED storageVars

Wait ==
  \/ PlatformExited \/ WaitLocal \/ WaitIdle \/ WaitUnclaimed \/ WaitNoAuth
  \/ WaitFactoryMeta \/ WaitNewUpdate \/ WaitNetwork

Finish == FinishFailed \/ CommitTry \/ CommitFlush \/ Committed

UpdateStep ==
  \/ DownloadLocal \/ DownloadNotNow \/ DownloadNoMoreRetries \/ Download
  \/ InstallFailed \/ Install \/ pv_bootloader_set_try \/ Installed

\* A turn of pv_start's loop, or a part of one.
Loop ==
  \/ PvInit \/ RunNoState \/ RunState
  \/ Wait \/ Finish \/ Ctrl \/ PutStep \/ FactoryUpload
  \/ Command \/ CommandMakeFactory \/ MakeFactory
  \/ UpdateStep
  \/ Rollback \/ Error \/ Shutdown

Next == Boot \/ Loop \/ CommitTimer \/ RollbackTimer \/ PowerLoss

Spec == Init /\ [][Next]_vars

(***************************************************************************)
(* Power losses do not go on for ever, the loop is not starved and timers  *)
(* run out.                                                                *)
(***************************************************************************)
LiveSpec ==
  /\ Spec
  /\ WF_vars(Boot)
  /\ WF_vars(Loop)
  /\ WF_vars(CommitTimer)
  /\ <>[][~PowerLoss]_vars

\* In remote mode, the cloud does not stay out of reach for ever either.
LiveRemoteSpec ==
  /\ LiveSpec
  /\ SF_vars(WaitNetwork)
  /\ SF_vars(FactoryUpload /\ st' = "WAIT")

-----------------------------------------------------------------------------
(***************************************************************************)
(* Every variable holds a value of its type; in particular a download is   *)
(* never attempted more often than updater.c's retry count allows.         *)
(***************************************************************************)
TypeOK ==
  /\ env \in Env
  /\ trail \in [Revs -> Trails]
  /\ progress \in [Revs -> Reports]
  /\ unclaimed \in BOOLEAN
  /\ st \in LoopStates
  /\ bl \in [pv_rev : RevOrNone, pv_try : RevOrNone, pv_done : RevOrNone]
  /\ running \in RevOrNone
  /\ update \in Update
  /\ cmd \in Cmd
  /\ commitFin \in BOOLEAN
  /\ rollbackFin \in BOOLEAN

(***************************************************************************)
(* The boot environment, seen through what the device runs, behaves like   *)
(* SafeUpdate: the rollback point moves only to a revision that was booted *)
(* on trial and runs, and pv_try is not touched while a trial is under way *)
(* (updater.c, bootloader.c), whatever write is reported as failed and     *)
(* wherever the power goes.                                                *)
(***************************************************************************)
Safe == INSTANCE SafeUpdate WITH
  safe <- RollbackPoint(env),
  candidate <- env["pv_try"],
  booted <- IF running = NoRev THEN NoRev ELSE bl.pv_rev,
  active <- running

Refinement == Safe!Spec

(***************************************************************************)
(* Once it is past _pv_run, and until it gives up, the device was booted   *)
(* into the rollback point unless the update is on trial: no sequence of   *)
(* commands, in-place updates, failures and commits (updater.c,            *)
(* bootloader.c) leaves it running from some third revision.               *)
(***************************************************************************)
GivingUp == {"ROLLBACK", "ERROR", "REBOOT", "POWEROFF"}

BootedIsRollbackPoint ==
  running # NoRev /\ st \notin GivingUp =>
    \/ update.status \in {"TRY", "TESTING_REBOOT"}
    \/ bl.pv_rev = RollbackPoint(env)

(***************************************************************************)
(* "DONE" is stored for a revision (updater.c: "Update finished, revision  *)
(* set as rollback point") only when the environment says so and the trial *)
(* is closed.  Revision "0" is also marked when it is synced to the cloud. *)
(***************************************************************************)
DoneIsRollbackPoint ==
  [][\A r \in Revs :
       progress'[r] = "DONE" /\ progress[r] # "DONE" =>
         \/ r = Factory /\ st = "WAIT"
         \/ env["pv_rev"] = r /\ env["pv_try"] = NoRev]_vars

(***************************************************************************)
(* The rollback point is complete on disk when it is set, and neither the  *)
(* collector nor an update of another revision takes it away: only a       *)
(* failed new install of that very revision, make-factory, or, as long as  *)
(* there is no pv_rev, a collector that does not keep "0" (storage.c).     *)
(***************************************************************************)
RollbackPointKept ==
  [][LET r == RollbackPoint(env)
         s == RollbackPoint(env')
     IN /\ s # r => trail'[s] = "full"
        /\ trail[r] = "full" /\ trail'[r] # "full" =>
             \/ update.pending = r /\ st \in {"INSTALL", "INSTALL_ENV"}
             \/ r = Factory /\ cmd.op = "MAKE_FACTORY"
             \/ env["pv_rev"] = NoRev /\ ~KeepFactory]_vars

(***************************************************************************)
(* "setting installed revision %s to be started after next reboot"         *)
(* (bootloader.c): when _pv_update reboots into an installed revision, the *)
(* boot loader picks it, also if the same revision failed a trial before   *)
(* and the note of that trial is still there.                              *)
(***************************************************************************)
InstalledIsTried ==
  st = "REBOOT" /\ update.status = "REBOOT" => BootRev(env) = update.rev

(***************************************************************************)
(* A revision that waits for its trial when the device goes down is in the *)
(* end committed, withdrawn or replaced, if the revision to fall back to   *)
(* works.                                                                  *)
(***************************************************************************)
StagedIsResolved ==
  <>[](RollbackPoint(env) \notin Broken) =>
    \A r \in Revs :
      (st = "OFF" /\ env["pv_try"] = r) ~> (env["pv_try"] # r)

-----------------------------------------------------------------------------
(***************************************************************************)
(* bootloader.c: "setting failed revision %s not to be started after next  *)
(* reboot": a revision marked as failed is not booted for trial.           *)
(***************************************************************************)
FailedIsNotTried ==
  [][\A r \in Revs :
       st = "OFF" /\ FirstTry(env) /\ env["pv_try"] = r => progress[r] # "ERROR"]_vars
==============================================================================

------------------------------- MODULE Objects -------------------------------
(***************************************************************************)
(* The files a revision is made of: the pool of objects, the trail of each *)
(* revision, which shares the objects of the pool through hard links, its  *)
(* state json and the jsons expanded from it.  They are written by the     *)
(* download of a step of the cloud and by uploads on the control socket,   *)
(* put together by the install (updater.c), reclaimed by the garbage       *)
(* collector (storage.c) and validated at every start of a revision        *)
(* (state.c).  An object is a model value, its name in the pool its        *)
(* checksum; what a file holds is right ("good") or not ("bad", "torn").   *)
(* Free space is shared with the data and the logs of the containers, so   *)
(* what statfs answers is left open.  States that do not parse or are not  *)
(* signed, and updates without a reboot, are those of module Pantavisor.   *)
(***************************************************************************)
EXTENDS Integers, FiniteSets

CONSTANTS
  Revs,        \* revisions
  Factory,     \* the revision the device comes with
  LocalRevs,   \* revisions uploaded on the control socket
  Atoi,        \* the number atoi makes of a revision
  Objs,        \* objects
  ObjsOf,      \* the objects of a revision
  BindObjs,    \* objects with a name that ends in .bind
  JsonsOf,     \* the number of jsons in a revision
  KeepFactory, \* storage.gc.keep_factory
  Together,    \* the sets of kinds of fault that may occur in one run
  Repeats,     \* the kinds that may occur any number of times
  None         \* no revision

(* Power is lost, a download fails, a report does not arrive, the storage   *)
(* is full, clients PUT an object or a step that is there already.         *)
FaultKinds == {"power", "net", "report", "disk", "object", "step"}

ASSUME ObjectsAssumption ==
  /\ Factory \in Revs \ LocalRevs
  /\ LocalRevs \subseteq Revs
  /\ None \notin Revs
  /\ Atoi \in [Revs -> Nat]
  /\ ObjsOf \in [Revs -> SUBSET Objs]
  /\ BindObjs \subseteq Objs
  /\ JsonsOf \in [Revs -> Nat]
  /\ KeepFactory \in BOOLEAN
  /\ Together \subseteq SUBSET FaultKinds
  /\ Repeats \subseteq FaultKinds

VARIABLES
  (* the storage *)
  pool,     \* objects/<id>
  links,    \* the trails that hold a link to that very file
  dltmp,    \* objects with a left over objects/<id>.tmp
  uptmp,    \* objects with a left over objects/<id>.new
  obj,      \* trails/<rev>/<name> of each object
  js,       \* trails/<rev>/<name>.json, in the order of the state json
  state,    \* trails/<rev>/.pvr/json
  (* the boot environment *)
  try, trying, done,
  (* the process *)
  mode,     \* what the main loop does
  running,  \* pv->state
  pending,  \* pv->update->pending
  status,   \* of pv->update
  left,     \* the objects the loop at hand has left
  next,     \* the next json to be expanded
  loading,  \* pv->loading_objects
  (* its environment *)
  cloud,    \* the status of each step
  faults    \* the kinds of fault there were

storage == <<pool, links, dltmp, uptmp, obj, js, state>>
bootenv == <<try, trying, done>>
process == <<mode, running, pending, status, left, next, loading>>
vars == <<storage, bootenv, process, cloud, faults>>

Modes == {"off", "wait", "download", "fetch", "link", "state", "expand",
          "failed", "finish", "installed", "reboot", "committed"}
Steps == {"none", "NEW", "QUEUED", "DOWNLOADING", "INPROGRESS", "TESTING",
          "DONE", "FAILED", "WONTGO"}
Over == {"DONE", "FAILED", "WONTGO"}

(* The types of all variables. *)
TypeOK ==
  /\ pool \in [Objs -> {"none", "good", "bad"}]
  /\ links \in [Objs -> SUBSET Revs]
  /\ dltmp \subseteq Objs /\ uptmp \subseteq Objs
  /\ obj \in [Revs -> [Objs -> {"none", "good", "bad"}]]
  /\ \A r \in Revs : js[r] \in [1..JsonsOf[r] -> {"none", "good", "torn"}]
  /\ state \in [Revs -> {"none", "good", "torn"}]
  /\ try \in Revs \cup {None} /\ trying \in BOOLEAN /\ done \in Revs
  /\ mode \in Modes
  /\ running \in Revs \cup {None} /\ pending \in Revs \cup {None}
  /\ status \in {"none", "queued", "retry", "try", "testing", "failed"}
  /\ left \subseteq Objs
  /\ next >= 1 /\ \E r \in Revs : next <= JsonsOf[r] + 1
  /\ loading \in BOOLEAN
  /\ cloud \in [Revs -> Steps]
  /\ faults \subseteq FaultKinds

Fault(f) ==
  /\ f \in Repeats \/ f \notin faults
  /\ faults' = faults \cup {f}
  /\ \E kinds \in Together : faults' \subseteq kinds

(* pv_storage_validate_file_checksum, on the file of the trail and on the  *)
(* one of the pool                                                         *)
ObjectValid(r, o) == obj[r][o] = "good" /\ pool[o] = "good"

(* pv_storage_validate_trails_json_value *)
JsonValid(r, i) == js[r][i] = "good"

(* pv_state_validate_checksum, and the state json that must load first *)
Valid(r) ==
  /\ state[r] = "good"
  /\ \A o \in ObjsOf[r] : ObjectValid(r, o)
  /\ \A i \in 1..JsonsOf[r] : JsonValid(r, i)

(***************************************************************************)
(* A flashed device: the trail of the factory revision, linked to the pool.*)
(***************************************************************************)
Init ==
  /\ pool = [o \in Objs |-> IF o \in ObjsOf[Factory] THEN "good" ELSE "none"]
  /\ links = [o \in Objs |->
                IF o \in ObjsOf[Factory] \ BindObjs THEN {Factory} ELSE {}]
  /\ dltmp = {} /\ uptmp = {}
  /\ obj = [r \in Revs |-> [o \in Objs |->
              IF r = Factory /\ o \in ObjsOf[r] THEN "good" ELSE "none"]]
  /\ js = [r \in Revs |-> [i \in 1..JsonsOf[r] |->
              IF r = Factory THEN "good" ELSE "none"]]
  /\ state = [r \in Revs |-> IF r = Factory THEN "good" ELSE "none"]
  /\ try = None /\ trying = FALSE /\ done = Factory
  /\ mode = "off" /\ running = None /\ pending = None /\ status = "none"
  /\ left = {} /\ next = 1 /\ loading = FALSE
  /\ cloud = [r \in Revs |-> IF r = Factory THEN "DONE" ELSE "none"]
  /\ faults = {}

-----------------------------------------------------------------------------
(***************************************************************************)
(* Garbage collection.                                                     *)
(***************************************************************************)

(* pv_storage_rm_rev for each revision of a set *)
RmRevs(S) ==
  /\ obj' = [r \in Revs |-> IF r \in S THEN [o \in Objs |-> "none"] ELSE obj[r]]
  /\ js' = [r \in Revs |->
              IF r \in S THEN [i \in 1..JsonsOf[r] |-> "none"] ELSE js[r]]
  /\ state' = [r \in Revs |-> IF r \in S THEN "none" ELSE state[r]]

(* what of the revisions on disk pv_storage_gc_run does not reclaim *)
Kept(S) ==
  S \cap ({running, pending, done} \cup (IF KeepFactory THEN {Factory} ELSE {}))

(* Mutant: objects with a link are reclaimed as well. *)
GcAnyObject(l) ==
  [o \in Objs |-> IF pending # None /\ o \in ObjsOf[pending]
                    THEN pool[o] ELSE "none"]

(* pv_storage_gc_objects: the pool once the trails of l hold the links *)
pv_storage_gc_objects(l) ==
  [o \in Objs |->
     IF l[o] # {} \/ (pending # None /\ o \in ObjsOf[pending])
       THEN pool[o] ELSE "none"]

pv_storage_gc_run ==
  LET gone == Revs \ Kept(Revs)
      l == [o \in Objs |-> links[o] \ gone]
  IN  /\ RmRevs(gone)
      /\ links' = l
      /\ pool' = pv_storage_gc_objects(l)
      /\ dltmp' = {} /\ uptmp' = {}

(* pv_storage_gc_run_threshold, when free space is below the threshold *)
GcThreshold ==
  /\ mode = "wait" /\ ~loading
  /\ pv_storage_gc_run
  /\ UNCHANGED <<bootenv, process, cloud, faults>>

(* the command RUN_GC *)
GcCommand ==
  /\ mode = "wait"
  /\ pv_storage_gc_run
  /\ UNCHANGED <<bootenv, process, cloud, faults>>

(* the timer of pv_storage_gc_defer_run_threshold has run out *)
GcEnabledAgain ==
  /\ mode = "wait" /\ loading
  /\ loading' = FALSE
  /\ UNCHANGED <<storage, bootenv, mode, running, pending, status, left, next,
                 cloud, faults>>

-----------------------------------------------------------------------------
(***************************************************************************)
(* Uploads on the control socket.                                          *)
(***************************************************************************)

(* PUT /objects/<id>: the file of an interrupted upload fails this one and *)
(* is removed; an object with another checksum, or one that is cut short,  *)
(* leaves nothing behind; one that is there is renamed over                *)
CtrlPutObject(o) ==
  /\ mode = "wait"
  /\ IF pool[o] = "none" THEN UNCHANGED faults ELSE Fault("object")
  /\ IF o \in uptmp
       THEN uptmp' = uptmp \ {o} /\ UNCHANGED <<pool, links, loading>>
       ELSE /\ pool' = [pool EXCEPT ![o] = "good"]
            /\ links' = [links EXCEPT ![o] = {}]
            /\ loading' = TRUE
            /\ UNCHANGED uptmp
  /\ UNCHANGED <<dltmp, obj, js, state, bootenv, mode, running, pending,
                 status, left, next, cloud>>

(* pv_ctrl_process_put_file, onto a file that exists: the errno that is    *)
(* compared has been through the log and the answer                        *)
PutExisting(file) == {file, "none"}

(* PUT /steps/<rev>: on full storage a write that falls short goes         *)
(* unnoticed                                                               *)
CtrlPutStep(r) ==
  /\ mode = "wait"
  /\ r \in LocalRevs
  /\ \E file \in {"good", "torn", "none"} :
       /\ \/ state[r] = "none" /\ file = "good" /\ UNCHANGED faults
          \/ state[r] = "none" /\ file = "torn" /\ Fault("disk")
          \/ state[r] # "none" /\ file \in PutExisting(state[r]) /\ Fault("step")
       /\ state' = [state EXCEPT ![r] = file]
  /\ UNCHANGED <<pool, links, dltmp, uptmp, obj, js, bootenv, process, cloud>>

(* the command LOCAL_RUN: pv_update_get_step_local *)
CtrlLocalRun(r) ==
  /\ mode = "wait" /\ status = "none"
  /\ r \in LocalRevs /\ state[r] = "good"
  /\ pending' = r /\ status' = "queued" /\ mode' = "download"
  /\ UNCHANGED <<storage, bootenv, running, left, next, loading, cloud, faults>>

-----------------------------------------------------------------------------
(***************************************************************************)
(* Steps of the cloud.                                                     *)
(***************************************************************************)

CloudPublish(r) ==
  /\ cloud[r] = "none" /\ r \notin LocalRevs
  /\ cloud' = [cloud EXCEPT ![r] = "NEW"]
  /\ UNCHANGED <<storage, bootenv, process, faults>>

(* trail_remote_set_status, sent once, whether it arrives or not *)
trail_remote_set_status(r, st) ==
  \/ /\ cloud' = IF r \in LocalRevs THEN cloud ELSE [cloud EXCEPT ![r] = st]
     /\ UNCHANGED faults
  \/ r \notin LocalRevs /\ Fault("report") /\ UNCHANGED cloud

WithStatus(st) == {r \in Revs : cloud[r] = st}

(* Mutant: steps in progress are passed over. *)
FoundNotInProgress ==
  LET order == <<"DOWNLOADING", "QUEUED", "NEW">>
      i == CHOOSE j \in 1..4 :
             /\ j = 4 \/ WithStatus(order[j]) # {}
             /\ \A k \in 1..(j - 1) : WithStatus(order[k]) = {}
  IN  IF i = 4 THEN {} ELSE WithStatus(order[i])

(* the steps trail_get_new_steps finds, by the first status that has any *)
Found ==
  LET order == <<"INPROGRESS", "DOWNLOADING", "QUEUED", "NEW">>
      i == CHOOSE j \in 1..5 :
             /\ j = 5 \/ WithStatus(order[j]) # {}
             /\ \A k \in 1..(j - 1) : WithStatus(order[k]) = {}
  IN  IF i = 5 THEN {} ELSE WithStatus(order[i])

(* trail_get_new_steps, no update going on *)
TakeStep(r) ==
  /\ mode = "wait" /\ status = "none" /\ running \notin LocalRevs
  /\ r \in Found
  /\ IF cloud[r] = "INPROGRESS" \/ Atoi[r] < Atoi[running]
       THEN /\ trail_remote_set_status(r, "FAILED")
            /\ UNCHANGED process
       ELSE /\ trail_remote_set_status(r, "QUEUED")
            /\ pending' = r /\ status' = "queued" /\ mode' = "download"
            /\ UNCHANGED <<running, left, next, loading>>
  /\ UNCHANGED <<storage, bootenv>>

(* trail_get_new_steps while an update is going on: only new steps, which  *)
(* are queued or found stale                                               *)
QueueStep(r) ==
  /\ mode = "wait" /\ status \in {"try", "testing"} /\ running \notin LocalRevs
  /\ cloud[r] = "NEW"
  /\ trail_remote_set_status(r, IF Atoi[r] < Atoi[running] THEN "FAILED"
                                                           ELSE "QUEUED")
  /\ UNCHANGED <<storage, bootenv, process>>

-----------------------------------------------------------------------------
(***************************************************************************)
(* Download.                                                               *)
(***************************************************************************)

(* the download is to be tried again; the network that failed it may have  *)
(* failed the report too                                                   *)
RetryDownload ==
  /\ Fault("net")
  /\ cloud' \in {cloud, [cloud EXCEPT ![pending] = "QUEUED"]}
  /\ status' = "retry" /\ mode' = "wait" /\ left' = {}
  /\ UNCHANGED <<bootenv, running, pending, next, loading>>

(* pv_update_finish after NO_DOWNLOAD *)
NoDownload ==
  /\ trail_remote_set_status(pending, "WONTGO")
  /\ status' = "none" /\ mode' = "wait" /\ pending' = None /\ left' = {}
  /\ UNCHANGED <<bootenv, running, next, loading>>

(* pv_updater_check_for_updates while the download is to be tried again *)
Retry ==
  /\ mode = "wait" /\ status = "retry"
  /\ mode' = "download"
  /\ UNCHANGED <<storage, bootenv, running, pending, status, left, next, loading,
                 cloud, faults>>

(* pv_update_check_download_retry: the retries have run out *)
GiveUp == mode = "wait" /\ status = "retry" /\ NoDownload /\ UNCHANGED storage

(* get_update_size, in objects: those missing in the pool *)
get_update_size == Cardinality({o \in ObjsOf[pending] : pool[o] = "none"})

(* pv_storage_gc_run_needed, with less space than is needed *)
GcNeeded == get_update_size > 0 /\ pv_storage_gc_run

(* trail_download_objects up to the first object: the space is there, is   *)
(* there after a garbage collection, or is not                             *)
BeginDownload ==
  /\ mode = "download" /\ pending \notin LocalRevs
  /\ \/ UNCHANGED storage
     \/ GcNeeded
  /\ trail_remote_set_status(pending, "DOWNLOADING")
  /\ mode' = "fetch" /\ left' = ObjsOf[pending]
  /\ UNCHANGED <<bootenv, running, pending, status, next, loading>>

NotEnoughSpace ==
  /\ mode = "download" /\ pending \notin LocalRevs
  /\ GcNeeded
  /\ NoDownload

(* trail_download_get_meta or the authentication fails *)
NoMeta ==
  /\ mode = "download" /\ pending \notin LocalRevs
  /\ RetryDownload
  /\ UNCHANGED storage

(* a local update has nothing to download *)
BeginLocal ==
  /\ mode = "download" /\ pending \in LocalRevs
  /\ mode' = "link" /\ left' = ObjsOf[pending]
  /\ UNCHANGED <<storage, bootenv, running, pending, status, next, loading, cloud,
                 faults>>

(* trail_download_object: an object that exists is not looked at, a new    *)
(* one is renamed into the pool once its checksum is right                 *)
trail_download_object(o) ==
  /\ mode = "fetch" /\ o \in left
  /\ IF pool[o] # "none"
       THEN UNCHANGED <<pool, links, dltmp>>
       ELSE /\ pool' = [pool EXCEPT ![o] = "good"]
            /\ links' = [links EXCEPT ![o] = {}]
            /\ dltmp' = dltmp \ {o}
  /\ left' = left \ {o}
  /\ UNCHANGED <<uptmp, obj, js, state, bootenv, mode, running, pending,
                 status, next, loading, cloud, faults>>

(* no answer, an error or, as on full storage, another checksum: the       *)
(* temporary file is removed                                               *)
ObjectFails(o) ==
  /\ mode = "fetch" /\ o \in left /\ pool[o] = "none"
  /\ dltmp' = dltmp \ {o}
  /\ RetryDownload
  /\ UNCHANGED <<pool, links, uptmp, obj, js, state>>

Downloaded ==
  /\ mode = "fetch" /\ left = {}
  /\ trail_remote_set_status(pending, "INPROGRESS")
  /\ mode' = "link" /\ left' = ObjsOf[pending]
  /\ UNCHANGED <<storage, bootenv, running, pending, status, next, loading>>

-----------------------------------------------------------------------------
(***************************************************************************)
(* Install.                                                                *)
(***************************************************************************)

(* link(2) of an object into the trail, EEXIST being no error *)
LinkObject(o) ==
  /\ o \notin BindObjs /\ pool[o] # "none"
  /\ IF obj[pending][o] # "none"
       THEN UNCHANGED <<obj, links>>
       ELSE /\ obj' = [obj EXCEPT ![pending][o] = pool[o]]
            /\ links' = [links EXCEPT ![o] = @ \cup {pending}]

(* the copy of a bind volume; if the pool lacks it the file is only made   *)
CopyObject(o) ==
  /\ o \in BindObjs
  /\ obj' = [obj EXCEPT ![pending][o] =
               CASE pool[o] # "none" -> pool[o]
                 [] pool[o] = "none" /\ @ # "none" -> @
                 [] OTHER -> "bad"]
  /\ UNCHANGED links

(* the same on full storage: the result of the copy is not looked at *)
CopyCutShort(o) ==
  /\ o \in BindObjs
  /\ obj' = [obj EXCEPT ![pending][o] = "bad"]
  /\ Fault("disk")
  /\ UNCHANGED links

trail_link_objects(o) ==
  /\ mode = "link" /\ o \in left
  /\ \/ (LinkObject(o) \/ CopyObject(o)) /\ UNCHANGED faults
     \/ CopyCutShort(o)
  /\ left' = left \ {o}
  /\ UNCHANGED <<pool, dltmp, uptmp, js, state, bootenv, mode, running, pending,
                 status, next, loading, cloud>>

(* link(2) fails, for want of the object or of space, which the links of   *)
(* the boot files need too                                                 *)
LinkFails ==
  /\ mode = "link"
  /\ \/ (\E o \in left \ BindObjs : pool[o] = "none") /\ UNCHANGED faults
     \/ Fault("disk")
  /\ mode' = "failed" /\ status' = "failed" /\ left' = {}
  /\ UNCHANGED <<storage, bootenv, running, pending, next, loading, cloud>>

Linked ==
  /\ mode = "link" /\ left = {}
  /\ mode' = "state"
  /\ UNCHANGED <<storage, bootenv, running, pending, status, left, next, loading,
                 cloud, faults>>

(* .pvr/json.new is written and renamed, with no look at either result *)
WriteState ==
  /\ mode = "state"
  /\ \/ state' = [state EXCEPT ![pending] = "good"] /\ UNCHANGED faults
     \/ state' \in {state, [state EXCEPT ![pending] = "torn"]} /\ Fault("disk")
  /\ mode' = "expand" /\ next' = 1
  /\ UNCHANGED <<pool, links, dltmp, uptmp, obj, js, bootenv, running, pending,
                 status, left, loading, cloud>>

(* Mutant: the last json is left out. *)
ExpandAllButLast ==
  /\ mode = "expand" /\ next <= JsonsOf[pending]
  /\ js' = IF next = JsonsOf[pending] THEN js
             ELSE [js EXCEPT ![pending][next] = "good"]
  /\ next' = next + 1
  /\ UNCHANGED <<pool, links, dltmp, uptmp, obj, state, bootenv, mode, running,
                 pending, status, left, loading, cloud, faults>>

(* pv_storage_meta_expand_jsons: a json that exists, or cannot be made,    *)
(* ends the loop, and the result of the parser, which is not zero, is      *)
(* returned; one that is cut short is not noticed                          *)
pv_storage_meta_expand_jsons ==
  /\ mode = "expand" /\ next <= JsonsOf[pending]
  /\ \/ /\ js[pending][next] # "none"
        /\ next' = JsonsOf[pending] + 1 /\ UNCHANGED <<js, faults>>
     \/ /\ js[pending][next] = "none"
        /\ js' = [js EXCEPT ![pending][next] = "good"]
        /\ next' = next + 1 /\ UNCHANGED faults
     \/ /\ js[pending][next] = "none" /\ Fault("disk")
        /\ \/ js' = [js EXCEPT ![pending][next] = "torn"] /\ next' = next + 1
           \/ UNCHANGED js /\ next' = JsonsOf[pending] + 1
  /\ UNCHANGED <<pool, links, dltmp, uptmp, obj, state, bootenv, mode, running,
                 pending, status, left, loading, cloud>>

(* json.new cannot be opened, the jsons are not expanded or pv_try cannot  *)
(* be written: the status of the update stays as it was                    *)
InstallFails ==
  /\ mode \in {"state", "expand"} /\ Fault("disk")
  /\ mode' = "failed" /\ next' = 1
  /\ UNCHANGED <<storage, bootenv, running, pending, status, left, loading, cloud>>

(* the way out of pv_update_install, links that failed being reported first *)
RemoveFailed ==
  /\ mode = "failed"
  /\ IF status = "failed" THEN trail_remote_set_status(pending, "FAILED")
                          ELSE UNCHANGED <<cloud, faults>>
  /\ RmRevs({pending})
  /\ links' = [o \in Objs |-> links[o] \ {pending}]
  /\ mode' = "finish"
  /\ UNCHANGED <<pool, dltmp, uptmp, bootenv, running, pending, status, left, next,
                 loading>>

(* pv_update_finish: an update that failed otherwise is reported as it was *)
FinishFailed ==
  /\ mode = "finish"
  /\ IF status = "failed"
       THEN try' = None /\ trying' = FALSE /\ trail_remote_set_status(pending, "FAILED")
       ELSE UNCHANGED <<try, trying>> /\ trail_remote_set_status(pending, "INPROGRESS")
  /\ status' = "none" /\ mode' = "wait" /\ pending' = None
  /\ UNCHANGED <<storage, done, running, left, next, loading>>

(* "update successfully installed": pv_try is set and reported *)
SetInstalled ==
  /\ mode = "expand" /\ next = JsonsOf[pending] + 1
  /\ try' = pending /\ trying' = FALSE
  /\ mode' = "installed"
  /\ UNCHANGED <<storage, done, running, pending, status, left, next, loading, cloud,
                 faults>>

ReportInstalled ==
  /\ mode = "installed"
  /\ trail_remote_set_status(pending, "INPROGRESS")
  /\ mode' = "reboot"
  /\ UNCHANGED <<storage, bootenv, running, pending, status, left, next, loading>>

-----------------------------------------------------------------------------
(***************************************************************************)
(* Starts, tests and commits.                                              *)
(***************************************************************************)

PowerOff ==
  /\ mode' = "off" /\ running' = None /\ pending' = None /\ status' = "none"
  /\ left' = {} /\ next' = 1 /\ loading' = FALSE

Reboot ==
  /\ mode = "reboot"
  /\ PowerOff
  /\ UNCHANGED <<storage, bootenv, cloud, faults>>

(* the boot loader tries the installed revision once, _pv_run validates    *)
(* the revision; otherwise it rolls back, which is to boot again           *)
Start(r) ==
  IF Valid(r)
    THEN /\ mode' = "wait" /\ running' = r /\ left' = {} /\ next' = 1 /\ loading' = FALSE
         /\ pending' = IF r = try THEN r ELSE None
         /\ status' = IF r = try THEN "try" ELSE "none"
    ELSE PowerOff

Boot ==
  /\ mode = "off"
  /\ \/ /\ try # None /\ ~trying
        /\ trying' = TRUE
        /\ Start(try)
        /\ UNCHANGED <<try, cloud, faults>>
     \/ /\ try = None
        /\ Start(done)
        /\ UNCHANGED <<try, trying, cloud, faults>>
     \/ /\ try # None /\ trying
        /\ try' = None /\ trying' = FALSE
        /\ IF Valid(done) THEN trail_remote_set_status(try, "FAILED")
                          ELSE UNCHANGED <<cloud, faults>>
        /\ mode' = (IF Valid(done) THEN "wait" ELSE "off")
        /\ running' = (IF Valid(done) THEN done ELSE None)
        /\ pending' = None /\ status' = "none" /\ left' = {} /\ next' = 1
        /\ loading' = FALSE
  /\ UNCHANGED <<storage, done>>

(* Mutant: the test is reported as its end. *)
TestReportsDone ==
  /\ mode = "wait" /\ status = "try"
  /\ trail_remote_set_status(pending, "DONE")
  /\ status' = "testing"
  /\ UNCHANGED <<storage, bootenv, mode, running, pending, left, next, loading>>

(* pv_update_test: the platforms have reached their goals *)
Test ==
  /\ mode = "wait" /\ status = "try"
  /\ trail_remote_set_status(pending, "TESTING")
  /\ status' = "testing"
  /\ UNCHANGED <<storage, bootenv, mode, running, pending, left, next, loading>>

(* a platform exits or misses its goal: PV_STATE_ROLLBACK *)
TestFails ==
  /\ mode = "wait" /\ status \in {"try", "testing"}
  /\ PowerOff
  /\ UNCHANGED <<storage, bootenv, cloud, faults>>

(* pv_bootloader_set_commited *)
Commit ==
  /\ mode = "wait" /\ status = "testing"
  /\ done' = running /\ try' = None /\ trying' = FALSE
  /\ mode' = "committed"
  /\ UNCHANGED <<storage, running, pending, status, left, next, loading, cloud, faults>>

ReportDone ==
  /\ mode = "committed"
  /\ trail_remote_set_status(pending, "DONE")
  /\ mode' = "wait" /\ pending' = None /\ status' = "none"
  /\ UNCHANGED <<storage, bootenv, running, left, next, loading>>

(* Power is lost: the file at hand is left as far as it got.  Files are    *)
(* written synchronously or synced before they are renamed.                *)
PowerLoss ==
  /\ mode # "off" /\ Fault("power")
  /\ PowerOff
  /\ dltmp' \in (IF mode = "fetch" THEN {dltmp \cup S : S \in SUBSET left}
                                   ELSE {dltmp})
  /\ uptmp' \in (IF mode = "wait"
                   THEN {uptmp \cup {o} :
                           o \in {p \in Objs : pool[p] = "none" \/ "object" \in faults}}
                          \cup {uptmp}
                   ELSE {uptmp})
  /\ state' \in (IF mode = "wait"
                   THEN {[state EXCEPT ![r] = "torn"] :
                           r \in {s \in LocalRevs : state[s] = "none"}}
                          \cup {state}
                   ELSE {state})
  /\ uptmp' = uptmp \/ state' = state
  /\ js' \in {js} \cup
       (IF mode = "expand" /\ next <= JsonsOf[pending] /\ js[pending][next] = "none"
          THEN {[js EXCEPT ![pending][next] = "torn"]} ELSE {})
  /\ obj' \in {obj} \cup
       (IF mode = "link"
          THEN {[obj EXCEPT ![pending][o] = "bad"] : o \in left \cap BindObjs}
          ELSE {})
  /\ UNCHANGED <<pool, links, bootenv, cloud>>

-----------------------------------------------------------------------------
Device ==
  \/ Boot \/ Test \/ Commit \/ ReportDone \/ Reboot
  \/ (\E r \in Revs : TakeStep(r) \/ QueueStep(r))
  \/ Retry \/ BeginDownload \/ BeginLocal \/ Downloaded
  \/ (\E o \in Objs : trail_download_object(o) \/ trail_link_objects(o))
  \/ Linked \/ WriteState \/ pv_storage_meta_expand_jsons \/ SetInstalled
  \/ ReportInstalled
  \/ LinkFails \/ InstallFails \/ RemoveFailed \/ FinishFailed

Clients ==
  \/ \E o \in Objs : CtrlPutObject(o)
  \/ \E r \in Revs : CtrlPutStep(r) \/ CtrlLocalRun(r) \/ CloudPublish(r)
  \/ GcCommand

Next ==
  \/ Device \/ Clients
  \/ GcThreshold \/ GcEnabledAgain
  \/ GiveUp \/ NotEnoughSpace \/ NoMeta \/ (\E o \in Objs : ObjectFails(o))
  \/ TestFails \/ PowerLoss

(* The main loop runs and, though clients may run the same revision again  *)
(* and again, now and then finds no command and asks the cloud for steps;  *)
(* what clients, the cloud and space do is open.                           *)
Fairness == WF_vars(Device) /\ SF_vars(\E r \in Revs : TakeStep(r))

Spec == Init /\ [][Next]_vars
FairSpec == Spec /\ Fairness

-----------------------------------------------------------------------------
(* the validation of the next start, but for bind objects: the trail has a *)
(* copy of its own, which a power loss leaves cut short when a local       *)
(* revision is run again, and without a link the pool's copy is reclaimed, *)
(* as is that of an object that was PUT once more                          *)
Intact(r) ==
  /\ state[r] = "good"
  /\ \A o \in ObjsOf[r] \ BindObjs :
       obj[r][o] = "good" /\ ("object" \notin faults => pool[o] = "good")
  /\ \A i \in 1..JsonsOf[r] : JsonValid(r, i)

(* a revision that is installed once more, over itself, on full storage or *)
(* without its objects, which removes it, or a step that was PUT again; a  *)
(* step of the cloud comes once more only after all reports of a first     *)
(* time were lost                                                          *)
Overwritten(r) ==
  \/ r \in LocalRevs /\ faults \cap {"disk", "object", "step"} # {}
  \/ "report" \in faults /\ r # Factory /\ faults \cap {"disk", "object"} # {}

(* Whatever is uploaded, downloaded, installed and reclaimed, wherever     *)
(* power is lost and whatever fails for want of space, the running         *)
(* revision and the one the device falls back to pass the validation of    *)
(* their next start (pv_state_validate_checksum): every json is right,     *)
(* every object that is not bound is right in the trail and in the pool.   *)
(* The pool loses an object that is PUT though it is there, and an install *)
(* of the revision itself may overwrite it.                                *)
StaysBootable == \A r \in {running, done} \ {None} : Intact(r) \/ Overwritten(r)

(* If no report is lost and the storage is not full, a revision of the     *)
(* cloud that pv_update_install reports as "successfully installed", so    *)
(* that pv_try names it, is complete and passes its validation, whatever   *)
(* clients PUT.  A revision that is installed again after a power loss, a  *)
(* local one or one the cloud has not heard of, keeps a json that was cut  *)
(* short; on full storage a state or a json that falls short is installed. *)
InstalledIsComplete ==
  try # None /\ try \notin LocalRevs /\ faults \cap {"report", "disk"} = {} => Valid(try)

(* If no report is lost, a step the cloud has as FAILED is not the one the *)
(* device falls back to, and a step it has as DONE was committed, or a     *)
(* later one has taken its place (trail_remote_set_status).                *)
CloudKnows ==
  \A r \in Revs \ {Factory} :
    /\ cloud[r] = "FAILED" /\ "report" \notin faults => done # r
    /\ cloud[r] = "DONE" => Atoi[r] <= Atoi[done] \/ done \in LocalRevs

(* A published step does not stay where the device looks for work: it ends *)
(* in the cloud or is under test, whatever is lost on the way a bounded    *)
(* number of times (trail_get_new_steps, pv_update_finish), unless the     *)
(* device runs a local revision or can boot no more, as for want of the    *)
(* pool's copy of a bind object.                                           *)
StepIsDealtWith ==
  \A r \in Revs \ (LocalRevs \cup {Factory}) :
    cloud[r] = "NEW" ~> \/ cloud[r] \in Over \cup {"TESTING"}
                        \/ running \in LocalRevs
                        \/ ~Valid(done)
=============================================================================

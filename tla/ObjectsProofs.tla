---------------------------- MODULE ObjectsProofs ----------------------------
(***************************************************************************)
(* Theorems about Objects, for any revisions and objects, and for any      *)
(* kinds of fault, together and repeated.                                  *)
(***************************************************************************)
EXTENDS Objects, TLAPS

-----------------------------------------------------------------------------
(***************************************************************************)
(* The inductive invariant.  A trail has an object that is not bound only  *)
(* as a link to the file in the pool, unless that was replaced by an       *)
(* upload, and a file that is linked is not taken from the pool; so what   *)
(* is right in a trail is right in the pool.                               *)
(***************************************************************************)
LinksInv ==
  \A o \in Objs \ BindObjs :
    /\ links[o] # {} => pool[o] = "good"
    /\ \A r \in Revs : obj[r][o] # "none" =>
         obj[r][o] = "good" /\ ("object" \notin faults => r \in links[o])

StorageInv ==
  /\ pool \in [Objs -> {"none", "good"}]
  /\ links \in [Objs -> SUBSET Revs]
  /\ dltmp \subseteq Objs /\ uptmp \subseteq Objs
  /\ obj \in [Revs -> [Objs -> {"none", "good", "bad"}]]
  /\ DOMAIN js = Revs
  /\ \A r \in Revs : js[r] \in [1..JsonsOf[r] -> {"none", "good", "torn"}]
  /\ state \in [Revs -> {"none", "good", "torn"}]
  /\ LinksInv

\* Which revision the loop works on, and how far it has come.
WorkInv ==
  /\ mode # "off" => running \in Revs
  /\ mode \notin {"off", "wait"} \/ status # "none" => pending \in Revs
  /\ mode \in {"fetch", "link"} => left \subseteq ObjsOf[pending]
  /\ mode = "expand" => next <= JsonsOf[pending] + 1

\* Why an install fails.
FailedInv ==
  mode = "failed" => \/ "disk" \in faults
                     \/ \E o \in ObjsOf[pending] \ BindObjs : pool[o] = "none"

NextInv == next \in Nat /\ next >= 1 /\ \E r \in Revs : next <= JsonsOf[r] + 1

ProcessInv ==
  /\ try \in Revs \cup {None} /\ trying \in BOOLEAN /\ done \in Revs
  /\ mode \in Modes
  /\ running \in Revs \cup {None} /\ pending \in Revs \cup {None}
  /\ status \in {"none", "queued", "retry", "try", "testing", "failed"}
  /\ left \subseteq Objs
  /\ NextInv
  /\ loading \in BOOLEAN
  /\ cloud \in [Revs -> Steps]
  /\ faults \subseteq FaultKinds
  /\ WorkInv

IInv == StorageInv /\ ProcessInv /\ FailedInv

(***************************************************************************)
(* Faults only add up.                                                     *)
(***************************************************************************)
LEMMA FaultKnown ==
  ASSUME faults \subseteq FaultKinds, NEW f, Fault(f)
  PROVE  faults' \subseteq FaultKinds /\ faults \subseteq faults' /\ f \in faults'
BY ObjectsAssumption DEF Fault

LEMMA FaultsStay == [Next]_vars => faults \subseteq faults'
<1> SUFFICES ASSUME [Next]_vars
             PROVE  faults \subseteq faults'
  OBVIOUS
<1> USE DEF trail_remote_set_status, Fault
<1>1. CASE \/ Boot \/ Test \/ Commit \/ ReportDone \/ Reboot \/ TestFails \/ PowerLoss
  BY <1>1 DEF Boot, Test, Commit, ReportDone, Reboot, TestFails, PowerLoss
<1>2. CASE \/ \E s \in Revs : TakeStep(s) \/ QueueStep(s) \/ CtrlLocalRun(s) \/ CloudPublish(s)
                               \/ CtrlPutStep(s)
           \/ \E o \in Objs : CtrlPutObject(o)
           \/ GcCommand \/ GcThreshold \/ GcEnabledAgain \/ UNCHANGED vars
  BY <1>2 DEF TakeStep, QueueStep, CtrlLocalRun, CloudPublish, CtrlPutStep, CtrlPutObject,
       GcCommand, GcThreshold, GcEnabledAgain, vars
<1>3. CASE \/ Retry \/ GiveUp \/ BeginDownload \/ NotEnoughSpace \/ NoMeta \/ BeginLocal
           \/ Downloaded \/ \E o \in Objs : trail_download_object(o) \/ ObjectFails(o)
  BY <1>3 DEF Retry, GiveUp, BeginDownload, NotEnoughSpace, NoMeta, BeginLocal, Downloaded,
       trail_download_object, ObjectFails, NoDownload, RetryDownload
<1>4. CASE \/ Linked \/ WriteState \/ pv_storage_meta_expand_jsons \/ SetInstalled
           \/ ReportInstalled \/ \E o \in Objs : trail_link_objects(o)
           \/ LinkFails \/ InstallFails \/ RemoveFailed \/ FinishFailed
  BY <1>4 DEF Linked, WriteState, pv_storage_meta_expand_jsons, SetInstalled, ReportInstalled,
       trail_link_objects, CopyCutShort, LinkFails, InstallFails, RemoveFailed, FinishFailed
<1> QED BY <1>1, <1>2, <1>3, <1>4 DEF Next, Device, Clients

-----------------------------------------------------------------------------
(***************************************************************************)
(* The storage.  A revision stays whole unless it is removed or written    *)
(* over.                                                                   *)
(***************************************************************************)
Whole(r) ==
  /\ state[r] = "good"
  /\ \A o \in ObjsOf[r] \ BindObjs : obj[r][o] = "good"
  /\ \A i \in 1..JsonsOf[r] : js[r][i] = "good"

Spared(S) == \A r \in S : Whole(r) => Whole(r)'

LEMMA IntactWhole ==
  ASSUME StorageInv, NEW r \in Revs
  PROVE  Intact(r) <=> Whole(r)
<1>1. \A o \in ObjsOf[r] \ BindObjs :
         obj[r][o] = "good" => ("object" \notin faults => pool[o] = "good")
  BY ObjectsAssumption DEF StorageInv, LinksInv
<1> QED BY <1>1 DEF Intact, Whole, JsonValid

LEMMA ValidIntact == \A r : Valid(r) => Intact(r)
BY DEF Valid, Intact, ObjectValid

LEMMA SameStorage ==
  ASSUME StorageInv, faults \subseteq faults', UNCHANGED storage
  PROVE  StorageInv' /\ Spared(Revs)
<1>1. Spared(Revs)
  BY DEF storage, Spared, Whole
<1>2. LinksInv'
  BY DEF storage, StorageInv, LinksInv
<1> QED BY <1>1, <1>2 DEF storage, StorageInv

\* A later state of the storage in which what was right still is.
LEMMA SparedBy ==
  ASSUME NEW S \in SUBSET Revs,
         \A r \in S : state[r] = "good" => state'[r] = "good",
         \A r \in S : \A o \in Objs \ BindObjs : obj[r][o] = "good" => obj'[r][o] = "good",
         \A r \in S : \A i \in 1..JsonsOf[r] : js[r][i] = "good" => js'[r][i] = "good"
  PROVE  Spared(S)
BY ObjectsAssumption DEF Spared, Whole

\* The collector spares the revisions it keeps.
LEMMA Collect ==
  ASSUME StorageInv, faults \subseteq faults', pv_storage_gc_run
  PROVE  StorageInv' /\ Spared(Kept(Revs))
<1> DEFINE gone == Revs \ Kept(Revs)
           l == [o \in Objs |-> links[o] \ gone]
<1>0. Kept(Revs) \subseteq Revs /\ gone \subseteq Revs
  BY DEF Kept
<1>1. RmRevs(gone) /\ links' = l /\ pool' = pv_storage_gc_objects(l) /\ dltmp' = {} /\ uptmp' = {}
  BY DEF pv_storage_gc_run
<1> HIDE DEF gone
<1>2. /\ links' \in [Objs -> SUBSET Revs] /\ pool' \in [Objs -> {"none", "good"}]
      /\ \A o \in Objs : links'[o] = links[o] \ gone
      /\ \A o \in Objs : links'[o] # {} => pool'[o] = pool[o]
  BY <1>1 DEF StorageInv, pv_storage_gc_objects
<1>3. /\ obj' \in [Revs -> [Objs -> {"none", "good", "bad"}]]
      /\ \A r \in Revs, o \in Objs : obj'[r][o] = IF r \in gone THEN "none" ELSE obj[r][o]
  BY <1>1 DEF RmRevs, StorageInv
<1>4. /\ DOMAIN js' = Revs
      /\ \A r \in Revs : js'[r] \in [1..JsonsOf[r] -> {"none", "good", "torn"}]
      /\ \A r \in Revs \ gone : js'[r] = js[r]
  BY <1>1 DEF RmRevs, StorageInv
<1>5. /\ state' \in [Revs -> {"none", "good", "torn"}]
      /\ \A r \in Revs \ gone : state'[r] = state[r]
  BY <1>1 DEF RmRevs, StorageInv
<1>6. LinksInv'
  BY <1>2, <1>3 DEF StorageInv, LinksInv
<1>7. StorageInv'
  BY <1>1, <1>2, <1>3, <1>4, <1>5, <1>6 DEF StorageInv
<1>8. Kept(Revs) \cap gone = {}
  BY DEF gone
<1>9. Spared(Kept(Revs))
  BY <1>0, <1>3, <1>4, <1>5, <1>8, ObjectsAssumption, SparedBy
<1> QED BY <1>7, <1>9

\* An object comes into the pool that was not there, or replaces one.
LEMMA NewObject ==
  ASSUME StorageInv, faults \subseteq faults', NEW o \in Objs,
         pool[o] = "none" \/ "object" \in faults',
         pool' = [pool EXCEPT ![o] = "good"], links' = [links EXCEPT ![o] = {}],
         dltmp' \subseteq Objs, UNCHANGED <<uptmp, obj, js, state>>
  PROVE  StorageInv' /\ Spared(Revs)
<1>1. /\ pool' \in [Objs -> {"none", "good"}] /\ links' \in [Objs -> SUBSET Revs]
      /\ \A p \in Objs : p # o => pool'[p] = pool[p] /\ links'[p] = links[p]
      /\ links'[o] = {}
  BY DEF StorageInv
<1>2. o \notin BindObjs /\ "object" \notin faults' => \A r \in Revs : obj[r][o] = "none"
  BY DEF StorageInv, LinksInv
<1>3. LinksInv'
  BY <1>1, <1>2 DEF StorageInv, LinksInv
<1>4. StorageInv'
  BY <1>1, <1>3 DEF StorageInv
<1> QED BY <1>4, SparedBy

LEMMA LinkStep ==
  ASSUME StorageInv, ProcessInv, faults \subseteq faults', NEW o \in Objs, trail_link_objects(o)
  PROVE  StorageInv' /\ Spared(Revs)
<1>0. pending \in Revs /\ UNCHANGED <<pool, dltmp, uptmp, js, state>>
  BY DEF trail_link_objects, ProcessInv, WorkInv
<1>1. CASE LinkObject(o)
  <2>1. CASE obj[pending][o] # "none"
    BY <1>0, <1>1, <2>1, SameStorage DEF LinkObject, storage
  <2>2. CASE obj[pending][o] = "none"
    <3>1. /\ o \notin BindObjs /\ pool[o] = "good"
          /\ obj' = [obj EXCEPT ![pending][o] = pool[o]]
          /\ links' = [links EXCEPT ![o] = @ \cup {pending}]
      BY <1>1, <2>2 DEF LinkObject, StorageInv
    <3>2. /\ obj' \in [Revs -> [Objs -> {"none", "good", "bad"}]]
          /\ obj'[pending][o] = "good"
          /\ \A r \in Revs, p \in Objs : r # pending \/ p # o => obj'[r][p] = obj[r][p]
      BY <1>0, <3>1 DEF StorageInv
    <3>3. /\ links' \in [Objs -> SUBSET Revs] /\ links'[o] = links[o] \cup {pending}
          /\ \A p \in Objs : p # o => links'[p] = links[p]
      BY <1>0, <3>1 DEF StorageInv
    <3>4. LinksInv'
      BY <1>0, <3>1, <3>2, <3>3 DEF StorageInv, LinksInv
    <3>5. StorageInv'
      BY <1>0, <3>2, <3>3, <3>4 DEF StorageInv
    <3>6. Spared(Revs)
      BY <1>0, <3>2, SparedBy
    <3> QED BY <3>5, <3>6
  <2> QED BY <2>1, <2>2
<1>2. CASE CopyObject(o) \/ CopyCutShort(o)
  <2>1. /\ o \in BindObjs /\ links' = links
        /\ obj' \in [Revs -> [Objs -> {"none", "good", "bad"}]]
        /\ \A r \in Revs, p \in Objs : p # o => obj'[r][p] = obj[r][p]
    <3>1. PICK c \in {"none", "good", "bad"} : obj' = [obj EXCEPT ![pending][o] = c]
      BY <1>0, <1>2 DEF CopyObject, CopyCutShort, StorageInv
    <3> QED BY <1>0, <1>2, <3>1 DEF CopyObject, CopyCutShort, StorageInv
  <2>2. LinksInv'
    BY <1>0, <2>1 DEF StorageInv, LinksInv
  <2>3. StorageInv'
    BY <1>0, <2>1, <2>2 DEF StorageInv
  <2>4. Spared(Revs)
    BY <1>0, <2>1, SparedBy
  <2> QED BY <2>3, <2>4
<1> QED BY <1>1, <1>2 DEF trail_link_objects

\* A failed install removes its revision, which on full storage may be whole.
LEMMA RemoveStep ==
  ASSUME StorageInv, ProcessInv, FailedInv, faults \subseteq faults', RemoveFailed
  PROVE  /\ StorageInv' /\ Spared(Revs \ {pending})
         /\ Whole(pending) => faults' \cap {"disk", "object"} # {}
<1>0. /\ pending \in Revs /\ UNCHANGED <<pool, dltmp, uptmp>> /\ RmRevs({pending})
  BY DEF RemoveFailed, ProcessInv, WorkInv
<1>1. Whole(pending) => faults' \cap {"disk", "object"} # {}
  <2> SUFFICES ASSUME Whole(pending), "disk" \notin faults'
               PROVE  "object" \in faults'
    OBVIOUS
  <2>1. PICK o \in ObjsOf[pending] \ BindObjs : pool[o] = "none"
    BY DEF FailedInv, RemoveFailed
  <2>2. o \in Objs \ BindObjs /\ obj[pending][o] = "good"
    BY <1>0, <2>1, ObjectsAssumption DEF Whole
  <2>3. links[o] = {}
    BY <2>1, <2>2 DEF StorageInv, LinksInv
  <2> QED BY <1>0, <2>2, <2>3 DEF StorageInv, LinksInv
<1>2. /\ links' \in [Objs -> SUBSET Revs]
      /\ \A p \in Objs : links'[p] = links[p] \ {pending}
  BY DEF RemoveFailed, StorageInv
<1>3. /\ obj' \in [Revs -> [Objs -> {"none", "good", "bad"}]]
      /\ \A r \in Revs, p \in Objs : obj'[r][p] = IF r = pending THEN "none" ELSE obj[r][p]
  BY <1>0 DEF RmRevs, StorageInv
<1>4. /\ DOMAIN js' = Revs
      /\ \A r \in Revs : js'[r] \in [1..JsonsOf[r] -> {"none", "good", "torn"}]
      /\ \A r \in Revs \ {pending} : js'[r] = js[r]
  BY <1>0 DEF RmRevs, StorageInv
<1>5. /\ state' \in [Revs -> {"none", "good", "torn"}]
      /\ \A r \in Revs \ {pending} : state'[r] = state[r]
  BY <1>0 DEF RmRevs, StorageInv
<1>6. LinksInv'
  BY <1>0, <1>2, <1>3 DEF StorageInv, LinksInv
<1>7. StorageInv'
  BY <1>0, <1>2, <1>3, <1>4, <1>5, <1>6 DEF StorageInv
<1>8. Spared(Revs \ {pending})
  BY <1>3, <1>4, <1>5, SparedBy
<1> QED BY <1>1, <1>7, <1>8

\* A state json is written, or falls short.
LEMMA StateStep ==
  ASSUME StorageInv, faults \subseteq faults', NEW r \in Revs, NEW s \in {"none", "good", "torn"},
         state' = [state EXCEPT ![r] = s], UNCHANGED <<pool, links, dltmp, uptmp, obj, js>>
  PROVE  /\ StorageInv' /\ Spared(Revs \ {r})
         /\ s = "good" \/ state[r] # "good" => Spared(Revs)
<1>1. /\ state' \in [Revs -> {"none", "good", "torn"}] /\ state'[r] = s
      /\ \A q \in Revs : q # r => state'[q] = state[q]
  BY DEF StorageInv
<1>2. LinksInv'
  BY DEF StorageInv, LinksInv
<1>3. StorageInv'
  BY <1>1, <1>2 DEF StorageInv
<1>4. Spared(Revs \ {r})
  BY <1>1, SparedBy
<1>5. s = "good" \/ state[r] # "good" => Spared(Revs)
  BY <1>1, SparedBy
<1> QED BY <1>3, <1>4, <1>5

LEMMA JsonStep ==
  ASSUME StorageInv, faults \subseteq faults', NEW r \in Revs, NEW i \in 1..JsonsOf[r], NEW s \in {"good", "torn"},
         js[r][i] = "none",
         js' = [js EXCEPT ![r][i] = s], UNCHANGED <<pool, links, dltmp, uptmp, obj, state>>
  PROVE  StorageInv' /\ Spared(Revs)
<1>1. /\ DOMAIN js' = Revs
      /\ \A q \in Revs : js'[q] \in [1..JsonsOf[q] -> {"none", "good", "torn"}]
      /\ \A q \in Revs : \A k \in 1..JsonsOf[q] : js[q][k] = "good" => js'[q][k] = "good"
  BY DEF StorageInv
<1>2. StorageInv'
  BY <1>1 DEF StorageInv, LinksInv
<1> QED BY <1>1, <1>2, SparedBy

\* A power loss leaves one file as far as it got, which was not there or is bound.
LEMMA PowerLossStep ==
  ASSUME StorageInv, ProcessInv, faults \subseteq faults', PowerLoss
  PROVE  StorageInv' /\ Spared(Revs)
<1>1. UNCHANGED <<pool, links>> /\ dltmp' \subseteq Objs /\ uptmp' \subseteq Objs
  BY DEF PowerLoss, StorageInv, ProcessInv
<1>2. /\ state' \in [Revs -> {"none", "good", "torn"}]
      /\ \A q \in Revs : state[q] = "good" => state'[q] = "good"
  BY DEF PowerLoss, StorageInv
<1>3. /\ DOMAIN js' = Revs
      /\ \A q \in Revs : js'[q] \in [1..JsonsOf[q] -> {"none", "good", "torn"}]
      /\ \A q \in Revs : \A k \in 1..JsonsOf[q] : js[q][k] = "good" => js'[q][k] = "good"
  <2>1. CASE js' = js
    BY <2>1 DEF StorageInv
  <2>2. CASE /\ mode = "expand" /\ next <= JsonsOf[pending] /\ js[pending][next] = "none"
             /\ js' = [js EXCEPT ![pending][next] = "torn"]
    <3>1. pending \in Revs
      BY <2>2 DEF ProcessInv, WorkInv
    <3>2. next \in 1..JsonsOf[pending]
      BY <2>2, <3>1, ObjectsAssumption DEF ProcessInv, NextInv
    <3> QED BY <2>2, <3>1, <3>2 DEF StorageInv
  <2> QED BY <2>1, <2>2 DEF PowerLoss
<1>4. /\ obj' \in [Revs -> [Objs -> {"none", "good", "bad"}]]
      /\ \A r \in Revs, o \in Objs \ BindObjs : obj'[r][o] = obj[r][o]
  <2>1. CASE obj' = obj
    BY <2>1 DEF StorageInv
  <2>2. CASE mode = "link" /\ \E o \in left \cap BindObjs : obj' = [obj EXCEPT ![pending][o] = "bad"]
    <3>1. pending \in Revs
      BY <2>2 DEF ProcessInv, WorkInv
    <3>2. PICK o \in left \cap BindObjs : obj' = [obj EXCEPT ![pending][o] = "bad"]
      BY <2>2
    <3>3. o \in Objs
      BY ObjectsAssumption
    <3> QED BY <3>1, <3>2, <3>3 DEF StorageInv
  <2> QED BY <2>1, <2>2 DEF PowerLoss
<1>5. LinksInv'
  BY <1>1, <1>4 DEF StorageInv, LinksInv
<1>6. StorageInv'
  BY <1>1, <1>2, <1>3, <1>4, <1>5 DEF StorageInv
<1> QED BY <1>2, <1>3, <1>4, <1>6, SparedBy

(***************************************************************************)
(* Every step leaves the running revision and the one to fall back to as   *)
(* whole as they were, but for one that is PUT again or installed again.   *)
(***************************************************************************)
InUse == {running, done} \ {None}

Spoils(r) ==
  \/ r \in LocalRevs /\ "step" \in faults'
  \/ r = pending /\ mode \in {"state", "failed"} /\ faults' \cap {"disk", "object"} # {}

SparedInUse == \A r \in InUse : Whole(r) => Whole(r)' \/ Spoils(r)

LEMMA StorageNext ==
  ASSUME StorageInv, ProcessInv, FailedInv, [Next]_vars
  PROVE  StorageInv' /\ SparedInUse
<1>0. /\ InUse \subseteq Kept(Revs) /\ InUse \subseteq Revs
      /\ faults \subseteq faults'
  BY FaultsStay DEF InUse, Kept, ProcessInv
<1> USE DEF SparedInUse
<1>1. CASE UNCHANGED storage
  BY <1>0, <1>1, SameStorage DEF Spared
<1>2. CASE pv_storage_gc_run
  BY <1>0, <1>2, Collect DEF Spared
<1>3. ASSUME NEW o \in Objs, CtrlPutObject(o)
      PROVE  StorageInv' /\ Spared(Revs)
  <2>0. pool[o] = "none" \/ "object" \in faults'
    BY <1>3 DEF CtrlPutObject, Fault
  <2>1. CASE o \in uptmp
    <3>1. uptmp' \subseteq Objs /\ UNCHANGED <<pool, links, dltmp, obj, js, state>>
      BY <1>3, <2>1 DEF CtrlPutObject, StorageInv
    <3>2. LinksInv'
      BY <1>0, <3>1 DEF StorageInv, LinksInv
    <3>3. StorageInv'
      BY <3>1, <3>2 DEF StorageInv
    <3> QED BY <3>1, <3>3, SparedBy
  <2>2. CASE o \notin uptmp
    BY <1>0, <1>3, <2>0, <2>2, NewObject DEF CtrlPutObject, StorageInv
  <2> QED BY <2>1, <2>2
<1>4. ASSUME NEW r \in Revs, CtrlPutStep(r)
      PROVE  StorageInv' /\ SparedInUse
  <2>1. /\ r \in LocalRevs /\ UNCHANGED <<pool, links, dltmp, uptmp, obj, js>>
        /\ state[r] # "none" => "step" \in faults'
    BY <1>4 DEF CtrlPutStep, Fault
  <2>2. PICK file \in {"none", "good", "torn"} : state' = [state EXCEPT ![r] = file]
    BY <1>4 DEF CtrlPutStep
  <2>3. /\ StorageInv' /\ Spared(Revs \ {r})
        /\ file = "good" \/ state[r] # "good" => Spared(Revs)
    BY <1>0, <2>1, <2>2, StateStep
  <2>4. CASE state[r] # "good"
    BY <1>0, <2>3, <2>4 DEF Spared
  <2>5. CASE state[r] = "good"
    BY <1>0, <2>1, <2>3, <2>5 DEF Spared, Spoils
  <2> QED BY <2>4, <2>5
<1>5. ASSUME NEW o \in Objs, trail_download_object(o)
      PROVE  StorageInv' /\ Spared(Revs)
  <2>1. CASE pool[o] # "none"
    BY <1>0, <1>5, <2>1, SameStorage DEF trail_download_object, storage
  <2>2. CASE pool[o] = "none"
    BY <1>0, <1>5, <2>2, NewObject DEF trail_download_object, StorageInv
  <2> QED BY <2>1, <2>2
<1>6. ASSUME NEW o \in Objs, ObjectFails(o)
      PROVE  StorageInv' /\ Spared(Revs)
  <2>1. dltmp' \subseteq Objs /\ UNCHANGED <<pool, links, uptmp, obj, js, state>>
    BY <1>6 DEF ObjectFails, StorageInv
  <2>2. LinksInv'
    BY <1>0, <2>1 DEF StorageInv, LinksInv
  <2>3. StorageInv'
    BY <2>1, <2>2 DEF StorageInv
  <2> QED BY <2>1, <2>3, SparedBy
<1>7. CASE WriteState
  <2>1. /\ pending \in Revs /\ mode = "state" /\ UNCHANGED <<pool, links, dltmp, uptmp, obj, js>>
    BY <1>7 DEF WriteState, ProcessInv, WorkInv
  <2>2. CASE state' = [state EXCEPT ![pending] = "good"]
    <3>1. StorageInv' /\ Spared(Revs)
      BY <1>0, <2>1, <2>2, StateStep
    <3> QED BY <1>0, <3>1 DEF Spared
  <2>3. CASE state' = state
    BY <1>1, <2>1, <2>3 DEF storage
  <2>4. CASE state' = [state EXCEPT ![pending] = "torn"] /\ "disk" \in faults'
    <3>1. StorageInv' /\ Spared(Revs \ {pending})
      BY <1>0, <2>1, <2>4, StateStep
    <3>2. Spoils(pending)
      BY <2>1, <2>4 DEF Spoils
    <3> QED BY <1>0, <3>1, <3>2 DEF Spared
  <2> QED BY <1>7, <2>2, <2>3, <2>4 DEF WriteState, Fault
<1>8. CASE pv_storage_meta_expand_jsons
  <2>1. pending \in Revs /\ UNCHANGED <<pool, links, dltmp, uptmp, obj, state>>
    BY <1>8 DEF pv_storage_meta_expand_jsons, ProcessInv, WorkInv
  <2>2. next \in 1..JsonsOf[pending]
    BY <1>8, <2>1, ObjectsAssumption DEF pv_storage_meta_expand_jsons, ProcessInv, NextInv
  <2>3. CASE js' = js
    BY <1>1, <2>1, <2>3 DEF storage
  <2>4. CASE /\ js[pending][next] = "none"
             /\ \E f \in {"good", "torn"} : js' = [js EXCEPT ![pending][next] = f]
    <3>1. PICK f \in {"good", "torn"} : js' = [js EXCEPT ![pending][next] = f]
      BY <2>4
    <3>2. StorageInv' /\ Spared(Revs)
      BY <1>0, <2>1, <2>2, <2>4, <3>1, JsonStep
    <3> QED BY <1>0, <3>2 DEF Spared
  <2> QED BY <1>8, <2>3, <2>4 DEF pv_storage_meta_expand_jsons
<1>9. Spared(Revs) => SparedInUse
  BY <1>0 DEF Spared
<1>10. CASE \/ Boot \/ Test \/ Commit \/ ReportDone \/ Reboot
            \/ \E r \in Revs : TakeStep(r) \/ QueueStep(r) \/ CtrlLocalRun(r) \/ CloudPublish(r)
            \/ Retry \/ BeginLocal \/ Downloaded \/ Linked \/ SetInstalled \/ ReportInstalled
            \/ LinkFails \/ InstallFails \/ FinishFailed
            \/ GcEnabledAgain \/ GiveUp \/ NoMeta \/ TestFails \/ UNCHANGED vars
  BY <1>1, <1>10
     DEF Boot, Test, Commit, ReportDone, Reboot, TakeStep, QueueStep, CtrlLocalRun, CloudPublish,
         Retry, BeginLocal, Downloaded, Linked, SetInstalled, ReportInstalled, GcEnabledAgain,
         LinkFails, InstallFails, FinishFailed,
         GiveUp, NoMeta, TestFails, vars
<1>11. CASE BeginDownload \/ GcCommand \/ GcThreshold \/ NotEnoughSpace
  BY <1>1, <1>2, <1>11 DEF BeginDownload, GcCommand, GcThreshold, NotEnoughSpace, GcNeeded
<1>12. CASE \E o \in Objs : trail_link_objects(o)
  BY <1>0, <1>9, <1>12, LinkStep
<1>13. CASE PowerLoss
  BY <1>0, <1>9, <1>13, PowerLossStep
<1>14. CASE RemoveFailed
  <2>1. /\ StorageInv' /\ Spared(Revs \ {pending})
        /\ Whole(pending) => faults' \cap {"disk", "object"} # {}
    BY <1>0, <1>14, RemoveStep
  <2>2. Whole(pending) => Spoils(pending)
    BY <1>14, <2>1 DEF RemoveFailed, Spoils
  <2> QED BY <1>0, <2>1, <2>2 DEF Spared
<1> QED
  BY <1>3, <1>4, <1>5, <1>6, <1>7, <1>8, <1>9, <1>10, <1>11, <1>12, <1>13, <1>14
     DEF Next, Device, Clients

-----------------------------------------------------------------------------
(***************************************************************************)
(* The process.                                                            *)
(***************************************************************************)
LEMMA Reported ==
  ASSUME cloud \in [Revs -> Steps], faults \subseteq FaultKinds,
         NEW r \in Revs, NEW s \in Steps, trail_remote_set_status(r, s)
  PROVE  cloud' \in [Revs -> Steps] /\ faults' \subseteq FaultKinds
BY FaultKnown DEF trail_remote_set_status

LEMMA FirstJson == \E r \in Revs : 1 <= JsonsOf[r] + 1
<1>1. Factory \in Revs /\ JsonsOf[Factory] \in Nat
  BY ObjectsAssumption
<1> QED BY <1>1

\* Where a new boot or a finished update begins again.
LEMMA Restart ==
  ASSUME ProcessInv, PowerOff, UNCHANGED <<try, trying, done>>,
         cloud' \in [Revs -> Steps], faults' \subseteq FaultKinds
  PROVE  ProcessInv'
<1>1. NextInv'
  BY FirstJson DEF PowerOff, NextInv
<1> QED BY <1>1 DEF PowerOff, ProcessInv, WorkInv, Modes

LEMMA BootStep == ProcessInv /\ Boot => ProcessInv'
<1> SUFFICES ASSUME ProcessInv, Boot
             PROVE  ProcessInv'
  OBVIOUS
<1>1. "FAILED" \in Steps
  BY DEF Steps
<1>2. cloud' \in [Revs -> Steps] /\ faults' \subseteq FaultKinds
  BY <1>1, Reported DEF Boot, ProcessInv
<1>3. try' \in Revs \cup {None} /\ trying' \in BOOLEAN /\ done' = done
  BY DEF Boot, ProcessInv
<1>4. /\ mode' \in {"off", "wait"} /\ left' = {} /\ next' = 1 /\ loading' = FALSE
      /\ running' \in Revs \cup {None} /\ (mode' # "off" => running' \in Revs)
      /\ pending' \in Revs \cup {None} /\ status' \in {"none", "try"}
      /\ status' # "none" => pending' \in Revs
  BY DEF Boot, Start, PowerOff, ProcessInv
<1>5. NextInv'
  BY <1>4, FirstJson DEF NextInv
<1> QED BY <1>2, <1>3, <1>4, <1>5 DEF ProcessInv, WorkInv, Modes

LEMMA DownloadStep ==
  ASSUME ProcessInv,
         \/ Retry \/ GiveUp \/ BeginDownload \/ NotEnoughSpace \/ NoMeta \/ BeginLocal
         \/ Downloaded \/ \E o \in Objs : trail_download_object(o) \/ ObjectFails(o)
  PROVE  ProcessInv'
<1> USE DEF Modes
<1>0. {"WONTGO", "DOWNLOADING", "INPROGRESS", "QUEUED"} \subseteq Steps
  BY DEF Steps
<1>1. CASE Retry
  BY <1>1 DEF Retry, bootenv, ProcessInv, WorkInv, NextInv
<1>2. CASE GiveUp \/ NotEnoughSpace
  <2>1. pending \in Revs /\ NoDownload
    BY <1>2 DEF GiveUp, NotEnoughSpace, ProcessInv, WorkInv, NextInv
  <2>2. cloud' \in [Revs -> Steps] /\ faults' \subseteq FaultKinds
    BY <1>0, <2>1, Reported DEF NoDownload, ProcessInv
  <2>3. running \in Revs
    BY <1>2 DEF GiveUp, NotEnoughSpace, ProcessInv, WorkInv, NextInv
  <2> QED BY <2>1, <2>2, <2>3 DEF NoDownload, bootenv, ProcessInv, WorkInv, NextInv
<1>3. CASE NoMeta \/ \E o \in Objs : ObjectFails(o)
  <2>1. pending \in Revs /\ running \in Revs /\ RetryDownload
    BY <1>3 DEF NoMeta, ObjectFails, ProcessInv, WorkInv, NextInv
  <2>2. cloud' \in [Revs -> Steps] /\ faults' \subseteq FaultKinds
    BY <1>0, <2>1, FaultKnown DEF RetryDownload, ProcessInv
  <2> QED BY <2>1, <2>2 DEF RetryDownload, bootenv, ProcessInv, WorkInv, NextInv
<1>4. CASE BeginDownload
  <2>1. pending \in Revs /\ ObjsOf[pending] \subseteq Objs
    BY <1>4, ObjectsAssumption DEF BeginDownload, ProcessInv, WorkInv, NextInv
  <2>2. cloud' \in [Revs -> Steps] /\ faults' \subseteq FaultKinds
    BY <1>0, <1>4, <2>1, Reported DEF BeginDownload, ProcessInv
  <2> QED BY <1>4, <2>1, <2>2 DEF BeginDownload, bootenv, ProcessInv, WorkInv, NextInv
<1>5. CASE BeginLocal
  <2>1. pending \in Revs /\ ObjsOf[pending] \subseteq Objs
    BY <1>5, ObjectsAssumption DEF BeginLocal, ProcessInv, WorkInv, NextInv
  <2> QED BY <1>5, <2>1 DEF BeginLocal, bootenv, ProcessInv, WorkInv, NextInv
<1>6. CASE Downloaded
  <2>1. pending \in Revs /\ ObjsOf[pending] \subseteq Objs
    BY <1>6, ObjectsAssumption DEF Downloaded, ProcessInv, WorkInv, NextInv
  <2>2. cloud' \in [Revs -> Steps] /\ faults' \subseteq FaultKinds
    BY <1>0, <1>6, <2>1, Reported DEF Downloaded, ProcessInv
  <2> QED BY <1>6, <2>1, <2>2 DEF Downloaded, bootenv, ProcessInv, WorkInv, NextInv
<1>7. CASE \E o \in Objs : trail_download_object(o)
  BY <1>7 DEF trail_download_object, bootenv, ProcessInv, WorkInv, NextInv
<1> QED BY <1>1, <1>2, <1>3, <1>4, <1>5, <1>6, <1>7

LEMMA InstallStep ==
  ASSUME ProcessInv,
         \/ Linked \/ WriteState \/ pv_storage_meta_expand_jsons \/ SetInstalled
         \/ ReportInstalled \/ \E o \in Objs : trail_link_objects(o)
         \/ LinkFails \/ InstallFails \/ RemoveFailed \/ FinishFailed
  PROVE  ProcessInv'
<1> USE DEF Modes
<1>0. {"FAILED", "INPROGRESS"} \subseteq Steps
  BY DEF Steps
<1>1. CASE Linked
  BY <1>1 DEF Linked, bootenv, ProcessInv, WorkInv, NextInv
<1>2. CASE WriteState
  <2>0. faults' \subseteq FaultKinds
    BY <1>2, FaultKnown DEF WriteState, ProcessInv
  <2>1. pending \in Revs /\ 1 <= JsonsOf[pending] + 1
    BY <1>2, ObjectsAssumption DEF WriteState, ProcessInv, WorkInv, NextInv
  <2> QED BY <1>2, <2>0, <2>1 DEF WriteState, bootenv, ProcessInv, WorkInv, NextInv
<1>3. CASE pv_storage_meta_expand_jsons
  <2>1. pending \in Revs /\ JsonsOf[pending] \in Nat
    BY <1>3, ObjectsAssumption DEF pv_storage_meta_expand_jsons, ProcessInv, WorkInv, NextInv
  <2>0. faults' \subseteq FaultKinds
    BY <1>3, FaultKnown DEF pv_storage_meta_expand_jsons, ProcessInv
  <2>2. next' \in Nat /\ next' >= 1 /\ next' <= JsonsOf[pending] + 1
    BY <1>3, <2>1 DEF pv_storage_meta_expand_jsons, ProcessInv, NextInv
  <2> QED BY <1>3, <2>0, <2>1, <2>2 DEF pv_storage_meta_expand_jsons, bootenv, ProcessInv, WorkInv, NextInv
<1>4. CASE SetInstalled
  BY <1>4 DEF SetInstalled, ProcessInv, WorkInv, NextInv
<1>5. CASE ReportInstalled
  <2>1. pending \in Revs
    BY <1>5 DEF ReportInstalled, ProcessInv, WorkInv, NextInv
  <2>2. cloud' \in [Revs -> Steps] /\ faults' \subseteq FaultKinds
    BY <1>0, <1>5, <2>1, Reported DEF ReportInstalled, ProcessInv
  <2> QED BY <1>5, <2>1, <2>2 DEF ReportInstalled, bootenv, ProcessInv, WorkInv, NextInv
<1>6. CASE \E o \in Objs : trail_link_objects(o)
  <2>1. faults' \subseteq FaultKinds
    BY <1>6, FaultKnown DEF trail_link_objects, CopyCutShort, ProcessInv
  <2> QED BY <1>6, <2>1 DEF trail_link_objects, bootenv, ProcessInv, WorkInv, NextInv
<1>7. CASE LinkFails
  <2>1. faults' \subseteq FaultKinds
    BY <1>7, FaultKnown DEF LinkFails, ProcessInv
  <2> QED BY <1>7, <2>1 DEF LinkFails, bootenv, ProcessInv, WorkInv, NextInv
<1>8. CASE InstallFails
  <2>1. faults' \subseteq FaultKinds
    BY <1>8, FaultKnown DEF InstallFails, ProcessInv
  <2>2. NextInv'
    BY <1>8, FirstJson DEF InstallFails, NextInv
  <2> QED BY <1>8, <2>1, <2>2 DEF InstallFails, bootenv, ProcessInv, WorkInv
<1>9. CASE RemoveFailed
  <2>1. pending \in Revs
    BY <1>9 DEF RemoveFailed, ProcessInv, WorkInv
  <2>2. cloud' \in [Revs -> Steps] /\ faults' \subseteq FaultKinds
    BY <1>0, <1>9, <2>1, Reported DEF RemoveFailed, ProcessInv
  <2> QED BY <1>9, <2>1, <2>2 DEF RemoveFailed, bootenv, ProcessInv, WorkInv, NextInv
<1>10. CASE FinishFailed
  <2>1. pending \in Revs /\ running \in Revs
    BY <1>10 DEF FinishFailed, ProcessInv, WorkInv
  <2>2. cloud' \in [Revs -> Steps] /\ faults' \subseteq FaultKinds
    BY <1>0, <1>10, <2>1, Reported DEF FinishFailed, ProcessInv
  <2>3. try' \in {try, None} /\ trying' \in BOOLEAN
    BY <1>10 DEF FinishFailed, ProcessInv
  <2> QED BY <1>10, <2>1, <2>2, <2>3 DEF FinishFailed, ProcessInv, WorkInv, NextInv
<1> QED BY <1>1, <1>2, <1>3, <1>4, <1>5, <1>6, <1>7, <1>8, <1>9, <1>10

LEMMA TrialStep ==
  ASSUME ProcessInv, Test \/ Commit \/ ReportDone \/ Reboot \/ TestFails \/ PowerLoss
  PROVE  ProcessInv'
<1> USE DEF Modes
<1>0. {"TESTING", "DONE"} \subseteq Steps
  BY DEF Steps
<1>1. CASE Test
  <2>1. pending \in Revs
    BY <1>1 DEF Test, ProcessInv, WorkInv, NextInv
  <2>2. cloud' \in [Revs -> Steps] /\ faults' \subseteq FaultKinds
    BY <1>0, <1>1, <2>1, Reported DEF Test, ProcessInv
  <2> QED BY <1>1, <2>1, <2>2 DEF Test, bootenv, ProcessInv, WorkInv, NextInv
<1>2. CASE Commit
  BY <1>2 DEF Commit, ProcessInv, WorkInv, NextInv
<1>3. CASE ReportDone
  <2>1. pending \in Revs
    BY <1>3 DEF ReportDone, ProcessInv, WorkInv, NextInv
  <2>2. cloud' \in [Revs -> Steps] /\ faults' \subseteq FaultKinds
    BY <1>0, <1>3, <2>1, Reported DEF ReportDone, ProcessInv
  <2> QED BY <1>3, <2>1, <2>2 DEF ReportDone, bootenv, ProcessInv, WorkInv, NextInv
<1>4. CASE Reboot \/ TestFails
  BY <1>4, Restart DEF Reboot, TestFails, bootenv, ProcessInv
<1>5. CASE PowerLoss
  <2>1. cloud' \in [Revs -> Steps] /\ faults' \subseteq FaultKinds
    BY <1>5, FaultKnown DEF PowerLoss, ProcessInv
  <2> QED BY <1>5, <2>1, Restart DEF PowerLoss, bootenv
<1> QED BY <1>1, <1>2, <1>3, <1>4, <1>5

LEMMA WaitStep ==
  ASSUME ProcessInv,
         \/ \E r \in Revs : TakeStep(r) \/ QueueStep(r) \/ CtrlPutStep(r) \/ CtrlLocalRun(r)
                              \/ CloudPublish(r)
         \/ \E o \in Objs : CtrlPutObject(o)
         \/ GcCommand \/ GcThreshold \/ GcEnabledAgain \/ UNCHANGED vars
  PROVE  ProcessInv'
<1> USE DEF Modes
<1>0. {"FAILED", "QUEUED", "NEW"} \subseteq Steps
  BY DEF Steps
<1>1. ASSUME NEW r \in Revs, TakeStep(r)
      PROVE  ProcessInv'
  <2>1. cloud' \in [Revs -> Steps] /\ faults' \subseteq FaultKinds
    BY <1>0, <1>1, Reported DEF TakeStep, ProcessInv
  <2> QED BY <1>1, <2>1 DEF TakeStep, bootenv, process, ProcessInv, WorkInv, NextInv
<1>2. ASSUME NEW r \in Revs, QueueStep(r)
      PROVE  ProcessInv'
  <2>1. cloud' \in [Revs -> Steps] /\ faults' \subseteq FaultKinds
    BY <1>0, <1>2, Reported DEF QueueStep, ProcessInv
  <2> QED BY <1>2, <2>1 DEF QueueStep, bootenv, process, ProcessInv, WorkInv, NextInv
<1>3. CASE \E r \in Revs : CtrlPutStep(r) \/ CtrlLocalRun(r)
  <2>1. faults' \subseteq FaultKinds
    BY <1>3, FaultKnown DEF CtrlPutStep, CtrlLocalRun, ProcessInv
  <2> QED BY <1>3, <2>1 DEF CtrlPutStep, CtrlLocalRun, bootenv, process, ProcessInv, WorkInv, NextInv
<1>4. CASE \E r \in Revs : CloudPublish(r)
  BY <1>0, <1>4 DEF CloudPublish, bootenv, process, ProcessInv, WorkInv, NextInv
<1>5. CASE \E o \in Objs : CtrlPutObject(o)
  <2>1. faults' \subseteq FaultKinds
    BY <1>5, FaultKnown DEF CtrlPutObject, ProcessInv
  <2>2. UNCHANGED <<try, trying, done, mode, running, pending, status, left, next, cloud>>
    BY <1>5 DEF CtrlPutObject, bootenv
  <2>3. loading' = loading \/ loading' = TRUE
    BY <1>5, Zenon DEF CtrlPutObject
  <2>4. loading' \in BOOLEAN
    BY <2>3 DEF ProcessInv
  <2> QED BY <2>1, <2>2, <2>4 DEF ProcessInv, WorkInv, NextInv
<1>6. CASE GcCommand \/ GcThreshold \/ UNCHANGED vars
  BY <1>6 DEF GcCommand, GcThreshold, bootenv, process, vars, ProcessInv, WorkInv, NextInv
<1>7. CASE GcEnabledAgain
  BY <1>7 DEF GcEnabledAgain, bootenv, ProcessInv, WorkInv, NextInv
<1> QED BY <1>1, <1>2, <1>3, <1>4, <1>5, <1>6, <1>7

LEMMA ProcessNext == ProcessInv /\ [Next]_vars => ProcessInv'
BY BootStep, DownloadStep, InstallStep, TrialStep, WaitStep DEF Next, Device, Clients

\* An install that fails does so for want of space or of an object.
LEMMA FailedNext == ProcessInv /\ FailedInv /\ [Next]_vars => FailedInv'
<1> SUFFICES ASSUME ProcessInv, FailedInv, [Next]_vars, mode' = "failed"
             PROVE  FailedInv'
  BY DEF FailedInv
<1>1. CASE LinkFails
  <2>1. pending' = pending /\ pool' = pool /\ pending \in Revs /\ left \subseteq ObjsOf[pending]
    BY <1>1 DEF LinkFails, storage, ProcessInv, WorkInv
  <2>2. "disk" \in faults' \/ \E o \in left \ BindObjs : pool[o] = "none"
    BY <1>1 DEF LinkFails, Fault
  <2> QED BY <2>1, <2>2 DEF FailedInv
<1>2. CASE InstallFails
  BY <1>2 DEF InstallFails, Fault, FailedInv
<1>3. CASE UNCHANGED vars \/ \E r \in Revs : CloudPublish(r)
  BY <1>3 DEF CloudPublish, storage, process, vars, FailedInv
<1>4. ~(\/ Boot \/ Test \/ Commit \/ ReportDone \/ Reboot \/ TestFails \/ PowerLoss
        \/ GiveUp \/ NotEnoughSpace \/ NoMeta \/ Retry \/ BeginLocal \/ SetInstalled
        \/ ReportInstalled \/ GcCommand \/ GcThreshold \/ GcEnabledAgain \/ BeginDownload
        \/ Downloaded \/ Linked \/ WriteState \/ pv_storage_meta_expand_jsons
        \/ RemoveFailed \/ FinishFailed
        \/ \E o \in Objs : \/ CtrlPutObject(o) \/ ObjectFails(o) \/ trail_download_object(o)
                           \/ trail_link_objects(o)
        \/ \E r \in Revs : TakeStep(r) \/ QueueStep(r) \/ CtrlPutStep(r) \/ CtrlLocalRun(r))
  BY DEF Boot, Start, PowerOff, Test, Commit, ReportDone, Reboot, TestFails, PowerLoss, GiveUp,
       NotEnoughSpace, NoMeta, NoDownload, RetryDownload, Retry, BeginLocal, SetInstalled,
       ReportInstalled, GcCommand, GcThreshold, GcEnabledAgain, BeginDownload, Downloaded, Linked,
       WriteState, pv_storage_meta_expand_jsons, RemoveFailed, FinishFailed, CtrlPutObject,
       ObjectFails, trail_download_object, trail_link_objects, TakeStep, QueueStep, CtrlPutStep,
       CtrlLocalRun, process
<1> QED BY <1>1, <1>2, <1>3, <1>4 DEF Next, Device, Clients

-----------------------------------------------------------------------------
(***************************************************************************)
(* What is started is valid, what is committed runs, and the rest stays as *)
(* it was.                                                                 *)
(***************************************************************************)
LEMMA InUseNext ==
  ASSUME ProcessInv, [Next]_vars
  PROVE  \/ Boot
         \/ InUse' \subseteq InUse
<1>1. CASE Commit
  BY <1>1 DEF Commit, InUse, ProcessInv
<1>2. CASE Reboot \/ TestFails \/ PowerLoss
  BY <1>2 DEF Reboot, TestFails, PowerLoss, PowerOff, bootenv, InUse
<1>3. CASE \/ Retry \/ GiveUp \/ BeginDownload \/ NotEnoughSpace \/ NoMeta \/ BeginLocal
           \/ Downloaded \/ \E o \in Objs : trail_download_object(o) \/ ObjectFails(o)
  BY <1>3 DEF Retry, GiveUp, BeginDownload, NotEnoughSpace, NoMeta, BeginLocal, Downloaded,
         trail_download_object, ObjectFails, NoDownload, RetryDownload, bootenv, InUse
<1>4. CASE \/ Linked \/ WriteState \/ pv_storage_meta_expand_jsons \/ SetInstalled
           \/ ReportInstalled \/ Test \/ ReportDone
           \/ LinkFails \/ InstallFails \/ RemoveFailed \/ FinishFailed
           \/ \E o \in Objs : trail_link_objects(o)
  BY <1>4 DEF Linked, WriteState, pv_storage_meta_expand_jsons, SetInstalled, ReportInstalled,
         Test, ReportDone, trail_link_objects, LinkFails, InstallFails, RemoveFailed, FinishFailed,
         bootenv, InUse
<1>5. CASE \/ \E r \in Revs : TakeStep(r) \/ QueueStep(r) \/ CtrlPutStep(r) \/ CtrlLocalRun(r)
                                \/ CloudPublish(r)
           \/ \E o \in Objs : CtrlPutObject(o)
           \/ GcCommand \/ GcThreshold \/ GcEnabledAgain \/ UNCHANGED vars
  BY <1>5 DEF TakeStep, QueueStep, CtrlPutStep, CtrlLocalRun, CloudPublish, CtrlPutObject,
         GcCommand, GcThreshold, GcEnabledAgain, bootenv, process, vars, InUse
<1> QED BY <1>1, <1>2, <1>3, <1>4, <1>5 DEF Next, Device, Clients

LEMMA InitInv == Init => IInv
<1> SUFFICES ASSUME Init
             PROVE  IInv
  OBVIOUS
<1> USE ObjectsAssumption
<1>1. /\ \A o \in Objs : pool[o] = IF o \in ObjsOf[Factory] THEN "good" ELSE "none"
      /\ \A o \in Objs : links[o] = IF o \in ObjsOf[Factory] \ BindObjs THEN {Factory} ELSE {}
      /\ \A r \in Revs, o \in Objs :
           obj[r][o] = IF r = Factory /\ o \in ObjsOf[r] THEN "good" ELSE "none"
  BY DEF Init
<1>2. LinksInv
  BY <1>1 DEF LinksInv
<1>3. StorageInv
  BY <1>2 DEF Init, StorageInv
<1>4. NextInv /\ {"DONE", "none"} \subseteq Steps
  BY FirstJson DEF Init, Steps, NextInv
<1>5. ProcessInv
  BY <1>4 DEF Init, ProcessInv, WorkInv, Modes
<1>6. FailedInv
  BY DEF Init, FailedInv
<1> QED BY <1>3, <1>5, <1>6 DEF IInv

(***************************************************************************)
(* The inductive invariant holds, whatever fails (objects.c, storage.c,    *)
(* updater.c).                                                             *)
(***************************************************************************)
THEOREM Invariance == Spec => []IInv
<1>1. IInv /\ [Next]_vars => IInv'
  BY StorageNext, ProcessNext, FailedNext DEF IInv
<1> QED BY InitInv, <1>1, PTL DEF Spec

(***************************************************************************)
(* Every variable keeps its type; among them, the pool never has an object *)
(* whose checksum is not its name (trail_download_object, ctrl.c).         *)
(***************************************************************************)
THEOREM TypeCorrect == Spec => []TypeOK
<1>1. IInv => TypeOK
  BY DEF IInv, StorageInv, ProcessInv, NextInv, TypeOK
<1> QED BY <1>1, Invariance, PTL

-----------------------------------------------------------------------------
(***************************************************************************)
(* The steps of an update: what is tried, what runs and what the device    *)
(* falls back to are tied to the phase the loop is in.                     *)
(***************************************************************************)
Updating == {"download", "fetch", "link", "state", "expand"}
Installed == {"installed", "reboot"}
Failing == {"failed", "finish"}
InTrial == mode = "wait" /\ status \in {"try", "testing"}
Idle == mode = "wait" /\ status \in {"none", "retry"}

TrialInv ==
  /\ mode = "wait" => InTrial \/ Idle
  /\ mode \in Updating \cup Installed => status \in {"queued", "retry"}
  /\ mode \in Failing => status \in {"queued", "retry", "failed"}
  /\ mode = "committed" => status = "testing"
  /\ mode = "off" => status = "none"
  /\ mode \in Updating \cup Failing \cup {"committed"} \/ Idle => try = None
  /\ mode \in Installed \/ InTrial => pending = try
  /\ InTrial \/ mode = "committed" => running = pending
  /\ mode = "committed" => done = pending
  /\ mode \in Updating \cup Failing \cup Installed \/ Idle => running = done

\* The cloud knows of the factory revision all along and never of local ones.
ReportedInv ==
  /\ cloud[Factory] = "DONE" /\ try # Factory /\ \A r \in LocalRevs : cloud[r] = "none"
  /\ status # "none" => pending # Factory
  /\ mode = "fetch" => pending \notin LocalRevs

\* An update never goes back, unless it is a local one.
Newer(r) == r \in LocalRevs \/ (done \notin LocalRevs /\ Atoi[done] <= Atoi[r])

NewerInv ==
  /\ status \in {"queued", "retry"} => Newer(pending)
  /\ try # None => Newer(try)
  /\ \A r \in Revs \ {Factory} : cloud[r] = "DONE" => Atoi[r] <= Atoi[done] \/ done \in LocalRevs

PhaseInv == TrialInv /\ ReportedInv /\ NewerInv

LEMMA FoundSteps ==
  ASSUME NEW r \in Found
  PROVE  r \in Revs /\ cloud[r] \in {"INPROGRESS", "DOWNLOADING", "QUEUED", "NEW"}
<1> DEFINE order == <<"INPROGRESS", "DOWNLOADING", "QUEUED", "NEW">>
           First(j) == /\ j = 5 \/ WithStatus(order[j]) # {}
                       /\ \A k \in 1..(j - 1) : WithStatus(order[k]) = {}
           i == CHOOSE j \in 1..5 : First(j)
<1>1. \E j \in 1..5 : First(j)
  <2>1. CASE WithStatus(order[1]) # {}
    BY <2>1
  <2>2. CASE WithStatus(order[1]) = {} /\ WithStatus(order[2]) # {}
    <3>1. First(2)
      BY <2>2
    <3> QED BY <3>1
  <2>3. CASE /\ WithStatus(order[1]) = {} /\ WithStatus(order[2]) = {}
             /\ WithStatus(order[3]) # {}
    <3>1. First(3)
      BY <2>3
    <3> QED BY <3>1
  <2>4. CASE /\ WithStatus(order[1]) = {} /\ WithStatus(order[2]) = {}
             /\ WithStatus(order[3]) = {} /\ WithStatus(order[4]) # {}
    <3>1. First(4)
      BY <2>4
    <3> QED BY <3>1
  <2>5. CASE /\ WithStatus(order[1]) = {} /\ WithStatus(order[2]) = {}
             /\ WithStatus(order[3]) = {} /\ WithStatus(order[4]) = {}
    <3>1. First(5)
      BY <2>5
    <3> QED BY <3>1
  <2> QED BY <2>1, <2>2, <2>3, <2>4, <2>5
<1>2. i \in 1..5
  BY <1>1
<1>3. Found = IF i = 5 THEN {} ELSE WithStatus(order[i])
  BY DEF Found
<1> HIDE DEF i
<1>4. i # 5 /\ r \in WithStatus(order[i])
  BY <1>3
<1>5. i \in {1, 2, 3, 4}
  BY <1>2, <1>4
<1> QED BY <1>4, <1>5 DEF WithStatus

\* What a report changes in the cloud.
LEMMA ReportOf ==
  ASSUME cloud \in [Revs -> Steps], NEW r \in Revs, NEW s, trail_remote_set_status(r, s)
  PROVE  /\ \A q \in Revs : q # r \/ r \in LocalRevs => cloud'[q] = cloud[q]
         /\ cloud'[r] \in {cloud[r], s}
         /\ "report" \notin faults' => "report" \notin faults
         /\ "report" \notin faults' /\ r \notin LocalRevs => cloud'[r] = s
         /\ faults \subseteq faults'
BY DEF trail_remote_set_status, Fault

LEMMA PhaseBoot == ProcessInv /\ PhaseInv /\ Boot => PhaseInv'
<1> SUFFICES ASSUME ProcessInv, PhaseInv, Boot
             PROVE  PhaseInv'
  OBVIOUS
<1> USE DEF Updating, Installed, Failing, InTrial, Idle
<1>0. cloud \in [Revs -> Steps] /\ None \notin Revs /\ Factory \in Revs \ LocalRevs
      /\ done' = done /\ done \in Revs /\ mode = "off" /\ status = "none"
  BY ObjectsAssumption DEF ProcessInv, PhaseInv, TrialInv, Boot
<1>1. CASE try # None /\ ~trying /\ Start(try) /\ UNCHANGED <<try, cloud>>
  <2>1. TrialInv'
    BY <1>0, <1>1 DEF Start, PowerOff, TrialInv
  <2>2. ReportedInv'
    BY <1>0, <1>1 DEF Start, PowerOff, PhaseInv, ReportedInv
  <2>3. NewerInv'
    BY <1>0, <1>1 DEF Start, PowerOff, PhaseInv, NewerInv, Newer
  <2> QED BY <2>1, <2>2, <2>3 DEF PhaseInv
<1>2. CASE try = None /\ Start(done) /\ UNCHANGED <<try, cloud>>
  <2>1. TrialInv'
    BY <1>0, <1>2 DEF Start, PowerOff, TrialInv
  <2>2. ReportedInv'
    BY <1>0, <1>2 DEF Start, PowerOff, PhaseInv, ReportedInv
  <2>3. NewerInv'
    BY <1>0, <1>2 DEF Start, PowerOff, PhaseInv, NewerInv, Newer
  <2> QED BY <2>1, <2>2, <2>3 DEF PhaseInv
<1>3. CASE /\ try # None /\ try' = None /\ status' = "none"
           /\ IF Valid(done) THEN trail_remote_set_status(try, "FAILED") ELSE cloud' = cloud
           /\ mode' = (IF Valid(done) THEN "wait" ELSE "off")
           /\ running' = (IF Valid(done) THEN done ELSE None)
  <2>0. try \in Revs
    BY <1>3 DEF ProcessInv
  <2>4. /\ \A q \in Revs : q # try \/ try \in LocalRevs => cloud'[q] = cloud[q]
        /\ cloud'[try] \in {cloud[try], "FAILED"}
    BY <1>0, <1>3, <2>0, ReportOf
  <2>1. TrialInv'
    BY <1>0, <1>3 DEF TrialInv
  <2>2. ReportedInv'
    BY <1>0, <1>3, <2>0, <2>4, ObjectsAssumption DEF PhaseInv, ReportedInv
  <2>3. NewerInv'
    BY <1>0, <1>3, <2>0, <2>4 DEF PhaseInv, NewerInv, Newer
  <2> QED BY <2>1, <2>2, <2>3 DEF PhaseInv
<1> QED BY <1>1, <1>2, <1>3 DEF Boot

LEMMA PhaseDownload ==
  ASSUME ProcessInv, PhaseInv,
         \/ Retry \/ GiveUp \/ BeginDownload \/ NotEnoughSpace \/ NoMeta \/ BeginLocal
         \/ Downloaded \/ \E o \in Objs : trail_download_object(o) \/ ObjectFails(o)
  PROVE  PhaseInv'
<1> USE DEF Updating, Installed, Failing, InTrial, Idle
<1>0. /\ cloud \in [Revs -> Steps] /\ Factory \in Revs \ LocalRevs
      /\ done \in Revs /\ TrialInv /\ ReportedInv /\ NewerInv
  BY ObjectsAssumption DEF ProcessInv, PhaseInv
<1>1. CASE GiveUp \/ NotEnoughSpace
  <2>1. /\ pending \in Revs \ {Factory} /\ NoDownload /\ status \in {"queued", "retry"}
        /\ running = done /\ try = None
    BY <1>0, <1>1 DEF GiveUp, NotEnoughSpace, ProcessInv, WorkInv, TrialInv, ReportedInv
  <2>2. /\ \A q \in Revs : q # pending \/ pending \in LocalRevs => cloud'[q] = cloud[q]
        /\ cloud'[pending] \in {cloud[pending], "WONTGO"}
    BY <1>0, <2>1, ReportOf DEF NoDownload
  <2>3. UNCHANGED <<try, done, running>> /\ status' = "none" /\ mode' = "wait"
    BY <2>1 DEF NoDownload, bootenv
  <2>4. TrialInv'
    BY <2>1, <2>3 DEF TrialInv
  <2>5. ReportedInv'
    BY <1>0, <2>1, <2>2, <2>3, ObjectsAssumption DEF ReportedInv
  <2>6. NewerInv'
    BY <1>0, <2>1, <2>2, <2>3 DEF NewerInv, Newer
  <2> QED BY <2>4, <2>5, <2>6 DEF PhaseInv
<1>2. CASE NoMeta \/ \E o \in Objs : ObjectFails(o)
  <2>1. /\ pending \in Revs \ (LocalRevs \cup {Factory}) /\ RetryDownload
        /\ status \in {"queued", "retry"} /\ running = done /\ try = None
    BY <1>0, <1>2 DEF NoMeta, ObjectFails, ProcessInv, WorkInv, TrialInv, ReportedInv
  <2>2. /\ \A q \in Revs : q # pending => cloud'[q] = cloud[q]
        /\ cloud'[pending] \in {cloud[pending], "QUEUED"}
    BY <1>0, <2>1 DEF RetryDownload
  <2>3. UNCHANGED <<try, done, running, pending>> /\ status' = "retry" /\ mode' = "wait"
    BY <2>1 DEF RetryDownload, bootenv
  <2>4. TrialInv'
    BY <2>1, <2>3 DEF TrialInv
  <2>5. ReportedInv'
    BY <1>0, <2>1, <2>2, <2>3, ObjectsAssumption DEF ReportedInv
  <2>6. NewerInv'
    BY <1>0, <2>1, <2>2, <2>3 DEF NewerInv, Newer
  <2> QED BY <2>4, <2>5, <2>6 DEF PhaseInv
<1>3. CASE BeginDownload \/ Downloaded
  <2>1. /\ pending \in Revs \ {Factory} /\ status \in {"queued", "retry"}
        /\ running = done /\ try = None
    BY <1>0, <1>3 DEF BeginDownload, Downloaded, ProcessInv, WorkInv, TrialInv, ReportedInv
  <2>2. /\ \A q \in Revs : q # pending \/ pending \in LocalRevs => cloud'[q] = cloud[q]
        /\ cloud'[pending] \in {cloud[pending], "DOWNLOADING", "INPROGRESS"}
    BY <1>0, <1>3, <2>1, ReportOf DEF BeginDownload, Downloaded
  <2>3. /\ UNCHANGED <<try, done, running, pending, status>>
        /\ (mode' = "fetch" /\ pending \notin LocalRevs) \/ mode' = "link"
    BY <1>3 DEF BeginDownload, Downloaded, bootenv
  <2>4. TrialInv'
    BY <2>1, <2>3 DEF TrialInv
  <2>5. ReportedInv'
    BY <1>0, <2>1, <2>2, <2>3, ObjectsAssumption DEF ReportedInv
  <2>6. NewerInv'
    BY <1>0, <2>1, <2>2, <2>3 DEF NewerInv, Newer
  <2> QED BY <2>4, <2>5, <2>6 DEF PhaseInv
<1>4. CASE Retry \/ BeginLocal \/ \E o \in Objs : trail_download_object(o)
  <2>1. /\ UNCHANGED <<try, done, running, pending, status, cloud>>
        /\ \/ mode = "wait" /\ status = "retry" /\ mode' = "download"
           \/ mode = "download" /\ mode' = "link"
           \/ mode = "fetch" /\ mode' = "fetch"
    BY <1>4 DEF Retry, BeginLocal, trail_download_object, bootenv
  <2>2. TrialInv'
    BY <1>0, <2>1 DEF TrialInv
  <2>3. ReportedInv'
    BY <1>0, <2>1 DEF ReportedInv
  <2>4. NewerInv'
    BY <1>0, <2>1 DEF NewerInv, Newer
  <2> QED BY <2>2, <2>3, <2>4 DEF PhaseInv
<1> QED BY <1>1, <1>2, <1>3, <1>4

LEMMA PhaseInstall ==
  ASSUME ProcessInv, PhaseInv,
         \/ Linked \/ WriteState \/ pv_storage_meta_expand_jsons \/ SetInstalled
         \/ ReportInstalled \/ \E o \in Objs : trail_link_objects(o)
         \/ LinkFails \/ InstallFails \/ RemoveFailed \/ FinishFailed
  PROVE  PhaseInv'
<1> USE DEF Updating, Installed, Failing, InTrial, Idle
<1>0. /\ cloud \in [Revs -> Steps] /\ Factory \in Revs \ LocalRevs /\ None \notin Revs
      /\ done \in Revs /\ TrialInv /\ ReportedInv /\ NewerInv
  BY ObjectsAssumption DEF ProcessInv, PhaseInv
<1>1. CASE \/ Linked \/ WriteState \/ pv_storage_meta_expand_jsons
           \/ \E o \in Objs : trail_link_objects(o)
  <2>1. /\ UNCHANGED <<try, done, running, pending, status, cloud>>
        /\ mode \in {"link", "state", "expand"} /\ mode' \in {"link", "state", "expand"}
    BY <1>1 DEF Linked, WriteState, pv_storage_meta_expand_jsons, trail_link_objects, bootenv
  <2>2. TrialInv'
    BY <1>0, <2>1 DEF TrialInv
  <2>3. ReportedInv'
    BY <1>0, <2>1 DEF ReportedInv
  <2>4. NewerInv'
    BY <1>0, <2>1 DEF NewerInv, Newer
  <2> QED BY <2>2, <2>3, <2>4 DEF PhaseInv
<1>2. CASE SetInstalled
  <2>1. /\ try' = pending /\ UNCHANGED <<done, running, pending, status, cloud>>
        /\ mode = "expand" /\ mode' = "installed"
    BY <1>2 DEF SetInstalled
  <2>2. TrialInv'
    BY <1>0, <2>1 DEF TrialInv
  <2>3. ReportedInv'
    BY <1>0, <2>1 DEF ReportedInv, TrialInv
  <2>4. NewerInv'
    BY <1>0, <2>1 DEF NewerInv, Newer, TrialInv
  <2> QED BY <2>2, <2>3, <2>4 DEF PhaseInv
<1>3. CASE ReportInstalled
  <2>1. /\ UNCHANGED <<try, done, running, pending, status>>
        /\ mode = "installed" /\ mode' = "reboot" /\ pending \in Revs \ {Factory}
    BY <1>0, <1>3 DEF ReportInstalled, bootenv, ProcessInv, WorkInv, TrialInv, ReportedInv
  <2>2. /\ \A q \in Revs : q # pending \/ pending \in LocalRevs => cloud'[q] = cloud[q]
        /\ cloud'[pending] \in {cloud[pending], "INPROGRESS"}
    BY <1>0, <1>3, <2>1, ReportOf DEF ReportInstalled
  <2>3. TrialInv'
    BY <1>0, <2>1 DEF TrialInv
  <2>4. ReportedInv'
    BY <1>0, <2>1, <2>2, ObjectsAssumption DEF ReportedInv
  <2>5. NewerInv'
    BY <1>0, <2>1, <2>2 DEF NewerInv, Newer
  <2> QED BY <2>3, <2>4, <2>5 DEF PhaseInv
<1>4. CASE LinkFails \/ InstallFails
  <2>1. /\ UNCHANGED <<try, done, running, pending, cloud>>
        /\ mode \in {"link", "state", "expand"} /\ mode' = "failed"
        /\ status' \in {status, "failed"} /\ pending \in Revs /\ status \in {"queued", "retry"}
    BY <1>0, <1>4 DEF LinkFails, InstallFails, bootenv, ProcessInv, WorkInv, TrialInv
  <2>2. TrialInv'
    BY <1>0, <2>1 DEF TrialInv
  <2>3. ReportedInv'
    BY <1>0, <2>1 DEF ReportedInv
  <2>4. NewerInv'
    BY <1>0, <2>1 DEF NewerInv, Newer
  <2> QED BY <2>2, <2>3, <2>4 DEF PhaseInv
<1>5. CASE RemoveFailed
  <2>1. /\ UNCHANGED <<try, done, running, pending, status>>
        /\ mode = "failed" /\ mode' = "finish" /\ pending \in Revs \ {Factory}
    BY <1>0, <1>5 DEF RemoveFailed, bootenv, ProcessInv, WorkInv, TrialInv, ReportedInv
  <2>2. /\ \A q \in Revs : q # pending \/ pending \in LocalRevs => cloud'[q] = cloud[q]
        /\ cloud'[pending] \in {cloud[pending], "FAILED"}
    BY <1>0, <1>5, <2>1, ReportOf DEF RemoveFailed
  <2>3. TrialInv'
    BY <1>0, <2>1 DEF TrialInv
  <2>4. ReportedInv'
    BY <1>0, <2>1, <2>2, ObjectsAssumption DEF ReportedInv
  <2>5. NewerInv'
    BY <1>0, <2>1, <2>2 DEF NewerInv, Newer
  <2> QED BY <2>3, <2>4, <2>5 DEF PhaseInv
<1>6. CASE FinishFailed
  <2>1. /\ try = None /\ try' = None /\ UNCHANGED <<done, running>> /\ status' = "none"
        /\ mode' = "wait" /\ pending \in Revs \ {Factory} /\ running = done
    BY <1>0, <1>6 DEF FinishFailed, ProcessInv, WorkInv, TrialInv, ReportedInv
  <2>2. /\ \A q \in Revs : q # pending \/ pending \in LocalRevs => cloud'[q] = cloud[q]
        /\ cloud'[pending] \in {cloud[pending], "FAILED", "INPROGRESS"}
    BY <1>0, <1>6, <2>1, ReportOf DEF FinishFailed
  <2>3. TrialInv'
    BY <1>0, <2>1 DEF TrialInv
  <2>4. ReportedInv'
    BY <1>0, <2>1, <2>2, ObjectsAssumption DEF ReportedInv
  <2>5. NewerInv'
    BY <1>0, <2>1, <2>2 DEF NewerInv, Newer
  <2> QED BY <2>3, <2>4, <2>5 DEF PhaseInv
<1> QED BY <1>1, <1>2, <1>3, <1>4, <1>5, <1>6

LEMMA PhaseTrial ==
  ASSUME ProcessInv, PhaseInv, Test \/ Commit \/ ReportDone \/ Reboot \/ TestFails \/ PowerLoss
  PROVE  PhaseInv'
<1> USE DEF Updating, Installed, Failing, InTrial, Idle
<1>0. /\ cloud \in [Revs -> Steps] /\ Factory \in Revs \ LocalRevs /\ None \notin Revs
      /\ done \in Revs /\ TrialInv /\ ReportedInv /\ NewerInv /\ Atoi \in [Revs -> Nat]
  BY ObjectsAssumption DEF ProcessInv, PhaseInv
<1>1. CASE Test
  <2>1. /\ UNCHANGED <<try, done, running, pending, mode>> /\ mode = "wait" /\ status = "try"
        /\ status' = "testing" /\ pending \in Revs \ {Factory}
    BY <1>0, <1>1 DEF Test, bootenv, ProcessInv, WorkInv, ReportedInv
  <2>2. /\ \A q \in Revs : q # pending \/ pending \in LocalRevs => cloud'[q] = cloud[q]
        /\ cloud'[pending] \in {cloud[pending], "TESTING"}
    BY <1>0, <1>1, <2>1, ReportOf DEF Test
  <2>3. TrialInv'
    BY <1>0, <2>1 DEF TrialInv
  <2>4. ReportedInv'
    BY <1>0, <2>1, <2>2, ObjectsAssumption DEF ReportedInv
  <2>5. NewerInv'
    BY <1>0, <2>1, <2>2 DEF NewerInv, Newer
  <2> QED BY <2>3, <2>4, <2>5 DEF PhaseInv
<1>2. CASE Commit
  <2>1. /\ done' = running /\ try' = None /\ mode' = "committed" /\ status = "testing"
        /\ UNCHANGED <<running, pending, status, cloud>>
        /\ running = pending /\ try = pending /\ pending \in Revs
    BY <1>0, <1>2 DEF Commit, TrialInv, ProcessInv, WorkInv
  <2>2. TrialInv'
    BY <1>0, <2>1 DEF TrialInv
  <2>3. ReportedInv'
    BY <1>0, <2>1 DEF ReportedInv
  <2>4. NewerInv'
    <3>1. Newer(done')
      BY <1>0, <2>1 DEF NewerInv
    <3>2. \A r \in Revs \ {Factory} : cloud[r] = "DONE" =>
             Atoi[r] <= Atoi[done'] \/ done' \in LocalRevs
      BY <1>0, <2>1, <3>1 DEF NewerInv, Newer
    <3> QED BY <2>1, <3>2 DEF NewerInv
  <2> QED BY <2>2, <2>3, <2>4 DEF PhaseInv
<1>3. CASE ReportDone
  <2>1. /\ UNCHANGED <<try, done, running>> /\ mode' = "wait" /\ status' = "none"
        /\ pending \in Revs \ {Factory} /\ done = pending /\ running = pending /\ try = None
    BY <1>0, <1>3 DEF ReportDone, bootenv, ProcessInv, WorkInv, TrialInv, ReportedInv
  <2>2. /\ \A q \in Revs : q # pending \/ pending \in LocalRevs => cloud'[q] = cloud[q]
        /\ cloud'[pending] \in {cloud[pending], "DONE"}
    BY <1>0, <1>3, <2>1, ReportOf DEF ReportDone
  <2>3. TrialInv'
    BY <1>0, <2>1 DEF TrialInv
  <2>4. ReportedInv'
    BY <1>0, <2>1, <2>2, ObjectsAssumption DEF ReportedInv
  <2>5. NewerInv'
    BY <1>0, <2>1, <2>2 DEF NewerInv, Newer
  <2> QED BY <2>3, <2>4, <2>5 DEF PhaseInv
<1>4. CASE Reboot \/ TestFails \/ PowerLoss
  <2>1. /\ UNCHANGED <<try, done, cloud>> /\ mode' = "off" /\ status' = "none"
    BY <1>4 DEF Reboot, TestFails, PowerLoss, PowerOff, bootenv
  <2>2. TrialInv'
    BY <2>1 DEF TrialInv
  <2>3. ReportedInv'
    BY <1>0, <2>1 DEF ReportedInv
  <2>4. NewerInv'
    BY <1>0, <2>1 DEF NewerInv, Newer
  <2> QED BY <2>2, <2>3, <2>4 DEF PhaseInv
<1> QED BY <1>1, <1>2, <1>3, <1>4

LEMMA PhaseWait ==
  ASSUME ProcessInv, PhaseInv,
         \/ \E r \in Revs : TakeStep(r) \/ QueueStep(r) \/ CtrlPutStep(r) \/ CtrlLocalRun(r)
                              \/ CloudPublish(r)
         \/ \E o \in Objs : CtrlPutObject(o)
         \/ GcCommand \/ GcThreshold \/ GcEnabledAgain \/ UNCHANGED vars
  PROVE  PhaseInv'
<1> USE DEF Updating, Installed, Failing, InTrial, Idle
<1>0. /\ cloud \in [Revs -> Steps] /\ Factory \in Revs \ LocalRevs /\ None \notin Revs
      /\ done \in Revs /\ TrialInv /\ ReportedInv /\ NewerInv /\ Atoi \in [Revs -> Nat]
  BY ObjectsAssumption DEF ProcessInv, PhaseInv
<1>1. ASSUME NEW r \in Revs, TakeStep(r)
      PROVE  PhaseInv'
  <2>1. /\ UNCHANGED <<try, done, running>> /\ mode = "wait" /\ status = "none"
        /\ running = done /\ try = None /\ running \notin LocalRevs
        /\ \/ UNCHANGED <<mode, pending, status>>
           \/ /\ pending' = r /\ status' = "queued" /\ mode' = "download"
              /\ Atoi[r] >= Atoi[running]
    BY <1>0, <1>1 DEF TakeStep, bootenv, process, TrialInv
  <2>2. cloud[r] \in {"INPROGRESS", "DOWNLOADING", "QUEUED", "NEW"}
    BY <1>1, FoundSteps DEF TakeStep
  <2>3. r \notin LocalRevs /\ r # Factory
    BY <1>0, <2>2 DEF ReportedInv
  <2>4. /\ \A q \in Revs : q # r \/ r \in LocalRevs => cloud'[q] = cloud[q]
        /\ cloud'[r] \in {cloud[r], "FAILED", "QUEUED"}
    BY <1>0, <1>1, ReportOf DEF TakeStep
  <2>5. TrialInv'
    BY <1>0, <2>1 DEF TrialInv
  <2>6. ReportedInv'
    BY <1>0, <2>1, <2>3, <2>4, ObjectsAssumption DEF ReportedInv
  <2>7. NewerInv'
    BY <1>0, <2>1, <2>2, <2>4 DEF NewerInv, Newer
  <2> QED BY <2>5, <2>6, <2>7 DEF PhaseInv
<1>2. ASSUME NEW r \in Revs, QueueStep(r) \/ CloudPublish(r)
      PROVE  PhaseInv'
  <2>1. /\ UNCHANGED <<try, done, running, mode, pending, status>>
        /\ cloud[r] \in {"NEW", "none"} /\ r # Factory /\ r \notin LocalRevs
    BY <1>0, <1>2 DEF QueueStep, CloudPublish, bootenv, process, ReportedInv
  <2>2. /\ \A q \in Revs : q # r => cloud'[q] = cloud[q]
        /\ cloud'[r] \in {cloud[r], "FAILED", "QUEUED", "NEW"}
    BY <1>0, <1>2, ReportOf DEF QueueStep, CloudPublish
  <2>3. TrialInv'
    BY <1>0, <2>1 DEF TrialInv
  <2>4. ReportedInv'
    BY <1>0, <2>1, <2>2, ObjectsAssumption DEF ReportedInv
  <2>5. NewerInv'
    BY <1>0, <2>1, <2>2 DEF NewerInv, Newer
  <2> QED BY <2>3, <2>4, <2>5 DEF PhaseInv
<1>3. ASSUME NEW r \in Revs, CtrlLocalRun(r)
      PROVE  PhaseInv'
  <2>1. /\ UNCHANGED <<try, done, running, cloud>> /\ mode = "wait" /\ status = "none"
        /\ pending' = r /\ status' = "queued" /\ mode' = "download" /\ r \in LocalRevs
    BY <1>3 DEF CtrlLocalRun, bootenv
  <2>2. TrialInv'
    BY <1>0, <2>1 DEF TrialInv
  <2>3. ReportedInv'
    BY <1>0, <2>1 DEF ReportedInv
  <2>4. NewerInv'
    BY <1>0, <2>1 DEF NewerInv, Newer
  <2> QED BY <2>2, <2>3, <2>4 DEF PhaseInv
<1>4. CASE \/ \E r \in Revs : CtrlPutStep(r)
           \/ \E o \in Objs : CtrlPutObject(o)
           \/ GcCommand \/ GcThreshold \/ GcEnabledAgain \/ UNCHANGED vars
  <2>1. UNCHANGED <<try, done, running, cloud, mode, pending, status>>
    BY <1>4 DEF CtrlPutStep, CtrlPutObject, GcCommand, GcThreshold, GcEnabledAgain, bootenv,
         process, vars
  <2>2. TrialInv'
    BY <1>0, <2>1 DEF TrialInv
  <2>3. ReportedInv'
    BY <1>0, <2>1 DEF ReportedInv
  <2>4. NewerInv'
    BY <1>0, <2>1 DEF NewerInv, Newer
  <2> QED BY <2>2, <2>3, <2>4 DEF PhaseInv
<1> QED BY <1>1, <1>2, <1>3, <1>4

LEMMA PhaseNext == ProcessInv /\ PhaseInv /\ [Next]_vars => PhaseInv'
BY PhaseBoot, PhaseDownload, PhaseInstall, PhaseTrial, PhaseWait DEF Next, Device, Clients

-----------------------------------------------------------------------------
(***************************************************************************)
(* What was installed stays complete while it waits for its trial and      *)
(* during it, bound objects included.                                      *)
(***************************************************************************)
LEMMA ValidStays ==
  ASSUME NEW r \in Revs, Valid(r), state'[r] = state[r],
         \A o \in ObjsOf[r] : obj'[r][o] = obj[r][o],
         \A o \in ObjsOf[r] : pool[o] = "good" => pool'[o] = "good",
         \A i \in 1..JsonsOf[r] : js'[r][i] = js[r][i]
  PROVE  Valid(r)'
BY DEF Valid, ObjectValid, JsonValid

LEMMA TriedStays ==
  ASSUME StorageInv, ProcessInv, PhaseInv, [Next]_vars,
         NEW r \in Revs \ LocalRevs, r = try, Valid(r)
  PROVE  Valid(r)'
<1>0. /\ mode \notin Updating \cup Failing \cup {"committed"} /\ ~Idle /\ ObjsOf[r] \subseteq Objs
      /\ InTrial => pending = r
  BY ObjectsAssumption DEF PhaseInv, TrialInv
<1>1. CASE UNCHANGED storage
  BY <1>1, ValidStays DEF storage
<1>2. CASE GcCommand \/ GcThreshold
  <2>1. pending = r /\ pv_storage_gc_run
    BY <1>0, <1>2 DEF GcCommand, GcThreshold, PhaseInv, TrialInv
  <2> DEFINE gone == Revs \ Kept(Revs)
             l == [o \in Objs |-> links[o] \ gone]
  <2>2. r \notin gone /\ RmRevs(gone) /\ pool' = pv_storage_gc_objects(l)
    BY <2>1 DEF pv_storage_gc_run, Kept
  <2> HIDE DEF gone, l
  <2>3. /\ state'[r] = state[r] /\ obj'[r] = obj[r] /\ js'[r] = js[r]
        /\ \A o \in ObjsOf[r] : pool'[o] = pool[o]
    BY <1>0, <2>1, <2>2, ObjectsAssumption DEF RmRevs, pv_storage_gc_objects
  <2> QED BY <2>3, ValidStays
<1>3. ASSUME NEW o \in Objs, CtrlPutObject(o)
      PROVE  Valid(r)'
  <2>1. /\ UNCHANGED <<obj, js, state>>
        /\ \A p \in Objs : pool[p] = "good" => pool'[p] = "good"
    BY <1>3 DEF CtrlPutObject, StorageInv
  <2> QED BY <1>0, <2>1, ValidStays
<1>4. ASSUME NEW s \in Revs, CtrlPutStep(s)
      PROVE  Valid(r)'
  <2>1. UNCHANGED <<obj, js, pool>> /\ state'[r] = state[r]
    BY <1>4 DEF CtrlPutStep, StorageInv
  <2> QED BY <2>1, ValidStays
<1>5. CASE PowerLoss
  <2>1. UNCHANGED <<obj, js, pool>> /\ state'[r] = state[r]
    BY <1>0, <1>5 DEF PowerLoss, StorageInv, Updating
  <2> QED BY <2>1, ValidStays
<1>6. CASE \/ Boot \/ Test \/ Commit \/ ReportDone \/ Reboot
           \/ \E s \in Revs : TakeStep(s) \/ QueueStep(s) \/ CtrlLocalRun(s) \/ CloudPublish(s)
           \/ Retry \/ BeginLocal \/ Downloaded \/ Linked \/ SetInstalled \/ ReportInstalled
           \/ GcEnabledAgain \/ GiveUp \/ NoMeta \/ TestFails \/ UNCHANGED vars
  BY <1>1, <1>6
     DEF Boot, Test, Commit, ReportDone, Reboot, TakeStep, QueueStep, CtrlLocalRun, CloudPublish,
         Retry, BeginLocal, Downloaded, Linked, SetInstalled, ReportInstalled, GcEnabledAgain,
         GiveUp, NoMeta, TestFails, vars
<1>7. ~(\/ BeginDownload \/ NotEnoughSpace \/ WriteState \/ pv_storage_meta_expand_jsons
        \/ LinkFails \/ InstallFails \/ RemoveFailed \/ FinishFailed
        \/ \E o \in Objs : trail_download_object(o) \/ trail_link_objects(o) \/ ObjectFails(o))
  BY <1>0 DEF BeginDownload, NotEnoughSpace, WriteState, pv_storage_meta_expand_jsons,
       trail_download_object, trail_link_objects, LinkFails, InstallFails, RemoveFailed,
       FinishFailed, ObjectFails, Updating, Failing
<1> QED
  BY <1>2, <1>3, <1>4, <1>5, <1>6, <1>7 DEF Next, Device, Clients

-----------------------------------------------------------------------------
(***************************************************************************)
(* If no report is lost, the cloud knows how far a step has come: what it  *)
(* has as not begun has no json on the device, what is installed is in     *)
(* progress, and what was committed was tested.                            *)
(***************************************************************************)
Waiting == {"none", "NEW", "QUEUED", "DOWNLOADING"}

JsonsInv ==
  \A r \in Revs \ LocalRevs :
    cloud[r] \in Waiting => \A i \in 1..JsonsOf[r] : js[r][i] = "none"

KnownInv ==
  /\ done \notin LocalRevs \cup {Factory} => cloud[done] \in {"TESTING", "DONE"}
  /\ pending \notin LocalRevs =>
       /\ status \in {"queued", "retry"} /\ mode \in {"download", "fetch", "wait"} =>
            cloud[pending] \in Waiting
       /\ mode \in {"link", "state", "expand", "failed"} \cup Installed =>
            cloud[pending] = "INPROGRESS"
       /\ mode = "finish" => cloud[pending] \in {"INPROGRESS", "FAILED"}
       /\ status = "testing" => cloud[pending] = "TESTING"
  /\ try # None /\ try \notin LocalRevs =>
       cloud[try] \in {"INPROGRESS", "TESTING"} /\ try # done

\* What the phases of an install have put together, the storage not being full.
BuiltInv ==
  pending # None /\ pending \notin LocalRevs =>
    /\ mode = "fetch" => \A o \in ObjsOf[pending] \ left : pool[o] = "good"
    /\ mode \in {"link", "state", "expand"} => \A o \in ObjsOf[pending] : pool[o] = "good"
    /\ mode = "link" => \A o \in ObjsOf[pending] \ left : obj[pending][o] = "good"
    /\ mode \in {"state", "expand"} => \A o \in ObjsOf[pending] : obj[pending][o] = "good"
    /\ mode \in {"link", "state"} => \A i \in 1..JsonsOf[pending] : js[pending][i] = "none"
    /\ mode = "expand" =>
         /\ state[pending] = "good"
         /\ \A i \in 1..JsonsOf[pending] : js[pending][i] = IF i < next THEN "good" ELSE "none"

TriedInv == try # None /\ try \notin LocalRevs => Valid(try)

CloudInv ==
  "report" \notin faults =>
    JsonsInv /\ KnownInv /\ ("disk" \notin faults => BuiltInv /\ TriedInv)

\* Between installs there is nothing to build, and what is tried stays as it is.
LEMMA TriedSame ==
  ASSUME StorageInv, ProcessInv, PhaseInv, TriedInv, [Next]_vars, try' \in {try, None}
  PROVE  TriedInv'
<1> SUFFICES ASSUME try' # None, try' \notin LocalRevs
             PROVE  Valid(try)'
  BY DEF TriedInv
<1>1. PICK r \in Revs \ LocalRevs : r = try
  BY DEF ProcessInv
<1>2. try' = r /\ Valid(r)
  BY <1>1 DEF TriedInv
<1>3. Valid(r)'
  BY <1>1, <1>2, TriedStays
<1> QED BY <1>2, <1>3 DEF Valid, ObjectValid, JsonValid

\* Who writes jsons, and of which revisions.
LEMMA JsonsKept ==
  ASSUME StorageInv, ProcessInv, [Next]_vars,
         NEW r \in Revs, mode = "expand" => r # pending, NEW i \in 1..JsonsOf[r],
         js[r][i] = "none"
  PROVE  js'[r][i] = "none"
<1>1. CASE js' = js
  BY <1>1
<1>2. ASSUME NEW S, RmRevs(S)
      PROVE  js'[r][i] = "none"
  BY <1>2 DEF RmRevs
<1>3. CASE pv_storage_gc_run
  BY <1>2, <1>3 DEF pv_storage_gc_run
<1>4. CASE pv_storage_meta_expand_jsons \/ PowerLoss
  BY <1>4 DEF pv_storage_meta_expand_jsons, PowerLoss, StorageInv
<1>5. CASE BeginDownload \/ GcCommand \/ GcThreshold \/ NotEnoughSpace
  BY <1>1, <1>3, <1>5 DEF BeginDownload, GcCommand, GcThreshold, NotEnoughSpace, GcNeeded, storage
<1>6. CASE RemoveFailed
  BY <1>2, <1>6 DEF RemoveFailed
<1>7. CASE \/ Boot \/ Test \/ Commit \/ ReportDone \/ Reboot
           \/ \E s \in Revs : TakeStep(s) \/ QueueStep(s) \/ CtrlLocalRun(s) \/ CloudPublish(s)
                                \/ CtrlPutStep(s)
           \/ Retry \/ BeginLocal \/ Downloaded \/ Linked \/ SetInstalled \/ ReportInstalled
           \/ \E o \in Objs : CtrlPutObject(o) \/ trail_download_object(o) \/ ObjectFails(o)
                                \/ trail_link_objects(o)
           \/ WriteState \/ LinkFails \/ InstallFails \/ FinishFailed
           \/ GcEnabledAgain \/ GiveUp \/ NoMeta \/ TestFails \/ UNCHANGED vars
  BY <1>1, <1>7
     DEF Boot, Test, Commit, ReportDone, Reboot, TakeStep, QueueStep, CtrlLocalRun, CloudPublish,
         CtrlPutStep, Retry, BeginLocal, Downloaded, Linked, SetInstalled, ReportInstalled,
         CtrlPutObject, trail_download_object, ObjectFails, trail_link_objects, WriteState,
         LinkFails, InstallFails, FinishFailed, GcEnabledAgain, GiveUp, NoMeta, TestFails, storage, vars
<1> QED BY <1>3, <1>4, <1>5, <1>6, <1>7 DEF Next, Device, Clients

\* No step goes back to waiting.
Onwards == \A q \in Revs \ LocalRevs : cloud'[q] \in Waiting => cloud[q] \in Waiting

KnownStep == KnownInv' /\ Onwards

\* A report that arrives: only the step it is about changes.
LEMMA Arrived ==
  ASSUME ProcessInv, "report" \notin faults', NEW r \in Revs, NEW s, trail_remote_set_status(r, s)
  PROVE  /\ \A q \in Revs : q # r \/ r \in LocalRevs => cloud'[q] = cloud[q]
         /\ r \notin LocalRevs => cloud'[r] = s
BY ReportOf DEF ProcessInv

LEMMA KnownBoot ==
  ASSUME ProcessInv, PhaseInv, KnownInv, "report" \notin faults', Boot
  PROVE  KnownStep
<1> USE DEF Updating, Installed, Failing, InTrial, Idle, Waiting
<1>0. /\ cloud \in [Revs -> Steps] /\ None \notin Revs /\ Factory \in Revs \ LocalRevs
      /\ done' = done /\ done \in Revs /\ mode = "off" /\ status = "none"
      /\ TrialInv /\ ReportedInv
  BY ObjectsAssumption DEF ProcessInv, PhaseInv, TrialInv, Boot
<1>1. CASE (Start(try) \/ Start(done)) /\ UNCHANGED <<try, cloud>>
  <2>1. mode' \in {"off", "wait"} /\ status' \in {"none", "try"}
    BY <1>0, <1>1 DEF Start, PowerOff
  <2> QED BY <1>0, <1>1, <2>1 DEF KnownStep, KnownInv, Onwards
<1>2. CASE /\ try # None /\ try' = None /\ status' = "none"
           /\ IF Valid(done) THEN trail_remote_set_status(try, "FAILED") ELSE cloud' = cloud
           /\ mode' = (IF Valid(done) THEN "wait" ELSE "off")
  <2>1. try \in Revs
    BY <1>2 DEF ProcessInv
  <2>2. /\ \A q \in Revs : q # try \/ try \in LocalRevs => cloud'[q] = cloud[q]
        /\ try \notin LocalRevs => cloud'[try] \in {cloud[try], "FAILED"}
    BY <1>0, <1>2, <2>1, Arrived
  <2>3. mode' \in {"off", "wait"} /\ status' = "none" /\ try' = None
    BY <1>2
  <2>4. Onwards
    BY <2>1, <2>2 DEF Onwards
  <2>5. done \notin LocalRevs \cup {Factory} => cloud'[done] \in {"TESTING", "DONE"}
    BY <1>0, <1>2, <2>1, <2>2 DEF KnownInv
  <2>6. done' = done /\ cloud'[done'] = cloud'[done]
    BY <1>0
  <2>7. KnownInv'
    BY <2>3, <2>5, <2>6 DEF KnownInv
  <2> QED BY <2>4, <2>7 DEF KnownStep
<1>3. \/ (Start(try) \/ Start(done)) /\ UNCHANGED <<try, cloud>>
      \/ /\ try # None /\ try' = None /\ status' = "none"
         /\ IF Valid(done) THEN trail_remote_set_status(try, "FAILED") ELSE cloud' = cloud
         /\ mode' = (IF Valid(done) THEN "wait" ELSE "off")
  BY DEF Boot
<1> QED BY <1>1, <1>2, <1>3

LEMMA KnownDownload ==
  ASSUME ProcessInv, PhaseInv, KnownInv, "report" \notin faults',
         \/ Retry \/ GiveUp \/ BeginDownload \/ NotEnoughSpace \/ NoMeta \/ BeginLocal
         \/ Downloaded \/ \E o \in Objs : trail_download_object(o) \/ ObjectFails(o)
  PROVE  KnownStep
<1> USE DEF Updating, Installed, Failing, InTrial, Idle, Waiting
<1>0. /\ cloud \in [Revs -> Steps] /\ Factory \in Revs \ LocalRevs
      /\ done \in Revs /\ TrialInv /\ ReportedInv /\ None \notin Revs
  BY ObjectsAssumption DEF ProcessInv, PhaseInv
<1>1. CASE GiveUp \/ NotEnoughSpace
  <2>1. /\ pending \in Revs \ {Factory} /\ NoDownload /\ try = None
        /\ pending \notin LocalRevs => cloud[pending] \in Waiting
    BY <1>0, <1>1 DEF GiveUp, NotEnoughSpace, ProcessInv, WorkInv, TrialInv, ReportedInv, KnownInv
  <2>2. /\ \A q \in Revs : q # pending \/ pending \in LocalRevs => cloud'[q] = cloud[q]
        /\ pending \notin LocalRevs => cloud'[pending] = "WONTGO"
    BY <2>1, Arrived DEF NoDownload
  <2>3. UNCHANGED <<try, done, running>> /\ status' = "none" /\ mode' = "wait"
    BY <2>1 DEF NoDownload, bootenv
  <2> QED BY <1>0, <2>1, <2>2, <2>3 DEF KnownStep, KnownInv, Onwards
<1>2. CASE NoMeta \/ \E o \in Objs : ObjectFails(o)
  <2>1. /\ pending \in Revs \ (LocalRevs \cup {Factory}) /\ RetryDownload /\ try = None
        /\ cloud[pending] \in Waiting
    BY <1>0, <1>2
       DEF NoMeta, ObjectFails, ProcessInv, WorkInv, TrialInv, ReportedInv, KnownInv
  <2>2. /\ \A q \in Revs : q # pending => cloud'[q] = cloud[q]
        /\ cloud'[pending] \in {cloud[pending], "QUEUED"}
    BY <1>0, <2>1 DEF RetryDownload
  <2>3. UNCHANGED <<try, done, running, pending>> /\ status' = "retry" /\ mode' = "wait"
    BY <2>1 DEF RetryDownload, bootenv
  <2> QED BY <1>0, <2>1, <2>2, <2>3 DEF KnownStep, KnownInv, Onwards
<1>3. CASE BeginDownload \/ Downloaded
  <2>1. /\ pending \in Revs \ {Factory} /\ try = None /\ status \in {"queued", "retry"}
        /\ pending \notin LocalRevs => cloud[pending] \in Waiting
    BY <1>0, <1>3 DEF BeginDownload, Downloaded, ProcessInv, WorkInv, TrialInv, ReportedInv, KnownInv
  <2>2. /\ \A q \in Revs : q # pending \/ pending \in LocalRevs => cloud'[q] = cloud[q]
        /\ \/ mode' = "fetch" /\ (pending \notin LocalRevs => cloud'[pending] = "DOWNLOADING")
           \/ mode' = "link" /\ (pending \notin LocalRevs => cloud'[pending] = "INPROGRESS")
    BY <1>3, <2>1, Arrived DEF BeginDownload, Downloaded
  <2>3. UNCHANGED <<try, done, running, pending, status>>
    BY <1>3 DEF BeginDownload, Downloaded, bootenv
  <2> QED BY <1>0, <2>1, <2>2, <2>3 DEF KnownStep, KnownInv, Onwards
<1>4. CASE Retry \/ BeginLocal \/ \E o \in Objs : trail_download_object(o)
  <2>1. /\ UNCHANGED <<try, done, running, pending, status, cloud>>
        /\ \/ mode = "wait" /\ status = "retry" /\ mode' = "download"
           \/ mode = "download" /\ mode' = "link" /\ pending \in LocalRevs
           \/ mode = "fetch" /\ mode' = "fetch"
    BY <1>4 DEF Retry, BeginLocal, trail_download_object, bootenv
  <2> QED BY <1>0, <2>1 DEF KnownStep, KnownInv, Onwards
<1> QED BY <1>1, <1>2, <1>3, <1>4

LEMMA KnownInstall ==
  ASSUME ProcessInv, PhaseInv, KnownInv, "report" \notin faults',
         \/ Linked \/ WriteState \/ pv_storage_meta_expand_jsons \/ SetInstalled
         \/ ReportInstalled \/ \E o \in Objs : trail_link_objects(o)
         \/ LinkFails \/ InstallFails \/ RemoveFailed \/ FinishFailed
  PROVE  KnownStep
<1> USE DEF Updating, Installed, Failing, InTrial, Idle, Waiting
<1>0. /\ cloud \in [Revs -> Steps] /\ Factory \in Revs \ LocalRevs /\ None \notin Revs
      /\ done \in Revs /\ TrialInv /\ ReportedInv
  BY ObjectsAssumption DEF ProcessInv, PhaseInv
<1>1. CASE \/ Linked \/ WriteState \/ pv_storage_meta_expand_jsons
           \/ \E o \in Objs : trail_link_objects(o)
  <2>1. /\ UNCHANGED <<try, done, running, pending, status, cloud>>
        /\ mode \in {"link", "state", "expand"} /\ mode' \in {"link", "state", "expand"}
    BY <1>1 DEF Linked, WriteState, pv_storage_meta_expand_jsons, trail_link_objects, bootenv
  <2> QED BY <1>0, <2>1 DEF KnownStep, KnownInv, Onwards, TrialInv
<1>2. CASE SetInstalled
  <2>1. /\ try' = pending /\ UNCHANGED <<done, running, pending, status, cloud>>
        /\ mode = "expand" /\ mode' = "installed" /\ status \in {"queued", "retry"}
        /\ pending \in Revs \ {Factory}
    BY <1>0, <1>2 DEF SetInstalled, TrialInv, ReportedInv, ProcessInv, WorkInv
  <2> QED BY <1>0, <2>1 DEF KnownStep, KnownInv, Onwards
<1>3. CASE ReportInstalled
  <2>1. /\ UNCHANGED <<try, done, running, pending, status>> /\ status \in {"queued", "retry"}
        /\ mode = "installed" /\ mode' = "reboot" /\ pending \in Revs \ {Factory}
        /\ pending = try
    BY <1>0, <1>3 DEF ReportInstalled, bootenv, ProcessInv, WorkInv, TrialInv, ReportedInv
  <2>2. /\ \A q \in Revs : q # pending \/ pending \in LocalRevs => cloud'[q] = cloud[q]
        /\ pending \notin LocalRevs => cloud'[pending] = "INPROGRESS"
    BY <1>3, <2>1, Arrived DEF ReportInstalled
  <2>3. pending \notin LocalRevs => done # pending /\ cloud[pending] = "INPROGRESS"
    BY <1>0, <2>1 DEF KnownInv
  <2> QED BY <1>0, <2>1, <2>2, <2>3 DEF KnownStep, KnownInv, Onwards
<1>4. CASE LinkFails \/ InstallFails
  <2>1. /\ UNCHANGED <<try, done, running, pending, cloud>>
        /\ mode \in {"link", "state", "expand"} /\ mode' = "failed"
        /\ status' \in {status, "failed"} /\ status \in {"queued", "retry"}
    BY <1>0, <1>4 DEF LinkFails, InstallFails, bootenv, TrialInv
  <2> QED BY <1>0, <2>1 DEF KnownStep, KnownInv, Onwards
<1>5. CASE RemoveFailed
  <2>1. /\ UNCHANGED <<try, done, running, pending, status>> /\ try = None
        /\ status \in {"queued", "retry", "failed"}
        /\ mode = "failed" /\ mode' = "finish" /\ pending \in Revs \ {Factory}
    BY <1>0, <1>5 DEF RemoveFailed, bootenv, ProcessInv, WorkInv, TrialInv, ReportedInv
  <2>2. /\ \A q \in Revs : q # pending \/ pending \in LocalRevs => cloud'[q] = cloud[q]
        /\ pending \notin LocalRevs => cloud'[pending] \in {cloud[pending], "FAILED"}
    BY <1>5, <2>1, Arrived DEF RemoveFailed
  <2>3. pending \notin LocalRevs => done # pending /\ cloud[pending] = "INPROGRESS"
    BY <1>0, <2>1 DEF KnownInv
  <2> QED BY <1>0, <2>1, <2>2, <2>3 DEF KnownStep, KnownInv, Onwards
<1>6. CASE FinishFailed
  <2>1. /\ try' = None /\ UNCHANGED <<done, running>> /\ status' = "none"
        /\ mode' = "wait" /\ mode = "finish" /\ pending \in Revs \ {Factory}
    BY <1>0, <1>6 DEF FinishFailed, ProcessInv, WorkInv, TrialInv, ReportedInv
  <2>2. /\ \A q \in Revs : q # pending \/ pending \in LocalRevs => cloud'[q] = cloud[q]
        /\ pending \notin LocalRevs => cloud'[pending] \in {"INPROGRESS", "FAILED"}
    BY <1>6, <2>1, Arrived DEF FinishFailed
  <2>3. pending \notin LocalRevs => done # pending
    BY <1>0, <2>1 DEF KnownInv
  <2> QED BY <1>0, <2>1, <2>2, <2>3 DEF KnownStep, KnownInv, Onwards
<1> QED BY <1>1, <1>2, <1>3, <1>4, <1>5, <1>6

LEMMA KnownTrial ==
  ASSUME ProcessInv, PhaseInv, KnownInv, "report" \notin faults',
         Test \/ Commit \/ ReportDone \/ Reboot \/ TestFails \/ PowerLoss
  PROVE  KnownStep
<1> USE DEF Updating, Installed, Failing, InTrial, Idle, Waiting
<1>0. /\ cloud \in [Revs -> Steps] /\ Factory \in Revs \ LocalRevs /\ None \notin Revs
      /\ done \in Revs /\ TrialInv /\ ReportedInv
  BY ObjectsAssumption DEF ProcessInv, PhaseInv
<1>1. CASE Test
  <2>1. /\ UNCHANGED <<try, done, running, pending, mode>> /\ mode = "wait" /\ status = "try"
        /\ status' = "testing" /\ pending \in Revs \ {Factory} /\ pending = try
    BY <1>0, <1>1 DEF Test, bootenv, ProcessInv, WorkInv, ReportedInv, TrialInv
  <2>2. /\ \A q \in Revs : q # pending \/ pending \in LocalRevs => cloud'[q] = cloud[q]
        /\ pending \notin LocalRevs => cloud'[pending] = "TESTING"
    BY <1>1, <2>1, Arrived DEF Test
  <2>3. pending \notin LocalRevs => done # pending
    BY <1>0, <2>1 DEF KnownInv
  <2> QED BY <1>0, <2>1, <2>2, <2>3 DEF KnownStep, KnownInv, Onwards
<1>2. CASE Commit
  <2>1. /\ done' = running /\ try' = None /\ mode' = "committed" /\ status = "testing"
        /\ UNCHANGED <<running, pending, status, cloud>> /\ running = pending
    BY <1>0, <1>2 DEF Commit, TrialInv
  <2> QED BY <1>0, <2>1 DEF KnownStep, KnownInv, Onwards
<1>3. CASE ReportDone
  <2>1. /\ UNCHANGED <<try, done, running>> /\ mode' = "wait" /\ status' = "none"
        /\ pending \in Revs \ {Factory} /\ done = pending /\ try = None
    BY <1>0, <1>3 DEF ReportDone, bootenv, ProcessInv, WorkInv, TrialInv, ReportedInv
  <2>2. /\ \A q \in Revs : q # pending \/ pending \in LocalRevs => cloud'[q] = cloud[q]
        /\ pending \notin LocalRevs => cloud'[pending] = "DONE"
    BY <1>3, <2>1, Arrived DEF ReportDone
  <2> QED BY <1>0, <2>1, <2>2 DEF KnownStep, KnownInv, Onwards
<1>4. CASE Reboot \/ TestFails \/ PowerLoss
  <2>1. /\ UNCHANGED <<try, done, cloud>> /\ mode' = "off" /\ status' = "none"
    BY <1>4 DEF Reboot, TestFails, PowerLoss, PowerOff, bootenv
  <2> QED BY <1>0, <2>1 DEF KnownStep, KnownInv, Onwards
<1> QED BY <1>1, <1>2, <1>3, <1>4

LEMMA KnownWait ==
  ASSUME ProcessInv, PhaseInv, KnownInv, "report" \notin faults',
         \/ \E r \in Revs : TakeStep(r) \/ QueueStep(r) \/ CtrlPutStep(r) \/ CtrlLocalRun(r)
                              \/ CloudPublish(r)
         \/ \E o \in Objs : CtrlPutObject(o)
         \/ GcCommand \/ GcThreshold \/ GcEnabledAgain \/ UNCHANGED vars
  PROVE  KnownStep
<1> USE DEF Updating, Installed, Failing, InTrial, Idle, Waiting
<1>0. /\ cloud \in [Revs -> Steps] /\ Factory \in Revs \ LocalRevs /\ None \notin Revs
      /\ done \in Revs /\ TrialInv /\ ReportedInv
  BY ObjectsAssumption DEF ProcessInv, PhaseInv
<1>1. ASSUME NEW r \in Revs, TakeStep(r)
      PROVE  KnownStep
  <2>1. /\ UNCHANGED <<try, done>> /\ mode = "wait" /\ status = "none" /\ try = None
        /\ cloud[r] \in {"INPROGRESS", "DOWNLOADING", "QUEUED", "NEW"}
    BY <1>0, <1>1, FoundSteps DEF TakeStep, bootenv, TrialInv
  <2>2. r \notin LocalRevs /\ r # Factory /\ r # done
    BY <1>0, <2>1 DEF ReportedInv, KnownInv
  <2>3. /\ \A q \in Revs : q # r => cloud'[q] = cloud[q]
        /\ \/ cloud'[r] = "FAILED" /\ UNCHANGED <<mode, pending, status>>
           \/ /\ cloud'[r] = "QUEUED" /\ cloud[r] # "INPROGRESS"
              /\ pending' = r /\ status' = "queued" /\ mode' = "download"
    BY <1>1, <2>2, Arrived DEF TakeStep, process
  <2> QED BY <1>0, <2>1, <2>2, <2>3 DEF KnownStep, KnownInv, Onwards
<1>2. ASSUME NEW r \in Revs, QueueStep(r) \/ CloudPublish(r)
      PROVE  KnownStep
  <2>1. /\ UNCHANGED <<try, done, running, mode, pending, status>>
        /\ cloud[r] \in {"NEW", "none"} /\ r # Factory /\ r \notin LocalRevs
    BY <1>0, <1>2 DEF QueueStep, CloudPublish, bootenv, process, ReportedInv
  <2>2. /\ \A q \in Revs : q # r => cloud'[q] = cloud[q]
        /\ \/ cloud'[r] \in {"QUEUED", "FAILED"} /\ mode = "wait" /\ status \in {"try", "testing"}
           \/ cloud'[r] = "NEW"
    BY <1>0, <1>2, <2>1, Arrived DEF QueueStep, CloudPublish
  <2>3. r # done /\ r # try /\ (r = pending => cloud'[r] = "NEW" /\ cloud[r] \in Waiting)
    BY <1>0, <2>1, <2>2 DEF KnownInv, TrialInv
  <2>4. \A q \in Revs : q # r => cloud'[q] = cloud[q]
    BY <2>2
  <2>5. Onwards
    BY <2>1, <2>4 DEF Onwards
  <2>6. r = pending => /\ mode \notin {"link", "state", "expand"} \cup Failing \cup Installed
                       /\ status # "testing"
    BY <2>1 DEF KnownInv
  <2>7. pending \in Revs \/ ~(status \in {"queued", "retry", "testing"}
                               \/ mode \in {"link", "state", "expand"} \cup Failing \cup Installed)
    BY DEF ProcessInv, WorkInv
  <2> QED BY <1>0, <2>1, <2>3, <2>4, <2>5, <2>6, <2>7 DEF KnownStep, KnownInv, ProcessInv
<1>3. ASSUME NEW r \in Revs, CtrlLocalRun(r)
      PROVE  KnownStep
  <2>1. /\ UNCHANGED <<try, done, running, cloud>>
        /\ pending' = r /\ status' = "queued" /\ mode' = "download" /\ r \in LocalRevs
    BY <1>3 DEF CtrlLocalRun, bootenv
  <2> QED BY <1>0, <2>1 DEF KnownStep, KnownInv, Onwards
<1>4. CASE \/ \E r \in Revs : CtrlPutStep(r)
           \/ \E o \in Objs : CtrlPutObject(o)
           \/ GcCommand \/ GcThreshold \/ GcEnabledAgain \/ UNCHANGED vars
  <2>1. UNCHANGED <<try, done, running, cloud, mode, pending, status>>
    BY <1>4 DEF CtrlPutStep, CtrlPutObject, GcCommand, GcThreshold, GcEnabledAgain, bootenv,
         process, vars
  <2> QED BY <1>0, <2>1 DEF KnownStep, KnownInv, Onwards
<1> QED BY <1>1, <1>2, <1>3, <1>4

LEMMA KnownNext ==
  ASSUME ProcessInv, PhaseInv, KnownInv, "report" \notin faults', [Next]_vars
  PROVE  KnownStep
BY KnownBoot, KnownDownload, KnownInstall, KnownTrial, KnownWait DEF Next, Device, Clients

LEMMA JsonsNext ==
  ASSUME StorageInv, ProcessInv, JsonsInv, KnownInv, Onwards, [Next]_vars
  PROVE  JsonsInv'
<1> SUFFICES ASSUME NEW r \in Revs \ LocalRevs, cloud'[r] \in Waiting, NEW i \in 1..JsonsOf[r]
             PROVE  js'[r][i] = "none"
  BY DEF JsonsInv, Waiting
<1>1. cloud[r] \in Waiting /\ js[r][i] = "none"
  BY DEF Onwards, JsonsInv
<1>2. mode = "expand" => r # pending
  BY <1>1 DEF KnownInv, Waiting
<1> QED BY <1>1, <1>2, JsonsKept

\* Only an update that was taken on, or the next phase of it, has something to build.
LEMMA BuiltNext ==
  ASSUME StorageInv, ProcessInv, PhaseInv, JsonsInv, KnownInv, BuiltInv, "disk" \notin faults',
         [Next]_vars
  PROVE  BuiltInv'
<1> SUFFICES ASSUME pending' # None, pending' \notin LocalRevs,
                    mode' \in {"fetch", "link", "state", "expand"}
             PROVE  BuiltInv'
  BY DEF BuiltInv
<1>0. /\ ObjsOf \in [Revs -> SUBSET Objs] /\ JsonsOf \in [Revs -> Nat] /\ None \notin Revs
      /\ ~Fault("disk")
  BY ObjectsAssumption DEF Fault
<1>1. CASE BeginDownload
  <2>1. mode' = "fetch" /\ pending' = pending /\ left' = ObjsOf[pending]
    BY <1>1 DEF BeginDownload
  <2> QED BY <2>1 DEF BuiltInv
<1>2. ASSUME NEW o \in Objs, trail_download_object(o)
      PROVE  BuiltInv'
  <2>1. /\ mode = "fetch" /\ mode' = mode /\ pending' = pending /\ left' = left \ {o}
        /\ pool' = pool \/ pool' = [pool EXCEPT ![o] = "good"]
        /\ pool'[o] = "good"
    BY <1>2 DEF trail_download_object, StorageInv
  <2>2. pending \in Revs /\ ObjsOf[pending] \subseteq Objs
    BY <1>0, <2>1 DEF ProcessInv
  <2>3. \A p \in ObjsOf[pending] \ left' : pool'[p] = "good"
    BY <2>1, <2>2 DEF BuiltInv, StorageInv
  <2> QED BY <2>1, <2>3 DEF BuiltInv
<1>3. CASE Downloaded
  <2>1. /\ mode = "fetch" /\ left = {} /\ mode' = "link" /\ pending' = pending
        /\ left' = ObjsOf[pending] /\ UNCHANGED <<pool, js>>
    BY <1>3 DEF Downloaded, storage
  <2>2. cloud[pending] \in Waiting /\ pending \in Revs \ LocalRevs
    BY <2>1 DEF KnownInv, PhaseInv, TrialInv, Updating, ProcessInv
  <2>3. \A i \in 1..JsonsOf[pending] : js[pending][i] = "none"
    BY <2>2 DEF JsonsInv
  <2>4. \A o \in ObjsOf[pending] : pool[o] = "good"
    BY <2>1 DEF BuiltInv
  <2> QED BY <2>1, <2>3, <2>4 DEF BuiltInv
<1>4. ASSUME NEW o \in Objs, trail_link_objects(o)
      PROVE  BuiltInv'
  <2>1. /\ mode = "link" /\ mode' = mode /\ pending' = pending /\ left' = left \ {o}
        /\ UNCHANGED <<pool, js>> /\ o \in left
    BY <1>4 DEF trail_link_objects
  <2>2. pending \in Revs /\ left \subseteq ObjsOf[pending] /\ ObjsOf[pending] \subseteq Objs
    BY <1>0, <2>1 DEF ProcessInv, WorkInv
  <2>3. pool[o] = "good"
    BY <2>1, <2>2 DEF BuiltInv
  <2>4. \A p \in Objs : p # o => obj'[pending][p] = obj[pending][p]
    BY <1>0, <1>4, <2>2 DEF trail_link_objects, LinkObject, CopyObject, CopyCutShort, StorageInv
  <2>5. obj'[pending][o] = "good"
    BY <1>0, <1>4, <2>2, <2>3
       DEF trail_link_objects, LinkObject, CopyObject, CopyCutShort, StorageInv, LinksInv
  <2>6. \A p \in ObjsOf[pending] \ left' : obj'[pending][p] = "good"
    BY <2>1, <2>2, <2>4, <2>5 DEF BuiltInv
  <2> QED BY <2>1, <2>6 DEF BuiltInv
<1>5. CASE Linked
  <2>1. /\ mode = "link" /\ left = {} /\ mode' = "state" /\ pending' = pending
        /\ UNCHANGED <<pool, obj, js>>
    BY <1>5 DEF Linked, storage
  <2> QED BY <2>1 DEF BuiltInv
<1>6. CASE WriteState
  <2>1. /\ mode = "state" /\ mode' = "expand" /\ pending' = pending /\ next' = 1
        /\ UNCHANGED <<pool, obj, js>> /\ pending \in Revs /\ state'[pending] = "good"
    BY <1>0, <1>6 DEF WriteState, ProcessInv, StorageInv, WorkInv
  <2> QED BY <1>0, <2>1 DEF BuiltInv
<1>7. CASE pv_storage_meta_expand_jsons
  <2>1. /\ mode = "expand" /\ mode' = mode /\ pending' = pending /\ pending \in Revs
        /\ UNCHANGED <<pool, obj, state>> /\ next <= JsonsOf[pending]
        /\ next \in Nat /\ next >= 1
    BY <1>7 DEF pv_storage_meta_expand_jsons, ProcessInv, WorkInv, NextInv
  <2>2. js[pending][next] = "none"
    BY <1>0, <2>1 DEF BuiltInv
  <2>3. js' = [js EXCEPT ![pending][next] = "good"] /\ next' = next + 1
    BY <1>0, <1>7, <2>2 DEF pv_storage_meta_expand_jsons
  <2>4. \A i \in 1..JsonsOf[pending] :
           js'[pending][i] = IF i = next THEN "good" ELSE js[pending][i]
    BY <2>1, <2>3 DEF StorageInv
  <2>5. \A i \in 1..JsonsOf[pending] : js'[pending][i] = IF i < next' THEN "good" ELSE "none"
    BY <1>0, <2>1, <2>3, <2>4 DEF BuiltInv
  <2> QED BY <2>1, <2>5 DEF BuiltInv
<1>8. CASE UNCHANGED vars \/ \E r \in Revs : CloudPublish(r)
  <2>1. UNCHANGED <<mode, pending, left, next, pool, obj, js, state>>
    BY <1>8 DEF CloudPublish, storage, process, vars
  <2> QED BY <2>1 DEF BuiltInv
<1>9. ~(\/ Boot \/ Test \/ Commit \/ ReportDone \/ Reboot \/ TestFails \/ PowerLoss
        \/ GiveUp \/ NotEnoughSpace \/ NoMeta \/ Retry \/ BeginLocal \/ SetInstalled
        \/ ReportInstalled \/ GcCommand \/ GcThreshold \/ GcEnabledAgain
        \/ LinkFails \/ InstallFails \/ RemoveFailed \/ FinishFailed
        \/ \E o \in Objs : CtrlPutObject(o) \/ ObjectFails(o)
        \/ \E r \in Revs : TakeStep(r) \/ QueueStep(r) \/ CtrlPutStep(r) \/ CtrlLocalRun(r))
  BY DEF Boot, Start, PowerOff, Test, Commit, ReportDone, Reboot, TestFails, PowerLoss, GiveUp,
       NotEnoughSpace, NoMeta, NoDownload, RetryDownload, Retry, BeginLocal, SetInstalled,
       ReportInstalled, GcCommand, GcThreshold, GcEnabledAgain, CtrlPutObject, ObjectFails,
       LinkFails, InstallFails, RemoveFailed, FinishFailed, TakeStep, QueueStep, CtrlPutStep,
       CtrlLocalRun, process
<1> QED
  BY <1>1, <1>2, <1>3, <1>4, <1>5, <1>6, <1>7, <1>8, <1>9 DEF Next, Device, Clients

LEMMA TriedNext ==
  ASSUME StorageInv, ProcessInv, PhaseInv, BuiltInv, TriedInv, [Next]_vars
  PROVE  TriedInv'
<1>1. CASE SetInstalled
  <2>1. /\ mode = "expand" /\ next = JsonsOf[pending] + 1 /\ try' = pending /\ pending \in Revs
        /\ UNCHANGED <<pool, obj, js, state>>
    BY <1>1 DEF SetInstalled, ProcessInv, WorkInv, storage
  <2>2. pending \notin LocalRevs => Valid(pending)
    BY <2>1, ObjectsAssumption DEF BuiltInv, Valid, ObjectValid, JsonValid
  <2> QED BY <2>1, <2>2 DEF TriedInv, Valid, ObjectValid, JsonValid
<1>2. CASE ~SetInstalled
  <2>1. CASE \/ Boot \/ Test \/ Commit \/ ReportDone \/ Reboot \/ TestFails \/ PowerLoss
             \/ \E s \in Revs : TakeStep(s) \/ QueueStep(s) \/ CtrlLocalRun(s) \/ CloudPublish(s)
                                 \/ CtrlPutStep(s)
             \/ \E o \in Objs : CtrlPutObject(o)
             \/ GcCommand \/ GcThreshold \/ GcEnabledAgain \/ UNCHANGED vars
    <3>1. try' \in {try, None}
      BY <2>1
         DEF Boot, Test, Commit, ReportDone, Reboot, TestFails, PowerLoss, TakeStep, QueueStep,
             CtrlLocalRun, CloudPublish, CtrlPutStep, CtrlPutObject, GcCommand, GcThreshold,
             GcEnabledAgain, bootenv, vars
    <3> QED BY <3>1, TriedSame
  <2>2. CASE \/ Retry \/ GiveUp \/ BeginDownload \/ NotEnoughSpace \/ NoMeta \/ BeginLocal
             \/ Downloaded \/ Linked \/ WriteState \/ pv_storage_meta_expand_jsons
             \/ ReportInstalled \/ LinkFails \/ InstallFails \/ RemoveFailed \/ FinishFailed
             \/ \E o \in Objs : \/ trail_download_object(o) \/ ObjectFails(o)
                                \/ trail_link_objects(o)
    <3>1. try' \in {try, None}
      BY <2>2
         DEF Retry, GiveUp, BeginDownload, NotEnoughSpace, NoMeta, BeginLocal, Downloaded, Linked,
             WriteState, pv_storage_meta_expand_jsons, ReportInstalled, trail_download_object,
             ObjectFails, trail_link_objects, LinkFails, InstallFails, RemoveFailed, FinishFailed,
             NoDownload, RetryDownload, bootenv
    <3> QED BY <3>1, TriedSame
  <2> QED BY <1>2, <2>1, <2>2 DEF Next, Device, Clients
<1> QED BY <1>1, <1>2

LEMMA CloudNext ==
  ASSUME StorageInv, ProcessInv, PhaseInv, CloudInv, [Next]_vars
  PROVE  CloudInv'
<1> SUFFICES ASSUME "report" \notin faults'
             PROVE  (JsonsInv /\ KnownInv /\ ("disk" \notin faults => BuiltInv /\ TriedInv))'
  BY DEF CloudInv
<1>1. JsonsInv /\ KnownInv /\ ("disk" \notin faults' => BuiltInv /\ TriedInv)
  BY FaultsStay DEF CloudInv
<1>2. KnownInv' /\ Onwards
  BY <1>1, KnownNext DEF KnownStep
<1> QED BY <1>1, <1>2, JsonsNext, BuiltNext, TriedNext

LEMMA InitCloud == Init => PhaseInv /\ CloudInv
<1> SUFFICES ASSUME Init
             PROVE  PhaseInv /\ CloudInv
  OBVIOUS
<1> USE ObjectsAssumption DEF Init
<1>1. TrialInv
  BY DEF TrialInv, Updating, Installed, Failing, InTrial, Idle
<1>2. ReportedInv
  BY DEF ReportedInv
<1>3. NewerInv
  BY DEF NewerInv
<1>4. JsonsInv
  BY DEF JsonsInv, Waiting
<1>5. KnownInv
  BY DEF KnownInv, Installed
<1>6. BuiltInv /\ TriedInv
  BY DEF BuiltInv, TriedInv
<1> QED BY <1>1, <1>2, <1>3, <1>4, <1>5, <1>6 DEF PhaseInv, CloudInv

(***************************************************************************)
(* The phases of an update and what the cloud knows of them keep to the    *)
(* invariant (updater.c).                                                  *)
(***************************************************************************)
THEOREM UpdateInvariance == Spec => [](ProcessInv /\ PhaseInv /\ CloudInv)
<1>1. IInv /\ PhaseInv /\ CloudInv /\ [Next]_vars => (PhaseInv /\ CloudInv)'
  BY PhaseNext, CloudNext DEF IInv
<1>2. Init => PhaseInv /\ CloudInv
  BY InitCloud
<1>3. IInv => ProcessInv
  BY DEF IInv
<1> QED BY <1>1, <1>2, <1>3, Invariance, PTL DEF Spec

(***************************************************************************)
(* If no report is lost and the storage is not full, a revision of the     *)
(* cloud is complete when pv_try names it (pv_update_install).             *)
(***************************************************************************)
THEOREM InstalledCorrect == Spec => []InstalledIsComplete
<1>1. CloudInv => InstalledIsComplete
  BY DEF CloudInv, TriedInv, InstalledIsComplete
<1> QED BY <1>1, UpdateInvariance, PTL

(***************************************************************************)
(* A step the cloud has as DONE is committed or passed by a later one, and *)
(* if no report is lost no step it has as FAILED is the one the device     *)
(* falls back to (trail_remote_set_status).                                *)
(***************************************************************************)
THEOREM CloudCorrect == Spec => []CloudKnows
<1>1. ProcessInv /\ PhaseInv /\ CloudInv => CloudKnows
  <2> SUFFICES ASSUME ProcessInv, PhaseInv, CloudInv, NEW r \in Revs \ {Factory}
               PROVE  /\ cloud[r] = "FAILED" /\ "report" \notin faults => done # r
                      /\ cloud[r] = "DONE" => Atoi[r] <= Atoi[done] \/ done \in LocalRevs
    BY DEF CloudKnows
  <2>1. cloud[r] = "DONE" => Atoi[r] <= Atoi[done] \/ done \in LocalRevs
    BY DEF PhaseInv, NewerInv
  <2>2. cloud[r] = "FAILED" => r \notin LocalRevs
    BY DEF PhaseInv, ReportedInv
  <2>3. cloud[r] = "FAILED" /\ "report" \notin faults => done # r
    BY <2>2 DEF CloudInv, KnownInv
  <2> QED BY <2>1, <2>3
<1> QED BY <1>1, UpdateInvariance, PTL

-----------------------------------------------------------------------------
(***************************************************************************)
(* What runs and what the device falls back to.                            *)
(***************************************************************************)
LEMMA StaysNext ==
  ASSUME IInv, IInv', PhaseInv, CloudInv, StaysBootable, [Next]_vars
  PROVE  StaysBootable'
<1>1. /\ StorageInv /\ StorageInv' /\ ProcessInv /\ ProcessInv' /\ FailedInv
      /\ faults \subseteq faults' /\ None \notin Revs /\ Factory \in Revs \ LocalRevs
      /\ InUse \subseteq Revs
  BY FaultsStay, ObjectsAssumption DEF IInv, ProcessInv, InUse
<1>2. \A r : Overwritten(r) => Overwritten(r)'
  BY <1>1 DEF Overwritten
<1>3. \A r \in InUse : Intact(r) \/ Overwritten(r)
  BY DEF StaysBootable, InUse
<1>4. SUFFICES ASSUME NEW r \in Revs, r \in InUse'
               PROVE  Intact(r)' \/ Overwritten(r)'
  BY <1>1 DEF StaysBootable, InUse, ProcessInv
<1>5. CASE Boot
  <2>1. UNCHANGED storage /\ done' = done /\ mode = "off"
    BY <1>5 DEF Boot
  <2>2. r = done \/ Valid(r)
    BY <1>4, <1>5 DEF Boot, Start, PowerOff, InUse
  <2>3. Intact(r) \/ Overwritten(r)
    BY <1>1, <1>3, <1>4, <2>1, <2>2, ValidIntact DEF InUse
  <2>4. Intact(r) => Intact(r)'
    BY <1>1, <2>1 DEF Intact, JsonValid, storage
  <2> QED BY <1>2, <2>3, <2>4
<1>6. CASE InUse' \subseteq InUse
  <2>1. r \in InUse /\ (Whole(r) => Whole(r)' \/ Spoils(r))
    BY <1>1, <1>4, <1>6, StorageNext DEF SparedInUse
  <2>2. CASE Overwritten(r)
    BY <1>2, <2>2
  <2>3. CASE Whole(r)'
    <3>1. \A o \in ObjsOf[r] \ BindObjs : ("object" \notin faults => pool[o] = "good")'
      BY <1>1, <2>3, ObjectsAssumption DEF Whole, StorageInv, LinksInv
    <3> QED BY <2>3, <3>1 DEF Intact, Whole, JsonValid
  <2>4. CASE Spoils(r)
    <3>1. CASE r \in LocalRevs
      BY <2>4, <3>1 DEF Spoils, Overwritten
    <3>2. CASE r \notin LocalRevs
      <4>1. /\ r = pending /\ mode \in {"state", "failed"}
            /\ faults' \cap {"disk", "object"} # {}
        BY <2>4, <3>2 DEF Spoils
      <4>2. status # "none" /\ running = done
        BY <4>1 DEF PhaseInv, TrialInv, Updating, Failing
      <4>3. r # Factory /\ r = done
        BY <2>1, <4>1, <4>2 DEF InUse, PhaseInv, ReportedInv
      <4>4. "report" \in faults
        BY <3>2, <4>1, <4>3 DEF CloudInv, KnownInv
      <4> QED BY <1>1, <4>1, <4>3, <4>4 DEF Overwritten
    <3> QED BY <3>1, <3>2
  <2>5. Intact(r) => Whole(r)
    BY <1>1, IntactWhole
  <2> QED BY <1>3, <2>1, <2>2, <2>3, <2>4, <2>5
<1> QED BY <1>1, <1>5, <1>6, InUseNext

(***************************************************************************)
(* The running revision and the one to fall back to stay as valid as they  *)
(* were when they were started, unless they are PUT or installed once more *)
(* (pv_storage_gc_run, pv_update_install, pv_state_validate_checksum).     *)
(***************************************************************************)
THEOREM BootableCorrect == Spec => []StaysBootable
<1>1. Init => StaysBootable
  BY ObjectsAssumption DEF Init, StaysBootable, Intact, JsonValid
<1>2. IInv /\ IInv' /\ PhaseInv /\ CloudInv /\ StaysBootable /\ [Next]_vars => StaysBootable'
  BY StaysNext
<1> QED BY <1>1, <1>2, Invariance, UpdateInvariance, PTL DEF Spec
=============================================================================

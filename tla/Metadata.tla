------------------------------- MODULE Metadata -------------------------------
(***************************************************************************)
(* User metadata, which the cloud or a container gives the device and      *)
(* containers read as files, and device metadata, which the device and its *)
(* containers give the cloud (metadata.c, its callers in pantavisor.c,     *)
(* ctrl.c and pantahub.c, and the files kept by storage.c).  Keys and      *)
(* values are model values; of a device metadata value the length of the   *)
(* fragment it takes in the uploaded json counts, of a user metadata value *)
(* whether its file is too large to be loaded again.  /pv/user-meta is     *)
(* bound to a directory of the storage, /pv/user-meta.<platform> is not.   *)
(***************************************************************************)
EXTENDS Integers, FiniteSets, Sequences, SequencesExt

CONSTANTS
  UserKeys,     \* keys of user metadata
  PlatKeys,     \* the ones of the form <platform>.<key>
  ConfKeys,     \* the ones that are also settings
  CredKeys,     \* the settings that are read again with the credentials
  Values,       \* values of user metadata
  BigValues,    \* the ones whose file exceeds METADATA_MAX_SIZE
  Empty,        \* what is left of a value whose write was cut short
  None,         \* no value
  DevKeys,      \* keys of device metadata
  SysKeys,      \* the ones in pv_devmeta_readkeys
  DevValues,    \* values of device metadata
  FragLen,      \* the length of a device metadata value's fragment
  BufSize,      \* the size of the buffer an upload is put together in
  FactoryFiles, \* number of files in factory/meta
  MaxChanges,   \* bound on what users, containers and the cloud change
  MaxFaults     \* bound on power losses and failed requests

ASSUME MetadataAssumption ==
  /\ PlatKeys \subseteq UserKeys
  /\ ConfKeys \subseteq UserKeys
  /\ CredKeys \subseteq ConfKeys
  /\ BigValues \subseteq Values
  /\ Empty \in Values \ BigValues
  /\ None \notin Values
  /\ IsFiniteSet(DevKeys)
  /\ SysKeys \subseteq DevKeys
  /\ None \notin DevValues
  /\ FragLen \in [DevValues -> Nat]
  /\ BufSize \in Nat
  /\ FactoryFiles \in Nat
  /\ MaxChanges \in Nat
  /\ MaxFaults \in Nat

VARIABLES
  (* the main loop: "off", "run", "wait", "upload" or "factory" *)
  mode,
  rev0,       \* the running revision is the factory revision
  remote,     \* pv->remote_mode
  unclaimed,  \* pv->unclaimed
  (* user metadata *)
  usermeta,   \* the list
  seen,       \* keys in the list whose updated flag is set
  conf,       \* settings given by user metadata since the start
  file,       \* /pv/user-meta/<key> as programs see it
  stored,     \* what of it a power loss leaves for sure
  platfile,   \* /pv/user-meta.<platform>/<key>
  unsaved,    \* keys whose last save has failed
  overwritten, \* settings that credentials have replaced since they were given
  cloudUser,  \* user metadata in the cloud
  (* device metadata *)
  devlist,    \* keys in the list, in its order
  devmeta,    \* their values
  changed,    \* keys whose updated flag is set
  uploaded,   \* devmeta_uploaded
  cloudDev,   \* device metadata in the cloud
  (* factory metadata *)
  todo,       \* files the running upload has still to send
  doneMark,   \* trails/0/.pv/factory-meta.done
  cloudFact,  \* files in the cloud
  (* bounds *)
  changes, faults

userVars == <<usermeta, seen, conf, file, stored, platfile, unsaved, overwritten>>
devVars  == <<devlist, devmeta, changed, uploaded>>
factVars == <<todo, doneMark, cloudFact>>
vars == <<mode, rev0, remote, unclaimed, userVars, cloudUser, devVars, cloudDev, factVars,
          changes, faults>>

Maybe(S) == S \cup {None}

TypeOK ==
  /\ mode \in {"off", "run", "wait", "upload", "factory"}
  /\ rev0 \in BOOLEAN /\ remote \in BOOLEAN /\ unclaimed \in BOOLEAN
  /\ usermeta \in [UserKeys -> Maybe(Values)]
  /\ seen \in SUBSET UserKeys
  /\ conf \in [ConfKeys -> Maybe(Values)]
  /\ file \in [UserKeys -> Maybe(Values)]
  /\ stored \in [UserKeys -> Maybe(Values)]
  /\ platfile \in [PlatKeys -> Maybe(Values)]
  /\ unsaved \in SUBSET UserKeys
  /\ overwritten \in SUBSET ConfKeys
  /\ cloudUser \in [UserKeys -> Maybe(Values)]
  /\ devlist \in Seq(DevKeys)
  /\ devmeta \in [DevKeys -> Maybe(DevValues)]
  /\ changed \in SUBSET DevKeys
  /\ uploaded \in BOOLEAN
  /\ cloudDev \in [DevKeys -> Maybe(DevValues)]
  /\ todo \in 0 .. FactoryFiles
  /\ doneMark \in BOOLEAN
  /\ cloudFact \in SUBSET (1 .. FactoryFiles)
  /\ changes \in 0 .. MaxChanges
  /\ faults \in 0 .. MaxFaults

Init ==
  /\ mode = "off"
  /\ rev0 = TRUE
  /\ remote = FALSE
  /\ unclaimed \in BOOLEAN
  /\ usermeta = [k \in UserKeys |-> None]
  /\ seen = {}
  /\ conf = [k \in ConfKeys |-> None]
  /\ file = [k \in UserKeys |-> None]
  /\ stored = file
  /\ platfile = [k \in PlatKeys |-> None]
  /\ unsaved = {}
  /\ overwritten = {}
  /\ cloudUser = [k \in UserKeys |-> None]
  /\ devlist = <<>>
  /\ devmeta = [k \in DevKeys |-> None]
  /\ changed = {}
  /\ uploaded = TRUE
  /\ cloudDev = [k \in DevKeys |-> None]
  /\ todo = 0
  /\ doneMark = FALSE
  /\ cloudFact = {}
  /\ changes = 0
  /\ faults = 0

(* A change of data, or a fault, within its bound. *)
Change == changes < MaxChanges /\ changes' = changes + 1
Fault  == faults < MaxFaults /\ faults' = faults + 1

FaultIf(failed) == IF failed THEN Fault ELSE UNCHANGED faults

-----------------------------------------------------------------------------
(* User metadata *)

(* What new changes: a key that keeps its value is not written again. *)
Fresh(new) == {k \in UserKeys : new[k] \notin {None, usermeta[k]}}

(* pv_storage_save_file: a file that cannot be opened stays as it is, and   *)
(* the result of write() is not looked at.                                  *)
pv_storage_save_file(v, old, fails) == IF fails THEN {v, old, Empty} ELSE {v}

(* What may be in the files of the keys, the ones of their platforms        *)
(* included, once they are written, if saving fails for some; and once they *)
(* are removed.                                                             *)
pv_storage_save_usermeta(new, files, failed) ==
  {f \in [DOMAIN files -> Maybe(Values)] :
     \A k \in DOMAIN files :
       f[k] \in IF k \in Fresh(new) THEN pv_storage_save_file(new[k], files[k], k \in failed)
                                    ELSE {files[k]}}

pv_storage_rm_usermeta(keys, files) ==
  [k \in DOMAIN files |-> IF k \in keys THEN None ELSE files[k]]

(* Mutant: a setting that was given before is not given again. *)
OverrideOnce(new) ==
  /\ conf' = [k \in ConfKeys |-> IF k \in Fresh(new) /\ conf[k] = None THEN new[k] ELSE conf[k]]
  /\ overwritten' = overwritten \ Fresh(new)

(* A pair whose key is a setting sets it in memory. *)
pv_config_override_value(new) ==
  /\ conf' = [k \in ConfKeys |-> IF k \in Fresh(new) THEN new[k] ELSE conf[k]]
  /\ overwritten' = overwritten \ Fresh(new)

(* pv_metadata_add_usermeta for every key that has a value in new: what     *)
(* changes is put in the list, the settings and the files, and every one    *)
(* is flagged.  Nothing saves a key again whose file could not be written.  *)
pv_metadata_add_usermeta(new, failed) ==
  /\ usermeta' = [k \in UserKeys |-> IF new[k] = None THEN usermeta[k] ELSE new[k]]
  /\ seen' = seen \cup {k \in UserKeys : new[k] # None}
  /\ pv_config_override_value(new)
  /\ file' \in pv_storage_save_usermeta(new, file, failed)
  /\ platfile' \in pv_storage_save_usermeta(new, platfile, failed)
  /\ unsaved' = (unsaved \ Fresh(new)) \cup failed

(* Mutant: the file is left behind. *)
RemoveLeavingFile(keys) ==
  /\ usermeta' = [k \in UserKeys |-> IF k \in keys THEN None ELSE usermeta[k]]
  /\ seen' = seen \ keys
  /\ platfile' = pv_storage_rm_usermeta(keys, platfile)
  /\ unsaved' = unsaved \ keys
  /\ UNCHANGED <<conf, overwritten, file>>

(* Settings stay as they are. *)
pv_metadata_rm_usermeta(keys) ==
  /\ usermeta' = [k \in UserKeys |-> IF k \in keys THEN None ELSE usermeta[k]]
  /\ seen' = seen \ keys
  /\ file' = pv_storage_rm_usermeta(keys, file)
  /\ platfile' = pv_storage_rm_usermeta(keys, platfile)
  /\ unsaved' = unsaved \ keys
  /\ UNCHANGED <<conf, overwritten>>

(* PUT /user-meta/<key>; the answer is an error if the value is the old one. *)
CtrlPutUserMeta(k, v) ==
  /\ mode = "wait" /\ Change
  /\ LET new == [j \in UserKeys |-> IF j = k THEN v ELSE None] IN
       \E failed \in SUBSET Fresh(new) :
         pv_metadata_add_usermeta(new, failed) /\ FaultIf(failed # {})
  /\ UNCHANGED <<mode, rev0, remote, unclaimed, stored, cloudUser, devVars, cloudDev, factVars>>

(* DELETE /user-meta/<key> *)
CtrlDeleteUserMeta(k) ==
  /\ mode = "wait" /\ Change
  /\ usermeta[k] # None
  /\ pv_metadata_rm_usermeta({k})
  /\ UNCHANGED <<mode, rev0, remote, unclaimed, stored, cloudUser, devVars, cloudDev, factVars, faults>>

(* A user edits the metadata in the cloud; a null there is no value here.   *)
CloudEdit(k, v) ==
  /\ Change
  /\ cloudUser' = [cloudUser EXCEPT ![k] = v]
  /\ UNCHANGED <<mode, rev0, remote, unclaimed, userVars, devVars, cloudDev, factVars, faults>>

(* Mutant: keys that are no longer in the cloud are kept. *)
ClearNothing(answer) == {}

(* usermeta_clear: the keys flagged neither by this answer of the cloud nor *)
(* by an edit since the last one are removed.                               *)
usermeta_clear(answer) ==
  {k \in UserKeys : usermeta[k] # None /\ k \notin seen /\ answer[k] = None}

(* pv_metadata_parse_usermeta: add what the answer holds, a null being no   *)
(* value, then usermeta_clear, which also takes the flags back.             *)
pv_metadata_parse_usermeta(answer, failed) ==
  LET gone == usermeta_clear(answer) IN
  /\ usermeta' = [k \in UserKeys |-> IF k \in gone THEN None
                                     ELSE IF answer[k] = None THEN usermeta[k] ELSE answer[k]]
  /\ seen' = {}
  /\ pv_config_override_value(answer)
  /\ \E f \in pv_storage_save_usermeta(answer, file, failed) :
       file' = pv_storage_rm_usermeta(gone, f)
  /\ \E f \in pv_storage_save_usermeta(answer, platfile, failed) :
       platfile' = pv_storage_rm_usermeta(gone, f)
  /\ unsaved' = ((unsaved \ Fresh(answer)) \cup failed) \ gone

(* Only asked for the factory revision. *)
pv_metadata_factory_meta_done == rev0 => doneMark

(* pv_ph_device_get_meta, the first half of pv_meta_update_to_ph.  An       *)
(* answer without user metadata is taken for one in which there is none.   *)
(* In local mode the cloud is not asked (_pv_wait).                         *)
pv_ph_device_get_meta ==
  /\ mode = "wait" /\ remote /\ ~unclaimed
  /\ pv_metadata_factory_meta_done
  /\ \/ \E failed \in SUBSET Fresh(cloudUser) :
          pv_metadata_parse_usermeta(cloudUser, failed) /\ FaultIf(failed # {})
     \/ /\ Fault
        /\ pv_metadata_parse_usermeta([k \in UserKeys |-> None], {})
  /\ mode' = "upload"
  /\ UNCHANGED <<rev0, remote, unclaimed, stored, cloudUser, devVars, cloudDev, factVars, changes>>

(* The kernel writes back the files; storage.c does not ask for it. *)
WriteBack ==
  /\ stored # file
  /\ stored' = file
  /\ UNCHANGED <<mode, rev0, remote, unclaimed, usermeta, seen, conf, file, platfile, unsaved,
                 overwritten, cloudUser, devVars, cloudDev, factVars, changes, faults>>

-----------------------------------------------------------------------------
(* Device metadata *)

(* The keys of new that change.                                            *)
Touched(new) == {k \in DOMAIN new : devmeta[k] # new[k]}

(* pv_metadata_add_devmeta of the pairs in new, one after the other: a new  *)
(* key becomes the first of the list, a key that changes is flagged.        *)
InList(new) ==
  \E front \in SetToSeqs({k \in DOMAIN new : devmeta[k] = None}) : devlist' = front \o devlist

InMeta(new) == devmeta' = [k \in DevKeys |-> IF k \in DOMAIN new THEN new[k] ELSE devmeta[k]]

(* Mutant: only new keys are flagged. *)
AddFlagsNewOnly(new) ==
  /\ InList(new) /\ InMeta(new)
  /\ changed' = changed \cup {k \in DOMAIN new : devmeta[k] = None}

pv_metadata_add_devmeta(new) ==
  /\ InList(new) /\ InMeta(new)
  /\ changed' = changed \cup Touched(new)

(* CMD_UPDATE_METADATA (in remote mode), or a pair pantavisor adds itself,  *)
(* as pv_network_update_meta does in every round.                           *)
UpdateDevMeta(k, v) ==
  /\ mode = "wait" /\ Change
  /\ LET new == [j \in {k} |-> v] IN
       /\ pv_metadata_add_devmeta(new)
       /\ uploaded' = (uploaded /\ Touched(new) = {})
  /\ UNCHANGED <<mode, rev0, remote, unclaimed, userVars, cloudUser, cloudDev, factVars, faults>>

(* What the readers of pv_devmeta_readkeys find: version, model, revision,  *)
(* mode, whether the device is online and claimed.                          *)
Readings == [SysKeys -> DevValues]

(* pv_metadata_init_devmeta, from _pv_run: everything is to be uploaded,    *)
(* also if nothing has changed.  Whether the device is in remote mode is up *)
(* to the configuration and to the revision.                                *)
pv_metadata_init_devmeta ==
  /\ mode = "run"
  /\ remote' \in BOOLEAN
  /\ \E new \in Readings : pv_metadata_add_devmeta(new)
  /\ uploaded' = FALSE
  /\ mode' = "wait"
  /\ UNCHANGED <<rev0, unclaimed, userVars, cloudUser, cloudDev, factVars, changes, faults>>

(* Mutant: the length is not advanced, and a fragment overwrites the last. *)
PayloadLastOnly ==
  {devlist[i] : i \in {j \in 1 .. Len(devlist) :
                        /\ devlist[j] \in changed
                        /\ \A l \in j+1 .. Len(devlist) : devlist[l] \notin changed}}

(* The keys an upload holds: flagged ones, in the order of the list, each  *)
(* skipped if its fragment does not fit in what is left of the buffer.     *)
Fits(k, left) == k \in changed /\ left > FragLen[devmeta[k]]

Payload ==
  LET avail[i \in 0 .. Len(devlist)] ==
        IF i = 0 THEN BufSize - 1
        ELSE avail[i-1] - (IF Fits(devlist[i], avail[i-1]) THEN FragLen[devmeta[devlist[i]]] ELSE 0)
  IN {devlist[i] : i \in {j \in 1 .. Len(devlist) : Fits(devlist[j], avail[j-1])}}

(* The cloud merges a PATCH of device metadata.  Without a pair the        *)
(* brace that replaces the last comma replaces the opening one, and the    *)
(* cloud refuses what is no json.                                          *)
Accepts(keys) == keys # {}

(* pv_ph_upload_metadata with the given result.  It fails because the       *)
(* cloud refuses the request, or the request or its answer is lost.         *)
pv_ph_upload_metadata(keys, ret) ==
  \/ /\ Accepts(keys)
     /\ cloudDev' = [k \in DevKeys |-> IF k \in keys THEN devmeta[k] ELSE cloudDev[k]]
     /\ \/ ret = 0 /\ UNCHANGED faults
        \/ ret # 0 /\ Fault
  \/ /\ ret # 0
     /\ \/ ~Accepts(keys) /\ UNCHANGED faults
        \/ Accepts(keys) /\ Fault
     /\ UNCHANGED cloudDev

(* pv_metadata_upload_devmeta, the second half of pv_meta_update_to_ph: a   *)
(* success takes back every flag.                                           *)
pv_metadata_upload_devmeta ==
  /\ mode = "upload"
  /\ mode' = "wait"
  /\ \/ /\ uploaded
        /\ UNCHANGED <<changed, uploaded, cloudDev, faults>>
     \/ /\ ~uploaded /\ pv_ph_upload_metadata(Payload, 0)
        /\ uploaded' = TRUE
        /\ changed' = {}
     \/ /\ ~uploaded /\ pv_ph_upload_metadata(Payload, -1)
        /\ UNCHANGED <<changed, uploaded>>
  /\ UNCHANGED <<rev0, remote, unclaimed, userVars, cloudUser, devlist, devmeta, factVars, changes>>

-----------------------------------------------------------------------------
(* Factory metadata *)

(* The settings that are kept with the credentials are read again from      *)
(* their file, if it is there: a pair of user metadata that has set one is  *)
(* no longer heard.                                                         *)
pv_config_load_creds ==
  \/ /\ conf' = [k \in ConfKeys |-> IF k \in CredKeys THEN None ELSE conf[k]]
     /\ overwritten' = overwritten \cup CredKeys
  \/ UNCHANGED <<conf, overwritten>>

(* pv_wait_unclaimed reads the credentials and, unless the device cannot be *)
(* registered, goes on to upload factory metadata, whether or not it has    *)
(* been claimed.                                                            *)
pv_wait_unclaimed ==
  /\ mode = "wait" /\ remote /\ unclaimed
  /\ pv_config_load_creds
  /\ \/ Fault /\ UNCHANGED <<mode, unclaimed, todo>>
     \/ /\ unclaimed' \in BOOLEAN
        /\ mode' = "factory"
        /\ todo' = FactoryFiles
        /\ UNCHANGED faults
  /\ UNCHANGED <<rev0, remote, usermeta, seen, file, stored, platfile, unsaved, cloudUser,
                 devVars, cloudDev, doneMark, cloudFact, changes>>

(* pv_wait_network does so until the mark of the factory revision is there. *)
EnterFactoryUpload ==
  /\ mode = "wait" /\ remote /\ ~unclaimed
  /\ ~pv_metadata_factory_meta_done
  /\ mode' = "factory"
  /\ todo' = FactoryFiles
  /\ UNCHANGED <<rev0, remote, unclaimed, userVars, cloudUser, devVars, cloudDev, doneMark,
                 cloudFact, changes, faults>>

(* Mutant: a file that could not be sent is passed over. *)
FactorySkipsFailed ==
  /\ mode = "factory"
  /\ \/ /\ todo > 0
        /\ cloudFact' \in {cloudFact, cloudFact \cup {todo}}
        /\ todo' = todo - 1
        /\ UNCHANGED <<mode, doneMark, faults>>
     \/ /\ todo = 0
        /\ doneMark' = TRUE
        /\ mode' = "wait"
        /\ UNCHANGED <<todo, cloudFact, faults>>
  /\ UNCHANGED <<rev0, remote, unclaimed, userVars, cloudUser, devVars, cloudDev, changes>>

(* The pairs of a file, as far as they fit in the buffer, are in the cloud. *)
Sent(n) == cloudFact' = cloudFact \cup {n}

(* pv_metadata_factory_meta: one file after the other, the last one first.  *)
(* The first failure ends the pass, and PV_STATE_FACTORY_UPLOAD starts the  *)
(* next from the top; nothing else of the main loop runs.                   *)
pv_metadata_factory_meta ==
  /\ mode = "factory"
  /\ \/ /\ todo > 0
        /\ Sent(todo)
        /\ todo' = todo - 1
        /\ UNCHANGED <<mode, doneMark, faults>>
     \/ /\ todo > 0 /\ Fault
        /\ \/ UNCHANGED cloudFact
           \/ Sent(todo)
        /\ todo' = FactoryFiles
        /\ UNCHANGED <<mode, doneMark>>
     \/ /\ todo = 0
        /\ doneMark' = TRUE
        /\ mode' = "wait"
        /\ UNCHANGED <<todo, cloudFact, faults>>
  /\ UNCHANGED <<rev0, remote, unclaimed, userVars, cloudUser, devVars, cloudDev, changes>>

-----------------------------------------------------------------------------
(* Start, update and power loss *)

(* pv_storage_load_file with METADATA_MAX_SIZE *)
pv_storage_load_file(v) == IF v \in BigValues THEN None ELSE v

(* pv_metadata_load_usermeta: what the files hold is added to the list, the *)
(* settings and the files of platforms, and written once more.              *)
Loaded == [k \in UserKeys |-> pv_storage_load_file(file[k])]

pv_metadata_init ==
  /\ mode = "off"
  /\ mode' = "run"
  /\ \E failed \in SUBSET Fresh(Loaded) :
       pv_metadata_add_usermeta(Loaded, failed) /\ FaultIf(failed # {})
  /\ stored' = [k \in UserKeys |-> IF Loaded[k] = None THEN stored[k] ELSE Empty]
  /\ UNCHANGED <<rev0, remote, unclaimed, cloudUser, devVars, cloudDev, factVars, changes>>

(* pv_usermeta_remove and pv_devmeta_remove: the lists are freed; of the    *)
(* files the ones under /pv/user-meta survive.                              *)
pv_usermeta_remove ==
  /\ usermeta' = [k \in UserKeys |-> None]
  /\ seen' = {}
  /\ conf' = [k \in ConfKeys |-> None]
  /\ platfile' = [k \in PlatKeys |-> None]
  /\ unsaved' = {}
  /\ overwritten' = {}

pv_devmeta_remove ==
  /\ devlist' = <<>>
  /\ devmeta' = [k \in DevKeys |-> None]
  /\ changed' = {}
  /\ uploaded' = TRUE

(* A reboot or power off that is asked for ends with sync, and the device   *)
(* starts again with the same or another revision.                          *)
pv_metadata_remove ==
  /\ mode = "wait" /\ Change
  /\ mode' = "off"
  /\ rev0' \in BOOLEAN /\ remote' = FALSE
  /\ pv_usermeta_remove
  /\ pv_devmeta_remove
  /\ stored' = file
  /\ UNCHANGED <<unclaimed, file, cloudUser, cloudDev, factVars, faults>>

(* An update that does not reboot runs the new revision in this process. *)
NonReboot ==
  /\ mode = "wait" /\ Change
  /\ mode' = "run"
  /\ rev0' = FALSE
  /\ UNCHANGED <<remote, unclaimed, userVars, cloudUser, devVars, cloudDev, factVars, faults>>

(* Power loss at any point, also in the middle of a series of files: what  *)
(* has not been written back is there, is not, or is an empty file.        *)
PowerLoss ==
  /\ mode # "off" /\ Fault
  /\ mode' = "off"
  /\ rev0' \in BOOLEAN /\ remote' = FALSE
  /\ \E f \in [UserKeys -> Maybe(Values)] :
       /\ \A k \in UserKeys :
            \/ f[k] \in {file[k], stored[k]}
            \/ f[k] = Empty /\ file[k] \notin {stored[k], None}
       /\ file' = f
       /\ stored' = f
  /\ pv_usermeta_remove
  /\ pv_devmeta_remove
  /\ todo' = 0
  /\ UNCHANGED <<unclaimed, cloudUser, cloudDev, doneMark, cloudFact, changes>>

Next ==
  \/ pv_metadata_init \/ pv_metadata_init_devmeta
  \/ \E k \in UserKeys, v \in Values : CtrlPutUserMeta(k, v)
  \/ \E k \in UserKeys : CtrlDeleteUserMeta(k)
  \/ \E k \in UserKeys, v \in Maybe(Values) : CloudEdit(k, v)
  \/ pv_ph_device_get_meta \/ WriteBack
  \/ \E k \in DevKeys, v \in DevValues : UpdateDevMeta(k, v)
  \/ pv_metadata_upload_devmeta
  \/ pv_wait_unclaimed \/ EnterFactoryUpload \/ pv_metadata_factory_meta
  \/ NonReboot \/ pv_metadata_remove \/ PowerLoss

Spec == Init /\ [][Next]_vars

(* The loop goes on; the cloud answers once faults are used up. *)
Fairness ==
  /\ WF_vars(pv_metadata_init)
  /\ WF_vars(pv_metadata_init_devmeta)
  /\ WF_vars(pv_ph_device_get_meta)
  /\ WF_vars(pv_metadata_upload_devmeta)
  /\ WF_vars(pv_wait_unclaimed)
  /\ WF_vars(EnterFactoryUpload)
  /\ WF_vars(pv_metadata_factory_meta)

LiveSpec == Spec /\ Fairness

-----------------------------------------------------------------------------
(* A value too large to be loaded has a file but no entry after a restart. *)
Shown(k) == file[k] = usermeta[k] \/ (file[k] \in BigValues /\ usermeta[k] = None)

(* What containers read in /pv/user-meta and in /pv/user-meta.<platform> is *)
(* what the list holds, through edits, syncs, restarts and power losses in  *)
(* the middle of writing, for each key whose last save has not failed: that *)
(* of one whose save failed is only repaired by another value or a restart  *)
(* (metadata.c:304, 336, 361, 838; storage.c:1025, 1045, 1071).             *)
FilesShowUserMeta ==
  mode # "off" =>
    \A k \in UserKeys \ unsaved : Shown(k) /\ (k \in PlatKeys => platfile[k] = usermeta[k])

(* A setting given in user metadata is in force as long as the pair is      *)
(* there, also after a restart, unless it is one of those that are kept     *)
(* with the credentials and an unclaimed device has read them since: then   *)
(* the pair is only heard again with another value or after a restart       *)
(* (metadata.c:352, config.c:404; pantavisor.c:290, config.c:374).          *)
OverrideInForce ==
  mode # "off" =>
    /\ \A k \in ConfKeys \ overwritten : usermeta[k] # None => conf[k] = usermeta[k]
    /\ overwritten \subseteq CredKeys

(* devmeta_uploaded is a promise: every pair of the list is in the cloud    *)
(* with its value (metadata.c:647).                                         *)
UploadedMeansInCloud ==
  uploaded => \A k \in ToSet(devlist) : cloudDev[k] = devmeta[k]

(* The mark that ends the upload of factory metadata is only set once every *)
(* file has been sent, whatever fails on the way (metadata.c:791).          *)
FactoryMarkMeansSent == doneMark => cloudFact = 1 .. FactoryFiles

(* Once edits stop, a claimed device in remote mode ends up with the        *)
(* cloud's user metadata, in its list and, but for keys whose save failed,  *)
(* in its files: local edits do not survive and deletions in the cloud are  *)
(* carried out (metadata.c:451, 805; pantavisor.c:447).                     *)
CloudReachesDevice ==
  <>[](remote /\ ~unclaimed =>
         \A k \in UserKeys : usermeta[k] = cloudUser[k] /\ (k \in unsaved \/ Shown(k)))

(* Once it stops changing, the device metadata of a claimed device in       *)
(* remote mode ends up in the cloud, whatever requests or answers were lost *)
(* (metadata.c:569; pantavisor.c:447).                                      *)
DevMetaReachesCloud ==
  <>[](remote /\ ~unclaimed => \A k \in ToSet(devlist) : cloudDev[k] = devmeta[k])

==============================================================================

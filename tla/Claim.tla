------------------------------- MODULE Claim ---------------------------------
(***************************************************************************)
(* How a device gets its identity in the cloud and brings its factory      *)
(* revision there: registration, the wait for a user to claim the device,  *)
(* and the first upload of its objects and its base trail.                 *)
(*                                                                         *)
(* The steps are those of pv_wait_unclaimed, _pv_factory_upload and        *)
(* pv_wait_network (pantavisor.c) with the calls they make into            *)
(* pantahub.c, config.c and updater.c. Identifier, prn and secret of the   *)
(* registered device d are all written as d; 0 stands for a missing one.   *)
(* The device runs its factory revision and no update is going on: the     *)
(* steps the cloud offers afterwards belong to module Pantavisor.          *)
(***************************************************************************)
EXTENDS Naturals, FiniteSets, Sequences

CONSTANTS MaxIds,     \* bound: the devices the cloud registers
          MaxFaults,  \* bound: power losses and lost connections
          Objects,    \* number of objects of the factory revision
          Changed,    \* the objects whose file was written to since
          Setups,     \* how devices are set up, see setup
          NoFile,     \* a configuration file that is not there
          Empty       \* one without a byte

ASSUME ClaimAssumption ==
    /\ MaxIds \in Nat /\ MaxFaults \in Nat /\ Objects \in Nat
    /\ Changed \subseteq 1..Objects
    /\ Setups \subseteq [External : BOOLEAN, AutoTok : BOOLEAN, HasMeta : BOOLEAN,
                         Flaky : BOOLEAN, CutWrites : BOOLEAN]
    /\ NoFile # Empty
    /\ {NoFile, Empty} \cap [id : Nat, prn : Nat, secret : Nat] = {}

VARIABLES
    \* the cloud
    cloud,      \* per device: "none" (not registered), "unowned" or "owned"
    stored,     \* the objects it holds
    trails,     \* the devices whose base trail it holds
    \* the storage of the device
    file,       \* credentials in config/unclaimed.config and config/pantahub.config
    progress,   \* of revision 0
    metaDone,   \* trails/0/.pv/factory-meta.done
    \* the memory of pantavisor
    pc,         \* where the main loop is
    creds,      \* pv->config.creds
    unclaimed,  \* pv->unclaimed
    client,     \* of pantahub.c: the device it logs in as, 0 without client
    endpoint,   \* of pantahub.c: the device its requests are about
    remote,     \* pv->remote: the device of the trail client
    synced,     \* pv->synced
    todo,       \* the next object to upload
    \* the world
    shown,      \* the devices whose challenge a user has read
    net,        \* the cloud can be reached
    faults,
    setup       \* of the device and of its world; it never changes

cloudVars == <<cloud, stored, trails>>
disk == <<file, progress, metaDone>>
conn == <<client, endpoint>>
mem == <<creds, unclaimed, remote, synced, todo>>
vars == <<cloudVars, disk, pc, mem, conn, shown, net, faults, setup>>

External == setup.External    \* creds.type is ext-*: a program of the device registers it
AutoTok == setup.AutoTok      \* factory.autotok is set: the cloud may assign an owner at once
HasMeta == setup.HasMeta      \* there are files in factory/meta
Flaky == setup.Flaky          \* the connection may change while pv_wait_unclaimed runs
CutWrites == setup.CutWrites  \* storage may be full when credentials are saved

Ids == 1..MaxIds
Id0 == 0..MaxIds
Creds == [id : Id0, prn : Id0, secret : Id0]
NoCreds == [id |-> 0, prn |-> 0, secret |-> 0]
CredsOf(d) == [id |-> d, prn |-> d, secret |-> d]

Configs == {"unclaimed", "pantahub"}

-----------------------------------------------------------------------------
(* Credentials on storage *)

(* pv_config_load_creds, pv_config_save_creds: which of the two files *)
ConfigFile(u) == IF u THEN "unclaimed" ELSE "pantahub"

(* Mutant: a file that is there already is not read. *)
LoadedOnce(f) == creds

(* pv_config_load_creds reads nothing if the file is missing.               *)
Loaded(f) == IF file[f] = NoFile THEN creds ELSE file[f]

(* load_key_value_file never ends on an empty file: fgets with room for the *)
(* final zero only returns an empty string again and again.                 *)
Hangs(f) == file[f] = Empty

(* pv_config_save_creds_to_file writes a temporary file, key by key, and    *)
(* renames it. What the writes return is ignored: when the storage is full  *)
(* the file that replaces the old one ends early.                           *)
Saved(c) ==
    {c} \cup
    (IF CutWrites THEN {Empty, NoCreds, [NoCreds EXCEPT !.id = c.id], [c EXCEPT !.secret = 0]}
                  ELSE {})

pv_config_save_creds(u) == \E c \in Saved(creds) : file' = [file EXCEPT ![ConfigFile(u)] = c]

-----------------------------------------------------------------------------
(* The client of pantahub.c *)

(* Mutant: the client of the old device is kept. *)
KeepsClient == UNCHANGED conn

pv_ph_release_client == client' = 0 /\ endpoint' = 0

(* pv_get_trest_client: the device the credentials log in as. The program   *)
(* that logs in for external credentials has its own.                       *)
ClientOf(c) == IF External THEN c.id ELSE IF c.prn # 0 /\ c.secret # 0 THEN c.prn ELSE 0

(* trest_update_auth asks the cloud, or answers from a token it still has.  *)
Auths(c) == IF net THEN {TRUE} ELSE IF c # 0 THEN BOOLEAN ELSE {FALSE}

(* ph_client_init: makes a client if there is none and authenticates it. A  *)
(* client that cannot be authenticated is forgotten, its endpoint is not.   *)
ph_client_init(ok) ==
    LET new == IF client # 0 THEN client ELSE ClientOf(creds)
    IN  \/ /\ new = 0 /\ ~ok
           /\ UNCHANGED conn
        \/ /\ new # 0 /\ ~ok /\ FALSE \in Auths(client)
           /\ client' = 0
           /\ UNCHANGED endpoint
        \/ /\ new # 0 /\ ok /\ TRUE \in Auths(client)
           /\ client' = new
           /\ endpoint' = IF endpoint = 0 THEN creds.id ELSE endpoint

(* A request about the endpoint, sent with the client: the cloud answers    *)
(* about the device itself only.                                            *)
Answered(ok) == ok /\ net /\ client' = endpoint'

-----------------------------------------------------------------------------
(* The main loop *)

(* pv_config_creds, pv_storage_init and _pv_run with the factory revision.  *)
Boot ==
    /\ pc = "off"
    /\ IF Hangs("pantahub")
       THEN /\ pc' = "hung"
            /\ UNCHANGED <<creds, unclaimed, progress>>
       ELSE /\ pc' = "wait"
            /\ creds' = file["pantahub"]
            /\ unclaimed' = (creds'.prn = 0)
            /\ progress' = "UNREGISTERED"
    /\ client' = 0 /\ endpoint' = 0
    /\ remote' = 0 /\ synced' = FALSE /\ todo' = 0
    /\ UNCHANGED <<cloudVars, file, metaDone, shown, net, faults, setup>>

(* pv_wait_unclaimed: reads the credentials of the last registration.       *)
LoadCreds ==
    /\ pc = "wait" /\ unclaimed
    /\ IF Hangs(ConfigFile(unclaimed))
       THEN pc' = "hung" /\ UNCHANGED creds
       ELSE /\ creds' = Loaded(ConfigFile(unclaimed))
            /\ pc' = IF creds'.id # 0 THEN "exists" ELSE "register"
    /\ UNCHANGED <<cloudVars, disk, unclaimed, remote, synced, todo, conn, shown, net, faults, setup>>

(* pv_ph_device_exists: a question without an answer counts as a no.        *)
pv_ph_device_exists ==
    /\ pc = "exists"
    /\ \E ok \in BOOLEAN :
        /\ ph_client_init(ok)
        /\ pc' = IF Answered(ok) THEN "owned" ELSE "register"
    /\ UNCHANGED <<cloudVars, disk, mem, shown, net, faults, setup>>

(* The cloud registers a device, the next one in the order in which it gives *)
(* out identifiers; with a valid token the device has an owner.             *)
Registered(d) ==
    /\ \A e \in Ids : cloud[e] = "none" <=> e >= d
    /\ \E o \in (IF AutoTok THEN {"owned", "unowned"} ELSE {"unowned"}) :
        cloud' = [cloud EXCEPT ![d] = o]

(* pv_ph_register_self_builtin: the answer has the new credentials. An      *)
(* answer that is lost leaves a device in the cloud nobody knows.           *)
RegisterBuiltin ==
    /\ pc = "register" /\ ~External
    /\ \/ /\ net
          /\ \E d \in Ids :
                /\ Registered(d)
                /\ creds' = CredsOf(d)
          /\ pc' = "save"
          /\ UNCHANGED <<conn, faults>>
       \/ /\ net /\ Flaky /\ faults < MaxFaults
          /\ \E d \in Ids : Registered(d)
          /\ pc' = "wait"
          /\ pv_ph_release_client
          /\ faults' = faults + 1
          /\ UNCHANGED creds
       \/ /\ ~net
          /\ pc' = "wait"
          /\ pv_ph_release_client
          /\ UNCHANGED <<cloud, creds, faults>>
    /\ UNCHANGED <<stored, trails, disk, unclaimed, remote, synced, todo, shown, net, setup>>

(* pv_ph_register_self_ext: the program stores what it got in               *)
(* unclaimed.config, which is then read again. Its exit status is ignored.  *)
RegisterExternal ==
    /\ pc = "register" /\ External
    /\ \/ /\ net
          /\ \E d \in Ids :
                /\ Registered(d)
                /\ file' = [file EXCEPT !["unclaimed"] = CredsOf(d)]
                /\ creds' = CredsOf(d)
          /\ pc' = "save"
          /\ UNCHANGED conn
       \/ /\ ~net
          /\ IF file["unclaimed"] = NoFile
             THEN pc' = "wait" /\ pv_ph_release_client /\ UNCHANGED creds
             ELSE pc' = "save" /\ creds' = file["unclaimed"] /\ UNCHANGED conn
          /\ UNCHANGED <<cloud, file>>
    /\ UNCHANGED <<stored, trails, progress, metaDone, unclaimed, remote, synced, todo, shown,
                   net, faults, setup>>

(* pv_wait_unclaimed: what was registered is stored before it is used.      *)
SaveRegistered ==
    /\ pc = "save"
    /\ pv_config_save_creds(unclaimed)
    /\ pv_ph_release_client
    /\ pc' = "owned"
    /\ UNCHANGED <<cloudVars, progress, metaDone, mem, shown, net, faults, setup>>

(* Mutant: a device that exists counts as owned. *)
OwnedIfItExists ==
    /\ pc = "owned"
    /\ \E ok \in BOOLEAN :
        /\ ph_client_init(ok)
        /\ progress' = IF Answered(ok) THEN "SYNCING" ELSE "UNCLAIMED"
        /\ pc' = IF Answered(ok) THEN "claimed" ELSE "factory"
    /\ UNCHANGED <<cloudVars, file, metaDone, mem, shown, net, faults, setup>>

(* pv_ph_device_is_owned: no answer counts as no owner, and then there is   *)
(* no challenge to show either.                                             *)
pv_ph_device_is_owned ==
    /\ pc = "owned"
    /\ \E ok \in BOOLEAN :
        /\ ph_client_init(ok)
        /\ \/ /\ Answered(ok) /\ cloud[endpoint'] = "owned"
              /\ progress' = "SYNCING"
              /\ pc' = "claimed"
              /\ UNCHANGED shown
           \/ /\ Answered(ok) /\ cloud[endpoint'] # "owned"
              /\ progress' = "UNCLAIMED"
              /\ shown' = shown \cup {endpoint'}
              /\ pc' = "factory"
           \/ /\ ~Answered(ok)
              /\ progress' = "UNCLAIMED"
              /\ pc' = "factory"
              /\ UNCHANGED shown
    /\ UNCHANGED <<cloudVars, file, metaDone, mem, net, faults, setup>>

(* Mutant: the credentials are saved while the device still counts as       *)
(* unclaimed.                                                               *)
ClaimedSavesFirst ==
    /\ pc = "claimed"
    /\ unclaimed' = FALSE
    /\ pv_config_save_creds(unclaimed)
    /\ pv_ph_release_client
    /\ pc' = "factory"
    /\ UNCHANGED <<cloudVars, progress, metaDone, creds, remote, synced, todo, shown, net, faults, setup>>

(* pv_wait_unclaimed: from now on the credentials are those of              *)
(* pantahub.config.                                                         *)
SaveClaimed ==
    /\ pc = "claimed"
    /\ unclaimed' = FALSE
    /\ pv_config_save_creds(unclaimed')
    /\ pv_ph_release_client
    /\ pc' = "factory"
    /\ UNCHANGED <<cloudVars, progress, metaDone, creds, remote, synced, todo, shown, net, faults, setup>>

(* _pv_factory_upload runs again until the cloud has taken the metadata     *)
(* (module Metadata has the files one by one).                              *)
_pv_factory_upload ==
    /\ pc = "factory"
    /\ \/ /\ HasMeta
          /\ \E ok \in BOOLEAN :
                /\ ph_client_init(ok)
                /\ IF Answered(ok) THEN pc' = "wait" /\ metaDone' = TRUE
                                   ELSE UNCHANGED <<pc, metaDone>>
       \/ /\ ~HasMeta
          /\ pc' = "wait" /\ metaDone' = TRUE
          /\ UNCHANGED conn
    /\ UNCHANGED <<cloudVars, file, progress, mem, shown, net, faults, setup>>

(* pv_ph_is_auth: a client and an endpoint are enough, they are not tried.  *)
pv_ph_is_auth(ok) ==
    IF client # 0 /\ endpoint # 0
    THEN ok /\ UNCHANGED conn
    ELSE \E init \in BOOLEAN :
            /\ ph_client_init(init)
            /\ ok = (client' # 0 /\ endpoint' # 0)

(* pv_trail_is_auth and trail_remote_init *)
pv_trail_is_auth(ok) ==
    \/ /\ remote # 0 /\ ok
       /\ UNCHANGED remote
    \/ /\ remote = 0 /\ ok = (net /\ ClientOf(creds) # 0 /\ creds.id # 0)
       /\ remote' = IF ok THEN creds.id ELSE 0

(* pv_wait_network up to the upload of metadata *)
CheckAuth ==
    /\ pc = "wait" /\ ~unclaimed
    /\ \E ph, trail \in BOOLEAN :
        /\ pv_ph_is_auth(ph)
        /\ IF ph THEN pv_trail_is_auth(trail) ELSE ~trail /\ UNCHANGED remote
        /\ pc' = IF ~trail THEN "wait" ELSE IF metaDone THEN "meta" ELSE "factory"
    /\ UNCHANGED <<cloudVars, disk, creds, unclaimed, synced, todo, shown, net, faults, setup>>

(* pv_meta_update_to_ph: what fails here ends the round.                    *)
pv_meta_update_to_ph ==
    /\ pc = "meta"
    /\ \E ok \in BOOLEAN :
        /\ ph_client_init(ok)
        /\ pc' = IF Answered(ok) THEN "check" ELSE "wait"
    /\ UNCHANGED <<cloudVars, disk, mem, shown, net, faults, setup>>

(* The end of pv_wait_network: a device that has seen its trail is done.    *)
EndOfRound(s) ==
    /\ pc' = "wait"
    /\ progress' = IF s THEN "DONE" ELSE progress

(* Mutant: the trail is found but not remembered. *)
CheckForgets ==
    /\ pc = "check"
    /\ IF net /\ remote \notin trails THEN pc' = "objects" /\ todo' = 1
                                       ELSE pc' = "wait" /\ UNCHANGED todo
    /\ UNCHANGED <<cloudVars, disk, creds, unclaimed, remote, synced, conn, shown, net, faults, setup>>

(* pv_updater_check_for_updates and trail_is_available: without a trail in  *)
(* the cloud this is the first boot.                                        *)
pv_updater_check_for_updates ==
    /\ pc = "check"
    /\ \/ ~net /\ EndOfRound(synced) /\ UNCHANGED <<synced, todo>>
       \/ /\ net /\ remote \in trails
          /\ synced' = TRUE
          /\ EndOfRound(TRUE)
          /\ UNCHANGED todo
       \/ /\ net /\ remote \notin trails
          /\ pc' = "objects"
          /\ todo' = 1
          /\ UNCHANGED <<progress, synced>>
    /\ UNCHANGED <<cloudVars, file, metaDone, creds, unclaimed, remote, conn, shown, net, faults, setup>>

(* Mutant: the upload goes on after an object that failed. *)
PutObjectsPassesOver ==
    /\ pc = "objects" /\ todo <= Objects
    /\ todo' = todo + 1
    /\ stored' = IF net THEN stored \cup {todo} ELSE stored
    /\ UNCHANGED <<cloud, trails, disk, pc, creds, unclaimed, remote, synced, conn, shown, net, faults, setup>>

(* trail_put_objects and trail_put_object: an object the cloud has already  *)
(* is fine, one that fails ends the upload, and so does one whose contents  *)
(* are not those of its name.                                               *)
trail_put_objects ==
    /\ pc = "objects" /\ todo <= Objects
    /\ IF todo \notin Changed /\ net
       THEN /\ stored' = stored \cup {todo}
            /\ todo' = todo + 1
            /\ UNCHANGED <<pc, progress>>
       ELSE /\ EndOfRound(synced)
            /\ UNCHANGED <<stored, todo>>
    /\ UNCHANGED <<cloud, trails, file, metaDone, creds, unclaimed, remote, synced, conn, shown,
                   net, faults, setup>>

(* trail_first_boot posts the state; whether it arrived shows the next time *)
(* around.                                                                  *)
trail_first_boot ==
    /\ pc = "objects" /\ todo = Objects + 1
    /\ trails' = IF net THEN trails \cup {remote} ELSE trails
    /\ EndOfRound(synced)
    /\ UNCHANGED <<cloud, stored, file, metaDone, mem, conn, shown, net, faults, setup>>

-----------------------------------------------------------------------------
(* The world *)

(* A user claims a device in the cloud with the challenge of its log or of  *)
(* /pv/challenge.                                                           *)
UserClaims ==
    /\ \E d \in shown :
        /\ cloud[d] = "unowned"
        /\ cloud' = [cloud EXCEPT ![d] = "owned"]
    /\ UNCHANGED <<stored, trails, disk, pc, mem, conn, shown, net, faults, setup>>

Claiming == {"exists", "register", "save", "owned"}

Disconnect ==
    /\ net /\ faults < MaxFaults
    /\ Flaky \/ pc \notin Claiming
    /\ net' = FALSE
    /\ faults' = faults + 1
    /\ UNCHANGED <<cloudVars, disk, pc, mem, conn, shown, setup>>

Reconnect ==
    /\ ~net
    /\ Flaky \/ pc \notin Claiming
    /\ net' = TRUE
    /\ UNCHANGED <<cloudVars, disk, pc, mem, conn, shown, faults, setup>>

(* Power loss, or a reboot the main loop asks for. *)
PowerLoss ==
    /\ pc # "off" /\ faults < MaxFaults
    /\ pc' = "off"
    /\ faults' = faults + 1
    /\ UNCHANGED <<cloudVars, disk, mem, conn, shown, net, setup>>

-----------------------------------------------------------------------------
Init ==
    /\ cloud = [d \in Ids |-> "none"]
    /\ stored = {} /\ trails = {}
    /\ file = [f \in Configs |-> IF f = "pantahub" THEN NoCreds ELSE NoFile]
    /\ progress = "none" /\ metaDone = FALSE
    /\ pc = "off"
    /\ creds = NoCreds /\ unclaimed = FALSE
    /\ client = 0 /\ endpoint = 0 /\ remote = 0
    /\ synced = FALSE /\ todo = 0
    /\ shown = {} /\ net \in BOOLEAN /\ faults = 0
    /\ setup \in Setups

pv_wait_unclaimed ==
    \/ LoadCreds \/ pv_ph_device_exists \/ RegisterBuiltin \/ RegisterExternal
    \/ SaveRegistered \/ pv_ph_device_is_owned \/ SaveClaimed

pv_wait_network ==
    \/ CheckAuth \/ pv_meta_update_to_ph \/ pv_updater_check_for_updates
    \/ trail_put_objects \/ trail_first_boot

Loop == Boot \/ pv_wait_unclaimed \/ _pv_factory_upload \/ pv_wait_network

Next == Loop \/ UserClaims \/ Disconnect \/ Reconnect \/ PowerLoss

Spec == Init /\ [][Next]_vars

(* The loop goes on by itself and a user who has read a challenge uses it.  *)
(* A connection that was lost comes back, though for some instances only    *)
(* between two rounds of the loop, hence strong fairness.                   *)
FairSpec == Spec /\ WF_vars(Loop) /\ SF_vars(Reconnect) /\ WF_vars(UserClaims)

-----------------------------------------------------------------------------
(* Properties *)

TypeOK ==
    /\ cloud \in [Ids -> {"none", "unowned", "owned"}]
    /\ stored \subseteq 1..Objects /\ trails \subseteq Id0
    /\ file \in [Configs -> Creds \cup {NoFile, Empty}]
    /\ progress \in {"none", "UNREGISTERED", "UNCLAIMED", "SYNCING", "DONE"}
    /\ pc \in {"off", "hung", "wait", "claimed", "factory", "meta", "check", "objects"}
              \cup Claiming
    /\ creds \in Creds
    /\ client \in Id0 /\ endpoint \in Id0 /\ remote \in Id0
    /\ todo \in 0..(Objects + 1)
    /\ shown \subseteq Ids
    /\ metaDone \in BOOLEAN /\ unclaimed \in BOOLEAN /\ synced \in BOOLEAN /\ net \in BOOLEAN
    /\ faults \in 0..MaxFaults
    /\ setup \in Setups

(* If storage is never full: what pantahub.config makes the device, and the *)
(* device that a running claimed pantavisor takes itself for, is one whose  *)
(* owner has claimed it, with everything that is needed to log in           *)
(* (pv_storage_init only looks at the prn).                                 *)
Whole(c) == c = NoCreds \/ \E d \in Ids : c = CredsOf(d) /\ cloud[d] = "owned"
ClaimedIsOwned ==
    ~CutWrites =>
        /\ Whole(file["pantahub"])
        /\ pc \notin {"off", "hung"} /\ ~unclaimed => Whole(creds) /\ creds # NoCreds

(* If storage is never full: when a request can be sent, login, endpoint    *)
(* and trail are those of the device the credentials are for: a client      *)
(* never outlives a registration.                                           *)
OneDevice ==
    ~CutWrites /\ pc \notin {"off", "hung", "save"} =>
        /\ client # 0 => client = creds.id
        /\ endpoint # 0 => endpoint = creds.id
        /\ remote # 0 => remote = creds.id

(* A base trail in the cloud has all its objects there, and the factory     *)
(* revision is said to be DONE only when it has arrived.                    *)
TrailIsComplete ==
    /\ trails # {} => stored = 1..Objects
    /\ progress = "DONE" => creds.id \in trails

(* The connection and the storage are good while a device is claimed. *)
Steady == ~Flaky /\ ~CutWrites

(* Credentials that were stored for an unclaimed device are never replaced  *)
(* by those of another one: a user may already have read its challenge.     *)
(* (A connection that fails for the one question whether the device exists  *)
(* makes it register again.)                                                *)
KeepsRegistration ==
    [][Steady /\ file["unclaimed"] \in Creds /\ file["unclaimed"].id # 0
         => file'["unclaimed"] = file["unclaimed"]]_vars

(* The device a user has claimed is the one the device becomes.             *)
ShownIsClaimed ==
    \A d \in Ids :
        (Steady /\ d \in shown /\ cloud[d] = "owned") ~> (file["pantahub"] = CredsOf(d))

(* In the end the factory revision is in the cloud and DONE, over power     *)
(* losses and lost connections.                                             *)
SyncedInTheEnd == <>[](CutWrites \/ progress = "DONE")
==============================================================================

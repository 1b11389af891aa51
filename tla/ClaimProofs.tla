---------------------------- MODULE ClaimProofs ------------------------------
(* Proofs about Claim, for every number of devices, objects and faults.     *)
EXTENDS Claim, TLAPS

-----------------------------------------------------------------------------
(* Types. An empty or missing file is never taken for credentials: the      *)
(* device hangs on an empty file before it can, pantahub.config is always   *)
(* there.                                                                   *)

FilesFit ==
    /\ file["pantahub"] # NoFile
    /\ pc \in {"exists", "register"} => file["unclaimed"] # Empty
    /\ pc = "objects" => todo # 0

TypeInv == TypeOK /\ FilesFit

(* The set of credentials is that of the assumption. *)
LEMMA CredsFit ==
    /\ NoCreds \in Creds /\ \A d \in Ids : CredsOf(d) \in Creds
    /\ NoFile \notin Creds /\ Empty \notin Creds /\ NoFile # Empty
  BY ClaimAssumption DEF NoCreds, CredsOf, Creds, Ids, Id0

(* What a save leaves behind is a credentials file or an empty one.         *)
LEMMA SavedFits ==
  ASSUME NEW c \in Creds
  PROVE  Saved(c) \subseteq Creds \cup {Empty}
  BY ClaimAssumption DEF Saved, Creds, NoCreds, Id0

(* The client of pantahub.c stays a device or none. *)
LEMMA ClientFits ==
  ASSUME TypeInv, NEW ok \in BOOLEAN, ph_client_init(ok)
  PROVE  client' \in Id0 /\ endpoint' \in Id0
  <1>1. 0 \in Id0 /\ ClientOf(creds) \in Id0 /\ creds.id \in Id0
    BY ClaimAssumption DEF ClientOf, TypeInv, TypeOK, Creds, Id0
  <1> QED
    BY <1>1 DEF ph_client_init, conn, TypeInv, TypeOK

(* A new device has two files and nothing in the cloud. *)
LEMMA TypeInit == Init => TypeInv
  <1> SUFFICES ASSUME Init PROVE TypeInv
    OBVIOUS
  <1>1. file \in [Configs -> Creds \cup {NoFile, Empty}] /\ file["pantahub"] # NoFile
    BY CredsFit DEF Init, Configs
  <1>2. 0 \in Id0 /\ 0 \in 0..(Objects + 1) /\ 0 \in 0..MaxFaults
    BY ClaimAssumption DEF Id0
  <1>3. cloud \in [Ids -> {"none", "unowned", "owned"}] /\ creds \in Creds
    BY CredsFit DEF Init
  <1>4. TypeOK
    BY <1>1, <1>2, <1>3 DEF Init, TypeOK
  <1>5. FilesFit
    BY <1>1 DEF Init, FilesFit
  <1> QED
    BY <1>4, <1>5 DEF TypeInv

(* Start, and the steps of pv_wait_unclaimed. *)
LEMMA TypeClaim ==
  ASSUME TypeInv, Boot \/ pv_wait_unclaimed \/ _pv_factory_upload
  PROVE  TypeInv'
  <1>1. /\ NoCreds \in Creds /\ \A d \in Ids : CredsOf(d) \in Creds
        /\ NoFile \notin Creds /\ Empty \notin Creds /\ NoFile # Empty
    BY CredsFit
  <1>2. "unclaimed" \in Configs /\ "pantahub" \in Configs /\ 0 \in Id0 /\ Ids \subseteq Id0
        /\ 0 \in 0..(Objects + 1)
    BY ClaimAssumption DEF Configs, Ids, Id0
  <1>3. CASE Boot
    <2>1. ~Hangs("pantahub") => file["pantahub"] \in Creds
      BY <1>2 DEF Hangs, TypeInv, TypeOK, FilesFit
    <2>2. creds' \in Creds /\ unclaimed' \in BOOLEAN
      BY <1>3, <2>1 DEF Boot, TypeInv, TypeOK
    <2> QED
      BY <1>2, <1>3, <2>2 DEF Boot, TypeInv, TypeOK, FilesFit, cloudVars
  <1>4. CASE LoadCreds
    <2>1. ~Hangs("unclaimed") => Loaded("unclaimed") \in Creds /\ file["unclaimed"] # Empty
      BY <1>2 DEF Hangs, Loaded, TypeInv, TypeOK
    <2>2. ConfigFile(unclaimed) = "unclaimed"
      BY <1>4 DEF LoadCreds, ConfigFile
    <2>3. creds' \in Creds
      BY <1>4, <2>1, <2>2 DEF LoadCreds, TypeInv, TypeOK
    <2> QED
      BY <1>4, <2>1, <2>2, <2>3
         DEF LoadCreds, TypeInv, TypeOK, FilesFit, Claiming, cloudVars, disk, conn
  <1>5. CASE pv_ph_device_exists
    <2>1. client' \in Id0 /\ endpoint' \in Id0
      BY <1>5, ClientFits DEF pv_ph_device_exists
    <2> QED
      BY <1>5, <2>1
         DEF pv_ph_device_exists, TypeInv, TypeOK, FilesFit, Claiming, cloudVars, disk, mem
  <1>6. CASE RegisterBuiltin
    <2>1. cloud' \in [Ids -> {"none", "unowned", "owned"}]
      BY <1>6 DEF RegisterBuiltin, Registered, TypeInv, TypeOK
    <2>2. creds' \in Creds /\ client' \in Id0 /\ endpoint' \in Id0
      BY <1>1, <1>2, <1>6 DEF RegisterBuiltin, pv_ph_release_client, conn, TypeInv, TypeOK
    <2>3. faults' \in 0..MaxFaults
      BY <1>6, ClaimAssumption DEF RegisterBuiltin, TypeInv, TypeOK
    <2> QED
      BY <1>6, <2>1, <2>2, <2>3
         DEF RegisterBuiltin, TypeInv, TypeOK, FilesFit, Claiming, disk
  <1>7. CASE RegisterExternal
    <2>1. cloud' \in [Ids -> {"none", "unowned", "owned"}]
      BY <1>7 DEF RegisterExternal, Registered, TypeInv, TypeOK
    <2>2. /\ file' \in [Configs -> Creds \cup {NoFile, Empty}]
          /\ file'["pantahub"] = file["pantahub"]
      BY <1>1, <1>2, <1>7 DEF RegisterExternal, TypeInv, TypeOK
    <2>3. creds' \in Creds
      BY <1>1, <1>2, <1>7 DEF RegisterExternal, TypeInv, TypeOK, FilesFit
    <2>4. client' \in Id0 /\ endpoint' \in Id0
      BY <1>2, <1>7 DEF RegisterExternal, pv_ph_release_client, conn, TypeInv, TypeOK
    <2> QED
      BY <1>7, <2>1, <2>2, <2>3, <2>4
         DEF RegisterExternal, TypeInv, TypeOK, FilesFit, Claiming
  <1>8. CASE SaveRegistered \/ SaveClaimed
    <2>1. PICK f \in Configs, c \in Saved(creds) : file' = [file EXCEPT ![f] = c]
      BY <1>2, <1>8 DEF SaveRegistered, SaveClaimed, pv_config_save_creds, ConfigFile
    <2>2. c \in Creds \cup {Empty}
      BY <2>1, SavedFits DEF TypeInv, TypeOK
    <2>3. file' \in [Configs -> Creds \cup {NoFile, Empty}] /\ file'["pantahub"] # NoFile
      BY <1>1, <2>1, <2>2 DEF TypeInv, TypeOK, FilesFit
    <2> QED
      BY <1>2, <1>8, <2>3
         DEF SaveRegistered, SaveClaimed, pv_ph_release_client, TypeInv, TypeOK, FilesFit,
             Claiming, cloudVars, mem
  <1>9. CASE pv_ph_device_is_owned
    <2>1. client' \in Id0 /\ endpoint' \in Id0
      BY <1>9, ClientFits DEF pv_ph_device_is_owned
    <2>2. ASSUME NEW ok \in BOOLEAN, ph_client_init(ok), Answered(ok) PROVE endpoint' \in Ids
      <3>1. client' # 0
        BY <2>2 DEF ph_client_init, Answered
      <3> QED
        BY <2>1, <2>2, <3>1, ClaimAssumption DEF Answered, Ids, Id0
    <2>3. shown' \subseteq Ids
      BY <1>9, <2>2 DEF pv_ph_device_is_owned, TypeInv, TypeOK
    <2> QED
      BY <1>9, <2>1, <2>3
         DEF pv_ph_device_is_owned, TypeInv, TypeOK, FilesFit, cloudVars, mem
  <1>10. CASE _pv_factory_upload
    <2>1. client' \in Id0 /\ endpoint' \in Id0
      BY <1>10, ClientFits DEF _pv_factory_upload, conn, TypeInv, TypeOK
    <2> QED
      BY <1>10, <2>1 DEF _pv_factory_upload, TypeInv, TypeOK, FilesFit, cloudVars, mem
  <1> QED
    BY <1>3, <1>4, <1>5, <1>6, <1>7, <1>8, <1>9, <1>10 DEF pv_wait_unclaimed

(* The steps of pv_wait_network. *)
LEMMA TypeNetwork ==
  ASSUME TypeInv, pv_wait_network
  PROVE  TypeInv'
  <1>1. 0 \in Id0 /\ Ids \subseteq Id0 /\ creds.id \in Id0
    BY ClaimAssumption DEF Ids, Id0, TypeInv, TypeOK, Creds
  <1>2. CASE CheckAuth
    <2>1. PICK ph \in BOOLEAN, trail \in BOOLEAN :
            /\ pv_ph_is_auth(ph)
            /\ IF ph THEN pv_trail_is_auth(trail) ELSE ~trail /\ UNCHANGED remote
            /\ pc' = IF ~trail THEN "wait" ELSE IF metaDone THEN "meta" ELSE "factory"
      BY <1>2 DEF CheckAuth
    <2>2. client' \in Id0 /\ endpoint' \in Id0
      BY <2>1, ClientFits DEF pv_ph_is_auth, conn, TypeInv, TypeOK
    <2>3. remote' \in Id0
      BY <1>1, <2>1 DEF pv_trail_is_auth, TypeInv, TypeOK
    <2>4. pc' \in {"wait", "meta", "factory"}
      BY <2>1
    <2> QED
      BY <1>2, <2>2, <2>3, <2>4 DEF CheckAuth, TypeInv, TypeOK, FilesFit, cloudVars, disk
  <1>3. CASE pv_meta_update_to_ph
    <2>1. client' \in Id0 /\ endpoint' \in Id0
      BY <1>3, ClientFits DEF pv_meta_update_to_ph
    <2>2. pc' \in {"check", "wait"}
      BY <1>3 DEF pv_meta_update_to_ph
    <2> QED
      BY <1>3, <2>1, <2>2 DEF pv_meta_update_to_ph, TypeInv, TypeOK, FilesFit, cloudVars, disk, mem
  <1>4. CASE pv_updater_check_for_updates
    <2>1. todo' \in 0..(Objects + 1) /\ (pc' = "objects" => todo' # 0)
      BY <1>4, ClaimAssumption DEF pv_updater_check_for_updates, EndOfRound, TypeInv, TypeOK
    <2>2. pc' \in {"wait", "objects"} /\ synced' \in BOOLEAN
          /\ progress' \in {"none", "UNREGISTERED", "UNCLAIMED", "SYNCING", "DONE"}
      BY <1>4 DEF pv_updater_check_for_updates, EndOfRound, TypeInv, TypeOK
    <2> QED
      BY <1>4, <2>1, <2>2
         DEF pv_updater_check_for_updates, TypeInv, TypeOK, FilesFit, cloudVars, conn
  <1>5. CASE trail_put_objects
    <2>1. todo \in 1..Objects /\ todo + 1 \in 0..(Objects + 1) /\ todo + 1 # 0
      BY <1>5, ClaimAssumption DEF trail_put_objects, TypeInv, TypeOK, FilesFit
    <2>2. stored' \subseteq 1..Objects /\ todo' \in 0..(Objects + 1) /\ (pc' = "objects" => todo' # 0)
      BY <1>5, <2>1 DEF trail_put_objects, EndOfRound, TypeInv, TypeOK, FilesFit
    <2>3. pc' \in {"wait", "objects"}
          /\ progress' \in {"none", "UNREGISTERED", "UNCLAIMED", "SYNCING", "DONE"}
      BY <1>5 DEF trail_put_objects, EndOfRound, TypeInv, TypeOK
    <2> QED
      BY <1>5, <2>2, <2>3 DEF trail_put_objects, TypeInv, TypeOK, FilesFit, conn
  <1>6. CASE trail_first_boot
    BY <1>1, <1>6
       DEF trail_first_boot, EndOfRound, TypeInv, TypeOK, FilesFit, mem, conn
  <1> QED
    BY <1>2, <1>3, <1>4, <1>5, <1>6 DEF pv_wait_network

(* Users, connection and power. *)
LEMMA TypeWorld ==
  ASSUME TypeInv, UserClaims \/ Disconnect \/ Reconnect \/ PowerLoss
  PROVE  TypeInv'
  <1>1. cloud' \in [Ids -> {"none", "unowned", "owned"}]
    BY DEF UserClaims, Disconnect, Reconnect, PowerLoss, cloudVars, TypeInv, TypeOK
  <1>2. faults' \in 0..MaxFaults
    BY ClaimAssumption DEF UserClaims, Disconnect, Reconnect, PowerLoss, TypeInv, TypeOK
  <1>3. CASE UserClaims
    BY <1>1, <1>2, <1>3 DEF UserClaims, TypeInv, TypeOK, FilesFit, disk, mem, conn
  <1>4. CASE Disconnect \/ Reconnect
    BY <1>1, <1>2, <1>4
       DEF Disconnect, Reconnect, TypeInv, TypeOK, FilesFit, cloudVars, disk, mem, conn
  <1>5. CASE PowerLoss
    BY <1>1, <1>2, <1>5 DEF PowerLoss, TypeInv, TypeOK, FilesFit, cloudVars, disk, mem, conn
  <1> QED
    BY <1>3, <1>4, <1>5

(* TypeInv is inductive. *)
LEMMA TypeStep == TypeInv /\ [Next]_vars => TypeInv'
  <1> SUFFICES ASSUME TypeInv, [Next]_vars PROVE TypeInv'
    OBVIOUS
  <1>1. CASE Loop
    BY <1>1, TypeClaim, TypeNetwork DEF Loop
  <1>2. CASE UserClaims \/ Disconnect \/ Reconnect \/ PowerLoss
    BY <1>2, TypeWorld
  <1>3. CASE UNCHANGED vars
    BY <1>3 DEF vars, cloudVars, disk, mem, conn, TypeInv, TypeOK, FilesFit
  <1> QED
    BY <1>1, <1>2, <1>3 DEF Next

(* Every variable keeps its type, for every configuration and every fault:  *)
(* in particular nothing but whole or shortened credentials is ever taken   *)
(* for credentials.                                                         *)
THEOREM TypeCorrect == Spec => []TypeOK
  <1>1. Init => TypeInv
    BY TypeInit
  <1>2. TypeInv /\ [Next]_vars => TypeInv'
    BY TypeStep
  <1>3. TypeInv => TypeOK
    BY DEF TypeInv
  <1> QED
    BY <1>1, <1>2, <1>3, PTL DEF Spec

-----------------------------------------------------------------------------
(* The base trail. The trail client is only made for a claimed device, whose *)
(* credentials no longer change, so it stays that of the device; and the     *)
(* objects in front of the next one are in the cloud.                        *)

Phase == pc \in Claiming \cup {"claimed"} => unclaimed

RemoteFits ==
    /\ remote # 0 => ~unclaimed /\ remote = creds.id
    /\ pc \in {"meta", "check", "objects"} => remote # 0
    /\ synced => remote # 0 /\ remote \in trails

Uploaded ==
    /\ pc = "objects" => 1..(todo - 1) \subseteq stored
    /\ trails # {} => stored = 1..Objects

DoneFits == progress = "DONE" => ~unclaimed /\ creds.id \in trails

TrailInv == Phase /\ RemoteFits /\ Uploaded /\ DoneFits

(* Start, claim and the world leave objects and trails alone. *)
LEMMA TrailClaim ==
  ASSUME TypeInv, TrailInv,
         \/ Boot \/ pv_wait_unclaimed \/ _pv_factory_upload
         \/ UserClaims \/ Disconnect \/ Reconnect \/ PowerLoss
  PROVE  TrailInv'
  <1>1. UNCHANGED <<stored, trails>>
    BY DEF Boot, pv_wait_unclaimed, LoadCreds, pv_ph_device_exists, RegisterBuiltin,
           RegisterExternal, SaveRegistered, pv_ph_device_is_owned, SaveClaimed,
           _pv_factory_upload, UserClaims, Disconnect, Reconnect, PowerLoss, cloudVars
  <1>2. CASE Boot
    BY <1>1, <1>2 DEF Boot, TrailInv, Phase, RemoteFits, Uploaded, DoneFits, Claiming
  <1>3. CASE pv_wait_unclaimed
    <2>1. unclaimed /\ remote = 0 /\ ~synced /\ progress # "DONE"
      BY <1>3 DEF pv_wait_unclaimed, LoadCreds, pv_ph_device_exists, RegisterBuiltin,
           RegisterExternal, SaveRegistered, pv_ph_device_is_owned, SaveClaimed,
           TrailInv, Phase, RemoteFits, DoneFits, Claiming
    <2>2. UNCHANGED <<remote, synced>> /\ progress' \in {progress, "SYNCING", "UNCLAIMED"}
      BY <1>3 DEF pv_wait_unclaimed, LoadCreds, pv_ph_device_exists, RegisterBuiltin,
           RegisterExternal, SaveRegistered, pv_ph_device_is_owned, SaveClaimed, disk, mem
    <2>3. /\ pc' \in Claiming \cup {"claimed", "hung", "wait", "factory"}
          /\ pc' \in Claiming \cup {"claimed"} => UNCHANGED unclaimed
      BY <1>3 DEF pv_wait_unclaimed, LoadCreds, pv_ph_device_exists, RegisterBuiltin,
           RegisterExternal, SaveRegistered, pv_ph_device_is_owned, SaveClaimed, mem, Claiming
    <2> QED
      BY <1>1, <2>1, <2>2, <2>3 DEF TrailInv, Phase, RemoteFits, Uploaded, DoneFits, Claiming
  <1>4. CASE _pv_factory_upload
    BY <1>1, <1>4
       DEF _pv_factory_upload, mem, TrailInv, Phase, RemoteFits, Uploaded, DoneFits, Claiming
  <1>5. CASE UserClaims \/ Disconnect \/ Reconnect \/ PowerLoss
    BY <1>1, <1>5
       DEF UserClaims, Disconnect, Reconnect, PowerLoss, disk, mem,
           TrailInv, Phase, RemoteFits, Uploaded, DoneFits, Claiming
  <1> QED
    BY <1>2, <1>3, <1>4, <1>5

(* The rounds of a claimed device. *)
LEMMA TrailNetwork ==
  ASSUME TypeInv, TrailInv, pv_wait_network
  PROVE  TrailInv'
  <1>1. CASE CheckAuth
    <2>1. PICK ph \in BOOLEAN, trail \in BOOLEAN :
            /\ IF ph THEN pv_trail_is_auth(trail) ELSE ~trail /\ UNCHANGED remote
            /\ pc' = IF ~trail THEN "wait" ELSE IF metaDone THEN "meta" ELSE "factory"
      BY <1>1 DEF CheckAuth
    <2>2. /\ remote' # 0 => remote' = creds.id
          /\ trail => remote' # 0
          /\ remote # 0 => remote' = remote
      BY <2>1 DEF pv_trail_is_auth, TrailInv, RemoteFits
    <2>3. pc' \in {"wait", "meta", "factory"} /\ (pc' = "meta" => trail)
      BY <2>1
    <2>4. ~unclaimed /\ UNCHANGED <<cloudVars, disk, creds, unclaimed, synced>>
      BY <1>1 DEF CheckAuth
    <2> QED
      BY <2>2, <2>3, <2>4
         DEF cloudVars, disk, TrailInv, Phase, RemoteFits, Uploaded, DoneFits, Claiming
  <1>2. CASE pv_meta_update_to_ph
    <2>1. pc' \in {"check", "wait"} /\ remote # 0
      BY <1>2 DEF pv_meta_update_to_ph, TrailInv, RemoteFits
    <2> QED
      BY <1>2, <2>1
         DEF pv_meta_update_to_ph, cloudVars, disk, mem,
             TrailInv, Phase, RemoteFits, Uploaded, DoneFits, Claiming
  <1>3. CASE pv_updater_check_for_updates
    <2>1. remote # 0 /\ ~unclaimed /\ remote = creds.id
      BY <1>3 DEF pv_updater_check_for_updates, TrailInv, RemoteFits
    <2>2. UNCHANGED <<stored, trails, creds, unclaimed, remote>>
      BY <1>3 DEF pv_updater_check_for_updates, cloudVars
    <2>3. pc' \in {"wait", "objects"} /\ (pc' = "objects" => todo' = 1)
      BY <1>3 DEF pv_updater_check_for_updates, EndOfRound
    <2>4. synced' => remote \in trails
      BY <1>3 DEF pv_updater_check_for_updates, TrailInv, RemoteFits
    <2>5. progress' = "DONE" => creds.id \in trails
      BY <1>3, <2>1
         DEF pv_updater_check_for_updates, EndOfRound, TrailInv, RemoteFits, DoneFits
    <2>6. pc' = "objects" => 1..(todo' - 1) \subseteq stored
      BY <2>3
    <2> QED
      BY <2>1, <2>2, <2>3, <2>4, <2>5, <2>6
         DEF TrailInv, Phase, RemoteFits, Uploaded, DoneFits, Claiming
  <1>4. CASE trail_put_objects
    <2>1. /\ remote # 0 /\ ~unclaimed /\ remote = creds.id
          /\ 1..(todo - 1) \subseteq stored /\ todo \in 1..Objects
      BY <1>4, ClaimAssumption
         DEF trail_put_objects, TrailInv, RemoteFits, Uploaded, TypeInv, TypeOK, FilesFit
    <2>2. UNCHANGED <<trails, creds, unclaimed, remote, synced>>
      BY <1>4 DEF trail_put_objects
    <2>3. pc' = "objects" => 1..(todo' - 1) \subseteq stored'
      BY <1>4, <2>1 DEF trail_put_objects, EndOfRound
    <2>4. stored \subseteq stored' /\ stored' \subseteq 1..Objects
      BY <1>4, <2>1 DEF trail_put_objects, TypeInv, TypeOK
    <2>5. pc' \in {"wait", "objects"} /\ (progress' = "DONE" => progress = "DONE" \/ synced)
      BY <1>4 DEF trail_put_objects, EndOfRound
    <2> QED
      BY <2>1, <2>2, <2>3, <2>4, <2>5
         DEF TrailInv, Phase, RemoteFits, Uploaded, DoneFits, Claiming
  <1>5. CASE trail_first_boot
    <2>1. /\ remote # 0 /\ ~unclaimed /\ remote = creds.id
          /\ 1..(todo - 1) \subseteq stored /\ todo = Objects + 1
      BY <1>5 DEF trail_first_boot, TrailInv, RemoteFits, Uploaded
    <2>2. stored = 1..Objects
      <3>1. todo - 1 = Objects
        BY <2>1, ClaimAssumption
      <3> QED
        BY <2>1, <3>1 DEF TypeInv, TypeOK
    <2>3. UNCHANGED <<stored, creds, unclaimed, remote, synced>> /\ trails \subseteq trails'
      BY <1>5 DEF trail_first_boot, mem
    <2>4. pc' = "wait" /\ (progress' = "DONE" => progress = "DONE" \/ synced)
      BY <1>5 DEF trail_first_boot, EndOfRound
    <2> QED
      BY <2>1, <2>2, <2>3, <2>4
         DEF TrailInv, Phase, RemoteFits, Uploaded, DoneFits, Claiming
  <1> QED
    BY <1>1, <1>2, <1>3, <1>4, <1>5 DEF pv_wait_network

(* TrailInv is inductive. *)
LEMMA TrailStep == TypeInv /\ TrailInv /\ [Next]_vars => TrailInv'
  <1> SUFFICES ASSUME TypeInv, TrailInv, [Next]_vars PROVE TrailInv'
    OBVIOUS
  <1>1. CASE Loop
    BY <1>1, TrailClaim, TrailNetwork DEF Loop
  <1>2. CASE UserClaims \/ Disconnect \/ Reconnect \/ PowerLoss
    BY <1>2, TrailClaim
  <1>3. CASE UNCHANGED vars
    BY <1>3 DEF vars, cloudVars, disk, mem, conn, TrailInv, Phase, RemoteFits, Uploaded, DoneFits
  <1> QED
    BY <1>1, <1>2, <1>3 DEF Next

(* A base trail in the cloud has all its objects there, and the factory     *)
(* revision is DONE only when its trail has arrived: over power losses, lost *)
(* connections and lost answers, and even with credentials that full storage *)
(* has cut off.                                                             *)
THEOREM TrailCorrect == Spec => []TrailIsComplete
  <1>1. Init => TypeInv /\ TrailInv
    <2>1. Init => TrailInv
      BY DEF Init, TrailInv, Phase, RemoteFits, Uploaded, DoneFits, Claiming
    <2> QED
      BY <2>1, TypeInit
  <1>2. TypeInv /\ TrailInv /\ [Next]_vars => (TypeInv /\ TrailInv)'
    BY TypeStep, TrailStep
  <1>3. TypeInv /\ TrailInv => TrailIsComplete
    BY DEF TrailInv, Uploaded, DoneFits, TrailIsComplete
  <1> QED
    BY <1>1, <1>2, <1>3, PTL DEF Spec

-----------------------------------------------------------------------------
(* Identity, on storage that is never full. Credentials are those of a       *)
(* registered device or none; while the device is unclaimed those in memory  *)
(* are those of unclaimed.config, except between a registration and its      *)
(* save; and every client is one of the current credentials.                 *)

Given == {CredsOf(d) : d \in Ids}
Up == pc \notin {"off", "hung"}

Stored ==
    /\ file["unclaimed"] \in Given \cup {NoFile}
    /\ Whole(file["pantahub"])

InMemory ==
    /\ creds \in Given \cup {NoCreds}
    /\ Up /\ unclaimed /\ pc # "save" /\ creds # NoCreds => file["unclaimed"] = creds
    /\ Up /\ ~unclaimed => creds = file["pantahub"] /\ creds # NoCreds
    /\ pc \in {"exists", "save", "owned", "claimed"} => creds # NoCreds
    /\ pc = "claimed" => cloud[creds.id] = "owned"

Clients == Up /\ pc # "save" => client \in {0, creds.id} /\ endpoint \in {0, creds.id}

IdInv == Stored /\ InMemory /\ Clients

(* Credentials tell which device they are for, and none is number 0. *)
LEMMA GivenFacts ==
    /\ \A c \in Given : /\ c.id \in Ids /\ c = CredsOf(c.id) /\ c.id # 0
                        /\ c.prn = c.id /\ c.secret = c.id
                        /\ c # NoCreds /\ c # NoFile /\ c # Empty
    /\ NoCreds.id = 0 /\ NoCreds.prn = 0 /\ NoCreds # NoFile /\ NoCreds # Empty
  <1>1. ASSUME NEW d \in Ids
        PROVE  /\ CredsOf(d).id = d /\ CredsOf(d).prn = d /\ CredsOf(d).secret = d /\ d # 0
               /\ CredsOf(d) # NoCreds /\ CredsOf(d) # NoFile /\ CredsOf(d) # Empty
    <2>1. CredsOf(d).id = d /\ CredsOf(d).prn = d /\ CredsOf(d).secret = d /\ d # 0
      BY ClaimAssumption DEF CredsOf, Ids
    <2>2. NoCreds.id = 0
      BY DEF NoCreds
    <2> QED
      BY <2>1, <2>2, CredsFit
  <1>2. NoCreds.id = 0 /\ NoCreds.prn = 0
    BY DEF NoCreds
  <1> QED
    BY <1>1, <1>2, CredsFit DEF Given

(* An owner is for ever, and devices are only added. *)
LEMMA CloudGrows ==
  ASSUME TypeInv, Next
  PROVE  \A d \in Ids : cloud[d] = "owned" => cloud'[d] = "owned"
  <1>1. \/ UNCHANGED cloud
        \/ \E d \in Ids : Registered(d)
        \/ UserClaims
    BY DEF Next, Loop, Boot, pv_wait_unclaimed, pv_wait_network, LoadCreds, pv_ph_device_exists,
           RegisterBuiltin, RegisterExternal, SaveRegistered, pv_ph_device_is_owned, SaveClaimed,
           _pv_factory_upload, CheckAuth, pv_meta_update_to_ph, pv_updater_check_for_updates,
           trail_put_objects, trail_first_boot, Disconnect, Reconnect, PowerLoss, cloudVars
  <1>2. ASSUME NEW d \in Ids, Registered(d)
        PROVE  \A e \in Ids : cloud[e] = "owned" => cloud'[e] = "owned"
    <2>1. cloud[d] = "none"
      BY <1>2, ClaimAssumption DEF Registered, Ids
    <2> QED
      BY <1>2, <2>1 DEF Registered, TypeInv, TypeOK
  <1>3. CASE UserClaims
    BY <1>3 DEF UserClaims, TypeInv, TypeOK
  <1> QED
    BY <1>1, <1>2, <1>3

(* ph_client_init makes clients of the current credentials only, and a      *)
(* request that is answered is about their device.                          *)
LEMMA ClientIsOurs ==
  ASSUME TypeInv, IdInv, Up, pc # "save", NEW ok \in BOOLEAN, ph_client_init(ok)
  PROVE  /\ client' \in {0, creds.id} /\ endpoint' \in {0, creds.id}
         /\ Answered(ok) => endpoint' = creds.id /\ creds.id # 0
  <1>1. ClientOf(creds) \in {0, creds.id}
    BY GivenFacts DEF ClientOf, IdInv, InMemory
  <1>2. client \in {0, creds.id} /\ endpoint \in {0, creds.id}
    BY DEF IdInv, Clients
  <1>3. client' \in {0, creds.id} /\ endpoint' \in {0, creds.id} /\ (ok => client' # 0)
    BY <1>1, <1>2 DEF ph_client_init, conn
  <1> QED
    BY <1>3 DEF Answered

(* A step that changes neither files nor credentials keeps IdInv if its     *)
(* clients are of these credentials.                                        *)
LEMMA IdKept ==
  ASSUME TypeInv, IdInv, Next, UNCHANGED <<file, creds, unclaimed>>,
         client' \in {0, creds.id}, endpoint' \in {0, creds.id},
         Up, pc # "save",
         pc' \in {"exists", "owned", "claimed"} => creds # NoCreds,
         pc' = "claimed" => cloud'[creds.id] = "owned",
         pc' # "save"
  PROVE  IdInv'
  <1>1. Whole(file["pantahub"])'
    BY CloudGrows DEF IdInv, Stored, Whole
  <1> QED
    BY <1>1 DEF IdInv, Stored, InMemory, Clients, Up

(* Start. *)
LEMMA IdBoot ==
  ASSUME TypeInv, IdInv, Boot
  PROVE  IdInv'
  <1>1. UNCHANGED <<file, cloud>> /\ client' = 0 /\ endpoint' = 0
    BY DEF Boot, cloudVars
  <1>2. file["pantahub"] \in Given \cup {NoCreds}
    BY DEF IdInv, Stored, Whole, Given
  <1>3. pc' = "wait" /\ creds' = file["pantahub"] /\ unclaimed' = (creds'.prn = 0)
    BY <1>2, GivenFacts DEF Boot, Hangs
  <1>4. unclaimed' <=> creds' = NoCreds
    BY <1>2, <1>3, GivenFacts
  <1> QED
    BY <1>1, <1>2, <1>3, <1>4 DEF IdInv, Stored, InMemory, Clients, Up, Whole

(* Registration. *)
LEMMA IdRegister ==
  ASSUME TypeInv, IdInv, TrailInv, Next, RegisterBuiltin \/ RegisterExternal
  PROVE  IdInv'
  <1>1. pc = "register" /\ Up /\ unclaimed /\ UNCHANGED unclaimed
    BY DEF RegisterBuiltin, RegisterExternal, Up, TrailInv, Phase, Claiming
  <1>2. /\ file'["unclaimed"] \in Given \cup {NoFile}
        /\ file'["pantahub"] = file["pantahub"]
    BY DEF RegisterBuiltin, RegisterExternal, disk, Given, IdInv, Stored, TypeInv, TypeOK, Configs
  <1>3. Stored'
    BY <1>2, CloudGrows DEF IdInv, Stored, Whole
  <1>4. CASE pc' = "save"
    <2>1. creds' \in Given
      BY <1>4, GivenFacts DEF RegisterBuiltin, RegisterExternal, Given, IdInv, Stored
    <2> QED
      BY <1>1, <1>3, <1>4, <2>1, GivenFacts DEF IdInv, InMemory, Clients
  <1>5. CASE pc' # "save"
    <2>1. pc' = "wait" /\ UNCHANGED <<file, creds>> /\ client' = 0 /\ endpoint' = 0
      BY <1>5 DEF RegisterBuiltin, RegisterExternal, pv_ph_release_client, disk
    <2> QED
      BY <1>1, <1>3, <2>1 DEF IdInv, InMemory, Clients, Up
  <1> QED
    BY <1>4, <1>5

(* The two saves, where storage is never full. *)
LEMMA IdSave ==
  ASSUME ~CutWrites, TypeInv, IdInv, TrailInv, SaveRegistered \/ SaveClaimed
  PROVE  IdInv'
  <1>1. Saved(creds) = {creds}
    BY DEF Saved
  <1>2. UNCHANGED <<cloud, creds>> /\ client' = 0 /\ endpoint' = 0
    BY DEF SaveRegistered, SaveClaimed, pv_ph_release_client, cloudVars, mem
  <1>3. unclaimed /\ creds \in Given /\ creds # NoCreds
    BY DEF SaveRegistered, SaveClaimed, TrailInv, Phase, Claiming, IdInv, InMemory
  <1>4. CASE SaveRegistered
    <2>1. unclaimed' = unclaimed /\ pc' = "owned" /\ file' = [file EXCEPT !["unclaimed"] = creds]
      BY <1>1, <1>3, <1>4 DEF SaveRegistered, pv_config_save_creds, ConfigFile, mem
    <2>2. file'["unclaimed"] = creds /\ file'["pantahub"] = file["pantahub"]
      BY <2>1 DEF TypeInv, TypeOK, Configs
    <2> QED
      BY <1>2, <1>3, <2>1, <2>2 DEF IdInv, Stored, InMemory, Clients, Up, Whole
  <1>5. CASE SaveClaimed
    <2>1. unclaimed' = FALSE /\ pc' = "factory" /\ file' = [file EXCEPT !["pantahub"] = creds]
      BY <1>1, <1>5 DEF SaveClaimed, pv_config_save_creds, ConfigFile
    <2>2. file'["pantahub"] = creds /\ file'["unclaimed"] = file["unclaimed"]
      BY <2>1 DEF TypeInv, TypeOK, Configs
    <2>3. cloud[creds.id] = "owned" /\ creds.id \in Ids /\ creds = CredsOf(creds.id)
      BY <1>3, <1>5, GivenFacts DEF SaveClaimed, IdInv, InMemory
    <2>4. Whole(creds)'
      BY <1>2, <2>3 DEF Whole
    <2> QED
      BY <1>2, <1>3, <2>1, <2>2, <2>4 DEF IdInv, Stored, InMemory, Clients, Up, Whole
  <1> QED
    BY <1>4, <1>5

(* The other steps of pv_wait_unclaimed and the upload of metadata. *)
LEMMA IdAsk ==
  ASSUME TypeInv, IdInv, TrailInv, Next,
         LoadCreds \/ pv_ph_device_exists \/ pv_ph_device_is_owned \/ _pv_factory_upload
  PROVE  IdInv'
  <1>1. Up /\ pc # "save"
    BY DEF LoadCreds, pv_ph_device_exists, pv_ph_device_is_owned, _pv_factory_upload, Up
  <1>2. CASE LoadCreds
    <2>1. /\ unclaimed /\ UNCHANGED <<file, unclaimed, client, endpoint, cloud>>
          /\ ConfigFile(unclaimed) = "unclaimed"
      BY <1>2 DEF LoadCreds, disk, conn, cloudVars, ConfigFile
    <2>2. file["unclaimed"] \in Given \cup {NoFile} /\ ~Hangs("unclaimed")
      BY GivenFacts, CredsFit DEF IdInv, Stored, Hangs
    <2>3. creds' = Loaded("unclaimed") /\ pc' = IF creds'.id # 0 THEN "exists" ELSE "register"
      BY <1>2, <2>1, <2>2 DEF LoadCreds
    <2>4. \/ creds' = creds /\ (creds = NoCreds \/ file["unclaimed"] = creds)
          \/ creds' = file["unclaimed"] /\ creds' \in Given /\ creds = NoCreds
      BY <1>1, <2>1, <2>2, <2>3, GivenFacts DEF Loaded, IdInv, InMemory
    <2>5. client \in {0, creds.id} /\ endpoint \in {0, creds.id}
      BY <1>1 DEF IdInv, Clients
    <2>6. client \in {0, creds'.id} /\ endpoint \in {0, creds'.id}
      BY <2>4, <2>5, GivenFacts
    <2>7. creds' \in Given \cup {NoCreds} /\ (creds' # NoCreds => file["unclaimed"] = creds')
      BY <2>4 DEF IdInv, InMemory
    <2>8. pc' = "exists" => creds' # NoCreds
      BY <2>3, GivenFacts
    <2>9. pc' \in {"exists", "register"}
      BY <2>3
    <2> QED
      BY <2>1, <2>6, <2>7, <2>8, <2>9 DEF IdInv, Stored, InMemory, Clients, Up, Whole
  <1>3. CASE pv_ph_device_exists
    <2>1. client' \in {0, creds.id} /\ endpoint' \in {0, creds.id}
      BY <1>1, <1>3, ClientIsOurs DEF pv_ph_device_exists
    <2>2. pc' \in {"owned", "register"} /\ creds # NoCreds /\ UNCHANGED <<file, creds, unclaimed>>
      BY <1>3 DEF pv_ph_device_exists, disk, mem, IdInv, InMemory
    <2> QED
      BY <1>1, <2>1, <2>2, IdKept
  <1>4. CASE pv_ph_device_is_owned
    <2>1. PICK ok \in BOOLEAN :
            /\ ph_client_init(ok)
            /\ pc' \in {"claimed", "factory"}
            /\ pc' = "claimed" => Answered(ok) /\ cloud[endpoint'] = "owned"
      BY <1>4 DEF pv_ph_device_is_owned
    <2>2. /\ client' \in {0, creds.id} /\ endpoint' \in {0, creds.id}
          /\ pc' = "claimed" => endpoint' = creds.id
      BY <1>1, <2>1, ClientIsOurs
    <2>3. creds # NoCreds /\ UNCHANGED <<file, creds, unclaimed, cloud>>
      BY <1>4 DEF pv_ph_device_is_owned, cloudVars, mem, IdInv, InMemory
    <2> QED
      BY <1>1, <2>1, <2>2, <2>3, IdKept
  <1>5. CASE _pv_factory_upload
    <2>1. client' \in {0, creds.id} /\ endpoint' \in {0, creds.id}
      BY <1>1, <1>5, ClientIsOurs DEF _pv_factory_upload, conn, IdInv, Clients
    <2>2. pc' \in {"wait", "factory"} /\ UNCHANGED <<file, creds, unclaimed>>
      BY <1>5 DEF _pv_factory_upload, mem
    <2> QED
      BY <1>1, <2>1, <2>2, IdKept
  <1> QED
    BY <1>2, <1>3, <1>4, <1>5

(* The rounds of a claimed device. *)
LEMMA IdNetwork ==
  ASSUME TypeInv, IdInv, Next, pv_wait_network
  PROVE  IdInv'
  <1>1. Up /\ pc # "save" /\ UNCHANGED <<file, creds, unclaimed>>
    BY DEF pv_wait_network, CheckAuth, pv_meta_update_to_ph, pv_updater_check_for_updates,
           trail_put_objects, trail_first_boot, disk, mem, Up
  <1>2. pc' \in {"wait", "meta", "factory", "check", "objects"}
    BY DEF pv_wait_network, CheckAuth, pv_meta_update_to_ph, pv_updater_check_for_updates,
           trail_put_objects, trail_first_boot, EndOfRound
  <1>3. client' \in {0, creds.id} /\ endpoint' \in {0, creds.id}
    <2>1. UNCHANGED conn => client' \in {0, creds.id} /\ endpoint' \in {0, creds.id}
      BY <1>1 DEF conn, IdInv, Clients
    <2>2. UNCHANGED conn \/ \E ok \in BOOLEAN : ph_client_init(ok)
      BY DEF pv_wait_network, CheckAuth, pv_ph_is_auth, pv_meta_update_to_ph,
             pv_updater_check_for_updates, trail_put_objects, trail_first_boot
    <2> QED
      BY <1>1, <2>1, <2>2, ClientIsOurs
  <1> QED
    BY <1>1, <1>2, <1>3, IdKept

(* Users, connection and power. *)
LEMMA IdWorld ==
  ASSUME TypeInv, IdInv, Next, UserClaims \/ Disconnect \/ Reconnect \/ PowerLoss
  PROVE  IdInv'
  <1>1. UNCHANGED <<file, creds, unclaimed, client, endpoint>> /\ pc' \in {pc, "off"}
    BY DEF UserClaims, Disconnect, Reconnect, PowerLoss, disk, mem, conn
  <1>2. Whole(file["pantahub"])'
    BY <1>1, CloudGrows DEF IdInv, Stored, Whole
  <1>3. pc = "claimed" => cloud'[creds.id] = "owned"
    BY CloudGrows, GivenFacts DEF IdInv, InMemory
  <1> QED
    BY <1>1, <1>2, <1>3 DEF IdInv, Stored, InMemory, Clients, Up

(* IdInv is inductive, with the types and the trail. *)
LEMMA IdStep ==
  ASSUME ~CutWrites
  PROVE  TypeInv /\ TrailInv /\ IdInv /\ [Next]_vars => IdInv'
  <1> SUFFICES ASSUME TypeInv, TrailInv, IdInv, [Next]_vars PROVE IdInv'
    OBVIOUS
  <1>1. CASE Next
    <2>1. CASE Loop
      BY <1>1, <2>1, IdBoot, IdRegister, IdSave, IdAsk, IdNetwork DEF Loop, pv_wait_unclaimed
    <2>2. CASE UserClaims \/ Disconnect \/ Reconnect \/ PowerLoss
      BY <1>1, <2>2, IdWorld
    <2> QED
      BY <1>1, <2>1, <2>2 DEF Next
  <1>2. CASE UNCHANGED vars
    BY <1>2 DEF vars, cloudVars, disk, mem, conn, IdInv, Stored, InMemory, Clients, Up, Whole
  <1> QED
    BY <1>1, <1>2

(* How the device is set up never changes. *)
LEMMA SetupStays ==
  ASSUME [Next]_vars
  PROVE  CutWrites' = CutWrites /\ Flaky' = Flaky
  <1>1. CASE Loop
    BY <1>1
       DEF Loop, Boot, pv_wait_unclaimed, LoadCreds, pv_ph_device_exists, RegisterBuiltin,
           RegisterExternal, SaveRegistered, pv_ph_device_is_owned, SaveClaimed,
           _pv_factory_upload, pv_wait_network, CheckAuth, pv_meta_update_to_ph,
           pv_updater_check_for_updates, trail_put_objects, trail_first_boot, CutWrites, Flaky
  <1>2. CASE UserClaims \/ Disconnect \/ Reconnect \/ PowerLoss
    BY <1>2 DEF UserClaims, Disconnect, Reconnect, PowerLoss, CutWrites, Flaky
  <1>3. CASE UNCHANGED vars
    BY <1>3 DEF vars, CutWrites, Flaky
  <1> QED
    BY <1>1, <1>2, <1>3 DEF Next

(* The three invariants together. *)
LEMMA Identity == Spec => [](TypeInv /\ TrailInv /\ (CutWrites \/ IdInv))
  <1>1. Init => TypeInv /\ TrailInv /\ (CutWrites \/ IdInv)
    <2>1. Init => TrailInv
      BY DEF Init, TrailInv, Phase, RemoteFits, Uploaded, DoneFits, Claiming
    <2>2. Init => IdInv
      <3> SUFFICES ASSUME Init PROVE IdInv
        OBVIOUS
      <3>1. file["unclaimed"] = NoFile /\ file["pantahub"] = NoCreds
        BY DEF Init, Configs
      <3> QED
        BY <3>1 DEF Init, IdInv, Stored, InMemory, Clients, Up, Whole
    <2> QED
      BY <2>1, <2>2, TypeInit
  <1>2. TypeInv /\ TrailInv /\ (CutWrites \/ IdInv) /\ [Next]_vars
          => (TypeInv /\ TrailInv /\ (CutWrites \/ IdInv))'
    BY TypeStep, TrailStep, IdStep, SetupStays
  <1> QED
    BY <1>1, <1>2, PTL DEF Spec

(* If storage is never full, what pantahub.config makes the device, and what *)
(* a running claimed device takes itself for, is a device with complete     *)
(* credentials that its owner has claimed.                                  *)
THEOREM ClaimedCorrect == Spec => []ClaimedIsOwned
  <1>1. TypeInv /\ TrailInv /\ (CutWrites \/ IdInv) => ClaimedIsOwned
    BY DEF IdInv, Stored, InMemory, Up, ClaimedIsOwned
  <1> QED
    BY <1>1, Identity, PTL

(* If storage is never full, no client outlives the credentials it was made *)
(* of: login, endpoint and trail are always of one device.                  *)
THEOREM OneDeviceCorrect == Spec => []OneDevice
  <1>1. TypeInv /\ TrailInv /\ (CutWrites \/ IdInv) => OneDevice
    BY DEF IdInv, Clients, Up, TrailInv, RemoteFits, OneDevice
  <1> QED
    BY <1>1, Identity, PTL

-----------------------------------------------------------------------------
(* Registration. While the device is claimed over a steady connection, it   *)
(* only comes to register where the cloud is out of reach or nothing was    *)
(* registered yet, since each of its questions is answered.                 *)

RegisterInv ==
    /\ pc = "register" /\ net => file["unclaimed"] = NoFile
    /\ pc = "save" => file["unclaimed"] \in {NoFile, creds}

(* On a steady connection a device that exists is told so.                  *)
LEMMA ExistsAnswered ==
  ASSUME TypeInv, IdInv, net, pv_ph_device_exists
  PROVE  pc' = "owned"
  <1>1. PICK ok \in BOOLEAN :
          /\ ph_client_init(ok)
          /\ pc' = IF Answered(ok) THEN "owned" ELSE "register"
    BY DEF pv_ph_device_exists
  <1>2. Up /\ pc = "exists" /\ creds \in Given
    BY DEF pv_ph_device_exists, Up, IdInv, InMemory
  <1>3. ClientOf(creds) = creds.id /\ creds.id # 0
    BY <1>2, GivenFacts DEF ClientOf
  <1>4. client \in {0, creds.id} /\ endpoint \in {0, creds.id}
    BY <1>2 DEF IdInv, Clients
  <1>5. ok /\ client' = creds.id /\ endpoint' = creds.id
    BY <1>1, <1>3, <1>4 DEF ph_client_init, Auths
  <1> QED
    BY <1>1, <1>5 DEF Answered

(* RegisterInv is inductive, and then no registration is replaced. *)
LEMMA RegisterStep ==
  ASSUME Steady, TypeInv, TrailInv, IdInv, RegisterInv, [Next]_vars
  PROVE  /\ RegisterInv'
         /\ file["unclaimed"] # NoFile => file'["unclaimed"] = file["unclaimed"]
  <1>0. ~Flaky /\ ~CutWrites
    BY DEF Steady
  <1>1. CASE LoadCreds
    <2>1. /\ unclaimed /\ ConfigFile(unclaimed) = "unclaimed" /\ UNCHANGED <<file, net>>
          /\ ~Hangs("unclaimed")
      BY <1>1, GivenFacts, CredsFit DEF LoadCreds, disk, ConfigFile, Hangs, IdInv, Stored
    <2>2. creds' = Loaded("unclaimed") /\ pc' = IF creds'.id # 0 THEN "exists" ELSE "register"
      BY <1>1, <2>1 DEF LoadCreds
    <2>3. pc' = "register" => file["unclaimed"] = NoFile
      BY <2>2, GivenFacts DEF Loaded, IdInv, Stored
    <2> QED
      BY <2>1, <2>2, <2>3 DEF RegisterInv
  <1>2. CASE pv_ph_device_exists
    <2>1. UNCHANGED <<file, net>> /\ pc' \in {"owned", "register"} /\ (net => pc' = "owned")
      BY <1>2, ExistsAnswered DEF pv_ph_device_exists, disk
    <2> QED
      BY <2>1 DEF RegisterInv
  <1>3. CASE RegisterBuiltin
    <2>1. pc = "register" /\ file' = file /\ ((net /\ pc' = "save") \/ pc' = "wait")
      BY <1>0, <1>3 DEF RegisterBuiltin, disk
    <2>2. net => file["unclaimed"] = NoFile
      BY <2>1 DEF RegisterInv
    <2> QED
      BY <2>1, <2>2 DEF RegisterInv
  <1>4. CASE RegisterExternal
    <2>1. CASE net
      <3>1. file["unclaimed"] = NoFile /\ pc' = "save" /\ file'["unclaimed"] = creds'
        BY <1>4, <2>1 DEF RegisterExternal, RegisterInv, TypeInv, TypeOK, Configs
      <3> QED
        BY <3>1 DEF RegisterInv
    <2>2. CASE ~net
      BY <1>4, <2>2 DEF RegisterExternal, RegisterInv
    <2> QED
      BY <2>1, <2>2
  <1>5. CASE SaveRegistered \/ SaveClaimed
    <2>1. Saved(creds) = {creds} /\ unclaimed /\ pc' \in {"owned", "factory"}
      BY <1>0, <1>5 DEF Saved, SaveRegistered, SaveClaimed, TrailInv, Phase, Claiming
    <2>2. \/ pc = "save" /\ file' = [file EXCEPT !["unclaimed"] = creds]
          \/ file' = [file EXCEPT !["pantahub"] = creds]
      BY <1>5, <2>1 DEF SaveRegistered, SaveClaimed, pv_config_save_creds, ConfigFile
    <2>3. \/ pc = "save" /\ file'["unclaimed"] = creds
          \/ file'["unclaimed"] = file["unclaimed"]
      BY <2>2 DEF TypeInv, TypeOK, Configs
    <2> QED
      BY <2>1, <2>3 DEF RegisterInv
  <1>6. CASE Boot \/ pv_ph_device_is_owned \/ _pv_factory_upload \/ pv_wait_network
    <2>1. file' = file /\ pc' \notin {"register", "save"}
      BY <1>6 DEF Boot, pv_ph_device_is_owned, _pv_factory_upload, pv_wait_network, CheckAuth,
           pv_meta_update_to_ph, pv_updater_check_for_updates, trail_put_objects,
           trail_first_boot, EndOfRound, disk
    <2> QED
      BY <2>1 DEF RegisterInv
  <1>7. CASE Disconnect \/ Reconnect
    <2>1. UNCHANGED <<file, pc>> /\ pc \notin {"register", "save"}
      BY <1>0, <1>7 DEF Disconnect, Reconnect, disk, Claiming
    <2> QED
      BY <2>1 DEF RegisterInv
  <1>8. CASE UserClaims \/ PowerLoss \/ UNCHANGED vars
    <2>1. UNCHANGED <<file, net, creds>> /\ pc' \in {pc, "off"}
      BY <1>8 DEF UserClaims, PowerLoss, vars, disk, mem
    <2> QED
      BY <2>1 DEF RegisterInv
  <1> QED
    BY <1>1, <1>2, <1>3, <1>4, <1>5, <1>6, <1>7, <1>8 DEF Next, Loop, pv_wait_unclaimed

(* If connection and storage are good while a device is claimed, credentials *)
(* that were stored for it are never replaced by those of another one        *)
(* (pv_wait_unclaimed, pv_ph_device_exists).                                 *)
THEOREM KeepsCorrect == Spec => KeepsRegistration
  <1> DEFINE Inv == TypeInv /\ TrailInv /\ (CutWrites \/ IdInv)
             Reg == Steady => RegisterInv
             Kept == Steady /\ file["unclaimed"] \in Creds /\ file["unclaimed"].id # 0
                       => file'["unclaimed"] = file["unclaimed"]
  <1>1. Init => Reg
    BY DEF Init, RegisterInv
  <1>2. ASSUME Inv, Reg, [Next]_vars
        PROVE  Reg' /\ Kept
    <2>1. Steady' = Steady
      BY <1>2, SetupStays DEF Steady
    <2>2. CASE Steady
      BY <1>2, <2>1, <2>2, RegisterStep, CredsFit DEF Steady
    <2> QED
      BY <2>1, <2>2
  <1>3. Inv /\ Reg /\ [Next]_vars => Reg' /\ [Kept]_vars
    BY <1>2
  <1> HIDE DEF Inv, Reg, Kept
  <1>4. Spec => []Inv
    BY Identity DEF Inv
  <1>5. Spec => [][Kept]_vars
    BY <1>1, <1>3, <1>4, PTL DEF Spec
  <1> QED
    BY <1>5 DEF Kept, KeepsRegistration
==============================================================================

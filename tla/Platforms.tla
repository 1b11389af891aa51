------------------------------ MODULE Platforms ------------------------------
(***************************************************************************)
(* What runs: the platforms (containers) of a revision, their volumes and  *)
(* loggers, from boot to shutdown, and the update of a revision in place   *)
(* (platforms.c, volumes.c, state.c and their calls from pantavisor.c).    *)
(* Platforms are numbered in the order of the state's list.  The objects   *)
(* and jsons of a state are its files, which state.c treats alike; each    *)
(* belongs to a platform or, for the bsp and global ones, to none.  A      *)
(* platform's volumes are taken together, and so are its loggers.          *)
(***************************************************************************)
EXTENDS Integers, FiniteSets

CONSTANTS
  Plats,      \* platforms
  NoPlat,     \* the owner of bsp and global files and volumes
  Files,      \* names of files
  Owner,      \* the platform a file belongs to, or NoPlat
  Revs,       \* revisions
  PlatsOf,    \* the platforms of a revision
  Conf,       \* their configured runlevels, -1 if there is none
  Content,    \* the files of a revision
  Absent,     \* a file that is not in the revision
  Rounds      \* how often pv_platforms_stop looks for exits (5)

RUNLEVEL_DATA     == 0
RUNLEVEL_ROOT     == 1
RUNLEVEL_PLATFORM == 2
RUNLEVEL_APP      == 3

Runlevels == RUNLEVEL_DATA .. RUNLEVEL_APP

ASSUME PlatformsAssumption ==
  /\ Plats \subseteq Nat
  /\ IsFiniteSet(Plats)
  /\ NoPlat \notin Plats
  /\ Owner \in [Files -> Plats \cup {NoPlat}]
  /\ PlatsOf \in [Revs -> SUBSET Plats]
  /\ Conf \in [Revs -> [Plats -> Runlevels \cup {-1}]]
  /\ \A r \in Revs, f \in Files :
       Content[r][f] # Absent => Owner[f] \in PlatsOf[r] \cup {NoPlat}
  /\ \A r \in Revs : \A p \in PlatsOf[r] :  \* its run.json
       \E f \in Files : Owner[f] = p /\ Content[r][f] # Absent
  /\ Rounds \in Nat \ {0}

VARIABLES
  (* pv->state *)
  rev,      \* its revision
  base,     \* the revision its bsp and global files come from
  plats,    \* its platforms
  from,     \* the revision a platform's entry, files included, comes from
  status,   \* p->status
  updated,  \* p->updated
  dest,     \* whether v->dest of a volume is set
  (* the system *)
  proc,     \* init of a platform: "none" (init_pid is 0), "alive" or "dead"
  mnt,      \* how many mounts there are on a volume's mount point
  loggers,  \* how often a platform's loggers run
  (* the main loop *)
  pc,       \* where it is
  goal,     \* why platforms are stopped
  lvl,      \* the runlevel from which on it works
  pend,     \* the revision an update in place goes to
  num,      \* num_plats of pv_platforms_stop
  round     \* rounds of it

stateVars  == <<rev, base, plats, from, status, updated, dest>>
systemVars == <<proc, mnt, loggers>>
loopVars   == <<pc, goal, lvl, pend, num, round>>
vars == <<rev, base, plats, from, status, updated, dest, proc, mnt, loggers,
          pc, goal, lvl, pend, num, round>>

Volumes == Plats \cup {NoPlat}

(***************************************************************************)
(* Runlevels: without a root platform the first one that is not configured *)
(* becomes root; the others that are not configured are "platform".        *)
(***************************************************************************)
Unconfigured(r) == {p \in PlatsOf[r] : Conf[r][p] = -1}

BecomesRoot(r, p) ==
  /\ p \in Unconfigured(r)
  /\ \A q \in Unconfigured(r) : p <= q
  /\ \A q \in PlatsOf[r] : Conf[r][q] # RUNLEVEL_ROOT

pv_platforms_default_runlevel(r, p) ==
  IF Conf[r][p] # -1 THEN Conf[r][p]
  ELSE IF BecomesRoot(r, p) THEN RUNLEVEL_ROOT
  ELSE RUNLEVEL_PLATFORM

\* p->runlevel, of the entry in pv->state; volumes without platform are root's.
runlevel(v) ==
  IF v = NoPlat THEN RUNLEVEL_ROOT ELSE pv_platforms_default_runlevel(from[v], v)

(***************************************************************************)
(* pv_state_compare_states: how far down the running state has to be       *)
(* stopped to go to revision r, and which of its platforms are updated.    *)
(***************************************************************************)
Current(f) ==
  IF Owner[f] = NoPlat THEN Content[base][f]
  ELSE IF Owner[f] \in plats THEN Content[from[Owner[f]]][f]
  ELSE Absent

Changed(r) == {f \in Files : Content[r][f] \notin {Absent, Current(f)}}

Gone(r) == {f \in Files : Current(f) # Absent /\ Content[r][f] = Absent}

DeletedPlats(r) == plats \ PlatsOf[r]

NeedsReboot(r) ==
  \/ \E f \in Changed(r) \cup Gone(r) : Owner[f] = NoPlat
  \/ \E p \in plats \cap PlatsOf[r] : pv_platforms_default_runlevel(r, p) # runlevel(p)

Touched(r) ==
  {RUNLEVEL_APP}
    \cup {runlevel(p) : p \in DeletedPlats(r)}
    \cup {pv_platforms_default_runlevel(r, Owner[f]) : f \in Changed(r)}
    \cup {runlevel(Owner[f]) : f \in Gone(r)}

pv_state_compare_states(r) ==
  IF NeedsReboot(r) THEN 0
  ELSE CHOOSE n \in Touched(r) : \A m \in Touched(r) : n <= m

UpdatedIgnoringGone(r) ==
  DeletedPlats(r)
    \cup {p \in plats : \E f \in Changed(r) : Owner[f] = p /\ Current(f) # Absent}

\* A file that is new in a platform does not mark the platform.
Updated(r) ==
  DeletedPlats(r)
    \cup {p \in plats : \E f \in Changed(r) : Owner[f] = p /\ Current(f) # Absent}
    \cup {p \in plats : \E f \in Gone(r) : Owner[f] = p}

-----------------------------------------------------------------------------
Init ==
  /\ rev \in Revs
  /\ base = rev
  /\ plats = {}
  /\ from = [p \in Plats |-> rev]
  /\ status = [p \in Plats |-> "INSTALLED"]
  /\ updated = {}
  /\ dest = {}
  /\ proc = [p \in Plats |-> "none"]
  /\ mnt = [v \in Volumes |-> 0]
  /\ loggers = [p \in Plats |-> 0]
  /\ pc = "OFF"
  /\ goal = "NONE"
  /\ lvl = RUNLEVEL_DATA
  /\ pend = rev
  /\ num = 0
  /\ round = 0

\* _pv_run after a reboot: the state of the booted revision is loaded.
Load(r) ==
  /\ pc = "OFF"
  /\ rev' = r
  /\ base' = r
  /\ plats' = PlatsOf[r]
  /\ from' = [p \in Plats |-> r]
  /\ lvl' = RUNLEVEL_DATA
  /\ pend' = r
  /\ pc' = "MOUNT"
  /\ UNCHANGED <<status, updated, dest, systemVars, goal, num, round>>

\* The device goes down, with everything in memory.
Down ==
  /\ plats' = {}
  /\ status' = [p \in Plats |-> "INSTALLED"]
  /\ updated' = {}
  /\ dest' = {}
  /\ proc' = [p \in Plats |-> "none"]
  /\ mnt' = [v \in Volumes |-> 0]
  /\ loggers' = [p \in Plats |-> 0]
  /\ pc' = "OFF"
  /\ goal' = "NONE"
  /\ num' = 0
  /\ round' = 0
  /\ UNCHANGED <<rev, base, from, lvl, pend>>

\* _pv_rollback, _pv_reboot and _pv_poweroff: everything is to be stopped.
TearDown(g) ==
  /\ pc' = "STOP"
  /\ goal' = g
  /\ lvl' = RUNLEVEL_DATA

(***************************************************************************)
(* pv_volumes_mount, from runlevel lvl upwards, until one fails            *)
(***************************************************************************)
NotRunning(v) == v = NoPlat \/ status[v] # "STARTED"

InLevel(l) == {v \in plats \cup {NoPlat} : runlevel(v) >= l /\ NotRunning(v)}

\* The first volumes of V, in the order of runlevels: S stops within one.
Upwards(S, V) == \A v \in S, w \in V \ S : runlevel(v) <= runlevel(w)

pv_volumes_mount ==
  /\ pc = "MOUNT"
  /\ \E S \in SUBSET InLevel(lvl) :
       /\ Upwards(S, InLevel(lvl))
       /\ mnt' = [v \in Volumes |-> IF v \in S THEN mnt[v] + 1 ELSE mnt[v]]
       /\ dest' = dest \cup S
       /\ \/ /\ S = InLevel(lvl)
             /\ pc' = "START"
             /\ UNCHANGED <<goal, lvl>>
          \/ TearDown("REBOOT")  \* a mount failed, or something else of _pv_run
  /\ UNCHANGED <<rev, base, plats, from, status, updated, proc, loggers, pend, num, round>>

(***************************************************************************)
(* pv_platforms_start                                                      *)
(***************************************************************************)
ToStart == {p \in plats : /\ runlevel(p) >= lvl
                          /\ runlevel(p) > RUNLEVEL_DATA
                          /\ status[p] # "STARTED"}

NextAnyLevel(p) == p \in ToStart

NextToStart(p) == p \in ToStart /\ \A q \in ToStart : runlevel(p) <= runlevel(q)

\* The plugin's start; one that fails after lxc's does leaves no container.
pv_start_container(p) == proc' = [proc EXCEPT ![p] = "alive"]

pv_platforms_start_platform(p) ==
  /\ pc = "START"
  /\ NextToStart(p)
  /\ \/ /\ pv_start_container(p)
        /\ status' = [status EXCEPT ![p] = "STARTED"]
        /\ UNCHANGED <<pc, goal, lvl>>
     \/ TearDown("REBOOT") /\ UNCHANGED <<status, proc>>
  /\ UNCHANGED <<rev, base, plats, from, updated, dest, mnt, loggers, pend, num, round>>

\* When all are started, so are the loggers of all; a fork that fails is logged.
StartLoggers ==
  /\ pc = "START"
  /\ ToStart = {}
  /\ \E S \in SUBSET plats :
       loggers' = [p \in Plats |-> IF p \in S THEN loggers[p] + 1 ELSE loggers[p]]
  /\ pc' = "WAIT"
  /\ UNCHANGED <<stateVars, proc, mnt, goal, lvl, pend, num, round>>

\* A container ends, by itself or because it was told to; its loggers may too.
Exit(p) ==
  /\ proc[p] = "alive"
  /\ proc' = [proc EXCEPT ![p] = "dead"]
  /\ loggers' \in {loggers, [loggers EXCEPT ![p] = 0]}
  /\ UNCHANGED <<stateVars, mnt, loopVars>>

(***************************************************************************)
(* _pv_wait, _pv_command and _pv_update                                    *)
(***************************************************************************)
\* Which platforms stop, check_exited and force_kill look at.
EveryLevel(l) == {p \in plats : runlevel(p) >= l}

InScope(l) ==
  {p \in plats : /\ runlevel(p) >= l
                 /\ l = RUNLEVEL_APP /\ runlevel(p) = RUNLEVEL_APP => p \in updated}

ExitedOfEveryLevel(l) == {p \in EveryLevel(l) : proc[p] = "dead"}

\* kill(init_pid, 0) fails; with init_pid 0 it succeeds.
pv_platforms_check_exited(l) == {p \in InScope(l) : proc[p] = "dead"}

Exited ==
  /\ pc = "WAIT"
  /\ pv_platforms_check_exited(RUNLEVEL_DATA) # {}
  /\ TearDown("REBOOT")
  /\ UNCHANGED <<stateVars, systemVars, pend, num, round>>

ShutdownCommand ==
  /\ pc = "WAIT"
  /\ \E g \in {"REBOOT", "POWEROFF"} : TearDown(g)
  /\ UNCHANGED <<stateVars, systemVars, pend, num, round>>

\* The end of _pv_update: an installed revision needs a reboot or not.
Update(r) ==
  /\ pc = "WAIT"
  /\ pend' = r
  /\ updated' = updated \cup Updated(r)
  /\ \/ pv_state_compare_states(r) <= RUNLEVEL_PLATFORM /\ TearDown("REBOOT")
     \/ /\ pv_state_compare_states(r) > RUNLEVEL_PLATFORM
        /\ pc' = "STOP"
        /\ goal' = "TRANSITION"
        /\ lvl' = pv_state_compare_states(r)
  /\ UNCHANGED <<rev, base, plats, from, status, dest, systemVars, num, round>>

(***************************************************************************)
(* pv_platforms_stop                                                       *)
(***************************************************************************)
LoggersInScope(l) == InScope(l)

LoggersOf(l) == plats

ToStop == {p \in InScope(lvl) : status[p] = "STARTED" /\ proc[p] # "none"}

Stop ==
  /\ pc = "STOP"
  /\ loggers' = [p \in Plats |-> IF p \in LoggersOf(lvl) THEN 0 ELSE loggers[p]]
  /\ status' = [p \in Plats |-> IF p \in ToStop THEN "STOPPED" ELSE status[p]]
  /\ num' = Cardinality(ToStop)
  /\ round' = 0
  /\ pc' = "CHECK"
  /\ UNCHANGED <<rev, base, plats, from, updated, dest, proc, mnt, goal, lvl, pend>>

NextRoundForever == round' = IF round < Rounds - 1 THEN round + 1 ELSE 0

NextRound == round' = round + 1

Check ==
  /\ pc = "CHECK"
  /\ \/ /\ Cardinality(pv_platforms_check_exited(lvl)) = num
        /\ pc' = "UNMOUNT"
        /\ UNCHANGED round
     \/ /\ Cardinality(pv_platforms_check_exited(lvl)) # num
        /\ NextRound
        /\ pc' = IF round' = Rounds THEN "KILL" ELSE "CHECK"
  /\ UNCHANGED <<stateVars, systemVars, goal, lvl, pend, num>>

(***************************************************************************)
(* kill(0, SIGKILL), for a platform that was never started, is for the     *)
(* process group of pantavisor itself: it dies, and init reboots.          *)
(***************************************************************************)
Unstarted == {p \in InScope(lvl) : proc[p] = "none"}

pv_platforms_force_kill ==
  /\ pc = "KILL"
  /\ proc' = [p \in Plats |-> IF /\ p \in InScope(lvl)
                                 /\ proc[p] = "alive"
                                 /\ \A q \in Unstarted : runlevel(q) <= runlevel(p)
                              THEN "dead" ELSE proc[p]]
  /\ pc' = IF Unstarted = {} THEN "UNMOUNT" ELSE "KILLED"
  /\ UNCHANGED <<stateVars, mnt, loggers, goal, lvl, pend, num, round>>

Killed ==
  /\ pc = "KILLED"
  /\ Down

(***************************************************************************)
(* pv_volumes_unmount, from the top down to runlevel lvl, until one fails  *)
(***************************************************************************)
UnmountAlsoRunning(l) == {v \in plats \cup {NoPlat} : runlevel(v) >= l}

ToUnmount(l) == InLevel(l)

Unmountable(v) == v \in dest /\ mnt[v] > 0

Downwards(S, V) == \A v \in S, w \in V \ S : runlevel(v) >= runlevel(w)

Unmounted(S) == mnt' = [v \in Volumes |-> IF v \in S THEN mnt[v] - 1 ELSE mnt[v]]

\* An error while going down is ignored.
pv_do_shutdown ==
  /\ pc = "UNMOUNT"
  /\ goal # "TRANSITION"
  /\ Down

UnmountFailed ==
  /\ pc = "UNMOUNT"
  /\ goal = "TRANSITION"
  /\ \E S \in SUBSET {v \in ToUnmount(lvl) : Unmountable(v)} :
       /\ S # ToUnmount(lvl)
       /\ Downwards(S, ToUnmount(lvl))
       /\ Unmounted(S)
  /\ TearDown("REBOOT")
  /\ UNCHANGED <<stateVars, proc, loggers, pend, num, round>>

(***************************************************************************)
(* pv_state_transfer: what does not run is replaced by what the pending    *)
(* state has.                                                              *)
(***************************************************************************)
Kept == {p \in plats : status[p] = "STARTED"}

Transferred == PlatsOf[pend] \ Kept

pv_state_transfer ==
  /\ plats' = Kept \cup Transferred
  /\ from' = [p \in Plats |-> IF p \in Transferred THEN pend ELSE from[p]]
  /\ status' = [p \in Plats |-> IF p \in Kept THEN status[p] ELSE "INSTALLED"]
  /\ proc' = [p \in Plats |-> IF p \in Kept THEN proc[p] ELSE "none"]
  /\ updated' = updated \cap Kept
  /\ dest' = dest \cap (Kept \cup {NoPlat})
  /\ rev' = pend

Transition ==
  /\ pc = "UNMOUNT"
  /\ goal = "TRANSITION"
  /\ \A v \in ToUnmount(lvl) : Unmountable(v)
  /\ Unmounted(ToUnmount(lvl))
  /\ pv_state_transfer
  /\ pc' = "MOUNT"
  /\ goal' = "NONE"
  /\ UNCHANGED <<base, loggers, lvl, pend, num, round>>

Loop ==
  \/ pv_volumes_mount
  \/ \E p \in Plats : pv_platforms_start_platform(p)
  \/ StartLoggers
  \/ Exited
  \/ Stop \/ Check \/ pv_platforms_force_kill \/ Killed
  \/ pv_do_shutdown \/ UnmountFailed \/ Transition

Next ==
  \/ \E r \in Revs : Load(r) \/ Update(r)
  \/ ShutdownCommand
  \/ Loop
  \/ \E p \in Plats : Exit(p)

Spec == Init /\ [][Next]_vars

\* pantavisor goes on; containers may ignore that they are to stop.
LiveSpec == Spec /\ WF_vars(Loop)

-----------------------------------------------------------------------------
\* Every variable holds a value of its type: no mount or logger is taken away
\* twice, and stopping never works below or above the runlevels (platforms.c).
TypeOK ==
  /\ rev \in Revs /\ base \in Revs /\ pend \in Revs
  /\ plats \subseteq Plats
  /\ from \in [Plats -> Revs]
  /\ status \in [Plats -> {"INSTALLED", "STARTED", "STOPPED"}]
  /\ updated \subseteq Plats
  /\ dest \subseteq Volumes
  /\ proc \in [Plats -> {"none", "alive", "dead"}]
  /\ mnt \in [Volumes -> Nat]
  /\ loggers \in [Plats -> Nat]
  /\ pc \in {"OFF", "MOUNT", "START", "WAIT", "STOP", "CHECK", "KILL", "KILLED", "UNMOUNT"}
  /\ goal \in {"NONE", "TRANSITION", "REBOOT", "POWEROFF"}
  /\ lvl \in Runlevels
  /\ num \in Nat
  /\ round \in 0 .. Rounds

(***************************************************************************)
(* In WAIT the platforms of pv->state are those of its revision, on their  *)
(* runlevels, and each of them, kept over updates in place or not          *)
(* (state.c), runs with that revision's files: nothing of an older         *)
(* revision is left, though a file that is new in it may be missing.       *)
(***************************************************************************)
RunsNoOldFile ==
  pc = "WAIT" =>
    /\ plats = PlatsOf[rev]
    /\ \A p \in plats : runlevel(p) = pv_platforms_default_runlevel(rev, p)
    /\ \A f \in Files : Current(f) \in {Absent, Content[rev][f]}

(***************************************************************************)
(* A platform runs on volumes that are mounted once: an update in place    *)
(* neither unmounts them under a platform it keeps nor mounts over those   *)
(* of a platform it replaces (volumes.c).                                  *)
(***************************************************************************)
RunsOnVolumes ==
  /\ \A v \in Volumes : mnt[v] <= 1
  /\ \A p \in plats : status[p] = "STARTED" => mnt[p] = 1

(***************************************************************************)
(* Loggers are not started a second time for a platform that is kept, nor  *)
(* left behind by one that is removed (platforms.c, state.c).              *)
(***************************************************************************)
OneLogger == \A p \in Plats : loggers[p] <= IF p \in plats THEN 1 ELSE 0

(***************************************************************************)
(* Before the volumes of an update in place are unmounted and its          *)
(* platforms replaced, the containers that were stopped for it have ended, *)
(* by themselves or killed, whatever else ends meanwhile (platforms.c).    *)
(***************************************************************************)
StoppedBeforeReplaced ==
  pc = "UNMOUNT" /\ goal = "TRANSITION" =>
    \A p \in plats : status[p] = "STOPPED" => proc[p] = "dead"

(***************************************************************************)
(* A platform starts only after all of the more basic ones that are not    *)
(* data, also when some of them were kept from before (platforms.c).       *)
(***************************************************************************)
StartOrder ==
  [][\A p \in plats, q \in plats :
       /\ status[p] # "STARTED" /\ status'[p] = "STARTED"
       /\ RUNLEVEL_DATA < runlevel(q) /\ runlevel(q) < runlevel(p)
       => status[q] = "STARTED"]_vars

(***************************************************************************)
(* An update in place stops a platform only if the new revision does not   *)
(* have it or has other files for it (state.c, platforms.c).               *)
(***************************************************************************)
UnchangedIsKept ==
  [][\A p \in plats :
       goal = "TRANSITION" /\ status[p] = "STARTED" /\ status'[p] = "STOPPED" =>
         \/ p \notin PlatsOf[pend]
         \/ \E f \in Files : Owner[f] = p /\ Content[pend][f] # Current(f)]_vars

(***************************************************************************)
(* Stopping comes to an end, in a device that is down or in one that waits *)
(* again, though containers may ignore what they are told (platforms.c).   *)
(***************************************************************************)
StopEnds == pc = "STOP" ~> pc \in {"OFF", "WAIT"}

-----------------------------------------------------------------------------
(***************************************************************************)
(* updater.c: "update runlevel %d does not require reboot, running new     *)
(* revision...": the platforms run with all of the revision's files.       *)
(***************************************************************************)
RunsRevision == pc = "WAIT" => \A f \in Files : Current(f) = Content[rev][f]
==============================================================================

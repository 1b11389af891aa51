--------------------------- MODULE PlatformsProofs ---------------------------
(***************************************************************************)
(* Theorems about Platforms, for every set of platforms, files and         *)
(* revisions and any number of rounds.                                     *)
(***************************************************************************)
EXTENDS Platforms, FiniteSetTheorems, TLAPS

(***************************************************************************)
(* The inductive invariant.  A platform has a process exactly from its     *)
(* start until it is removed.                                              *)
(***************************************************************************)
Calm == {"OFF", "MOUNT", "START", "WAIT"}

Changing == goal = "TRANSITION" /\ pc \in {"STOP", "CHECK", "KILL", "UNMOUNT"}

StatusInv ==
  /\ \A p \in Plats : proc[p] = "none" <=> status[p] = "INSTALLED"
  /\ pc \in Calm \/ (Changing /\ pc = "STOP") => \A p \in Plats : status[p] # "STOPPED"
  /\ pc = "OFF" => \A p \in Plats : status[p] = "INSTALLED"
  /\ pc \in Calm => goal = "NONE" /\ updated = {}
  /\ pc = "CHECK" => round < Rounds

LoggersInv ==
  /\ \A p \in Plats : loggers[p] <= IF p \in plats THEN 1 ELSE 0
  /\ pc \notin {"WAIT", "STOP"} => \A p \in Plats : loggers[p] = 0

MountInv ==
  /\ \A v \in Volumes : mnt[v] \in 0..1
  /\ \A v \in Volumes : v \notin plats \cup {NoPlat} => mnt[v] = 0
  /\ \A p \in plats : status[p] = "STARTED" => mnt[p] = 1
  /\ \A p \in Plats \ plats : status[p] = "INSTALLED"
  /\ pc = "OFF" => \A v \in Volumes : mnt[v] = 0
  /\ pc = "MOUNT" => \A v \in InLevel(lvl) : mnt[v] = 0
  /\ pc = "START" => \A p \in plats : runlevel(p) >= lvl => mnt[p] = 1

\* What runs is what the revision says, up to files that are new in it.
RunInv ==
  pc \in {"MOUNT", "START", "WAIT"} =>
    /\ plats = PlatsOf[rev]
    /\ \A p \in plats : runlevel(p) = pv_platforms_default_runlevel(rev, p)
    /\ \A f \in Files : Current(f) \in {Absent, Content[rev][f]}

\* Below the runlevel at hand everything but data runs.
StartedInv ==
  /\ pc \in {"MOUNT", "START"} =>
       \A p \in plats : RUNLEVEL_DATA < runlevel(p) /\ runlevel(p) < lvl => status[p] = "STARTED"
  /\ pc = "WAIT" => \A p \in plats : RUNLEVEL_DATA < runlevel(p) => status[p] = "STARTED"

\* An update in place only concerns apps, and stops those it changes.
ChangingInv ==
  Changing =>
    /\ lvl = RUNLEVEL_APP /\ ~NeedsReboot(pend) /\ updated = Updated(pend)
    /\ \A n \in Touched(pend) : n = RUNLEVEL_APP
    /\ \A p \in plats :
         RUNLEVEL_DATA < runlevel(p) /\ runlevel(p) < RUNLEVEL_APP => status[p] = "STARTED"
    /\ pc # "STOP" => \A p \in plats : p \in InScope(lvl) => status[p] # "STARTED"
    /\ \A p \in plats : status[p] = "STOPPED" => p \in InScope(lvl)
    /\ pc = "CHECK" => num = Cardinality({p \in plats : status[p] = "STOPPED"})

IInv ==
  /\ TypeOK /\ StatusInv /\ LoggersInv /\ MountInv /\ RunInv /\ StartedInv /\ ChangingInv
  /\ StoppedBeforeReplaced

-----------------------------------------------------------------------------
(***************************************************************************)
(* Runlevels.                                                              *)
(***************************************************************************)
LEMMA DefaultLevel ==
  ASSUME NEW r \in Revs, NEW p \in Plats
  PROVE  pv_platforms_default_runlevel(r, p) \in Runlevels
<1>1. Conf[r][p] \in Runlevels \cup {-1}
  BY PlatformsAssumption
<1> QED BY <1>1
        DEF pv_platforms_default_runlevel, Runlevels, RUNLEVEL_DATA, RUNLEVEL_ROOT,
            RUNLEVEL_PLATFORM, RUNLEVEL_APP

LEMMA LevelType ==
  ASSUME TypeOK, NEW v \in Volumes
  PROVE  runlevel(v) \in Runlevels
<1>1. CASE v = NoPlat
  BY <1>1 DEF runlevel, Runlevels, RUNLEVEL_DATA, RUNLEVEL_ROOT, RUNLEVEL_APP
<1>2. CASE v # NoPlat
  <2>1. v \in Plats /\ from[v] \in Revs
    BY <1>2 DEF Volumes, TypeOK
  <2> QED BY <1>2, <2>1, DefaultLevel DEF runlevel
<1> QED BY <1>1, <1>2

\* An update in place touches apps only.
LEMMA InPlace ==
  ASSUME TypeOK, NEW r \in Revs
  PROVE  /\ pv_state_compare_states(r) \in Runlevels
         /\ pv_state_compare_states(r) > RUNLEVEL_PLATFORM =>
              /\ ~NeedsReboot(r)
              /\ pv_state_compare_states(r) = RUNLEVEL_APP
              /\ \A n \in Touched(r) : n = RUNLEVEL_APP
<1> USE DEF Runlevels, RUNLEVEL_DATA, RUNLEVEL_ROOT, RUNLEVEL_PLATFORM, RUNLEVEL_APP
<1>1. CASE NeedsReboot(r)
  BY <1>1 DEF pv_state_compare_states
<1>2. CASE ~NeedsReboot(r)
  <2>1. \A f \in Changed(r) : Owner[f] \in Plats
    BY <1>2, PlatformsAssumption DEF NeedsReboot, Changed
  <2>2. \A f \in Gone(r) : Owner[f] \in Plats
    BY <1>2, PlatformsAssumption DEF NeedsReboot, Gone
  <2>3. DeletedPlats(r) \subseteq Plats
    BY DEF DeletedPlats, TypeOK
  <2>4. Touched(r) \subseteq Runlevels
    BY <2>1, <2>2, <2>3, DefaultLevel, LevelType DEF Touched, Volumes
  <2>5. RUNLEVEL_APP \in Touched(r)
    BY DEF Touched
  <2>6. \E n \in Touched(r) : \A m \in Touched(r) : n <= m
    <3>1. CASE 0 \in Touched(r)
      BY <2>4, <3>1
    <3>2. CASE 0 \notin Touched(r) /\ 1 \in Touched(r)
      BY <2>4, <3>2
    <3>3. CASE 0 \notin Touched(r) /\ 1 \notin Touched(r) /\ 2 \in Touched(r)
      BY <2>4, <3>3
    <3>4. CASE 0 \notin Touched(r) /\ 1 \notin Touched(r) /\ 2 \notin Touched(r)
      BY <2>4, <2>5, <3>4
    <3> QED BY <3>1, <3>2, <3>3, <3>4
  <2>7. /\ pv_state_compare_states(r) \in Touched(r)
        /\ \A m \in Touched(r) : pv_state_compare_states(r) <= m
    BY <1>2, <2>6 DEF pv_state_compare_states
  <2> QED BY <1>2, <2>4, <2>7
<1> QED BY <1>1, <1>2

\* What the comparison looks at.
LEMMA Frame ==
  ASSUME UNCHANGED <<plats, from, base>>
  PROVE  /\ \A v : runlevel(v)' = runlevel(v)
         /\ \A f : Current(f)' = Current(f)
         /\ \A r : NeedsReboot(r)' = NeedsReboot(r)
         /\ \A r : Touched(r)' = Touched(r)
         /\ \A r : Updated(r)' = Updated(r)
<1>1. \A v : runlevel(v)' = runlevel(v)
  BY DEF runlevel
<1>2. \A f : Current(f)' = Current(f)
  BY DEF Current
<1>3. \A r : Changed(r)' = Changed(r) /\ Gone(r)' = Gone(r) /\ DeletedPlats(r)' = DeletedPlats(r)
  BY <1>2 DEF Changed, Gone, DeletedPlats
<1>4. \A r : NeedsReboot(r)' = NeedsReboot(r)
  BY <1>1, <1>3 DEF NeedsReboot
<1>5. \A r : Touched(r)' = Touched(r)
  BY <1>1, <1>3 DEF Touched
<1>6. \A r : Updated(r)' = Updated(r)
  BY <1>2, <1>3 DEF Updated
<1> QED BY <1>1, <1>2, <1>4, <1>5, <1>6

LEMMA ScopeFrame ==
  ASSUME UNCHANGED <<plats, from, base, updated>>
  PROVE  \A l : InScope(l)' = InScope(l)
BY Frame DEF InScope

LEMMA LevelFrame ==
  ASSUME UNCHANGED <<plats, from, base, status>>
  PROVE  \A l : InLevel(l)' = InLevel(l)
BY Frame DEF InLevel, NotRunning

-----------------------------------------------------------------------------
LEMMA InitInv == Init => IInv
<1> SUFFICES ASSUME Init
             PROVE  IInv
  OBVIOUS
<1> USE DEF Runlevels, RUNLEVEL_DATA, RUNLEVEL_APP
<1>1. TypeOK
  BY PlatformsAssumption DEF Init, TypeOK
<1>2. StatusInv /\ LoggersInv /\ MountInv
  BY PlatformsAssumption DEF Init, StatusInv, LoggersInv, MountInv, Calm, Changing, Volumes
<1>3. RunInv /\ StartedInv /\ ChangingInv /\ StoppedBeforeReplaced
  BY DEF Init, RunInv, StartedInv, ChangingInv, Changing, StoppedBeforeReplaced
<1> QED BY <1>1, <1>2, <1>3 DEF IInv

LEMMA LoadInv ==
  ASSUME IInv, NEW r \in Revs, Load(r)
  PROVE  IInv'
<1> USE DEF Runlevels, RUNLEVEL_DATA, RUNLEVEL_APP
<1>1. PlatsOf[r] \subseteq Plats
  BY PlatformsAssumption
<1>2. TypeOK'
  BY <1>1 DEF IInv, Load, TypeOK, systemVars
<1>3. StatusInv' /\ LoggersInv'
  BY <1>1 DEF IInv, Load, TypeOK, StatusInv, LoggersInv, Calm, Changing, systemVars
<1>4. \A v \in Volumes : mnt'[v] = 0
  BY DEF IInv, Load, MountInv, systemVars
<1>5. MountInv'
  <2>1. InLevel(lvl)' \subseteq Volumes
    BY <1>1 DEF InLevel, Load, Volumes
  <2>2. \A p \in Plats : status'[p] = "INSTALLED"
    BY DEF IInv, Load, StatusInv
  <2> QED BY <1>1, <1>4, <2>1, <2>2 DEF Load, MountInv, Volumes
<1>6. RunInv'
  <2>1. \A p \in PlatsOf[r] : p # NoPlat /\ from'[p] = r
    BY <1>1, PlatformsAssumption DEF Load
  <2>2. \A p \in PlatsOf[r] : runlevel(p)' = pv_platforms_default_runlevel(r, p)
    BY <2>1 DEF runlevel
  <2>3. \A f \in Files : Current(f)' \in {Absent, Content[r][f]}
    BY <2>1 DEF Current, Load
  <2> QED BY <2>2, <2>3 DEF RunInv, Load
<1>7. StartedInv'
  <2>1. \A p \in PlatsOf[r] : runlevel(p)' = pv_platforms_default_runlevel(r, p)
    BY <1>1, PlatformsAssumption DEF runlevel, Load
  <2>2. \A p \in PlatsOf[r] : runlevel(p)' \in Runlevels
    BY <1>1, <2>1, DefaultLevel
  <2> QED BY <2>2 DEF StartedInv, Load
<1>8. ChangingInv' /\ StoppedBeforeReplaced'
  BY DEF Load, ChangingInv, Changing, StoppedBeforeReplaced
<1> QED BY <1>2, <1>3, <1>5, <1>6, <1>7, <1>8 DEF IInv

LEMMA DownInv ==
  ASSUME IInv, Down
  PROVE  IInv'
<1> USE DEF Runlevels, RUNLEVEL_DATA, RUNLEVEL_APP
<1>1. TypeOK'
  BY PlatformsAssumption DEF IInv, Down, TypeOK
<1>2. StatusInv' /\ LoggersInv' /\ MountInv'
  BY PlatformsAssumption DEF Down, StatusInv, LoggersInv, MountInv, Calm, Changing, Volumes
<1>3. RunInv' /\ StartedInv' /\ ChangingInv' /\ StoppedBeforeReplaced'
  BY DEF Down, RunInv, StartedInv, ChangingInv, Changing, StoppedBeforeReplaced
<1> QED BY <1>1, <1>2, <1>3 DEF IInv

LEMMA MountStep ==
  ASSUME IInv, pv_volumes_mount
  PROVE  IInv'
<1> USE DEF Runlevels, RUNLEVEL_DATA, RUNLEVEL_APP
<1>1. PICK S \in SUBSET InLevel(lvl) :
        /\ mnt' = [v \in Volumes |-> IF v \in S THEN mnt[v] + 1 ELSE mnt[v]]
        /\ dest' = dest \cup S
        /\ \/ S = InLevel(lvl) /\ pc' = "START" /\ UNCHANGED <<goal, lvl>>
           \/ TearDown("REBOOT")
  BY DEF pv_volumes_mount
<1>2. pc = "MOUNT" /\ UNCHANGED <<rev, base, plats, from, status, updated, proc, loggers, pend, num, round>>
  BY DEF pv_volumes_mount
<1>3. goal = "NONE" /\ updated = {} /\ \A v \in S : mnt[v] = 0
  BY <1>1, <1>2 DEF IInv, StatusInv, MountInv, Calm
<1>4. S \subseteq plats \cup {NoPlat} /\ S \subseteq Volumes
  BY <1>1 DEF InLevel, Volumes, IInv, TypeOK
<1>5. TypeOK'
  BY <1>1, <1>2, <1>4 DEF IInv, TypeOK, TearDown
<1>6. StatusInv' /\ LoggersInv'
  BY <1>1, <1>2, <1>3 DEF IInv, StatusInv, LoggersInv, Calm, Changing, TearDown
<1>7. MountInv'
  <2>1. \A v \in Volumes : mnt'[v] \in 0..1
    BY <1>1, <1>3 DEF IInv, MountInv
  <2>2. \A v \in Volumes : v \notin plats \cup {NoPlat} => mnt'[v] = 0
    BY <1>1, <1>4 DEF IInv, MountInv
  <2>3. plats \subseteq Volumes /\ NoPlat \notin plats
    BY PlatformsAssumption DEF IInv, TypeOK, Volumes
  <2>4. \A p \in plats : status[p] = "STARTED" => p \notin S
    BY <1>1, <2>3 DEF InLevel, NotRunning
  <2>5. \A p \in plats : status[p] = "STARTED" => mnt'[p] = 1
    BY <1>1, <2>3, <2>4 DEF IInv, MountInv
  <2>6. pc' = "START" => \A p \in plats : runlevel(p) >= lvl => mnt'[p] = 1
    <3> SUFFICES ASSUME pc' = "START", NEW p \in plats, runlevel(p) >= lvl, status[p] # "STARTED"
                 PROVE  mnt'[p] = 1
      BY <2>5
    <3>1. p \in InLevel(lvl)
      BY DEF InLevel, NotRunning
    <3>2. p \in S
      BY <1>1, <3>1 DEF TearDown
    <3> QED BY <1>1, <1>3, <2>3, <3>2
  <2>7. pc' = "START" => lvl' = lvl
    BY <1>1 DEF TearDown
  <2> QED BY <1>1, <1>2, <2>1, <2>2, <2>5, <2>6, <2>7, Frame DEF IInv, MountInv, TearDown
<1>8. RunInv' /\ StartedInv'
  <2>1. pc' \in {"STOP", "START"} /\ (pc' = "START" => lvl' = lvl)
    BY <1>1 DEF TearDown
  <2> QED BY <1>2, <2>1, Frame DEF IInv, RunInv, StartedInv
<1>9. ChangingInv' /\ StoppedBeforeReplaced'
  BY <1>1, <1>3 DEF ChangingInv, Changing, StoppedBeforeReplaced, TearDown
<1> QED BY <1>5, <1>6, <1>7, <1>8, <1>9 DEF IInv

LEMMA StartStep ==
  ASSUME IInv, NEW p \in Plats, pv_platforms_start_platform(p)
  PROVE  IInv'
<1> USE DEF Runlevels, RUNLEVEL_DATA, RUNLEVEL_APP
<1>1. pc = "START" /\ NextToStart(p)
      /\ UNCHANGED <<rev, base, plats, from, updated, dest, mnt, loggers, pend, num, round>>
  BY DEF pv_platforms_start_platform
<1>2. goal = "NONE" /\ updated = {}
  BY <1>1 DEF IInv, StatusInv, Calm
<1>3. CASE TearDown("REBOOT") /\ UNCHANGED <<status, proc>>
  <2>1. TypeOK' /\ StatusInv' /\ LoggersInv'
    BY <1>1, <1>2, <1>3 DEF IInv, TypeOK, StatusInv, LoggersInv, Calm, Changing, TearDown
  <2>2. MountInv'
    BY <1>1, <1>3 DEF IInv, MountInv, TearDown
  <2>3. RunInv' /\ StartedInv' /\ ChangingInv' /\ StoppedBeforeReplaced'
    BY <1>3 DEF RunInv, StartedInv, ChangingInv, Changing, StoppedBeforeReplaced, TearDown
  <2> QED BY <2>1, <2>2, <2>3 DEF IInv
<1>4. CASE /\ pv_start_container(p) /\ status' = [status EXCEPT ![p] = "STARTED"]
           /\ UNCHANGED <<pc, goal, lvl>>
  <2>1. TypeOK' /\ StatusInv' /\ LoggersInv'
    BY <1>1, <1>2, <1>4
       DEF IInv, TypeOK, StatusInv, LoggersInv, Calm, Changing, pv_start_container
  <2>2. p \in plats /\ runlevel(p) >= lvl
    BY <1>1 DEF NextToStart, ToStart
  <2>3. mnt[p] = 1
    BY <1>1, <2>2 DEF IInv, MountInv
  <2>4. MountInv'
    BY <1>1, <1>4, <2>2, <2>3, Frame DEF IInv, TypeOK, MountInv
  <2>5. RunInv'
    BY <1>1, <1>4, Frame DEF IInv, RunInv
  <2>6. StartedInv'
    BY <1>1, <1>4, Frame DEF IInv, TypeOK, StartedInv
  <2>7. ChangingInv' /\ StoppedBeforeReplaced'
    BY <1>1, <1>2, <1>4 DEF ChangingInv, Changing, StoppedBeforeReplaced
  <2> QED BY <2>1, <2>4, <2>5, <2>6, <2>7 DEF IInv
<1> QED BY <1>3, <1>4 DEF pv_platforms_start_platform

LEMMA StartLoggersStep ==
  ASSUME IInv, StartLoggers
  PROVE  IInv'
<1> USE DEF Runlevels, RUNLEVEL_DATA, RUNLEVEL_APP
<1>1. PICK S \in SUBSET plats :
        loggers' = [p \in Plats |-> IF p \in S THEN loggers[p] + 1 ELSE loggers[p]]
  BY DEF StartLoggers
<1>2. /\ pc = "START" /\ pc' = "WAIT" /\ ToStart = {}
      /\ UNCHANGED <<rev, base, plats, from, status, updated, dest, proc, mnt, goal, lvl, pend, num, round>>
  BY DEF StartLoggers, stateVars
<1>3. \A p \in Plats : loggers[p] = 0
  BY <1>2 DEF IInv, LoggersInv
<1>4. TypeOK' /\ StatusInv'
  BY <1>1, <1>2, <1>3 DEF IInv, TypeOK, StatusInv, Calm, Changing
<1>5. LoggersInv'
  BY <1>1, <1>2, <1>3 DEF LoggersInv
<1>6. MountInv'
  BY <1>2, Frame DEF IInv, MountInv
<1>7. RunInv'
  BY <1>2, Frame DEF IInv, RunInv
<1>8. StartedInv'
  <2>1. \A p \in plats : runlevel(p) \in Runlevels
    BY LevelType DEF IInv, TypeOK, Volumes
  <2>2. \A p \in plats : RUNLEVEL_DATA < runlevel(p) => status[p] = "STARTED"
    BY <1>2, <2>1 DEF IInv, TypeOK, StartedInv, ToStart
  <2> QED BY <1>2, <2>2, Frame DEF StartedInv
<1>9. ChangingInv' /\ StoppedBeforeReplaced'
  BY <1>2 DEF ChangingInv, Changing, StoppedBeforeReplaced
<1> QED BY <1>4, <1>5, <1>6, <1>7, <1>8, <1>9 DEF IInv

\* All that ends the loop from WAIT.
LEMMA TearDownInv ==
  ASSUME IInv, pc = "WAIT", NEW g \in {"REBOOT", "POWEROFF"}, TearDown(g),
         updated' \subseteq Plats, pend' \in Revs,
         UNCHANGED <<rev, base, plats, from, status, dest, proc, mnt, loggers, num, round>>
  PROVE  IInv'
<1> USE DEF Runlevels, RUNLEVEL_DATA, RUNLEVEL_APP
<1>1. TypeOK' /\ StatusInv' /\ LoggersInv'
  BY DEF IInv, TypeOK, StatusInv, LoggersInv, Calm, Changing, TearDown
<1>2. MountInv'
  BY DEF IInv, MountInv, TearDown
<1>3. RunInv' /\ StartedInv' /\ ChangingInv' /\ StoppedBeforeReplaced'
  BY DEF RunInv, StartedInv, ChangingInv, Changing, StoppedBeforeReplaced, TearDown
<1> QED BY <1>1, <1>2, <1>3 DEF IInv

LEMMA ExitStep ==
  ASSUME IInv, NEW p \in Plats, Exit(p)
  PROVE  IInv'
<1>1. /\ proc[p] = "alive" /\ proc' = [proc EXCEPT ![p] = "dead"]
      /\ loggers' \in {loggers, [loggers EXCEPT ![p] = 0]}
      /\ UNCHANGED <<rev, base, plats, from, status, updated, dest, mnt, pc, goal, lvl, pend, num, round>>
  BY DEF Exit, stateVars, loopVars
<1>2. TypeOK'
  BY <1>1 DEF IInv, TypeOK
<1>3. StatusInv'
  BY <1>1 DEF IInv, TypeOK, StatusInv, Calm, Changing
<1>4. LoggersInv'
  BY <1>1 DEF IInv, TypeOK, LoggersInv
<1>5. MountInv'
  BY <1>1, LevelFrame, Frame DEF IInv, MountInv
<1>6. RunInv' /\ StartedInv'
  BY <1>1, Frame DEF IInv, RunInv, StartedInv
<1>7. ChangingInv'
  BY <1>1, Frame, ScopeFrame DEF IInv, ChangingInv, Changing
<1>8. StoppedBeforeReplaced'
  BY <1>1 DEF IInv, TypeOK, StoppedBeforeReplaced
<1> QED BY <1>2, <1>3, <1>4, <1>5, <1>6, <1>7, <1>8 DEF IInv

LEMMA ExitedStep ==
  ASSUME IInv, Exited \/ ShutdownCommand
  PROVE  IInv'
<1>1. /\ pc = "WAIT"
      /\ UNCHANGED <<rev, base, plats, from, status, updated, dest, proc, mnt, loggers, pend, num, round>>
  BY DEF Exited, ShutdownCommand, stateVars, systemVars
<1>2. PICK g \in {"REBOOT", "POWEROFF"} : TearDown(g)
  BY DEF Exited, ShutdownCommand
<1>3. updated' \subseteq Plats /\ pend' \in Revs
  BY <1>1 DEF IInv, TypeOK
<1> QED BY <1>1, <1>2, <1>3, TearDownInv

LEMMA UpdatedType ==
  ASSUME TypeOK, NEW r \in Revs
  PROVE  Updated(r) \subseteq plats
BY DEF Updated, DeletedPlats

LEMMA UpdateStep ==
  ASSUME IInv, NEW r \in Revs, Update(r)
  PROVE  IInv'
<1> USE DEF Runlevels, RUNLEVEL_DATA, RUNLEVEL_ROOT, RUNLEVEL_PLATFORM, RUNLEVEL_APP
<1>1. /\ pc = "WAIT" /\ pend' = r /\ updated' = updated \cup Updated(r)
      /\ UNCHANGED <<rev, base, plats, from, status, dest, proc, mnt, loggers, num, round>>
  BY DEF Update, systemVars
<1>2. goal = "NONE" /\ updated = {} /\ TypeOK /\ \A p \in Plats : status[p] # "STOPPED"
  BY <1>1 DEF IInv, StatusInv, Calm
<1>3. updated' = Updated(r) /\ updated' \subseteq Plats
  BY <1>1, <1>2, UpdatedType DEF TypeOK
<1>4. CASE TearDown("REBOOT")
  BY <1>1, <1>3, <1>4, TearDownInv
<1>5. CASE /\ pv_state_compare_states(r) > RUNLEVEL_PLATFORM /\ pc' = "STOP"
           /\ goal' = "TRANSITION" /\ lvl' = pv_state_compare_states(r)
  <2>1. lvl' = RUNLEVEL_APP /\ ~NeedsReboot(r) /\ \A n \in Touched(r) : n = RUNLEVEL_APP
    BY <1>2, <1>5, InPlace
  <2>2. TypeOK'
    BY <1>1, <1>2, <1>3, <1>5, <2>1 DEF TypeOK
  <2>3. StatusInv' /\ LoggersInv'
    BY <1>1, <1>2, <1>5 DEF IInv, StatusInv, LoggersInv, Calm, Changing
  <2>4. MountInv'
    BY <1>1, <1>5 DEF IInv, MountInv
  <2>5. RunInv' /\ StartedInv' /\ StoppedBeforeReplaced'
    BY <1>5 DEF RunInv, StartedInv, StoppedBeforeReplaced
  <2>6. ChangingInv'
    <3>1. ~NeedsReboot(r)' /\ Updated(r)' = Updated(r) /\ \A n \in Touched(r)' : n = RUNLEVEL_APP
      BY <1>1, <2>1, Frame
    <3>2. ~NeedsReboot(pend)' /\ updated' = Updated(pend)' /\ \A n \in Touched(pend)' : n = RUNLEVEL_APP
      BY <1>1, <1>3, <3>1 DEF NeedsReboot, Updated, Touched, Changed, Gone, DeletedPlats
    <3>3. \A p \in plats' :
            RUNLEVEL_DATA < runlevel(p)' /\ runlevel(p)' < RUNLEVEL_APP => status'[p] = "STARTED"
      BY <1>1, Frame DEF IInv, StartedInv
    <3>4. \A p \in plats' : status'[p] # "STOPPED"
      BY <1>1, <1>2 DEF TypeOK
    <3> QED BY <1>5, <2>1, <3>2, <3>3, <3>4 DEF ChangingInv
  <2> QED BY <2>2, <2>3, <2>4, <2>5, <2>6 DEF IInv
<1> QED BY <1>4, <1>5 DEF Update

LEMMA PlatsFinite ==
  ASSUME TypeOK, NEW S \in SUBSET plats
  PROVE  IsFiniteSet(S) /\ Cardinality(S) \in Nat
BY PlatformsAssumption, FS_Subset, FS_CardinalityType DEF TypeOK

LEMMA StopStep ==
  ASSUME IInv, Stop
  PROVE  IInv'
<1> USE DEF Runlevels, RUNLEVEL_DATA, RUNLEVEL_ROOT, RUNLEVEL_PLATFORM, RUNLEVEL_APP
<1>1. /\ pc = "STOP" /\ pc' = "CHECK" /\ num' = Cardinality(ToStop) /\ round' = 0
      /\ loggers' = [p \in Plats |-> IF p \in plats THEN 0 ELSE loggers[p]]
      /\ status' = [p \in Plats |-> IF p \in ToStop THEN "STOPPED" ELSE status[p]]
      /\ UNCHANGED <<rev, base, plats, from, updated, dest, proc, mnt, goal, lvl, pend>>
  BY DEF Stop, LoggersOf
<1>2. ToStop \subseteq plats /\ plats \subseteq Plats
  BY DEF ToStop, InScope, IInv, TypeOK
<1>3. ToStop = {p \in InScope(lvl) : status[p] = "STARTED"}
  BY <1>2 DEF ToStop, InScope, IInv, StatusInv
<1>4. TypeOK'
  BY <1>1, <1>2, PlatsFinite, PlatformsAssumption DEF IInv, TypeOK
<1>5. StatusInv'
  BY <1>1, <1>3, PlatformsAssumption DEF IInv, StatusInv, Calm, Changing
<1>6. LoggersInv'
  BY <1>1 DEF IInv, TypeOK, LoggersInv
<1>7. MountInv'
  BY <1>1, <1>2 DEF IInv, MountInv
<1>8. RunInv' /\ StartedInv' /\ StoppedBeforeReplaced'
  BY <1>1 DEF RunInv, StartedInv, StoppedBeforeReplaced
<1>9. ChangingInv'
  <2> SUFFICES ASSUME goal = "TRANSITION"
               PROVE  ChangingInv'
    BY <1>1 DEF ChangingInv, Changing
  <2>1. /\ lvl = RUNLEVEL_APP /\ ~NeedsReboot(pend) /\ updated = Updated(pend)
        /\ \A n \in Touched(pend) : n = RUNLEVEL_APP
        /\ \A p \in plats :
             RUNLEVEL_DATA < runlevel(p) /\ runlevel(p) < RUNLEVEL_APP => status[p] = "STARTED"
        /\ \A p \in Plats : status[p] # "STOPPED"
    BY <1>1 DEF IInv, ChangingInv, Changing, StatusInv
  <2>2. /\ lvl' = RUNLEVEL_APP /\ ~NeedsReboot(pend)' /\ updated' = Updated(pend)'
        /\ \A n \in Touched(pend)' : n = RUNLEVEL_APP
    BY <1>1, <2>1, Frame
  <2>3. \A p \in plats :
          RUNLEVEL_DATA < runlevel(p) /\ runlevel(p) < RUNLEVEL_APP => status'[p] = "STARTED"
    <3>1. \A p \in plats : runlevel(p) \in Runlevels
      BY LevelType DEF IInv, TypeOK, Volumes
    <3> QED BY <1>1, <1>2, <2>1, <3>1 DEF ToStop, InScope
  <2>4. \A p \in plats : p \in InScope(lvl) => status'[p] # "STARTED"
    BY <1>1, <1>2, <1>3
  <2>5. {p \in plats : status'[p] = "STOPPED"} = ToStop
    BY <1>1, <1>2, <2>1
  <2>6. ToStop \subseteq InScope(lvl)
    BY DEF ToStop
  <2>7. InScope(lvl)' = InScope(lvl)
    BY <1>1, ScopeFrame, Frame DEF InScope
  <2>8. num' = Cardinality({p \in plats' : status'[p] = "STOPPED"})
    BY <1>1, <2>5
  <2> QED BY <1>1, <2>2, <2>3, <2>4, <2>5, <2>6, <2>7, <2>8, Frame DEF ChangingInv
<1> QED BY <1>4, <1>5, <1>6, <1>7, <1>8, <1>9 DEF IInv

\* As many have ended as were stopped, and those that have ended were stopped.
LEMMA CheckStep ==
  ASSUME IInv, Check
  PROVE  IInv'
<1> USE DEF Runlevels, RUNLEVEL_DATA, RUNLEVEL_APP
<1>1. /\ pc = "CHECK" /\ pc' \in {"UNMOUNT", "KILL", "CHECK"}
      /\ UNCHANGED <<rev, base, plats, from, status, updated, dest, proc, mnt, loggers,
                     goal, lvl, pend, num>>
  BY DEF Check, stateVars, systemVars
<1>2. round \in 0 .. Rounds - 1 /\ Rounds \in Nat \ {0}
  BY <1>1, PlatformsAssumption DEF IInv, TypeOK, StatusInv
<1>3. round' \in 0 .. Rounds /\ (pc' = "CHECK" => round' < Rounds)
  BY <1>2 DEF Check, NextRound
<1>4. TypeOK' /\ StatusInv' /\ LoggersInv'
  BY <1>1, <1>3 DEF IInv, TypeOK, StatusInv, LoggersInv, Calm, Changing
<1>5. MountInv'
  BY <1>1 DEF IInv, MountInv
<1>6. RunInv' /\ StartedInv'
  BY <1>1 DEF RunInv, StartedInv
<1>7. ChangingInv'
  BY <1>1, Frame, ScopeFrame DEF IInv, ChangingInv, Changing
<1>8. StoppedBeforeReplaced'
  <2> SUFFICES ASSUME pc' = "UNMOUNT", goal = "TRANSITION"
               PROVE  \A p \in plats : status[p] = "STOPPED" => proc[p] = "dead"
    BY <1>1 DEF StoppedBeforeReplaced
  <2> DEFINE Ended   == pv_platforms_check_exited(lvl)
             Stopped == {p \in plats : status[p] = "STOPPED"}
  <2>1. Cardinality(Ended) = Cardinality(Stopped)
    BY <1>1 DEF Check, IInv, ChangingInv, Changing
  <2>2. \A p \in plats : p \in InScope(lvl) => status[p] # "STARTED"
    BY <1>1 DEF IInv, ChangingInv, Changing
  <2>3. plats \subseteq Plats /\ InScope(lvl) \subseteq plats
    BY DEF IInv, TypeOK, InScope
  <2>4. Ended \subseteq Stopped
    BY <2>2, <2>3 DEF IInv, TypeOK, StatusInv, pv_platforms_check_exited
  <2>5. IsFiniteSet(Stopped)
    BY PlatsFinite DEF IInv
  <2>6. Ended = Stopped
    BY <2>1, <2>4, <2>5, FS_Subset
  <2> QED BY <2>6 DEF pv_platforms_check_exited
<1> QED BY <1>4, <1>5, <1>6, <1>7, <1>8 DEF IInv

LEMMA KillStep ==
  ASSUME IInv, pv_platforms_force_kill
  PROVE  IInv'
<1> USE DEF Runlevels, RUNLEVEL_DATA, RUNLEVEL_APP
<1>1. /\ pc = "KILL" /\ pc' = IF Unstarted = {} THEN "UNMOUNT" ELSE "KILLED"
      /\ proc' = [p \in Plats |-> IF /\ p \in InScope(lvl)
                                     /\ proc[p] = "alive"
                                     /\ \A q \in Unstarted : runlevel(q) <= runlevel(p)
                                  THEN "dead" ELSE proc[p]]
      /\ UNCHANGED <<rev, base, plats, from, status, updated, dest, mnt, loggers,
                     goal, lvl, pend, num, round>>
  BY DEF pv_platforms_force_kill, stateVars
<1>2. pc' \in {"UNMOUNT", "KILLED"}
  BY <1>1
<1>3. TypeOK' /\ LoggersInv'
  BY <1>1, <1>2 DEF IInv, TypeOK, LoggersInv
<1>4. StatusInv'
  BY <1>1, <1>2 DEF IInv, TypeOK, StatusInv, Calm, Changing
<1>5. MountInv' /\ RunInv' /\ StartedInv'
  BY <1>1, <1>2 DEF IInv, MountInv, RunInv, StartedInv
<1>6. ChangingInv'
  BY <1>1, <1>2, Frame, ScopeFrame DEF IInv, ChangingInv, Changing
<1>7. StoppedBeforeReplaced'
  <2> SUFFICES ASSUME pc' = "UNMOUNT", goal = "TRANSITION",
                      NEW p \in plats, status[p] = "STOPPED"
               PROVE  proc'[p] = "dead"
    BY <1>1 DEF StoppedBeforeReplaced
  <2>1. Unstarted = {} /\ p \in Plats
    BY <1>1 DEF IInv, TypeOK
  <2>2. p \in InScope(lvl)
    BY <1>1 DEF IInv, ChangingInv, Changing
  <2>3. proc[p] \in {"alive", "dead"}
    BY <2>1 DEF IInv, TypeOK, StatusInv
  <2> QED BY <1>1, <2>1, <2>2, <2>3
<1> QED BY <1>3, <1>4, <1>5, <1>6, <1>7 DEF IInv

LEMMA UnmountFailedStep ==
  ASSUME IInv, UnmountFailed
  PROVE  IInv'
<1> USE DEF Runlevels, RUNLEVEL_DATA, RUNLEVEL_APP
<1>1. /\ pc = "UNMOUNT" /\ TearDown("REBOOT")
      /\ UNCHANGED <<rev, base, plats, from, status, updated, dest, proc, loggers, pend, num, round>>
  BY DEF UnmountFailed, stateVars
<1>2. PICK S \in SUBSET {v \in ToUnmount(lvl) : Unmountable(v)} : Unmounted(S)
  BY DEF UnmountFailed
<1>3. \A v \in S : mnt[v] > 0 /\ NotRunning(v)
  BY <1>2 DEF ToUnmount, InLevel, Unmountable
<1>4. \A v \in Volumes : mnt[v] \in 0..1 /\ mnt'[v] \in 0..mnt[v]
  BY <1>2, <1>3 DEF IInv, MountInv, Unmounted
<1>5. TypeOK' /\ StatusInv' /\ LoggersInv'
  BY <1>1, <1>2, <1>4, PlatformsAssumption
     DEF IInv, TypeOK, StatusInv, LoggersInv, Calm, Changing, TearDown, Unmounted
<1>6. MountInv'
  <2>1. plats \subseteq Volumes /\ NoPlat \notin plats
    BY PlatformsAssumption DEF IInv, TypeOK, Volumes
  <2>2. \A p \in plats : status[p] = "STARTED" => mnt'[p] = 1
    BY <1>2, <1>3, <2>1 DEF IInv, MountInv, Unmounted, NotRunning
  <2>3. \A v \in Volumes : mnt'[v] \in 0..1 /\ (v \notin plats \cup {NoPlat} => mnt'[v] = 0)
    BY <1>4 DEF IInv, MountInv
  <2> QED BY <1>1, <2>2, <2>3 DEF IInv, MountInv, TearDown
<1>7. RunInv' /\ StartedInv' /\ ChangingInv' /\ StoppedBeforeReplaced'
  BY <1>1 DEF RunInv, StartedInv, ChangingInv, Changing, StoppedBeforeReplaced, TearDown
<1> QED BY <1>5, <1>6, <1>7 DEF IInv

-----------------------------------------------------------------------------
(***************************************************************************)
(* The transition.  What an update in place changes are apps, and they do  *)
(* not run any more.                                                       *)
(***************************************************************************)
Ready ==
  /\ TypeOK /\ lvl = RUNLEVEL_APP /\ ~NeedsReboot(pend)
  /\ \A n \in Touched(pend) : n = RUNLEVEL_APP
  /\ \A p \in Updated(pend) : status[p] # "STARTED"

LEMMA ReadyForTransition ==
  ASSUME IInv, pc = "UNMOUNT", goal = "TRANSITION"
  PROVE  Ready
<1> USE DEF Runlevels, RUNLEVEL_DATA, RUNLEVEL_APP
<1>1. ChangingInv /\ Changing /\ TypeOK
  BY DEF IInv, Changing
<1>2. \A p \in Updated(pend) : p \in plats /\ runlevel(p) = RUNLEVEL_APP
  <2> SUFFICES ASSUME NEW p \in Updated(pend)
               PROVE  p \in plats /\ runlevel(p) = RUNLEVEL_APP
    OBVIOUS
  <2>1. pend \in Revs /\ p \in plats /\ p \in Plats /\ p # NoPlat
    <3>1. pend \in Revs /\ plats \subseteq Plats
      BY <1>1 DEF TypeOK
    <3> QED BY <1>1, <3>1, UpdatedType, PlatformsAssumption
  <2>2. CASE p \in DeletedPlats(pend)
    <3>1. runlevel(p) \in Touched(pend)
      BY <2>2 DEF Touched
    <3> QED BY <1>1, <2>1, <3>1 DEF ChangingInv
  <2>3. CASE \E f \in Changed(pend) : Owner[f] = p
    <3>1. PICK f \in Changed(pend) : Owner[f] = p
      BY <2>3
    <3>2. pv_platforms_default_runlevel(pend, p) = RUNLEVEL_APP
      <4>1. pv_platforms_default_runlevel(pend, p) \in Touched(pend)
        BY <3>1 DEF Touched
      <4> QED BY <1>1, <4>1 DEF ChangingInv
    <3>3. p \in PlatsOf[pend]
      BY <2>1, <3>1, PlatformsAssumption DEF Changed
    <3> QED BY <1>1, <2>1, <3>2, <3>3 DEF ChangingInv, NeedsReboot
  <2>4. CASE \E f \in Gone(pend) : Owner[f] = p
    <3>1. runlevel(p) \in Touched(pend)
      BY <2>4 DEF Touched
    <3> QED BY <1>1, <2>1, <3>1 DEF ChangingInv
  <2> QED BY <2>2, <2>3, <2>4 DEF Updated
<1>3. \A p \in Updated(pend) : p \in InScope(lvl)
  BY <1>1, <1>2 DEF ChangingInv, InScope
<1> QED BY <1>1, <1>2, <1>3 DEF ChangingInv, Ready

\* What is kept is of the new revision, on the same runlevel.
LEMMA KeptIsOfPending ==
  ASSUME Ready, NEW p \in Kept
  PROVE  /\ p \in PlatsOf[pend] /\ p \in plats /\ p # NoPlat
         /\ runlevel(p) = pv_platforms_default_runlevel(pend, p)
         /\ \A f \in Files : Owner[f] = p => Current(f) \in {Absent, Content[pend][f]}
<1>1. p \in plats /\ p # NoPlat /\ status[p] = "STARTED"
  BY PlatformsAssumption DEF Kept, Ready, TypeOK
<1>2. p \in PlatsOf[pend]
  BY <1>1 DEF Ready, Updated, DeletedPlats
<1>3. runlevel(p) = pv_platforms_default_runlevel(pend, p)
  BY <1>1, <1>2 DEF Ready, NeedsReboot
<1>4. ASSUME NEW f \in Files, Owner[f] = p, Current(f) \notin {Absent, Content[pend][f]}
      PROVE  FALSE
  <2>1. f \in Changed(pend) \/ f \in Gone(pend)
    BY <1>4 DEF Changed, Gone
  <2>2. p \in Updated(pend)
    BY <1>1, <1>4, <2>1 DEF Updated
  <2> QED BY <1>1, <2>2 DEF Ready
<1> QED BY <1>1, <1>2, <1>3, <1>4

\* A platform that is new is an app: it has a file, and that is new too.
LEMMA NewIsApp ==
  ASSUME Ready, NEW p \in PlatsOf[pend] \ plats
  PROVE  pv_platforms_default_runlevel(pend, p) = RUNLEVEL_APP
<1>1. PICK f \in Files : Owner[f] = p /\ Content[pend][f] # Absent
  BY PlatformsAssumption DEF Ready, TypeOK
<1>2. p # NoPlat
  BY PlatformsAssumption DEF Ready, TypeOK
<1>3. f \in Changed(pend)
  BY <1>1, <1>2 DEF Changed, Current
<1> QED BY <1>1, <1>3 DEF Ready, Touched

LEMMA TransitionStep ==
  ASSUME IInv, Transition
  PROVE  IInv'
<1> USE DEF Runlevels, RUNLEVEL_DATA, RUNLEVEL_ROOT, RUNLEVEL_APP
<1>1. /\ pc = "UNMOUNT" /\ goal = "TRANSITION" /\ pc' = "MOUNT" /\ goal' = "NONE"
      /\ \A v \in InLevel(lvl) : Unmountable(v)
      /\ Unmounted(InLevel(lvl))
      /\ UNCHANGED <<base, loggers, lvl, pend, num, round>>
  BY DEF Transition, ToUnmount
<1>2. /\ plats' = Kept \cup Transferred
      /\ from' = [p \in Plats |-> IF p \in Transferred THEN pend ELSE from[p]]
      /\ status' = [p \in Plats |-> IF p \in Kept THEN status[p] ELSE "INSTALLED"]
      /\ proc' = [p \in Plats |-> IF p \in Kept THEN proc[p] ELSE "none"]
      /\ updated' = updated \cap Kept
      /\ dest' = dest \cap (Kept \cup {NoPlat})
      /\ rev' = pend
  BY DEF Transition, pv_state_transfer
<1>3. Ready /\ TypeOK /\ lvl = 3 /\ pend \in Revs
  BY <1>1, ReadyForTransition DEF Ready, TypeOK
<1>4. PlatsOf[pend] \subseteq Plats /\ plats \subseteq Plats /\ NoPlat \notin Plats
  BY <1>3, PlatformsAssumption DEF TypeOK
<1>5. plats' = PlatsOf[pend] /\ Kept \subseteq plats
  BY <1>2, <1>3, KeptIsOfPending DEF Transferred, Kept
<1>6. \A p \in PlatsOf[pend] : runlevel(p)' = pv_platforms_default_runlevel(pend, p)
  <2>1. \A p \in Transferred : runlevel(p)' = pv_platforms_default_runlevel(pend, p)
    BY <1>2, <1>4 DEF runlevel, Transferred
  <2>2. \A p \in Kept : runlevel(p)' = runlevel(p)
    BY <1>2, <1>4, <1>5 DEF runlevel, Transferred
  <2> QED BY <1>3, <2>1, <2>2, KeptIsOfPending DEF Transferred
<1>7. \A v \in InLevel(lvl) : mnt[v] = 1 /\ mnt'[v] = 0
  <2>1. InLevel(lvl) \subseteq Volumes
    BY <1>4 DEF InLevel, Volumes
  <2> QED BY <1>1, <2>1 DEF Unmountable, Unmounted, IInv, MountInv
<1>8. \A v \in Volumes \ InLevel(lvl) : mnt'[v] = mnt[v]
  BY <1>1 DEF Unmounted
<1>9. \A v \in Volumes : mnt'[v] \in 0..1
  BY <1>7, <1>8 DEF IInv, MountInv
<1>10. TypeOK'
  <2>1. mnt' \in [Volumes -> Nat]
    BY <1>1, <1>9 DEF Unmounted
  <2> QED BY <1>1, <1>2, <1>3, <1>4, <1>5, <2>1 DEF TypeOK
<1>11. StatusInv'
  <2>1. ChangingInv
    BY DEF IInv
  <2>2. updated' = {}
    BY <1>1, <1>2, <1>3, <2>1 DEF ChangingInv, Changing, Ready, Kept
  <2> QED BY <1>1, <1>2, <2>2 DEF IInv, StatusInv, Calm, Changing, Kept
<1>12. LoggersInv'
  BY <1>1, <1>4 DEF IInv, LoggersInv
<1>13. ASSUME NEW p \in plats \cap PlatsOf[pend]
       PROVE  runlevel(p) = pv_platforms_default_runlevel(pend, p)
  BY <1>3, <1>13 DEF Ready, NeedsReboot
<1>14. MountInv'
  <2>1. ASSUME NEW v \in Volumes, v \notin PlatsOf[pend] \cup {NoPlat}
        PROVE  mnt'[v] = 0
    <3>1. CASE v \notin plats
      BY <1>7, <1>8, <2>1, <3>1 DEF IInv, MountInv
    <3>2. CASE v \in plats
      <4>1. v \in DeletedPlats(pend) /\ v \in Updated(pend)
        BY <2>1, <3>2 DEF DeletedPlats, Updated
      <4>2. runlevel(v) = RUNLEVEL_APP /\ status[v] # "STARTED"
        BY <1>3, <4>1 DEF Ready, Touched
      <4>3. v \in InLevel(lvl)
        BY <1>3, <3>2, <4>2 DEF InLevel, NotRunning
      <4> QED BY <1>7, <4>3
    <3> QED BY <3>1, <3>2
  <2>2. ASSUME NEW p \in PlatsOf[pend], status'[p] = "STARTED"
        PROVE  mnt'[p] = 1
    <3>1. p \in Kept /\ p \in Volumes /\ p # NoPlat
      BY <1>2, <1>4, <2>2 DEF Volumes
    <3>2. p \notin InLevel(lvl) /\ mnt[p] = 1
      BY <3>1 DEF InLevel, NotRunning, Kept, IInv, MountInv
    <3> QED BY <1>8, <3>1, <3>2
  <2>3. \A p \in Plats \ PlatsOf[pend] : status'[p] = "INSTALLED"
    BY <1>2, <1>3, KeptIsOfPending
  <2>4. ASSUME NEW v \in InLevel(lvl)'
        PROVE  mnt'[v] = 0
    <3>1. v \in PlatsOf[pend] \cup {NoPlat} /\ runlevel(v)' >= lvl /\ NotRunning(v)'
      BY <1>1, <1>5, <2>4 DEF InLevel
    <3>2. v # NoPlat
      BY <1>3, <3>1 DEF runlevel
    <3>3. v \in PlatsOf[pend] /\ v \in Plats /\ status'[v] # "STARTED"
      BY <1>4, <3>1, <3>2 DEF NotRunning
    <3>4. CASE v \in plats
      <4>1. runlevel(v) >= lvl
        BY <1>6, <1>13, <3>1, <3>3, <3>4
      <4>2. status[v] # "STARTED"
        BY <1>2, <3>3, <3>4 DEF Kept
      <4>3. v \in InLevel(lvl)
        BY <3>4, <4>1, <4>2 DEF InLevel, NotRunning
      <4> QED BY <1>7, <4>3
    <3>5. CASE v \notin plats
      BY <1>7, <1>8, <3>2, <3>3, <3>5 DEF IInv, MountInv, Volumes
    <3> QED BY <3>4, <3>5
  <2> QED BY <1>1, <1>5, <1>9, <2>1, <2>2, <2>3, <2>4 DEF MountInv
<1>15. RunInv'
  <2>1. ASSUME NEW f \in Files
        PROVE  Current(f)' \in {Absent, Content[pend][f]}
    <3>1. CASE Owner[f] = NoPlat
      <4>1. Current(f)' = Current(f)
        BY <1>1, <3>1 DEF Current
      <4>2. f \notin Changed(pend) \cup Gone(pend)
        BY <1>3, <3>1 DEF Ready, NeedsReboot
      <4> QED BY <4>1, <4>2 DEF Changed, Gone
    <3>2. CASE Owner[f] \in Kept
      <4>1. Current(f)' = Current(f)
        BY <1>2, <1>3, <1>4, <1>5, <3>2, KeptIsOfPending DEF Current, Transferred
      <4> QED BY <1>3, <3>2, <4>1, KeptIsOfPending
    <3>3. CASE Owner[f] \in Transferred
      BY <1>2, <1>4, <3>3 DEF Current, Transferred
    <3>4. CASE Owner[f] # NoPlat /\ Owner[f] \notin Kept \cup Transferred
      BY <1>2, <3>4 DEF Current
    <3> QED BY <3>1, <3>2, <3>3, <3>4
  <2> QED BY <1>1, <1>2, <1>5, <1>6, <2>1 DEF RunInv
<1>16. StartedInv'
  <2> SUFFICES ASSUME NEW p \in PlatsOf[pend], RUNLEVEL_DATA < runlevel(p)', runlevel(p)' < lvl,
                      p \notin Kept
               PROVE  FALSE
    BY <1>1, <1>2, <1>4, <1>5 DEF StartedInv, Kept
  <2>1. runlevel(p)' = pv_platforms_default_runlevel(pend, p)
    BY <1>6
  <2>2. CASE p \in plats
    <3>1. status[p] = "STARTED"
      BY <1>1, <1>3, <1>13, <2>1, <2>2 DEF IInv, ChangingInv, Changing
    <3> QED BY <2>2, <3>1 DEF Kept
  <2>3. CASE p \notin plats
    BY <1>3, <2>1, <2>3, NewIsApp
  <2> QED BY <2>2, <2>3
<1>17. ChangingInv' /\ StoppedBeforeReplaced'
  BY <1>1 DEF ChangingInv, Changing, StoppedBeforeReplaced
<1> QED BY <1>10, <1>11, <1>12, <1>14, <1>15, <1>16, <1>17 DEF IInv

-----------------------------------------------------------------------------
LEMMA StutterStep ==
  ASSUME IInv, UNCHANGED vars
  PROVE  IInv'
<1> USE DEF vars
<1>1. TypeOK' /\ StatusInv' /\ LoggersInv' /\ StoppedBeforeReplaced'
  BY DEF IInv, TypeOK, StatusInv, LoggersInv, Calm, Changing, StoppedBeforeReplaced
<1>2. MountInv'
  BY LevelFrame, Frame DEF IInv, MountInv
<1>3. RunInv' /\ StartedInv'
  BY Frame DEF IInv, RunInv, StartedInv
<1>4. ChangingInv'
  BY Frame, ScopeFrame DEF IInv, ChangingInv, Changing
<1> QED BY <1>1, <1>2, <1>3, <1>4 DEF IInv

LEMMA NextInv == IInv /\ [Next]_vars => IInv'
<1> SUFFICES ASSUME IInv, [Next]_vars
             PROVE  IInv'
  OBVIOUS
<1>1. CASE \E r \in Revs : Load(r) \/ Update(r)
  BY <1>1, LoadInv, UpdateStep
<1>2. CASE Exited \/ ShutdownCommand
  BY <1>2, ExitedStep
<1>3. CASE pv_volumes_mount
  BY <1>3, MountStep
<1>4. CASE \E p \in Plats : pv_platforms_start_platform(p)
  BY <1>4, StartStep
<1>5. CASE StartLoggers
  BY <1>5, StartLoggersStep
<1>6. CASE Stop
  BY <1>6, StopStep
<1>7. CASE Check
  BY <1>7, CheckStep
<1>8. CASE pv_platforms_force_kill
  BY <1>8, KillStep
<1>9. CASE Killed \/ pv_do_shutdown
  BY <1>9, DownInv DEF Killed, pv_do_shutdown
<1>10. CASE UnmountFailed
  BY <1>10, UnmountFailedStep
<1>11. CASE Transition
  BY <1>11, TransitionStep
<1>12. CASE \E p \in Plats : Exit(p)
  BY <1>12, ExitStep
<1>13. CASE UNCHANGED vars
  BY <1>13, StutterStep
<1> QED
  BY <1>1, <1>2, <1>3, <1>4, <1>5, <1>6, <1>7, <1>8, <1>9, <1>10, <1>11, <1>12, <1>13
     DEF Next, Loop

(***************************************************************************)
(* The inductive invariant holds, over boots, updates in place and what    *)
(* ends meanwhile (platforms.c, volumes.c, state.c).                       *)
(***************************************************************************)
THEOREM Invariance == Spec => []IInv
<1>1. Init => IInv
  BY InitInv
<1>2. IInv /\ [Next]_vars => IInv'
  BY NextInv
<1> QED BY <1>1, <1>2, PTL DEF Spec

(***************************************************************************)
(* The variables keep their types: no volume is unmounted that is not      *)
(* mounted, and no round of pv_platforms_stop is after the last.           *)
(***************************************************************************)
THEOREM TypeCorrect == Spec => []TypeOK
<1>1. IInv => TypeOK
  BY DEF IInv
<1> QED BY <1>1, Invariance, PTL

(***************************************************************************)
(* After any number of updates in place what waits is the revision's       *)
(* platforms on its runlevels, and no file of an older one (state.c).      *)
(***************************************************************************)
THEOREM NoOldFile == Spec => []RunsNoOldFile
<1>1. IInv => RunsNoOldFile
  BY DEF IInv, RunInv, RunsNoOldFile
<1> QED BY <1>1, Invariance, PTL

(***************************************************************************)
(* No volume is mounted twice, and none is taken from under a platform     *)
(* that runs (volumes.c).                                                  *)
(***************************************************************************)
THEOREM OnVolumes == Spec => []RunsOnVolumes
<1>1. IInv => RunsOnVolumes
  BY DEF IInv, MountInv, RunsOnVolumes
<1> QED BY <1>1, Invariance, PTL

(***************************************************************************)
(* Loggers never run twice for a platform, nor for none (platforms.c).     *)
(***************************************************************************)
THEOREM LoggerCorrect == Spec => []OneLogger
<1>1. IInv => OneLogger
  BY DEF IInv, LoggersInv, OneLogger
<1> QED BY <1>1, Invariance, PTL

(***************************************************************************)
(* The count of pv_platforms_stop is enough: though it compares numbers    *)
(* only, all that was stopped has ended (platforms.c).                     *)
(***************************************************************************)
THEOREM StoppedCorrect == Spec => []StoppedBeforeReplaced
<1>1. IInv => StoppedBeforeReplaced
  BY DEF IInv
<1> QED BY <1>1, Invariance, PTL

\* Only two actions set a status of a platform that is not a removal.
LEMMA StatusSteps ==
  ASSUME IInv, [Next]_vars, NEW p \in plats, status'[p] # status[p], status'[p] # "INSTALLED"
  PROVE  \/ pv_platforms_start_platform(p)
         \/ Stop /\ p \in ToStop /\ status'[p] = "STOPPED"
<1>1. p \in Plats /\ status \in [Plats -> {"INSTALLED", "STARTED", "STOPPED"}]
  BY DEF IInv, TypeOK
<1>2. CASE \E q \in Plats : pv_platforms_start_platform(q)
  BY <1>1, <1>2 DEF pv_platforms_start_platform
<1>3. CASE Stop
  BY <1>1, <1>3 DEF Stop
<1>4. CASE Killed \/ pv_do_shutdown
  BY <1>1, <1>4 DEF Killed, pv_do_shutdown, Down
<1>5. CASE Transition
  BY <1>1, <1>5 DEF Transition, pv_state_transfer
<1>6. CASE status' = status
  BY <1>6
<1>7. \/ \E q \in Plats : pv_platforms_start_platform(q)
      \/ Stop \/ Killed \/ pv_do_shutdown \/ Transition \/ status' = status
  BY DEF Next, Loop, vars, stateVars, Load, Update, ShutdownCommand, Exited, pv_volumes_mount,
         StartLoggers, Check, pv_platforms_force_kill, UnmountFailed, Exit
<1> QED BY <1>2, <1>3, <1>4, <1>5, <1>6, <1>7

(***************************************************************************)
(* No platform starts before a more basic one, be it at boot or when an    *)
(* update in place starts only a part of them (platforms.c).               *)
(***************************************************************************)
THEOREM OrderCorrect == Spec => StartOrder
<1>1. ASSUME IInv, [Next]_vars, NEW p \in plats, NEW q \in plats,
             status[p] # "STARTED", status'[p] = "STARTED",
             RUNLEVEL_DATA < runlevel(q), runlevel(q) < runlevel(p)
      PROVE  status[q] = "STARTED"
  <2>1. pc = "START" /\ NextToStart(p)
    BY <1>1, StatusSteps DEF pv_platforms_start_platform
  <2>2. runlevel(p) \in Int /\ runlevel(q) \in Int /\ lvl \in Int
    BY <1>1, LevelType DEF IInv, TypeOK, Volumes, Runlevels, RUNLEVEL_DATA, RUNLEVEL_APP
  <2>3. CASE runlevel(q) < lvl
    BY <1>1, <2>1, <2>3 DEF IInv, StartedInv
  <2>4. CASE runlevel(q) >= lvl
    BY <1>1, <2>1, <2>2, <2>4 DEF NextToStart, ToStart, RUNLEVEL_DATA
  <2> QED BY <2>2, <2>3, <2>4
<1>2. IInv /\ [Next]_vars =>
        [\A p \in plats, q \in plats :
           /\ status[p] # "STARTED" /\ status'[p] = "STARTED"
           /\ RUNLEVEL_DATA < runlevel(q) /\ runlevel(q) < runlevel(p)
           => status[q] = "STARTED"]_vars
  BY <1>1
<1> QED BY <1>2, Invariance, PTL DEF Spec, StartOrder

(***************************************************************************)
(* An update in place stops nothing that the new revision leaves as it is  *)
(* (state.c, platforms.c).                                                 *)
(***************************************************************************)
THEOREM KeptCorrect == Spec => UnchangedIsKept
<1>1. ASSUME IInv, [Next]_vars, NEW p \in plats,
             goal = "TRANSITION", status[p] = "STARTED", status'[p] = "STOPPED"
      PROVE  \/ p \notin PlatsOf[pend]
             \/ \E f \in Files : Owner[f] = p /\ Content[pend][f] # Current(f)
  <2>1. Stop /\ p \in ToStop
    <3>1. p \in Plats
      BY <1>1 DEF IInv, TypeOK
    <3> QED BY <1>1, <3>1, StatusSteps DEF pv_platforms_start_platform, IInv, TypeOK
  <2>2. lvl = RUNLEVEL_APP /\ updated = Updated(pend)
    BY <1>1, <2>1 DEF Stop, IInv, ChangingInv, Changing
  <2>3. runlevel(p) \in Runlevels
    BY <1>1, LevelType DEF IInv, TypeOK, Volumes
  <2>4. p \in Updated(pend)
    BY <2>1, <2>2, <2>3 DEF ToStop, InScope, Runlevels, RUNLEVEL_DATA, RUNLEVEL_APP
  <2> QED BY <2>4 DEF Updated, DeletedPlats, Changed, Gone
<1>2. IInv /\ [Next]_vars =>
        [\A p \in plats :
           goal = "TRANSITION" /\ status[p] = "STARTED" /\ status'[p] = "STOPPED" =>
             \/ p \notin PlatsOf[pend]
             \/ \E f \in Files : Owner[f] = p /\ Content[pend][f] # Current(f)]_vars
  BY <1>1
<1> QED BY <1>2, Invariance, PTL DEF Spec, UnchangedIsKept
==============================================================================

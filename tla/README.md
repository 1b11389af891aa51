# A formal model of pantavisor

Pantavisor is the init system of an embedded Linux device. It runs a *revision*
(a board support package and a set of containers, described by a state json),
takes new revisions from a cloud service or from a local control socket, tries
them, and goes back to the last good one when they fail. Whether a device in the
field survives a bad update depends on a few bytes shared with the boot loader
and on the order in which they are written. This project models that machinery
in TLA+, checks it with TLC and proves its central promises with TLAPS.

## The system and its parts

| part | source | state | operations | interacts with |
|---|---|---|---|---|
| main loop | `pantavisor.c` | the state of `pv_start`'s loop, `pv->state`, `pv->update`, `pv->cmd`, three timers | `_pv_init`, `_pv_run`, `_pv_wait`, `_pv_command`, `_pv_update`, `_pv_rollback`, `_pv_reboot`, `_pv_poweroff`, `_pv_error`, `_pv_factory_upload` | calls everything below |
| updater | `updater.c` | the update: status, pending state, retries, local flag | take a step, download, install, resume, test, finish, report | cloud, storage, boot loader |
| boot loader control | `bootloader.c` | `pv_rev`, `pv_try`, `pv_done` in memory | installed, committed, failed | environment |
| boot environment | `uboot.c`, `grub.c` | the persistent keys `pv_rev`, `pv_try`, `pv_trying` | get, set, unset, flush | boot loader script (external) |
| storage | `storage.c`, `objects.c` | trails (one directory per revision), progress files, object pool with hard links from the trails | create, link, expand, validate, remove, collect garbage, make factory | file system, updater, control socket |
| control socket | `ctrl.c` | one request at a time | commands, uploads of steps and objects, metadata | main loop, storage |
| state | `state.c` | the platforms, volumes, objects and jsons of a revision | compare, transfer, validate | updater, platforms |
| platforms, volumes | `platforms.c`, `volumes.c`, `plugins/pv_lxc.c` | status of each container, mounts | start, stop, kill, check | liblxc |
| cloud client | `pantahub.c`, `trestclient.c`, `config.c` | credentials in memory and in two files, three clients that outlive them | register, claim, authenticate, upload the factory revision | cloud, a user who claims the device |
| metadata | `metadata.c` | user metadata with its files and settings, device metadata with flags of what was uploaded, factory metadata with its mark | parse, save, load, put together, upload | cloud, control socket, containers |
| signatures, parser | `signature.c`, `parser/` | flags of the pairs of a state (included, covered) | verify, parse | updater, main loop |
| init | `init.c` | the child's pid | run the init steps, reboot when the child ends | main loop |
| loggers | `log.c`, `pvlogger.c`, `ph_logger/` | log files, and in attributes of them how far each reader has come | cut into lines, hand on, post, go on after a restart | containers, log socket, cloud |

Pantavisor is one sequential process; what makes it hard is not threads but

* **power losses and reboots** between any two writes to storage, several of
  which belong together (a commit is three writes to the environment and one to
  the trail);
* **an environment shared with the boot loader**, with keys matched by prefix,
  in one or two stores, and writes that can fail, reported or not;
* **memory that runs ahead of storage**: `pv_rev`, `pv_try` and `pv_done` change
  in memory before the write is known to have succeeded;
* **commands, steps, timers, connection losses and exits of containers that
  arrive in any phase of an update**;
* **the garbage collector**, which runs in every phase and decides from memory;
* **two ways to run an update**, with a reboot and in place, which share the code
  that reports and finishes them;
* **files of one revision that are files of another** (hard links into a pool),
  written in several steps and reclaimed by counting links;
* **flags and positions that say what the cloud already has**, cleared or stored
  before or after a request whose answer may be lost;
* **processes beside the main loop** (log service, senders, loggers) that are
  stopped at any point and have only files in common;
* **clients of the cloud that are kept** while the credentials they were made
  from change.

What makes it correct: the rollback point only moves to a revision that was
booted and ran; it stays on disk; nothing touches a trial under way; a report
says what the environment says; and every trial comes to an end. Around that:
what is installed is complete and stays so; what is marked as sent was sent; a
device is claimed by its owner with complete credentials and never by halves;
and the signatures cover what they say. The hazards are listed, each at its line,
in `PROJECT.json`.

## Modules

| module | what it is |
|---|---|
| `BootEnv` | the three keys, the operations of `bl_ops` on them (with prefix matching and write faults), and the boot loader script, which is not in the repository and is modelled from how `bootloader.c` reads its choices |
| `SafeUpdate` | the abstract specification: what an update system promises about the revision to fall back to |
| `Pantavisor` | main loop, updater, boot loader control and revision storage; extends `BootEnv`, instantiates `SafeUpdate` |
| `MCPantavisor` | instance for TLC |
| `PantavisorProofs` | theorems about `Pantavisor`: the rollback point in the environment, the refinement, the trial that is set and the rollback point on disk; and about the stores of `EnvStore` behind the environment |
| `Platforms` | what runs: platforms, volumes and loggers from boot to shutdown, comparison of two states and update in place (`state.c`, `platforms.c`, `volumes.c`) |
| `MCPlatforms` | instance for TLC: nine revisions of a device with three platforms |
| `PlatformsProofs` | theorems about `Platforms` |
| `EnvStore` | how the keys of `BootEnv` are stored: lists of entries in files or in an erased sector, written in steps; instantiates `BootEnv`, whose operators it implements (checked and proved) |
| `Objects` | the files of a revision: object pool, hard links, jsons, from upload or download to validation and collection |
| `ObjectsProofs` | theorems about `Objects` |
| `Claim` | registration, claim, authentication and the first upload of the factory revision |
| `ClaimProofs` | theorems about `Claim` |
| `Metadata` | user, device and factory metadata |
| `MetadataProofs` | theorems about `Metadata` |
| `Signature` | which pairs of a state the signatures cover and when a state is accepted |
| `SignatureProofs` | theorems about `Signature` |
| `CloudLogger` | log files, the service that pushes those of the running revision and the one that pushes the older ones |
| `CloudLoggerProofs` | theorems about `CloudLogger` |
| `PvLogger` | the logger of a container, which cuts a log file into lines |
| `PvLoggerProofs` | theorems about `PvLogger` |
| `MCEnvStore`, `MCObjects`, `MCClaim`, `MCMetadata`, `MCSignature`, `MCCloudLogger`, `MCPvLogger` | instances for TLC |

`Pantavisor` is the hub: it knows of the other parts only outcomes. A trail is
complete or not (`Objects` is the inside), an environment key is written or not
(`EnvStore`), a start succeeds or not (`Platforms`), a state is valid or not
(`Signature`), the cloud is there or not and the device owned or not (`Claim`),
factory metadata was uploaded or not (`Metadata`). Each of these modules in turn
keeps of an update only what it needs: `Objects`, for example, has the three keys
of the environment and the steps of an update with a reboot, because the
collector and the validation depend on them.

### How `Pantavisor` corresponds to the code

`env`, `trail`, `progress` and `unclaimed` are what survives a power loss; `st`,
`bl`, `running`, `update`, `cmd` and the timers are memory. `st` is the
`pv_state_t` of the loop, extended with the points inside a state function at
which storage has been written and will be written again:

| `st` | where the code is |
|---|---|
| `CTRL` | `_pv_wait` after the network part: collector threshold and control socket |
| `INSTALL`, `INSTALL_ENV`, `INSTALLED` | `_pv_update` after the download, before and after the write of `pv_try` |
| `COMMIT_TRY`, `COMMIT_FLUSH`, `COMMITTED` | `pv_bootloader_set_commited` after each of its writes |
| `FINISH_FAILED`, `UPDATE_FAILED` | `pv_update_finish` after `pv_bootloader_set_failed`, called from `_pv_wait` or `_pv_update` |
| `MAKE_FACTORY` | `pv_storage_update_factory` after the old revision 0 is removed |

A power loss is enabled everywhere; apart from it and the timers no other action
can fall between those points, because the code is sequential. A trail is
`"none"`, `"part"` (the directory exists but the revision is not completely
installed; loading or running it may fail) or `"full"`. A revision in `Broken`
may fail to load, to start or to stay up, whenever it likes. What the cloud
answers, how much space is free and whether a file operation fails (`IoFaults`)
are nondeterministic. `progress` keeps the kind of the stored report: all reports
between acceptance and outcome read `"ONGOING"`.

Three abstractions are worth knowing. The commit delay is taken to be positive,
as in the default configuration, so that testing always lasts past one pass of
the loop. A revision's json and its objects are one thing (`trail`); the upload of
a step creates a trail that is `"part"`, and an install completes it. And the
commands that only concern metadata are left out.

The boot loader script tries `pv_try` once, noting it in `pv_trying`, and boots
`pv_rev` otherwise, or revision 0 if there is none. Whether it removes its note
when it goes back is left open, since scripts differ.

### How `Platforms` corresponds to the code

`Pantavisor` only knows whether a start, an update in place or a stop succeeds.
`Platforms` is the inside of those steps. `rev`, `base`, `plats`, `from`,
`status`, `updated` and `dest` are `pv->state`: after updates in place it mixes
entries of several revisions, and `from` says which revision an entry comes from,
with its runlevel, its files and its volumes; `base` does so for the bsp and for
global files. `proc`, `mnt` and `loggers` are the system: what `kill(init_pid, 0)`
and the mount table would say. `pc` is where the code is:

| `pc` | where the code is |
|---|---|
| `OFF` | before `_pv_run` after a reboot |
| `MOUNT`, `START` | `_pv_run`, before `pv_volumes_mount` and in `pv_platforms_start` |
| `WAIT` | `_pv_wait` |
| `STOP`, `CHECK`, `KILL` | `pv_platforms_stop`: before it tells platforms to stop, in its rounds, before `pv_platforms_force_kill` |
| `UNMOUNT` | after `pv_platforms_stop`, in `_pv_update` or `pv_do_shutdown` |
| `KILLED` | pantavisor has killed its own process group; init will reboot |

Containers end at any time (`Exit`), which is the only thing that interleaves
with the loop; a container that was told to stop may never do so. Starting is one
action per platform, because a container can end while the next one starts;
mounting and unmounting are one action each that may stop anywhere in the order
of runlevels. The objects and jsons of a state, which `state.c` handles in twin
loops, are its files; the owner of a file is its directory's platform
(`system1_link_object_json_platforms`). Every platform of a
revision has a file, as it is made from its `run.json` (`PlatformsAssumption`). A killed container counts as ended at
once; an unmount that finds it still busy fails, which is always possible.

### How `EnvStore` corresponds to the code

`main` is the store that `bootloader.c` writes: `uboot.txt`, `grubenv` or, with
`bl.mtd_only`, the partition; `flag` is the partition the boot loader keeps
`pv_trying` in. Both are lists of entries, so that it counts which entry is found
first and which one a key hits. A function of `bootloader.c` is a list of `calls`
of `bl_ops`; each call is a step, on the partition two (`EraseSector`,
`WriteSector`), and the power may go between any two. `AtomicOrErased` compares
every step with the operators of `BootEnv`, and so justifies that `Pantavisor`
treats a write as one step, except for the erased sector. `EnvKind` is a variable
that never changes, so that one run covers all three kinds; the operators of
`BootEnv` are those of the kind at hand. The entries fit in one
sector of a disk, which is why a file is old or new after a power loss. That the
loader rewrites its store in one step is an assumption about code that is not here.

### How `Objects` corresponds to the code

`pool` is `objects/`, `obj`, `js` and `state` are what lies in a trail, and `links`
says which trails hold a link to the very file that is in the pool now: a file
that was replaced in the pool lives on in the trails that linked the old one. What
a file holds is right, wrong or torn. Downloads and uploads put a temporary file
together and rename it; the install links (or, for bind volumes, copies) object by
object, writes the state json, expands jsons one by one and sets `pv_try`. The
collector removes objects with one link, unless they belong to the pending
revision or are `loading`. `Valid(r)` is what `pv_state_validate_checksum` checks
at the start of a revision. An install can fail at each of its writes: a link that
cannot be made (`LinkFails`) sets the status of the update, the others
(`InstallFails`) do not, and all of them come to the same way out of
`pv_update_install`, which removes the trail of the pending revision
(`RemoveFailed`, `FinishFailed`), also when that is a local revision that runs and
is run again. Writes whose result the code does not look at may fall short on full
storage and the install goes on: the state json, a copied bind volume, an expanded
json, a step that is PUT. `Together` says which kinds of fault may occur in one
run, `Repeats` which of them any number of times; the theorems hold for any of
both. Collection and the removal of a trail are one step
each, files are written synchronously (the code opens them with `O_SYNC` or calls
`sync`), and free space is left open because the containers share it.

### How `Claim` corresponds to the code

`pc` is where the loop is: in `pv_wait_unclaimed` (`exists`, `register`, `save`,
`owned` and so on), in the factory upload, in the check of the clients, in the
upload of objects. `file` are the two credentials files, `creds` and `unclaimed`
are memory, and `client`, `endpoint` and `remote` say for which device the kept
clients of `pantahub.c` and `updater.c` were made. Identifier, prn and secret of
the registered device `d` are all written as `d`, so that credentials of two
devices, or incomplete ones, can be told apart. `cloud`, `stored` and `trails` are
the cloud; a user who has read the challenge of a device (`shown`) claims it. The
device runs its factory revision and no update is going on. `setup` never changes;
it is how the device is set up and what may go wrong around it: with `External`
credentials it does not register itself, `AutoTok` and `HasMeta` are an automatic
owner and factory metadata, `Flaky` lets the connection change between the
requests of one `pv_wait_unclaimed`, and `CutWrites` is full storage, on which a
file ends early. An empty credentials file is an endless loop of
`load_key_value_file` (`hung`).

### How `Metadata` corresponds to the code

`usermeta`, `seen` and `conf` are the list of user metadata, its `updated` flags
and the settings it overrides; `file`, `stored` and `platfile` are the files the
containers read, what of them a power loss spares, and the ones of a single
platform, which are not on storage. `devlist`, `devmeta`, `changed` and
`uploaded` are device metadata with the flags of `metadata.c`, `todo` and
`doneMark` the factory metadata. The cloud answers, fails, or takes a request and
its answer is lost. Of a device metadata value the length of its fragment counts,
because the upload puts fragments into a buffer of fixed size, in the order of the
list as long as they fit (`Payload`); new keys enter the list in any order. A save of
user metadata may fail or be cut short; nobody learns of it, and as a pair is only
saved when its value changes, the key stays in `unsaved` until another value, a
removal or a restart. `overwritten` are the settings that the credentials file has
replaced: an unclaimed device reads it in every round (`pv_config_load_creds`). In
local mode (`remote` is false) the cloud is not asked.

### How `Signature` corresponds to the code

One state is verified from its first pair to the verdict; `included` and `covered`
are the flags that all signatures of a state share. The hashes are right if the
bytes verified are the bytes signed. Headers that do not parse lead to a
rejection or to a crash, where the code goes on with what it could not parse.

### How `CloudLogger` and `PvLogger` correspond to the code

A byte of a log is known by its position, and in `CloudLogger`, where files are
emptied and moved away, by how often that happened (`gen`). `pos` is the attribute
of a file, `sent` is what the cloud has. The push service and the range service
run the same code on different revisions, with `job` for the buffer they have read;
they are stopped and started by the main loop, fail in a request, or end between
any two steps. A message of the log service is a line and an end of line, or two
ends: a message that brings one of its own, as those of the loggers do, makes an
empty line, whose position is stored at once. Compression on rotation is a program
of the system that takes the file away. Messages that wait in the socket while the
log service is down, and failures of allocations, are left out.

`PvLogger` is one logger: `pos` is where the library that reads the file is, `buf`
how far `pvlogger_flush` has come in the piece it was given, `cmd` the line being
put together. One round of the loop is a step. `xattr` survives the logger;
`Stop` is what `Platforms` calls stopping the loggers. `InitAgain` is the loop of
`start_pvlogger` after an error of the library: it sets the reader back to the stored
position, or to the head of a log that has become shorter (`Cut`), and keeps what
is in the line buffer (`kept`), which the next line then joins. A `pvctl_write` may fail
(`WriteFails`), and so may the write of the attribute; nobody learns of either. What the
last two take from the log is collected in `lost`, with lines that are joined.
Carriage returns are left out.

## Runs

One run per question; a run holds all safety and liveness properties that its
instance can answer, so that each instance mixes the faults and sizes that matter.

| run | instance | shows |
|---|---|---|
| `remote` | grub, revisions 0, 1 (cloud), locals/a; all commands; reported write errors; failing files; 0 and 1 may break | types; an installed revision is what the boot loader picks; what the device was booted into; refinement of `SafeUpdate`; `DONE` means rollback point; the rollback point stays on disk |
| `live` | trying flag in a second store, two cloud revisions of which one breaks, collector may take revision 0 | what is staged is resolved |
| `retried` | one cloud revision | **violated**: a revision reported as failed is not tried |
| `platforms` | nine revisions that differ in an app's files, a platform, a runlevel, the root platform or the bsp | no platform runs with files of an older revision; running platforms have their volumes, mounted once; one set of loggers; what is stopped for an update has ended before it is replaced; start order; unchanged apps are left alone; stopping ends |
| `newfile` | two revisions, one without a file of the app | **violated**: what runs has all files of the revision |
| `env` | the three kinds of environment; failed and lost writes, power losses | lists of entries implement the keys of `BootEnv`; the rollback point is only replaced by a commit, or lost with an erased sector |
| `objects` | three revisions of the factory or the cloud and a local one, shared and bind objects; two of: power losses, failed downloads, lost reports; or full storage, objects or steps that are PUT again, as often as they like | the running and the fallback revision would pass their next validation, but for one that is installed or PUT over itself; an installed revision is complete, unless the storage was full; the cloud's idea of a step agrees with the environment; every step is dealt with |
| `claim` | a device that registers itself, one with external credentials and a flaky connection, one with full storage | a base trail in the cloud has its objects, `DONE` is only said of one that arrived; a claimed device has complete credentials and an owner; every client belongs to the current credentials; a stored registration is never replaced; the device becomes the one the user claimed; its factory revision reaches the cloud |
| `metadata` | remote and local mode, edits on the device and in the cloud, saves and uploads that fail or whose answer is lost, credentials that overwrite settings, power losses that tear files, factory metadata | files and settings follow the list, but for failed saves and overwritten settings; what is marked as uploaded is in the cloud; the device ends up with the cloud's user metadata, the cloud with the device's metadata |
| `signature` | two files, up to two signatures, all forms of filters, changed files, unknown algorithms, malformed headers | the verdict is the one its definition gives |
| `logger` | two revisions, two files (one named by the skip list), empty lines, lines shorter and longer than the buffer, truncation and rotation, two faults | the services never work on the same revision; nothing in front of a stored position is missing in the cloud, the range service leaves no complete line behind and every complete line reaches the cloud, but for lines that an empty line overtakes or that wait behind one |
| `pvlogger` | a log with line breaks anywhere; two of: stops, restarts in the library, cuts of the log, failed writes of a line or of the position | a piece of one line is handed on without a hole, and lines are joined at most once for each time the reader is moved in the middle of one; what lies in front of the stored position was handed on, but for heads of lines and lines whose write failed or that were joined; whatever is written is taken and its position stored |

The type invariant of `Pantavisor` is checked in `remote`. Those of `Platforms`, `Objects`,
`Claim`, `Signature`, `CloudLogger` and `PvLogger` are proved and not run; those of the other
modules say what their variables range over and are neither.

Bounds of `Pantavisor`. Three revisions are the rollback point, the one on trial and one more
that interferes; a fourth would play the role of one of them. One download retry
gives a first try, a retry and the limit. No other bound is needed: all
histories of boots, commands and power losses are covered, since the state space
is finite. Deadlock is checked. `live` leaves out the local commands, which
`remote` has: with them the liveness check takes too long.

Bounds of `Platforms`. Two apps are one that an update stops and one that it keeps;
the third platform is below them. The revisions cover each outcome of the comparison
(file changed, added, deleted; platform added, deleted; runlevel changed; root
or bsp changed) from each other one. `Rounds` is 2 instead of 5, as only the first, a
later and the last round matter. A cloud, a boot environment or a power loss would
add nothing: a reboot may load any revision.

Bounds of the other modules. `EnvStore`: three revisions, so that the rollback
point, the one on trial and a third one differ; nothing else is bounded.
`Objects`: four revisions that share some of three objects, at most two jsons, so
that a loop is cut at its first element and behind its last; `faults` is the set
of kinds of fault that have occurred. Power losses, failed downloads and lost reports
come once each and two in a run, one that leaves something behind and one that meets
it; full storage and what is PUT again come by themselves, as often as they like.
(All pairs of kinds, repeated, are some 14 million states without a violation of the
invariants, too many for a run that also checks liveness.) The lost reports that `Overwritten`
names do not lead to it in the run, where one report is lost: the cloud's step must come
once more after all of them were. `Claim`: as many devices
can be registered as faults can make pantavisor forget, and at least one more; two
objects; three faults. `Metadata`: a setting and a key of a platform, two keys of
device metadata; two changes and two faults, so that a change, an upload that fails
and a second one interleave. `Signature`: two signatures are one that sets the
shared flags and one that finds them. `CloudLogger`: a buffer of three bytes, so
that lines are shorter, as long and longer; `MaxLen` bounds each file by itself, and
two faults; two revisions are one per service. `PvLogger`: a buffer of two bytes and a
log of five with every way to break it into lines; two faults, so that one can leave
half a line behind and the other meet it. `claim`, `metadata` and `pvlogger` do
not check for deadlock, because their systems may come to rest: a hung process, a
device in local mode that nobody edits any more, a log that is written to its end.

Fairness. `LiveSpec` of `Pantavisor` assumes that a device that is off is switched on,
that the loop goes on (it is one process that is restarted by init when it ends),
that the commit timer, which reads a monotonic clock, runs out, and that power losses
end at some time. `LiveRemoteSpec` adds that the cloud does not stay out of reach:
without it `pv_wait_network` never gets to finish an update, which is how the
code is written. `StagedIsResolved` is conditional on a rollback point that works.
`LiveSpec` of `Platforms` only assumes that the loop goes on; containers need not
end. The same holds for `Objects`, `CloudLogger` (weak fairness of each service,
which is a process of its own that the main loop restarts) and `PvLogger`. `Objects`
adds strong fairness of `TakeStep`: the loop asks for new steps again and again, and
between two of its turns clients may put and run local revisions.
`Metadata` assumes weak fairness of the calls the loop makes in every round. `Claim`
assumes that the loop goes on, that a user who has read the challenge claims the
device, and strong fairness of `Reconnect`, because a connection that comes back
only between two looks at it helps nobody. Faults are bounded in all liveness
runs, which means that they stop at some time.

### What the violated runs show

1. `retried`. An update that runs in place has `pv_try` set and not tried. When it
   fails, `_pv_rollback` reports it and reboots, but does not unset `pv_try`, so
   the boot loader starts the failed revision next.
2. `newfile`. `pv_state_compare_states` marks a platform as updated if a file of it
   changed or went, not if one came. The update then runs in place and the app
   goes on without the new file. `RunsNoOldFile` is what is left of the promise.

### Where the code keeps less than it should

The models do as the code does, so some promises one would like to state are false
in them. Where a property comes near such a promise, it names the case as an
exception; the others have no property.

* A failed update is reported against the revision that was booted instead
  (`pantavisor.c:207`): `pv_update_resume` creates the update from `pv_try` in status
  FAILED, and `_pv_run` gives it the booted state as pending.
* `uboot.c` ignores the result of `write()`. With `"lost"` in `EnvFaults`,
  `DONE` can be stored for a revision the environment does not know
  (`NoLostWrites` in the proofs); and the partition is erased before it is written
  (exception in `AtomicOrErased` and `CommittedIsKept`).
* A device that never committed has no `pv_rev`, and `pv_done` is then the revision
  under trial, so that the collector takes revision 0; a failed install removes the
  trail of its revision even if that is the rollback point; make-factory removes
  revision 0 first (exceptions in `RollbackPointKept`).
* The `init_pid` of a platform that was never started is 0, and
  `kill(0, SIGKILL)` is for pantavisor's own process group (`KILLED` in `Platforms`).
  The number of platforms told to stop now is compared with that of all that
  have ended, some of which an update in place had stopped before: the shutdown
  then does not wait for the rest.
* `pv_storage_meta_expand_jsons` stops at the first json that exists, which for a
  local revision may be a torn one; a bind volume is a copy, so the collector takes
  its object; a put of what exists may remove it, because `errno` is read too late
  (exceptions in `InstalledIsComplete` and `StaysBootable`).
* `pv_update_install` looks at the result neither of the write of the state json nor of
  that of each json, so on full storage a torn revision is installed and tried; and when
  it notices a failure it removes the trail of the pending revision, even if that is
  the one that runs (`faults` of kind `"disk"` in both properties, and `Overwritten`).
* A user metadata file that could not be saved stays wrong, since an equal value is not
  saved again; and an unclaimed device overwrites settings given in user metadata when
  it reads its credentials (`unsaved` in `FilesShowUserMeta` and `CloudReachesDevice`,
  `overwritten` in `OverrideInForce`).
* "There is no such device" and "no answer" are the same to `pv_ph_device_exists`
  (`KeepsRegistration` and `ShownIsClaimed` are about a steady connection); an object
  of the factory revision that was written to ends the upload in every round
  (`Changed`, which the run leaves empty); the writes of the credentials are not
  checked before the file replaces the good one (`CutWrites` in `ClaimedIsOwned`
  and `OneDevice`).
* A pair of device metadata that does not fit the buffer is left out and its flag
  cleared with the others; the run has a buffer that holds all pairs.
* The position is stored for an empty line before the lines in front of it in the same
  buffer were sent, and a buffer in which nothing but empty lines was found ends the
  file for this round; the repository's own loggers write empty lines (`Overtaken` and
  `WaitsBehindEmptyLine` in the properties of `CloudLogger`). A truncated file is only recognised while
  it is shorter than the position (`gen[f] = 0` in `SavedMeansSent`); an end of line
  left behind by a line that fills the buffer looks like the end of the revision
  (`LinesFit`).
* In `PvLogger`, a byte is passed over though it is no line break, when there is one
  further on and the buffer is full (`LinesFit` in `SavedIsForwarded`). The position is
  stored though lines could not be handed on, and a logger that starts again
  somewhere else joins half a line with another (`lost` there, `moves` in
  `LinesNotMixed`); a log that is emptied is read on from the old position once it has
  grown past it (`cut`).

## Proofs

`PantavisorProofs` proves, for every value of the constants:

* `TypeCorrect`: `Spec => []TypeOK`;
* `BootedCorrect`: `[]BootedIsRollbackPoint`;
* `Implements`: `Spec => Refinement`;
* `DoneCorrect`: `DoneIsRollbackPoint`.

The last three assume `NoLostWrites` (no write is lost unnoticed), which is
needed, since `uboot.c` ignores what `write()` returns, and the named assumptions on the constants. They
rest on `Invariance`, the inductive invariant `IInv`. `BootedIsRollbackPoint` is
not inductive: that a commit moves the rollback point to the revision that was
*booted* needs that `running`, `bl.pv_rev` and `env["pv_try"]` agree from the
moment the trial is resumed (`TrialInv`), which in turn needs what the boot left
in `bl` until `_pv_run` looks at it (`BootInv`) and which updates can exist in
which state of the loop (`LoopInv`, `DownloadInv`); an update that runs in place
is the one whose pending revision is in `pv_try` (`TransitionInv`); and a command
waits only while no trial can be disturbed by it (`CmdInv`). The refinement is
then a case distinction over the actions, most of which are stutters.

With the same invariant, for what is tried and what is kept:

* `InstalledCorrect`: `[]InstalledIsTried`, also if no write is lost unnoticed and
  the environment is not `uboot.txt` with a trying flag in a store of its own, where an
  older note survives. `StagedInv` follows `pv_try` from the write to the reboot;
* `RollbackPointCorrect`: `RollbackPointKept`, if no write is lost unnoticed. What a
  commit moves the rollback point to is the trail that was booted, which nothing
  removes or rewrites meanwhile: `KeptInv` says which trails are complete in which
  state of the loop, and `TakenBy` which revision each kind of removal takes.

All of this takes the environment for three keys. The last part of the module
proves it of the stores, as an instance of `EnvStore`, for lists of entries of any
length, any number of revisions and all three kinds of store, failed and lost
writes and power losses included:

* `StoreTypeCorrect`: `Store!Spec => []Store!TypeOK`, which contains that the stores stay
  small: no list ever has two entries for a key (`Unique`, `SmallInv`);
* `StoreImplements`: `Store!Spec => Store!AtomicOrErased`, every step is one
  operation of `BootEnv` on the keys, or the loss of an erased sector. `GetWithout`
  says what is read from a list that was rewritten without the entries a key
  hits, by induction along the list; `ResultApplies`, that each call does to the keys
  what its operation does; and `StoreInv`, that a sector is erased only while a call
  is under way on a store that holds all keys, with memory having the new list;
* `CommittedCorrect`: `Store!Spec => Store!CommittedIsKept`, from the same step lemmas:
  of all calls only `set_env_key("pv_rev", ...)` changes what is read for `pv_rev`.

`PlatformsProofs` proves, for every number of platforms, files, volumes and
revisions: `TypeCorrect`, `NoOldFile`, `OnVolumes`, `LoggerCorrect`, `StoppedCorrect`,
`OrderCorrect` and `KeptCorrect`, one per safety property of the run. Their invariant
says that a platform has a process from its start to its removal (`StatusInv`), where
loggers and mounts stand at each `pc` (`LoggersInv`, `MountInv`), what the platforms in
memory have to do with the revision (`RunInv`), which of them have started (`StartedInv`),
and what an update in place may concern (`ChangingInv`): only platforms on the runlevel
of apps, and `updated` is exactly what the comparison says. From this it follows that
the comparison of two numbers in `pv_platforms_stop` is enough in an update in place,
which it is not at a shutdown.

`ObjectsProofs` proves, for any revisions, objects, jsons and kinds of fault, together
and repeated:

* `TypeCorrect`: `[]TypeOK`;
* `InstalledCorrect`: `[]InstalledIsComplete`. `TrialInv` ties `pv_try`, the running
  and the pending revision to the phase of the update. As long as no report is
  lost, a step the cloud has as not begun has no json on the device (`JsonsInv`),
  since the cloud's idea of a step never falls behind (`KnownInv`); so the install
  does not stop at a json of an earlier one, and `BuiltInv` follows what it puts
  together while the storage is not full;
* `BootableCorrect`: `[]StaysBootable`. Its invariant is about links: a trail has an
  object that is not bound only as a link to the file in the pool, unless that was
  replaced by an upload, and a file that has a link is not taken from the pool
  (`LinksInv`), so what is right in the trail is right in the pool. Every step leaves
  the revisions in use whole, or is one of the steps named in `Spoils`
  (`StorageNext`): a step that is PUT again, a state json that is cut short, an
  install that fails and removes its revision, which it does for want of space or of
  an object (`FailedInv`). The last two concern the pending revision; a revision
  of the cloud is pending and in use at once only after a lost report, by `KnownInv`;
* `CloudCorrect`: `[]CloudKnows`, from `KnownInv` and from `NewerInv`, that an update
  never goes back.

`SignatureProofs` proves, for states of any length, filters of any form and every
matching of patterns: `TypeCorrect`; `PayloadCorrect`, that what is verified for a
signature is what its own filters select, although the flags are shared; and
`VerdictCorrect`: `[]VerdictIsRight`. The invariant says what is included after each
pair (`IncludedInv`), what is covered by the signatures so far (`CoveredInv`), and
which of them have been verified (`VerifiedInv`).

`PvLoggerProofs` proves, for logs, pieces and buffers of any size and any number of
faults: `TypeCorrect`, which contains that the line buffer is not overrun, whatever a
restart leaves in it, and `LinesCorrect`: `[]LinesNotMixed`. The invariant says that the
buffer holds, behind what was kept, the bytes in front of the reader, all of one line
(`CmdInv`), that what was kept will join one line (`JoinInv`) and that a new process
starts with an empty buffer (`IdleInv`). `SavedCorrect` is `[]SavedIsForwarded`: if lines
fit and the log is not cut, what is handed on of a line reaches to its end, and no
line break is passed over, but for what is lost (`SentInv`), because a cut in front of
a break would need more bytes of one line than the buffer holds (`BreakFollows`).

`CloudLoggerProofs` proves, for every number of revisions and files, every size of
the buffer, every length of lines and every pattern of faults:

* `TypeCorrect`: `Spec => []TypeOK`. What a service has in its buffer always fits
  the file it came from, or the file was emptied since (`JobFits`, `RevFits`);
* `OneSenderCorrect`: `[]OneSender`. The revision a service works on is bounded by
  the running one on either side (`RevFits`);
* `SavedCorrect`: `[]SavedMeansSent`, empty lines included: what they overtake lies in
  front of one in the same buffer (`Overtaken`). `SavedMeansSent` is about files that were not emptied, since
  that may go unnoticed; others may be emptied as often as they like. It is not
  inductive: `SavedInv` adds what has been posted of the buffer at hand (`JobSent`),
  from which the position is then taken;
* `RangeCorrect`: `RangeLeavesNothing`. That a service finds nothing to
  send need not mean that nothing is left: it may have had part of a line in its
  buffer, or only ends of lines. `LineInv` says that where lines fit the buffer,
  positions and buffers begin at the start of a line, so that a full buffer always
  holds the end of one; `RangeInv`, that a buffer that is not full holds all the rest
  of its file, and that, as long as a round over the files of a revision has sent
  nothing, each file it has closed has no complete line left but what an empty line
  overtook or what waits behind one. What is left of a buffer in which only empty lines
  were found is told from the position that was stored (`RangePos`).

`MetadataProofs` proves, for any keys and values, any number of factory files and
any size of the buffer:

* `TypeCorrect`: `[](TypeOK /\ ListInv)`. The list of device metadata has one entry
  for each key that has a value, however new keys are put in (`ListInv`);
* `FilesCorrect` and `OverrideCorrect`: `[]FilesShowUserMeta` and `[]OverrideInForce`,
  which are inductive together, given the types and that nothing is in the list while
  pantavisor is off (`OffInv`): each edit of user metadata (`UserEdited`) leaves list,
  files and settings in step, whatever the pairs were before, but for keys whose save
  fails and settings that were overwritten;
* `UploadedCorrect`: `[]UploadedMeansInCloud`, if the pairs fit the buffer (`PairsFit`:
  that many pairs of the longest kind do). The code assumes so, "even the complete
  json would be small enough to fit inside this log_buffer" (`metadata.c`), and
  clears the flags of pairs it has left out otherwise. `FlagsInv` says that a pair is
  flagged or in the cloud, and `PayloadIsWhole`, by induction along the list, that
  the payload then has all flagged pairs;
* `FactoryMarkCorrect`: `[]FactoryMarkMeansSent`, with `PassInv`: a pass goes from the
  last file to the first, and what is behind it was sent.

The library's induction theorems take an operator as a parameter, which the
provers cannot instantiate. Where a list or a recursive function makes induction
necessary, `FromZero` takes its place: a set that holds 0 and with each number the
next holds all of them, which follows from the library's theorem that the natural
numbers are well-founded.

`ClaimProofs` proves, for every number of devices and objects:

* `TypeCorrect`: `[]TypeOK`, for every configuration, full storage included;
* `TrailCorrect`: `[]TrailIsComplete`, likewise. `TrailInv` ties the objects in the
  cloud to how far the upload has come (`Uploaded`), and the stored progress to
  the device the trail was posted for (`DoneFits`);
* `ClaimedCorrect` and `OneDeviceCorrect`: `[]ClaimedIsOwned` and `[]OneDevice`, if
  storage is never full; a file that ends early replaces the good one otherwise. `IdInv` follows one
  identity through the files (`Stored`), memory (`InMemory`) and the clients that
  are kept (`Clients`);
* `KeepsCorrect`: `KeepsRegistration`. On a steady connection `pv_ph_device_exists` is
  answered (`ExistsAnswered`), so that the device comes to register only where
  nothing was registered (`RegisterInv`).

Every safety and action property of the passing runs is proved. Model-checked only
is what has to happen in the end (`StagedIsResolved`, `StopEnds`, `AllLinesSent`,
`CloudReachesDevice`, `DevMetaReachesCloud`, `StepIsDealtWith`, `ShownIsClaimed`,
`SyncedInTheEnd`, `TakenInTheEnd`).
Liveness under fairness is out of the prover's reach and stays with TLC.

## Not modelled, and the plan

Theorems to come: that `Objects` implements the trails of `Pantavisor`, and the steps
of `Claim` what the loop sees of them, by refinement mappings of their own.

What could still be modelled: how the parser links objects to platforms (the
owner of a file is a constant of `Platforms`), the overriding of settings by the
configuration of a revision (`Metadata` has that by user metadata), and the layers of an upload on the control socket below a request.

Left out for good: parsing and formatting of jsons and configuration,
cryptography, HTTP, mounts, devices, the watchdog and liblxc: pure input and
output, or libraries without protocol state.

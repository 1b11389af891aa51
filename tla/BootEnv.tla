------------------------------- MODULE BootEnv -------------------------------
(***************************************************************************)
(* The boot environment: the three keys that pantavisor and the boot       *)
(* loader share, and the operations bootloader.c calls on them through     *)
(* bl_ops (uboot.c, grub.c).  A value is a revision, or NoRev for a key    *)
(* that is not there.                                                      *)
(*                                                                         *)
(*   pv_rev     the revision to go back to: the rollback point             *)
(*   pv_try     the revision to try at the next boot                       *)
(*   pv_trying  the boot loader's note that pv_try was already booted      *)
(*                                                                         *)
(* The backends differ in where pv_trying lives.  "uboot" keeps it in an   *)
(* MTD partition apart from uboot.txt; "mtd" (bl.mtd_only) and "grub" keep *)
(* the three keys in one store.                                            *)
(***************************************************************************)

CONSTANTS
  Revs,       \* names of the revisions
  NoRev,      \* an absent key, or no revision
  Factory,    \* revision "0"
  EnvKind,    \* "uboot", "mtd" or "grub"
  EnvFaults   \* how a write may go wrong: "err" reported, "lost" unnoticed

ASSUME BootEnvAssumption ==
  /\ NoRev \notin Revs
  /\ Factory \in Revs
  /\ EnvKind \in {"uboot", "mtd", "grub"}
  /\ EnvFaults \subseteq {"err", "lost"}

EnvKeys == {"pv_rev", "pv_try", "pv_trying"}

RevOrNone == Revs \cup {NoRev}

Env == [EnvKeys -> RevOrNone]

(***************************************************************************)
(* Entries are matched with memcmp(entry, key, strlen(key)): an entry is   *)
(* hit by every key it starts with, so "pv_try" hits "pv_trying" too when  *)
(* both are in the same store.                                             *)
(***************************************************************************)
HitsWholeKeyOnly(key) == {key}

Hits(key) ==
  IF key = "pv_try" /\ EnvKind # "uboot" THEN {"pv_try", "pv_trying"} ELSE {key}

\* Both rewrite the whole store without the entries hit; setting then appends.
unset_env_key(e, key) == [k \in EnvKeys |-> IF k \in Hits(key) THEN NoRev ELSE e[k]]

set_env_key(e, key, value) == [unset_env_key(e, key) EXCEPT ![key] = value]

\* grub's flush does nothing; the others drop the trying note.
flush_env(e) ==
  IF EnvKind = "grub" THEN e ELSE [e EXCEPT !["pv_trying"] = NoRev]

(***************************************************************************)
(* What a write of new over old can come to: a failed open or stat is      *)
(* reported with nothing written; uboot.c also ignores what write()        *)
(* returns, so that a failed write is reported as done.                    *)
(***************************************************************************)
EnvWrites(old, new) ==
  {[ok |-> TRUE, env |-> new]}
    \cup {[ok |-> FALSE, env |-> old] : f \in EnvFaults \cap {"err"}}
    \cup {[ok |-> TRUE, env |-> old] :
            f \in (IF EnvKind = "grub" THEN {} ELSE EnvFaults \cap {"lost"})}

(***************************************************************************)
(* The boot loader's script is not part of this repository.  It tries      *)
(* pv_try once, noting that in pv_trying, and boots pv_rev otherwise; when *)
(* it goes back it may or may not clear its note.  A device whose          *)
(* environment has no pv_rev boots revision "0".                           *)
(***************************************************************************)
RollbackPoint(e) == IF e["pv_rev"] = NoRev THEN Factory ELSE e["pv_rev"]

FirstTry(e) == e["pv_try"] # NoRev /\ e["pv_trying"] # e["pv_try"]

BootRev(e) == IF FirstTry(e) THEN e["pv_try"] ELSE RollbackPoint(e)

BootNotes(e) ==
  IF FirstTry(e) THEN {[e EXCEPT !["pv_trying"] = e["pv_try"]]}
                 ELSE {e, [e EXCEPT !["pv_trying"] = NoRev]}
==============================================================================

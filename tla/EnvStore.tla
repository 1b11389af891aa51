------------------------------ MODULE EnvStore ------------------------------
(***************************************************************************)
(* How the keys of BootEnv are stored (uboot.c, grub.c) and in which steps *)
(* bootloader.c writes them.  A store is a list of entries.  Every write   *)
(* reads the list, leaves out the entries that start with the key, appends *)
(* the new one, and puts the whole list back in place:                     *)
(*                                                                         *)
(*   "uboot"  main is uboot.txt, flag the pv-env partition of the loader   *)
(*   "grub"   main is grubenv, which the loader writes too                 *)
(*   "mtd"    main is the pv-env partition, whose sector is erased first   *)
(*                                                                         *)
(* The few entries fit into one sector of a disk, so that a file has its   *)
(* old or its new content after a power loss.                              *)
(***************************************************************************)
EXTENDS Naturals, Sequences

CONSTANTS
  Revs, NoRev, Factory, EnvFaults   \* as in BootEnv

VARIABLES
  EnvKind, \* the kind of environment; a device keeps its own
  main,    \* the entries of the store that bootloader.c writes
  flag,    \* the entries of the loader's own store, with "uboot"
  up,      \* pantavisor runs
  bl,      \* struct pv_bootloader: pv_try and pv_done in memory
  calls,   \* the calls of bl_ops that the function under way still makes
  erased,  \* the sector is erased and not written yet
  new      \* what goes into an erased sector

vars == <<EnvKind, main, flag, up, bl, calls, erased, new>>

INSTANCE BootEnv

Kinds == {"uboot", "mtd", "grub"}

Entry == [key : EnvKeys, val : Revs]

\* A store never has more than one entry for each key.
Lists == UNION {[1..n -> Entry] : n \in 0..3}

(***************************************************************************)
(* Lists of entries.                                                       *)
(***************************************************************************)
StartsWithPv(e, key) == TRUE

StartsWith(e, key) == e.key = key \/ (e.key = "pv_trying" /\ key = "pv_try")

Without(s, key) ==
  LET kept[n \in 0..Len(s)] ==
        IF n = 0 THEN <<>>
        ELSE IF StartsWith(s[n], key) THEN kept[n-1] ELSE Append(kept[n-1], s[n])
  IN  kept[Len(s)]

With(s, key, val) == Append(Without(s, key), [key |-> key, val |-> val])

\* The first entry wins.  Pantavisor reads pv_rev only; the loader reads the others.
get_env_key(s, key) ==
  LET found == {n \in 1..Len(s) : s[n].key = key}
  IN  IF found = {} THEN NoRev ELSE s[CHOOSE n \in found : \A m \in found : n <= m].val

(***************************************************************************)
(* The environment as BootEnv knows it; an erase and the write after it    *)
(* count as one.                                                           *)
(***************************************************************************)
EnvOf(m, f) ==
  [k \in EnvKeys |-> get_env_key(IF EnvKind = "uboot" /\ k = "pv_trying" THEN f ELSE m, k)]

OnDisk == EnvOf(main, flag)

env == EnvOf(IF erased THEN new ELSE main, flag)

NoKeys == [k \in EnvKeys |-> NoRev]

(***************************************************************************)
(* What bootloader.c asks for.  Memory changes before the write does.      *)
(***************************************************************************)
Idle == up /\ calls = <<>>

Set(key, val) == [op |-> "set", key |-> key, val |-> val]

Unset(key) == [op |-> "unset", key |-> key, val |-> NoRev]

Flush == [op |-> "flush", key |-> "pv_trying", val |-> NoRev]

pv_bootloader_set_installed(rev) ==
  /\ Idle
  /\ bl' = [bl EXCEPT !.pv_try = rev]
  /\ calls' = <<Set("pv_try", rev)>>
  /\ UNCHANGED <<EnvKind, main, flag, up, erased, new>>

pv_bootloader_set_commited ==
  /\ Idle /\ bl.pv_try # NoRev
  /\ bl' = [bl EXCEPT !.pv_done = bl.pv_try]
  /\ calls' = <<Set("pv_rev", bl.pv_try), Unset("pv_try"), Flush>>
  /\ UNCHANGED <<EnvKind, main, flag, up, erased, new>>

pv_bootloader_set_failed ==
  /\ Idle
  /\ bl' = [bl EXCEPT !.pv_try = NoRev]
  /\ calls' = <<Unset("pv_try")>>
  /\ UNCHANGED <<EnvKind, main, flag, up, erased, new>>

(***************************************************************************)
(* The end of a call: the calls of a function are joined with ||, and the  *)
(* unset_try of a commit forgets pv_try before it writes.                  *)
(***************************************************************************)
Return(ok) ==
  /\ calls' = IF ok THEN Tail(calls) ELSE <<>>
  /\ bl' = IF calls' # <<>> /\ Head(calls').op = "unset"
             THEN [bl EXCEPT !.pv_try = NoRev] ELSE bl

(***************************************************************************)
(* The list a call leaves behind; flush is an unset on a single store.     *)
(***************************************************************************)
ResultAlone(c) ==
  IF c.op = "set" THEN <<[key |-> c.key, val |-> c.val]>> ELSE <<>>

Result(c) ==
  IF c.op = "set" THEN With(main, c.key, c.val) ELSE Without(main, c.key)

\* Written by this call: flush writes main only where it is the MTD partition.
WritesMain(c) == c.op # "flush" \/ EnvKind = "mtd"

(***************************************************************************)
(* A file is rewritten in place.  A file that cannot be opened ends the    *)
(* function; uboot.c does not look at what write() returns.                *)
(***************************************************************************)
WriteFile ==
  /\ up /\ calls # <<>> /\ WritesMain(Head(calls)) /\ EnvKind # "mtd"
  /\ \/ main' = Result(Head(calls)) /\ Return(TRUE)
     \/ "err" \in EnvFaults /\ main' = main /\ Return(FALSE)
     \/ "lost" \in EnvFaults /\ EnvKind = "uboot" /\ main' = main /\ Return(TRUE)
  /\ UNCHANGED <<EnvKind, flag, up, erased, new>>

(***************************************************************************)
(* A sector is read, erased and written.  Only a partition that cannot be  *)
(* opened is reported, and not by flush, which ignores it.                 *)
(***************************************************************************)
EraseSector ==
  /\ up /\ calls # <<>> /\ WritesMain(Head(calls)) /\ EnvKind = "mtd" /\ ~erased
  /\ \/ /\ main' = <<>> /\ erased' = TRUE /\ new' = Result(Head(calls))
        /\ UNCHANGED <<bl, calls>>
     \/ /\ "err" \in EnvFaults
        /\ Return(Head(calls).op = "flush")
        /\ UNCHANGED <<main, erased, new>>
  /\ UNCHANGED <<EnvKind, flag, up>>

WriteSector ==
  /\ up /\ erased
  /\ \/ main' = new
     \/ "lost" \in EnvFaults /\ main' = main
  /\ erased' = FALSE /\ new' = <<>>
  /\ Return(TRUE)
  /\ UNCHANGED <<EnvKind, flag, up>>

(***************************************************************************)
(* uboot_flush_env erases the loader's partition, if it can open it;       *)
(* grub_flush_env does nothing.                                            *)
(***************************************************************************)
FlushFlag ==
  /\ up /\ calls # <<>> /\ ~WritesMain(Head(calls))
  /\ \/ flag' = IF EnvKind = "uboot" THEN <<>> ELSE flag
     \/ "err" \in EnvFaults /\ flag' = flag
  /\ Return(TRUE)
  /\ UNCHANGED <<EnvKind, main, up, erased, new>>

(***************************************************************************)
(* The loader makes its choice, notes it in its store, and pantavisor      *)
(* reads the environment (pv_bl_early_init).                               *)
(***************************************************************************)
Noted(s, e) == IF e["pv_trying"] = NoRev THEN Without(s, "pv_trying")
               ELSE Append(Without(s, "pv_trying"),
                           [key |-> "pv_trying", val |-> e["pv_trying"]])

pv_bl_early_init ==
  /\ ~up /\ up' = TRUE
  /\ \E e \in BootNotes(OnDisk) :
       IF EnvKind = "uboot" THEN flag' = Noted(flag, e) /\ main' = main
                            ELSE main' = Noted(main, e) /\ flag' = flag
  /\ LET rev == get_env_key(main, "pv_rev")
     IN  bl' = [pv_try |-> OnDisk["pv_try"],
                pv_done |-> IF rev = NoRev THEN BootRev(OnDisk) ELSE rev]
  /\ UNCHANGED <<EnvKind, calls, erased, new>>

PowerLoss ==
  /\ up /\ up' = FALSE
  /\ calls' = <<>> /\ erased' = FALSE /\ new' = <<>>
  /\ UNCHANGED <<EnvKind, main, flag, bl>>

Init ==
  /\ EnvKind \in Kinds
  /\ main = <<>> /\ flag = <<>> /\ up = FALSE
  /\ bl = [pv_try |-> NoRev, pv_done |-> NoRev]
  /\ calls = <<>> /\ erased = FALSE /\ new = <<>>

Next ==
  \/ \E rev \in Revs : pv_bootloader_set_installed(rev)
  \/ pv_bootloader_set_commited \/ pv_bootloader_set_failed
  \/ WriteFile \/ EraseSector \/ WriteSector \/ FlushFlag
  \/ pv_bl_early_init \/ PowerLoss

Spec == Init /\ [][Next]_vars

(***************************************************************************)
(* Properties.                                                             *)
(***************************************************************************)

(* The stores stay small: with every write the older entries of a key go.  *)
TypeOK ==
  /\ EnvKind \in Kinds
  /\ main \in Lists /\ flag \in Lists
  /\ up \in BOOLEAN
  /\ bl \in [pv_try : RevOrNone, pv_done : RevOrNone]
  /\ calls \in Seq([op : {"set", "unset", "flush"}, key : EnvKeys, val : RevOrNone])
  /\ Len(calls) <= 3
  /\ erased \in BOOLEAN /\ new \in Lists

(***************************************************************************)
(* Lists with prefix matching, rewritten as a whole, implement the keys of *)
(* BootEnv: every step is one of its operations or leaves all keys alone,  *)
(* through failed writes and power losses; only a sector that was erased   *)
(* and not written has lost everything (uboot.c, grub.c).                  *)
(***************************************************************************)
AtomicOrErased ==
  [][\/ \E key \in EnvKeys, val \in Revs : env' = set_env_key(env, key, val)
     \/ \E key \in EnvKeys : env' = unset_env_key(env, key)
     \/ env' = flush_env(env)
     \/ ~up /\ env' \in BootNotes(env)
     \/ erased /\ env' = NoKeys]_<<main, flag, erased, new>>

(***************************************************************************)
(* The revision to go back to is only replaced by the one that is being    *)
(* committed, whatever is written and wherever the power goes: a DONE      *)
(* revision is "set as rollback point" (updater.c).  Only an erased sector *)
(* that is not written again takes it with all other keys.                 *)
(***************************************************************************)
CommittedIsKept ==
  [][RollbackPoint(env') # RollbackPoint(env) =>
       \/ calls # <<>> /\ Head(calls) = Set("pv_rev", RollbackPoint(env'))
       \/ erased /\ env' = NoKeys]_vars
=============================================================================

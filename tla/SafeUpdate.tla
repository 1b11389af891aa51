------------------------------ MODULE SafeUpdate ------------------------------
(***************************************************************************)
(* What the update machinery promises, whatever it runs and whenever the   *)
(* power fails: the revision the device falls back to changes only to one  *)
(* that was booted on trial and is running, and a trial that is under way  *)
(* ends with that change or with the device going down, never with the     *)
(* candidate being withdrawn or replaced under it.                         *)
(***************************************************************************)

CONSTANTS Revs, NoRev, Factory

VARIABLES
  safe,       \* the revision to fall back to
  candidate,  \* the revision to try next, or NoRev
  booted,     \* the revision the device was booted into, NoRev when down
  active      \* the revision that is running, NoRev when down

vars == <<safe, candidate, booted, active>>

Init ==
  /\ safe = Factory
  /\ candidate = NoRev
  /\ booted = NoRev
  /\ active = NoRev

\* The candidate was booted, runs, and has not been made the safe one yet.
TrialPending ==
  /\ active # NoRev
  /\ active = candidate
  /\ booted = candidate
  /\ safe # candidate

PowerUp ==
  /\ active = NoRev
  /\ active' \in {safe, candidate} \ {NoRev}
  /\ booted' = active'
  /\ UNCHANGED <<safe, candidate>>

PowerDown ==
  /\ active' = NoRev
  /\ booted' = NoRev
  /\ UNCHANGED <<safe, candidate>>

Stage ==
  /\ active # NoRev
  /\ ~TrialPending
  /\ candidate' \in Revs
  /\ UNCHANGED <<safe, booted, active>>

\* An update that needs no reboot runs the candidate in place.
Switch ==
  /\ active # NoRev
  /\ candidate # NoRev
  /\ ~TrialPending
  /\ active' = candidate
  /\ UNCHANGED <<safe, candidate, booted>>

Commit ==
  /\ TrialPending
  /\ safe' = candidate
  /\ UNCHANGED <<candidate, booted, active>>

Withdraw ==
  /\ active # NoRev
  /\ ~TrialPending
  /\ candidate' = NoRev
  /\ UNCHANGED <<safe, booted, active>>

Next == PowerUp \/ PowerDown \/ Stage \/ Switch \/ Commit \/ Withdraw

Spec == Init /\ [][Next]_vars
==============================================================================

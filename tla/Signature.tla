------------------------------ MODULE Signature ------------------------------
(***************************************************************************)
(* The verification of the signatures in a state json (signature.c), as it *)
(* runs before a step is taken and before a revision is started.  A state  *)
(* is a sequence of pairs; the value of a pair is plain or a signature of  *)
(* the pairs its filters select.  Base64, certificates and hashes belong   *)
(* to libraries and are reduced to whether the bytes verified are the      *)
(* bytes signed, with a key the device trusts.  A reject may also be a     *)
(* crash, where the code goes on with what it could not parse.             *)
(***************************************************************************)
EXTENDS Integers, Sequences, SequencesExt

CONSTANTS
  Inputs,   \* the states to be verified
  Modes,    \* secureboot.mode: "disabled", "lenient", "strict"
  SigKeys,  \* keys that start with _sigs/
  Glob,     \* the keys a path of a filter matches, by fnmatch
  Under     \* the keys it matches with FNM_LEADING_DIR

\* A pattern of a filter; "<path>/**" is the tree of its path.
Pattern == [path : DOMAIN Glob, tree : BOOLEAN]

ASSUME SignatureAssumption ==
  /\ Modes \subseteq {"disabled", "lenient", "strict"}
  /\ DOMAIN Glob = DOMAIN Under
  /\ \A s \in Inputs :
       /\ s \in Seq(ToSet(s))
       /\ \A q \in ToSet(s) :
            q.value.kind = "sig" => {q.value.include, q.value.exclude} \subseteq Seq(Pattern)

VARIABLES
  sb,        \* secureboot.mode
  pairs,     \* the pairs of the state, in its order
  i,         \* the pair looked at
  stage,     \* what is done with it
  filter,    \* the patterns left of the filter at hand
  included,  \* pairs whose included flag is set
  covered,   \* pairs whose covered flag is set
  verdict    \* "none", "accepted", "rejected" or "crash"

vars == <<sb, pairs, i, stage, filter, included, covered, verdict>>

Sig == pairs[i].value
IsSig(v) == v.kind # "plain"

(* The types of the flags and of the position. *)
TypeOK ==
  /\ sb \in Modes /\ pairs \in Inputs /\ filter \in Seq(Pattern)
  /\ i \in 1..(Len(pairs) + 1)
  /\ stage \in {"start", "pair", "headers", "include", "exclude", "verify",
                "covered"}
  /\ included \subseteq 1..Len(pairs) /\ covered \subseteq 1..Len(pairs)
  /\ verdict \in {"none", "accepted", "rejected", "crash"}

Init ==
  /\ sb \in Modes /\ pairs \in Inputs
  /\ i = 1 /\ stage = "start" /\ filter = <<>>
  /\ included = {} /\ covered = {} /\ verdict = "none"

Verdict(vs) == verdict' \in vs /\ UNCHANGED <<sb, pairs, i, stage, filter,
                                               included, covered>>

(* pv_signature_verify: nothing is looked at when secure boot is disabled; *)
(* pv_signature_parse_json clears the flags                                *)
Start ==
  /\ stage = "start" /\ verdict = "none"
  /\ IF sb = "disabled"
       THEN Verdict({"accepted"})
       ELSE stage' = "pair" /\ UNCHANGED <<sb, pairs, i, filter, included,
                                           covered, verdict>>

(* pv_signature_parse_pvs: a pair without "#spec": "pvs@2" is passed over *)
SkipPair ==
  /\ stage = "pair" /\ verdict = "none" /\ i <= Len(pairs)
  /\ ~IsSig(Sig)
  /\ i' = i + 1
  /\ UNCHANGED <<sb, pairs, stage, filter, included, covered, verdict>>

FindSignature ==
  /\ stage = "pair" /\ verdict = "none" /\ i <= Len(pairs)
  /\ IsSig(Sig)
  /\ stage' = "headers"
  /\ UNCHANGED <<sb, pairs, i, filter, included, covered, verdict>>

(* pv_signature_parse_protected fails, and a list of certificates is freed *)
(* that was not set up; headers without filters are used nevertheless, and *)
(* a value the parser refuses is taken for a signature without content     *)
BadHeaders ==
  /\ stage = "headers" /\ verdict = "none"
  /\ Sig.kind \in {"nojson", "noheaders", "nopvs"}
  /\ Verdict(IF Sig.kind = "noheaders" THEN {"rejected", "crash"} ELSE {"crash"})

(* pv_signature_get_certs_raw fails *)
BadCerts ==
  /\ stage = "headers" /\ verdict = "none"
  /\ Sig.kind = "badcerts"
  /\ Verdict({"rejected"})

(* pv_signature_reset_included *)
pv_signature_reset_included ==
  /\ stage = "headers" /\ verdict = "none" /\ Sig.kind = "sig"
  /\ included' = {}
  /\ filter' = Sig.include /\ stage' = "include"
  /\ UNCHANGED <<sb, pairs, i, covered, verdict>>

(* fnmatch: "**" is the empty path with FNM_LEADING_DIR, "<path>/**" is    *)
(* the path with FNM_LEADING_DIR                                           *)
Matched(p) ==
  {j \in 1..Len(pairs) :
     pairs[j].key \in (IF p.tree THEN Under[p.path] ELSE Glob[p.path])}

(* one pattern of pv_signature_include_files *)
pv_signature_include_files ==
  /\ stage \in {"include", "exclude"} /\ verdict = "none" /\ filter # <<>>
  /\ included' = IF stage = "include" THEN included \cup Matched(Head(filter))
                                      ELSE included \ Matched(Head(filter))
  /\ covered' = covered \cup Matched(Head(filter))
  /\ filter' = Tail(filter)
  /\ UNCHANGED <<sb, pairs, i, stage, verdict>>

(* pv_signature_filter_files: include first, then exclude *)
pv_signature_filter_files ==
  /\ stage \in {"include", "exclude"} /\ verdict = "none" /\ filter = <<>>
  /\ IF stage = "include" THEN stage' = "exclude" /\ filter' = Sig.exclude
                          ELSE stage' = "verify" /\ filter' = <<>>
  /\ UNCHANGED <<sb, pairs, i, included, covered, verdict>>

(* pv_signature_get_json_files: the included pairs in the state's order *)
Payload == [j \in included |-> pairs[j]]

(* pv_signature_parse_certs, or pv_signature_load_pk without certificates, *)
(* and pv_signature_validate_pk                                            *)
KeyTrusted == Sig.key = "trusted"

(* pv_signature_verify_sha256 *)
pv_signature_verify_sha256 ==
  KeyTrusted /\ Sig.signed = {Payload[j] : j \in DOMAIN Payload}

(* Mutant: the other signatures are not looked at. *)
VerifyStopsAtFirst ==
  /\ stage = "verify" /\ verdict = "none"
  /\ IF Sig.alg \in {"RS256", "ES256"} /\ pv_signature_verify_sha256
       THEN i' = Len(pairs) + 1 /\ stage' = "pair"
            /\ UNCHANGED <<sb, pairs, filter, included, covered, verdict>>
       ELSE Verdict({"rejected"})

(* pv_signature_verify_pvs, and the next turn of pv_signature_verify_pairs *)
pv_signature_verify_pvs ==
  /\ stage = "verify" /\ verdict = "none"
  /\ IF Sig.alg \in {"RS256", "ES256"} /\ pv_signature_verify_sha256
       THEN i' = i + 1 /\ stage' = "pair"
            /\ UNCHANGED <<sb, pairs, filter, included, covered, verdict>>
       ELSE Verdict({"rejected"})

AllVerified ==
  /\ stage = "pair" /\ verdict = "none" /\ i > Len(pairs)
  /\ IF sb = "strict"
       THEN stage' = "covered" /\ UNCHANGED <<sb, pairs, i, filter, included,
                                              covered, verdict>>
       ELSE Verdict({"accepted"})

pv_signature_all_covered ==
  /\ stage = "covered" /\ verdict = "none"
  /\ Verdict(IF \A j \in 1..Len(pairs) :
                  pairs[j].key \in SigKeys \/ j \in covered
               THEN {"accepted"} ELSE {"rejected"})

Done == verdict # "none" /\ UNCHANGED vars

Next ==
  \/ Start \/ SkipPair \/ FindSignature \/ BadHeaders
  \/ BadCerts
  \/ pv_signature_reset_included \/ pv_signature_include_files
  \/ pv_signature_filter_files \/ pv_signature_verify_pvs \/ AllVerified
  \/ pv_signature_all_covered \/ Done

Spec == Init /\ [][Next]_vars

-----------------------------------------------------------------------------
(***************************************************************************)
(* The verdict by its meaning, without flags and order.                    *)
(***************************************************************************)
Names(patterns) ==
  UNION {IF p.tree THEN Under[p.path] ELSE Glob[p.path] : p \in ToSet(patterns)}

Selected(s) ==
  {q \in ToSet(pairs) : q.key \in Names(s.include) \ Names(s.exclude)}

Signatures == {q.value : q \in {p \in ToSet(pairs) : IsSig(p.value)}}

Holds(s) ==
  /\ s.kind = "sig" /\ s.alg \in {"RS256", "ES256"} /\ s.key = "trusted"
  /\ s.signed = Selected(s)

NamedBySome(key) ==
  \E s \in Signatures : key \in Names(s.include) \cup Names(s.exclude)

(* What is verified for a signature is what its own filters select from    *)
(* the state, whatever the signatures before it have selected              *)
(* (pv_signature_get_filtered_json).                                       *)
PayloadIsOwnSelection ==
  stage = "verify" => {Payload[j] : j \in DOMAIN Payload} = Selected(Sig)

(* A state is accepted exactly when all of its signatures hold, in         *)
(* whatever order they come, and in strict mode every pair outside _sigs   *)
(* is named by a filter of one of them (pv_signature_verify).              *)
VerdictIsRight ==
  verdict # "none" =>
    (verdict = "accepted" <=>
       \/ sb = "disabled"
       \/ /\ \A s \in Signatures : Holds(s)
          /\ sb = "strict" => \A q \in ToSet(pairs) :
               q.key \in SigKeys \/ NamedBySome(q.key))
=============================================================================

--------------------------- MODULE SignatureProofs ---------------------------
(***************************************************************************)
(* Theorems about Signature, for every set of states, every secureboot     *)
(* mode and every matching of patterns.                                    *)
(***************************************************************************)
EXTENDS Signature, TLAPS

(***************************************************************************)
(* The pairs that the patterns of a filter match, as positions.            *)
(***************************************************************************)
MatchedBy(patterns) == {j \in 1..Len(pairs) : pairs[j].key \in Names(patterns)}

LEMMA NamesEmpty == Names(<<>>) = {}
  BY DEF Names, ToSet

LEMMA NamesHead ==
  ASSUME NEW f \in Seq(Pattern), f # <<>>
  PROVE  /\ Tail(f) \in Seq(Pattern)
         /\ MatchedBy(f) = Matched(Head(f)) \cup MatchedBy(Tail(f))
<1>1. /\ Tail(f) \in Seq(Pattern) /\ Head(f) \in Pattern
      /\ Len(f) \in Nat \ {0} /\ Len(Tail(f)) = Len(f) - 1
  OBVIOUS
<1>2. ToSet(f) = {Head(f)} \cup ToSet(Tail(f))
  <2>1. \A k \in 1..Len(Tail(f)) : Tail(f)[k] = f[k + 1]
    BY <1>1
  <2>2. \A k \in 2..Len(f) : k - 1 \in 1..Len(Tail(f)) /\ f[k] = Tail(f)[k - 1]
    BY <1>1, <2>1
  <2>3. DOMAIN f = 1..Len(f) /\ DOMAIN Tail(f) = 1..Len(Tail(f))
    BY <1>1
  <2>4. Head(f) = f[1]
    BY <1>1
  <2>5. ASSUME NEW x \in ToSet(f)
        PROVE  x \in {Head(f)} \cup ToSet(Tail(f))
    <3>1. PICK k \in 1..Len(f) : x = f[k]
      BY <2>3 DEF ToSet
    <3>2. CASE k = 1
      BY <3>1, <3>2, <2>4
    <3>3. CASE k # 1
      <4>1. k \in 2..Len(f)
        BY <1>1, <3>3
      <4> QED BY <4>1, <3>1, <2>2, <2>3 DEF ToSet
    <3> QED BY <3>2, <3>3
  <2>6. ASSUME NEW x \in {Head(f)} \cup ToSet(Tail(f))
        PROVE  x \in ToSet(f)
    <3>1. CASE x = Head(f)
      BY <3>1, <2>4, <2>3, <1>1 DEF ToSet
    <3>2. CASE x \in ToSet(Tail(f))
      <4>1. PICK k \in 1..Len(Tail(f)) : x = Tail(f)[k]
        BY <3>2, <2>3 DEF ToSet
      <4>2. k + 1 \in 1..Len(f)
        BY <1>1
      <4> QED BY <4>1, <4>2, <2>1, <2>3 DEF ToSet
    <3> QED BY <3>1, <3>2
  <2> QED BY <2>5, <2>6
<1>3. Names(f) = (IF Head(f).tree THEN Under[Head(f).path] ELSE Glob[Head(f).path])
                   \cup Names(Tail(f))
  BY <1>2, Zenon DEF Names
<1> QED BY <1>1, <1>3 DEF MatchedBy, Matched

LEMMA PairsAreSeq ==
  ASSUME TypeOK
  PROVE  /\ Len(pairs) \in Nat /\ DOMAIN pairs = 1..Len(pairs)
         /\ ToSet(pairs) = {pairs[j] : j \in 1..Len(pairs)}
<1>1. pairs \in Seq(ToSet(pairs))
  BY SignatureAssumption DEF TypeOK
<1> QED BY <1>1 DEF ToSet

LEMMA SigFilters ==
  ASSUME TypeOK, i \in 1..Len(pairs), Sig.kind = "sig"
  PROVE  Sig.include \in Seq(Pattern) /\ Sig.exclude \in Seq(Pattern)
<1>1. pairs[i] \in ToSet(pairs)
  BY PairsAreSeq
<1> QED BY <1>1, SignatureAssumption DEF TypeOK, Sig

-----------------------------------------------------------------------------
(***************************************************************************)
(* The inductive invariant: where the verification is, what the filter at  *)
(* hand has selected so far, what is covered, and what is verified.        *)
(***************************************************************************)
StageInv ==
  /\ stage # "start" => sb # "disabled"
  /\ stage = "start" => i = 1
  /\ stage \in {"headers", "include", "exclude", "verify"} =>
       i \in 1..Len(pairs) /\ IsSig(Sig)
  /\ stage \in {"include", "exclude", "verify"} => Sig.kind = "sig"
  /\ stage = "covered" => sb = "strict" /\ i = Len(pairs) + 1

IncludedInv ==
  /\ stage = "include" => included \cup MatchedBy(filter) = MatchedBy(Sig.include)
  /\ stage = "exclude" => included \ MatchedBy(filter)
                            = MatchedBy(Sig.include) \ MatchedBy(Sig.exclude)
  /\ stage = "verify" => included = MatchedBy(Sig.include) \ MatchedBy(Sig.exclude)

\* The pairs that the filters of the pair at position k name, if it is a signature.
NamedAt(k) ==
  IF IsSig(pairs[k].value)
    THEN MatchedBy(pairs[k].value.include) \cup MatchedBy(pairs[k].value.exclude)
    ELSE {}

NamedBefore(k) == UNION {NamedAt(m) : m \in 1..(k - 1)}

CoveredInv ==
  /\ stage \in {"start", "pair", "headers", "covered"} => covered = NamedBefore(i)
  /\ stage = "include" => covered \cup MatchedBy(filter)
                            = NamedBefore(i) \cup MatchedBy(Sig.include)
  /\ stage = "exclude" => covered \cup MatchedBy(filter) = NamedBefore(i) \cup NamedAt(i)
  /\ stage = "verify" => covered = NamedBefore(i) \cup NamedAt(i)

VerifiedInv ==
  \A k \in 1..(i - 1) : IsSig(pairs[k].value) => Holds(pairs[k].value)

IInv ==
  TypeOK /\ StageInv /\ IncludedInv /\ CoveredInv /\ VerifiedInv /\ VerdictIsRight

LEMMA NamedBeforeNext ==
  ASSUME NEW k \in Nat \ {0}
  PROVE  NamedBefore(k + 1) = NamedBefore(k) \cup NamedAt(k)
<1>1. 1..((k + 1) - 1) = (1..(k - 1)) \cup {k}
  OBVIOUS
<1> QED BY <1>1 DEF NamedBefore

LEMMA PayloadOfInv ==
  ASSUME TypeOK, stage = "verify", IncludedInv
  PROVE  {Payload[j] : j \in DOMAIN Payload} = Selected(Sig)
<1>1. {Payload[j] : j \in DOMAIN Payload} = {pairs[j] : j \in included}
  BY DEF Payload
<1>2. included = {j \in 1..Len(pairs) :
                    pairs[j].key \in Names(Sig.include) \ Names(Sig.exclude)}
  BY DEF IncludedInv, MatchedBy
<1> QED BY <1>1, <1>2, PairsAreSeq DEF Selected

\* What the verdict is about at the end of the pairs.
LEMMA AllHold ==
  ASSUME TypeOK, VerifiedInv, i = Len(pairs) + 1
  PROVE  \A s \in Signatures : Holds(s)
<1> SUFFICES ASSUME NEW s \in Signatures
             PROVE  Holds(s)
  OBVIOUS
<1>1. PICK k \in 1..Len(pairs) : s = pairs[k].value /\ IsSig(pairs[k].value)
  BY PairsAreSeq DEF Signatures
<1>2. k \in 1..(i - 1)
  BY PairsAreSeq
<1> QED BY <1>1, <1>2 DEF VerifiedInv

LEMMA NamedAtTheEnd ==
  ASSUME TypeOK, NEW j \in 1..Len(pairs)
  PROVE  j \in NamedBefore(Len(pairs) + 1) <=> NamedBySome(pairs[j].key)
<1>1. j \in NamedBefore(Len(pairs) + 1)
        <=> \E k \in 1..Len(pairs) : j \in NamedAt(k)
  <2>1. 1..((Len(pairs) + 1) - 1) = 1..Len(pairs)
    BY PairsAreSeq
  <2> QED BY <2>1 DEF NamedBefore
<1>2. \A k \in 1..Len(pairs) :
        j \in NamedAt(k)
          <=> /\ IsSig(pairs[k].value)
              /\ pairs[j].key \in Names(pairs[k].value.include)
                                   \cup Names(pairs[k].value.exclude)
  BY Zenon DEF NamedAt, MatchedBy
<1>3. Signatures = {pairs[k].value : k \in {m \in 1..Len(pairs) : IsSig(pairs[m].value)}}
  BY PairsAreSeq DEF Signatures
<1> QED BY <1>1, <1>2, <1>3 DEF NamedBySome

\* What only depends on the pairs.
LEMMA Frame ==
  ASSUME pairs' = pairs
  PROVE  /\ \A k : NamedBefore(k)' = NamedBefore(k) /\ NamedAt(k)' = NamedAt(k)
         /\ \A f : MatchedBy(f)' = MatchedBy(f)
         /\ \A s : Holds(s)' = Holds(s)
<1>1. \A f : MatchedBy(f)' = MatchedBy(f)
  BY DEF MatchedBy, Names
<1>2. \A k : NamedAt(k)' = NamedAt(k)
  BY <1>1 DEF NamedAt, IsSig
<1>3. \A k : NamedBefore(k)' = NamedBefore(k)
  BY <1>2 DEF NamedBefore
<1>4. \A s : Holds(s)' = Holds(s)
  BY DEF Holds, Selected, Names
<1> QED BY <1>1, <1>2, <1>3, <1>4

LEMMA Failing ==
  ASSUME IInv, i \in 1..Len(pairs), IsSig(Sig), ~Holds(Sig), stage # "start",
         verdict' \in {"rejected", "crash"},
         UNCHANGED <<sb, pairs, i, stage, filter, included, covered>>
  PROVE  IInv'
<1>1. Sig \in Signatures
  BY PairsAreSeq DEF Signatures, Sig, IInv
<1>2. VerdictIsRight'
  <2>1. Signatures' = Signatures
    BY DEF Signatures, IsSig
  <2>2. Holds(Sig)' <=> Holds(Sig)
    BY DEF Holds, Selected, Names, Sig
  <2>3. Sig' = Sig /\ sb' # "disabled" /\ verdict' # "accepted"
    BY DEF Sig, IInv, StageInv
  <2> QED BY <1>1, <2>1, <2>2, <2>3 DEF VerdictIsRight
<1>3. TypeOK'
  BY DEF TypeOK, IInv
<1>4. Sig' = Sig
  BY DEF Sig
<1>5. StageInv' /\ IncludedInv' /\ CoveredInv' /\ VerifiedInv'
  BY <1>4, Frame DEF IInv, StageInv, IncludedInv, CoveredInv, VerifiedInv, IsSig
<1> QED BY <1>2, <1>3, <1>5 DEF IInv

-----------------------------------------------------------------------------
LEMMA InitInv == Init => IInv
<1> SUFFICES ASSUME Init
             PROVE  IInv
  OBVIOUS
<1>1. pairs \in Seq(ToSet(pairs)) /\ Len(pairs) \in Nat
  BY SignatureAssumption DEF Init
<1>2. TypeOK
  BY <1>1 DEF Init, TypeOK
<1>3. NamedBefore(1) = {}
  BY DEF NamedBefore
<1> QED BY <1>2, <1>3
        DEF Init, IInv, StageInv, IncludedInv, CoveredInv, VerifiedInv, VerdictIsRight

LEMMA StartInv == IInv /\ Start => IInv'
<1> SUFFICES ASSUME IInv, Start
             PROVE  IInv'
  OBVIOUS
<1>1. CASE sb = "disabled"
  <2>1. UNCHANGED <<sb, pairs, i, stage, filter, included, covered>> /\ verdict' = "accepted"
        /\ stage = "start" /\ i = 1
    BY <1>1 DEF Start, Verdict, IInv, StageInv
  <2>2. TypeOK'
    BY <2>1 DEF IInv, TypeOK
  <2>3. StageInv' /\ IncludedInv' /\ CoveredInv'
    BY <2>1, Frame DEF IInv, StageInv, IncludedInv, CoveredInv
  <2>4. VerifiedInv'
    BY <2>1 DEF VerifiedInv
  <2>5. VerdictIsRight'
    BY <2>1, <1>1 DEF VerdictIsRight
  <2> QED BY <2>2, <2>3, <2>4, <2>5 DEF IInv
<1>2. CASE sb # "disabled"
  <2>1. /\ UNCHANGED <<sb, pairs, i, filter, included, covered, verdict>>
        /\ stage = "start" /\ stage' = "pair" /\ verdict = "none" /\ i = 1
    BY <1>2 DEF Start, IInv, StageInv
  <2>2. TypeOK'
    BY <2>1 DEF IInv, TypeOK
  <2>3. StageInv' /\ IncludedInv' /\ CoveredInv' /\ VerifiedInv'
    BY <2>1, <1>2, Frame DEF IInv, StageInv, IncludedInv, CoveredInv, VerifiedInv
  <2> QED BY <2>1, <2>2, <2>3 DEF IInv, VerdictIsRight
<1> QED BY <1>1, <1>2

LEMMA SkipPairInv == IInv /\ SkipPair => IInv'
<1> SUFFICES ASSUME IInv, SkipPair
             PROVE  IInv'
  OBVIOUS
<1>1. /\ UNCHANGED <<sb, pairs, stage, filter, included, covered, verdict>>
      /\ stage = "pair" /\ verdict = "none" /\ i \in 1..Len(pairs) /\ i' = i + 1
      /\ ~IsSig(pairs[i].value)
  BY PairsAreSeq DEF SkipPair, IInv, TypeOK, Sig
<1>2. Len(pairs) \in Nat
  BY PairsAreSeq DEF IInv
<1>3. TypeOK'
  <2>1. i' \in 1..(Len(pairs') + 1)
    BY <1>1, <1>2
  <2> QED BY <1>1, <2>1 DEF IInv, TypeOK
<1>4. NamedBefore(i + 1) = NamedBefore(i)
  <2>1. NamedAt(i) = {}
    BY <1>1 DEF NamedAt
  <2>2. i \in Nat \ {0}
    BY <1>1, <1>2
  <2> QED BY <2>1, <2>2, NamedBeforeNext
<1>5. StageInv' /\ IncludedInv' /\ CoveredInv'
  BY <1>1, <1>4, Frame DEF IInv, StageInv, IncludedInv, CoveredInv
<1>6. VerifiedInv'
  <2>1. \A k \in 1..(i' - 1) : k \in 1..(i - 1) \/ k = i
    BY <1>1
  <2> QED BY <1>1, <2>1, Frame DEF IInv, VerifiedInv, IsSig
<1> QED BY <1>1, <1>3, <1>5, <1>6 DEF IInv, VerdictIsRight

LEMMA FindSignatureInv == IInv /\ FindSignature => IInv'
<1> SUFFICES ASSUME IInv, FindSignature
             PROVE  IInv'
  OBVIOUS
<1>1. /\ UNCHANGED <<sb, pairs, i, filter, included, covered, verdict>>
      /\ stage = "pair" /\ stage' = "headers" /\ verdict = "none" /\ i \in 1..Len(pairs)
      /\ IsSig(Sig) /\ Sig' = Sig
  BY PairsAreSeq DEF FindSignature, IInv, TypeOK, Sig
<1>2. TypeOK'
  BY <1>1 DEF IInv, TypeOK
<1>3. StageInv' /\ IncludedInv' /\ CoveredInv' /\ VerifiedInv'
  BY <1>1, Frame DEF IInv, StageInv, IncludedInv, CoveredInv, VerifiedInv, IsSig
<1> QED BY <1>1, <1>2, <1>3 DEF IInv, VerdictIsRight

LEMMA BadInv == IInv /\ (BadHeaders \/ BadCerts) => IInv'
<1> SUFFICES ASSUME IInv, BadHeaders \/ BadCerts
             PROVE  IInv'
  OBVIOUS
<1>1. /\ UNCHANGED <<sb, pairs, i, stage, filter, included, covered>>
      /\ verdict' \in {"rejected", "crash"} /\ stage = "headers" /\ Sig.kind # "sig"
  BY DEF BadHeaders, BadCerts, Verdict
<1>2. i \in 1..Len(pairs) /\ IsSig(Sig) /\ ~Holds(Sig)
  BY <1>1 DEF IInv, StageInv, Holds
<1> QED BY <1>1, <1>2, Failing

LEMMA ResetIncludedInv == IInv /\ pv_signature_reset_included => IInv'
<1> SUFFICES ASSUME IInv, pv_signature_reset_included
             PROVE  IInv'
  OBVIOUS
<1>1. /\ UNCHANGED <<sb, pairs, i, covered, verdict>>
      /\ stage = "headers" /\ stage' = "include" /\ verdict = "none"
      /\ included' = {} /\ filter' = Sig.include
      /\ Sig.kind = "sig" /\ Sig' = Sig /\ i \in 1..Len(pairs) /\ IsSig(Sig)
  BY DEF pv_signature_reset_included, IInv, StageInv, Sig
<1>2. TypeOK'
  BY <1>1, SigFilters DEF IInv, TypeOK
<1>3. StageInv' /\ IncludedInv' /\ CoveredInv' /\ VerifiedInv'
  BY <1>1, Frame DEF IInv, StageInv, IncludedInv, CoveredInv, VerifiedInv, IsSig
<1> QED BY <1>1, <1>2, <1>3 DEF IInv, VerdictIsRight

LEMMA IncludeFilesInv == IInv /\ pv_signature_include_files => IInv'
<1> SUFFICES ASSUME IInv, pv_signature_include_files
             PROVE  IInv'
  OBVIOUS
<1>1. /\ UNCHANGED <<sb, pairs, i, stage, verdict>>
      /\ stage \in {"include", "exclude"} /\ verdict = "none"
      /\ filter # <<>> /\ filter' = Tail(filter)
      /\ covered' = covered \cup Matched(Head(filter))
      /\ Sig' = Sig
  BY DEF pv_signature_include_files, Sig
<1>2. included' = IF stage = "include" THEN included \cup Matched(Head(filter))
                                       ELSE included \ Matched(Head(filter))
  BY DEF pv_signature_include_files
<1>3. /\ Tail(filter) \in Seq(Pattern)
      /\ MatchedBy(filter) = Matched(Head(filter)) \cup MatchedBy(Tail(filter))
  BY <1>1, NamesHead DEF IInv, TypeOK
<1>4. Matched(Head(filter)) \subseteq 1..Len(pairs)
  BY DEF Matched
<1>5. TypeOK'
  BY <1>1, <1>2, <1>3, <1>4 DEF IInv, TypeOK
<1>6. IncludedInv'
  <2>1. CASE stage = "include"
    BY <2>1, <1>1, <1>2, <1>3, Frame DEF IInv, IncludedInv
  <2>2. CASE stage = "exclude"
    BY <2>2, <1>1, <1>2, <1>3, Frame DEF IInv, IncludedInv
  <2> QED BY <2>1, <2>2, <1>1
<1>7. CoveredInv'
  <2>1. covered' \cup MatchedBy(Tail(filter)) = covered \cup MatchedBy(filter)
    BY <1>1, <1>3
  <2>2. MatchedBy(filter)' = MatchedBy(Tail(filter))
    BY <1>1 DEF MatchedBy, Names
  <2> QED BY <2>1, <2>2, <1>1, Frame DEF IInv, CoveredInv
<1>8. StageInv' /\ VerifiedInv'
  BY <1>1, Frame DEF IInv, StageInv, VerifiedInv, IsSig
<1> QED BY <1>1, <1>5, <1>6, <1>7, <1>8 DEF IInv, VerdictIsRight

LEMMA FilterFilesInv == IInv /\ pv_signature_filter_files => IInv'
<1> SUFFICES ASSUME IInv, pv_signature_filter_files
             PROVE  IInv'
  OBVIOUS
<1>1. /\ UNCHANGED <<sb, pairs, i, included, covered, verdict>>
      /\ stage \in {"include", "exclude"} /\ verdict = "none" /\ filter = <<>>
      /\ Sig' = Sig /\ i \in 1..Len(pairs) /\ Sig.kind = "sig" /\ IsSig(Sig)
  BY DEF pv_signature_filter_files, Sig, IInv, StageInv
<1>2. MatchedBy(<<>>) = {}
  BY NamesEmpty DEF MatchedBy
<1>3. CASE stage = "include"
  <2>1. stage' = "exclude" /\ filter' = Sig.exclude
    BY <1>3 DEF pv_signature_filter_files
  <2>2. TypeOK'
    BY <1>1, <2>1, SigFilters DEF IInv, TypeOK
  <2>3. NamedAt(i) = MatchedBy(Sig.include) \cup MatchedBy(Sig.exclude)
    BY <1>1 DEF NamedAt, Sig
  <2>4. IncludedInv' /\ CoveredInv'
    BY <1>1, <1>2, <1>3, <2>1, <2>3, Frame DEF IInv, IncludedInv, CoveredInv
  <2>5. StageInv' /\ VerifiedInv'
    BY <1>1, <1>3, <2>1, Frame DEF IInv, StageInv, VerifiedInv, IsSig
  <2> QED BY <1>1, <2>2, <2>4, <2>5 DEF IInv, VerdictIsRight
<1>4. CASE stage = "exclude"
  <2>1. stage' = "verify" /\ filter' = <<>>
    BY <1>4 DEF pv_signature_filter_files
  <2>2. TypeOK'
    BY <1>1, <2>1 DEF IInv, TypeOK
  <2>3. IncludedInv' /\ CoveredInv'
    BY <1>1, <1>2, <1>4, <2>1, Frame DEF IInv, IncludedInv, CoveredInv
  <2>4. StageInv' /\ VerifiedInv'
    BY <1>1, <1>4, <2>1, Frame DEF IInv, StageInv, VerifiedInv, IsSig
  <2> QED BY <1>1, <2>2, <2>3, <2>4 DEF IInv, VerdictIsRight
<1> QED BY <1>1, <1>3, <1>4

LEMMA VerifyPvsInv == IInv /\ pv_signature_verify_pvs => IInv'
<1> SUFFICES ASSUME IInv, pv_signature_verify_pvs
             PROVE  IInv'
  OBVIOUS
<1>1. /\ stage = "verify" /\ verdict = "none" /\ i \in 1..Len(pairs)
      /\ Sig.kind = "sig" /\ IsSig(Sig)
  BY DEF pv_signature_verify_pvs, IInv, StageInv
<1>2. Holds(Sig) <=> Sig.alg \in {"RS256", "ES256"} /\ pv_signature_verify_sha256
  <2>1. {Payload[j] : j \in DOMAIN Payload} = Selected(Sig)
    BY <1>1, PayloadOfInv DEF IInv
  <2> QED BY <1>1, <2>1 DEF Holds, pv_signature_verify_sha256, KeyTrusted
<1>3. CASE Holds(Sig)
  <2>1. /\ UNCHANGED <<sb, pairs, filter, included, covered, verdict>>
        /\ i' = i + 1 /\ stage' = "pair"
    BY <1>2, <1>3 DEF pv_signature_verify_pvs
  <2>2. Len(pairs) \in Nat
    BY PairsAreSeq DEF IInv
  <2>3. TypeOK'
    <3>1. i' \in 1..(Len(pairs') + 1)
      BY <1>1, <2>1, <2>2
    <3> QED BY <2>1, <3>1 DEF IInv, TypeOK
  <2>4. CoveredInv'
    <3>1. NamedBefore(i + 1) = NamedBefore(i) \cup NamedAt(i)
      BY <1>1, <2>2, NamedBeforeNext
    <3> QED BY <1>1, <2>1, <3>1, Frame DEF IInv, CoveredInv
  <2>5. VerifiedInv'
    <3>1. \A k \in 1..(i' - 1) : k \in 1..(i - 1) \/ k = i
      BY <1>1, <2>1, <2>2
    <3> QED BY <1>3, <2>1, <3>1, Frame DEF IInv, VerifiedInv, IsSig, Sig
  <2>6. StageInv' /\ IncludedInv'
    BY <1>1, <2>1 DEF IInv, StageInv, IncludedInv
  <2> QED BY <1>1, <2>1, <2>3, <2>4, <2>5, <2>6 DEF IInv, VerdictIsRight
<1>4. CASE ~Holds(Sig)
  BY <1>1, <1>2, <1>4, Failing DEF pv_signature_verify_pvs, Verdict
<1> QED BY <1>3, <1>4

LEMMA AllVerifiedInv == IInv /\ AllVerified => IInv'
<1> SUFFICES ASSUME IInv, AllVerified
             PROVE  IInv'
  OBVIOUS
<1>1. /\ stage = "pair" /\ verdict = "none" /\ i = Len(pairs) + 1
      /\ UNCHANGED <<sb, pairs, i, filter, included, covered>>
  BY PairsAreSeq DEF AllVerified, Verdict, IInv, TypeOK
<1>2. CASE sb = "strict"
  <2>1. stage' = "covered" /\ UNCHANGED verdict
    BY <1>2 DEF AllVerified
  <2>2. TypeOK'
    BY <1>1, <2>1 DEF IInv, TypeOK
  <2>3. StageInv' /\ IncludedInv' /\ CoveredInv' /\ VerifiedInv'
    BY <1>1, <1>2, <2>1, Frame DEF IInv, StageInv, IncludedInv, CoveredInv, VerifiedInv, IsSig
  <2> QED BY <1>1, <2>1, <2>2, <2>3 DEF IInv, VerdictIsRight
<1>3. CASE sb # "strict"
  <2>1. UNCHANGED stage /\ verdict' = "accepted"
    BY <1>3 DEF AllVerified, Verdict
  <2>2. TypeOK'
    BY <1>1, <2>1 DEF IInv, TypeOK
  <2>3. StageInv' /\ IncludedInv' /\ CoveredInv' /\ VerifiedInv'
    BY <1>1, <2>1, Frame DEF IInv, StageInv, IncludedInv, CoveredInv, VerifiedInv, IsSig
  <2>4. VerdictIsRight'
    <3>1. \A s \in Signatures : Holds(s)
      BY <1>1, AllHold DEF IInv
    <3>2. Signatures' = Signatures
      BY <1>1 DEF Signatures, IsSig
    <3> QED BY <1>1, <1>3, <2>1, <3>1, <3>2, Frame DEF VerdictIsRight
  <2> QED BY <2>2, <2>3, <2>4 DEF IInv
<1> QED BY <1>2, <1>3

LEMMA AllCoveredInv == IInv /\ pv_signature_all_covered => IInv'
<1> SUFFICES ASSUME IInv, pv_signature_all_covered
             PROVE  IInv'
  OBVIOUS
<1>1. /\ stage = "covered" /\ verdict = "none" /\ i = Len(pairs) + 1 /\ sb = "strict"
      /\ UNCHANGED <<sb, pairs, i, stage, filter, included, covered>>
  BY DEF pv_signature_all_covered, Verdict, IInv, StageInv
<1>2. verdict' = IF \A j \in 1..Len(pairs) : pairs[j].key \in SigKeys \/ j \in covered
                   THEN "accepted" ELSE "rejected"
  BY DEF pv_signature_all_covered, Verdict
<1>3. TypeOK'
  BY <1>1, <1>2 DEF IInv, TypeOK
<1>4. StageInv' /\ IncludedInv' /\ CoveredInv' /\ VerifiedInv'
  BY <1>1, Frame DEF IInv, StageInv, IncludedInv, CoveredInv, VerifiedInv, IsSig
<1>5. VerdictIsRight'
  <2>1. \A s \in Signatures : Holds(s)
    BY <1>1, AllHold DEF IInv
  <2>2. Signatures' = Signatures
    BY <1>1 DEF Signatures, IsSig
  <2>3. \A key : NamedBySome(key)' <=> NamedBySome(key)
    BY <2>2 DEF NamedBySome, Names
  <2>4. (\A j \in 1..Len(pairs) : pairs[j].key \in SigKeys \/ j \in covered)
          <=> \A q \in ToSet(pairs) : q.key \in SigKeys \/ NamedBySome(q.key)
    <3>1. \A j \in 1..Len(pairs) : j \in covered <=> NamedBySome(pairs[j].key)
      BY <1>1, NamedAtTheEnd DEF IInv, CoveredInv
    <3> QED BY <3>1, PairsAreSeq DEF IInv
  <2> QED BY <1>1, <1>2, <2>1, <2>2, <2>3, <2>4, Frame DEF VerdictIsRight
<1> QED BY <1>3, <1>4, <1>5 DEF IInv

LEMMA StutterInv == IInv /\ UNCHANGED vars => IInv'
<1> SUFFICES ASSUME IInv, UNCHANGED vars
             PROVE  IInv'
  OBVIOUS
<1>1. UNCHANGED <<sb, pairs, i, stage, filter, included, covered, verdict>>
  BY DEF vars
<1>2. TypeOK' /\ Sig' = Sig
  BY <1>1 DEF IInv, TypeOK, Sig
<1>3. StageInv' /\ IncludedInv' /\ CoveredInv' /\ VerifiedInv'
  BY <1>1, <1>2, Frame DEF IInv, StageInv, IncludedInv, CoveredInv, VerifiedInv, IsSig
<1>4. VerdictIsRight'
  <2>1. Signatures' = Signatures
    BY <1>1 DEF Signatures, IsSig
  <2>2. \A key : NamedBySome(key)' <=> NamedBySome(key)
    BY <2>1 DEF NamedBySome, Names
  <2> QED BY <1>1, <2>1, <2>2, Frame DEF IInv, VerdictIsRight
<1> QED BY <1>2, <1>3, <1>4 DEF IInv

-----------------------------------------------------------------------------
THEOREM Invariance == Spec => []IInv
<1>1. IInv /\ [Next]_vars => IInv'
  BY StartInv, SkipPairInv, FindSignatureInv, BadInv, ResetIncludedInv, IncludeFilesInv,
     FilterFilesInv, VerifyPvsInv, AllVerifiedInv, AllCoveredInv, StutterInv
     DEF Next, Done
<1> QED BY <1>1, InitInv, PTL DEF Spec

(***************************************************************************)
(* Every variable keeps its type (signature.c), for states of any length   *)
(* and filters of any form.                                                *)
(***************************************************************************)
THEOREM TypeCorrect == Spec => []TypeOK
<1>1. IInv => TypeOK
  BY DEF IInv
<1> QED BY <1>1, Invariance, PTL

(***************************************************************************)
(* pv_signature_get_filtered_json: although all signatures share the       *)
(* included flags, what is verified for one is what its own filters        *)
(* select, for any number of signatures in any order.                      *)
(***************************************************************************)
THEOREM PayloadCorrect == Spec => []PayloadIsOwnSelection
<1>1. IInv => PayloadIsOwnSelection
  BY PayloadOfInv DEF IInv, PayloadIsOwnSelection
<1> QED BY <1>1, Invariance, PTL

(***************************************************************************)
(* pv_signature_verify: the verdict is the one its definition without      *)
(* flags and order gives, for every state and every mode.                  *)
(***************************************************************************)
THEOREM VerdictCorrect == Spec => []VerdictIsRight
<1>1. IInv => VerdictIsRight
  BY DEF IInv
<1> QED BY <1>1, Invariance, PTL
==============================================================================

---------------------------- MODULE MetadataProofs ----------------------------
(***************************************************************************)
(* Proofs about Metadata, for any keys and values, any faults and any      *)
(* number of files of factory metadata.                                    *)
(***************************************************************************)
EXTENDS Metadata, FiniteSetTheorems, WellFoundedInduction, TLAPS

-----------------------------------------------------------------------------
(* The buffer of an upload. *)

\* Induction over a set of numbers.
LEMMA FromZero ==
  ASSUME NEW S, 0 \in S, \A n \in Nat : n \in S => n + 1 \in S
  PROVE  Nat \subseteq S
<1> DEFINE R == OpToRel(<, Nat)
           T == Nat \ S
<1> SUFFICES ASSUME T # {}
             PROVE  FALSE
  OBVIOUS
<1>1. PICK x \in T : \A y \in T : <<y, x>> \notin R
  <2>1. IsWellFoundedOn(R, Nat) /\ T \subseteq Nat
    BY NatLessThanWellFounded
  <2> HIDE DEF R, T
  <2> QED BY <2>1, WFMin
<1>2. x \in Nat /\ x # 0 /\ x \notin S
  OBVIOUS
<1>3. x - 1 \in Nat /\ x - 1 < x /\ (x - 1) + 1 = x
  BY <1>2
<1>4. x - 1 \in S
  BY <1>1, <1>3 DEF OpToRel
<1> QED BY <1>2, <1>3, <1>4

\* What is left of the buffer is defined by the recursion of Payload.
LEMMA AvailExists ==
  ASSUME NEW n \in Nat
  PROVE  \E avail : avail =
           [i \in 0 .. n |->
              IF i = 0 THEN BufSize - 1
              ELSE avail[i-1] - (IF Fits(devlist[i], avail[i-1])
                                 THEN FragLen[devmeta[devlist[i]]] ELSE 0)]
<1> DEFINE Left(i, left) == left - (IF Fits(devlist[i], left)
                                    THEN FragLen[devmeta[devlist[i]]] ELSE 0)
           Is(a, m) == a = [i \in 0 .. m |-> IF i = 0 THEN BufSize - 1 ELSE Left(i, a[i-1])]
           S == {m \in Nat : \E a : Is(a, m)}
<1> HIDE DEF Left
<1>1. 0 \in S
  <2> DEFINE a == [i \in 0 .. 0 |-> BufSize - 1]
  <2>1. Is(a, 0)
    OBVIOUS
  <2> QED BY <2>1
<1>2. ASSUME NEW m \in Nat, m \in S
      PROVE  m + 1 \in S
  <2>1. PICK a : Is(a, m)
    BY <1>2
  <2> DEFINE b == [i \in 0 .. m + 1 |-> IF i = 0 THEN BufSize - 1 ELSE Left(i, a[i-1])]
  <2>2. \A i \in 0 .. m : b[i] = a[i]
    <3> TAKE i \in 0 .. m
    <3>1. i \in 0 .. m + 1
      OBVIOUS
    <3>2. a[i] = IF i = 0 THEN BufSize - 1 ELSE Left(i, a[i-1])
      BY <2>1
    <3> QED BY <3>1, <3>2
  <2>3. \A i \in 0 .. m + 1 : i # 0 => i - 1 \in 0 .. m
    OBVIOUS
  <2> HIDE DEF b
  <2>4. b = [i \in 0 .. m + 1 |-> IF i = 0 THEN BufSize - 1 ELSE Left(i, b[i-1])]
    BY <2>2, <2>3 DEF b
  <2>5. Is(b, m + 1)
    BY <2>4
  <2> QED BY <2>5
<1>3. n \in S
  <2> HIDE DEF S
  <2> QED BY <1>1, <1>2, FromZero
<1> QED BY <1>3 DEF Left

\* Multiplication keeps the order of two numbers.
LEMMA Monotonic ==
  ASSUME NEW a \in Nat, NEW b \in Nat, NEW c \in Nat, a <= b
  PROVE  a * c <= b * c
<1>1. (b - a) \in Nat /\ (b - a) * c = b * c - a * c
  OBVIOUS
<1>2. \A n \in Nat : n * c \in Nat
  OBVIOUS
<1>3. (b - a) * c \in Nat /\ a * c \in Nat /\ b * c \in Nat
  BY <1>1, <1>2
<1> QED BY <1>1, <1>3

(***************************************************************************)
(* The list of device metadata has one entry for each key that has a       *)
(* value, and flags only such keys.                                        *)
(***************************************************************************)
NoRepeat(s) == \A i, j \in 1 .. Len(s) : i # j => s[i] # s[j]

ListInv ==
  /\ NoRepeat(devlist)
  /\ ToSet(devlist) = {k \in DevKeys : devmeta[k] # None}
  /\ changed \subseteq ToSet(devlist)
  /\ uploaded => changed = {}

\* As pv_metadata_upload_devmeta assumes, "even the complete json would be
\* small enough to fit inside this log_buffer".
PairsFit ==
  \E most \in Nat : /\ \A v \in DevValues : FragLen[v] <= most
                    /\ Cardinality(DevKeys) * most < BufSize - 1

\* The list is no longer than there are keys.
LEMMA ListIsShort ==
  ASSUME TypeOK, ListInv
  PROVE  Len(devlist) \in Nat /\ Len(devlist) <= Cardinality(DevKeys) /\ Cardinality(DevKeys) \in Nat
<1>1. Len(devlist) \in Nat /\ devlist \in [1 .. Len(devlist) -> DevKeys]
  BY DEF TypeOK
<1>2. devlist \in Injection(1 .. Len(devlist), DevKeys)
  BY <1>1 DEF ListInv, NoRepeat, Injection, IsInjective
<1>3. IsFiniteSet(DevKeys) /\ Cardinality(DevKeys) \in Nat
  BY MetadataAssumption, FS_CardinalityType
<1>4. Cardinality(1 .. Len(devlist)) <= Cardinality(DevKeys)
  BY <1>2, <1>3, FS_Injection
<1>5. Cardinality(1 .. Len(devlist)) = Len(devlist)
  <2>1. Cardinality(1 .. Len(devlist)) = IF 1 > Len(devlist) THEN 0 ELSE Len(devlist) - 1 + 1
    BY <1>1, FS_Interval
  <2> QED BY <1>1, <2>1
<1> QED BY <1>1, <1>3, <1>4, <1>5

\* If all pairs fit into the buffer, an upload leaves out none.
LEMMA PayloadIsWhole ==
  ASSUME TypeOK, ListInv, PairsFit
  PROVE  changed \subseteq Payload
<1>1. PICK most \in Nat : /\ \A v \in DevValues : FragLen[v] <= most
                          /\ Cardinality(DevKeys) * most < BufSize - 1
  BY DEF PairsFit
<1>2. Len(devlist) \in Nat /\ Len(devlist) <= Cardinality(DevKeys) /\ Cardinality(DevKeys) \in Nat
  BY ListIsShort
<1> DEFINE n == Len(devlist)
           Frag(i) == FragLen[devmeta[devlist[i]]]
           avail == CHOOSE avail : avail =
                      [i \in 0 .. Len(devlist) |->
                         IF i = 0 THEN BufSize - 1
                         ELSE avail[i-1] - (IF Fits(devlist[i], avail[i-1])
                                            THEN FragLen[devmeta[devlist[i]]] ELSE 0)]
<1>3. avail = [i \in 0 .. n |->
                 IF i = 0 THEN BufSize - 1
                 ELSE avail[i-1] - (IF Fits(devlist[i], avail[i-1]) THEN Frag(i) ELSE 0)]
  BY <1>2, AvailExists
<1>4. Payload = {devlist[i] : i \in {j \in 1 .. n : Fits(devlist[j], avail[j-1])}}
  BY DEF Payload
<1>5. \A i \in 1 .. n : Frag(i) \in Nat /\ Frag(i) <= most
  <2> TAKE i \in 1 .. n
  <2>1. devlist[i] \in ToSet(devlist)
    BY DEF ToSet, TypeOK
  <2>2. devmeta[devlist[i]] \in DevValues
    BY <2>1 DEF ListInv, TypeOK, Maybe
  <2> QED BY <1>1, <2>2, MetadataAssumption
<1> HIDE DEF avail, Frag
<1> DEFINE Enough(i) == avail[i] \in Int /\ avail[i] >= BufSize - 1 - i * most
           S == {i \in Nat : i <= n => Enough(i)}
<1>6. 0 \in S
  BY <1>2, <1>3, MetadataAssumption
<1>7. ASSUME NEW i \in Nat, i \in S, i + 1 <= n
      PROVE  Enough(i + 1)
  <2>1. Enough(i)
    BY <1>2, <1>7
  <2>2. avail[i + 1] \in {avail[i], avail[i] - Frag(i + 1)}
    <3>1. i + 1 \in 0 .. n /\ i + 1 # 0 /\ (i + 1) - 1 = i
      BY <1>2, <1>7
    <3>2. avail[i + 1] = avail[i] - (IF Fits(devlist[i + 1], avail[i]) THEN Frag(i + 1) ELSE 0)
      BY <1>3, <3>1
    <3> QED BY <2>1, <3>2
  <2>3. Frag(i + 1) \in Nat /\ Frag(i + 1) <= most
    BY <1>2, <1>5, <1>7
  <2>4. (i + 1) * most = i * most + most /\ i * most \in Int
    BY <1>1
  <2> QED BY <1>1, <2>1, <2>2, <2>3, <2>4, MetadataAssumption
<1>8. \A i \in 0 .. n : Enough(i)
  <2>1. Nat \subseteq S
    <3>1. \A i \in Nat : i \in S => i + 1 \in S
      BY <1>7
    <3> HIDE DEF S
    <3> QED BY <1>6, <3>1, FromZero
  <2> QED BY <1>2, <2>1
<1>9. ASSUME NEW j \in 1 .. n
      PROVE  avail[j-1] > Frag(j)
  <2>1. Enough(j - 1)
    BY <1>2, <1>8
  <2>2. j * most <= n * most /\ n * most <= Cardinality(DevKeys) * most
    BY <1>1, <1>2, Monotonic
  <2>3. (j - 1) * most = j * most - most /\ j * most \in Int /\ n * most \in Int
        /\ Cardinality(DevKeys) * most \in Int
    BY <1>1, <1>2
  <2> QED BY <1>1, <1>2, <1>5, <2>1, <2>2, <2>3, MetadataAssumption
<1> SUFFICES ASSUME NEW k \in changed
             PROVE  k \in Payload
  OBVIOUS
<1>10. PICK j \in 1 .. n : k = devlist[j]
  BY DEF ListInv, ToSet, TypeOK
<1>11. Fits(devlist[j], avail[j-1])
  BY <1>9, <1>10 DEF Fits, Frag
<1> QED BY <1>4, <1>10, <1>11

-----------------------------------------------------------------------------
(* Types. *)

\* The orders of a finite set are its sequences without repetition.
LEMMA OrdersFit ==
  ASSUME NEW S, IsFiniteSet(S), NEW s \in SetToSeqs(S)
  PROVE  s \in Seq(S) /\ ToSet(s) = S /\ NoRepeat(s)
<1>1. Cardinality(S) \in Nat
  BY FS_CardinalityType
<1>2. /\ s \in [1 .. Cardinality(S) -> S]
      /\ \A i, j \in 1 .. Cardinality(S) : i # j => s[i] # s[j]
  BY DEF SetToSeqs
<1>3. s \in Seq(S) /\ Len(s) = Cardinality(S)
  BY <1>1, <1>2
<1>4. s \in Injection(1 .. Cardinality(S), S)
  BY <1>2 DEF Injection, IsInjective
<1>5. Cardinality(1 .. Cardinality(S)) = Cardinality(S)
  <2>1. Cardinality(1 .. Cardinality(S)) =
          IF 1 > Cardinality(S) THEN 0 ELSE Cardinality(S) - 1 + 1
    BY <1>1, FS_Interval
  <2> QED BY <1>1, <2>1
<1>6. s \in Surjection(1 .. Cardinality(S), S)
  BY <1>4, <1>5, FS_Injection
<1>7. ToSet(s) = S
  BY <1>2, <1>6 DEF ToSet, Surjection
<1> QED BY <1>2, <1>3, <1>7 DEF NoRepeat

\* The elements of a list, by their index.
LEMMA Elements ==
  ASSUME NEW K, NEW s \in Seq(K)
  PROVE  \A x : x \in ToSet(s) <=> \E i \in 1 .. Len(s) : x = s[i]
<1>1. DOMAIN s = 1 .. Len(s)
  OBVIOUS
<1> QED BY <1>1, Zenon DEF ToSet

\* Two lists without repetition that have no key in common.
LEMMA ConcatFits ==
  ASSUME NEW K, NEW s \in Seq(K), NEW t \in Seq(K), ToSet(s) \cap ToSet(t) = {},
         NoRepeat(s), NoRepeat(t)
  PROVE  s \o t \in Seq(K) /\ ToSet(s \o t) = ToSet(s) \cup ToSet(t) /\ NoRepeat(s \o t)
<1> DEFINE c == s \o t
           m == Len(s)
           n == Len(t)
<1>1. m \in Nat /\ n \in Nat /\ c \in Seq(K) /\ Len(c) = m + n
  OBVIOUS
<1>2. /\ \A i \in 1 .. m : i \in 1 .. Len(c) /\ c[i] = s[i]
      /\ \A i \in 1 .. n : m + i \in 1 .. Len(c) /\ c[m + i] = t[i]
  OBVIOUS
<1>3. \A i \in 1 .. Len(c) : i \in 1 .. m \/ i - m \in 1 .. n
  BY <1>1
<1> HIDE DEF c
<1>4. /\ \A x : x \in ToSet(s) <=> \E i \in 1 .. m : x = s[i]
      /\ \A x : x \in ToSet(t) <=> \E i \in 1 .. n : x = t[i]
      /\ \A x : x \in ToSet(c) <=> \E i \in 1 .. Len(c) : x = c[i]
  <2>1. \A x : x \in ToSet(s) <=> \E i \in 1 .. m : x = s[i]
    BY Elements
  <2>2. \A x : x \in ToSet(t) <=> \E i \in 1 .. n : x = t[i]
    BY Elements
  <2>3. c \in Seq(K)
    BY <1>1
  <2>4. \A x : x \in ToSet(c) <=> \E i \in 1 .. Len(c) : x = c[i]
    BY <2>3, Elements
  <2> QED BY <2>1, <2>2, <2>4
<1> HIDE DEF m, n
<1>5. \A i \in 1 .. Len(c) :
        \/ i \in 1 .. m /\ c[i] = s[i]
        \/ i - m \in 1 .. n /\ c[i] = t[i - m]
  <2> TAKE i \in 1 .. Len(c)
  <2>1. CASE i \in 1 .. m
    BY <1>2, <2>1
  <2>2. CASE i - m \in 1 .. n
    <3>1. m + (i - m) = i
      BY <1>1
    <3> QED BY <1>2, <2>2, <3>1
  <2> QED BY <1>3, <2>1, <2>2
<1>6. ASSUME NEW x
      PROVE  x \in ToSet(c) <=> x \in ToSet(s) \/ x \in ToSet(t)
  <2>1. ASSUME x \in ToSet(c)
        PROVE  x \in ToSet(s) \/ x \in ToSet(t)
    <3>1. PICK i \in 1 .. Len(c) : x = c[i]
      BY <1>4, <2>1, Zenon
    <3> QED BY <1>4, <1>5, <3>1, Zenon
  <2>2. ASSUME x \in ToSet(s)
        PROVE  x \in ToSet(c)
    <3>1. PICK i \in 1 .. m : x = s[i]
      BY <1>4, <2>2, Zenon
    <3> QED BY <1>2, <1>4, <3>1, Zenon
  <2>3. ASSUME x \in ToSet(t)
        PROVE  x \in ToSet(c)
    <3>1. PICK i \in 1 .. n : x = t[i]
      BY <1>4, <2>3, Zenon
    <3> QED BY <1>2, <1>4, <3>1, Zenon
  <2> QED BY <2>1, <2>2, <2>3
<1>7. ToSet(c) = ToSet(s) \cup ToSet(t)
  BY <1>6
<1>8. ASSUME NEW i \in 1 .. Len(c), NEW j \in 1 .. Len(c), i # j
      PROVE  c[i] # c[j]
  <2>1. CASE i \in 1 .. m /\ c[i] = s[i] /\ j \in 1 .. m /\ c[j] = s[j]
    BY <1>8, <2>1 DEF m, NoRepeat
  <2>2. CASE i - m \in 1 .. n /\ c[i] = t[i - m] /\ j - m \in 1 .. n /\ c[j] = t[j - m]
    <3>1. i - m # j - m
      BY <1>1, <1>8
    <3> QED BY <2>2, <3>1 DEF n, NoRepeat
  <2>3. CASE i \in 1 .. m /\ c[i] = s[i] /\ j - m \in 1 .. n /\ c[j] = t[j - m]
    BY <1>4, <2>3
  <2>4. CASE i - m \in 1 .. n /\ c[i] = t[i - m] /\ j \in 1 .. m /\ c[j] = s[j]
    BY <1>4, <2>4
  <2> QED BY <1>5, <2>1, <2>2, <2>3, <2>4
<1>9. c \in Seq(K) /\ NoRepeat(c)
  BY <1>1, <1>8 DEF NoRepeat
<1> QED BY <1>7, <1>9 DEF c

\* What pv_metadata_add_devmeta leaves behind.
LEMMA AddFits ==
  ASSUME TypeOK, ListInv, NEW K \in SUBSET DevKeys, NEW new \in [K -> DevValues],
         pv_metadata_add_devmeta(new)
  PROVE  /\ devlist' \in Seq(DevKeys)
         /\ NoRepeat(devlist')
         /\ ToSet(devlist') = ToSet(devlist) \cup K
         /\ devmeta' = [k \in DevKeys |-> IF k \in K THEN new[k] ELSE devmeta[k]]
         /\ devmeta' \in [DevKeys -> Maybe(DevValues)]
         /\ changed' = changed \cup Touched(new)
         /\ (uploaded' => uploaded /\ Touched(new) = {}) => ListInv'
<1> DEFINE S == {k \in K : devmeta[k] = None}
<1>1. DOMAIN new = K
  OBVIOUS
<1>2. PICK front \in SetToSeqs(S) : devlist' = front \o devlist
  BY <1>1 DEF pv_metadata_add_devmeta, InList
<1>3. IsFiniteSet(S)
  BY MetadataAssumption, FS_Subset
<1>4. front \in Seq(S) /\ ToSet(front) = S /\ NoRepeat(front)
  BY <1>3, OrdersFit
<1>5. front \in Seq(DevKeys) /\ devlist \in Seq(DevKeys) /\ Len(front) \in Nat /\ Len(devlist) \in Nat
  BY <1>4 DEF TypeOK
<1>6. ToSet(front) \cap ToSet(devlist) = {}
  BY <1>4 DEF ListInv
<1>7. devlist' \in Seq(DevKeys) /\ ToSet(devlist') = ToSet(front) \cup ToSet(devlist) /\ NoRepeat(devlist')
  <2>1. NoRepeat(devlist)
    BY DEF ListInv
  <2>2. /\ front \o devlist \in Seq(DevKeys)
        /\ ToSet(front \o devlist) = ToSet(front) \cup ToSet(devlist)
        /\ NoRepeat(front \o devlist)
    <3>1. front \in Seq(DevKeys) /\ devlist \in Seq(DevKeys)
      BY <1>5
    <3>2. NoRepeat(front)
      BY <1>4
    <3> HIDE DEF S
    <3> QED BY <1>6, <2>1, <3>1, <3>2, ConcatFits
  <2> QED BY <1>2, <2>2, Zenon
<1>8. ToSet(devlist') = ToSet(devlist) \cup K
  BY <1>4, <1>7 DEF ListInv
<1>9. devmeta' = [k \in DevKeys |-> IF k \in K THEN new[k] ELSE devmeta[k]]
  BY <1>1 DEF pv_metadata_add_devmeta, InMeta
<1>10. devmeta' \in [DevKeys -> Maybe(DevValues)]
  BY <1>9 DEF TypeOK, Maybe
<1>11. changed' = changed \cup Touched(new) /\ Touched(new) \subseteq K
  BY <1>1 DEF pv_metadata_add_devmeta, Touched
<1>12. ToSet(devlist') = {k \in DevKeys : devmeta'[k] # None}
  BY <1>8, <1>9, MetadataAssumption DEF ListInv
<1>13. changed' \subseteq ToSet(devlist')
  BY <1>8, <1>11 DEF ListInv
<1>14. ASSUME uploaded' => uploaded /\ Touched(new) = {}
       PROVE  uploaded' => changed' = {}
  BY <1>11, <1>14 DEF ListInv
<1>15. (uploaded' => uploaded /\ Touched(new) = {}) => ListInv'
  BY <1>7, <1>12, <1>13, <1>14 DEF ListInv
<1> QED BY <1>7, <1>8, <1>9, <1>10, <1>11, <1>15

\* What may be in files once they are written, or removed, has their type.
LEMMA FilesFit ==
  ASSUME NEW K, NEW f \in [K -> Maybe(Values)]
  PROVE  /\ \A new, failed : pv_storage_save_usermeta(new, f, failed) \subseteq [K -> Maybe(Values)]
         /\ \A keys : pv_storage_rm_usermeta(keys, f) \in [K -> Maybe(Values)]
<1>1. DOMAIN f = K
  OBVIOUS
<1>2. \A new, failed : pv_storage_save_usermeta(new, f, failed) \subseteq [K -> Maybe(Values)]
  BY <1>1 DEF pv_storage_save_usermeta
<1>3. \A keys : pv_storage_rm_usermeta(keys, f) \in [K -> Maybe(Values)]
  BY <1>1 DEF pv_storage_rm_usermeta, Maybe
<1> QED BY <1>2, <1>3

\* The settings after an edit, an answer of the cloud or a load.
LEMMA OverrideFits ==
  ASSUME TypeOK, NEW new \in [UserKeys -> Maybe(Values)], pv_config_override_value(new)
  PROVE  conf' \in [ConfKeys -> Maybe(Values)] /\ overwritten' \in SUBSET ConfKeys
<1>1. \A k \in ConfKeys : new[k] \in Maybe(Values)
  BY MetadataAssumption
<1>2. /\ conf' = [k \in ConfKeys |-> IF k \in Fresh(new) THEN new[k] ELSE conf[k]]
      /\ overwritten' = overwritten \ Fresh(new)
  BY DEF pv_config_override_value
<1>3. conf \in [ConfKeys -> Maybe(Values)] /\ overwritten \in SUBSET ConfKeys
  BY DEF TypeOK
<1> QED BY <1>1, <1>2, <1>3

\* The types of the variables of user metadata that a step may change while
\* pantavisor runs.
UserTypes ==
  /\ usermeta \in [UserKeys -> Maybe(Values)] /\ seen \in SUBSET UserKeys
  /\ conf \in [ConfKeys -> Maybe(Values)]
  /\ file \in [UserKeys -> Maybe(Values)] /\ platfile \in [PlatKeys -> Maybe(Values)]
  /\ unsaved \in SUBSET UserKeys /\ overwritten \in SUBSET ConfKeys

\* They keep their types when pairs are added,
LEMMA AddUserFits ==
  ASSUME TypeOK, NEW new \in [UserKeys -> Maybe(Values)], NEW failed \in SUBSET Fresh(new),
         pv_metadata_add_usermeta(new, failed)
  PROVE  UserTypes'
<1>1. /\ usermeta' \in [UserKeys -> Maybe(Values)] /\ seen' \in SUBSET UserKeys
      /\ unsaved' \in SUBSET UserKeys
  BY DEF pv_metadata_add_usermeta, TypeOK, Fresh
<1>2. file' \in [UserKeys -> Maybe(Values)] /\ platfile' \in [PlatKeys -> Maybe(Values)]
  <2>1. file \in [UserKeys -> Maybe(Values)] /\ platfile \in [PlatKeys -> Maybe(Values)]
    BY DEF TypeOK
  <2>2. /\ file' \in pv_storage_save_usermeta(new, file, failed)
        /\ platfile' \in pv_storage_save_usermeta(new, platfile, failed)
    BY DEF pv_metadata_add_usermeta
  <2> QED BY <2>1, <2>2, FilesFit
<1>3. conf' \in [ConfKeys -> Maybe(Values)] /\ overwritten' \in SUBSET ConfKeys
  BY OverrideFits DEF pv_metadata_add_usermeta
<1> QED BY <1>1, <1>2, <1>3 DEF UserTypes

\* and after an answer of the cloud.
LEMMA ParseFits ==
  ASSUME TypeOK, NEW answer \in [UserKeys -> Maybe(Values)], NEW failed \in SUBSET Fresh(answer),
         pv_metadata_parse_usermeta(answer, failed)
  PROVE  UserTypes'
<1> DEFINE gone == usermeta_clear(answer)
<1>1. /\ usermeta' = [k \in UserKeys |-> IF k \in gone THEN None
                                         ELSE IF answer[k] = None THEN usermeta[k] ELSE answer[k]]
      /\ seen' = {} /\ pv_config_override_value(answer)
      /\ unsaved' = ((unsaved \ Fresh(answer)) \cup failed) \ gone
  BY DEF pv_metadata_parse_usermeta
<1>2. PICK f \in pv_storage_save_usermeta(answer, file, failed) :
        file' = pv_storage_rm_usermeta(gone, f)
  BY DEF pv_metadata_parse_usermeta
<1>3. PICK g \in pv_storage_save_usermeta(answer, platfile, failed) :
        platfile' = pv_storage_rm_usermeta(gone, g)
  BY DEF pv_metadata_parse_usermeta
<1> HIDE DEF gone
<1>4. usermeta' \in [UserKeys -> Maybe(Values)] /\ unsaved' \in SUBSET UserKeys
  BY <1>1 DEF TypeOK, Maybe, Fresh
<1>5. file \in [UserKeys -> Maybe(Values)] /\ platfile \in [PlatKeys -> Maybe(Values)]
  BY DEF TypeOK
<1>6. f \in [UserKeys -> Maybe(Values)] /\ g \in [PlatKeys -> Maybe(Values)]
  BY <1>5, FilesFit
<1>7. file' \in [UserKeys -> Maybe(Values)] /\ platfile' \in [PlatKeys -> Maybe(Values)]
  BY <1>2, <1>3, <1>6, FilesFit
<1>8. conf' \in [ConfKeys -> Maybe(Values)] /\ overwritten' \in SUBSET ConfKeys
  BY <1>1, OverrideFits
<1> QED BY <1>1, <1>4, <1>7, <1>8 DEF UserTypes

\* Each step keeps the types and the list of device metadata.
LEMMA TypeNext ==
  ASSUME TypeOK, ListInv, [Next]_vars
  PROVE  TypeOK' /\ ListInv'
<1> USE MetadataAssumption
<1> DEFINE User == [UserKeys -> Maybe(Values)]
<1>1. CASE pv_metadata_init
  <2>1. Loaded \in User
    BY DEF TypeOK, Loaded, pv_storage_load_file, Maybe
  <2>2. PICK failed \in SUBSET Fresh(Loaded) :
          pv_metadata_add_usermeta(Loaded, failed) /\ FaultIf(failed # {})
    BY <1>1 DEF pv_metadata_init
  <2>3. UserTypes'
    BY <2>1, <2>2, AddUserFits
  <2>4. /\ mode' = "run" /\ stored' = [k \in UserKeys |-> IF Loaded[k] = None THEN stored[k] ELSE Empty]
        /\ UNCHANGED <<rev0, remote, unclaimed, cloudUser, devVars, cloudDev, factVars, changes>>
    BY <1>1 DEF pv_metadata_init
  <2>5. stored' \in User /\ faults' \in 0 .. MaxFaults
    <3> HIDE DEF User
    <3>1. stored' \in User
      BY <2>4 DEF User, TypeOK, Maybe
    <3>2. faults' \in 0 .. MaxFaults
      BY <2>2 DEF FaultIf, Fault, TypeOK
    <3> QED BY <3>1, <3>2
  <2>6. TypeOK'
    BY <2>3, <2>4, <2>5 DEF TypeOK, UserTypes, devVars, factVars
  <2> QED BY <2>4, <2>6 DEF ListInv, devVars
<1>2. CASE pv_metadata_init_devmeta
  <2>1. PICK new \in Readings : pv_metadata_add_devmeta(new)
    BY <1>2 DEF pv_metadata_init_devmeta
  <2>2. new \in [SysKeys -> DevValues] /\ SysKeys \in SUBSET DevKeys
    BY DEF Readings
  <2>3. /\ uploaded' = FALSE /\ mode' = "wait" /\ remote' \in BOOLEAN
        /\ UNCHANGED <<rev0, unclaimed, userVars, cloudUser, cloudDev, factVars, changes, faults>>
    BY <1>2 DEF pv_metadata_init_devmeta
  <2>4. /\ devlist' \in Seq(DevKeys) /\ devmeta' \in [DevKeys -> Maybe(DevValues)]
        /\ changed' = changed \cup Touched(new) /\ ListInv'
    BY <2>1, <2>2, <2>3, AddFits
  <2>5. changed' \in SUBSET DevKeys
    BY <2>2, <2>4 DEF Touched, TypeOK
  <2>6. TypeOK'
    BY <2>3, <2>4, <2>5 DEF TypeOK, userVars, factVars
  <2> QED BY <2>4, <2>6
<1>3. ASSUME NEW k \in UserKeys, NEW v \in Values, CtrlPutUserMeta(k, v)
      PROVE  TypeOK' /\ ListInv'
  <2> DEFINE new == [j \in UserKeys |-> IF j = k THEN v ELSE None]
  <2>1. new \in User
    BY DEF Maybe
  <2>2. PICK failed \in SUBSET Fresh(new) :
          pv_metadata_add_usermeta(new, failed) /\ FaultIf(failed # {})
    BY <1>3 DEF CtrlPutUserMeta
  <2> HIDE DEF new
  <2>3. UserTypes'
    BY <2>1, <2>2, AddUserFits
  <2>4. faults' \in 0 .. MaxFaults /\ changes' \in 0 .. MaxChanges
    BY <1>3, <2>2 DEF CtrlPutUserMeta, FaultIf, Fault, Change, TypeOK
  <2>5. UNCHANGED <<mode, rev0, remote, unclaimed, stored, cloudUser, devVars, cloudDev, factVars>>
    BY <1>3 DEF CtrlPutUserMeta
  <2>6. TypeOK'
    BY <2>3, <2>4, <2>5 DEF TypeOK, UserTypes, devVars, factVars
  <2> QED BY <2>5, <2>6 DEF ListInv, devVars
<1>4. ASSUME NEW k \in UserKeys, CtrlDeleteUserMeta(k)
      PROVE  TypeOK' /\ ListInv'
  <2>1. UserTypes'
    BY <1>4, FilesFit DEF CtrlDeleteUserMeta, pv_metadata_rm_usermeta, TypeOK, UserTypes, Maybe
  <2>2. /\ changes' \in 0 .. MaxChanges
        /\ UNCHANGED <<mode, rev0, remote, unclaimed, stored, cloudUser, devVars, cloudDev, factVars, faults>>
    BY <1>4 DEF CtrlDeleteUserMeta, Change, TypeOK
  <2>3. TypeOK'
    BY <2>1, <2>2 DEF TypeOK, UserTypes, devVars, factVars
  <2> QED BY <2>2, <2>3 DEF ListInv, devVars
<1>5. CASE pv_ph_device_get_meta
  <2>1. PICK answer \in User, failed \in SUBSET UserKeys :
          /\ failed \in SUBSET Fresh(answer)
          /\ pv_metadata_parse_usermeta(answer, failed)
          /\ FaultIf(failed # {}) \/ Fault
    <3>1. [k \in UserKeys |-> None] \in User /\ cloudUser \in User
      BY DEF Maybe, TypeOK
    <3>2. \A new : Fresh(new) \subseteq UserKeys
      BY DEF Fresh
    <3> QED BY <1>5, <3>1, <3>2 DEF pv_ph_device_get_meta
  <2>2. UserTypes'
    BY <2>1, ParseFits
  <2>3. faults' \in 0 .. MaxFaults
    BY <2>1 DEF FaultIf, Fault, TypeOK
  <2>4. /\ mode' = "upload"
        /\ UNCHANGED <<rev0, remote, unclaimed, stored, cloudUser, devVars, cloudDev, factVars, changes>>
    BY <1>5 DEF pv_ph_device_get_meta
  <2>5. TypeOK'
    BY <2>2, <2>3, <2>4 DEF TypeOK, UserTypes, devVars, factVars
  <2> QED BY <2>4, <2>5 DEF ListInv, devVars
<1>6. ASSUME NEW k \in DevKeys, NEW v \in DevValues, UpdateDevMeta(k, v)
      PROVE  TypeOK' /\ ListInv'
  <2> DEFINE new == [j \in {k} |-> v]
  <2>1. {k} \in SUBSET DevKeys /\ new \in [{k} -> DevValues] /\ pv_metadata_add_devmeta(new)
        /\ uploaded' = (uploaded /\ Touched(new) = {})
    BY <1>6 DEF UpdateDevMeta
  <2> HIDE DEF new
  <2>2. uploaded' \in BOOLEAN
    BY <2>1
  <2>3. /\ changes' \in 0 .. MaxChanges
        /\ UNCHANGED <<mode, rev0, remote, unclaimed, userVars, cloudUser, cloudDev, factVars, faults>>
    BY <1>6 DEF UpdateDevMeta, Change, TypeOK
  <2>4. uploaded' => uploaded /\ Touched(new) = {}
    BY <2>1
  <2>5. /\ devlist' \in Seq(DevKeys) /\ devmeta' \in [DevKeys -> Maybe(DevValues)]
        /\ changed' = changed \cup Touched(new) /\ ListInv'
    BY <2>1, <2>4, AddFits
  <2>6. changed' \in SUBSET DevKeys
    BY <2>1, <2>5 DEF Touched, TypeOK
  <2>7. TypeOK'
    BY <2>2, <2>3, <2>5, <2>6 DEF TypeOK, userVars, factVars
  <2> QED BY <2>5, <2>7
<1>7. CASE pv_metadata_upload_devmeta
  <2> DEFINE All == [k \in DevKeys |-> IF k \in Payload THEN devmeta[k] ELSE cloudDev[k]]
  <2>1. All \in [DevKeys -> Maybe(DevValues)]
    <3> HIDE DEF Payload
    <3> QED BY DEF TypeOK
  <2>2. cloudDev' \in {cloudDev, All} /\ (UNCHANGED faults \/ Fault)
    BY <1>7 DEF pv_metadata_upload_devmeta, pv_ph_upload_metadata
  <2>3. \/ UNCHANGED <<changed, uploaded>>
        \/ changed' = {} /\ uploaded' = TRUE
    BY <1>7 DEF pv_metadata_upload_devmeta
  <2>4. /\ mode' = "wait"
        /\ UNCHANGED <<rev0, remote, unclaimed, userVars, cloudUser, devlist, devmeta, factVars, changes>>
    BY <1>7 DEF pv_metadata_upload_devmeta
  <2>5. cloudDev' \in [DevKeys -> Maybe(DevValues)] /\ faults' \in 0 .. MaxFaults
    BY <2>1, <2>2 DEF TypeOK, Fault
  <2>6. TypeOK'
    BY <2>3, <2>4, <2>5 DEF TypeOK, userVars, factVars
  <2>7. ListInv'
    BY <2>3, <2>4 DEF ListInv
  <2> QED BY <2>6, <2>7
<1>8. CASE EnterFactoryUpload
  <2>1. /\ mode' = "factory" /\ todo' = FactoryFiles
        /\ UNCHANGED <<rev0, remote, unclaimed, userVars, cloudUser, devVars, cloudDev, doneMark, cloudFact,
                       changes, faults>>
    BY <1>8 DEF EnterFactoryUpload
  <2>2. TypeOK'
    BY <2>1 DEF TypeOK, userVars, devVars
  <2>3. ListInv'
    BY <2>1 DEF ListInv, devVars
  <2> QED BY <2>2, <2>3
<1>9. CASE pv_metadata_factory_meta
  <2>1. /\ mode' \in {"factory", "wait"} /\ doneMark' \in BOOLEAN
        /\ UNCHANGED <<rev0, remote, unclaimed, userVars, cloudUser, devVars, cloudDev, changes>>
    BY <1>9 DEF pv_metadata_factory_meta, TypeOK
  <2>2. todo' \in 0 .. FactoryFiles /\ faults' \in 0 .. MaxFaults
    BY <1>9 DEF pv_metadata_factory_meta, Fault, TypeOK
  <2>3. cloudFact' = cloudFact \/ (todo > 0 /\ cloudFact' = cloudFact \cup {todo})
    BY <1>9 DEF pv_metadata_factory_meta, Sent
  <2>4. todo > 0 => todo \in 1 .. FactoryFiles
    BY DEF TypeOK
  <2>5. cloudFact' \in SUBSET (1 .. FactoryFiles)
    <3>1. cloudFact \in SUBSET (1 .. FactoryFiles)
      BY DEF TypeOK
    <3> QED BY <2>3, <2>4, <3>1, Zenon
  <2>6. TypeOK'
    BY <2>1, <2>2, <2>5 DEF TypeOK, userVars, devVars
  <2>7. ListInv'
    BY <2>1 DEF ListInv, devVars
  <2> QED BY <2>6, <2>7
<1>10. CASE pv_metadata_remove \/ PowerLoss
  <2>1. /\ usermeta' \in User /\ seen' = {} /\ conf' \in [ConfKeys -> Maybe(Values)]
        /\ platfile' \in [PlatKeys -> Maybe(Values)]
        /\ devlist' = <<>> /\ devmeta' = [k \in DevKeys |-> None] /\ changed' = {} /\ uploaded' = TRUE
        /\ mode' = "off" /\ rev0' \in BOOLEAN /\ remote' = FALSE
        /\ unsaved' = {} /\ overwritten' = {}
    BY <1>10 DEF pv_metadata_remove, PowerLoss, pv_usermeta_remove, pv_devmeta_remove, Maybe
  <2>2. file' \in User /\ stored' \in User
    BY <1>10 DEF pv_metadata_remove, PowerLoss, TypeOK
  <2>3. /\ todo' \in 0 .. FactoryFiles /\ changes' \in 0 .. MaxChanges /\ faults' \in 0 .. MaxFaults
        /\ UNCHANGED <<unclaimed, cloudUser, cloudDev, doneMark, cloudFact>>
    BY <1>10 DEF pv_metadata_remove, PowerLoss, Change, Fault, TypeOK, factVars
  <2>4. /\ unclaimed' \in BOOLEAN /\ doneMark' \in BOOLEAN /\ cloudUser' \in User
        /\ cloudDev' \in [DevKeys -> Maybe(DevValues)] /\ cloudFact' \in SUBSET (1 .. FactoryFiles)
    BY <2>3 DEF TypeOK
  <2>5. /\ devlist' \in Seq(DevKeys) /\ devmeta' \in [DevKeys -> Maybe(DevValues)]
        /\ changed' \in SUBSET DevKeys /\ uploaded' \in BOOLEAN /\ remote' \in BOOLEAN
        /\ seen' \in SUBSET UserKeys /\ unsaved' \in SUBSET UserKeys
        /\ overwritten' \in SUBSET ConfKeys /\ conf' \in [ConfKeys -> Maybe(Values)]
    <3>1. <<>> \in Seq(DevKeys)
      OBVIOUS
    <3>2. devmeta' \in [DevKeys -> Maybe(DevValues)]
      BY <2>1 DEF Maybe
    <3>3. conf' \in [ConfKeys -> Maybe(Values)]
      BY <2>1
    <3> QED BY <2>1, <3>1, <3>2, <3>3
  <2>6. /\ mode' \in {"off", "run", "wait", "upload", "factory"} /\ rev0' \in BOOLEAN
        /\ usermeta' \in User /\ platfile' \in [PlatKeys -> Maybe(Values)]
    BY <2>1
  <2>7. todo' \in 0 .. FactoryFiles /\ changes' \in 0 .. MaxChanges /\ faults' \in 0 .. MaxFaults
    BY <2>3
  <2>8. TypeOK'
    BY <2>2, <2>4, <2>5, <2>6, <2>7, Zenon DEF TypeOK
  <2> QED BY <2>1, <2>8 DEF ListInv, NoRepeat, ToSet
<1>11. ASSUME NEW k \in UserKeys, NEW v \in Maybe(Values), CloudEdit(k, v)
       PROVE  TypeOK' /\ ListInv'
  <2>1. /\ cloudUser' \in User /\ changes' \in 0 .. MaxChanges
        /\ UNCHANGED <<mode, rev0, remote, unclaimed, userVars, devVars, cloudDev, factVars, faults>>
    BY <1>11 DEF CloudEdit, Change, TypeOK
  <2>2. TypeOK'
    BY <2>1 DEF TypeOK, userVars, devVars, factVars
  <2>3. ListInv'
    BY <2>1 DEF ListInv, devVars
  <2> QED BY <2>2, <2>3
<1>12. CASE WriteBack
  <2>1. stored' \in User
    BY <1>12 DEF WriteBack, TypeOK
  <2>2. TypeOK'
    BY <1>12, <2>1 DEF WriteBack, TypeOK, devVars, factVars
  <2>3. ListInv'
    BY <1>12 DEF WriteBack, ListInv, devVars
  <2> QED BY <2>2, <2>3
<1>13. CASE NonReboot
  <2>1. /\ mode' = "run" /\ rev0' = FALSE /\ changes' \in 0 .. MaxChanges
        /\ UNCHANGED <<remote, unclaimed, userVars, cloudUser, devVars, cloudDev, factVars, faults>>
    BY <1>13 DEF NonReboot, Change, TypeOK
  <2>2. TypeOK'
    BY <2>1 DEF TypeOK, userVars, devVars, factVars
  <2>3. ListInv'
    BY <2>1 DEF ListInv, devVars
  <2> QED BY <2>2, <2>3
<1>14. CASE UNCHANGED vars
  <2>1. TypeOK'
    BY <1>14 DEF TypeOK, vars, userVars, devVars, factVars
  <2>2. ListInv'
    BY <1>14 DEF ListInv, vars, devVars
  <2> QED BY <2>1, <2>2
<1>15. CASE pv_wait_unclaimed
  <2>1. conf' \in [ConfKeys -> Maybe(Values)] /\ overwritten' \in SUBSET ConfKeys
    <3>1. pv_config_load_creds
      BY <1>15 DEF pv_wait_unclaimed
    <3>2. conf \in [ConfKeys -> Maybe(Values)] /\ overwritten \in SUBSET ConfKeys
      BY DEF TypeOK
    <3> QED BY <3>1, <3>2 DEF pv_config_load_creds, Maybe
  <2>2. /\ mode' \in {mode, "factory"} /\ unclaimed' \in BOOLEAN /\ todo' \in 0 .. FactoryFiles
        /\ faults' \in 0 .. MaxFaults
    <3>1. /\ unclaimed \in BOOLEAN /\ todo \in 0 .. FactoryFiles /\ faults \in 0 .. MaxFaults
          /\ FactoryFiles \in 0 .. FactoryFiles
      BY DEF TypeOK
    <3>2. CASE Fault /\ UNCHANGED <<mode, unclaimed, todo>>
      <4>1. faults' \in 0 .. MaxFaults
        BY <3>1, <3>2 DEF Fault
      <4> QED BY <3>1, <3>2, <4>1
    <3>3. CASE /\ unclaimed' \in BOOLEAN /\ mode' = "factory" /\ todo' = FactoryFiles
               /\ UNCHANGED faults
      BY <3>1, <3>3
    <3> QED BY <1>15, <3>2, <3>3 DEF pv_wait_unclaimed
  <2>3. UNCHANGED <<rev0, remote, usermeta, seen, file, stored, platfile, unsaved, cloudUser,
                    devVars, cloudDev, doneMark, cloudFact, changes>>
    BY <1>15 DEF pv_wait_unclaimed
  <2>4. TypeOK'
    BY <2>1, <2>2, <2>3 DEF TypeOK, devVars
  <2> QED BY <2>3, <2>4 DEF ListInv, devVars
<1> QED BY <1>1, <1>2, <1>3, <1>4, <1>5, <1>6, <1>7, <1>8, <1>9, <1>10, <1>11, <1>12, <1>13, <1>14, <1>15 DEF Next

\* They hold at the start.
LEMMA TypeInit == Init => TypeOK /\ ListInv
<1> SUFFICES ASSUME Init
             PROVE  TypeOK /\ ListInv
  OBVIOUS
<1> USE MetadataAssumption
<1>1. TypeOK
  <2>1. /\ usermeta \in [UserKeys -> Maybe(Values)] /\ file \in [UserKeys -> Maybe(Values)]
        /\ stored \in [UserKeys -> Maybe(Values)] /\ cloudUser \in [UserKeys -> Maybe(Values)]
        /\ conf \in [ConfKeys -> Maybe(Values)] /\ platfile \in [PlatKeys -> Maybe(Values)]
    BY DEF Init, Maybe
  <2>2. /\ devlist \in Seq(DevKeys)
        /\ devmeta \in [DevKeys -> Maybe(DevValues)] /\ cloudDev \in [DevKeys -> Maybe(DevValues)]
    BY DEF Init, Maybe
  <2>3. /\ todo \in 0 .. FactoryFiles /\ changes \in 0 .. MaxChanges /\ faults \in 0 .. MaxFaults
        /\ cloudFact \in SUBSET (1 .. FactoryFiles)
    BY DEF Init
  <2>4. rev0 \in BOOLEAN /\ remote \in BOOLEAN /\ unclaimed \in BOOLEAN /\ uploaded \in BOOLEAN /\ doneMark \in BOOLEAN
    BY DEF Init
  <2> QED BY <2>1, <2>2, <2>3, <2>4 DEF Init, TypeOK
<1>2. ListInv
  BY DEF Init, ListInv, NoRepeat, ToSet
<1> QED BY <1>1, <1>2

\* The variables have their types, and the list of device metadata holds each
\* key that has a value once (metadata.c:401).
THEOREM TypeCorrect == Spec => [](TypeOK /\ ListInv)
<1>1. Init => TypeOK /\ ListInv
  BY TypeInit
<1>2. TypeOK /\ ListInv /\ [Next]_vars => (TypeOK /\ ListInv)'
  BY TypeNext
<1> QED BY <1>1, <1>2, PTL DEF Spec

-----------------------------------------------------------------------------
(***************************************************************************)
(* User metadata.  FilesShowUserMeta and OverrideInForce are inductive but *)
(* for the start, which fills the list, the files and the settings from    *)
(* the files a device has when it is off: there, nothing is in the list.   *)
(***************************************************************************)
OffInv ==
  mode = "off" => /\ \A k \in UserKeys : usermeta[k] = None
                  /\ \A k \in PlatKeys : platfile[k] = None
                  /\ overwritten = {}

UserInv == FilesShowUserMeta /\ OverrideInForce /\ OffInv

\* A key whose file, and whose file of its platform, show what the list holds.
Kept(k) == Shown(k) /\ (k \in PlatKeys => platfile[k] = usermeta[k])

\* An action that leaves user metadata alone while pantavisor runs.
LEMMA UserUnchanged ==
  ASSUME mode # "off", mode' # "off", UNCHANGED userVars, UserInv
  PROVE  UserInv'
BY DEF userVars, UserInv, FilesShowUserMeta, OverrideInForce, OffInv, Shown

\* What an edit, an answer of the cloud or a load that takes back the keys in
\* gone and adds the pairs of new makes of the list, the files and the settings:
\* a key that changes is written, one that does not must have been right.
LEMMA UserEdited ==
  ASSUME TypeOK, mode' # "off",
         NEW new \in [UserKeys -> Maybe(Values)], NEW gone \in SUBSET UserKeys,
         NEW failed \in SUBSET Fresh(new),
         \A k \in gone : new[k] = None,
         \A k \in UserKeys \ unsaved : k \in Fresh(new) \/ Kept(k),
         \A k \in ConfKeys \ overwritten : usermeta[k] # None => conf[k] = usermeta[k],
         overwritten \subseteq CredKeys,
         usermeta' = [k \in UserKeys |-> IF k \in gone THEN None
                                         ELSE IF new[k] = None THEN usermeta[k] ELSE new[k]],
         NEW f \in pv_storage_save_usermeta(new, file, failed),
         NEW g \in pv_storage_save_usermeta(new, platfile, failed),
         file' = pv_storage_rm_usermeta(gone, f),
         platfile' = pv_storage_rm_usermeta(gone, g),
         unsaved' = ((unsaved \ Fresh(new)) \cup failed) \ gone,
         pv_config_override_value(new)
  PROVE  UserInv'
<1> USE MetadataAssumption
<1>1. DOMAIN file = UserKeys /\ DOMAIN platfile = PlatKeys
  BY DEF TypeOK
<1>2. /\ f \in [UserKeys -> Maybe(Values)] /\ g \in [PlatKeys -> Maybe(Values)]
      /\ \A k \in UserKeys : f[k] \in IF k \in Fresh(new)
                                      THEN pv_storage_save_file(new[k], file[k], k \in failed)
                                      ELSE {file[k]}
      /\ \A k \in PlatKeys : g[k] \in IF k \in Fresh(new)
                                      THEN pv_storage_save_file(new[k], platfile[k], k \in failed)
                                      ELSE {platfile[k]}
  BY <1>1 DEF pv_storage_save_usermeta
<1>3. /\ file' = [k \in UserKeys |-> IF k \in gone THEN None ELSE f[k]]
      /\ platfile' = [k \in PlatKeys |-> IF k \in gone THEN None ELSE g[k]]
  BY <1>2 DEF pv_storage_rm_usermeta
<1>4. ASSUME NEW k \in UserKeys
      PROVE  k \in Fresh(new) <=> new[k] # None /\ new[k] # usermeta[k]
  BY DEF Fresh
<1>5. failed \subseteq Fresh(new)
  OBVIOUS
<1> HIDE DEF Fresh
<1>6. ASSUME NEW k \in UserKeys, k \notin unsaved'
      PROVE  Kept(k)'
  <2>1. usermeta'[k] = IF k \in gone THEN None ELSE IF new[k] = None THEN usermeta[k] ELSE new[k]
    OBVIOUS
  <2>2. file'[k] = IF k \in gone THEN None ELSE f[k]
    BY <1>3
  <2>3. k \in PlatKeys => platfile'[k] = IF k \in gone THEN None ELSE g[k]
    BY <1>3
  <2>4. CASE k \in gone
    BY <2>1, <2>2, <2>3, <2>4 DEF Kept, Shown
  <2>5. CASE k \notin gone /\ k \in Fresh(new)
    <3>1. k \notin failed
      BY <1>6, <2>5
    <3>2. f[k] = new[k] /\ (k \in PlatKeys => g[k] = new[k])
      BY <1>2, <2>5, <3>1 DEF pv_storage_save_file
    <3>3. usermeta'[k] = new[k]
      BY <1>4, <2>1, <2>5
    <3> QED BY <2>2, <2>3, <2>5, <3>2, <3>3 DEF Kept, Shown
  <2>6. CASE k \notin gone /\ k \notin Fresh(new)
    <3>1. k \notin unsaved
      BY <1>5, <1>6, <2>6
    <3>2. Kept(k)
      BY <2>6, <3>1
    <3>3. f[k] = file[k] /\ (k \in PlatKeys => g[k] = platfile[k])
      BY <1>2, <2>6
    <3>4. usermeta'[k] = usermeta[k]
      BY <1>4, <2>1, <2>6
    <3> QED BY <2>2, <2>3, <2>6, <3>2, <3>3, <3>4 DEF Kept, Shown
  <2> QED BY <2>4, <2>5, <2>6
<1>7. /\ conf' = [k \in ConfKeys |-> IF k \in Fresh(new) THEN new[k] ELSE conf[k]]
      /\ overwritten' = overwritten \ Fresh(new)
  BY DEF pv_config_override_value
<1>8. ASSUME NEW k \in ConfKeys, k \notin overwritten', usermeta'[k] # None
      PROVE  conf'[k] = usermeta'[k]
  <2>1. /\ usermeta'[k] = IF k \in gone THEN None ELSE IF new[k] = None THEN usermeta[k] ELSE new[k]
        /\ conf'[k] = IF k \in Fresh(new) THEN new[k] ELSE conf[k]
    BY <1>7
  <2>2. k \in Fresh(new) \/ (usermeta[k] # None => conf[k] = usermeta[k])
    BY <1>7, <1>8
  <2> QED BY <1>4, <1>8, <2>1, <2>2
<1> QED BY <1>6, <1>7, <1>8 DEF UserInv, FilesShowUserMeta, OverrideInForce, OffInv, Kept

\* Pairs that are added take nothing back.
LEMMA UserAdded ==
  ASSUME TypeOK, mode' # "off",
         NEW new \in [UserKeys -> Maybe(Values)], NEW failed \in SUBSET Fresh(new),
         \A k \in UserKeys \ unsaved : k \in Fresh(new) \/ Kept(k),
         \A k \in ConfKeys \ overwritten : usermeta[k] # None => conf[k] = usermeta[k],
         overwritten \subseteq CredKeys,
         pv_metadata_add_usermeta(new, failed)
  PROVE  UserInv'
<1>1. /\ usermeta' = [j \in UserKeys |-> IF j \in {} THEN None
                                         ELSE IF new[j] = None THEN usermeta[j] ELSE new[j]]
      /\ unsaved' = ((unsaved \ Fresh(new)) \cup failed) \ {}
      /\ pv_config_override_value(new)
      /\ file' \in pv_storage_save_usermeta(new, file, failed)
      /\ platfile' \in pv_storage_save_usermeta(new, platfile, failed)
  BY DEF pv_metadata_add_usermeta
<1>2. /\ file' \in [UserKeys -> Maybe(Values)] /\ platfile' \in [PlatKeys -> Maybe(Values)]
  BY AddUserFits DEF UserTypes
<1>3. file' = pv_storage_rm_usermeta({}, file') /\ platfile' = pv_storage_rm_usermeta({}, platfile')
  BY <1>2 DEF pv_storage_rm_usermeta
<1>4. {} \in SUBSET UserKeys /\ \A k \in {} : new[k] = None
  OBVIOUS
<1> QED BY <1>1, <1>3, <1>4, UserEdited

\* What a device that runs may rely on.
LEMMA WhileRunning ==
  ASSUME mode # "off", UserInv
  PROVE  /\ \A k \in UserKeys \ unsaved : Kept(k)
         /\ \A k \in ConfKeys \ overwritten : usermeta[k] # None => conf[k] = usermeta[k]
         /\ overwritten \subseteq CredKeys
BY DEF UserInv, FilesShowUserMeta, OverrideInForce, Kept

\* Each step keeps the promises about user metadata.
LEMMA UserNext ==
  ASSUME TypeOK, UserInv, [Next]_vars
  PROVE  UserInv'
<1> USE MetadataAssumption
<1> DEFINE User == [UserKeys -> Maybe(Values)]
<1>1. CASE pv_metadata_init
  <2>1. /\ \A k \in UserKeys : usermeta[k] = None
        /\ \A k \in PlatKeys : platfile[k] = None
        /\ overwritten = {} /\ mode' = "run"
    BY <1>1 DEF pv_metadata_init, UserInv, OffInv
  <2>2. PICK failed \in SUBSET Fresh(Loaded) : pv_metadata_add_usermeta(Loaded, failed)
    BY <1>1 DEF pv_metadata_init
  <2>3. Loaded \in User
    BY DEF TypeOK, Loaded, pv_storage_load_file, Maybe
  <2>4. ASSUME NEW k \in UserKeys
        PROVE  k \in Fresh(Loaded) \/ Kept(k)
    <3>1. Loaded[k] = IF file[k] \in BigValues THEN None ELSE file[k]
      BY DEF Loaded, pv_storage_load_file
    <3>2. k \in Fresh(Loaded) <=> Loaded[k] # None
      BY <2>1 DEF Fresh
    <3> QED BY <2>1, <3>1, <3>2 DEF Kept, Shown
  <2>5. \A k \in ConfKeys \ overwritten : usermeta[k] # None => conf[k] = usermeta[k]
    BY <2>1
  <2>6. overwritten \subseteq CredKeys /\ mode' # "off"
    BY <2>1
  <2> HIDE DEF User
  <2> QED BY <2>2, <2>3, <2>4, <2>5, <2>6, UserAdded DEF User
<1>2. ASSUME NEW k \in UserKeys, NEW v \in Values, CtrlPutUserMeta(k, v)
      PROVE  UserInv'
  <2> DEFINE new == [j \in UserKeys |-> IF j = k THEN v ELSE None]
  <2>1. new \in User /\ mode # "off" /\ mode' # "off"
    BY <1>2 DEF CtrlPutUserMeta, Maybe
  <2>2. PICK failed \in SUBSET Fresh(new) : pv_metadata_add_usermeta(new, failed)
    BY <1>2 DEF CtrlPutUserMeta
  <2> HIDE DEF new
  <2> QED BY <2>1, <2>2, WhileRunning, UserAdded
<1>3. ASSUME NEW k \in UserKeys, CtrlDeleteUserMeta(k)
      PROVE  UserInv'
  <2>1. /\ usermeta' = [j \in UserKeys |-> IF j \in {k} THEN None ELSE usermeta[j]]
        /\ file' = [j \in UserKeys |-> IF j \in {k} THEN None ELSE file[j]]
        /\ platfile' = [j \in PlatKeys |-> IF j \in {k} THEN None ELSE platfile[j]]
        /\ conf' = conf /\ overwritten' = overwritten /\ unsaved' = unsaved \ {k}
        /\ mode = "wait" /\ mode' = "wait"
    BY <1>3 DEF CtrlDeleteUserMeta, pv_metadata_rm_usermeta, pv_storage_rm_usermeta, TypeOK
  <2> QED BY <2>1 DEF UserInv, OffInv, FilesShowUserMeta, OverrideInForce, Shown
<1>4. CASE pv_ph_device_get_meta
  <2>1. PICK answer \in User, failed \in SUBSET UserKeys :
          failed \in SUBSET Fresh(answer) /\ pv_metadata_parse_usermeta(answer, failed)
    <3>1. [k \in UserKeys |-> None] \in User /\ cloudUser \in User
      BY DEF Maybe, TypeOK
    <3>2. \A new : Fresh(new) \subseteq UserKeys
      BY DEF Fresh
    <3> QED BY <1>4, <3>1, <3>2 DEF pv_ph_device_get_meta
  <2> DEFINE gone == usermeta_clear(answer)
  <2>2. gone \in SUBSET UserKeys /\ \A k \in gone : answer[k] = None
    BY DEF usermeta_clear
  <2>3. /\ usermeta' = [k \in UserKeys |-> IF k \in gone THEN None
                                           ELSE IF answer[k] = None THEN usermeta[k] ELSE answer[k]]
        /\ unsaved' = ((unsaved \ Fresh(answer)) \cup failed) \ gone
        /\ pv_config_override_value(answer)
    BY <2>1 DEF pv_metadata_parse_usermeta
  <2>4. PICK f \in pv_storage_save_usermeta(answer, file, failed) :
          file' = pv_storage_rm_usermeta(gone, f)
    BY <2>1 DEF pv_metadata_parse_usermeta
  <2>5. PICK g \in pv_storage_save_usermeta(answer, platfile, failed) :
          platfile' = pv_storage_rm_usermeta(gone, g)
    BY <2>1 DEF pv_metadata_parse_usermeta
  <2>6. mode # "off" /\ mode' # "off"
    BY <1>4 DEF pv_ph_device_get_meta
  <2> HIDE DEF gone
  <2> QED BY <2>1, <2>2, <2>3, <2>4, <2>5, <2>6, WhileRunning, UserEdited
<1>5. CASE pv_metadata_remove \/ PowerLoss
  <2>1. /\ mode' = "off" /\ overwritten' = {}
        /\ usermeta' = [k \in UserKeys |-> None] /\ platfile' = [k \in PlatKeys |-> None]
    BY <1>5 DEF pv_metadata_remove, PowerLoss, pv_usermeta_remove
  <2> QED BY <2>1 DEF UserInv, FilesShowUserMeta, OverrideInForce, OffInv
<1>6. CASE WriteBack
  BY <1>6 DEF WriteBack, UserInv, FilesShowUserMeta, OverrideInForce, OffInv, Shown
<1>7. CASE \E k \in UserKeys, v \in Maybe(Values) : CloudEdit(k, v)
  BY <1>7 DEF CloudEdit, userVars, UserInv, FilesShowUserMeta, OverrideInForce, OffInv, Shown
<1>8. CASE pv_wait_unclaimed
  <2>1. /\ mode # "off" /\ mode' # "off" /\ pv_config_load_creds
        /\ UNCHANGED <<usermeta, file, platfile, unsaved>>
    BY <1>8 DEF pv_wait_unclaimed
  <2>2. \A k \in UserKeys \ unsaved : Kept(k)
    BY <2>1, WhileRunning
  <2>3. \A k \in UserKeys \ unsaved : Kept(k)'
    BY <2>1, <2>2 DEF Kept, Shown
  <2>4. OverrideInForce'
    BY <2>1, WhileRunning DEF pv_config_load_creds, OverrideInForce
  <2> QED BY <2>1, <2>3, <2>4 DEF UserInv, FilesShowUserMeta, OffInv, Kept
<1>9. CASE \/ pv_metadata_init_devmeta \/ pv_metadata_upload_devmeta
           \/ EnterFactoryUpload \/ pv_metadata_factory_meta \/ NonReboot
           \/ \E k \in DevKeys, v \in DevValues : UpdateDevMeta(k, v)
  <2>1. mode # "off" /\ mode' # "off" /\ UNCHANGED userVars
    BY <1>9 DEF pv_metadata_init_devmeta, pv_metadata_upload_devmeta, EnterFactoryUpload,
                pv_metadata_factory_meta, NonReboot, UpdateDevMeta
  <2> QED BY <2>1, UserUnchanged
<1>10. CASE UNCHANGED vars
  BY <1>10 DEF vars, userVars, UserInv, FilesShowUserMeta, OverrideInForce, OffInv, Shown
<1> QED BY <1>1, <1>2, <1>3, <1>4, <1>5, <1>6, <1>7, <1>8, <1>9, <1>10 DEF Next

\* They hold together in every behaviour.
LEMMA UserCorrect == Spec => []UserInv
<1>1. Init => UserInv
  BY MetadataAssumption DEF Init, UserInv, FilesShowUserMeta, OverrideInForce, OffInv
<1>2. TypeOK /\ UserInv /\ [Next]_vars => UserInv'
  BY UserNext
<1>3. Spec => [](TypeOK /\ ListInv)
  BY TypeCorrect
<1> QED BY <1>1, <1>2, <1>3, PTL DEF Spec

\* While pantavisor runs, the files containers read hold what the list of user
\* metadata holds, whatever was edited, lost or cut short before, but for the
\* keys whose last save has failed (metadata.c:304, 336, 361, 838).
THEOREM FilesCorrect == Spec => []FilesShowUserMeta
<1>1. UserInv => FilesShowUserMeta
  BY DEF UserInv
<1> QED BY <1>1, UserCorrect, PTL

\* A setting given in user metadata is in force as long as the pair is there,
\* also after a restart; only one that is kept with the credentials gives way,
\* when an unclaimed device reads them (metadata.c:352, pantavisor.c:290).
THEOREM OverrideCorrect == Spec => []OverrideInForce
<1>1. UserInv => OverrideInForce
  BY DEF UserInv
<1> QED BY <1>1, UserCorrect, PTL

-----------------------------------------------------------------------------
(***************************************************************************)
(* Device metadata.  A key of the list that is not flagged is in the cloud *)
(* with its value, and a promise that all are needs all flags to be taken  *)
(* back.                                                                   *)
(***************************************************************************)
FlagsInv == \A k \in ToSet(devlist) : k \in changed \/ cloudDev[k] = devmeta[k]

\* pv_metadata_add_devmeta flags each pair that is not in the cloud.
LEMMA AddFlags ==
  ASSUME TypeOK, ListInv, FlagsInv, NEW K \in SUBSET DevKeys, NEW new \in [K -> DevValues],
         pv_metadata_add_devmeta(new), cloudDev' = cloudDev
  PROVE  FlagsInv'
<1>1. /\ ToSet(devlist') = ToSet(devlist) \cup K
      /\ devmeta' = [k \in DevKeys |-> IF k \in K THEN new[k] ELSE devmeta[k]]
      /\ changed' = changed \cup Touched(new)
  BY AddFits
<1> SUFFICES ASSUME NEW k \in ToSet(devlist'), k \notin changed'
             PROVE  cloudDev[k] = devmeta'[k]
  BY DEF FlagsInv
<1>2. k \in DevKeys /\ ToSet(devlist) \subseteq DevKeys
  BY <1>1 DEF ListInv
<1>3. k \in K => devmeta[k] = new[k]
  BY <1>1 DEF Touched
<1>4. devmeta'[k] = devmeta[k]
  BY <1>1, <1>2, <1>3
<1>5. k \in ToSet(devlist)
  <2>1. CASE k \in K
    <3>1. new[k] \in DevValues
      BY <2>1
    <3> QED BY <1>2, <1>3, <2>1, <3>1, MetadataAssumption DEF ListInv
  <2> QED BY <1>1, <2>1
<1>6. k \notin changed
  BY <1>1
<1> QED BY <1>4, <1>5, <1>6 DEF FlagsInv

\* Each step keeps FlagsInv; an upload does because it leaves out no flagged key.
LEMMA FlagsNext ==
  ASSUME PairsFit, TypeOK, ListInv, FlagsInv, [Next]_vars
  PROVE  FlagsInv'
<1> USE MetadataAssumption
<1>1. CASE pv_metadata_init_devmeta
  <2>1. PICK new \in Readings : pv_metadata_add_devmeta(new)
    BY <1>1 DEF pv_metadata_init_devmeta
  <2>2. new \in [SysKeys -> DevValues] /\ SysKeys \in SUBSET DevKeys /\ cloudDev' = cloudDev
    BY <1>1 DEF Readings, pv_metadata_init_devmeta
  <2> QED BY <2>1, <2>2, AddFlags
<1>2. ASSUME NEW k \in DevKeys, NEW v \in DevValues, UpdateDevMeta(k, v)
      PROVE  FlagsInv'
  <2> DEFINE new == [j \in {k} |-> v]
  <2>1. {k} \in SUBSET DevKeys /\ new \in [{k} -> DevValues] /\ pv_metadata_add_devmeta(new)
        /\ cloudDev' = cloudDev
    BY <1>2 DEF UpdateDevMeta
  <2> HIDE DEF new
  <2> QED BY <2>1, AddFlags
<1>3. CASE pv_metadata_upload_devmeta
  <2> DEFINE All == [k \in DevKeys |-> IF k \in Payload THEN devmeta[k] ELSE cloudDev[k]]
  <2>1. devlist' = devlist /\ devmeta' = devmeta
    BY <1>3 DEF pv_metadata_upload_devmeta
  <2>2. \/ changed' = changed /\ cloudDev' \in {cloudDev, All}
        \/ cloudDev' = All
    BY <1>3 DEF pv_metadata_upload_devmeta, pv_ph_upload_metadata
  <2>3. changed \subseteq Payload
    BY PayloadIsWhole
  <2>4. ToSet(devlist) \subseteq DevKeys
    BY DEF ListInv
  <2> HIDE DEF Payload
  <2>5. \A k \in ToSet(devlist) : IF k \in Payload THEN All[k] = devmeta[k] ELSE All[k] = cloudDev[k]
    BY <2>4
  <2> HIDE DEF All
  <2> SUFFICES ASSUME NEW k \in ToSet(devlist), k \notin changed'
               PROVE  cloudDev'[k] = devmeta[k]
    BY <2>1 DEF FlagsInv
  <2>6. k \in changed \/ cloudDev[k] = devmeta[k]
    BY DEF FlagsInv
  <2>7. CASE changed' = changed /\ cloudDev' \in {cloudDev, All}
    BY <2>5, <2>6, <2>7
  <2>8. CASE cloudDev' = All
    BY <2>3, <2>5, <2>6, <2>8
  <2> QED BY <2>2, <2>7, <2>8
<1>4. CASE pv_metadata_remove \/ PowerLoss
  <2>1. devlist' = <<>>
    BY <1>4 DEF pv_metadata_remove, PowerLoss, pv_devmeta_remove
  <2> QED BY <2>1 DEF FlagsInv, ToSet
<1>5. CASE UNCHANGED <<devVars, cloudDev>>
  BY <1>5 DEF FlagsInv, devVars
<1>6. ASSUME \/ \E k \in UserKeys, v \in Values : CtrlPutUserMeta(k, v)
             \/ \E k \in UserKeys : CtrlDeleteUserMeta(k)
             \/ \E k \in UserKeys, v \in Maybe(Values) : CloudEdit(k, v)
             \/ pv_metadata_init \/ pv_ph_device_get_meta \/ WriteBack \/ NonReboot
             \/ pv_wait_unclaimed \/ EnterFactoryUpload \/ pv_metadata_factory_meta
      PROVE  UNCHANGED <<devVars, cloudDev>>
  BY <1>6 DEF pv_metadata_init, CtrlPutUserMeta, CtrlDeleteUserMeta, CloudEdit,
              pv_ph_device_get_meta, WriteBack, NonReboot, pv_wait_unclaimed, EnterFactoryUpload,
              pv_metadata_factory_meta
<1>7. UNCHANGED vars => UNCHANGED <<devVars, cloudDev>>
  BY DEF vars
<1> QED BY <1>1, <1>2, <1>3, <1>4, <1>5, <1>6, <1>7 DEF Next

\* If the pairs of a device fit into the buffer together, as a comment of
\* pv_metadata_upload_devmeta assumes, devmeta_uploaded means that each of them
\* is in the cloud with its value, whatever requests and answers were lost
\* (metadata.c:647).
THEOREM UploadedCorrect ==
  ASSUME PairsFit
  PROVE  Spec => []UploadedMeansInCloud
<1>1. Init => FlagsInv
  BY DEF Init, FlagsInv, ToSet
<1>2. TypeOK /\ ListInv /\ FlagsInv /\ [Next]_vars => FlagsInv'
  BY FlagsNext
<1>3. ListInv /\ FlagsInv => UploadedMeansInCloud
  BY DEF ListInv, FlagsInv, UploadedMeansInCloud
<1>4. Spec => [](TypeOK /\ ListInv)
  BY TypeCorrect
<1> QED BY <1>1, <1>2, <1>3, <1>4, PTL DEF Spec

-----------------------------------------------------------------------------
(***************************************************************************)
(* Factory metadata.  A pass sends the files from the last to the first,   *)
(* and those behind it are in the cloud.                                   *)
(***************************************************************************)
PassInv == mode = "factory" => (todo + 1) .. FactoryFiles \subseteq cloudFact

FactoryInv == FactoryMarkMeansSent /\ PassInv

\* Each step keeps both parts of FactoryInv.
LEMMA FactoryNext ==
  ASSUME TypeOK, FactoryInv, [Next]_vars
  PROVE  FactoryInv'
<1> USE MetadataAssumption
<1>1. CASE pv_metadata_factory_meta
  <2>1. todo \in 0 .. FactoryFiles /\ cloudFact \in SUBSET (1 .. FactoryFiles) /\ mode = "factory"
        /\ (todo + 1) .. FactoryFiles \subseteq cloudFact
    BY <1>1 DEF pv_metadata_factory_meta, FactoryInv, PassInv, TypeOK
  <2>2. CASE todo > 0 /\ Sent(todo) /\ todo' = todo - 1 /\ UNCHANGED <<mode, doneMark>>
    <3>1. cloudFact' = cloudFact \cup {todo} /\ todo \in 1 .. FactoryFiles
      BY <2>1, <2>2 DEF Sent
    <3>2. (todo' + 1) .. FactoryFiles = {todo} \cup ((todo + 1) .. FactoryFiles)
      BY <2>1, <2>2
    <3>3. PassInv'
      BY <2>1, <3>1, <3>2 DEF PassInv
    <3>4. doneMark' = doneMark /\ cloudFact \cup {todo} \subseteq 1 .. FactoryFiles
      BY <2>1, <2>2, <3>1
    <3>5. FactoryMarkMeansSent'
      BY <3>1, <3>4 DEF FactoryInv, FactoryMarkMeansSent
    <3> QED BY <3>3, <3>5 DEF FactoryInv
  <2>3. CASE /\ todo > 0 /\ (cloudFact' = cloudFact \/ Sent(todo)) /\ todo' = FactoryFiles
             /\ UNCHANGED <<mode, doneMark>>
    <3>1. cloudFact' \in {cloudFact, cloudFact \cup {todo}} /\ todo \in 1 .. FactoryFiles
      BY <2>1, <2>3 DEF Sent
    <3>2. (todo' + 1) .. FactoryFiles = {}
      BY <2>3
    <3> QED BY <2>3, <3>1, <3>2 DEF FactoryInv, FactoryMarkMeansSent, PassInv
  <2>4. CASE todo = 0 /\ doneMark' = TRUE /\ mode' = "wait" /\ UNCHANGED <<todo, cloudFact>>
    <3>1. cloudFact = 1 .. FactoryFiles
      <4>1. todo + 1 = 1
        BY <2>4
      <4>2. 1 .. FactoryFiles \subseteq cloudFact
        BY <2>1, <4>1, Zenon
      <4> QED BY <2>1, <4>2
    <3> QED BY <2>4, <3>1 DEF FactoryInv, FactoryMarkMeansSent, PassInv
  <2> QED BY <1>1, <2>2, <2>3, <2>4 DEF pv_metadata_factory_meta
<1>2. CASE EnterFactoryUpload
  <2>1. (todo' + 1) .. FactoryFiles = {}
    BY <1>2 DEF EnterFactoryUpload
  <2> QED BY <1>2, <2>1 DEF EnterFactoryUpload, FactoryInv, FactoryMarkMeansSent, PassInv
<1>3. CASE mode' # "factory" /\ UNCHANGED <<doneMark, cloudFact>>
  BY <1>3 DEF FactoryInv, FactoryMarkMeansSent, PassInv
<1>4. CASE mode' = mode /\ UNCHANGED factVars
  BY <1>4 DEF factVars, FactoryInv, FactoryMarkMeansSent, PassInv
<1>5. ASSUME \/ pv_metadata_init \/ pv_metadata_init_devmeta \/ pv_ph_device_get_meta
             \/ pv_metadata_upload_devmeta \/ NonReboot \/ pv_metadata_remove \/ PowerLoss
      PROVE  mode' # "factory" /\ UNCHANGED <<doneMark, cloudFact>>
  BY <1>5 DEF pv_metadata_init, pv_metadata_init_devmeta, pv_ph_device_get_meta,
              pv_metadata_upload_devmeta, NonReboot, pv_metadata_remove, PowerLoss, factVars
<1>6. ASSUME \/ \E k \in UserKeys, v \in Values : CtrlPutUserMeta(k, v)
             \/ \E k \in UserKeys : CtrlDeleteUserMeta(k)
             \/ \E k \in UserKeys, v \in Maybe(Values) : CloudEdit(k, v)
             \/ \E k \in DevKeys, v \in DevValues : UpdateDevMeta(k, v)
             \/ WriteBack
      PROVE  mode' = mode /\ UNCHANGED factVars
  BY <1>6 DEF CtrlPutUserMeta, CtrlDeleteUserMeta, CloudEdit, UpdateDevMeta, WriteBack
<1>7. UNCHANGED vars => mode' = mode /\ UNCHANGED factVars
  BY DEF vars
<1>8. CASE pv_wait_unclaimed
  <2>1. CASE UNCHANGED <<mode, todo, doneMark, cloudFact>>
    BY <2>1 DEF FactoryInv, FactoryMarkMeansSent, PassInv
  <2>2. CASE todo' = FactoryFiles /\ UNCHANGED <<doneMark, cloudFact>>
    <3>1. (todo' + 1) .. FactoryFiles = {}
      BY <2>2
    <3> QED BY <2>2, <3>1 DEF FactoryInv, FactoryMarkMeansSent, PassInv
  <2> QED BY <1>8, <2>1, <2>2 DEF pv_wait_unclaimed
<1> QED BY <1>1, <1>2, <1>3, <1>4, <1>5, <1>6, <1>7, <1>8 DEF Next

\* The mark that ends the upload of factory metadata is set only once every
\* file has been sent, whatever fails on the way (metadata.c:791).
THEOREM FactoryMarkCorrect == Spec => []FactoryMarkMeansSent
<1>1. Init => FactoryInv
  BY DEF Init, FactoryInv, FactoryMarkMeansSent, PassInv
<1>2. TypeOK /\ FactoryInv /\ [Next]_vars => FactoryInv'
  BY FactoryNext
<1>3. FactoryInv => FactoryMarkMeansSent
  BY DEF FactoryInv
<1>4. Spec => [](TypeOK /\ ListInv)
  BY TypeCorrect
<1> QED BY <1>1, <1>2, <1>3, <1>4, PTL DEF Spec

===============================================================================

---------------------------- MODULE PvLoggerProofs ----------------------------
(***************************************************************************)
(* Theorems about PvLogger, for logs, buffers and pieces of any size and   *)
(* however often the logger is stopped.                                    *)
(***************************************************************************)
EXTENDS PvLogger, FiniteSetTheorems, WellFoundedInduction, TLAPS

\* The line buffer holds the bytes in front of the reader, all of one line.
CmdInv ==
  \E first \in 1..(buf + 1) : cmd = first..buf /\ cmd \cap breaks = {}

\* While no piece is looked at, all that was read is done with; a stopped
\* logger leaves no line behind.
IdleInv ==
  /\ pc = "idle" => buf = pos
  /\ pc = "none" => cmd = {} /\ kept = 0

\* The bytes in the buffer that are not of its line will join one line.
JoinInv == joins + (IF kept > 0 THEN 1 ELSE 0) <= moves

\* What was handed on last is a piece of one line.
OneLine == \A p, q \in lines : p < q => (p .. q) \cap breaks = {} /\ p .. q \subseteq lines

IInv == TypeOK /\ CmdInv /\ IdleInv /\ JoinInv /\ OneLine

-----------------------------------------------------------------------------
LEMMA MinOfTwo ==
  ASSUME NEW a \in Nat, NEW b \in Nat
  PROVE  Min({a, b}) = IF a <= b THEN a ELSE b
<1>1. \A x \in {a, b} : (\A y \in {a, b} : x <= y) <=> x = (IF a <= b THEN a ELSE b)
  OBVIOUS
<1> QED BY <1>1 DEF Min

LEMMA MaxOfTwo ==
  ASSUME NEW a \in Nat, NEW b \in Nat
  PROVE  Max({a, b}) = IF a <= b THEN b ELSE a
<1>1. \A x \in {a, b} : (\A y \in {a, b} : x >= y) <=> x = (IF a <= b THEN b ELSE a)
  OBVIOUS
<1> QED BY <1>1 DEF Max

LEMMA MinOfSome ==
  ASSUME NEW S \in SUBSET Nat, S # {}
  PROVE  Min(S) \in S /\ \A y \in S : Min(S) <= y
<1> DEFINE R == OpToRel(<, Nat)
<1>1. PICK x \in S : \A y \in S : <<y, x>> \notin R
  <2>1. IsWellFoundedOn(R, Nat)
    BY NatLessThanWellFounded
  <2> HIDE DEF R
  <2> QED BY <2>1, WFMin
<1>2. \A y \in S : ~(y < x)
  BY <1>1 DEF OpToRel
<1>3. \A y \in S : x <= y
  <2> TAKE y \in S
  <2>1. ~(y < x) /\ x \in Nat /\ y \in Nat
    BY <1>2
  <2> QED BY <2>1
<1> QED BY <1>3 DEF Min

LEMMA Length ==
  ASSUME NEW a \in Nat, NEW b \in Nat
  PROVE  Cardinality(a..b) = IF a <= b THEN b - a + 1 ELSE 0
BY FS_Interval

LEMMA NoBytes ==
  ASSUME NEW a \in Nat
  PROVE  (a + 1)..a = {} /\ a + 1 \in 1..(a + 1)
OBVIOUS

\* The bytes of the line are counted by where it begins.
LEMMA LineLength ==
  ASSUME TypeOK, NEW first \in 1..(buf + 1), cmd = first..buf
  PROVE  Cardinality(cmd) = buf + 1 - first /\ Cardinality(cmd) \in Nat
<1> USE PvLoggerAssumption
<1>1. first \in Nat /\ buf \in Nat /\ first <= buf + 1
  BY DEF TypeOK
<1>2. Cardinality(first..buf) = IF first <= buf THEN buf - first + 1 ELSE 0
  BY <1>1, Length, Zenon
<1> QED BY <1>1, <1>2

(***************************************************************************)
(* What one round writes: it stays in front of the next line break, and    *)
(* the line still fits.                                                    *)
(***************************************************************************)
LEMMA WrittenFits ==
  ASSUME TypeOK, CmdInv, buf < pos
  PROVE  /\ Written \in 0..(pos - buf)
         /\ Cardinality(cmd) \in Nat
         /\ kept + Cardinality(cmd) + Written <= BufSize
         /\ (buf + 1 .. buf + Written) \cap breaks = {}
         /\ NewLineAt # {} => Written < pos - buf
<1> USE PvLoggerAssumption
<1>1. buf \in Nat /\ pos \in Nat /\ size \in Nat /\ breaks \subseteq Nat /\ BufSize \in Nat /\ kept \in Nat
  BY DEF TypeOK
<1>2. Cardinality(cmd) \in Nat /\ kept + Cardinality(cmd) <= BufSize
  <2>1. PICK first \in 1..(buf + 1) : cmd = first..buf
    BY DEF CmdInv
  <2>2. Cardinality(cmd) \in Nat
    BY <2>1, LineLength
  <2> QED BY <2>2 DEF TypeOK
<1>3. ASSUME NewLineAt # {}
      PROVE  /\ Min(NewLineAt) \in NewLineAt
             /\ \A y \in NewLineAt : Min(NewLineAt) <= y
  BY <1>1, <1>3, MinOfSome DEF NewLineAt
<1>4. ToWrite \in 0..(pos - buf) /\ (NewLineAt # {} => ToWrite < pos - buf)
  BY <1>1, <1>3 DEF ToWrite, NewLineAt
<1>5. (buf + 1 .. buf + ToWrite) \cap breaks = {}
  <2>1. CASE NewLineAt = {}
    BY <1>1, <2>1 DEF ToWrite, NewLineAt
  <2>2. CASE NewLineAt # {}
    <3>1. buf + ToWrite = Min(NewLineAt) - 1 /\ Min(NewLineAt) \in buf + 1 .. pos
      BY <1>1, <1>3, <2>2 DEF ToWrite, NewLineAt
    <3> SUFFICES ASSUME NEW b \in buf + 1 .. buf + ToWrite, b \in breaks
                 PROVE  FALSE
      OBVIOUS
    <3>2. b <= Min(NewLineAt) - 1 /\ b \in NewLineAt
      BY <1>1, <3>1 DEF NewLineAt
    <3> QED BY <1>1, <1>3, <2>2, <3>1, <3>2
  <2> QED BY <2>1, <2>2
<1>6. PICK room \in Nat : room = BufSize - (kept + Cardinality(cmd))
  BY <1>1, <1>2
<1>7. Written = IF ToWrite <= room THEN ToWrite ELSE room
  BY <1>4, <1>6, MinOfTwo DEF Written
<1> QED BY <1>1, <1>2, <1>4, <1>5, <1>6, <1>7

\* The line of a round is a piece of one line of the log.
LEMMA LineFits ==
  ASSUME TypeOK, CmdInv, buf < pos
  PROVE  /\ \E first \in 1..(buf + Written + 1) : Line = first..(buf + Written)
         /\ Line \cap breaks = {}
         /\ Line \subseteq 1..pos
         /\ kept + Cardinality(Line) <= BufSize
<1> USE PvLoggerAssumption
<1>1. buf \in Nat /\ pos \in Nat /\ BufSize \in Nat /\ kept \in Nat
  BY DEF TypeOK
<1>2. /\ Written \in 0..(pos - buf) /\ kept + Cardinality(cmd) + Written <= BufSize
      /\ (buf + 1 .. buf + Written) \cap breaks = {}
  BY WrittenFits
<1>3. PICK first \in 1..(buf + 1) : cmd = first..buf /\ cmd \cap breaks = {}
  BY DEF CmdInv
<1>4. Line = first..(buf + Written) /\ first \in 1..(buf + Written + 1)
  BY <1>1, <1>2, <1>3 DEF Line
<1>5. Line \cap breaks = {}
  BY <1>2, <1>3 DEF Line
<1>6. Cardinality(Line) = Cardinality(cmd) + Written
  <2>1. first \in Nat /\ buf + Written \in Nat /\ Written \in Nat /\ first <= buf + 1
    BY <1>1, <1>2, <1>3
  <2>2. Cardinality(cmd) = buf + 1 - first
    BY <1>3, LineLength
  <2>3. \A last \in Nat : Cardinality(first..last) = IF first <= last THEN last - first + 1 ELSE 0
    BY <2>1, Length, Zenon
  <2> QED BY <1>1, <1>3, <1>4, <2>1, <2>2, <2>3
<1>7. Cardinality(cmd) \in Nat
  BY <1>3, LineLength
<1> QED BY <1>1, <1>2, <1>4, <1>5, <1>6, <1>7

\* A line that is handed on, joined with another one or not, or lost.
LEMMA Forwarded ==
  ASSUME IInv, NEW bytes, NEW over, Forward(bytes, over),
         bytes \subseteq 1..Size, over \subseteq 1..Size,
         \A p, q \in bytes : p < q => (p .. q) \cap breaks = {} /\ p .. q \subseteq bytes
  PROVE  /\ {sent', lost', lines'} \subseteq SUBSET (1..Size)
         /\ \A p, q \in lines' : p < q => (p .. q) \cap breaks = {} /\ p .. q \subseteq lines'
         /\ kept' = 0 /\ joins' \in Nat /\ joins' <= moves' /\ moves' \in 0..faults'
         /\ faults' \in 0..MaxFaults
<1> USE PvLoggerAssumption
<1>0. /\ kept \in Nat /\ joins \in Nat /\ moves \in 0..faults /\ faults \in 0..MaxFaults
      /\ joins + (IF kept > 0 THEN 1 ELSE 0) <= moves /\ moves' = moves /\ kept' = 0
  BY DEF IInv, TypeOK, JoinInv, Forward
<1>1. /\ sent \subseteq 1..Size /\ lost \subseteq 1..Size /\ lines \subseteq 1..Size
      /\ \A p, q \in lines : p < q => (p .. q) \cap breaks = {} /\ p .. q \subseteq lines
  BY DEF IInv, TypeOK, OneLine
<1>2. CASE HandsOn(bytes, over)
  <2>1. sent' = sent \cup bytes \cup (over \cap breaks) /\ lines' = bytes /\ lost' = lost
        /\ joins' = joins /\ faults' = faults
    BY <1>2 DEF HandsOn
  <2>2. joins' <= moves' /\ moves' \in 0..faults' /\ joins' \in Nat /\ faults' \in 0..MaxFaults
    BY <1>0, <2>1
  <2>3. sent' \subseteq 1..Size /\ lost' \subseteq 1..Size /\ lines' \subseteq 1..Size
    BY <1>1, <2>1
  <2>4. \A p, q \in lines' : p < q => (p .. q) \cap breaks = {} /\ p .. q \subseteq lines'
    BY <2>1
  <2> QED BY <1>0, <2>2, <2>3, <2>4
<1>3. CASE HandsOnJoined(bytes, over)
  <2>1. lost' = lost \cup bytes \cup over /\ lines' = bytes /\ sent' = sent
        /\ joins' = joins + 1 /\ faults' = faults /\ kept > 0
    BY <1>3 DEF HandsOnJoined
  <2>2. joins' \in Nat /\ joins' <= moves' /\ moves' \in 0..faults'
    BY <1>0, <2>1
  <2> QED BY <1>0, <1>1, <2>1, <2>2
<1>4. CASE WriteFails(bytes, over)
  <2>1. lost' = lost \cup bytes \cup over /\ lines' = lines /\ sent' = sent
        /\ joins' = joins /\ faults' = faults + 1 /\ faults < MaxFaults
    BY <1>4 DEF WriteFails, Fault
  <2>2. joins' <= moves' /\ moves' \in 0..faults' /\ faults' \in 0..MaxFaults
    BY <1>0, <2>1
  <2> QED BY <1>0, <1>1, <2>1, <2>2
<1> QED BY <1>2, <1>3, <1>4 DEF Forward

\* A reader that is moved leaves its line to be joined with the next one.
LEMMA Moved ==
  ASSUME IInv, faults < MaxFaults, faults' = faults + 1, joins' = joins,
         \/ kept' = kept + Cardinality(cmd) /\ moves' = (IF cmd = {} THEN moves ELSE moves + 1)
         \/ kept' = kept /\ moves' = moves
  PROVE  /\ kept' \in Nat /\ kept' <= BufSize
         /\ joins' \in Nat /\ moves' \in 0..faults' /\ faults' \in 0..MaxFaults
         /\ JoinInv'
<1> USE PvLoggerAssumption
<1>1. /\ kept \in Nat /\ joins \in Nat /\ moves \in 0..faults /\ faults \in 0..MaxFaults
      /\ joins + (IF kept > 0 THEN 1 ELSE 0) <= moves /\ BufSize \in Nat
      /\ kept + Cardinality(cmd) <= BufSize
  BY DEF IInv, TypeOK, JoinInv
<1>2. Cardinality(cmd) \in Nat /\ (cmd = {} => Cardinality(cmd) = 0)
  <2>1. PICK first \in 1..(buf + 1) : cmd = first..buf
    BY DEF IInv, CmdInv
  <2> QED BY <2>1, LineLength, FS_EmptySet DEF IInv
<1>3. CASE cmd = {}
  BY <1>1, <1>2, <1>3 DEF JoinInv
<1>4. CASE cmd # {}
  BY <1>1, <1>2, <1>4 DEF JoinInv
<1> QED BY <1>3, <1>4

-----------------------------------------------------------------------------
LEMMA InitInv == Init => IInv
<1> SUFFICES ASSUME Init
             PROVE  IInv
  OBVIOUS
<1> USE PvLoggerAssumption
<1>1. Cardinality({}) = 0
  BY FS_EmptySet
<1>2. TypeOK
  <2>1. breaks \in SUBSET (1..Size) /\ size \in 0..Size /\ buf \in 0..pos /\ xattr \in 0..Size
        /\ pos \in 0..Size /\ moves \in 0..faults /\ faults \in 0..MaxFaults
    BY DEF Init
  <2>2. kept + Cardinality(cmd) <= BufSize /\ cmd = {} /\ kept \in Nat /\ joins \in Nat
    BY <1>1 DEF Init
  <2>3. {sent, lost, lines} \subseteq SUBSET (1..Size) /\ cmd \subseteq 1..pos
    BY DEF Init
  <2>4. cut \in BOOLEAN /\ pc \in {"none", "idle", "flush"}
    BY Zenon DEF Init
  <2>5. xattr <= buf /\ pos <= size
    BY DEF Init
  <2> QED BY <2>1, <2>2, <2>3, <2>4, <2>5, Zenon DEF TypeOK
<1>3. CmdInv
  <2>1. 1 \in 1..(buf + 1) /\ cmd = 1..buf
    BY DEF Init
  <2> QED BY <2>1 DEF Init, CmdInv
<1> QED BY <1>2, <1>3 DEF Init, IInv, IdleInv, JoinInv, OneLine

LEMMA NextInv == IInv /\ [Next]_vars => IInv'
<1> SUFFICES ASSUME IInv, [Next]_vars
             PROVE  IInv'
  OBVIOUS
<1> USE PvLoggerAssumption
<1>0. /\ TypeOK /\ CmdInv /\ size \in Nat /\ pos \in Nat /\ buf \in Nat /\ xattr \in Nat
      /\ pos <= Size /\ buf <= pos /\ kept \in Nat /\ BufSize \in Nat
      /\ Cardinality({}) = 0 /\ breaks \subseteq Nat
  BY FS_EmptySet DEF IInv, TypeOK
<1>1. CASE Write
  <2>1. size' \in Nat /\ size < size' /\ size' <= Size
    BY <1>0, <1>1 DEF Write
  <2>2. TypeOK'
    BY <1>0, <1>1, <2>1 DEF Write, line, history, TypeOK
  <2> QED BY <1>1, <2>2 DEF Write, line, history, IInv, CmdInv, IdleInv, JoinInv, OneLine
<1>2. CASE log_flush_pv
  <2>1. Min({size, pos + MaxRead}) <= size /\ Min({size, pos + MaxRead}) \in Nat
    BY <1>0, MinOfTwo
  <2>2. pos' \in Nat /\ pos < pos' /\ pos' <= size /\ buf' = buf
    BY <1>0, <1>2, <2>1 DEF log_flush_pv, IInv, IdleInv
  <2>3. TypeOK'
    BY <1>0, <1>2, <2>2 DEF log_flush_pv, logVars, line, history, TypeOK
  <2> QED BY <1>2, <2>2, <2>3
          DEF log_flush_pv, logVars, line, history, IInv, CmdInv, IdleInv, JoinInv, OneLine
<1>3. CASE Cut
  <2>1. breaks' \subseteq 1..Size /\ size' = 0 /\ cut' = TRUE /\ cmd' = {} /\ sent' = {} /\ lost' = {}
        /\ lines' = {} /\ UNCHANGED <<xattr, pc, pos, buf, joins>> /\ pc # "flush"
    BY <1>3 DEF Cut
  <2>2. kept' \in Nat /\ kept' <= BufSize /\ joins' \in Nat /\ moves' \in 0..faults'
        /\ faults' \in 0..MaxFaults /\ JoinInv'
    BY <1>3, Moved DEF Cut, Fault
  <2>3. TypeOK'
    BY <1>0, <2>1, <2>2 DEF TypeOK
  <2>4. CmdInv'
    <3>1. (buf' + 1)..buf' = {} /\ buf' + 1 \in 1..(buf' + 1)
      BY <1>0, <2>1, NoBytes, Zenon
    <3> QED BY <2>1, <3>1 DEF CmdInv
  <2>5. IdleInv'
    <3>1. kept' = kept + Cardinality(cmd) /\ (pc = "idle" => buf = pos) /\ (pc = "none" => cmd = {} /\ kept = 0)
      BY <1>3 DEF Cut, IInv, IdleInv
    <3>2. pc = "none" => kept' = 0
      <4> SUFFICES ASSUME pc = "none"
                   PROVE  kept' = 0
        OBVIOUS
      <4>1. kept' = 0 + Cardinality({})
        BY <3>1
      <4> QED BY <1>0, <4>1
    <3> QED BY <2>1, <3>1, <3>2 DEF IdleInv
  <2> QED BY <2>1, <2>2, <2>3, <2>4, <2>5 DEF IInv, OneLine
<1>4. CASE FlushFull
  <2>1. PICK first \in 1..(buf + 1) : cmd = first..buf /\ cmd \cap breaks = {}
    BY <1>0 DEF CmdInv
  <2>2. cmd \subseteq 1..Size /\ \A p, q \in cmd : p < q => (p .. q) \cap breaks = {} /\ p .. q \subseteq cmd
    BY <1>0, <2>1
  <2>3. Forward(cmd, {}) /\ cmd' = {} /\ UNCHANGED <<breaks, size, cut, xattr, pc, pos, buf>> /\ pc = "flush"
    BY <1>4 DEF FlushFull, logVars
  <2>4. /\ {sent', lost', lines'} \subseteq SUBSET (1..Size)
        /\ \A p, q \in lines' : p < q => (p .. q) \cap breaks = {} /\ p .. q \subseteq lines'
        /\ kept' = 0 /\ joins' \in Nat /\ joins' <= moves' /\ moves' \in 0..faults'
        /\ faults' \in 0..MaxFaults
    BY <2>2, <2>3, Forwarded
  <2>5. TypeOK'
    BY <1>0, <2>3, <2>4 DEF TypeOK
  <2>6. CmdInv'
    <3>1. (buf' + 1)..buf' = {} /\ buf' + 1 \in 1..(buf' + 1)
      BY <1>0, <2>3, NoBytes, Zenon
    <3> QED BY <2>3, <3>1 DEF CmdInv
  <2>7. JoinInv' /\ IdleInv'
    <3>1. joins' + (IF kept' > 0 THEN 1 ELSE 0) <= moves'
      <4>1. kept' = 0 /\ joins' \in Nat /\ joins' <= moves'
        BY <2>4
      <4> QED BY <4>1
    <3> QED BY <2>3, <3>1 DEF JoinInv, IdleInv
  <2> QED BY <2>3, <2>4, <2>5, <2>6, <2>7 DEF IInv, OneLine
<1>5. CASE FlushLine
  <2>1. /\ Written \in 0..(pos - buf) /\ Written < pos - buf
        /\ Line \cap breaks = {} /\ Line \subseteq 1..pos
    BY <1>0, <1>5, WrittenFits, LineFits DEF FlushLine
  <2>2. PICK first \in 1..(buf + Written + 1) : Line = first..(buf + Written)
    BY <1>0, <1>5, LineFits DEF FlushLine
  <2>3. buf' \in 1..pos /\ buf' = buf + Written + 1 /\ UNCHANGED <<breaks, size, cut, xattr, pc, pos>> /\ pc = "flush"
    BY <1>0, <1>5, <2>1 DEF FlushLine, logVars
  <2>4. Forward(Line, {buf'}) /\ cmd' = {}
    BY <1>5 DEF FlushLine
  <2>5. Line \subseteq 1..Size /\ {buf'} \subseteq 1..Size
        /\ \A p, q \in Line : p < q => (p .. q) \cap breaks = {} /\ p .. q \subseteq Line
    BY <1>0, <2>1, <2>2, <2>3
  <2>6. /\ {sent', lost', lines'} \subseteq SUBSET (1..Size)
        /\ \A p, q \in lines' : p < q => (p .. q) \cap breaks = {} /\ p .. q \subseteq lines'
        /\ kept' = 0 /\ joins' \in Nat /\ joins' <= moves' /\ moves' \in 0..faults'
        /\ faults' \in 0..MaxFaults
    BY <2>4, <2>5, Forwarded
  <2>7. TypeOK'
    BY <1>0, <2>1, <2>3, <2>4, <2>6 DEF TypeOK
  <2>8. CmdInv'
    <3>1. (buf' + 1)..buf' = {} /\ buf' + 1 \in 1..(buf' + 1)
      <4>1. buf' \in Nat
        BY <1>0, <2>3
      <4> QED BY <4>1, NoBytes, Zenon
    <3> QED BY <2>4, <3>1 DEF CmdInv
  <2>9. JoinInv' /\ IdleInv'
    <3>1. joins' + (IF kept' > 0 THEN 1 ELSE 0) <= moves'
      <4>1. kept' = 0 /\ joins' \in Nat /\ joins' <= moves'
        BY <2>6
      <4> QED BY <4>1
    <3> QED BY <2>3, <3>1 DEF JoinInv, IdleInv
  <2> QED BY <2>3, <2>6, <2>7, <2>8, <2>9 DEF IInv, OneLine
<1>6. CASE FlushRest
  <2>1. Written \in 0..(pos - buf) /\ Line \subseteq 1..pos
        /\ kept + Cardinality(Line) <= BufSize /\ Line \cap breaks = {}
    BY <1>0, <1>6, WrittenFits, LineFits DEF FlushRest
  <2>2. PICK first \in 1..(buf + Written + 1) : Line = first..(buf + Written)
    BY <1>0, <1>6, LineFits DEF FlushRest
  <2>3. buf' = buf + Written /\ cmd' = Line /\ pc = "flush"
        /\ UNCHANGED <<logVars, xattr, pc, pos, kept, history, faults>>
    BY <1>6 DEF FlushRest
  <2>4. TypeOK'
    BY <1>0, <2>1, <2>3 DEF TypeOK, logVars, history
  <2>5. CmdInv'
    BY <2>1, <2>2, <2>3 DEF CmdInv, logVars
  <2> QED BY <2>3, <2>4, <2>5 DEF IInv, IdleInv, JoinInv, OneLine, logVars, history
<1>7. CASE set_logger_xattr
  <2>1. /\ UNCHANGED <<breaks, size, cut, pos, buf, cmd, kept, sent, lost, lines, moves, joins>>
        /\ buf = pos /\ pc' = "idle" /\ xattr' \in {xattr, pos}
        /\ (faults' = faults \/ (faults < MaxFaults /\ faults' = faults + 1))
    BY <1>7 DEF set_logger_xattr, logVars, line, history, Fault
  <2>2. TypeOK'
    BY <1>0, <2>1 DEF TypeOK
  <2> QED BY <2>1, <2>2 DEF IInv, CmdInv, IdleInv, JoinInv, OneLine
<1>8. CASE pvlogger_start
  <2>1. /\ UNCHANGED <<breaks, size, cut, xattr, cmd, kept, sent, lost, lines, moves, joins, faults>>
        /\ pc' = "idle" /\ pos' = StoredPos /\ buf' = StoredPos /\ cmd = {} /\ kept = 0
    BY <1>8 DEF pvlogger_start, MovesTo, logVars, line, history, IInv, IdleInv
  <2>2. StoredPos \in 0..Size /\ StoredPos \in {0, xattr} /\ (~cut => StoredPos = xattr /\ xattr <= size)
    BY <1>0 DEF StoredPos, TypeOK
  <2>3. TypeOK'
    BY <1>0, <2>1, <2>2 DEF TypeOK
  <2>4. CmdInv'
    <3>1. (buf' + 1)..buf' = {} /\ buf' + 1 \in 1..(buf' + 1)
      <4>1. buf' \in Nat
        BY <2>1, <2>2
      <4> QED BY <4>1, NoBytes, Zenon
    <3> QED BY <2>1, <3>1 DEF CmdInv
  <2> QED BY <2>1, <2>3, <2>4 DEF IInv, IdleInv, JoinInv, OneLine
<1>9. CASE InitAgain
  <2>1. /\ UNCHANGED <<breaks, size, cut, xattr, pc, joins, sent, lines>> /\ pc = "idle"
        /\ pos' = StoredPos /\ buf' = StoredPos /\ faults < MaxFaults /\ faults' = faults + 1
    BY <1>9 DEF InitAgain, MovesTo, Keep, Fault, logVars, line, history
  <2>2. \/ pos = StoredPos /\ UNCHANGED <<cmd, kept, lost, moves>>
        \/ /\ kept' = kept + Cardinality(cmd) /\ cmd' = {} /\ lost' = lost \cup cmd
           /\ moves' = (IF cmd = {} THEN moves ELSE moves + 1)
    BY <1>9 DEF InitAgain, Keep, line, history
  <2>3. StoredPos \in 0..Size /\ StoredPos \in {0, xattr} /\ (~cut => StoredPos = xattr /\ xattr <= size)
    BY <1>0 DEF StoredPos, TypeOK
  <2>4. kept' \in Nat /\ kept' <= BufSize /\ joins' \in Nat /\ moves' \in 0..faults'
        /\ faults' \in 0..MaxFaults /\ JoinInv'
    BY <2>1, <2>2, Moved
  <2>5. (cmd' = cmd /\ kept' = kept /\ buf' = buf /\ pos' = pos) \/ cmd' = {}
    BY <2>1, <2>2 DEF IInv, IdleInv
  <2>6. TypeOK'
    <3>1. cmd' \subseteq 1..pos' /\ kept' + Cardinality(cmd') <= BufSize
      <4>1. cmd \subseteq 1..pos /\ kept + Cardinality(cmd) <= BufSize
        BY <1>0 DEF TypeOK
      <4>2. CASE cmd' = {}
        BY <1>0, <2>4, <4>2
      <4>3. CASE cmd' = cmd /\ kept' = kept /\ pos' = pos
        BY <4>1, <4>3
      <4> QED BY <2>5, <4>2, <4>3
    <3>2. lost' \subseteq 1..Size
      <4>1. lost \subseteq 1..Size /\ cmd \subseteq 1..Size
        BY <1>0 DEF TypeOK
      <4> QED BY <2>2, <4>1
    <3> QED BY <1>0, <2>1, <2>3, <2>4, <3>1, <3>2 DEF TypeOK
  <2>7. CmdInv'
    <3>1. (buf' + 1)..buf' = {} /\ buf' + 1 \in 1..(buf' + 1)
      <4>1. buf' \in Nat
        BY <2>1, <2>3
      <4> QED BY <4>1, NoBytes, Zenon
    <3>2. CASE cmd' = {}
      BY <3>1, <3>2 DEF CmdInv
    <3>3. CASE cmd' = cmd /\ buf' = buf
      BY <1>0, <2>1, <3>3 DEF CmdInv
    <3> QED BY <2>5, <3>2, <3>3
  <2> QED BY <2>1, <2>4, <2>6, <2>7 DEF IInv, IdleInv, OneLine
<1>10. CASE Stop
  <2>1. /\ UNCHANGED <<breaks, size, cut, xattr, pos, buf, sent, lost, lines, moves, joins>>
        /\ pc' = "none" /\ cmd' = {} /\ kept' = 0 /\ faults < MaxFaults /\ faults' = faults + 1
    BY <1>10 DEF Stop, Fault, logVars, history
  <2>2. TypeOK'
    BY <1>0, <2>1 DEF TypeOK
  <2>3. CmdInv'
    <3>1. (buf' + 1)..buf' = {} /\ buf' + 1 \in 1..(buf' + 1)
      BY <1>0, <2>1, NoBytes, Zenon
    <3> QED BY <2>1, <3>1 DEF CmdInv
  <2>4. JoinInv'
    BY <1>0, <2>1 DEF IInv, JoinInv, TypeOK
  <2> QED BY <2>1, <2>2, <2>3, <2>4 DEF IInv, IdleInv, OneLine
<1>11. CASE UNCHANGED vars
  BY <1>11 DEF vars, logVars, line, history, IInv, TypeOK, CmdInv, IdleInv, JoinInv, OneLine
<1> QED
  BY <1>1, <1>2, <1>3, <1>4, <1>5, <1>6, <1>7, <1>8, <1>9, <1>10, <1>11 DEF Next, Logger

(***************************************************************************)
(* The inductive invariant holds, wherever a logger is stopped (pvlogger.c).*)
(***************************************************************************)
THEOREM Invariance == Spec => []IInv
<1> QED BY InitInv, NextInv, PTL DEF Spec

(***************************************************************************)
(* The line never outgrows its buffer, whatever is left in it, and in a    *)
(* log that is not cut the stored position and the reader never pass each  *)
(* other (pvlogger_flush).                                                 *)
(***************************************************************************)
THEOREM TypeCorrect == Spec => []TypeOK
<1>1. IInv => TypeOK
  BY DEF IInv
<1> QED BY <1>1, Invariance, PTL

(***************************************************************************)
(* No line is handed on with a hole, and two lines are joined only by a    *)
(* reader that was moved, or a log that was cut, in the middle of one,     *)
(* whatever their length (pvlogger_flush, start_pvlogger).                 *)
(***************************************************************************)
THEOREM LinesCorrect == Spec => []LinesNotMixed
<1>1. IInv => LinesNotMixed
  <2> SUFFICES ASSUME IInv
               PROVE  joins <= moves
    BY DEF IInv, OneLine, LinesNotMixed
  <2>1. joins \in Nat /\ moves \in Nat /\ joins + (IF kept > 0 THEN 1 ELSE 0) <= moves
    BY PvLoggerAssumption DEF IInv, TypeOK, JoinInv
  <2> QED BY <2>1
<1> QED BY <1>1, Invariance, PTL
-----------------------------------------------------------------------------
(***************************************************************************)
(* If lines fit and the log is not cut, what is handed on of a line        *)
(* reaches to the end of it, and no line break is passed over, but what is *)
(* lost.                                                                   *)
(***************************************************************************)
SentInv ==
  ~cut /\ LinesFit =>
    /\ breaks \cap (1..buf) \subseteq sent \cup lost
    /\ \A p \in sent, q \in 1..Size :
         p < q /\ (p..q) \cap breaks = {} => q \in sent \cup lost

\* Behind so many bytes of a line as fit into the buffer there is a break.
LEMMA BreakFollows ==
  ASSUME LinesFit, BufSize \in Nat, Size \in Nat, NEW first \in Nat \ {0}, NEW last \in 1..Size,
         first + BufSize <= last
  PROVE  (first..last) \cap breaks # {}
<1>1. first - 1 \in 0..(Size - BufSize - 1) /\ (first - 1) + 1 = first
  OBVIOUS
<1>2. PICK k \in first .. (first - 1) + BufSize + 1 : k \in breaks
  BY <1>1 DEF LinesFit
<1> QED BY <1>2

\* If lines fit, a line that nothing is joined with is not cut before its break.
LEMMA BreakAtEnd ==
  ASSUME TypeOK, CmdInv, buf < pos, NewLineAt # {}, LinesFit, kept = 0
  PROVE  buf + Written + 1 \in breaks
<1> USE PvLoggerAssumption
<1>0. /\ buf \in Nat /\ pos \in Nat /\ pos <= Size /\ breaks \subseteq Nat /\ Size \in Nat
      /\ BufSize \in Nat
  BY DEF TypeOK
<1>1. PICK first \in 1..(buf + 1) : cmd = first..buf /\ cmd \cap breaks = {}
  BY DEF CmdInv
<1>2. Cardinality(cmd) = buf + 1 - first /\ Cardinality(cmd) \in Nat
  BY <1>1, LineLength
<1>3. /\ Written \in 0..(pos - buf) /\ Written < pos - buf
      /\ (buf + 1 .. buf + Written) \cap breaks = {}
      /\ kept + Cardinality(cmd) + Written <= BufSize
  BY WrittenFits
<1>4. Min(NewLineAt) \in NewLineAt
  BY <1>0, MinOfSome DEF NewLineAt
<1>5. ToWrite = Min(NewLineAt) - 1 - buf /\ Min(NewLineAt) \in buf + 1 .. pos
  BY <1>4 DEF ToWrite, NewLineAt
<1>6. Written = ToWrite \/ Written = BufSize - Cardinality(cmd)
  <2>1. PICK room \in Nat : room = BufSize - (kept + Cardinality(cmd)) /\ room = BufSize - Cardinality(cmd)
    BY <1>0, <1>2, <1>3
  <2>2. ToWrite \in Nat
    BY <1>0, <1>5
  <2> QED BY <2>1, <2>2, MinOfTwo DEF Written
<1>7. CASE Written = ToWrite
  BY <1>0, <1>4, <1>5, <1>7 DEF NewLineAt
<1>8. CASE Written = BufSize - Cardinality(cmd)
  <2>1. first + BufSize = buf + Written + 1 /\ buf + Written + 1 \in 1..Size
    BY <1>0, <1>2, <1>3, <1>8
  <2>2. (first .. buf + Written + 1) \cap breaks # {}
    BY <1>0, <2>1, BreakFollows
  <2> QED BY <1>0, <1>1, <1>3, <2>2
<1> QED BY <1>6, <1>7, <1>8

LEMMA SentNext == IInv /\ SentInv /\ [Next]_vars => SentInv'
<1> SUFFICES ASSUME IInv, SentInv, [Next]_vars, ~cut', LinesFit'
             PROVE  /\ breaks' \cap (1..buf') \subseteq sent' \cup lost'
                    /\ \A p \in sent', q \in 1..Size :
                         p < q /\ (p..q) \cap breaks' = {} => q \in sent' \cup lost'
  BY DEF SentInv
<1> USE PvLoggerAssumption
<1>a. breaks' = breaks /\ cut' = cut /\ ~Cut
  BY DEF Next, Logger, Write, Cut, log_flush_pv, FlushFull, FlushLine, FlushRest,
         set_logger_xattr, pvlogger_start, InitAgain, Stop, logVars, vars
<1>0. /\ TypeOK /\ CmdInv /\ size \in 0..Size /\ pos \in xattr..size /\ buf \in xattr..pos
      /\ xattr \in Nat /\ breaks \subseteq Nat /\ Size \in Nat /\ BufSize \in Nat /\ LinesFit
  BY <1>a DEF IInv, TypeOK, LinesFit
<1>b. /\ breaks \cap (1..buf) \subseteq sent \cup lost
      /\ \A p \in sent, q \in 1..Size :
           p < q /\ (p..q) \cap breaks = {} => q \in sent \cup lost
  BY <1>0, <1>a DEF SentInv
<1>1. CASE Write \/ log_flush_pv \/ set_logger_xattr \/ pvlogger_start \/ InitAgain \/ Stop \/ UNCHANGED vars
  <2>1. sent' = sent /\ lost \subseteq lost'
    BY <1>1 DEF Write, log_flush_pv, set_logger_xattr, pvlogger_start, InitAgain, Keep, Stop, vars, history
  <2>2. buf' \in 0..buf
    BY <1>0, <1>1
       DEF Write, log_flush_pv, set_logger_xattr, pvlogger_start, InitAgain, Stop, vars, MovesTo,
           StoredPos, IInv, IdleInv
  <2> QED BY <1>0, <1>a, <1>b, <2>1, <2>2
<1>2. CASE FlushFull
  <2>1. PICK first \in 1..(buf + 1) : cmd = first..buf /\ cmd \cap breaks = {}
    BY <1>0 DEF CmdInv
  <2>2. UNCHANGED <<buf, xattr>> /\ Forward(first..buf, {})
    BY <1>2, <2>1 DEF FlushFull
  <2>3. CASE HandsOn(first..buf, {})
    <3>1. sent' = sent \cup (first..buf) /\ lost' = lost /\ kept = 0
      BY <2>3 DEF HandsOn
    <3>2. first + BufSize = buf + 1
      <4>1. Cardinality(cmd) = buf + 1 - first /\ Cardinality(cmd) \in Nat
        BY <1>0, <2>1, LineLength
      <4> QED BY <1>0, <1>2, <2>1, <3>1, <4>1 DEF FlushFull, Full
    <3>3. ASSUME NEW p \in first..buf, NEW q \in 1..Size, p < q, (p..q) \cap breaks = {}
          PROVE  q \in first..buf
      <4> SUFFICES ASSUME q > buf
                   PROVE  FALSE
        BY <1>0, <3>3
      <4>1. (first..q) \cap breaks # {}
        BY <1>0, <3>2, <3>3, BreakFollows
      <4> QED BY <1>0, <2>1, <3>3, <4>1
    <3> QED BY <1>0, <1>a, <1>b, <2>2, <3>1, <3>3
  <2>4. CASE HandsOnJoined(first..buf, {}) \/ WriteFails(first..buf, {})
    BY <1>0, <1>a, <1>b, <2>2, <2>4 DEF HandsOnJoined, WriteFails
  <2> QED BY <2>2, <2>3, <2>4 DEF Forward
<1>3. CASE FlushLine
  <2>1. /\ Written \in 0..(pos - buf) /\ Written < pos - buf /\ (buf + 1 .. buf + Written) \cap breaks = {}
    BY <1>0, <1>3, WrittenFits DEF FlushLine
  <2>2. PICK first \in 1..(buf + Written + 1) : Line = first..(buf + Written)
    BY <1>0, <1>3, LineFits DEF FlushLine
  <2>3. Line \cap breaks = {} /\ buf' = buf + Written + 1 /\ Forward(Line, {buf'})
    BY <1>0, <1>3, LineFits DEF FlushLine
  <2>4. \A b \in breaks \cap (1..buf') : b \in 1..buf \/ b = buf'
    BY <1>0, <2>1, <2>3
  <2>5. CASE HandsOn(Line, {buf'})
    <3>1. sent' = sent \cup Line \cup ({buf'} \cap breaks) /\ lost' = lost /\ kept = 0
      BY <2>5 DEF HandsOn
    <3>2. buf' \in breaks
      BY <1>0, <1>3, <2>3, <3>1, BreakAtEnd DEF FlushLine
    <3>3. ASSUME NEW p \in Line, NEW q \in 1..Size, p < q, (p..q) \cap breaks = {}
          PROVE  q \in Line
      BY <1>0, <2>1, <2>2, <2>3, <3>2, <3>3
    <3>4. ASSUME NEW p \in sent', NEW q \in 1..Size, p < q, (p..q) \cap breaks = {}
          PROVE  q \in sent' \cup lost'
      <4>1. p \notin breaks
        <5>1. p \in Nat
          <6>1. sent \subseteq Nat
            BY <1>0 DEF TypeOK
          <6>2. Line \subseteq Nat /\ buf' \in Nat
            BY <1>0, <2>1, <2>2, <2>3
          <6> QED BY <3>1, <6>1, <6>2
        <5>2. p \in p..q
          BY <3>4, <5>1
        <5> QED BY <3>4, <5>2
      <4> QED BY <1>b, <3>1, <3>3, <3>4, <4>1
    <3> QED BY <1>a, <1>b, <2>4, <3>1, <3>2, <3>4
  <2>6. CASE HandsOnJoined(Line, {buf'}) \/ WriteFails(Line, {buf'})
    <3>1. sent' = sent /\ lost' = lost \cup Line \cup {buf'}
      BY <2>6 DEF HandsOnJoined, WriteFails
    <3> QED BY <1>a, <1>b, <2>4, <3>1
  <2> QED BY <2>3, <2>5, <2>6 DEF Forward
<1>4. CASE FlushRest
  <2>1. /\ Written \in 0..(pos - buf) /\ (buf + 1 .. buf + Written) \cap breaks = {}
    BY <1>0, <1>4, WrittenFits DEF FlushRest
  <2>2. buf' = buf + Written /\ UNCHANGED <<sent, lost>>
    BY <1>4 DEF FlushRest, history
  <2>3. \A b \in breaks \cap (1..buf') : b \in 1..buf
    BY <1>0, <2>1, <2>2
  <2> QED BY <1>a, <1>b, <2>2, <2>3
<1> QED BY <1>a, <1>1, <1>2, <1>3, <1>4 DEF Next, Logger

(***************************************************************************)
(* If lines fit and the log is not cut, nothing in front of the stored     *)
(* position is missing but the heads of lines that a logger was stopped in *)
(* and the lines whose write failed or that were in the buffer when the    *)
(* reader was moved (pvlogger_flush, set_logger_xattr).                    *)
(***************************************************************************)
THEOREM SavedCorrect == Spec => []SavedIsForwarded
<1>1. Init => SentInv
  BY DEF Init, SentInv
<1>2. IInv /\ SentInv => SavedIsForwarded
  <2> SUFFICES ASSUME IInv, SentInv, ~cut, LinesFit, NEW q \in 1..xattr, q \notin sent \cup lost
               PROVE  q \notin breaks /\ \A p \in LineOf(q) : p < q => p \notin sent
    BY DEF SavedIsForwarded
  <2>0. xattr \in 0..Size /\ xattr <= buf /\ buf \in Nat /\ breaks \subseteq Nat /\ Size \in Nat
    BY PvLoggerAssumption DEF IInv, TypeOK
  <2>a. /\ breaks \cap (1..buf) \subseteq sent \cup lost
        /\ \A p \in sent, r \in 1..Size :
             p < r /\ (p..r) \cap breaks = {} => r \in sent \cup lost
    BY DEF SentInv
  <2>1. q \notin breaks
    BY <2>0, <2>a
  <2>2. ASSUME NEW p \in LineOf(q), p < q, p \in sent
        PROVE  FALSE
    <3>1. p \in 1..Size /\ p \in Nat /\ q \in Nat /\ \A b \in breaks : ~(Min({p, q}) <= b /\ b < Max({p, q}))
      BY <2>0 DEF LineOf
    <3>2. Min({p, q}) = p /\ Max({p, q}) = q
      BY <2>2, <3>1, MinOfTwo, MaxOfTwo
    <3>3. (p..q) \cap breaks = {}
      BY <2>0, <2>1, <3>1, <3>2
    <3> QED BY <2>0, <2>a, <2>2, <3>1, <3>3
  <2> QED BY <2>1, <2>2
<1> QED BY <1>1, <1>2, SentNext, Invariance, PTL DEF Spec
===============================================================================

------------------------------ MODULE PvLogger ------------------------------
(***************************************************************************)
(* The logger of a container (pvlogger.c): a process that follows a log    *)
(* file of the container, cuts it into lines and hands them to the log     *)
(* service.  How far it has come is kept in an attribute of the file, from *)
(* which the next logger goes on: pantavisor stops the loggers with their  *)
(* container and starts new ones (platforms.c).                            *)
(*                                                                         *)
(* The library that follows the file is not part of the repository: it     *)
(* reads what is there in pieces and calls pvlogger_flush for each.  Bytes *)
(* are known by their position.  The log has no carriage returns.          *)
(***************************************************************************)
EXTENDS Naturals, Sequences, FiniteSets, FiniteSetsExt

CONSTANTS
  Size,      \* bytes that the container will write
  Breaks,    \* sets of positions at which the log may have its line breaks
  BufSize,   \* PV_LOG_BUF_SIZE - 1, what the line buffer takes
  MaxRead,   \* the longest piece the library reads at once
  MaxFaults  \* bound: stops and restarts, cuts of the log, failed calls

ASSUME PvLoggerAssumption ==
  /\ Size \in Nat /\ Breaks \subseteq SUBSET (1..Size)
  /\ {BufSize, MaxRead} \subseteq Nat \ {0} /\ MaxFaults \in Nat

VARIABLES
  breaks,   \* the positions of the line breaks
  size,     \* how much of the log is written
  cut,      \* was the log ever emptied?
  xattr,    \* the stored position: the bytes in front of it are done with
  pc,       \* "none", "idle" or "flush": no logger, in the library, in pvlogger_flush
  pos,      \* the position of the reader
  buf,      \* what pvlogger_flush has of its piece: the bytes buf + 1 .. pos
  cmd,      \* logger_cmd: the bytes of the line that is being put together,
  kept,     \* behind so many that were there before the reader was moved
  sent,     \* the bytes that were handed on, and the breaks that ended a line
  lost,     \* the bytes that no line of their own will bring: see Keep and Forward
  lines,    \* the bytes of the last line handed on
  moves,    \* how often the reader was moved while a line was put together
  joins,    \* the lines handed on behind bytes of another
  faults

logVars == <<breaks, size, cut>>
line == <<cmd, kept>>
history == <<sent, lost, lines, moves, joins>>
vars == <<logVars, xattr, pc, pos, buf, line, history, faults>>

Init ==
  /\ breaks \in Breaks /\ size = 0 /\ cut = FALSE /\ xattr = 0
  /\ pc = "none" /\ pos = 0 /\ buf = 0
  /\ cmd = {} /\ kept = 0
  /\ sent = {} /\ lost = {} /\ lines = {} /\ moves = 0 /\ joins = 0
  /\ faults = 0

Fault == faults < MaxFaults /\ faults' = faults + 1

(***************************************************************************)
(* The container writes; the library reads on.                             *)
(***************************************************************************)
Write ==
  /\ size < Size
  /\ size' \in size + 1 .. Size
  /\ UNCHANGED <<breaks, cut, xattr, pc, pos, buf, line, history, faults>>

log_flush_pv ==
  /\ pc = "idle" /\ pos < size
  /\ pos' \in pos + 1 .. Min({size, pos + MaxRead})
  /\ pc' = "flush" /\ buf' = pos
  /\ UNCHANGED <<logVars, xattr, line, history, faults>>

(***************************************************************************)
(* The log is emptied, by the container or at its size limit, and a new    *)
(* one written.  The reader and the attribute stay where they are, and so  *)
(* does half a line in the buffer.  (While a piece is flushed the log is   *)
(* not looked at, so it might as well be emptied behind that.)             *)
(***************************************************************************)
Cut ==
  /\ pc # "flush" /\ size > 0 /\ Fault
  /\ breaks' \in Breaks /\ size' = 0 /\ cut' = TRUE
  /\ kept' = kept + Cardinality(cmd) /\ cmd' = {}
  /\ moves' = IF cmd = {} THEN moves ELSE moves + 1
  /\ sent' = {} /\ lost' = {} /\ lines' = {}
  /\ UNCHANGED <<xattr, pc, pos, buf, joins>>

(***************************************************************************)
(* Forward hands a line on and passes over a byte, the break that ended    *)
(* it, if one did.  A line behind kept bytes is joined with them.  Nobody  *)
(* learns of a pvctl_write that fails.                                     *)
(***************************************************************************)
HandsOn(bytes, over) ==
  /\ kept = 0
  /\ sent' = sent \cup bytes \cup (over \cap breaks) /\ lines' = bytes
  /\ UNCHANGED <<lost, joins, faults>>

HandsOnJoined(bytes, over) ==
  /\ kept > 0
  /\ lost' = lost \cup bytes \cup over /\ lines' = bytes
  /\ joins' = joins + 1
  /\ UNCHANGED <<sent, faults>>

WriteFails(bytes, over) ==
  /\ Fault
  /\ lost' = lost \cup bytes \cup over
  /\ UNCHANGED <<sent, lines, joins>>

Forward(bytes, over) ==
  /\ HandsOn(bytes, over) \/ HandsOnJoined(bytes, over) \/ WriteFails(bytes, over)
  /\ kept' = 0 /\ UNCHANGED moves

(***************************************************************************)
(* One round of the loop of pvlogger_flush.  A buffer that is full is      *)
(* handed on first.  Then the piece is copied up to its next line break,   *)
(* as far as it fits; if there is a break, one more byte is passed over    *)
(* and the line handed on, the rest of the line not being looked at.       *)
(***************************************************************************)
Full == kept + Cardinality(cmd) = BufSize

NewLineAt == breaks \cap (buf + 1 .. pos)

ToWrite == IF NewLineAt = {} THEN pos - buf ELSE Min(NewLineAt) - 1 - buf

Written == Min({ToWrite, BufSize - (kept + Cardinality(cmd))})

Line == cmd \cup (buf + 1 .. buf + Written)

FlushFull ==
  /\ pc = "flush" /\ buf < pos /\ Full
  /\ Forward(cmd, {}) /\ cmd' = {}
  /\ UNCHANGED <<logVars, xattr, pc, pos, buf>>

\* Mutant: the line is not taken out of the buffer.
KeepsLine ==
  /\ pc = "flush" /\ buf < pos /\ ~Full /\ NewLineAt # {}
  /\ buf' = buf + Written + 1
  /\ Forward(Line, {buf'}) /\ cmd' = Line
  /\ UNCHANGED <<logVars, xattr, pc, pos>>

\* Mutant: the break is not passed over.
StaysAtBreak ==
  /\ pc = "flush" /\ buf < pos /\ ~Full /\ NewLineAt # {}
  /\ buf' = buf + Written
  /\ Forward(Line, {buf' + 1}) /\ cmd' = {}
  /\ UNCHANGED <<logVars, xattr, pc, pos>>

FlushLine ==
  /\ pc = "flush" /\ buf < pos /\ ~Full /\ NewLineAt # {}
  /\ buf' = buf + Written + 1
  /\ Forward(Line, {buf'}) /\ cmd' = {}
  /\ UNCHANGED <<logVars, xattr, pc, pos>>

FlushRest ==
  /\ pc = "flush" /\ buf < pos /\ ~Full /\ NewLineAt = {}
  /\ buf' = buf + Written /\ cmd' = Line
  /\ UNCHANGED <<logVars, xattr, pc, pos, kept, history, faults>>

\* Mutant: the position is stored before the piece has been handed on.
SavesEarly ==
  /\ pc = "flush" /\ xattr < pos
  /\ xattr' = pos /\ pc' = IF buf = pos THEN "idle" ELSE pc
  /\ UNCHANGED <<logVars, pos, buf, line, history, faults>>

\* The position is stored when the whole piece has been handed on, if the
\* attribute can be written.
set_logger_xattr ==
  /\ pc = "flush" /\ buf = pos
  /\ pc' = "idle"
  /\ \/ xattr' = pos /\ UNCHANGED faults
     \/ Fault /\ UNCHANGED xattr
  /\ UNCHANGED <<logVars, pos, buf, line, history>>

(***************************************************************************)
(* A logger starts where the last one has stopped, as far as that was      *)
(* stored.  It starts again when the library fails, with the line it was   *)
(* putting together still in its buffer; when the stored position is not   *)
(* the one it had come to, that line is joined with the next one.          *)
(***************************************************************************)
StoredPos == IF size < xattr THEN 0 ELSE xattr

MovesTo(p) == pos' = p /\ buf' = p

Keep ==
  /\ kept' = kept + Cardinality(cmd) /\ cmd' = {}
  /\ lost' = lost \cup cmd
  /\ moves' = IF cmd = {} THEN moves ELSE moves + 1
  /\ UNCHANGED <<sent, lines, joins>>

pvlogger_start ==
  /\ pc = "none"
  /\ pc' = "idle" /\ MovesTo(StoredPos)
  /\ UNCHANGED <<logVars, xattr, line, history, faults>>

InitAgain ==
  /\ pc = "idle" /\ Fault
  /\ MovesTo(StoredPos)
  /\ IF pos = StoredPos THEN UNCHANGED <<line, history>> ELSE Keep
  /\ UNCHANGED <<logVars, xattr, pc>>

\* Pantavisor stops the loggers of a container, or the device goes down.
Stop ==
  /\ pc # "none" /\ Fault
  /\ pc' = "none" /\ cmd' = {} /\ kept' = 0
  /\ UNCHANGED <<logVars, xattr, pos, buf, history>>

Logger ==
  \/ log_flush_pv \/ FlushFull \/ FlushLine \/ FlushRest
  \/ set_logger_xattr \/ pvlogger_start

Next == Logger \/ Write \/ Cut \/ InitAgain \/ Stop

Spec == Init /\ [][Next]_vars

(* The logger is a process of its own that nothing holds up for good.      *)
LiveSpec == Spec /\ WF_vars(Logger)

(***************************************************************************)
(* Properties.                                                             *)
(***************************************************************************)

(* The line never outgrows its buffer, and no reader a log that was not    *)
(* cut.                                                                    *)
TypeOK ==
  /\ breaks \in SUBSET (1..Size) /\ size \in 0..Size /\ cut \in BOOLEAN
  /\ xattr \in 0..Size /\ pos \in 0..Size /\ buf \in 0..pos
  /\ ~cut => xattr <= buf /\ pos <= size
  /\ pc \in {"none", "idle", "flush"}
  /\ cmd \subseteq 1..pos /\ kept \in Nat /\ kept + Cardinality(cmd) <= BufSize
  /\ {sent, lost, lines} \subseteq SUBSET (1..Size)
  /\ moves \in 0..faults /\ joins \in Nat
  /\ faults \in 0..MaxFaults

\* The line that byte p is on, its break included.
LineOf(p) == {q \in 1..Size : \A b \in breaks : ~(Min({p, q}) <= b /\ b < Max({p, q}))}

\* Every line, its break not counted, fits into the buffer.
LinesFit == \A i \in 0..(Size - BufSize - 1) : \E k \in i + 1 .. i + BufSize + 1 : k \in breaks

(***************************************************************************)
(* In a log that was not cut and whose lines fit into the buffer, whatever *)
(* lies in front of the stored position was handed on line by line: every  *)
(* line break ended a line, and nothing is missing behind a byte that      *)
(* arrived.  What may be missing is a line whose pvctl_write failed, one   *)
(* that was in the buffer when the logger started again somewhere else or  *)
(* that is joined with it, and the head of a line that an earlier logger   *)
(* had read when it was stopped (pvlogger_flush, set_logger_xattr).        *)
(***************************************************************************)
SavedIsForwarded ==
  ~cut /\ LinesFit =>
    \A q \in 1..xattr :
      q \notin sent \cup lost =>
        q \notin breaks /\ \A p \in LineOf(q) : p < q => p \notin sent

(***************************************************************************)
(* What is handed on is a piece of one line of the log, without a hole,    *)
(* however the log is read in pieces and whatever the length of its lines. *)
(* No two lines are joined but when the reader is moved or the log is cut  *)
(* while half a line is in the buffer, and then it is one line each time   *)
(* (pvlogger_flush, start_pvlogger).                                       *)
(***************************************************************************)
LinesNotMixed ==
  /\ \A p, q \in lines : p < q => (p .. q) \cap breaks = {} /\ p .. q \subseteq lines
  /\ joins <= moves

(* Whatever the container writes is taken, however often the logger is     *)
(* stopped, and its position stored unless the attribute cannot be         *)
(* written, in a log that is not cut.                                      *)
TakenInTheEnd ==
  \A p \in 1..Size :
    ~cut /\ size >= p ~> cut \/ xattr >= p \/ (pc = "idle" /\ pos >= p)
=============================================================================

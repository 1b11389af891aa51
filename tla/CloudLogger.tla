---------------------------- MODULE CloudLogger ----------------------------
(***************************************************************************)
(* How log files get to the cloud (src/ph_logger/ph_logger.c).             *)
(*                                                                         *)
(* Pantavisor and its log service append to the log files of the running   *)
(* revision.  Two child processes read them back: the push service keeps   *)
(* reading the files of the running revision, the range service walks once *)
(* over the other revisions, from the newest to the oldest.  Both read one *)
(* buffer from the position kept in an extended attribute of the file, cut *)
(* it into lines, POST the lines, and store the new position.  They share  *)
(* nothing but the files and can be killed between any two steps.          *)
(*                                                                         *)
(* A file is a sequence of bytes, "x" (text) or "n" (end of line), and gen *)
(* counts the times it was emptied, so that <<g, i>> names the i-th byte   *)
(* the file had after g truncations.  sent[f] are the bytes the cloud has. *)
(***************************************************************************)
EXTENDS Integers, Sequences

CONSTANTS N,         \* the revisions are 0..N
          Names,     \* the log files of a revision
          Own,       \* those that Pantavisor writes itself
          Skipped,   \* those that .ph_logger_skip_list names
          Buf,       \* size of a log buffer
          MaxSize,   \* a file this long is emptied before the next message (Pantavisor
                     \* and the log service have a limit each)
          MaxLine,   \* bound: the text bytes of a line
          MaxLen,    \* bound: the bytes of each file, by the times it was emptied
          MaxGen,    \* bound: the truncations of a file
          MaxFaults  \* bound: failed posts, stops and changes of revision

Revs == 0..N
Files == Revs \X Names
Services == {"push", "range"}

ASSUME LoggerAssumption ==
    /\ N \in Nat /\ Buf \in Nat \ {0}
    /\ MaxSize \in [Names -> Nat \ {0}] /\ MaxLine \in Nat /\ MaxLen \in [Files -> [0..MaxGen -> Nat]]
    /\ MaxGen \in Nat /\ MaxFaults \in Nat
    /\ Own \subseteq Names /\ Skipped \subseteq Names

(* The files that are pushed: the skip list is read for each revision. *)
Listed == Names \ Skipped

VARIABLES cur,     \* the running revision
          log,     \* the bytes of each file
          gen,     \* how often it was emptied
          pos,     \* its trusted.ph.logger.pos attribute (absent: 0)
          sent,    \* the bytes the cloud has accepted
          pc,      \* what each service does
          rev,     \* the revision it pushes
          todo,    \* the files of that revision still to look at
          result,  \* 1 if it has sent something of that revision
          job,     \* the file it reads
          faults

files == <<log, gen, pos, sent>>
walk == <<rev, todo, result>>
vars == <<cur, files, pc, walk, job, faults>>

(* pc: "off" (pid -1), "walk" (about to push revision rev), "files" (in    *)
(* the loop over its files), "scan", "post" and "save" (with the file of   *)
(* job), and "exit" (ended, its pid is still known).                       *)
(*                                                                         *)
(* job: buf was read from file, emptied at times, after its first start    *)
(* bytes; offset bytes of it were looked at and left are still to be; the  *)
(* bytes frags of the file wait to be sent.                                *)
NoJob == [file |-> <<>>, at |-> 0, start |-> 0, buf |-> <<>>, offset |-> 0,
          left |-> 0, frags |-> {}]

Working == {"scan", "post", "save"}

Init ==
    /\ cur \in Revs
    /\ log = [f \in Files |-> <<>>]
    /\ gen = [f \in Files |-> 0]
    /\ pos = [f \in Files |-> 0]
    /\ sent = [f \in Files |-> {}]
    /\ pc = [s \in Services |-> "off"]
    /\ rev = [s \in Services |-> 0]
    /\ todo = [s \in Services |-> {}]
    /\ result = [s \in Services |-> 0]
    /\ job = [s \in Services |-> NoJob]
    /\ faults = 0

------------------------------------------------------------------------------
(* The writers. *)

AtLineStart(f) == log[f] # <<>> => log[f][Len(log[f])] = "n"

(* The last MaxLine bytes are text. *)
LineFull(f) ==
    /\ Len(log[f]) >= MaxLine
    /\ \A i \in (Len(log[f]) - MaxLine + 1)..Len(log[f]) : log[f][i] = "x"

(* A message starts on a file that reached its size limit. *)
TooLong(f) == AtLineStart(f) /\ Len(log[f]) >= MaxSize[f[2]]

(* Pantavisor writes a message of its own in several pieces. *)
WriteOwn(n, c) ==
    LET f == <<cur, n>> IN
    /\ n \in Own
    /\ Len(log[f]) < MaxLen[f][gen[f]]
    /\ ~TooLong(f)
    /\ c = "x" => ~LineFull(f)
    /\ log' = [log EXCEPT ![f] = Append(@, c)]
    /\ UNCHANGED <<cur, gen, pos, sent, pc, walk, job, faults>>

(* The log service writes a message from its socket at once: the name of   *)
(* its source, text, and an end of line.  A message that brings an end of  *)
(* line of its own, as those of pvlogger do, makes an empty line.          *)
WriteFromSocket(n, text, ends) ==
    LET f == <<cur, n>> IN
    /\ n \notin Own
    /\ Len(log[f]) + text + ends <= MaxLen[f][gen[f]]
    /\ ~TooLong(f)
    /\ log' = [log EXCEPT ![f] =
                  @ \o [i \in 1..(text + ends) |-> IF i <= text THEN "x" ELSE "n"]]
    /\ UNCHANGED <<cur, gen, pos, sent, pc, walk, job, faults>>

(* A file that reached its limit is emptied before the next message. *)
Truncate(n) ==
    LET f == <<cur, n>> IN
    /\ TooLong(f)
    /\ gen[f] < MaxGen
    /\ n \in Own => gen[f] > 0
    /\ log' = [log EXCEPT ![f] = <<>>]
    /\ gen' = [gen EXCEPT ![f] = @ + 1]
    /\ UNCHANGED <<cur, pos, sent, pc, walk, job, faults>>

(* The first time, Pantavisor's own log is given to gzip, which takes the  *)
(* file away; the message goes to the file without a name, and the next    *)
(* one finds a new file, without an attribute.                             *)
Rotate(n) ==
    LET f == <<cur, n>> IN
    /\ TooLong(f)
    /\ n \in Own /\ gen[f] = 0 /\ MaxGen > 0
    /\ log' = [log EXCEPT ![f] = <<>>]
    /\ gen' = [gen EXCEPT ![f] = 1]
    /\ pos' = [pos EXCEPT ![f] = 0]
    /\ UNCHANGED <<cur, sent, pc, walk, job, faults>>

------------------------------------------------------------------------------
(* The services. *)

(* ph_logger_get_max_revision: the newest revision with a log directory. *)
HasLogs(r) == r \in {0, cur} \/ \E n \in Names : log[<<r, n>>] # <<>> \/ gen[<<r, n>>] > 0

MaxRevision(r) == HasLogs(r) /\ \A q \in Revs : HasLogs(q) => q <= r

(* Mutant: the range service starts from the running revision. *)
StartFromCurrent(s) ==
    /\ pc[s] = "off"
    /\ pc' = [pc EXCEPT ![s] = "walk"]
    /\ rev' = [rev EXCEPT ![s] = cur]
    /\ UNCHANGED <<cur, files, todo, result, job, faults>>

(* ph_logger_start_cloud forks a service that has no pid. *)
Start(s) ==
    /\ pc[s] = "off"
    /\ pc' = [pc EXCEPT ![s] = "walk"]
    /\ \E r \in Revs :
          /\ IF s = "push" THEN r = cur ELSE MaxRevision(r)
          /\ rev' = [rev EXCEPT ![s] = r]
    /\ UNCHANGED <<cur, files, todo, result, job, faults>>

(* Mutant: the range service pushes the running revision too. *)
AvoidsNothing(s) == FALSE

(* The range service leaves out the running revision. *)
Avoids(s) == s = "range" /\ rev[s] = cur

Avoid(s) ==
    /\ pc[s] = "walk" /\ rev[s] >= 0
    /\ Avoids(s)
    /\ rev' = [rev EXCEPT ![s] = @ - 1]
    /\ UNCHANGED <<cur, files, pc, todo, result, job, faults>>

(* Below revision 0 the range service ends. *)
Exit(s) ==
    /\ pc[s] = "walk" /\ rev[s] < 0
    /\ pc' = [pc EXCEPT ![s] = "exit"]
    /\ UNCHANGED <<cur, files, walk, job, faults>>

(* ph_logger_push_revision: the skip list is read and the files are listed. *)
PushRevision(s) ==
    /\ pc[s] = "walk" /\ rev[s] >= 0
    /\ ~Avoids(s)
    /\ pc' = [pc EXCEPT ![s] = "files"]
    /\ todo' = [todo EXCEPT ![s] = Listed]
    /\ result' = [result EXCEPT ![s] = 0]
    /\ UNCHANGED <<cur, files, rev, job, faults>>

(* Mutant: the range service goes on although there may be more to send. *)
PushedGoesOn(s) ==
    /\ pc[s] = "files" /\ todo[s] = {}
    /\ pc' = [pc EXCEPT ![s] = "walk"]
    /\ rev' = [rev EXCEPT ![s] = IF s = "range" THEN @ - 1 ELSE @]
    /\ UNCHANGED <<cur, files, todo, result, job, faults>>

(* All files were seen: only the range service, and only when there was    *)
(* nothing to send, goes on to the previous revision.                      *)
Pushed(s) ==
    /\ pc[s] = "files" /\ todo[s] = {}
    /\ pc' = [pc EXCEPT ![s] = "walk"]
    /\ rev' = [rev EXCEPT ![s] = IF s = "range" /\ result[s] = 0
                                 THEN @ - 1 ELSE @]
    /\ UNCHANGED <<cur, files, todo, result, job, faults>>

(* There is no connection: the loop over the files ends with an error, and *)
(* the revision is tried again.                                            *)
NoConnection(s) ==
    /\ pc[s] = "files" /\ todo[s] # {}
    /\ faults < MaxFaults
    /\ pc' = [pc EXCEPT ![s] = "walk"]
    /\ faults' = faults + 1
    /\ UNCHANGED <<cur, files, walk, job>>

(* One buffer is read from the stored position, or from the beginning when *)
(* the file is shorter than that.                                          *)
ReadStart(f) == IF Len(log[f]) < pos[f] THEN 0 ELSE pos[f]

ReadEnd(f) ==
    IF Len(log[f]) < ReadStart(f) + Buf THEN Len(log[f]) ELSE ReadStart(f) + Buf

ReadJob(f) ==
    [file |-> f, at |-> gen[f], start |-> ReadStart(f),
     buf |-> SubSeq(log[f], ReadStart(f) + 1, ReadEnd(f)),
     offset |-> 0, left |-> ReadEnd(f) - ReadStart(f), frags |-> {}]

ReadFile(s, n) ==
    /\ pc[s] = "files" /\ n \in todo[s]
    /\ pc' = [pc EXCEPT ![s] = "scan"]
    /\ todo' = [todo EXCEPT ![s] = @ \ {n}]
    /\ job' = [job EXCEPT ![s] = ReadJob(<<rev[s], n>>)]
    /\ UNCHANGED <<cur, files, rev, result, faults>>

(* The ends of line among the bytes left to look at, as distances. *)
NewLines(s) ==
    {k \in 1..job[s].left : job[s].buf[job[s].offset + k] = "n"}

First(k, S) == k \in S /\ \A j \in S : k <= j

(* len bytes, text of them before the end of line, are cut from the buffer. *)
(* What is left shrinks by the offset, so by more than len after the first. *)
Cut(j, len, text) ==
    [j EXCEPT !.offset = @ + len, !.left = @ - (j.offset + len),
              !.frags = @ \cup {j.start + j.offset + k : k \in 1..text}]

Take(s, len, text) == job' = [job EXCEPT ![s] = Cut(@, len, text)]

(* A line becomes a fragment of the message to send. *)
CutLine(s) ==
    /\ pc[s] = "scan"
    /\ \E len \in 2..Buf : First(len, NewLines(s)) /\ Take(s, len, len - 1)
    /\ UNCHANGED <<cur, files, pc, walk, faults>>

(* An empty line has nothing to send, its position is stored at once. *)
EmptyLine(s) ==
    /\ pc[s] = "scan" /\ 1 \in NewLines(s)
    /\ Take(s, 1, 0)
    /\ pos' = [pos EXCEPT ![job[s].file] = job[s].start + job[s].offset + 1]
    /\ UNCHANGED <<cur, log, gen, sent, pc, walk, faults>>

(* A full buffer without an end of line is sent as it is. *)
Dump(s) ==
    /\ pc[s] = "scan" /\ NewLines(s) = {} /\ job[s].left = Buf
    /\ Take(s, Buf, Buf)
    /\ UNCHANGED <<cur, files, pc, walk, faults>>

(* Nothing was found: the next file. *)
CloseFile(s) ==
    /\ pc[s] = "scan" /\ NewLines(s) = {} /\ job[s].left # Buf
    /\ job[s].frags = {}
    /\ pc' = [pc EXCEPT ![s] = "files"]
    /\ job' = [job EXCEPT ![s] = NoJob]
    /\ UNCHANGED <<cur, files, walk, faults>>

(* What was found is made into one request. *)
MakeRequest(s) ==
    /\ pc[s] = "scan" /\ NewLines(s) = {} /\ job[s].left # Buf
    /\ job[s].frags # {}
    /\ pc' = [pc EXCEPT ![s] = "post"]
    /\ UNCHANGED <<cur, files, walk, job, faults>>

Deliver(s) ==
    sent' = [sent EXCEPT ![job[s].file] =
                @ \cup {<<job[s].at, i>> : i \in job[s].frags}]

(* The cloud accepts the lines and answers. *)
PostAccepted(s) ==
    /\ pc[s] = "post"
    /\ Deliver(s)
    /\ pc' = [pc EXCEPT ![s] = "save"]
    /\ UNCHANGED <<cur, log, gen, pos, walk, job, faults>>

(* Mutant: the position is stored although the request failed. *)
PostFailsButSaves(s) ==
    /\ pc[s] = "post"
    /\ faults < MaxFaults
    /\ pc' = [pc EXCEPT ![s] = "save"]
    /\ faults' = faults + 1
    /\ UNCHANGED <<cur, files, walk, job>>

(* No client, no authentication, no answer, or an error: the loop over the *)
(* files ends. The cloud may nevertheless have the lines.                  *)
PostFails(s) ==
    /\ pc[s] = "post"
    /\ faults < MaxFaults
    /\ Deliver(s) \/ UNCHANGED sent
    /\ pc' = [pc EXCEPT ![s] = "walk"]
    /\ job' = [job EXCEPT ![s] = NoJob]
    /\ faults' = faults + 1
    /\ UNCHANGED <<cur, log, gen, pos, walk>>

(* After an accepted request the position is stored. *)
SavePosition(s) ==
    /\ pc[s] = "save"
    /\ pos' = [pos EXCEPT ![job[s].file] = job[s].start + job[s].offset]
    /\ pc' = [pc EXCEPT ![s] = "files"]
    /\ result' = [result EXCEPT ![s] = 1]
    /\ job' = [job EXCEPT ![s] = NoJob]
    /\ UNCHANGED <<cur, log, gen, sent, rev, todo, faults>>

ServiceStep(s) ==
    \/ Start(s) \/ Avoid(s) \/ Exit(s) \/ PushRevision(s) \/ Pushed(s)
    \/ \E n \in Names : ReadFile(s, n)
    \/ CutLine(s) \/ EmptyLine(s) \/ Dump(s) \/ CloseFile(s) \/ MakeRequest(s)
    \/ PostAccepted(s) \/ SavePosition(s)

Killed ==
    /\ pc' = [s \in Services |-> "off"]
    /\ rev' = [s \in Services |-> 0]
    /\ todo' = [s \in Services |-> {}]
    /\ result' = [s \in Services |-> 0]
    /\ job' = [s \in Services |-> NoJob]

(* ph_logger_stop_cloud: both services are killed, whatever they do. *)
StopCloud ==
    /\ faults < MaxFaults
    /\ \E s \in Services : pc[s] # "off"
    /\ Killed
    /\ faults' = faults + 1
    /\ UNCHANGED <<cur, files>>

(* Another revision runs: after an update without reboot, or after a       *)
(* reboot, a power loss or a rollback. The services are stopped first.     *)
ChangeRevision(r) ==
    /\ faults < MaxFaults
    /\ r # cur
    /\ Killed
    /\ cur' = r
    /\ faults' = faults + 1
    /\ UNCHANGED files

Next ==
    \/ \E n \in Names :
          \/ \E c \in {"x", "n"} : WriteOwn(n, c)
          \/ \E text \in 1..MaxLine, ends \in {1, 2} : WriteFromSocket(n, text, ends)
          \/ Truncate(n)
          \/ Rotate(n)
    \/ \E s \in Services : ServiceStep(s) \/ NoConnection(s) \/ PostFails(s)
    \/ StopCloud
    \/ \E r \in Revs : ChangeRevision(r)

Spec == Init /\ [][Next]_vars

(* Both services run when the scheduler lets them; the main loop starts    *)
(* them again in every round that finds the device online.                 *)
FairSpec == Spec /\ \A s \in Services : WF_vars(ServiceStep(s))

------------------------------------------------------------------------------
(* Properties. *)

Jobs == [file : Files \cup {<<>>}, at : 0..MaxGen, start : Nat,
         buf : Seq({"x", "n"}), offset : 0..Buf, left : Int,
         frags : SUBSET (Nat \ {0})]

TypeOK ==
    /\ cur \in Revs
    /\ log \in [Files -> Seq({"x", "n"})]
    /\ gen \in [Files -> 0..MaxGen]
    /\ pos \in [Files -> Nat]
    /\ sent \in [Files -> SUBSET ((0..MaxGen) \X (Nat \ {0}))]
    /\ pc \in [Services -> {"off", "walk", "files", "exit"} \cup Working]
    /\ rev \in [Services -> -1..N]
    /\ todo \in [Services -> SUBSET Names]
    /\ result \in [Services -> {0, 1}]
    /\ job \in [Services -> Jobs]
    /\ faults \in 0..MaxFaults

(* The byte belongs to a line that is complete. *)
Complete(f, i) ==
    /\ i \in 1..Len(log[f]) /\ log[f][i] = "x"
    /\ \E k \in i..Len(log[f]) : log[f][k] = "n"

Sent(f, i) == <<gen[f], i>> \in sent[f]

EmptyLineAt(l, k) ==
    /\ k \in 1..Len(l) /\ l[k] = "n"
    /\ k > 1 => l[k - 1] = "n"

(* An empty line of contents l stores the position behind it at once, when *)
(* byte i, in front of it in the same buffer, may still wait to be sent.   *)
Overtaken(l, i) == \E k \in (i + 1)..(i + Buf - 1) : EmptyLineAt(l, k)

(* The stored position is a promise that the text before it has reached    *)
(* the cloud: it is never read again (ph_logger_push_from_file seeks to    *)
(* it). Only what an empty line overtakes within a buffer can be missing,  *)
(* when its request fails or the service is killed before it is sent. The  *)
(* promise holds whenever a read would start from the position, in a file  *)
(* that was not emptied: one that has grown again past a position of its   *)
(* old contents is read on from there.                                     *)
SavedMeansSent ==
    \A f \in Files : gen[f] = 0 /\ pos[f] <= Len(log[f]) =>
        \A i \in 1..pos[f] :
            log[f][i] = "x" => Sent(f, i) \/ Overtaken(log[f], i)

(* The two services never work on the files of the same revision: nothing  *)
(* else keeps them from sending the same lines and from overwriting each   *)
(* other's position.                                                       *)
OneSender ==
    (\A s \in Services : pc[s] \in {"files"} \cup Working)
        => rev["push"] # rev["range"]

(* No line of the file fills the buffer. *)
LinesFit(f) ==
    \A i \in 1..(Len(log[f]) - Buf + 1) :
        \E k \in i..(i + Buf - 1) : log[f][k] = "n"

(* A buffer that begins with empty lines, and in which no line was found   *)
(* after them, counts as nothing sent: what follows waits for another read.*)
WaitsBehindEmptyLine(f, i) == i > pos[f] /\ EmptyLineAt(log[f], pos[f])

(* The range service passes over each revision once: when it goes on to    *)
(* the previous one, every complete line of the one it leaves has been     *)
(* accepted ("if nothing else to send, go to previous revision"), in files *)
(* that were not emptied and have no line that fills the buffer. Lines are *)
(* left behind only on account of empty lines: those one of them overtook  *)
(* before they were sent, and those that wait behind one.                  *)
RangeLeavesNothing ==
    [][LET r == rev["range"] IN
       (pc["range"] = "files" /\ pc'["range"] = "walk" /\ rev'["range"] = r - 1) =>
          \A n \in Listed : LET f == <<r, n>> IN
              gen[f] = 0 /\ LinesFit(f) =>
                  \A i \in 1..Len(log[f]) : Complete(f, i) =>
                      \/ Sent(f, i)
                      \/ Overtaken(log[f], i)
                      \/ WaitsBehindEmptyLine(f, i)]_vars

(* Every complete line of such a file reaches the cloud in the end, over   *)
(* failed requests, kills, updates and rollbacks, unless an empty line     *)
(* overtakes it, or the range service has passed its file while it waits   *)
(* behind an empty line.                                                   *)
AllLinesSent ==
    \A f \in Revs \X Listed : \A i \in 1..(MaxLen[f][0] - 1) :
        Complete(f, i) ~>
            \/ Sent(f, i) \/ gen[f] > 0 \/ ~LinesFit(f)
            \/ Overtaken(log[f], i)
            \/ f[1] # cur /\ rev["range"] < f[1] /\ WaitsBehindEmptyLine(f, i)

==============================================================================

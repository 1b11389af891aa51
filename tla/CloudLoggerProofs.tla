------------------------- MODULE CloudLoggerProofs -------------------------
(***************************************************************************)
(* Proofs about CloudLogger, for any number of revisions and files, any    *)
(* buffer size and any number of faults.                                   *)
(***************************************************************************)
EXTENDS CloudLogger, SequenceTheorems, TLAPS

(* The sizes that the proofs need. *)
LEMMA Sizes ==
  /\ N \in Nat /\ Buf \in Nat \ {0}
  /\ MaxLine \in Nat /\ MaxGen \in Nat /\ MaxFaults \in Nat
  BY LoggerAssumption

(* The job of a service that works on a file: what it has cut and what is  *)
(* left to cut lie within the buffer.                                      *)
JobFits(s) ==
    pc[s] \in Working =>
        /\ job[s].file \in Files
        /\ job[s].offset + job[s].left <= Len(job[s].buf)
        /\ Len(job[s].buf) <= Buf

(* The revision of a service that looks at files exists. *)
RevFits(s) == pc[s] \in {"files"} \cup Working => rev[s] \in Revs

TypeInv == TypeOK /\ \A s \in Services : JobFits(s) /\ RevFits(s)

(* A byte of a buffer that was read within a file lies within the file. *)
LEMMA Within ==
  ASSUME NEW a \in Nat, NEW o \in Nat, NEW b \in Nat, NEW c \in Nat,
         a + b <= c, o + 1 <= b
  PROVE  a + o + 1 \in 1..c
  OBVIOUS

(* At start no service runs and no file has a position. *)
LEMMA TypeInit == Init => TypeInv
  <1> SUFFICES ASSUME Init PROVE TypeInv
    OBVIOUS
  <1> USE Sizes
  <1>1. NoJob \in Jobs
    BY DEF NoJob, Jobs
  <1>2. TypeOK
    BY <1>1 DEF Init, TypeOK, Revs, Working
  <1>3. \A s \in Services : JobFits(s) /\ RevFits(s)
    BY DEF Init, JobFits, RevFits, Working
  <1> QED
    BY <1>2, <1>3 DEF TypeInv

(* A message from the socket is appended to its file. *)
LEMMA Message ==
  ASSUME NEW n, NEW text \in 1..MaxLine, NEW ends \in {1, 2}, WriteFromSocket(n, text, ends)
  PROVE  \E new \in Seq({"x", "n"}) : log' = [log EXCEPT ![<<cur, n>>] = @ \o new]
  <1> DEFINE new == [i \in 1..(text + ends) |-> IF i <= text THEN "x" ELSE "n"]
  <1>1. text + ends \in Nat
    BY Sizes
  <1>2. new \in Seq({"x", "n"})
    BY <1>1
  <1>3. log' = [log EXCEPT ![<<cur, n>>] = @ \o new]
    BY DEF WriteFromSocket
  <1> QED
    BY <1>2, <1>3

(* The writers leave the services alone. *)
LEMMA TypeWrite ==
  ASSUME TypeInv, NEW n \in Names,
         \/ \E c \in {"x", "n"} : WriteOwn(n, c)
         \/ \E text \in 1..MaxLine, ends \in {1, 2} : WriteFromSocket(n, text, ends)
         \/ Truncate(n)
         \/ Rotate(n)
  PROVE  TypeInv'
  <1> USE Sizes
  <1>1. <<cur, n>> \in Files
    BY DEF TypeInv, TypeOK, Files
  <1>2. log' \in [Files -> Seq({"x", "n"})]
    <2>1. CASE \E c \in {"x", "n"} : WriteOwn(n, c)
      BY <1>1, <2>1 DEF WriteOwn, TypeInv, TypeOK
    <2>2. CASE \E text \in 1..MaxLine, ends \in {1, 2} : WriteFromSocket(n, text, ends)
      <3>1. PICK text \in 1..MaxLine, ends \in {1, 2} : WriteFromSocket(n, text, ends)
        BY <2>2
      <3>2. PICK new \in Seq({"x", "n"}) : log' = [log EXCEPT ![<<cur, n>>] = @ \o new]
        BY <3>1, Message
      <3>3. log[<<cur, n>>] \o new \in Seq({"x", "n"})
        <4>1. log[<<cur, n>>] \in Seq({"x", "n"})
          BY <1>1 DEF TypeInv, TypeOK
        <4> QED
          BY <4>1
      <3> QED
        BY <1>1, <3>2, <3>3 DEF TypeInv, TypeOK
    <2>3. CASE Truncate(n)
      BY <1>1, <2>3 DEF Truncate, TypeInv, TypeOK
    <2>4. CASE Rotate(n)
      BY <1>1, <2>4 DEF Rotate, TypeInv, TypeOK
    <2> QED
      BY <2>1, <2>2, <2>3, <2>4
  <1>3. gen' \in [Files -> 0..MaxGen] /\ pos' \in [Files -> Nat]
    <2>1. CASE Truncate(n)
      BY <1>1, <2>1 DEF Truncate, TypeInv, TypeOK
    <2>2. CASE Rotate(n)
      BY <1>1, <2>2 DEF Rotate, TypeInv, TypeOK
    <2> QED
      BY <2>1, <2>2 DEF WriteOwn, WriteFromSocket, TypeInv, TypeOK
  <1>4. UNCHANGED <<cur, sent, pc, rev, todo, result, job, faults>>
    BY DEF WriteOwn, WriteFromSocket, Truncate, Rotate, walk
  <1> QED
    BY <1>2, <1>3, <1>4 DEF TypeInv, TypeOK, JobFits, RevFits

(* The steps between two files, which start no job and end none. *)
LEMMA TypeWalk ==
  ASSUME TypeInv, NEW s \in Services,
         \/ Start(s) \/ Avoid(s) \/ Exit(s) \/ PushRevision(s) \/ Pushed(s)
         \/ NoConnection(s)
  PROVE  TypeInv'
  <1> USE Sizes
  <1>1. UNCHANGED <<cur, log, gen, pos, sent, job>>
    BY DEF Start, Avoid, Exit, PushRevision, Pushed, NoConnection, files
  <1>2. faults' \in 0..MaxFaults
    BY DEF Start, Avoid, Exit, PushRevision, Pushed, NoConnection, TypeInv, TypeOK
  <1>3. rev' \in [Services -> -1..N]
    <2>1. CASE Start(s)
      BY <2>1 DEF Start, TypeInv, TypeOK, Revs
    <2>2. CASE Avoid(s)
      BY <2>2 DEF Avoid, TypeInv, TypeOK
    <2>3. CASE Pushed(s)
      <3>1. rev[s] \in 0..N
        BY <2>3 DEF Pushed, TypeInv, RevFits, Revs
      <3> QED
        BY <2>3, <3>1 DEF Pushed, TypeInv, TypeOK
    <2> QED
      BY <2>1, <2>2, <2>3 DEF Exit, PushRevision, NoConnection, walk, TypeInv, TypeOK
  <1>4. /\ pc' \in [Services -> {"off", "walk", "files", "exit"} \cup Working]
        /\ \A t \in Services : pc'[t] \in Working => pc[t] \in Working
    BY DEF Start, Avoid, Exit, PushRevision, Pushed, NoConnection, TypeInv, TypeOK, Working
  <1>5. todo' \in [Services -> SUBSET Names] /\ result' \in [Services -> {0, 1}]
    <2>1. CASE PushRevision(s)
      BY <2>1 DEF PushRevision, Listed, TypeInv, TypeOK
    <2> QED
      BY <2>1 DEF Start, Avoid, Exit, Pushed, NoConnection, walk, TypeInv, TypeOK
  <1>6. \A t \in Services : RevFits(t)'
    BY DEF Start, Avoid, Exit, PushRevision, Pushed, NoConnection, walk, TypeInv, TypeOK,
           RevFits, Revs, Working
  <1> QED
    BY <1>1, <1>2, <1>3, <1>4, <1>5, <1>6 DEF TypeInv, TypeOK, JobFits

(* What is read lies within the file and fits in a buffer. *)
LEMMA ReadFits ==
  ASSUME TypeInv, NEW f \in Files
  PROVE  /\ ReadStart(f) \in Nat /\ ReadEnd(f) \in Nat
         /\ ReadStart(f) <= ReadEnd(f) /\ ReadEnd(f) <= Len(log[f])
         /\ ReadJob(f) \in Jobs
         /\ ReadJob(f).left = Len(ReadJob(f).buf)
         /\ Len(ReadJob(f).buf) = ReadEnd(f) - ReadStart(f)
         /\ Len(ReadJob(f).buf) <= Buf
  <1> USE Sizes
  <1>1. log[f] \in Seq({"x", "n"}) /\ pos[f] \in Nat /\ gen[f] \in 0..MaxGen
    BY DEF TypeInv, TypeOK
  <1>2. /\ ReadStart(f) \in Nat /\ ReadEnd(f) \in Nat
        /\ ReadStart(f) <= ReadEnd(f) /\ ReadEnd(f) <= Len(log[f])
        /\ ReadEnd(f) - ReadStart(f) <= Buf
    BY <1>1 DEF ReadStart, ReadEnd
  <1> DEFINE buf == SubSeq(log[f], ReadStart(f) + 1, ReadEnd(f))
  <1>3. buf \in Seq({"x", "n"}) /\ Len(buf) = ReadEnd(f) - ReadStart(f)
    BY <1>1, <1>2
  <1>4. /\ ReadJob(f).buf = buf
        /\ ReadJob(f).left = ReadEnd(f) - ReadStart(f)
    BY DEF ReadJob
  <1>5. ReadJob(f) \in Jobs
    <2>1. ReadEnd(f) - ReadStart(f) \in Int /\ 0 \in 0..Buf
      BY <1>2
    <2> HIDE DEF buf
    <2> QED
      BY <1>1, <1>2, <1>3, <2>1 DEF ReadJob, Jobs, buf
  <1> QED
    BY <1>2, <1>3, <1>4, <1>5

(* A service that opens a file (ph_logger_push_from_file) reads a buffer of it. *)
LEMMA TypeRead ==
  ASSUME TypeInv, NEW s \in Services, NEW n \in Names, ReadFile(s, n)
  PROVE  TypeInv'
  <1> USE Sizes
  <1> DEFINE f == <<rev[s], n>>
  <1>1. f \in Files
    BY DEF ReadFile, TypeInv, RevFits, Files
  <1>2. /\ ReadJob(f) \in Jobs /\ ReadJob(f).left = Len(ReadJob(f).buf)
        /\ Len(ReadJob(f).buf) \in Nat /\ Len(ReadJob(f).buf) <= Buf
        /\ ReadJob(f).offset = 0 /\ ReadJob(f).file = f
    <2>1. /\ ReadJob(f) \in Jobs /\ ReadJob(f).left = Len(ReadJob(f).buf)
          /\ Len(ReadJob(f).buf) <= Buf
      BY <1>1, ReadFits
    <2>2. Len(ReadJob(f).buf) \in Nat
      BY <2>1 DEF Jobs
    <2>3. ReadJob(f).offset = 0 /\ ReadJob(f).file = f
      BY DEF ReadJob
    <2> QED
      BY <2>1, <2>2, <2>3
  <1>3. job' \in [Services -> Jobs] /\ job' = [job EXCEPT ![s] = ReadJob(f)]
    BY <1>2 DEF ReadFile, TypeInv, TypeOK
  <1>4. /\ pc' \in [Services -> {"off", "walk", "files", "exit"} \cup Working]
        /\ todo' \in [Services -> SUBSET Names]
    BY DEF ReadFile, TypeInv, TypeOK, Working
  <1>5. UNCHANGED <<cur, log, gen, pos, sent, rev, result, faults>>
    BY DEF ReadFile, files
  <1>6. ASSUME NEW t \in Services PROVE JobFits(t)' /\ RevFits(t)'
    <2>1. CASE t = s
      <3>1. job'[s] = ReadJob(f)
        BY <1>3 DEF TypeInv, TypeOK
      <3>2. JobFits(s)'
        BY <1>1, <1>2, <3>1 DEF JobFits
      <3>3. RevFits(s)'
        BY <1>5 DEF ReadFile, TypeInv, RevFits
      <3> QED
        BY <2>1, <3>2, <3>3
    <2>2. CASE t # s
      <3>1. job'[t] = job[t] /\ pc'[t] = pc[t]
        BY <1>3, <2>2 DEF ReadFile, TypeInv, TypeOK
      <3> QED
        BY <1>5, <3>1 DEF TypeInv, JobFits, RevFits
    <2> QED
      BY <2>1, <2>2
  <1> QED
    BY <1>3, <1>4, <1>5, <1>6 DEF TypeInv, TypeOK

(* What Cut leaves of a job. *)
LEMMA CutEffect ==
  ASSUME NEW j \in Jobs, NEW len \in Nat, NEW text \in Nat,
         j.offset + j.left <= Len(j.buf), Len(j.buf) <= Buf, len <= j.left
  PROVE  /\ Cut(j, len, text) \in Jobs
         /\ Cut(j, len, text).file = j.file /\ Cut(j, len, text).at = j.at
         /\ Cut(j, len, text).start = j.start /\ Cut(j, len, text).buf = j.buf
         /\ Cut(j, len, text).offset = j.offset + len
         /\ Cut(j, len, text).left = j.left - (j.offset + len)
         /\ Cut(j, len, text).frags = j.frags \cup {j.start + j.offset + k : k \in 1..text}
         /\ Cut(j, len, text).offset + Cut(j, len, text).left <= Len(j.buf)
  <1> USE Sizes
  <1> DEFINE more == {j.start + j.offset + k : k \in 1..text}
  <1>1. /\ j.offset \in Nat /\ j.left \in Int /\ j.start \in Nat
        /\ Len(j.buf) \in Nat
    BY DEF Jobs
  <1>2. more \subseteq Nat \ {0}
    BY <1>1
  <1>3. j.offset + len \in 0..Buf
    BY <1>1
  <1>4. j.left - (j.offset + len) \in Int
    BY <1>1
  <1>5. j.frags \cup more \in SUBSET (Nat \ {0})
    BY <1>2 DEF Jobs
  <1>6. Cut(j, len, text) = [j EXCEPT !.offset = j.offset + len,
                 !.left = j.left - (j.offset + len), !.frags = j.frags \cup more]
    BY DEF Cut
  <1> HIDE DEF more
  <1>7. /\ Cut(j, len, text) \in Jobs
        /\ Cut(j, len, text).file = j.file /\ Cut(j, len, text).at = j.at
        /\ Cut(j, len, text).start = j.start /\ Cut(j, len, text).buf = j.buf
        /\ Cut(j, len, text).offset = j.offset + len
        /\ Cut(j, len, text).left = j.left - (j.offset + len)
        /\ Cut(j, len, text).frags = j.frags \cup more
    BY <1>3, <1>4, <1>5, <1>6 DEF Jobs
  <1>8. Cut(j, len, text).offset + Cut(j, len, text).left <= Len(j.buf)
    BY <1>1, <1>7
  <1> QED
    BY <1>7, <1>8 DEF more

(* Cutting keeps the types, whether or not a position is stored with it. *)
LEMMA TypeScan ==
  ASSUME TypeInv, NEW s \in Services, CutLine(s) \/ EmptyLine(s) \/ Dump(s)
  PROVE  /\ TypeInv'
         /\ \E len \in 1..job[s].left, text \in Nat :
               /\ text <= len
               /\ job' = [job EXCEPT ![s] = Cut(job[s], len, text)]
  <1> USE Sizes
  <1>1. /\ pc[s] = "scan" /\ UNCHANGED <<cur, log, gen, sent, pc, rev, todo, result, faults>>
    BY DEF CutLine, EmptyLine, Dump, files, walk
  <1>2. /\ job[s] \in Jobs /\ job[s].file \in Files
        /\ job[s].offset + job[s].left <= Len(job[s].buf) /\ Len(job[s].buf) <= Buf
    BY <1>1 DEF TypeInv, TypeOK, JobFits, Working
  <1>3. job[s].left \in Int /\ job[s].offset \in Nat /\ job[s].start \in Nat
    BY <1>2 DEF Jobs
  <1>4. \E len \in 1..job[s].left, text \in Nat : text <= len /\ Take(s, len, text)
    <2>1. CASE CutLine(s)
      <3>1. PICK len \in 2..Buf : First(len, NewLines(s)) /\ Take(s, len, len - 1)
        BY <2>1 DEF CutLine
      <3>2. len \in 1..job[s].left /\ len - 1 \in Nat
        BY <3>1 DEF First, NewLines
      <3> QED
        BY <3>1, <3>2
    <2>2. CASE EmptyLine(s)
      BY <1>3, <2>2 DEF EmptyLine, NewLines
    <2>3. CASE Dump(s)
      BY <1>3, <2>3 DEF Dump
    <2> QED
      BY <2>1, <2>2, <2>3
  <1>5. PICK len \in 1..job[s].left, text \in Nat : text <= len /\ Take(s, len, text)
    BY <1>4
  <1>6. job' = [job EXCEPT ![s] = Cut(job[s], len, text)]
    BY <1>5 DEF Take
  <1>7. /\ Cut(job[s], len, text) \in Jobs
        /\ Cut(job[s], len, text).file = job[s].file
        /\ Cut(job[s], len, text).buf = job[s].buf
        /\ Cut(job[s], len, text).offset + Cut(job[s], len, text).left <= Len(job[s].buf)
    <2>1. len \in Nat /\ len <= job[s].left
      BY <1>3
    <2> QED
      BY <1>2, <1>5, <2>1, CutEffect
  <1>8. job' \in [Services -> Jobs] /\ job'[s] = Cut(job[s], len, text)
    BY <1>6, <1>7 DEF TypeInv, TypeOK
  <1>9. pos' \in [Files -> Nat]
    <2>1. CASE EmptyLine(s)
      <3>1. job[s].start + job[s].offset + 1 \in Nat
        BY <1>3
      <3> QED
        BY <1>2, <2>1, <3>1 DEF EmptyLine, TypeInv, TypeOK
    <2> QED
      BY <2>1 DEF CutLine, Dump, files, TypeInv, TypeOK
  <1>10. ASSUME NEW t \in Services PROVE JobFits(t)' /\ RevFits(t)'
    <2>1. CASE t = s
      BY <1>1, <1>2, <1>7, <1>8, <2>1 DEF TypeInv, JobFits, RevFits
    <2>2. CASE t # s
      BY <1>1, <1>6, <2>2 DEF TypeInv, TypeOK, JobFits, RevFits
    <2> QED
      BY <2>1, <2>2
  <1>11. TypeInv'
    BY <1>1, <1>8, <1>9, <1>10 DEF TypeInv, TypeOK
  <1> QED
    BY <1>5, <1>6, <1>11

(* From the last cut to the next file. *)
LEMMA TypeSend ==
  ASSUME TypeInv, NEW s \in Services,
         \/ CloseFile(s) \/ MakeRequest(s) \/ PostAccepted(s) \/ PostFails(s)
         \/ SavePosition(s)
  PROVE  TypeInv'
  <1> USE Sizes
  <1>1. pc[s] \in Working /\ UNCHANGED <<cur, log, gen, rev, todo>>
    BY DEF CloseFile, MakeRequest, PostAccepted, PostFails, SavePosition, Working, files, walk
  <1>2. job[s] \in Jobs /\ job[s].file \in Files
    BY <1>1 DEF TypeInv, TypeOK, JobFits
  <1>3. /\ job[s].start \in Nat /\ job[s].offset \in Nat /\ job[s].at \in 0..MaxGen
        /\ job[s].frags \subseteq Nat \ {0}
    BY <1>2 DEF Jobs
  <1>4. NoJob \in Jobs
    BY DEF NoJob, Jobs
  <1>5. /\ pc' \in [Services -> {"off", "walk", "files", "exit"} \cup Working]
        /\ \A t \in Services : pc'[t] \in Working => pc[t] \in Working
        /\ \A t \in Services \ {s} : pc'[t] = pc[t]
    BY DEF CloseFile, MakeRequest, PostAccepted, PostFails, SavePosition, Working,
           TypeInv, TypeOK
  <1>6. /\ job' \in [Services -> Jobs]
        /\ \A t \in Services : pc'[t] \in Working => job'[t] = job[t]
    <2>1. CASE MakeRequest(s) \/ PostAccepted(s)
      BY <2>1 DEF MakeRequest, PostAccepted, TypeInv, TypeOK
    <2>2. CASE CloseFile(s) \/ PostFails(s) \/ SavePosition(s)
      <3>1. /\ job' = [job EXCEPT ![s] = NoJob]
            /\ \E p \in {"walk", "files"} : pc' = [pc EXCEPT ![s] = p]
        BY <2>2 DEF CloseFile, PostFails, SavePosition
      <3> QED
        BY <1>4, <3>1 DEF TypeInv, TypeOK, Working
    <2> QED
      BY <2>1, <2>2
  <1>7. faults' \in 0..MaxFaults /\ result' \in [Services -> {0, 1}]
    <2>1. CASE SavePosition(s)
      BY <2>1 DEF SavePosition, TypeInv, TypeOK
    <2>2. CASE PostFails(s)
      BY <2>2 DEF PostFails, walk, TypeInv, TypeOK
    <2> QED
      BY <2>1, <2>2 DEF CloseFile, MakeRequest, PostAccepted, walk, TypeInv, TypeOK
  <1>8. pos' \in [Files -> Nat]
    <2>1. CASE SavePosition(s)
      <3>1. job[s].start + job[s].offset \in Nat
        BY <1>3
      <3> QED
        BY <1>2, <2>1, <3>1 DEF SavePosition, TypeInv, TypeOK
    <2> QED
      BY <2>1 DEF CloseFile, MakeRequest, PostAccepted, PostFails, files, TypeInv, TypeOK
  <1>9. sent' \in [Files -> SUBSET ((0..MaxGen) \X (Nat \ {0}))]
    <2>1. {<<job[s].at, i>> : i \in job[s].frags} \subseteq (0..MaxGen) \X (Nat \ {0})
      BY <1>3
    <2>2. CASE Deliver(s)
      BY <1>2, <2>1, <2>2 DEF Deliver, TypeInv, TypeOK
    <2>3. CASE UNCHANGED sent
      BY <2>3 DEF TypeInv, TypeOK
    <2> QED
      BY <2>2, <2>3 DEF CloseFile, MakeRequest, PostAccepted, PostFails, SavePosition, files
  <1>10. \A t \in Services : JobFits(t)' /\ RevFits(t)'
    BY <1>1, <1>5, <1>6 DEF TypeInv, JobFits, RevFits
  <1> QED
    BY <1>1, <1>5, <1>6, <1>7, <1>8, <1>9, <1>10 DEF TypeInv, TypeOK

(* Killed services, by a stop or by a change of revision, keep nothing. *)
LEMMA TypeKill ==
  ASSUME TypeInv, StopCloud \/ \E r \in Revs : ChangeRevision(r)
  PROVE  TypeInv'
  <1> USE Sizes
  <1>1. NoJob \in Jobs
    BY DEF NoJob, Jobs
  <1>2. Killed /\ cur' \in Revs /\ faults' \in 0..MaxFaults /\ UNCHANGED <<log, gen, pos, sent>>
    BY DEF StopCloud, ChangeRevision, files, TypeInv, TypeOK
  <1>3. TypeOK'
    BY <1>1, <1>2 DEF Killed, TypeInv, TypeOK, Revs
  <1>4. \A t \in Services : JobFits(t)' /\ RevFits(t)'
    BY <1>2 DEF Killed, JobFits, RevFits, Working
  <1> QED
    BY <1>3, <1>4 DEF TypeInv

(* TypeInv is inductive: one case for the writers, the services and the kills. *)
LEMMA TypeStep == TypeInv /\ [Next]_vars => TypeInv'
  <1> SUFFICES ASSUME TypeInv, [Next]_vars PROVE TypeInv'
    OBVIOUS
  <1>1. CASE \E n \in Names :
          \/ \E c \in {"x", "n"} : WriteOwn(n, c)
          \/ \E text \in 1..MaxLine, ends \in {1, 2} : WriteFromSocket(n, text, ends)
          \/ Truncate(n)
          \/ Rotate(n)
    BY <1>1, TypeWrite
  <1>2. CASE \E s \in Services : ServiceStep(s) \/ NoConnection(s) \/ PostFails(s)
    BY <1>2, TypeWalk, TypeRead, TypeScan, TypeSend DEF ServiceStep
  <1>3. CASE StopCloud \/ \E r \in Revs : ChangeRevision(r)
    BY <1>3, TypeKill
  <1>4. CASE UNCHANGED vars
    BY <1>4 DEF vars, files, walk, TypeInv, TypeOK, JobFits, RevFits
  <1> QED
    BY <1>1, <1>2, <1>3, <1>4 DEF Next

(* Type correctness; in particular no line is cut past the end of the      *)
(* buffer, although the bytes left are counted down by the wrong amount.   *)
THEOREM TypeCorrect == Spec => []TypeOK
  <1>1. Spec => []TypeInv
    BY TypeInit, TypeStep, PTL DEF Spec
  <1>2. TypeInv => TypeOK
    BY DEF TypeInv
  <1> QED
    BY <1>1, <1>2, PTL

------------------------------------------------------------------------------
(* The two services keep to different revisions. *)

Apart ==
    /\ pc["push"] \in {"walk", "files"} \cup Working => rev["push"] = cur
    /\ pc["range"] \in {"files"} \cup Working => rev["range"] # cur

(* Every start looks at the running revision, and every change of it kills both. *)
LEMMA ApartStep == TypeInv /\ Apart /\ [Next]_vars => Apart'
  <1> SUFFICES ASSUME TypeInv, Apart, [Next]_vars PROVE Apart'
    OBVIOUS
  <1>1. /\ pc \in [Services -> {"off", "walk", "files", "exit"} \cup Working]
        /\ rev \in [Services -> -1..N]
        /\ "push" \in Services /\ "range" \in Services
    BY DEF TypeInv, TypeOK, Services
  <1>2. ASSUME NEW n \in Names,
               \/ \E c \in {"x", "n"} : WriteOwn(n, c)
               \/ \E text \in 1..MaxLine, ends \in {1, 2} : WriteFromSocket(n, text, ends)
               \/ Truncate(n)
               \/ Rotate(n)
        PROVE  Apart'
    BY <1>2 DEF WriteOwn, WriteFromSocket, Truncate, Rotate, walk, Apart
  <1>3. ASSUME NEW s \in Services, Start(s) \/ Avoid(s) \/ Exit(s) \/ PushRevision(s)
        PROVE  Apart'
    <2>1. CASE Start(s)
      BY <1>1, <2>1 DEF Start, Apart, Working, Services
    <2>2. CASE Avoid(s)
      BY <1>1, <2>2 DEF Avoid, Avoids, Apart, Working, Services
    <2>3. CASE Exit(s)
      BY <1>1, <2>3 DEF Exit, walk, Apart, Working, Services
    <2>4. CASE PushRevision(s)
      BY <1>1, <2>4 DEF PushRevision, Avoids, Apart, Working, Services
    <2> QED
      BY <1>3, <2>1, <2>2, <2>3, <2>4
  <1>4. ASSUME NEW s \in Services, Pushed(s) \/ NoConnection(s)
        PROVE  Apart'
    BY <1>1, <1>4 DEF Pushed, NoConnection, walk, Apart, Working, Services
  <1>5. ASSUME NEW s \in Services, NEW n \in Names, ReadFile(s, n)
        PROVE  Apart'
    BY <1>1, <1>5 DEF ReadFile, Apart, Working, Services
  <1>6. ASSUME NEW s \in Services,
               \/ CutLine(s) \/ EmptyLine(s) \/ Dump(s) \/ CloseFile(s) \/ MakeRequest(s)
               \/ PostAccepted(s) \/ PostFails(s) \/ SavePosition(s)
        PROVE  Apart'
    <2>1. /\ UNCHANGED <<cur, rev>> /\ pc[s] \in Working
          /\ \/ UNCHANGED pc
             \/ \E p \in {"walk", "files", "post", "save"} : pc' = [pc EXCEPT ![s] = p]
      BY <1>6 DEF CutLine, EmptyLine, Dump, CloseFile, MakeRequest, PostAccepted, PostFails,
                  SavePosition, walk, Working
    <2> QED
      BY <1>1, <2>1 DEF Apart, Working, Services
  <1>7. ASSUME StopCloud \/ \E r \in Revs : ChangeRevision(r)
        PROVE  Apart'
    BY <1>1, <1>7 DEF StopCloud, ChangeRevision, Killed, Apart, Working
  <1>8. CASE UNCHANGED vars
    BY <1>8 DEF vars, walk, Apart
  <1> QED
    BY <1>2, <1>3, <1>4, <1>5, <1>6, <1>7, <1>8 DEF Next, ServiceStep

(* Whatever fails, is killed or rolled back: the two services never work   *)
(* on the same revision.                                                   *)
THEOREM OneSenderCorrect == Spec => []OneSender
  <1>1. Init => TypeInv /\ Apart
    <2>1. Init => Apart
      BY DEF Init, Apart, Services, Working
    <2> QED
      BY <2>1, TypeInit
  <1>2. TypeInv /\ Apart /\ [Next]_vars => (TypeInv /\ Apart)'
    BY TypeStep, ApartStep
  <1>3. TypeInv /\ Apart => OneSender
    BY DEF Apart, OneSender, Services
  <1> QED
    BY <1>1, <1>2, <1>3, PTL DEF Spec

------------------------------------------------------------------------------
(* What can be missing before a stored position in a file that was not     *)
(* emptied.                                                                *)

(* The cloud, which has the bytes c of a file with contents l, has byte i, *)
(* or an empty line has overtaken it.                                      *)
Gone(l, c, i) == <<0, i>> \in c \/ Overtaken(l, i)

PosSent ==
    \A f \in Files : gen[f] = 0 =>
        /\ pos[f] <= Len(log[f])
        /\ \A i \in 1..pos[f] : log[f][i] = "x" => Gone(log[f], sent[f], i)

(* A job j on a file with contents l of which the cloud has c: the buffer  *)
(* is what the file has after start; all text before start is gone; the    *)
(* text among the bytes cut is in frags; and a cut that leaves bytes ended *)
(* with a line.                                                            *)
Kept(j, l, c) ==
    /\ j.offset <= Len(j.buf)
    /\ j.start + Len(j.buf) <= Len(l)
    /\ \A i \in 1..Len(j.buf) : j.buf[i] = l[j.start + i]
    /\ \A i \in 1..j.start : l[i] = "x" => Gone(l, c, i)
    /\ \A i \in 1..j.offset : j.buf[i] = "x" => j.start + i \in j.frags
    /\ j.offset > 0 /\ j.left > 0 => j.buf[j.offset] = "n"

(* Before the position is stored, frags is sent. *)
JobSent(s) ==
    pc[s] \in Working /\ gen[job[s].file] = 0 =>
        /\ Kept(job[s], log[job[s].file], sent[job[s].file])
        /\ job[s].at = 0
        /\ pc[s] = "save" => \A i \in job[s].frags : <<0, i>> \in sent[job[s].file]

SavedInv == PosSent /\ \A s \in Services : JobSent(s)

(* Files that are not emptied only grow, and the cloud forgets nothing. *)
Grows ==
    \A f \in Files : gen'[f] = 0 =>
        /\ gen[f] = 0
        /\ Len(log[f]) <= Len(log'[f])
        /\ \A i \in 1..Len(log[f]) : log'[f][i] = log[f][i]
        /\ sent[f] \subseteq sent'[f]

(* What is gone stays gone. *)
LEMMA GoneStays ==
  ASSUME NEW l \in Seq({"x", "n"}), NEW m \in Seq({"x", "n"}), NEW c, NEW d, NEW i \in Nat,
         Len(l) <= Len(m), \A k \in 1..Len(l) : m[k] = l[k], c \subseteq d, Gone(l, c, i)
  PROVE  Gone(m, d, i)
  <1>1. CASE <<0, i>> \in c
    BY <1>1 DEF Gone
  <1>2. CASE Overtaken(l, i)
    <2>1. PICK k \in (i + 1)..(i + Buf - 1) : EmptyLineAt(l, k)
      BY <1>2 DEF Overtaken
    <2>2. Len(l) \in Nat /\ Len(m) \in Nat
      OBVIOUS
    <2>3. EmptyLineAt(m, k)
      BY <2>1, <2>2 DEF EmptyLineAt
    <2> QED
      BY <2>1, <2>3 DEF Gone, Overtaken
  <1> QED
    BY <1>1, <1>2 DEF Gone

(* What a service knows of a file stays true while the file grows. *)
LEMMA JobSentGrows ==
  ASSUME TypeInv, TypeInv', Grows, NEW s \in Services, JobSent(s),
         job'[s] = job[s], pc'[s] = pc[s]
  PROVE  JobSent(s)'
  <1> SUFFICES ASSUME pc[s] \in Working, gen'[job[s].file] = 0 PROVE JobSent(s)'
    BY DEF JobSent
  <1>1. job[s] \in Jobs /\ job[s].file \in Files
    BY DEF TypeInv, TypeOK, JobFits
  <1>2. PICK j \in Jobs, f \in Files : j = job[s] /\ f = j.file
    BY <1>1
  <1>3. /\ log[f] \in Seq({"x", "n"}) /\ log'[f] \in Seq({"x", "n"})
        /\ j.start \in Nat /\ j.buf \in Seq({"x", "n"}) /\ j.offset \in Nat
    BY DEF TypeInv, TypeOK, Jobs
  <1>4. Len(j.buf) \in Nat /\ Len(log[f]) \in Nat /\ Len(log'[f]) \in Nat
    BY <1>3
  <1>5. /\ gen[f] = 0
        /\ Len(log[f]) <= Len(log'[f])
        /\ \A i \in 1..Len(log[f]) : log'[f][i] = log[f][i]
        /\ sent[f] \subseteq sent'[f]
    BY <1>2 DEF Grows
  <1>6. /\ j.offset <= Len(j.buf)
        /\ j.start + Len(j.buf) <= Len(log[f])
        /\ \A i \in 1..Len(j.buf) : j.buf[i] = log[f][j.start + i]
        /\ \A i \in 1..j.start : log[f][i] = "x" => Gone(log[f], sent[f], i)
        /\ \A i \in 1..j.offset : j.buf[i] = "x" => j.start + i \in j.frags
        /\ j.offset > 0 /\ j.left > 0 => j.buf[j.offset] = "n"
        /\ j.at = 0
        /\ pc[s] = "save" => \A i \in j.frags : <<0, i>> \in sent[f]
    <2>1. Kept(j, log[f], sent[f])
      BY <1>2, <1>5 DEF JobSent
    <2> QED
      BY <1>2, <1>5, <2>1 DEF JobSent, Kept
  <1>7. j.start + Len(j.buf) <= Len(log'[f])
    BY <1>3, <1>4, <1>5, <1>6
  <1>8. ASSUME NEW i \in 1..Len(j.buf) PROVE j.buf[i] = log'[f][j.start + i]
    <2>1. j.start + Len(j.buf) <= Len(log[f])
      BY <1>6
    <2>2. j.start + i \in 1..Len(log[f])
      BY <1>3, <1>4, <2>1
    <2> QED
      BY <1>5, <1>6, <2>2
  <1>9. ASSUME NEW i \in 1..j.start, log'[f][i] = "x" PROVE Gone(log'[f], sent'[f], i)
    <2>1. i \in 1..Len(log[f])
      BY <1>3, <1>4, <1>6
    <2>2. Gone(log[f], sent[f], i)
      BY <1>5, <1>6, <1>9, <2>1
    <2> QED
      BY <1>3, <1>5, <2>2, GoneStays
  <1>10. pc[s] = "save" => \A i \in j.frags : <<0, i>> \in sent'[f]
    BY <1>5, <1>6
  <1>11. job'[s] = j /\ pc'[s] = pc[s]
    BY <1>2
  <1>12. Kept(j, log'[f], sent'[f])
    BY <1>6, <1>7, <1>8, <1>9 DEF Kept
  <1> QED
    BY <1>2, <1>6, <1>10, <1>11, <1>12 DEF JobSent

(* What is in front of a position stays sent when files and cloud only grow. *)
LEMMA PosSentGrows ==
  ASSUME TypeInv, TypeInv', Grows, PosSent,
         \A f \in Files : gen'[f] = 0 => pos'[f] = pos[f]
  PROVE  PosSent'
  <1> SUFFICES ASSUME NEW f \in Files, gen'[f] = 0
               PROVE  /\ pos'[f] <= Len(log'[f])
                      /\ \A i \in 1..pos'[f] : log'[f][i] = "x" => Gone(log'[f], sent'[f], i)
    BY DEF PosSent
  <1>1. /\ log[f] \in Seq({"x", "n"}) /\ log'[f] \in Seq({"x", "n"})
        /\ pos[f] \in Nat /\ pos'[f] = pos[f]
    BY DEF TypeInv, TypeOK
  <1>2. Len(log[f]) \in Nat /\ Len(log'[f]) \in Nat
    BY <1>1
  <1>3. /\ gen[f] = 0
        /\ Len(log[f]) <= Len(log'[f])
        /\ \A i \in 1..Len(log[f]) : log'[f][i] = log[f][i]
        /\ sent[f] \subseteq sent'[f]
    BY DEF Grows
  <1>4. /\ pos[f] <= Len(log[f])
        /\ \A i \in 1..pos[f] : log[f][i] = "x" => Gone(log[f], sent[f], i)
    BY <1>3 DEF PosSent
  <1>5. pos[f] <= Len(log'[f])
    BY <1>1, <1>2, <1>3, <1>4
  <1>6. ASSUME NEW i \in 1..pos[f], log'[f][i] = "x" PROVE Gone(log'[f], sent'[f], i)
    <2>1. i \in 1..Len(log[f])
      BY <1>1, <1>2, <1>4
    <2>2. Gone(log[f], sent[f], i)
      BY <1>3, <1>4, <1>6, <2>1
    <2> QED
      BY <1>1, <1>3, <2>2, GoneStays
  <1> QED
    BY <1>1, <1>5, <1>6

(* The writers only append. *)
LEMMA SavedWrite ==
  ASSUME TypeInv, TypeInv', SavedInv, NEW n \in Names,
         \/ \E c \in {"x", "n"} : WriteOwn(n, c)
         \/ \E text \in 1..MaxLine, ends \in {1, 2} : WriteFromSocket(n, text, ends)
  PROVE  Grows /\ SavedInv'
  <1> USE Sizes
  <1>0. PICK f \in Files : f = <<cur, n>>
    BY DEF TypeInv, TypeOK, Files
  <1>1. log[f] \in Seq({"x", "n"}) /\ Len(log[f]) \in Nat /\ log \in [Files -> Seq({"x", "n"})]
    BY DEF TypeInv, TypeOK
  <1>3. UNCHANGED <<gen, pos, sent, pc, job>>
    BY DEF WriteOwn, WriteFromSocket
  <1>4. PICK new \in Seq({"x", "n"}) : log' = [log EXCEPT ![f] = log[f] \o new]
    <2>1. CASE \E c \in {"x", "n"} : WriteOwn(n, c)
      <3>1. PICK c \in {"x", "n"} : WriteOwn(n, c)
        BY <2>1
      <3>2. log' = [log EXCEPT ![f] = Append(log[f], c)]
        BY <1>0, <3>1 DEF WriteOwn
      <3>3. Append(log[f], c) = log[f] \o <<c>>
        BY <1>1, AppendIsConcat
      <3>4. <<c>> \in Seq({"x", "n"})
        OBVIOUS
      <3> QED
        BY <3>2, <3>3, <3>4
    <2>2. CASE \E text \in 1..MaxLine, ends \in {1, 2} : WriteFromSocket(n, text, ends)
      <3>1. PICK new \in Seq({"x", "n"}) : log' = [log EXCEPT ![<<cur, n>>] = @ \o new]
        BY <2>2, Message
      <3> QED
        BY <1>0, <3>1
    <2> QED
      BY <2>1, <2>2
  <1>5. /\ log'[f] = log[f] \o new
        /\ \A g \in Files \ {f} : log'[g] = log[g]
        /\ Len(new) \in Nat /\ Len(log'[f]) = Len(log[f]) + Len(new)
        /\ \A i \in 1..Len(log[f]) : log'[f][i] = log[f][i]
        /\ \A i \in 1..Len(new) : log'[f][Len(log[f]) + i] = new[i]
    BY <1>1, <1>4 DEF TypeInv, TypeOK
  <1>6. Grows
    <2>1. ASSUME NEW g \in Files
          PROVE  /\ Len(log[g]) <= Len(log'[g])
                 /\ \A i \in 1..Len(log[g]) : log'[g][i] = log[g][i]
      <3>1. CASE g = f
        BY <1>1, <1>5, <3>1
      <3>2. CASE g # f
        <4>1. log'[g] = log[g] /\ log[g] \in Seq({"x", "n"})
          BY <1>1, <1>5, <3>2
        <4>2. Len(log[g]) \in Nat
          BY <4>1
        <4> QED
          BY <4>1, <4>2
      <3> QED
        BY <3>1, <3>2
    <2> QED
      BY <1>3, <2>1 DEF Grows
  <1>8. PosSent'
    BY <1>3, <1>6, PosSentGrows DEF SavedInv
  <1>9. \A s \in Services : JobSent(s)'
    BY <1>3, <1>6, JobSentGrows DEF SavedInv
  <1> QED
    BY <1>6, <1>8, <1>9 DEF SavedInv

(* Nothing is claimed of a file once it has been emptied. *)
LEMMA SavedEmptied ==
  ASSUME TypeInv, TypeInv', SavedInv, NEW n \in Names, Truncate(n) \/ Rotate(n)
  PROVE  Grows /\ SavedInv'
  <1> PICK f \in Files : f = <<cur, n>>
    BY DEF TypeInv, TypeOK, Files
  <1>1. /\ log' = [log EXCEPT ![f] = <<>>] /\ UNCHANGED <<sent, pc, job>>
        /\ log \in [Files -> Seq({"x", "n"})]
    BY DEF Truncate, Rotate, TypeInv, TypeOK
  <1>2. /\ gen' = [gen EXCEPT ![f] = gen[f] + 1]
        /\ gen \in [Files -> Nat] /\ pos \in [Files -> Nat]
    BY DEF Truncate, Rotate, TypeInv, TypeOK
  <1>3. /\ gen'[f] # 0
        /\ \A g \in Files \ {f} : log'[g] = log[g] /\ gen'[g] = gen[g] /\ pos'[g] = pos[g]
    <2>1. gen'[f] # 0
      BY <1>2
    <2>2. \A g \in Files \ {f} : pos'[g] = pos[g]
      BY <1>2 DEF Truncate, Rotate
    <2> QED
      BY <1>1, <1>2, <2>1, <2>2
  <1>4. Grows
    <2> SUFFICES ASSUME NEW g \in Files, g # f
                 PROVE  Len(log[g]) <= Len(log'[g])
      BY <1>1, <1>3 DEF Grows
    <2>1. Len(log[g]) \in Nat
      BY <1>1
    <2> QED
      BY <1>3, <2>1
  <1>6. PosSent'
    BY <1>3, <1>4, PosSentGrows DEF SavedInv
  <1>7. \A s \in Services : JobSent(s)'
    BY <1>1, <1>4, JobSentGrows DEF SavedInv
  <1> QED
    BY <1>4, <1>6, <1>7 DEF SavedInv

(* A step that changes no file and no job, and starts none. *)
LEMMA SavedIdle ==
  ASSUME TypeInv, TypeInv', SavedInv, UNCHANGED <<log, gen, pos, sent>>,
         \A t \in Services : pc'[t] \in Working => job'[t] = job[t] /\ pc'[t] = pc[t]
  PROVE  SavedInv'
  <1>1. PosSent'
    BY DEF SavedInv, PosSent
  <1>2. ASSUME NEW t \in Services PROVE JobSent(t)'
    <2>1. CASE pc'[t] \in Working
      BY <2>1 DEF SavedInv, JobSent
    <2>2. CASE pc'[t] \notin Working
      BY <2>2 DEF JobSent, Working
    <2> QED
      BY <2>1, <2>2
  <1> QED
    BY <1>1, <1>2 DEF SavedInv

(* A fresh buffer starts at the stored position and has no lines yet. *)
LEMMA SavedRead ==
  ASSUME TypeInv, TypeInv', SavedInv, NEW s \in Services, NEW n \in Names, ReadFile(s, n)
  PROVE  SavedInv'
  <1> USE Sizes
  <1>1. UNCHANGED <<log, gen, pos, sent>>
    BY DEF ReadFile, files
  <1>2. PICK f \in Files : f = <<rev[s], n>>
    BY DEF ReadFile, TypeInv, RevFits, Files
  <1>3. PosSent'
    BY <1>1 DEF SavedInv, PosSent
  <1>4. ASSUME NEW t \in Services, t # s PROVE JobSent(t)'
    <2>1. job'[t] = job[t] /\ pc'[t] = pc[t]
      BY <1>4 DEF ReadFile, TypeInv, TypeOK
    <2> QED
      BY <1>1, <2>1 DEF SavedInv, JobSent
  <1>5. JobSent(s)'
    <2> SUFFICES ASSUME gen[f] = 0 PROVE JobSent(s)'
      <3>1. gen[f] # 0 => job'[s].file = f /\ gen'[f] # 0
        BY <1>1, <1>2 DEF ReadFile, ReadJob, TypeInv, TypeOK
      <3> QED
        BY <3>1 DEF JobSent
    <2>1. PICK j \in Jobs : j = ReadJob(f)
      BY ReadFits
    <2>2. job'[s] = j /\ pc'[s] = "scan"
      BY <1>2, <2>1 DEF ReadFile, TypeInv, TypeOK
    <2>3. /\ log[f] \in Seq({"x", "n"}) /\ pos[f] \in Nat
      BY DEF TypeInv, TypeOK
    <2>4. /\ pos[f] <= Len(log[f])
          /\ \A i \in 1..pos[f] : log[f][i] = "x" => Gone(log[f], sent[f], i)
      BY DEF SavedInv, PosSent
    <2>5. ReadStart(f) = pos[f]
      BY <2>3, <2>4 DEF ReadStart
    <2>6. PICK end \in Nat : /\ end = ReadEnd(f) /\ pos[f] <= end /\ end <= Len(log[f])
                             /\ Len(j.buf) = end - pos[f]
      BY <2>1, <2>5, ReadFits
    <2>7. /\ j.file = f /\ j.at = 0 /\ j.start = pos[f] /\ j.offset = 0
          /\ j.buf = SubSeq(log[f], pos[f] + 1, end)
      BY <2>1, <2>5, <2>6 DEF ReadJob
    <2>8. j.start + Len(j.buf) <= Len(log[f])
      BY <2>3, <2>6, <2>7
    <2>9. \A i \in 1..Len(j.buf) : j.buf[i] = log[f][j.start + i]
      <3>1. PICK l \in Seq({"x", "n"}), p \in Nat : l = log[f] /\ p = pos[f]
        BY <2>3
      <3>2. ASSUME NEW i \in 1..(end - p) PROVE SubSeq(l, p + 1, end)[i] = l[p + i]
        <4>1. p <= end /\ end <= Len(l) /\ end \in Nat
          BY <2>6, <3>1
        <4>2. SubSeq(l, p + 1, end)[i] = l[p + 1 + i - 1]
          BY <4>1, SubSeqProperties
        <4>3. p + 1 + i - 1 = p + i
          OBVIOUS
        <4> QED
          BY <4>2, <4>3
      <3> QED
        BY <2>6, <2>7, <3>1, <3>2
    <2>10. Kept(j, log[f], sent[f])
      <3>1. ~(j.offset > 0) /\ (\A i \in 1..j.offset : FALSE) /\ j.offset <= Len(j.buf)
        BY <2>6, <2>7 DEF Jobs
      <3>2. \A i \in 1..j.start : log[f][i] = "x" => Gone(log[f], sent[f], i)
        BY <2>4, <2>7
      <3> QED
        BY <2>8, <2>9, <3>1, <3>2 DEF Kept
    <2> QED
      BY <1>1, <2>2, <2>7, <2>10 DEF JobSent
  <1> QED
    BY <1>3, <1>4, <1>5 DEF SavedInv

(* Cutting a line or a full buffer. *)
LEMMA SavedCut ==
  ASSUME TypeInv, TypeInv', SavedInv, NEW s \in Services, CutLine(s) \/ Dump(s)
  PROVE  SavedInv'
  <1> USE Sizes
  <1>1. pc[s] = "scan" /\ UNCHANGED <<log, gen, pos, sent, pc>>
    BY DEF CutLine, Dump, files
  <1>2. PosSent'
    BY <1>1 DEF SavedInv, PosSent
  <1>3. /\ job[s] \in Jobs /\ job \in [Services -> Jobs] /\ job[s].file \in Files
        /\ job[s].offset + job[s].left <= Len(job[s].buf) /\ Len(job[s].buf) <= Buf
    BY <1>1 DEF TypeInv, TypeOK, JobFits, Working
  <1>4. PICK j \in Jobs : j = job[s]
    BY <1>3
  <1>5. /\ j.left \in Int /\ j.offset \in Nat /\ j.start \in Nat
        /\ j.buf \in Seq({"x", "n"}) /\ Len(j.buf) \in Nat
    BY DEF Jobs
  <1>6. PICK len \in Nat \ {0}, text \in Nat :
          /\ len <= j.left
          /\ \A k \in 1..len : j.buf[j.offset + k] = "x" => k <= text
          /\ j.buf[j.offset + len] = "n" \/ j.left - (j.offset + len) <= 0
          /\ job' = [job EXCEPT ![s] = Cut(j, len, text)]
    <2>1. CASE CutLine(s)
      <3>1. PICK len \in 2..Buf : First(len, NewLines(s)) /\ Take(s, len, len - 1)
        BY <2>1 DEF CutLine
      <3>2. len \in 1..j.left /\ j.buf[j.offset + len] = "n"
        BY <1>4, <3>1 DEF First, NewLines
      <3>3. len \in Nat \ {0} /\ len - 1 \in Nat /\ len <= j.left
        BY <1>5, <3>2
      <3>4. \A k \in 1..len : j.buf[j.offset + k] = "x" => k <= len - 1
        BY <3>2, <3>3
      <3>5. job' = [job EXCEPT ![s] = Cut(j, len, len - 1)]
        BY <1>4, <3>1 DEF Take
      <3> QED
        BY <3>2, <3>3, <3>4, <3>5
    <2>2. CASE Dump(s)
      <3>1. j.left = Buf /\ job' = [job EXCEPT ![s] = Cut(j, Buf, Buf)]
        BY <1>4, <2>2 DEF Dump, Take
      <3>2. j.left - (j.offset + Buf) <= 0
        BY <1>5, <3>1
      <3>3. \A k \in 1..Buf : j.buf[j.offset + k] = "x" => k <= Buf
        OBVIOUS
      <3>4. Buf \in Nat \ {0} /\ Buf <= j.left
        BY <3>1
      <3> QED
        BY <3>1, <3>2, <3>3, <3>4
    <2> QED
      BY <2>1, <2>2
  <1>7. PICK c \in Jobs :
          /\ c = Cut(j, len, text)
          /\ c.file = j.file /\ c.at = j.at /\ c.start = j.start /\ c.buf = j.buf
          /\ c.offset = j.offset + len /\ c.left = j.left - (j.offset + len)
          /\ c.frags = j.frags \cup {j.start + j.offset + k : k \in 1..text}
    BY <1>3, <1>4, <1>6, CutEffect
  <1>8. job'[s] = c /\ \A t \in Services \ {s} : job'[t] = job[t]
    BY <1>3, <1>6, <1>7
  <1>9. ASSUME NEW t \in Services, t # s PROVE JobSent(t)'
    BY <1>1, <1>8, <1>9 DEF SavedInv, JobSent
  <1>10. PICK f \in Files : f = j.file
    BY <1>3, <1>4
  <1> SUFFICES ASSUME gen[f] = 0 PROVE JobSent(s)'
    <2>1. gen[f] # 0 => JobSent(s)'
      BY <1>1, <1>7, <1>8, <1>10 DEF JobSent
    <2> QED
      BY <1>2, <1>9, <2>1 DEF SavedInv
  <1>11. /\ j.at = 0
         /\ j.start + Len(j.buf) <= Len(log[f])
         /\ \A i \in 1..Len(j.buf) : j.buf[i] = log[f][j.start + i]
         /\ \A i \in 1..j.start : log[f][i] = "x" => Gone(log[f], sent[f], i)
         /\ \A i \in 1..j.offset : j.buf[i] = "x" => j.start + i \in j.frags
    <2>1. Kept(j, log[f], sent[f]) /\ j.at = 0
      BY <1>1, <1>4, <1>10 DEF SavedInv, JobSent, Working
    <2> QED
      BY <2>1 DEF Kept
  <1>12. ASSUME NEW i \in 1..c.offset, c.buf[i] = "x" PROVE c.start + i \in c.frags
    <2>1. CASE i <= j.offset
      <3>1. i \in 1..j.offset
        BY <1>5, <1>7, <2>1
      <3> QED
        BY <1>7, <1>11, <1>12, <3>1
    <2>2. CASE i > j.offset
      <3>1. PICK k \in 1..len : i = j.offset + k
        <4>1. i - j.offset \in 1..len /\ i = j.offset + (i - j.offset)
          BY <1>5, <1>7, <2>2
        <4> QED
          BY <4>1
      <3>2. k \in 1..text
        BY <1>6, <1>7, <1>12, <3>1
      <3>3. c.start + i = j.start + j.offset + k
        BY <1>5, <1>7, <3>1
      <3> QED
        BY <1>7, <3>2, <3>3
    <2> QED
      BY <1>5, <1>7, <2>1, <2>2
  <1>13. c.offset > 0 /\ c.left > 0 => c.buf[c.offset] = "n"
    BY <1>5, <1>6, <1>7
  <1>14. c.offset <= Len(c.buf)
    BY <1>3, <1>4, <1>5, <1>6, <1>7
  <1>15. Kept(c, log[f], sent[f]) /\ c.at = 0
    BY <1>7, <1>11, <1>12, <1>13, <1>14 DEF Kept
  <1> QED
    BY <1>1, <1>7, <1>8, <1>10, <1>15 DEF JobSent

(* An empty line stores the position behind it: what waits to be sent in   *)
(* front of it is overtaken.                                               *)
LEMMA SavedEmpty ==
  ASSUME TypeInv, TypeInv', SavedInv, NEW s \in Services, EmptyLine(s)
  PROVE  SavedInv'
  <1> USE Sizes
  <1>1. pc[s] = "scan" /\ UNCHANGED <<log, gen, sent, pc>>
    BY DEF EmptyLine
  <1>3. /\ job[s] \in Jobs /\ job \in [Services -> Jobs] /\ job[s].file \in Files
        /\ job[s].offset + job[s].left <= Len(job[s].buf) /\ Len(job[s].buf) <= Buf
    BY <1>1 DEF TypeInv, TypeOK, JobFits, Working
  <1>4. PICK j \in Jobs, f \in Files : j = job[s] /\ f = j.file
    BY <1>3
  <1>5. /\ j.left \in Int /\ j.offset \in Nat /\ j.start \in Nat
        /\ j.buf \in Seq({"x", "n"}) /\ Len(j.buf) \in Nat
        /\ log[f] \in Seq({"x", "n"}) /\ Len(log[f]) \in Nat
    <2>1. log[f] \in Seq({"x", "n"})
      BY DEF TypeInv, TypeOK
    <2> QED
      BY <2>1 DEF Jobs
  <1> SUFFICES ASSUME gen[f] = 0 PROVE SavedInv'
    <2> SUFFICES ASSUME gen[f] # 0 PROVE SavedInv'
      OBVIOUS
    <2>1. \E k \in Nat : pos' = [pos EXCEPT ![f] = k]
      <3>1. j.start + j.offset + 1 \in Nat
        BY <1>5
      <3> QED
        BY <1>4, <3>1 DEF EmptyLine
    <2>2. \A g \in Files \ {f} : pos'[g] = pos[g]
      BY <2>1 DEF TypeInv, TypeOK
    <2>3. PosSent'
      BY <1>1, <2>2 DEF SavedInv, PosSent
    <2>4. ASSUME NEW t \in Services PROVE JobSent(t)'
      <3>1. CASE t = s
        <4>1. job'[s] = Cut(j, 1, 0) /\ Cut(j, 1, 0).file = j.file
          BY <1>3, <1>4 DEF EmptyLine, Take, Cut, Jobs
        <4> QED
          BY <1>1, <1>4, <3>1, <4>1 DEF JobSent
      <3>2. CASE t # s
        <4>1. job'[t] = job[t]
          BY <1>3, <3>2 DEF EmptyLine, Take
        <4> QED
          BY <1>1, <4>1 DEF SavedInv, JobSent
      <3> QED
        BY <3>1, <3>2
    <2> QED
      BY <2>3, <2>4 DEF SavedInv
  <1>6. /\ j.at = 0
        /\ j.start + Len(j.buf) <= Len(log[f])
        /\ \A i \in 1..Len(j.buf) : j.buf[i] = log[f][j.start + i]
        /\ \A i \in 1..j.start : log[f][i] = "x" => Gone(log[f], sent[f], i)
        /\ \A i \in 1..j.offset : j.buf[i] = "x" => j.start + i \in j.frags
        /\ j.offset > 0 /\ j.left > 0 => j.buf[j.offset] = "n"
    <2>1. Kept(j, log[f], sent[f]) /\ j.at = 0
      BY <1>1, <1>4 DEF SavedInv, JobSent, Working
    <2> QED
      BY <2>1 DEF Kept
  <1>7. 1 <= j.left /\ j.buf[j.offset + 1] = "n"
    BY <1>4, <1>5 DEF EmptyLine, NewLines
  <1>8. j.offset + 1 \in 1..Len(j.buf) /\ j.offset + 1 <= Buf
    BY <1>3, <1>4, <1>5, <1>7
  <1>9. PICK p \in 1..Len(log[f]) : p = j.start + j.offset + 1
    <2>1. j.start + Len(j.buf) <= Len(log[f]) /\ j.offset + 1 <= Len(j.buf)
      BY <1>6, <1>8
    <2> QED
      BY <1>5, <2>1, Within
  <1>10. log[f][p] = "n" /\ (j.offset > 0 => EmptyLineAt(log[f], p))
    <2>1. j.start + (j.offset + 1) = p
      <3>1. p = j.start + j.offset + 1 /\ j.start \in Nat /\ j.offset \in Nat
        BY <1>5, <1>9
      <3> QED
        BY <3>1
    <2>2. log[f][p] = "n"
      <3>1. j.buf[j.offset + 1] = log[f][j.start + (j.offset + 1)]
        BY <1>6, <1>8
      <3> QED
        BY <1>7, <2>1, <3>1
    <2>3. ASSUME j.offset > 0 PROVE EmptyLineAt(log[f], p)
      <3>1. j.offset \in 1..Len(j.buf) /\ j.start + j.offset = p - 1
        BY <1>5, <1>8, <1>9, <2>3
      <3>2. j.buf[j.offset] = "n"
        BY <1>5, <1>6, <1>7, <2>3
      <3>3. log[f][p - 1] = "n"
        BY <1>6, <3>1, <3>2
      <3> QED
        BY <2>2, <3>3 DEF EmptyLineAt
    <2> QED
      BY <2>2, <2>3
  <1>11. pos' = [pos EXCEPT ![f] = p]
    BY <1>4, <1>9 DEF EmptyLine
  <1>12. ASSUME NEW i \in 1..p, log[f][i] = "x" PROVE Gone(log[f], sent[f], i)
    <2>1. i # p
      BY <1>10, <1>12
    <2>2. CASE i <= j.start
      <3>1. i \in 1..j.start
        BY <1>5, <2>2
      <3> QED
        BY <1>6, <1>12, <3>1
    <2>3. CASE i > j.start
      <3>1. j.offset > 0 /\ p \in (i + 1)..(i + Buf - 1)
        <4>1. /\ j.start \in Nat /\ j.offset \in Nat /\ j.offset + 1 <= Buf
              /\ p = j.start + j.offset + 1 /\ i \in 1..p /\ i # p /\ i > j.start
          BY <1>5, <1>8, <1>9, <2>1, <2>3
        <4> QED
          BY <4>1, Sizes
      <3> QED
        BY <1>10, <3>1 DEF Gone, Overtaken
    <2> QED
      BY <1>5, <2>2, <2>3
  <1>13. PosSent'
    <2> SUFFICES ASSUME NEW g \in Files, gen[g] = 0
                 PROVE  /\ pos'[g] <= Len(log[g])
                        /\ \A i \in 1..pos'[g] : log[g][i] = "x" => Gone(log[g], sent[g], i)
      BY <1>1 DEF PosSent
    <2>1. CASE g = f
      <3>1. pos'[g] = p
        BY <1>11, <2>1 DEF TypeInv, TypeOK
      <3>2. p <= Len(log[f])
        BY <1>5, <1>9
      <3> QED
        BY <1>12, <2>1, <3>1, <3>2
    <2>2. CASE g # f
      <3>1. pos'[g] = pos[g]
        BY <1>11, <2>2 DEF TypeInv, TypeOK
      <3> QED
        BY <3>1 DEF SavedInv, PosSent
    <2> QED
      BY <2>1, <2>2
  <1>14. PICK c \in Jobs :
          /\ c = Cut(j, 1, 0)
          /\ c.file = j.file /\ c.at = j.at /\ c.start = j.start /\ c.buf = j.buf
          /\ c.offset = j.offset + 1 /\ c.left = j.left - (j.offset + 1)
          /\ j.frags \subseteq c.frags
    <2>1. j.offset + j.left <= Len(j.buf) /\ Len(j.buf) <= Buf
      BY <1>3, <1>4
    <2>2. /\ Cut(j, 1, 0) \in Jobs
          /\ Cut(j, 1, 0).file = j.file /\ Cut(j, 1, 0).at = j.at
          /\ Cut(j, 1, 0).start = j.start
          /\ Cut(j, 1, 0).buf = j.buf /\ Cut(j, 1, 0).offset = j.offset + 1
          /\ Cut(j, 1, 0).left = j.left - (j.offset + 1)
          /\ j.frags \subseteq Cut(j, 1, 0).frags
      BY <1>7, <2>1, CutEffect
    <2> QED
      BY <2>2
  <1>15. job'[s] = c /\ \A t \in Services \ {s} : job'[t] = job[t]
    BY <1>3, <1>4, <1>14 DEF EmptyLine, Take
  <1>16. ASSUME NEW t \in Services, t # s PROVE JobSent(t)'
    BY <1>1, <1>15, <1>16 DEF SavedInv, JobSent
  <1>17. JobSent(s)'
    <2>1. c.buf[c.offset] = "n"
      BY <1>7, <1>14
    <2>2. ASSUME NEW i \in 1..c.offset, c.buf[i] = "x" PROVE c.start + i \in c.frags
      <3>1. i \in 1..j.offset
        <4>1. c.offset = j.offset + 1 /\ j.offset \in Nat /\ i # c.offset
          BY <1>5, <1>14, <2>1, <2>2
        <4> QED
          BY <4>1
      <3> QED
        BY <1>6, <1>14, <2>2, <3>1
    <2>3. c.offset <= Len(c.buf)
      BY <1>5, <1>8, <1>14
    <2>4. Kept(c, log[f], sent[f])
      BY <1>6, <1>14, <2>1, <2>2, <2>3 DEF Kept
    <2> QED
      BY <1>1, <1>4, <1>6, <1>14, <1>15, <2>4 DEF JobSent
  <1> QED
    BY <1>13, <1>16, <1>17 DEF SavedInv

(* The request is sent, and accepted before the position is stored. *)
LEMMA SavedSend ==
  ASSUME TypeInv, TypeInv', SavedInv, NEW s \in Services,
         \/ CloseFile(s) \/ MakeRequest(s) \/ PostAccepted(s) \/ PostFails(s)
         \/ SavePosition(s)
  PROVE  SavedInv'
  <1> USE Sizes
  <1>1. pc[s] \in Working /\ UNCHANGED <<log, gen>>
    BY DEF CloseFile, MakeRequest, PostAccepted, PostFails, SavePosition, Working, files
  <1>2. PICK j \in Jobs, f \in Files : j = job[s] /\ f = j.file
    BY <1>1 DEF TypeInv, TypeOK, JobFits
  <1>3. /\ j.offset \in Nat /\ j.start \in Nat
        /\ j.buf \in Seq({"x", "n"}) /\ Len(j.buf) \in Nat /\ j.left \in Int
        /\ log[f] \in Seq({"x", "n"}) /\ Len(log[f]) \in Nat
    <2>1. log[f] \in Seq({"x", "n"})
      BY DEF TypeInv, TypeOK
    <2> QED
      BY <2>1 DEF Jobs
  <1>4. gen[f] = 0 => Kept(j, log[f], sent[f]) /\ j.at = 0
    BY <1>1, <1>2 DEF SavedInv, JobSent
  <1>5. Grows
    <2>1. \A g \in Files : sent[g] \subseteq sent'[g]
      <3>1. CASE Deliver(s)
        BY <1>2, <3>1 DEF Deliver, TypeInv, TypeOK
      <3> QED
        BY <3>1 DEF CloseFile, MakeRequest, PostAccepted, PostFails, SavePosition, files
    <2>2. \A g \in Files : Len(log[g]) \in Nat
      BY DEF TypeInv, TypeOK
    <2> QED
      BY <1>1, <2>1, <2>2 DEF Grows
  <1>7. ASSUME NEW t \in Services, t # s PROVE JobSent(t)'
    <2>1. job'[t] = job[t] /\ pc'[t] = pc[t]
      BY <1>7 DEF CloseFile, MakeRequest, PostAccepted, PostFails, SavePosition, TypeInv, TypeOK
    <2> QED
      BY <1>5, <2>1, JobSentGrows DEF SavedInv
  <1>8. JobSent(s)'
    <2> SUFFICES ASSUME gen[f] = 0 PROVE JobSent(s)'
      <3>1. pc'[s] \in Working => job'[s] = j
        BY <1>2 DEF CloseFile, MakeRequest, PostAccepted, PostFails, SavePosition, Working,
                    TypeInv, TypeOK
      <3> QED
        BY <1>1, <1>2, <3>1 DEF JobSent
    <2>1. CASE MakeRequest(s)
      <3>1. pc'[s] = "post" /\ UNCHANGED <<job, sent>>
        BY <2>1 DEF MakeRequest, files, TypeInv, TypeOK
      <3> QED
        BY <1>1, <1>2, <1>4, <3>1 DEF JobSent
    <2>2. CASE PostAccepted(s)
      <3>1. pc'[s] = "save" /\ UNCHANGED job
        BY <2>2 DEF PostAccepted, TypeInv, TypeOK
      <3>2. sent'[f] = sent[f] \cup {<<0, i>> : i \in j.frags}
        BY <1>2, <1>4, <2>2 DEF PostAccepted, Deliver, TypeInv, TypeOK
      <3>3. Kept(j, log[f], sent'[f])
        BY <1>4, <3>2 DEF Kept, Gone
      <3>4. \A i \in j.frags : <<0, i>> \in sent'[f]
        BY <3>2
      <3> QED
        BY <1>1, <1>2, <1>4, <3>1, <3>3, <3>4 DEF JobSent
    <2>3. CASE CloseFile(s) \/ PostFails(s) \/ SavePosition(s)
      <3>1. \E p \in {"walk", "files"} : pc' = [pc EXCEPT ![s] = p]
        BY <2>3 DEF CloseFile, PostFails, SavePosition
      <3>2. pc'[s] \in {"walk", "files"}
        BY <3>1 DEF TypeInv, TypeOK
      <3> QED
        BY <3>2 DEF JobSent, Working
    <2> QED
      BY <2>1, <2>2, <2>3
  <1>9. PosSent'
    <2>1. CASE SavePosition(s)
      <3>1. UNCHANGED sent /\ pos' = [pos EXCEPT ![f] = j.start + j.offset]
        BY <1>2, <2>1 DEF SavePosition
      <3>2. gen[f] = 0 => \A i \in j.frags : <<0, i>> \in sent[f]
        BY <1>1, <1>2, <2>1 DEF SavePosition, SavedInv, JobSent
      <3>3. gen[f] = 0 =>
            /\ j.offset <= Len(j.buf) /\ j.start + Len(j.buf) <= Len(log[f])
            /\ \A i \in 1..Len(j.buf) : j.buf[i] = log[f][j.start + i]
            /\ \A i \in 1..j.start : log[f][i] = "x" => Gone(log[f], sent[f], i)
            /\ \A i \in 1..j.offset : j.buf[i] = "x" => j.start + i \in j.frags
        BY <1>4 DEF Kept
      <3>4. gen[f] = 0 => j.start + j.offset <= Len(log[f])
        BY <1>3, <3>3
      <3>5. ASSUME gen[f] = 0, NEW i \in 1..(j.start + j.offset), log[f][i] = "x"
            PROVE  Gone(log[f], sent[f], i)
        <4>1. CASE i <= j.start
          <5>1. i \in 1..j.start
            BY <1>3, <4>1
          <5> QED
            BY <3>3, <3>5, <5>1
        <4>2. CASE i > j.start
          <5>1. PICK k \in 1..j.offset : i = j.start + k
            <6>1. i - j.start \in 1..j.offset /\ i = j.start + (i - j.start)
              BY <1>3, <4>2
            <6> QED
              BY <6>1
          <5>2. k \in 1..Len(j.buf)
            BY <1>3, <3>3, <3>5
          <5>3. i \in j.frags
            BY <3>3, <3>5, <5>1, <5>2
          <5> QED
            BY <3>2, <3>5, <5>1, <5>3 DEF Gone
        <4> QED
          BY <1>3, <4>1, <4>2
      <3> SUFFICES ASSUME NEW g \in Files, gen[g] = 0
                   PROVE  /\ pos'[g] <= Len(log[g])
                          /\ \A i \in 1..pos'[g] : log[g][i] = "x" => Gone(log[g], sent[g], i)
        BY <1>1, <3>1 DEF PosSent
      <3>6. CASE g = f
        <4>1. pos'[g] = j.start + j.offset
          BY <3>1, <3>6 DEF TypeInv, TypeOK
        <4> QED
          BY <3>4, <3>5, <3>6, <4>1
      <3>7. CASE g # f
        <4>1. pos'[g] = pos[g]
          BY <3>1, <3>7 DEF TypeInv, TypeOK
        <4> QED
          BY <4>1 DEF SavedInv, PosSent
      <3> QED
        BY <3>6, <3>7
    <2>2. CASE ~SavePosition(s)
      BY <1>5, <2>2, PosSentGrows
         DEF CloseFile, MakeRequest, PostAccepted, PostFails, files, SavedInv
    <2> QED
      BY <2>1, <2>2
  <1> QED
    BY <1>7, <1>8, <1>9 DEF SavedInv

(* SavedInv is inductive. *)
LEMMA SavedStep == TypeInv /\ SavedInv /\ [Next]_vars => SavedInv'
  <1> SUFFICES ASSUME TypeInv, SavedInv, [Next]_vars PROVE SavedInv'
    OBVIOUS
  <1>1. TypeInv'
    BY TypeStep
  <1>2. ASSUME NEW n \in Names,
               \/ \E c \in {"x", "n"} : WriteOwn(n, c)
               \/ \E text \in 1..MaxLine, ends \in {1, 2} : WriteFromSocket(n, text, ends)
               \/ Truncate(n)
               \/ Rotate(n)
        PROVE  SavedInv'
    BY <1>1, <1>2, SavedWrite, SavedEmptied
  <1>3. ASSUME NEW s \in Services,
               \/ Start(s) \/ Avoid(s) \/ Exit(s) \/ PushRevision(s) \/ Pushed(s)
               \/ NoConnection(s)
        PROVE  SavedInv'
    <2>1. /\ UNCHANGED <<log, gen, pos, sent, job>>
          /\ \E p \in {"walk", "files", "exit"} : pc' = [pc EXCEPT ![s] = p] \/ UNCHANGED pc
      BY <1>3 DEF Start, Avoid, Exit, PushRevision, Pushed, NoConnection, files
    <2>2. \A t \in Services : pc'[t] \in Working => pc'[t] = pc[t]
      BY <2>1 DEF Working, TypeInv, TypeOK
    <2> QED
      BY <1>1, <2>1, <2>2, SavedIdle
  <1>4. ASSUME NEW s \in Services, NEW n \in Names, ReadFile(s, n) PROVE SavedInv'
    BY <1>1, <1>4, SavedRead
  <1>5. ASSUME NEW s \in Services, CutLine(s) \/ Dump(s) PROVE SavedInv'
    BY <1>1, <1>5, SavedCut
  <1>6. ASSUME NEW s \in Services, EmptyLine(s) PROVE SavedInv'
    BY <1>1, <1>6, SavedEmpty
  <1>7. ASSUME NEW s \in Services,
               \/ CloseFile(s) \/ MakeRequest(s) \/ PostAccepted(s) \/ PostFails(s)
               \/ SavePosition(s)
        PROVE  SavedInv'
    BY <1>1, <1>7, SavedSend
  <1>8. ASSUME StopCloud \/ \E r \in Revs : ChangeRevision(r) PROVE SavedInv'
    <2>1. UNCHANGED <<log, gen, pos, sent>> /\ \A t \in Services : pc'[t] \notin Working
      BY <1>8 DEF StopCloud, ChangeRevision, Killed, files, Working
    <2> QED
      BY <1>1, <2>1, SavedIdle
  <1>9. CASE UNCHANGED vars
    BY <1>1, <1>9, SavedIdle DEF vars, files
  <1> QED
    BY <1>2, <1>3, <1>4, <1>5, <1>6, <1>7, <1>8, <1>9 DEF Next, ServiceStep

(* Whatever requests fail and whenever the services are killed: all text   *)
(* before a stored position has reached the cloud, in every file that was  *)
(* not emptied, but for the lines that an empty line overtook.  A file     *)
(* that was emptied and has grown again is read on from its old position,  *)
(* so this condition cannot be left out.                                   *)
THEOREM SavedCorrect == Spec => []SavedMeansSent
  <1>1. Init => TypeInv /\ SavedInv
    <2>1. Init => SavedInv
      BY DEF Init, SavedInv, PosSent, JobSent, Working, Services
    <2> QED
      BY <2>1, TypeInit
  <1>2. TypeInv /\ SavedInv /\ [Next]_vars => (TypeInv /\ SavedInv)'
    BY TypeStep, SavedStep
  <1>3. TypeInv /\ SavedInv => SavedMeansSent
    BY DEF SavedInv, PosSent, SavedMeansSent, Sent, Gone
  <1> QED
    BY <1>1, <1>2, <1>3, PTL DEF Spec

------------------------------------------------------------------------------
(* What the range service leaves behind.                                   *)

(* Byte p is the last of a line, or there is none. *)
LineStart(l, p) == p = 0 \/ (p \in 1..Len(l) /\ l[p] = "n")

(* In files that were not emptied and have no line that fills the buffer,  *)
(* a position is at the end of a line ...                                  *)
PosAtLine ==
    \A f \in Files : gen[f] = 0 /\ LinesFit(f) => LineStart(log[f], pos[f])

(* ... and so is a job, and what it has looked at and does not send are    *)
(* empty lines.                                                            *)
JobAtLine(s) ==
    pc[s] \in Working /\ gen[job[s].file] = 0 /\ LinesFit(job[s].file) =>
        /\ LineStart(log[job[s].file], job[s].start + job[s].offset)
        /\ job[s].frags = {} =>
              \/ job[s].offset = 0 /\ job[s].left = Len(job[s].buf)
              \/ /\ job[s].offset > 0
                 /\ EmptyLineAt(log[job[s].file], job[s].start + job[s].offset)

LineInv == PosAtLine /\ \A s \in Services : JobAtLine(s)

(* A file whose lines fit had lines that fit before it grew. *)
LEMMA FitBefore ==
  ASSUME TypeInv, TypeInv', Grows, NEW f \in Files, gen'[f] = 0, LinesFit(f)'
  PROVE  /\ gen[f] = 0 /\ LinesFit(f)
         /\ \A p \in Nat : LineStart(log[f], p) => LineStart(log'[f], p)
         /\ \A p \in Nat : EmptyLineAt(log[f], p) => EmptyLineAt(log'[f], p)
  <1> USE Sizes
  <1>1. /\ log[f] \in Seq({"x", "n"}) /\ Len(log[f]) \in Nat
        /\ log'[f] \in Seq({"x", "n"}) /\ Len(log'[f]) \in Nat
    <2>1. log[f] \in Seq({"x", "n"}) /\ log'[f] \in Seq({"x", "n"})
      BY DEF TypeInv, TypeOK
    <2> QED
      BY <2>1
  <1>2. /\ gen[f] = 0
        /\ Len(log[f]) <= Len(log'[f])
        /\ \A i \in 1..Len(log[f]) : log'[f][i] = log[f][i]
    BY DEF Grows
  <1>3. ASSUME NEW i \in 1..(Len(log[f]) - Buf + 1)
        PROVE  \E k \in i..(i + Buf - 1) : log[f][k] = "n"
    <2>1. i \in 1..(Len(log'[f]) - Buf + 1)
      BY <1>1, <1>2
    <2>2. PICK k \in i..(i + Buf - 1) : log'[f][k] = "n"
      BY <2>1 DEF LinesFit
    <2>3. k \in 1..Len(log[f])
      BY <1>1
    <2> QED
      BY <1>2, <2>2, <2>3
  <1>4. ASSUME NEW p \in Nat, LineStart(log[f], p) PROVE LineStart(log'[f], p)
    <2>1. p \in 1..Len(log[f]) => p \in 1..Len(log'[f])
      BY <1>1, <1>2
    <2> QED
      BY <1>2, <1>4, <2>1 DEF LineStart
  <1>5. ASSUME NEW p \in Nat, EmptyLineAt(log[f], p) PROVE EmptyLineAt(log'[f], p)
    <2>1. p \in 1..Len(log[f]) /\ p \in 1..Len(log'[f]) /\ log[f][p] = "n"
      BY <1>1, <1>2, <1>5 DEF EmptyLineAt
    <2>2. p > 1 => p - 1 \in 1..Len(log[f]) /\ log[f][p - 1] = "n"
      BY <1>1, <1>5, <2>1 DEF EmptyLineAt
    <2> QED
      BY <1>2, <2>1, <2>2 DEF EmptyLineAt
  <1> QED
    BY <1>2, <1>3, <1>4, <1>5 DEF LinesFit

(* A step that lets files grow but changes no position and no job. *)
LEMMA LineGrows ==
  ASSUME TypeInv, TypeInv', LineInv, Grows,
         \A f \in Files : gen'[f] = 0 => pos'[f] = pos[f],
         \A t \in Services : pc'[t] \in Working => job'[t] = job[t] /\ pc[t] \in Working
  PROVE  LineInv'
  <1>1. PosAtLine'
    <2> SUFFICES ASSUME NEW f \in Files, gen'[f] = 0, LinesFit(f)'
                 PROVE  LineStart(log'[f], pos'[f])
      BY DEF PosAtLine
    <2>1. pos[f] \in Nat /\ pos'[f] = pos[f]
      BY DEF TypeInv, TypeOK
    <2> QED
      BY <2>1, FitBefore DEF LineInv, PosAtLine
  <1>2. ASSUME NEW t \in Services PROVE JobAtLine(t)'
    <2> SUFFICES ASSUME pc'[t] \in Working, gen'[job[t].file] = 0, LinesFit(job[t].file)'
                 PROVE  /\ LineStart(log'[job[t].file], job[t].start + job[t].offset)
                        /\ job[t].frags = {} =>
                              \/ job[t].offset = 0 /\ job[t].left = Len(job[t].buf)
                              \/ /\ job[t].offset > 0
                                 /\ EmptyLineAt(log'[job[t].file], job[t].start + job[t].offset)
      BY DEF JobAtLine
    <2>1. job[t] \in Jobs /\ job[t].file \in Files
      BY DEF TypeInv, TypeOK, JobFits
    <2>2. job[t].start + job[t].offset \in Nat
      <3>1. job[t].start \in Nat /\ job[t].offset \in Nat
        BY <2>1 DEF Jobs
      <3> QED
        BY <3>1
    <2> QED
      BY <2>1, <2>2, FitBefore DEF LineInv, JobAtLine
  <1> QED
    BY <1>1, <1>2 DEF LineInv

(* A step that changes no file and no job, and starts none. *)
LEMMA LineIdle ==
  ASSUME LineInv, UNCHANGED <<log, gen, pos>>,
         \A t \in Services : pc'[t] \in Working => job'[t] = job[t] /\ pc[t] \in Working
  PROVE  LineInv'
  <1>1. PosAtLine'
    BY DEF LineInv, PosAtLine, LinesFit
  <1>2. ASSUME NEW t \in Services PROVE JobAtLine(t)'
    BY DEF LineInv, JobAtLine, LinesFit
  <1> QED
    BY <1>1, <1>2 DEF LineInv

(* A fresh buffer starts where the stored position is. *)
LEMMA LineRead ==
  ASSUME TypeInv, TypeInv', SavedInv, LineInv, NEW s \in Services, NEW n \in Names, ReadFile(s, n)
  PROVE  LineInv'
  <1> PICK f \in Files : f = <<rev[s], n>>
    BY DEF ReadFile, TypeInv, RevFits, Files
  <1>1. UNCHANGED <<log, gen, pos>> /\ job'[s] = ReadJob(f)
    BY DEF ReadFile, files, TypeInv, TypeOK
  <1>2. PosAtLine'
    BY <1>1 DEF LineInv, PosAtLine, LinesFit
  <1>3. ASSUME NEW t \in Services, t # s PROVE JobAtLine(t)'
    <2>1. job'[t] = job[t] /\ pc'[t] = pc[t]
      BY <1>3 DEF ReadFile, TypeInv, TypeOK
    <2> QED
      BY <1>1, <2>1 DEF LineInv, JobAtLine, LinesFit
  <1>4. JobAtLine(s)'
    <2> SUFFICES ASSUME gen[f] = 0, LinesFit(f)
                 PROVE  /\ LineStart(log[f], ReadJob(f).start + ReadJob(f).offset)
                        /\ ReadJob(f).offset = 0 /\ ReadJob(f).left = Len(ReadJob(f).buf)
      <3>1. ReadJob(f).file = f
        BY DEF ReadJob
      <3> QED
        BY <1>1, <3>1 DEF JobAtLine, LinesFit
    <2>1. pos[f] \in Nat /\ log[f] \in Seq({"x", "n"}) /\ pos[f] <= Len(log[f])
      BY DEF TypeInv, TypeOK, SavedInv, PosSent
    <2>2. ReadJob(f).start = pos[f] /\ ReadJob(f).offset = 0 /\ pos[f] + 0 = pos[f]
      BY <2>1 DEF ReadJob, ReadStart
    <2>3. ReadJob(f).left = Len(ReadJob(f).buf)
      BY ReadFits
    <2> QED
      BY <2>2, <2>3 DEF LineInv, PosAtLine
  <1> QED
    BY <1>2, <1>3, <1>4 DEF LineInv

(* A line that is cut ends where the job goes on, an empty one as well; a  *)
(* full buffer without an end is never found in such a file.               *)
LEMMA LineScan ==
  ASSUME TypeInv, TypeInv', SavedInv, LineInv, NEW s \in Services,
         CutLine(s) \/ EmptyLine(s) \/ Dump(s)
  PROVE  LineInv'
  <1> USE Sizes
  <1>1. pc[s] = "scan" /\ UNCHANGED <<log, gen, pc>> /\ job \in [Services -> Jobs]
    BY DEF CutLine, EmptyLine, Dump, files, TypeInv, TypeOK
  <1>2. PICK j \in Jobs, f \in Files : j = job[s] /\ f = j.file
    BY <1>1 DEF TypeInv, TypeOK, JobFits, Working
  <1>3. /\ j.left \in Int /\ j.offset \in Nat /\ j.start \in Nat
        /\ j.buf \in Seq({"x", "n"}) /\ Len(j.buf) \in Nat
        /\ log[f] \in Seq({"x", "n"}) /\ Len(log[f]) \in Nat
        /\ j.offset + j.left <= Len(j.buf) /\ Len(j.buf) <= Buf
    <2>1. log[f] \in Seq({"x", "n"})
      BY DEF TypeInv, TypeOK
    <2>2. j.offset + j.left <= Len(j.buf) /\ Len(j.buf) <= Buf
      BY <1>1, <1>2 DEF TypeInv, JobFits, Working
    <2> QED
      BY <2>1, <2>2 DEF Jobs
  <1>4. \E len \in 1..j.left, text \in Nat : job' = [job EXCEPT ![s] = Cut(j, len, text)]
    BY <1>2, TypeScan
  <1>5. job'[s].file = f /\ \A t \in Services \ {s} : job'[t] = job[t]
    BY <1>1, <1>2, <1>4 DEF Cut, Jobs
  <1>6. \A g \in Files \ {f} : pos'[g] = pos[g]
    BY <1>2 DEF CutLine, EmptyLine, Dump, files, TypeInv, TypeOK
  <1>7. \A g \in Files \ {f} : gen[g] = 0 /\ LinesFit(g) => LineStart(log'[g], pos'[g])
    BY <1>1, <1>6 DEF LineInv, PosAtLine
  <1>8. ASSUME NEW t \in Services, t # s PROVE JobAtLine(t)'
    <2>1. job'[t] = job[t] /\ pc'[t] = pc[t]
      BY <1>1, <1>5, <1>8
    <2>2. UNCHANGED <<log, gen>>
      BY <1>1
    <2> QED
      BY <2>1, <2>2 DEF LineInv, JobAtLine, LinesFit
  <1> SUFFICES ASSUME gen[f] = 0, LinesFit(f)
               PROVE  LineStart(log[f], pos'[f]) /\ JobAtLine(s)'
    <2>1. (gen[f] = 0 /\ LinesFit(f)) \/ JobAtLine(s)'
      BY <1>1, <1>5 DEF JobAtLine, LinesFit
    <2> QED
      BY <1>1, <1>7, <1>8, <2>1 DEF LineInv, PosAtLine, LinesFit
  <1>9. \A i \in 1..Len(j.buf) : j.buf[i] = log[f][j.start + i]
    BY <1>1, <1>2 DEF SavedInv, JobSent, Kept, Working
  <1>10. j.start + Len(j.buf) <= Len(log[f])
    BY <1>1, <1>2 DEF SavedInv, JobSent, Kept, Working
  <1>11. LineStart(log[f], j.start + j.offset) /\ LineStart(log[f], pos[f])
    BY <1>1, <1>2 DEF LineInv, JobAtLine, PosAtLine, Working
  <1>12. CASE CutLine(s)
    <2>1. PICK len \in 2..Buf : First(len, NewLines(s)) /\ Take(s, len, len - 1)
      BY <1>12 DEF CutLine
    <2>2. len \in 1..j.left /\ j.buf[j.offset + len] = "n"
      BY <1>2, <2>1 DEF First, NewLines
    <2>3. job'[s] = Cut(j, len, len - 1) /\ pos' = pos
      BY <1>1, <1>2, <1>12, <2>1 DEF Take, CutLine, files
    <2>4. /\ job'[s].start = j.start /\ job'[s].offset = j.offset + len
          /\ job'[s].frags = j.frags \cup {j.start + j.offset + k : k \in 1..(len - 1)}
      <3>1. len \in Nat /\ len - 1 \in Nat /\ len <= j.left
        BY <1>3, <2>2
      <3>2. j.offset + j.left <= Len(j.buf) /\ Len(j.buf) <= Buf
        BY <1>3
      <3> QED
        BY <2>3, <3>1, <3>2, CutEffect
    <2>5. j.start + j.offset + 1 \in job'[s].frags
      BY <2>1, <2>4
    <2>6. j.offset + len \in 1..Len(j.buf)
      <3>1. len \in 1..j.left
        BY <2>2
      <3>2. j.offset \in Nat /\ j.left \in Int /\ Len(j.buf) \in Nat /\ j.offset + j.left <= Len(j.buf)
        BY <1>3
      <3> QED
        BY <3>1, <3>2
    <2>7. LineStart(log[f], j.start + (j.offset + len))
      <3>1. j.start + (j.offset + len) \in 1..Len(log[f])
        <4>1. PICK o \in 1..Len(j.buf) : o = j.offset + len
          BY <2>6
        <4>2. j.start + o \in 1..Len(log[f])
          BY <1>3, <1>10
        <4> QED
          BY <4>1, <4>2
      <3> QED
        BY <1>9, <2>2, <2>6, <3>1 DEF LineStart
    <2> QED
      BY <1>1, <1>5, <1>11, <2>3, <2>4, <2>5, <2>7 DEF JobAtLine
  <1>13. CASE EmptyLine(s)
    <2>1. 1 <= j.left /\ j.buf[j.offset + 1] = "n"
      BY <1>2, <1>3, <1>13 DEF EmptyLine, NewLines
    <2>2. PICK i \in 1..Len(log[f]) : i = j.start + j.offset + 1
      <3>1. j.offset + 1 <= Len(j.buf)
        BY <1>3, <2>1
      <3> QED
        BY <1>3, <1>10, <3>1, Within
    <2>3. log[f][i] = "n"
      <3>1. j.start + (j.offset + 1) = i
        BY <1>3, <2>2
      <3>2. j.offset + 1 \in 1..Len(j.buf)
        BY <1>3, <2>1
      <3> QED
        BY <1>9, <2>1, <3>1, <3>2
    <2>4. EmptyLineAt(log[f], i)
      <3>1. j.start + j.offset = i - 1
        BY <1>3, <2>2
      <3>2. i - 1 # 0 => log[f][i - 1] = "n"
        BY <1>11, <3>1 DEF LineStart
      <3> QED
        BY <2>3, <3>2 DEF EmptyLineAt
    <2>5. pos' = [pos EXCEPT ![f] = i] /\ job'[s] = Cut(j, 1, 0)
      BY <1>1, <1>2, <1>13, <2>2 DEF EmptyLine, Take
    <2>6. job'[s].start = j.start /\ job'[s].offset = j.offset + 1
      <3>1. j.offset + j.left <= Len(j.buf) /\ Len(j.buf) <= Buf
        BY <1>3
      <3> QED
        BY <2>1, <2>5, <3>1, CutEffect
    <2>7. pos'[f] = i /\ job'[s].start + job'[s].offset = i /\ job'[s].offset > 0
      <3>1. pos'[f] = i
        BY <2>5 DEF TypeInv, TypeOK
      <3>2. j.start \in Nat /\ j.offset \in Nat /\ i = j.start + j.offset + 1
        BY <1>3, <2>2
      <3>3. j.start + (j.offset + 1) = i /\ j.offset + 1 > 0
        BY <3>2
      <3> QED
        BY <2>6, <3>1, <3>3
    <2>8. LineStart(log[f], i)
      BY <2>3 DEF LineStart
    <2> QED
      BY <1>1, <1>5, <2>4, <2>7, <2>8 DEF JobAtLine
  <1>14. CASE Dump(s)
    <2>1. j.left = Buf /\ \A k \in 1..j.left : j.buf[j.offset + k] # "n"
      BY <1>2, <1>14 DEF Dump, NewLines
    <2>2. j.offset = 0 /\ Len(j.buf) = Buf
      BY <1>3, <2>1
    <2>3. j.start + 1 \in 1..(Len(log[f]) - Buf + 1)
      BY <1>3, <1>10, <2>2
    <2>4. PICK k \in (j.start + 1)..(j.start + 1 + Buf - 1) : log[f][k] = "n"
      BY <2>3 DEF LinesFit
    <2>5. k - j.start \in 1..Buf /\ j.start + (k - j.start) = k
      BY <1>3, <2>4
    <2>6. j.buf[k - j.start] # "n"
      <3>1. j.offset + (k - j.start) = k - j.start
        BY <1>3, <2>2, <2>5
      <3> QED
        BY <2>1, <2>5, <3>1
    <2> QED
      BY <1>9, <2>2, <2>4, <2>5, <2>6
  <1> QED
    BY <1>12, <1>13, <1>14

(* The position that is stored is the one the job has come to. *)
LEMMA LineSave ==
  ASSUME TypeInv, TypeInv', LineInv, NEW s \in Services, SavePosition(s)
  PROVE  LineInv'
  <1>1. /\ UNCHANGED <<log, gen>> /\ pos' = [pos EXCEPT ![job[s].file] = job[s].start + job[s].offset]
        /\ pc[s] = "save" /\ job[s].file \in Files
    BY DEF SavePosition, TypeInv, JobFits, Working
  <1>2. PosAtLine'
    <2> SUFFICES ASSUME NEW f \in Files, gen[f] = 0, LinesFit(f)
                 PROVE  LineStart(log[f], pos'[f])
      BY <1>1 DEF PosAtLine, LinesFit
    <2>1. pos'[f] = IF f = job[s].file THEN job[s].start + job[s].offset ELSE pos[f]
      BY <1>1 DEF TypeInv, TypeOK
    <2> QED
      BY <1>1, <2>1 DEF LineInv, PosAtLine, JobAtLine, Working
  <1>3. ASSUME NEW t \in Services PROVE JobAtLine(t)'
    <2>1. pc'[t] \in Working => t # s /\ pc'[t] = pc[t] /\ job'[t] = job[t]
      BY DEF SavePosition, TypeInv, TypeOK, Working
    <2> QED
      BY <1>1, <2>1 DEF LineInv, JobAtLine, LinesFit
  <1> QED
    BY <1>2, <1>3 DEF LineInv

(* LineInv is inductive. *)
LEMMA LineStep == TypeInv /\ SavedInv /\ LineInv /\ [Next]_vars => LineInv'
  <1> SUFFICES ASSUME TypeInv, SavedInv, LineInv, [Next]_vars PROVE LineInv'
    OBVIOUS
  <1>1. TypeInv'
    BY TypeStep
  <1>2. ASSUME NEW n \in Names,
               \/ \E c \in {"x", "n"} : WriteOwn(n, c)
               \/ \E text \in 1..MaxLine, ends \in {1, 2} : WriteFromSocket(n, text, ends)
        PROVE  LineInv'
    <2>1. Grows
      BY <1>1, <1>2, SavedWrite
    <2>2. UNCHANGED <<pos, pc, job>>
      BY <1>2 DEF WriteOwn, WriteFromSocket
    <2> QED
      BY <1>1, <2>1, <2>2, LineGrows
  <1>3. ASSUME NEW n \in Names, Truncate(n) \/ Rotate(n) PROVE LineInv'
    <2>1. Grows
      BY <1>1, <1>3, SavedEmptied
    <2>2. /\ UNCHANGED <<pc, job>>
          /\ \A f \in Files : gen'[f] = 0 => pos'[f] = pos[f]
      <3>1. CASE Truncate(n)
        BY <3>1 DEF Truncate
      <3>2. CASE Rotate(n)
        BY <3>2 DEF Rotate, TypeInv, TypeOK
      <3> QED
        BY <1>3, <3>1, <3>2
    <2> QED
      BY <1>1, <2>1, <2>2, LineGrows
  <1>4. ASSUME NEW s \in Services,
               \/ Start(s) \/ Avoid(s) \/ Exit(s) \/ PushRevision(s) \/ Pushed(s)
               \/ NoConnection(s) \/ CloseFile(s) \/ MakeRequest(s) \/ PostAccepted(s)
               \/ PostFails(s)
        PROVE  LineInv'
    <2>1. UNCHANGED <<log, gen, pos>>
      BY <1>4 DEF Start, Avoid, Exit, PushRevision, Pushed, NoConnection, CloseFile, MakeRequest,
                  PostAccepted, PostFails, files
    <2>2. \A t \in Services : pc'[t] \in Working => job'[t] = job[t] /\ pc[t] \in Working
      <3>1. CASE MakeRequest(s) \/ PostAccepted(s)
        BY <3>1 DEF MakeRequest, PostAccepted, TypeInv, TypeOK, Working
      <3>2. CASE ~MakeRequest(s) /\ ~PostAccepted(s)
        <4>1. /\ \E p \in {"walk", "files", "exit"} : pc' = [pc EXCEPT ![s] = p]
                                                     \/ (pc[s] \notin Working /\ UNCHANGED pc)
              /\ UNCHANGED job \/ job' = [job EXCEPT ![s] = NoJob]
          BY <1>4, <3>2 DEF Start, Avoid, Exit, PushRevision, Pushed, NoConnection, CloseFile,
                            PostFails, Working
        <4> QED
          BY <4>1 DEF TypeInv, TypeOK, Working
      <3> QED
        BY <3>1, <3>2
    <2> QED
      BY <2>1, <2>2, LineIdle
  <1>5. ASSUME NEW s \in Services, NEW n \in Names, ReadFile(s, n) PROVE LineInv'
    BY <1>1, <1>5, LineRead
  <1>6. ASSUME NEW s \in Services, CutLine(s) \/ EmptyLine(s) \/ Dump(s) PROVE LineInv'
    BY <1>1, <1>6, LineScan
  <1>7. ASSUME NEW s \in Services, SavePosition(s) PROVE LineInv'
    BY <1>1, <1>7, LineSave
  <1>8. ASSUME StopCloud \/ \E r \in Revs : ChangeRevision(r) PROVE LineInv'
    <2>1. UNCHANGED <<log, gen, pos>> /\ \A t \in Services : pc'[t] \notin Working
      BY <1>8 DEF StopCloud, ChangeRevision, Killed, files, Working
    <2> QED
      BY <2>1, LineIdle
  <1>9. CASE UNCHANGED vars
    BY <1>9, LineIdle DEF vars, files
  <1> QED
    BY <1>2, <1>3, <1>4, <1>5, <1>6, <1>7, <1>8, <1>9 DEF Next, ServiceStep

(* Every complete line of the file is in the cloud or left behind on       *)
(* account of an empty line, if the file was not emptied and no line of it *)
(* fills the buffer.                                                       *)
AllSent(f) ==
    gen[f] = 0 /\ LinesFit(f) =>
        \A i \in 1..Len(log[f]) : Complete(f, i) =>
            \/ Sent(f, i)
            \/ Overtaken(log[f], i)
            \/ WaitsBehindEmptyLine(f, i)

(* A service works on a file of the revision it pushes. *)
JobOfRev == \A s \in Services : pc[s] \in Working => job[s].file[1] = rev[s]

(* When the range service has found nothing but empty lines, the position  *)
(* of its file is behind them.                                             *)
RangePos ==
    LET j == job["range"] IN
    pc["range"] \in Working /\ j.frags = {} /\ j.offset > 0
        => pos[j.file] = j.start + j.offset

RangeBusy == pc["range"] \in {"files"} \cup Working

(* While the range service looks at a revision and has sent nothing of it, *)
(* each file it has closed is in the cloud as far as its lines are         *)
(* complete; a buffer that is not full was the rest of its file.           *)
RangeInv ==
    RangeBusy =>
        /\ todo["range"] \subseteq Listed
        /\ pc["range"] \in Working =>
              /\ \E n \in Listed \ todo["range"] : job["range"].file = <<rev["range"], n>>
              /\ LET j == job["range"] IN
                    Len(j.buf) < Buf /\ gen[j.file] = 0
                       => j.start + Len(j.buf) = Len(log[j.file])
        /\ result["range"] = 0 =>
              \A n \in Listed \ todo["range"] :
                 \/ pc["range"] \in Working /\ job["range"].file = <<rev["range"], n>>
                 \/ AllSent(<<rev["range"], n>>)

(* The cloud forgets nothing, and only the files of the running revision   *)
(* are written.                                                            *)
LEMMA FilesOfOthers ==
  ASSUME TypeInv, [Next]_vars, NEW f \in Files
  PROVE  /\ sent[f] \subseteq sent'[f]
         /\ f[1] # cur => log'[f] = log[f] /\ gen'[f] = gen[f]
  <1>1. sent[f] \subseteq sent'[f]
    <2>1. ASSUME NEW s \in Services, PostAccepted(s) \/ PostFails(s)
          PROVE  sent[f] \subseteq sent'[f]
      <3>1. job[s].file \in Files
        BY <2>1 DEF PostAccepted, PostFails, TypeInv, JobFits, Working
      <3>2. \E new : sent' \in {sent, [sent EXCEPT ![job[s].file] = sent[job[s].file] \cup new]}
        BY <2>1 DEF PostAccepted, PostFails, Deliver
      <3> QED
        BY <3>1, <3>2 DEF TypeInv, TypeOK
    <2>2. CASE UNCHANGED sent
      BY <2>2
    <2> QED
      BY <2>1, <2>2 DEF Next, ServiceStep, WriteOwn, WriteFromSocket, Truncate, Rotate, Start, Avoid,
         Exit, PushRevision, Pushed, NoConnection, ReadFile, CutLine, EmptyLine, Dump, CloseFile,
         MakeRequest, SavePosition, StopCloud, ChangeRevision, files, vars
  <1>2. ASSUME f[1] # cur PROVE log'[f] = log[f] /\ gen'[f] = gen[f]
    <2>1. ASSUME NEW n \in Names,
                 \/ \E c \in {"x", "n"} : WriteOwn(n, c)
                 \/ \E text \in 1..MaxLine, ends \in {1, 2} : WriteFromSocket(n, text, ends)
                 \/ Truncate(n)
                 \/ Rotate(n)
          PROVE  log'[f] = log[f] /\ gen'[f] = gen[f]
      <3>1. f # <<cur, n>>
        BY <1>2
      <3> QED
        BY <2>1, <3>1 DEF WriteOwn, WriteFromSocket, Truncate, Rotate, TypeInv, TypeOK
    <2>2. CASE UNCHANGED <<log, gen>>
      BY <2>2
    <2> QED
      BY <2>1, <2>2 DEF Next, ServiceStep, Start, Avoid, Exit, PushRevision, Pushed, NoConnection,
         ReadFile, CutLine, EmptyLine, Dump, CloseFile, MakeRequest, PostAccepted, PostFails,
         SavePosition, StopCloud, ChangeRevision, files, vars
  <1> QED
    BY <1>1, <1>2

(* A job stays a job of its revision. *)
LEMMA JobOfRevStep == TypeInv /\ JobOfRev /\ [Next]_vars => JobOfRev'
  <1> SUFFICES ASSUME TypeInv, JobOfRev, [Next]_vars PROVE JobOfRev'
    OBVIOUS
  <1>1. /\ pc \in [Services -> {"off", "walk", "files", "exit"} \cup Working]
        /\ job \in [Services -> Jobs] /\ rev \in [Services -> -1..N]
    BY DEF TypeInv, TypeOK
  <1>2. CASE UNCHANGED <<pc, rev, job>>
    BY <1>2 DEF JobOfRev
  <1>3. ASSUME NEW s \in Services,
               \/ Start(s) \/ Avoid(s) \/ Exit(s) \/ PushRevision(s) \/ Pushed(s)
               \/ NoConnection(s) \/ CloseFile(s) \/ PostFails(s) \/ SavePosition(s)
        PROVE  JobOfRev'
    <2>1. /\ pc'[s] \notin Working
          /\ \A t \in Services \ {s} : pc'[t] = pc[t] /\ rev'[t] = rev[t] /\ job'[t] = job[t]
      BY <1>1, <1>3 DEF Start, Avoid, Exit, PushRevision, Pushed, NoConnection, CloseFile,
                        PostFails, SavePosition, walk, Working
    <2> QED
      BY <2>1 DEF JobOfRev
  <1>4. ASSUME NEW s \in Services, NEW n \in Names, ReadFile(s, n) PROVE JobOfRev'
    <2>1. /\ job'[s].file[1] = rev[s] /\ rev'[s] = rev[s]
          /\ \A t \in Services \ {s} : pc'[t] = pc[t] /\ rev'[t] = rev[t] /\ job'[t] = job[t]
      BY <1>1, <1>4 DEF ReadFile, ReadJob
    <2> QED
      BY <2>1 DEF JobOfRev
  <1>5. ASSUME NEW s \in Services, CutLine(s) \/ EmptyLine(s) \/ Dump(s) PROVE JobOfRev'
    <2>1. PICK len \in 1..job[s].left, text \in Nat : job' = [job EXCEPT ![s] = Cut(job[s], len, text)]
      BY <1>5, TypeScan
    <2>2. \A t \in Services : job'[t].file = job[t].file
      BY <1>1, <2>1 DEF Cut, Jobs
    <2>3. UNCHANGED <<pc, rev>>
      BY <1>5 DEF CutLine, EmptyLine, Dump, walk
    <2> QED
      BY <2>2, <2>3 DEF JobOfRev
  <1>6. ASSUME NEW s \in Services, MakeRequest(s) \/ PostAccepted(s) PROVE JobOfRev'
    <2>1. UNCHANGED <<rev, job>> /\ \A t \in Services : pc'[t] \in Working => pc[t] \in Working
      BY <1>1, <1>6 DEF MakeRequest, PostAccepted, walk, Working
    <2> QED
      BY <2>1 DEF JobOfRev
  <1>7. ASSUME StopCloud \/ \E r \in Revs : ChangeRevision(r) PROVE JobOfRev'
    BY <1>7 DEF StopCloud, ChangeRevision, Killed, JobOfRev, Working
  <1>8. ASSUME NEW n \in Names,
               \/ \E c \in {"x", "n"} : WriteOwn(n, c)
               \/ \E text \in 1..MaxLine, ends \in {1, 2} : WriteFromSocket(n, text, ends)
               \/ Truncate(n)
               \/ Rotate(n)
        PROVE  JobOfRev'
    BY <1>2, <1>8 DEF WriteOwn, WriteFromSocket, Truncate, Rotate, walk
  <1>9. UNCHANGED vars => JobOfRev'
    BY <1>2 DEF vars, walk
  <1> QED
    BY <1>3, <1>4, <1>5, <1>6, <1>7, <1>8, <1>9 DEF Next, ServiceStep

(* Only the range service moves the position of a file that is not of the  *)
(* running revision.                                                       *)
LEMMA PosOfOthers ==
  ASSUME TypeInv, Apart, JobOfRev, [Next]_vars, NEW f \in Files, f[1] # cur
  PROVE  \/ pos'[f] = pos[f]
         \/ /\ EmptyLine("range") \/ SavePosition("range")
            /\ job["range"].file = f
  <1>1. pos \in [Files -> Nat]
    BY DEF TypeInv, TypeOK
  <1>2. ASSUME NEW s \in Services, EmptyLine(s) \/ SavePosition(s), job[s].file # f
        PROVE  pos'[f] = pos[f]
    BY <1>1, <1>2 DEF EmptyLine, SavePosition
  <1>3. ASSUME NEW s \in Services, s # "range", EmptyLine(s) \/ SavePosition(s)
        PROVE  job[s].file # f
    <2>1. s = "push" /\ pc[s] \in Working
      BY <1>3 DEF EmptyLine, SavePosition, Services, Working
    <2>2. rev["push"] = cur /\ job["push"].file[1] = rev["push"]
      BY <2>1 DEF Apart, JobOfRev, Services
    <2> QED
      BY <2>1, <2>2
  <1>4. ASSUME NEW n \in Names, Rotate(n) PROVE pos'[f] = pos[f]
    <2>1. f # <<cur, n>>
      OBVIOUS
    <2> QED
      BY <1>1, <1>4, <2>1 DEF Rotate
  <1>5. CASE UNCHANGED pos
    BY <1>5
  <1> QED
    BY <1>2, <1>3, <1>4, <1>5 DEF Next, ServiceStep, WriteOwn, WriteFromSocket, Truncate, Start,
       Avoid, Exit, PushRevision, Pushed, NoConnection, ReadFile, CutLine, Dump, CloseFile,
       MakeRequest, PostAccepted, PostFails, StopCloud, ChangeRevision, files, vars

(* RangePos is inductive: a line that is found ends its claim. *)
LEMMA RangePosStep == TypeInv /\ Apart /\ JobOfRev /\ RangePos /\ [Next]_vars => RangePos'
  <1> SUFFICES ASSUME TypeInv, Apart, JobOfRev, RangePos, [Next]_vars PROVE RangePos'
    OBVIOUS
  <1> DEFINE j == job["range"]
  <1>1. /\ "range" \in Services /\ pc \in [Services -> {"off", "walk", "files", "exit"} \cup Working]
        /\ job \in [Services -> Jobs] /\ pos \in [Files -> Nat]
    BY DEF TypeInv, TypeOK, Services
  <1>2. pc["range"] \in Working => j.file \in Files /\ j.file[1] # cur
    BY <1>1 DEF TypeInv, JobFits, JobOfRev, Apart
  <1>3. CASE /\ UNCHANGED j /\ ~EmptyLine("range") /\ ~SavePosition("range")
             /\ pc'["range"] \in Working => pc["range"] \in Working
    <2>1. pc["range"] \in Working => pos'[j.file] = pos[j.file]
      BY <1>2, <1>3, PosOfOthers
    <2> QED
      BY <1>3, <2>1 DEF RangePos
  <1>4. ASSUME NEW n \in Names, ReadFile("range", n) PROVE RangePos'
    <2>1. job'["range"].offset = 0
      BY <1>1, <1>4 DEF ReadFile, ReadJob
    <2> QED
      BY <2>1 DEF RangePos
  <1>5. CASE CutLine("range") \/ Dump("range")
    <2>1. PICK len \in Nat, text \in Nat \ {0} : job' = [job EXCEPT !["range"] = Cut(j, len, text)]
      <3>1. CASE CutLine("range")
        <4>1. PICK len \in 2..Buf : Take("range", len, len - 1)
          BY <3>1 DEF CutLine
        <4>2. len \in Nat /\ len - 1 \in Nat \ {0}
          BY Sizes
        <4> QED
          BY <4>1, <4>2 DEF Take
      <3>2. CASE Dump("range")
        BY <3>2, Sizes DEF Dump, Take
      <3> QED
        BY <1>5, <3>1, <3>2
    <2>2. job'["range"].frags = j.frags \cup {j.start + j.offset + k : k \in 1..text}
      BY <1>1, <2>1 DEF Cut, Jobs
    <2>3. j.start + j.offset + 1 \in job'["range"].frags
      <3>1. 1 \in 1..text
        BY <2>1
      <3> QED
        BY <2>2, <3>1
    <2> QED
      BY <2>3 DEF RangePos
  <1>6. CASE EmptyLine("range")
    <2>1. /\ j \in Jobs /\ job'["range"] = Cut(j, 1, 0) /\ j.file \in Files
          /\ pos'[j.file] = j.start + j.offset + 1
      BY <1>1, <1>2, <1>6 DEF EmptyLine, Take, Working
    <2>2. /\ Cut(j, 1, 0).file = j.file /\ Cut(j, 1, 0).start = j.start
          /\ Cut(j, 1, 0).offset = j.offset + 1
      BY <2>1 DEF Cut, Jobs
    <2>3. j.start + j.offset + 1 = j.start + (j.offset + 1)
      BY <2>1 DEF Jobs
    <2> QED
      BY <2>1, <2>2, <2>3 DEF RangePos
  <1>7. ASSUME \/ Start("range") \/ Avoid("range") \/ Exit("range") \/ Pushed("range")
               \/ PushRevision("range") \/ NoConnection("range") \/ PostFails("range")
               \/ CloseFile("range") \/ SavePosition("range") \/ StopCloud
               \/ \E r \in Revs : ChangeRevision(r)
        PROVE  RangePos'
    <2>1. pc'["range"] \in {"off", "walk", "files", "exit"}
      BY <1>1, <1>7 DEF Start, Avoid, Exit, Pushed, PushRevision, NoConnection, PostFails,
                        CloseFile, SavePosition, StopCloud, ChangeRevision, Killed
    <2> QED
      BY <2>1 DEF RangePos, Working
  <1>8. CASE MakeRequest("range") \/ PostAccepted("range")
    <2>1. UNCHANGED j /\ pc["range"] \in Working /\ ~EmptyLine("range") /\ ~SavePosition("range")
      <3>1. UNCHANGED j /\ pc["range"] \in Working
        BY <1>8 DEF MakeRequest, PostAccepted, Working
      <3>2. ~EmptyLine("range") /\ ~SavePosition("range")
        BY <1>1, <1>8 DEF MakeRequest, PostAccepted, EmptyLine, SavePosition, NewLines
      <3> QED
        BY <3>1, <3>2
    <2> QED
      BY <1>3, <2>1
  <1>9. ASSUME UNCHANGED <<pc["range"], j>>, ~EmptyLine("range"), ~SavePosition("range")
        PROVE  RangePos'
    BY <1>3, <1>9
  <1>10. ASSUME NEW s \in Services, s # "range", ServiceStep(s) \/ NoConnection(s) \/ PostFails(s)
         PROVE  UNCHANGED <<pc["range"], j>>
    BY <1>1, <1>10 DEF ServiceStep, Start, Avoid, Exit, PushRevision, Pushed, NoConnection, ReadFile,
       CutLine, EmptyLine, Dump, CloseFile, MakeRequest, PostAccepted, PostFails, SavePosition, Take
  <1>11. ASSUME NEW n \in Names,
                \/ \E c \in {"x", "n"} : WriteOwn(n, c)
                \/ \E text \in 1..MaxLine, ends \in {1, 2} : WriteFromSocket(n, text, ends)
                \/ Truncate(n)
                \/ Rotate(n)
         PROVE  UNCHANGED <<pc["range"], j>>
    BY <1>11 DEF WriteOwn, WriteFromSocket, Truncate, Rotate
  <1>12. UNCHANGED vars => UNCHANGED <<pc["range"], j>>
    BY DEF vars
  <1> QED
    BY <1>4, <1>5, <1>6, <1>7, <1>8, <1>9, <1>10, <1>11, <1>12 DEF Next, ServiceStep

(* What is all sent stays so. *)
LEMMA AllSentStays ==
  ASSUME TypeInv, [Next]_vars, NEW f \in Files, f[1] # cur, AllSent(f), pos'[f] = pos[f]
  PROVE  AllSent(f)'
  <1>1. sent[f] \subseteq sent'[f] /\ log'[f] = log[f] /\ gen'[f] = gen[f]
    BY FilesOfOthers
  <1> QED
    BY <1>1 DEF AllSent, LinesFit, Complete, Sent, WaitsBehindEmptyLine

(* The range service stays with its revision and its job, or with a job on *)
(* the same buffer; it may look at one more file.                          *)
LEMMA RangeStays ==
  ASSUME TypeInv, Apart, JobOfRev, RangeInv, [Next]_vars,
         RangeBusy, rev'["range"] = rev["range"], todo'["range"] = todo["range"],
         result'["range"] = result["range"] \/ result'["range"] = 1,
         \/ pc'["range"] \in Working /\ pc["range"] \in Working
         \/ pc'["range"] = "files" /\ pc["range"] = "files",
         pc["range"] \in Working => /\ job'["range"].file = job["range"].file
                                    /\ job'["range"].start = job["range"].start
                                    /\ job'["range"].buf = job["range"].buf
  PROVE  RangeInv'
  <1>1. /\ rev["range"] # cur /\ "range" \in Services /\ rev["range"] \in Revs
        /\ result["range"] \in {0, 1} /\ Listed \subseteq Names
    BY DEF Apart, RangeBusy, Services, TypeInv, TypeOK, RevFits, Listed
  <1>2. \A n \in Listed : <<rev["range"], n>> \in Files /\ <<rev["range"], n>>[1] # cur
    BY <1>1 DEF Files
  <1>3. ASSUME NEW n \in Listed, AllSent(<<rev["range"], n>>),
               ~(pc["range"] \in Working /\ job["range"].file = <<rev["range"], n>>)
        PROVE  AllSent(<<rev["range"], n>>)'
    <2>1. EmptyLine("range") \/ SavePosition("range") => pc["range"] \in Working
      BY DEF EmptyLine, SavePosition, Working
    <2>2. PICK f \in Files : f = <<rev["range"], n>> /\ f[1] # cur
      BY <1>2
    <2>3. pos'[f] = pos[f]
      BY <1>3, <2>1, <2>2, PosOfOthers
    <2>4. AllSent(f)'
      BY <1>3, <2>2, <2>3, AllSentStays
    <2> QED
      BY <2>2, <2>4
  <1>4. \A n \in Listed : LET f == <<rev["range"], n>> IN log'[f] = log[f] /\ gen'[f] = gen[f]
    BY <1>2, FilesOfOthers
  <1>5. result'["range"] = 0 => result["range"] = 0
    BY <1>1
  <1>6. ASSUME pc'["range"] \in Working
        PROVE  /\ \E n \in Listed \ todo["range"] : job'["range"].file = <<rev["range"], n>>
               /\ LET j == job'["range"] IN
                     Len(j.buf) < Buf /\ gen'[j.file] = 0
                        => j.start + Len(j.buf) = Len(log'[j.file])
    <2>1. pc["range"] \in Working
      BY <1>6 DEF Working
    <2>2. PICK n \in Listed \ todo["range"] : job["range"].file = <<rev["range"], n>>
      BY <2>1 DEF RangeInv
    <2>3. LET j == job["range"] IN
             Len(j.buf) < Buf /\ gen[j.file] = 0 => j.start + Len(j.buf) = Len(log[j.file])
      BY <2>1 DEF RangeInv
    <2>4. /\ log'[job["range"].file] = log[job["range"].file]
          /\ gen'[job["range"].file] = gen[job["range"].file]
      BY <1>4, <2>2
    <2> QED
      BY <2>1, <2>2, <2>3, <2>4
  <1>7. ASSUME result'["range"] = 0, NEW n \in Listed \ todo["range"]
        PROVE  \/ pc'["range"] \in Working /\ job'["range"].file = <<rev["range"], n>>
               \/ AllSent(<<rev["range"], n>>)'
    <2>1. CASE pc["range"] \in Working /\ job["range"].file = <<rev["range"], n>>
      BY <2>1 DEF Working
    <2>2. CASE /\ AllSent(<<rev["range"], n>>)
               /\ ~(pc["range"] \in Working /\ job["range"].file = <<rev["range"], n>>)
      BY <1>3, <2>2
    <2> QED
      BY <1>5, <1>7, <2>1, <2>2 DEF RangeInv
  <1>8. todo'["range"] \subseteq Listed
    BY DEF RangeInv
  <1> QED
    BY <1>6, <1>7, <1>8 DEF RangeInv

(* The range service reads the rest of a file, as far as the buffer takes  *)
(* it.                                                                     *)
LEMMA RangeReads ==
  ASSUME TypeInv, Apart, RangeInv, [Next]_vars, NEW n \in Names, ReadFile("range", n)
  PROVE  RangeInv'
  <1> USE Sizes
  <1>1. /\ "range" \in Services /\ pc["range"] = "files" /\ RangeBusy
    BY DEF ReadFile, RangeBusy, Services
  <1>2. /\ rev["range"] # cur /\ rev["range"] \in Revs
        /\ result["range"] \in {0, 1} /\ todo["range"] \subseteq Listed /\ Listed \subseteq Names
    BY <1>1 DEF Apart, RangeBusy, TypeInv, TypeOK, RevFits, Listed, RangeInv
  <1> PICK f \in Files : f = <<rev["range"], n>>
    BY <1>2 DEF Files
  <1>3. /\ todo'["range"] = todo["range"] \ {n} /\ n \in todo["range"]
        /\ rev'["range"] = rev["range"] /\ result'["range"] = result["range"]
        /\ job'["range"] = ReadJob(f) /\ UNCHANGED <<log, gen, pos>>
    BY <1>1 DEF ReadFile, files, TypeInv, TypeOK
  <1>4. ReadJob(f).file = f /\ n \in Listed \ todo'["range"]
    BY <1>2, <1>3 DEF ReadJob
  <1>5. ASSUME Len(ReadJob(f).buf) < Buf
        PROVE  ReadJob(f).start + Len(ReadJob(f).buf) = Len(log[f])
    <2>1. pos[f] \in Nat /\ Len(log[f]) \in Nat
      <3>1. log[f] \in Seq({"x", "n"}) /\ pos[f] \in Nat
        BY DEF TypeInv, TypeOK
      <3> QED
        BY <3>1
    <2>2. /\ ReadStart(f) \in Nat /\ ReadEnd(f) \in Nat
          /\ Len(ReadJob(f).buf) = ReadEnd(f) - ReadStart(f)
      BY ReadFits
    <2>3. ReadJob(f).start = ReadStart(f)
      BY DEF ReadJob
    <2>4. ReadEnd(f) # ReadStart(f) + Buf
      BY <1>5, <2>2
    <2>5. ReadEnd(f) = Len(log[f])
      BY <2>4 DEF ReadEnd
    <2> QED
      BY <2>1, <2>2, <2>3, <2>5
  <1>6. ASSUME result["range"] = 0, NEW m \in Listed \ todo'["range"], m # n
        PROVE  AllSent(<<rev["range"], m>>)'
    <2>1. AllSent(<<rev["range"], m>>)
      BY <1>1, <1>3, <1>6 DEF RangeInv, Working
    <2>2. <<rev["range"], m>> \in Files /\ <<rev["range"], m>>[1] # cur
      BY <1>2 DEF Files
    <2> QED
      BY <1>3, <2>1, <2>2, AllSentStays
  <1>7. pc'["range"] \in Working
    BY <1>1 DEF ReadFile, TypeInv, TypeOK, Working
  <1>8. todo'["range"] \subseteq Listed
    BY <1>2, <1>3
  <1> QED
    BY <1>3, <1>4, <1>5, <1>6, <1>7, <1>8 DEF RangeInv

(* A file is closed when the buffer was not full and either held no end of *)
(* line, so it was the rest of the file and part of one line, or began     *)
(* with empty lines, and the position is behind them.                      *)
LEMMA RangeCloses ==
  ASSUME TypeInv, Apart, SavedInv, LineInv, RangePos, RangeInv, [Next]_vars, CloseFile("range")
  PROVE  RangeInv'
  <1> USE Sizes
  <1>1. /\ "range" \in Services /\ pc["range"] = "scan" /\ RangeBusy /\ pc["range"] \in Working
    BY DEF CloseFile, RangeBusy, Services, Working
  <1>2. /\ rev["range"] # cur /\ rev["range"] \in Revs
        /\ todo["range"] \subseteq Listed /\ Listed \subseteq Names
    BY <1>1 DEF Apart, RangeBusy, TypeInv, RevFits, Listed, RangeInv
  <1>3. PICK n \in Listed \ todo["range"] : job["range"].file = <<rev["range"], n>>
    BY <1>1 DEF RangeInv
  <1>4. PICK j \in Jobs, f \in Files : j = job["range"] /\ f = j.file
    BY <1>1 DEF TypeInv, TypeOK, JobFits
  <1>5. UNCHANGED <<log, gen, pos, sent, rev, todo, result>> /\ pc'["range"] = "files"
    BY <1>1 DEF CloseFile, files, walk, TypeInv, TypeOK
  <1>6. AllSent(f)
    <2> SUFFICES ASSUME gen[f] = 0, LinesFit(f), NEW i \in 1..Len(log[f]), Complete(f, i)
                 PROVE  Gone(log[f], sent[f], i) \/ WaitsBehindEmptyLine(f, i)
      BY DEF AllSent, Sent, Gone
    <2>1. /\ j.start \in Nat /\ j.offset \in Nat /\ Len(j.buf) \in Nat /\ Len(j.buf) <= Buf
          /\ Len(log[f]) \in Nat
      <3>1. log[f] \in Seq({"x", "n"})
        BY DEF TypeInv, TypeOK
      <3>2. Len(j.buf) <= Buf
        BY <1>1, <1>4 DEF TypeInv, JobFits
      <3> QED
        BY <3>1, <3>2 DEF Jobs
    <2>2. /\ \A k \in 1..Len(j.buf) : j.buf[k] = log[f][j.start + k]
          /\ \A k \in 1..j.start : log[f][k] = "x" => Gone(log[f], sent[f], k)
          /\ \A k \in 1..j.offset : j.buf[k] = "x" => j.start + k \in j.frags
          /\ j.offset <= Len(j.buf)
      BY <1>1, <1>4 DEF SavedInv, JobSent, Kept
    <2>3. j.frags = {} /\ log[f][i] = "x"
      BY <1>4 DEF CloseFile, Complete
    <2>4. CASE i <= j.start
      <3>1. i \in 1..j.start
        BY <2>1, <2>4
      <3> QED
        BY <2>2, <2>3, <3>1
    <2>5. CASE i > j.start /\ j.offset > 0
      <3>1. pos[f] = j.start + j.offset
        BY <1>1, <1>4, <2>3, <2>5 DEF RangePos
      <3>2. EmptyLineAt(log[f], j.start + j.offset)
        <4>1. JobAtLine("range")
          BY <1>1 DEF LineInv
        <4>2. \/ j.offset = 0 /\ j.left = Len(j.buf)
              \/ j.offset > 0 /\ EmptyLineAt(log[f], j.start + j.offset)
          BY <1>1, <1>4, <2>3, <4>1 DEF JobAtLine
        <4> QED
          BY <2>1, <2>5, <4>2
      <3>3. ~(i <= j.start + j.offset)
        <4> SUFFICES ASSUME i <= j.start + j.offset PROVE FALSE
          OBVIOUS
        <4>1. i - j.start \in 1..j.offset /\ i - j.start \in 1..Len(j.buf)
          BY <2>1, <2>2, <2>5
        <4>2. j.start + (i - j.start) = i
          BY <2>1
        <4> QED
          BY <2>2, <2>3, <4>1, <4>2
      <3>4. i > pos[f]
        BY <2>1, <3>1, <3>3
      <3> QED
        BY <3>1, <3>2, <3>4 DEF WaitsBehindEmptyLine
    <2>6. CASE i > j.start /\ j.offset = 0
      <3>1. j.left = Len(j.buf)
        BY <1>1, <1>4, <2>3, <2>6 DEF LineInv, JobAtLine
      <3>2. \A k \in 1..Len(j.buf) : j.buf[k] # "n"
        <4>1. \A k \in 1..j.left : j.buf[j.offset + k] # "n"
          BY <1>4 DEF CloseFile, NewLines
        <4> QED
          BY <2>6, <3>1, <4>1
      <3>3. Len(j.buf) < Buf
        BY <1>4, <2>1, <3>1 DEF CloseFile
      <3>4. j.start + Len(j.buf) = Len(log[f])
        BY <1>1, <1>4, <3>3 DEF RangeInv
      <3>5. PICK k \in i..Len(log[f]) : log[f][k] = "n"
        BY DEF Complete
      <3>6. k - j.start \in 1..Len(j.buf) /\ j.start + (k - j.start) = k
        <4>1. /\ j.start \in Nat /\ Len(j.buf) \in Nat /\ Len(log[f]) = j.start + Len(j.buf)
              /\ i > j.start
          BY <2>1, <2>6, <3>4
        <4>2. k \in Int /\ i \in Int /\ k >= i /\ k <= Len(log[f])
          BY <2>1, <3>5
        <4> QED
          BY <4>1, <4>2
      <3> QED
        BY <2>2, <3>2, <3>5, <3>6
    <2> QED
      BY <2>1, <2>4, <2>5, <2>6
  <1>7. ASSUME result["range"] = 0, NEW m \in Listed \ todo["range"]
        PROVE  AllSent(<<rev["range"], m>>)'
    <2>1. AllSent(<<rev["range"], m>>)
      BY <1>1, <1>4, <1>6, <1>7 DEF RangeInv
    <2>2. <<rev["range"], m>> \in Files /\ <<rev["range"], m>>[1] # cur
      BY <1>2 DEF Files
    <2>3. rev'["range"] = rev["range"] /\ UNCHANGED pos
      BY <1>5
    <2>4. PICK g \in Files : g = <<rev["range"], m>>
      BY <2>2
    <2>5. AllSent(g)'
      BY <2>1, <2>2, <2>3, <2>4, AllSentStays
    <2> QED
      BY <2>3, <2>4, <2>5
  <1> QED
    BY <1>2, <1>5, <1>7 DEF RangeInv, Working

(* RangeInv is inductive: apart from reading and closing a file, the range *)
(* service stays where it is or turns to no file at all.                   *)
LEMMA RangeStep ==
  ASSUME TypeInv, Apart, SavedInv, LineInv, JobOfRev, RangePos, RangeInv, [Next]_vars
  PROVE  RangeInv'
  <1> SUFFICES ASSUME RangeBusy'
               PROVE  RangeInv'
    BY DEF RangeInv
  <1>1. /\ "range" \in Services /\ pc \in [Services -> {"off", "walk", "files", "exit"} \cup Working]
        /\ job \in [Services -> Jobs] /\ rev \in [Services -> -1..N]
        /\ todo \in [Services -> SUBSET Names] /\ result \in [Services -> {0, 1}]
    BY DEF TypeInv, TypeOK, Services
  <1>2. CASE UNCHANGED <<pc["range"], rev["range"], todo["range"], result["range"], job["range"]>>
    <2>1. RangeBusy
      BY <1>2 DEF RangeBusy
    <2>2. \/ pc'["range"] \in Working /\ pc["range"] \in Working
          \/ pc'["range"] = "files" /\ pc["range"] = "files"
      BY <1>2, <2>1 DEF RangeBusy
    <2> QED
      BY <1>2, <2>1, <2>2, RangeStays
  <1>3. ASSUME NEW n \in Names,
               \/ \E c \in {"x", "n"} : WriteOwn(n, c)
               \/ \E text \in 1..MaxLine, ends \in {1, 2} : WriteFromSocket(n, text, ends)
               \/ Truncate(n)
               \/ Rotate(n)
        PROVE  RangeInv'
    BY <1>2, <1>3 DEF WriteOwn, WriteFromSocket, Truncate, Rotate, walk
  <1>4. ASSUME NEW s \in Services, s # "range", ServiceStep(s) \/ NoConnection(s) \/ PostFails(s)
        PROVE  RangeInv'
    <2>1. /\ pc'["range"] = pc["range"] /\ rev'["range"] = rev["range"]
          /\ todo'["range"] = todo["range"] /\ result'["range"] = result["range"]
      BY <1>1, <1>4 DEF ServiceStep, Start, Avoid, Exit, PushRevision, Pushed, NoConnection, ReadFile,
         CutLine, EmptyLine, Dump, CloseFile, MakeRequest, PostAccepted, PostFails, SavePosition, walk
    <2>2. job'["range"] = job["range"]
      BY <1>1, <1>4 DEF ServiceStep, Start, Avoid, Exit, PushRevision, Pushed, NoConnection, ReadFile,
         CutLine, EmptyLine, Dump, CloseFile, MakeRequest, PostAccepted, PostFails, SavePosition, Take
    <2> QED
      BY <1>2, <2>1, <2>2
  <1>5. ASSUME \/ Start("range") \/ Avoid("range") \/ Exit("range") \/ Pushed("range")
               \/ NoConnection("range") \/ PostFails("range") \/ StopCloud
               \/ \E r \in Revs : ChangeRevision(r)
        PROVE  FALSE
    <2>1. pc'["range"] \in {"off", "walk", "exit"}
      BY <1>1, <1>5 DEF Start, Avoid, Exit, Pushed, NoConnection, PostFails, StopCloud,
                        ChangeRevision, Killed
    <2> QED
      BY <2>1 DEF RangeBusy, Working
  <1>6. CASE PushRevision("range")
    <2>1. todo'["range"] = Listed /\ pc'["range"] = "files"
      BY <1>1, <1>6 DEF PushRevision
    <2> QED
      BY <2>1 DEF RangeInv, Working
  <1>7. CASE \E n \in Names : ReadFile("range", n)
    BY <1>7, RangeReads
  <1>8. CASE CloseFile("range")
    BY <1>8, RangeCloses
  <1>9. CASE \/ CutLine("range") \/ EmptyLine("range") \/ Dump("range")
             \/ MakeRequest("range") \/ PostAccepted("range")
    <2>1. /\ pc["range"] \in Working /\ pc'["range"] \in Working
          /\ rev'["range"] = rev["range"] /\ todo'["range"] = todo["range"]
          /\ result'["range"] = result["range"]
      BY <1>1, <1>9 DEF CutLine, EmptyLine, Dump, MakeRequest, PostAccepted, walk, Working
    <2>2. /\ job'["range"].file = job["range"].file
          /\ job'["range"].start = job["range"].start
          /\ job'["range"].buf = job["range"].buf
      <3>1. CASE CutLine("range") \/ EmptyLine("range") \/ Dump("range")
        <4>1. PICK len \in 1..job["range"].left, text \in Nat :
                 job' = [job EXCEPT !["range"] = Cut(job["range"], len, text)]
          BY <1>1, <3>1, TypeScan
        <4> QED
          BY <1>1, <4>1 DEF Cut, Jobs
      <3>2. CASE MakeRequest("range") \/ PostAccepted("range")
        BY <3>2 DEF MakeRequest, PostAccepted
      <3> QED
        BY <1>9, <3>1, <3>2
    <2> QED
      BY <2>1, <2>2, RangeStays DEF RangeBusy
  <1>10. CASE SavePosition("range")
    <2>1. /\ pc["range"] \in Working /\ pc'["range"] = "files" /\ result'["range"] = 1
          /\ todo'["range"] = todo["range"]
      BY <1>1, <1>10 DEF SavePosition, Working
    <2>2. todo["range"] \subseteq Listed
      BY <2>1 DEF RangeInv, RangeBusy
    <2> QED
      BY <2>1, <2>2 DEF RangeInv, Working
  <1>11. CASE UNCHANGED vars
    BY <1>2, <1>11 DEF vars, walk
  <1> QED
    BY <1>3, <1>4, <1>5, <1>6, <1>7, <1>8, <1>9, <1>10, <1>11 DEF Next, ServiceStep

(* When the range service goes on to the previous revision, every complete *)
(* line of the one it leaves has been accepted, in files that were not     *)
(* emptied and have no line that fills the buffer, but for lines that an   *)
(* empty line overtook or that wait behind one.                            *)
THEOREM RangeCorrect == Spec => RangeLeavesNothing
  <1> DEFINE Inv == TypeInv /\ Apart /\ SavedInv /\ LineInv /\ JobOfRev /\ RangePos /\ RangeInv
             Leaves == pc["range"] = "files" /\ pc'["range"] = "walk" /\ rev'["range"] = rev["range"] - 1
             AllGone == \A n \in Listed : AllSent(<<rev["range"], n>>)
  <1>1. Init => Inv
    <2> SUFFICES ASSUME Init PROVE Inv
      OBVIOUS
    <2>1. Apart
      BY DEF Init, Apart, Services, Working
    <2>2. SavedInv
      BY DEF Init, SavedInv, PosSent, JobSent, Working, Services
    <2>3. LineInv
      BY DEF Init, LineInv, PosAtLine, JobAtLine, LineStart, Working, Services
    <2>4. RangeInv
      BY DEF Init, RangeInv, RangeBusy, Working, Services
    <2>5. JobOfRev /\ RangePos
      BY DEF Init, JobOfRev, RangePos, Working, Services
    <2> QED
      BY <2>1, <2>2, <2>3, <2>4, <2>5, TypeInit
  <1>2. Inv /\ [Next]_vars => Inv'
    BY TypeStep, ApartStep, SavedStep, LineStep, JobOfRevStep, RangePosStep, RangeStep
  <1>3. Inv /\ [Next]_vars => (Leaves => AllGone)
    <2> SUFFICES ASSUME Inv, [Next]_vars, Leaves PROVE AllGone
      OBVIOUS
    <2>1. /\ "range" \in Services /\ pc \in [Services -> {"off", "walk", "files", "exit"} \cup Working]
          /\ rev \in [Services -> -1..N] /\ rev["range"] \in Int
      BY DEF TypeInv, TypeOK, Services
    <2>2. Pushed("range")
      <3>1. ASSUME NEW s \in Services, s # "range", ServiceStep(s) \/ NoConnection(s) \/ PostFails(s)
            PROVE  pc'["range"] = pc["range"]
        BY <2>1, <3>1 DEF ServiceStep, Start, Avoid, Exit, PushRevision, Pushed, NoConnection,
           ReadFile, CutLine, EmptyLine, Dump, CloseFile, MakeRequest, PostAccepted, PostFails,
           SavePosition
      <3>2. ASSUME \/ StopCloud \/ \E r \in Revs : ChangeRevision(r)
            PROVE  pc'["range"] = "off"
        BY <2>1, <3>2 DEF StopCloud, ChangeRevision, Killed
      <3>3. ASSUME NEW n \in Names,
                   \/ \E c \in {"x", "n"} : WriteOwn(n, c)
                   \/ \E text \in 1..MaxLine, ends \in {1, 2} : WriteFromSocket(n, text, ends)
                   \/ Truncate(n)
                   \/ Rotate(n)
            PROVE  pc' = pc
        BY <3>3 DEF WriteOwn, WriteFromSocket, Truncate, Rotate
      <3>4. ASSUME \/ Start("range") \/ Avoid("range") \/ Exit("range")
                   \/ CutLine("range") \/ EmptyLine("range") \/ Dump("range") \/ CloseFile("range")
                   \/ MakeRequest("range") \/ PostAccepted("range") \/ SavePosition("range")
                   \/ PostFails("range") \/ PushRevision("range")
            PROVE  pc["range"] # "files"
        BY <3>4 DEF Start, Avoid, Exit, CutLine, EmptyLine, Dump, CloseFile, MakeRequest,
                    PostAccepted, SavePosition, PostFails, PushRevision
      <3>5. ASSUME \E n \in Names : ReadFile("range", n)
            PROVE  pc'["range"] = "scan"
        BY <2>1, <3>5 DEF ReadFile
      <3>6. ASSUME NoConnection("range")
            PROVE  rev'["range"] = rev["range"]
        BY <3>6 DEF NoConnection, walk
      <3>7. UNCHANGED vars => pc' = pc
        BY DEF vars
      <3> QED
        BY <2>1, <3>1, <3>2, <3>3, <3>4, <3>5, <3>6, <3>7 DEF Next, ServiceStep
    <2>3. todo["range"] = {} /\ result["range"] = 0
      BY <2>1, <2>2 DEF Pushed
    <2> QED
      BY <2>3 DEF RangeInv, RangeBusy, Working
  <1>4. Inv /\ [Next]_vars =>
          [LET r == rev["range"] IN
           (pc["range"] = "files" /\ pc'["range"] = "walk" /\ rev'["range"] = r - 1) =>
              \A n \in Listed : LET f == <<r, n>> IN
                  gen[f] = 0 /\ LinesFit(f) =>
                      \A i \in 1..Len(log[f]) : Complete(f, i) =>
                          \/ Sent(f, i)
                          \/ Overtaken(log[f], i)
                          \/ WaitsBehindEmptyLine(f, i)]_vars
    BY <1>3 DEF AllSent
  <1> HIDE DEF Inv
  <1> QED
    BY <1>1, <1>2, <1>4, PTL DEF Spec, RangeLeavesNothing
==============================================================================

------------------------ MODULE SubmissionOnceProofs -------------------------
(***************************************************************************)
(* Proof that no message is in the queue twice, as long as nothing fails:  *)
(* the part of QueueIsClean that is about runs without a fault.            *)
(***************************************************************************)
EXTENDS SubmissionProofs

-----------------------------------------------------------------------------
(***************************************************************************)
(* Without a fault no message is in the queue twice.                       *)
(***************************************************************************)
\* pickup is copying d into file i.
Copies(i, d) == pick.d = d /\ pick.p # NoProc /\ proc[pick.p].id = i

\* pickup is done with d.
Settled(d) == drop[d].loc = "removed" \/ (pick.phase = "remove" /\ pick.d = d)

\* The process that copies d is giving up its file, and will say that this is
\* as it should be.
Withdrawn(q) == /\ q.phase \in {"cancel", "answer", "answered"}
                /\ q.errs = {} /\ "DISCARD" \in q.flags

\* A local message is in one file at most: the one that pickup's process is
\* writing, or one that was accepted.  It is returned to its sender only by a
\* process that gives up its file.
OnceOK(d) ==
    /\ ~drop[d].torn
    /\ pick.phase # "idle" /\ pick.d = d => drop[d].loc = "maildrop"
    /\ \A i \in File : Carries(i, d) =>
          \/ Copies(i, d)
          \/ Settled(d) /\ file[i].ready /\ \A p \in Proc : proc[p].id # i
    /\ \A i, j \in File : Carries(i, d) /\ Carries(j, d) => i = j
    /\ d \in bounced =>
          \/ Settled(d) /\ \A i \in File : ~Carries(i, d)
          \/ pick.d = d /\ pick.p # NoProc /\ Withdrawn(proc[pick.p])

\* Nobody dies, a file that is canceled has not been made visible, and what
\* was not accepted is gone when the client is told so.
CancelOK(p) ==
    LET q == proc[p]
        F == file[q.id]
    IN  /\ q.phase # "dead"
        /\ q.phase = "cancel" => F.loc \in {"incoming", "hold"} /\ ~F.ready
        /\ q.phase \in {"answer", "answered"} /\ ~Commits(q) => F.loc = "removed"

\* The inductive invariant of the runs without a fault, next to IInv.
CleanInv ==
    left.clean => /\ \A p \in Proc : CancelOK(p)
                  /\ \A d \in Drop : OnceOK(d)

-----------------------------------------------------------------------------
\* A step that is not a fault.
LEMMA NoFaultYet ==
    ASSUME left \in SetupType, left'.clean
    PROVE  /\ ~Spend("fault")
           /\ UNCHANGED left \/ Spend("verdict") \/ Spend("mail") \/ Spend("drop") => left.clean
<1>1. ASSUME NEW what \in {"fault", "verdict", "mail", "drop"}, Spend(what)
      PROVE  left.clean /\ what # "fault"
  <2>1. PICK b \in BOOLEAN : b = (left.clean /\ what # "fault")
    BY Zenon
  <2>2. PICK n : n = left[what] - 1
    OBVIOUS
  <2>3. left' = [left EXCEPT ![what] = n, !.clean = b]
    BY <1>1, <2>1, <2>2, Zenon DEF Spend
  <2>4. left'.clean = b
    BY <2>3 DEF SetupType
  <2> QED
    BY <2>1, <2>4, Zenon
<1>2. /\ "fault" \in {"fault", "verdict", "mail", "drop"} /\ "verdict" \in {"fault", "verdict", "mail", "drop"}
      /\ "mail" \in {"fault", "verdict", "mail", "drop"} /\ "drop" \in {"fault", "verdict", "mail", "drop"}
  OBVIOUS
<1>3. UNCHANGED left => left.clean
  OBVIOUS
<1> QED
  BY <1>1, <1>2, <1>3, Zenon

\* What the invariants say in a run without a fault.
LEMMA CleanFacts ==
    ASSUME IInv, CleanInv, left.clean
    PROVE  /\ \A p \in Proc : CancelOK(p)
           /\ \A d \in Drop : OnceOK(d)
           /\ OwnFile /\ \A p \in Proc : ProcOK(p)
           /\ \A i \in File : FileOK(i)
           /\ proc \in [Proc -> ProcType] /\ file \in [File -> FileType]
           /\ left \in SetupType /\ bounced \subseteq Drop
           /\ NoFile \notin File /\ NoProc \notin Proc
           /\ Drop \subseteq Msg /\ Mail \subseteq Msg /\ Mail \cap Drop = {} /\ NoMsg \notin Msg
BY SessFacts, Numbers DEF IInv, CleanInv, MailOK, File, NoFile

\* While pickup has a process, that is one which answers to it.
LEMMA PickHas ==
    ASSUME IInv
    PROVE  /\ pick.p # NoProc <=> pick.phase \in {"copy", "rest", "wait"}
           /\ pick.p # NoProc => /\ pick.p \in Proc /\ pick.d \in Drop
                                 /\ ~proc[pick.p].eof /\ proc[pick.p].phase # "idle"
                                 /\ pick.p # sess.cleanup
<1>1. /\ pick.phase \in {"idle", "copy", "rest", "wait", "remove"}
      /\ pick.phase = "idle" => pick.p = NoProc
  BY SessFacts DEF PickupTypeOK, PickType, IInv, PickOK, PickIdle
<1>2. pick.phase \in {"copy", "rest", "wait"} =>
         /\ pick.p \in Proc /\ pick.p # NoProc /\ pick.d \in Drop
         /\ ~proc[pick.p].eof /\ proc[pick.p].phase # "idle" /\ pick.p # sess.cleanup
  BY PickFacts DEF Serves
<1>3. pick.phase = "remove" => pick.p = NoProc
  BY PickFacts
<1> QED
  BY <1>1, <1>2, <1>3

-----------------------------------------------------------------------------
(***************************************************************************)
(* The steps of cleanup.                                                   *)
(***************************************************************************)
\* Process p, with file id, goes on as q, and no other file changes.
LEMMA CleanupOnce ==
    ASSUME IInv, CleanInv, left.clean, UNCHANGED <<smtpdVars, pickupVars>>,
           NEW p \in Proc, proc[p].phase \in Running, NEW id \in File, proc[p].id = id,
           NEW q, proc' = [proc EXCEPT ![p] = q],
           \A i \in File : i # id => file'[i] = file[i],
           q.id = id \/ (q = IdleProc /\ proc[p].eof),
           q.id = id /\ Withdrawn(proc[p]) => Withdrawn(q),
           \A d \in Drop : Carries(id, d)' => Carries(id, d),
           \/ bounced' = bounced
           \/ /\ bounced' = bounced \cup {file[id].data.from}
              /\ file[id].data.from \in Drop /\ Withdrawn(q) /\ q.id = id,
           CancelOK(p)'
    PROVE  CleanInv'
<1>1. /\ \A r \in Proc : CancelOK(r)
      /\ \A d \in Drop : OnceOK(d)
      /\ OwnFile /\ \A r \in Proc : ProcOK(r)
      /\ proc \in [Proc -> ProcType] /\ file \in [File -> FileType]
      /\ NoFile \notin File
  BY CleanFacts
<1>2. /\ proc'[p] = q /\ \A r \in Proc : r # p => proc'[r] = proc[r]
      /\ \A i \in File : i # id => file'[i] = file[i]
      /\ pick' = pick /\ drop' = drop /\ File' = File
  BY <1>1 DEF pickupVars, File
<1>3. \A r \in Proc : r # p => proc[r].id # id
  BY <1>1 DEF OwnFile
<1>4. \A r \in Proc : proc'[r].id = proc[r].id \/ (r = p /\ proc'[r] = IdleProc /\ proc[p].eof)
  BY <1>2
<1>5. IdleProc.id = NoFile /\ IdleProc.phase = "idle"
  BY EmptyTypes
<1>6. ASSUME NEW r \in Proc
      PROVE  CancelOK(r)'
  <2>1. CASE r = p
    BY <2>1
  <2>2. CASE r # p /\ proc[r].id \in File
    <3>1. proc'[r] = proc[r] /\ file'[proc[r].id] = file[proc[r].id] /\ CancelOK(r)
      BY <1>1, <1>2, <1>3, <2>2
    <3> QED
      BY <3>1 DEF CancelOK, Commits
  <2>3. CASE r # p /\ proc[r].id \notin File
    <3>1. proc'[r] = proc[r] /\ CancelOK(r) /\ ProcOK(r)
      BY <1>1, <1>2, <2>3
    <3>2. proc[r].phase \notin Running \cup {"answered"}
      BY <2>3, <3>1 DEF ProcOK
    <3> QED
      BY <3>1, <3>2 DEF CancelOK, Running
  <2> QED
    BY <2>1, <2>2, <2>3
<1>7. ASSUME NEW i \in File, NEW d \in Drop, Carries(i, d)'
      PROVE  Carries(i, d)
  <2>1. CASE i = id
    BY <1>7, <2>1
  <2>2. CASE i # id
    BY <1>2, <1>5, <1>7, <2>2 DEF Carries
  <2> QED
    BY <2>1, <2>2
<1>8. \A d \in Drop : Settled(d)' <=> Settled(d)
  BY <1>2 DEF Settled
<1>9. pick.p # NoProc => /\ pick.p \in Proc /\ proc'[pick.p].id = proc[pick.p].id
                         /\ Withdrawn(proc[pick.p]) => Withdrawn(proc'[pick.p])
  <2>1. pick.p # NoProc => pick.p \in Proc /\ ~proc[pick.p].eof
    BY PickHas
  <2>2. CASE pick.p = p
    BY <1>2, <1>4, <2>1, <2>2
  <2>3. CASE pick.p # p
    BY <1>2, <2>1, <2>3
  <2> QED
    BY <2>2, <2>3
<1>10. ASSUME NEW d \in Drop
       PROVE  OnceOK(d)'
  <2>1. OnceOK(d)
    BY <1>1
  <2>2. ~drop'[d].torn /\ (pick'.phase # "idle" /\ pick'.d = d => drop'[d].loc = "maildrop")
    BY <1>2, <2>1 DEF OnceOK
  <2>3. ASSUME NEW i \in File, Carries(i, d)'
        PROVE  \/ Copies(i, d)'
               \/ Settled(d)' /\ file'[i].ready /\ \A r \in Proc : proc'[r].id # i
    <3>1. CASE Copies(i, d)
      BY <1>2, <1>9, <3>1 DEF Copies
    <3>2. CASE Settled(d) /\ file[i].ready /\ \A r \in Proc : proc[r].id # i
      <4>1. i # id
        BY <3>2
      <4>2. \A r \in Proc : proc'[r].id # i
        BY <1>1, <1>4, <1>5, <3>2
      <4> QED
        BY <1>2, <1>8, <3>2, <4>1, <4>2
    <3> QED
      BY <1>7, <2>1, <2>3, <3>1, <3>2 DEF OnceOK
  <2>4. \A i, j \in File : Carries(i, d)' /\ Carries(j, d)' => i = j
    BY <1>7, <2>1 DEF OnceOK
  <2>5. ASSUME d \in bounced'
        PROVE  \/ Settled(d)' /\ \A i \in File : ~Carries(i, d)'
               \/ pick'.d = d /\ pick'.p # NoProc /\ Withdrawn(proc'[pick'.p])
    <3>1. CASE d \in bounced
      BY <1>2, <1>7, <1>8, <1>9, <2>1, <3>1 DEF OnceOK
    <3>2. CASE d \notin bounced
      <4>1. d = file[id].data.from /\ Withdrawn(q)
        BY <2>5, <3>2
      <4>2. Carries(id, d)
        BY <4>1 DEF Carries
      <4>3. Copies(id, d)
        BY <2>1, <4>2 DEF OnceOK
      <4>4. pick.d = d /\ pick.p # NoProc /\ pick.p = p
        BY <1>3, <1>9, <4>3 DEF Copies
      <4> QED
        BY <1>2, <4>1, <4>4
    <3> QED
      BY <3>1, <3>2
  <2> QED
    BY <1>2, <2>2, <2>3, <2>4, <2>5 DEF OnceOK
<1> QED
  BY <1>6, <1>10 DEF CleanInv

\* A process that has a message does not find the beginning of one.
LEMMA NotAgain ==
    ASSUME IInv', NEW p \in Proc, NEW i \in File, proc'[p].phase = "read", proc'[p].id = i,
           file'[i].data.from # NoMsg, proc'[p].pipe # <<>>
    PROVE  Head(proc'[p].pipe).type # "FROM"
<1>1. ProcOK(p)' /\ proc'[p] \in ProcType
  BY DEF IInv, TypeOK, CleanupTypeOK
<1>2. PICK T \in Plan : PlanOf(p, T)'
  BY <1>1 DEF ProcOK
<1>3. PICK q, d : q \in ProcType /\ q = proc'[p] /\ d = file'[i].data
  BY <1>1
<1>4. Reading(q, d, T)
  BY <1>2, <1>3 DEF PlanOf, Reading, Consumed
<1> QED
  BY <1>3, <1>4, ReadingCarries

\* Process p reads record r.
LEMMA ReadOnce ==
    ASSUME IInv, IInv', CleanInv, left.clean, UNCHANGED <<smtpdVars, pickupVars, bounced>>,
           NEW p \in Proc, proc[p].phase = "read", proc[p].pipe # <<>>,
           NEW id \in File, proc[p].id = id,
           NEW q \in ProcType, proc' = [proc EXCEPT ![p] = q],
           q.phase \in {"read", "drain", "flush"}, q.id = id,
           NEW F, file' = [file EXCEPT ![id] = F],
           F.data = Output(file[id].data, Head(proc[p].pipe))
    PROVE  CleanInv'
<1>1. proc[p].phase \in Running /\ proc \in [Proc -> ProcType] /\ file \in [File -> FileType] /\ OwnFile
      /\ \A r \in Proc : ProcOK(r)
  BY CleanFacts DEF Running
<1>2. /\ proc'[p] = q /\ file'[id] = F /\ \A r \in Proc : r # p => proc'[r] = proc[r]
  BY <1>1
<1>3. PICK T \in Plan : Carries(id, T.m) /\ F.data.from = T.m
  BY PlanToRead
<1>4. ASSUME NEW d \in Drop, Carries(id, d)'
      PROVE  Carries(id, d)
  <2>1. CASE file'[id].data.from = d
    BY <1>2, <1>3, <2>1
  <2>2. CASE file'[id].data.from # d
    <3>1. PICK r \in Proc : /\ proc'[r].phase = "read" /\ proc'[r].id = id /\ proc'[r].pipe # <<>>
                            /\ Head(proc'[r].pipe) = RecOf("FROM", d)
      BY <1>4, <2>2 DEF Carries
    <3>2. CASE r = p
      <4>1. file'[id].data.from # NoMsg
        BY <1>2, <1>3, PlanTypes
      <4>2. Head(proc'[r].pipe).type # "FROM"
        BY <3>1, <4>1, NotAgain
      <4> QED
        BY <3>1, <4>2 DEF RecOf
    <3>3. CASE r # p
      BY <1>1, <1>2, <3>1, <3>3 DEF OwnFile
    <3> QED
      BY <3>2, <3>3
  <2> QED
    BY <2>1, <2>2
<1>5. CancelOK(p)'
  BY <1>2 DEF CancelOK
<1>6. ~Withdrawn(proc[p])
  BY DEF Withdrawn
<1>7. UNCHANGED <<smtpdVars, pickupVars>> /\ bounced' = bounced
  OBVIOUS
<1> QED
  BY <1>1, <1>4, <1>5, <1>6, <1>7, CleanupOnce

LEMMA RecordOnce ==
    ASSUME IInv, IInv', CleanInv, left'.clean, UNCHANGED <<smtpdVars, pickupVars>>,
           NEW p \in Proc, CleanupRecord(p)
    PROVE  CleanInv'
<1>1. proc[p].phase = "read" /\ proc[p].pipe # <<>> /\ proc[p].phase \in Running
      /\ left' = left /\ bounced' = bounced
  BY DEF CleanupRecord, Running
<1>2. PICK id \in File :
        /\ proc[p].id = id
        /\ proc \in [Proc -> ProcType] /\ file \in [File -> FileType]
        /\ \A q : proc' = [proc EXCEPT ![p] = q] => proc'[p] = q
        /\ \A F : file' = [file EXCEPT ![id] = F] => file'[id] = F
  BY <1>1, ProcMoves
<1>3. PICK r : r = Head(proc[p].pipe)
  OBVIOUS
<1>4. ~Malformed(proc[p], file[id].data, r)
  BY <1>1, <1>2, <1>3, PlanToRead
<1>5. PICK q0, q, d, F :
        /\ q0 = Processed([proc[p] EXCEPT !.pipe = Tail(@)], r)
        /\ q = After(q0, r.type)
        /\ d = Output(file[id].data, r)
        /\ F = [file[id] EXCEPT !.data = d]
  OBVIOUS
<1>6. proc' = [proc EXCEPT ![p] = q] /\ file' = [file EXCEPT ![id] = F]
  BY <1>2, <1>3, <1>4, <1>5 DEF CleanupRecord
<1>7. q \in ProcType
  <2>1. proc'[p] \in ProcType
    BY DEF IInv, TypeOK, CleanupTypeOK
  <2> QED
    BY <1>2, <1>6, <2>1
<1>8. proc[p] \in ProcType /\ file[id] \in FileType
  BY <1>2
<1>9. q.id = id /\ q.phase \in {"read", "drain", "flush"}
  <2>1. q0.id = id /\ q0 = [q0 EXCEPT !.id = id]
    BY <1>2, <1>5, <1>8 DEF Processed, ProcType
  <2>2. PICK ph : /\ ph = CASE r.type = "END" -> "flush" [] r.type # "END" /\ OutOk(q0) -> "read" [] OTHER -> "drain"
                  /\ ph \in {"read", "drain", "flush"}
    OBVIOUS
  <2>3. q = [q0 EXCEPT !.phase = ph]
    BY <1>5, <2>2 DEF After
  <2>4. q0.id = id /\ DOMAIN q0 = DOMAIN proc[p]
    BY <2>1, <1>5 DEF Processed
  <2>5. "phase" \in DOMAIN q0
    BY <1>8, <2>4 DEF ProcType
  <2> QED
    BY <2>2, <2>3, <2>4, <2>5
<1>10. F.data = d
  BY <1>5, <1>8 DEF FileType
<1>11. left.clean
  BY <1>1
<1> QED
  BY <1>1, <1>2, <1>3, <1>5, <1>6, <1>7, <1>9, <1>10, <1>11, ReadOnce

LEMMA ContentCheckOnce ==
    ASSUME IInv, IInv', CleanInv, left'.clean, UNCHANGED <<smtpdVars, pickupVars>>,
           NEW p \in Proc, NEW verdict \in ActionFlag \cup {"CONT"}, CleanupContentCheck(p, verdict)
    PROVE  CleanInv'
<1>1. proc[p].phase = "read" /\ proc[p].pipe # <<>> /\ proc[p].phase \in Running
      /\ Spend("verdict") /\ bounced' = bounced
  BY DEF CleanupContentCheck, Running
<1>2. PICK id \in File :
        /\ proc[p].id = id /\ left \in SetupType
        /\ proc[p] \in ProcType /\ file[id] \in FileType
        /\ proc \in [Proc -> ProcType] /\ file \in [File -> FileType]
        /\ \A q : proc' = [proc EXCEPT ![p] = q] => proc'[p] = q
        /\ \A F : file' = [file EXCEPT ![id] = F] => file'[id] = F
  BY <1>1, ProcMoves
<1>3. PICK r : r = Head(proc[p].pipe)
  OBVIOUS
<1>4. PICK V, E : V = {verdict} \cap ActionFlag /\ E = {verdict} \cap Stat
  OBVIOUS
<1>5. PICK q0, q, d, F :
        /\ q0 = [proc[p] EXCEPT !.pipe = Tail(@), !.flags = @ \cup V, !.errs = @ \cup E]
        /\ q = After(q0, r.type)
        /\ d = Output(file[id].data, r)
        /\ F = [file[id] EXCEPT !.data = d, !.asked = @ \cup V]
  OBVIOUS
<1>6. proc' = [proc EXCEPT ![p] = q]
  BY <1>2, <1>3, <1>4, <1>5 DEF CleanupContentCheck
<1>6a. file' = [file EXCEPT ![id] = F]
  BY <1>2, <1>3, <1>4, <1>5 DEF CleanupContentCheck
<1>7. q \in ProcType
  <2>1. proc'[p] \in ProcType
    BY DEF IInv, TypeOK, CleanupTypeOK
  <2> QED
    BY <1>2, <1>6, <2>1
<1>9. q.id = id /\ q.phase \in {"read", "drain", "flush"}
  <2>2. PICK ph : /\ ph = CASE r.type = "END" -> "flush" [] r.type # "END" /\ OutOk(q0) -> "read" [] OTHER -> "drain"
                  /\ ph \in {"read", "drain", "flush"}
    OBVIOUS
  <2>3. q = [q0 EXCEPT !.phase = ph]
    BY <1>5, <2>2 DEF After
  <2>4. q0.id = id /\ DOMAIN q0 = DOMAIN proc[p]
    BY <1>2, <1>5 DEF ProcType
  <2>5. "phase" \in DOMAIN q0
    BY <1>2, <2>4 DEF ProcType
  <2> QED
    BY <2>2, <2>3, <2>4, <2>5
<1>10. F.data = d
  BY <1>2, <1>5 DEF FileType
<1>11. left.clean
  BY <1>1, <1>2, NoFaultYet
<1>12. UNCHANGED <<smtpdVars, pickupVars, bounced>>
  BY <1>1
<1>13. F.data = Output(file[id].data, Head(proc[p].pipe))
  BY <1>3, <1>5, <1>10
<1> QED
  BY <1>1, <1>2, <1>6, <1>6a, <1>7, <1>9, <1>11, <1>12, <1>13, ReadOnce

\* Process p does not read any more.
LEMMA QuietOnce ==
    ASSUME IInv, CleanInv, left.clean, UNCHANGED <<smtpdVars, pickupVars>>,
           NEW p \in Proc, proc[p].phase \in Running, NEW id \in File, proc[p].id = id,
           NEW q, proc' = [proc EXCEPT ![p] = q], q.phase # "read",
           \A i \in File : i # id => file'[i] = file[i],
           file'[id].data.from \in {NoMsg, file[id].data.from},
           q.id = id \/ (q = IdleProc /\ proc[p].eof),
           q.id = id /\ Withdrawn(proc[p]) => Withdrawn(q),
           \/ bounced' = bounced
           \/ /\ bounced' = bounced \cup {file[id].data.from}
              /\ file[id].data.from \in Drop /\ Withdrawn(q) /\ q.id = id,
           CancelOK(p)'
    PROVE  CleanInv'
<1>1. /\ OwnFile /\ proc \in [Proc -> ProcType] /\ file \in [File -> FileType]
      /\ Drop \subseteq Msg /\ NoMsg \notin Msg
  BY CleanFacts
<1>2. /\ proc'[p] = q /\ \A r \in Proc : r # p => proc'[r] = proc[r]
  BY <1>1
<1>3. ASSUME NEW d \in Drop, Carries(id, d)'
      PROVE  Carries(id, d)
  <2>1. \A r \in Proc : proc'[r].phase = "read" => r # p /\ proc[r].id # id
    BY <1>1, <1>2 DEF OwnFile
  <2>2. file'[id].data.from = d
    BY <1>2, <1>3, <2>1 DEF Carries
  <2> QED
    BY <1>1, <1>2, <2>2 DEF Carries
<1> QED
  BY <1>3, CleanupOnce

LEMMA StillOnce ==
    ASSUME IInv, CleanInv, left.clean, UNCHANGED <<smtpdVars, pickupVars>>,
           \A i \in File : file'[i] = file[i], bounced' = bounced,
           NEW p \in Proc, proc[p].phase \in Running, NEW id \in File, proc[p].id = id,
           NEW q, proc' = [proc EXCEPT ![p] = q], q.phase # "read",
           q.id = id \/ (q = IdleProc /\ proc[p].eof),
           q.id = id /\ Withdrawn(proc[p]) => Withdrawn(q),
           CancelOK(p)'
    PROVE  CleanInv'
<1>1. bounced' = bounced
  OBVIOUS
<1>2. \A i \in File : i # id => file'[i] = file[i]
  OBVIOUS
<1>3. file'[id].data.from \in {NoMsg, file[id].data.from}
  OBVIOUS
<1>7. CASE q.id = id
  BY <1>1, <1>2, <1>3, <1>7, QuietOnce
<1>8. CASE q = IdleProc /\ proc[p].eof
  BY <1>1, <1>2, <1>3, <1>8, QuietOnce
<1> QED
  BY <1>7, <1>8

LEMMA EofOnce ==
    ASSUME IInv, CleanInv, left'.clean, UNCHANGED <<smtpdVars, pickupVars>>,
           NEW p \in Proc, CleanupEof(p)
    PROVE  CleanInv'
<1>1. proc[p].phase = "read" /\ proc[p].phase \in Running
      /\ left' = left /\ bounced' = bounced /\ file' = file
  BY DEF CleanupEof, Running
<1>2. PICK id \in File :
        /\ proc[p].id = id
        /\ proc[p] \in ProcType /\ file[id] \in FileType
        /\ proc \in [Proc -> ProcType]
        /\ \A q : proc' = [proc EXCEPT ![p] = q] => proc'[p] = q
  BY <1>1, ProcMoves
<1>3. PICK q : q = [proc[p] EXCEPT !.phase = "flush", !.errs = @ \cup {"BAD"}]
  OBVIOUS
<1>4. proc' = [proc EXCEPT ![p] = q] /\ q.phase = "flush" /\ q.id = id
  BY <1>2, <1>3 DEF CleanupEof, ProcType
<1>5. CancelOK(p)' /\ ~Withdrawn(proc[p])
  BY <1>1, <1>2, <1>4 DEF CancelOK, Withdrawn
<1> QED
  BY <1>1, <1>2, <1>4, <1>5, StillOnce

LEMMA DrainOnce ==
    ASSUME IInv, CleanInv, left'.clean, UNCHANGED <<smtpdVars, pickupVars>>,
           NEW p \in Proc, CleanupDrain(p)
    PROVE  CleanInv'
<1>1. proc[p].phase = "drain" /\ proc[p].phase \in Running
      /\ left' = left /\ bounced' = bounced /\ file' = file
  BY DEF CleanupDrain, Running
<1>2. PICK id \in File :
        /\ proc[p].id = id
        /\ proc[p] \in ProcType /\ file[id] \in FileType
        /\ proc \in [Proc -> ProcType]
        /\ \A q : proc' = [proc EXCEPT ![p] = q] => proc'[p] = q
  BY <1>1, ProcMoves
<1>3. PICK q : /\ proc' = [proc EXCEPT ![p] = q]
               /\ q.phase \in {"flush", "drain"} /\ q.id = id
  <2>1. CASE proc' = [proc EXCEPT ![p].pipe = Tail(@),
                        ![p].phase = IF Head(proc[p].pipe).type = "END" THEN "flush" ELSE "drain"]
    <3>1. PICK ph, t :
            ph \in {"flush", "drain"} /\ ph = (IF Head(proc[p].pipe).type = "END" THEN "flush" ELSE "drain") /\ t = Tail(proc[p].pipe)
      OBVIOUS
    <3>2. PICK q : q = [proc[p] EXCEPT !.pipe = t, !.phase = ph]
      OBVIOUS
    <3>3. proc' = [proc EXCEPT ![p] = q]
      BY <1>2, <2>1, <3>1, <3>2
    <3>4. q.phase = ph /\ q.id = id
      BY <1>2, <3>2 DEF ProcType
    <3> QED
      BY <3>1, <3>3, <3>4
  <2>2. CASE proc' = [proc EXCEPT ![p].phase = "flush"]
    <3>1. PICK q : q = [proc[p] EXCEPT !.phase = "flush"]
      OBVIOUS
    <3>2. proc' = [proc EXCEPT ![p] = q] /\ q.phase = "flush" /\ q.id = id
      BY <1>2, <2>2, <3>1 DEF ProcType
    <3> QED
      BY <3>2
  <2> QED
    BY <2>1, <2>2 DEF CleanupDrain
<1>5. CancelOK(p)' /\ ~Withdrawn(proc[p])
  BY <1>1, <1>2, <1>3 DEF CancelOK, Withdrawn
<1> QED
  BY <1>1, <1>2, <1>3, <1>5, StillOnce

LEMMA ChmodOnce ==
    ASSUME IInv, CleanInv, left'.clean, UNCHANGED <<smtpdVars, pickupVars>>,
           NEW p \in Proc, CleanupChmod(p)
    PROVE  CleanInv'
<1>1. proc[p].phase = "chmod" /\ proc[p].phase \in Running /\ bounced' = bounced
  BY DEF CleanupChmod, Running
<1>2. PICK id \in File :
        /\ proc[p].id = id /\ left \in SetupType
        /\ proc[p] \in ProcType /\ file[id] \in FileType
        /\ proc \in [Proc -> ProcType] /\ file \in [File -> FileType]
        /\ \A q : proc' = [proc EXCEPT ![p] = q] => proc'[p] = q
        /\ file = [file EXCEPT ![id] = file[id]]
  BY <1>1, ProcMoves
<1>3. ~Spend("fault")
  BY <1>2, NoFaultYet
<1>4. PICK q, F : q = [proc[p] EXCEPT !.phase = "sync"] /\ F = [file[id] EXCEPT !.ready = TRUE]
  OBVIOUS
<1>5. /\ proc' = [proc EXCEPT ![p] = q] /\ q.phase = "sync" /\ q.id = id
      /\ file' = [file EXCEPT ![id] = F] /\ F.data = file[id].data /\ left' = left
  BY <1>2, <1>3, <1>4 DEF CleanupChmod, ProcType, FileType
<1>6. CancelOK(p)' /\ ~Withdrawn(proc[p])
  BY <1>1, <1>2, <1>5 DEF CancelOK, Withdrawn
<1> QED
  BY <1>1, <1>2, <1>5, <1>6, QuietOnce

LEMMA SyncOnce ==
    ASSUME IInv, CleanInv, left'.clean, UNCHANGED <<smtpdVars, pickupVars>>,
           NEW p \in Proc, CleanupSync(p)
    PROVE  CleanInv'
<1>1. proc[p].phase = "sync" /\ proc[p].phase \in Running /\ bounced' = bounced
  BY DEF CleanupSync, Running
<1>2. PICK id \in File :
        /\ proc[p].id = id /\ left \in SetupType
        /\ proc[p] \in ProcType /\ file[id] \in FileType
        /\ proc \in [Proc -> ProcType] /\ file \in [File -> FileType]
        /\ \A q : proc' = [proc EXCEPT ![p] = q] => proc'[p] = q
        /\ file = [file EXCEPT ![id] = file[id]]
  BY <1>1, ProcMoves
<1>3. ~Spend("fault")
  BY <1>2, NoFaultYet
<1>4. PICK q, F : q = [proc[p] EXCEPT !.phase = "forget"] /\ F = [file[id] EXCEPT !.synced = TRUE]
  OBVIOUS
<1>5. /\ proc' = [proc EXCEPT ![p] = q] /\ q.phase = "forget" /\ q.id = id
      /\ file' = [file EXCEPT ![id] = F] /\ F.data = file[id].data /\ left' = left
  BY <1>2, <1>3, <1>4 DEF CleanupSync, ProcType, FileType
<1>6. CancelOK(p)' /\ ~Withdrawn(proc[p])
  BY <1>1, <1>2, <1>5 DEF CancelOK, Withdrawn
<1> QED
  BY <1>1, <1>2, <1>5, <1>6, QuietOnce

LEMMA CancelOnce ==
    ASSUME IInv, CleanInv, left'.clean, UNCHANGED <<smtpdVars, pickupVars>>,
           NEW p \in Proc, CleanupCancel(p)
    PROVE  CleanInv'
<1>1. proc[p].phase = "cancel" /\ proc[p].phase \in Running /\ bounced' = bounced /\ left' = left
  BY DEF CleanupCancel, Running
<1>2. PICK id \in File :
        /\ proc[p].id = id
        /\ proc[p] \in ProcType /\ file[id] \in FileType
        /\ proc \in [Proc -> ProcType] /\ file \in [File -> FileType]
        /\ \A q : proc' = [proc EXCEPT ![p] = q] => proc'[p] = q
        /\ \A F : file' = [file EXCEPT ![id] = F] => file'[id] = F
  BY <1>1, ProcMoves
<1>3. PICK q, F : q = [proc[p] EXCEPT !.phase = "answer"] /\ F = [NewFile EXCEPT !.loc = "removed"]
  OBVIOUS
<1>4. file[id].loc \in {"incoming", "hold"}
  BY <1>1, <1>2, CleanFacts DEF CancelOK
<1>5. /\ proc' = [proc EXCEPT ![p] = q] /\ q.phase = "answer" /\ q.id = id
      /\ q.errs = proc[p].errs /\ q.flags = proc[p].flags
      /\ file' = [file EXCEPT ![id] = F] /\ F.data = NoData /\ F.loc = "removed"
  BY <1>2, <1>3, <1>4, EmptyTypes DEF CleanupCancel, Removed, ProcType
<1>6. CancelOK(p)' /\ (Withdrawn(proc[p]) => Withdrawn(q))
  BY <1>1, <1>2, <1>5 DEF CancelOK, Withdrawn
<1>7. F.data.from = NoMsg
  BY <1>5, EmptyTypes
<1> QED
  BY <1>1, <1>2, <1>5, <1>6, <1>7, QuietOnce

LEMMA ForgetOnce ==
    ASSUME IInv, CleanInv, left'.clean, UNCHANGED <<smtpdVars, pickupVars>>,
           NEW p \in Proc, CleanupForget(p)
    PROVE  CleanInv'
<1>1. proc[p].phase = "forget" /\ proc[p].phase \in Running /\ bounced' = bounced
      /\ left' = left /\ file' = file
  BY DEF CleanupForget, Running
<1>2. PICK id \in File :
        /\ proc[p].id = id /\ ProcOK(p)
        /\ proc[p] \in ProcType /\ file[id] \in FileType
        /\ proc \in [Proc -> ProcType]
        /\ \A q : proc' = [proc EXCEPT ![p] = q] => proc'[p] = q
  BY <1>1, ProcMoves
<1>3. PICK q : q = [proc[p] EXCEPT !.phase = "answer"]
  OBVIOUS
<1>4. /\ proc' = [proc EXCEPT ![p] = q] /\ q.phase = "answer" /\ q.id = id
      /\ q.errs = proc[p].errs /\ q.flags = proc[p].flags
  BY <1>2, <1>3 DEF CleanupForget, ProcType
<1>5. Commits(proc[p])
  BY <1>1, <1>2 DEF ProcOK
<1>6. CancelOK(p)' /\ ~Withdrawn(proc[p])
  BY <1>1, <1>2, <1>4, <1>5 DEF CancelOK, Withdrawn, Commits
<1> QED
  BY <1>1, <1>2, <1>4, <1>6, StillOnce

LEMMA AnswerOnce ==
    ASSUME IInv, CleanInv, left'.clean, UNCHANGED <<smtpdVars, pickupVars>>,
           NEW p \in Proc, CleanupAnswer(p)
    PROVE  CleanInv'
<1>1. proc[p].phase = "answer" /\ proc[p].phase \in Running /\ bounced' = bounced
      /\ left' = left /\ file' = file
  BY DEF CleanupAnswer, Running
<1>2. PICK id \in File :
        /\ proc[p].id = id
        /\ proc[p] \in ProcType /\ file[id] \in FileType
        /\ proc \in [Proc -> ProcType]
        /\ \A q : proc' = [proc EXCEPT ![p] = q] => proc'[p] = q
  BY <1>1, ProcMoves
<1>3. PICK q : /\ proc' = [proc EXCEPT ![p] = q]
               /\ q = IF proc[p].eof THEN IdleProc ELSE [proc[p] EXCEPT !.phase = "answered"]
  BY <1>2 DEF CleanupAnswer
<1>5. CASE proc[p].eof
  <2>1. q = IdleProc /\ q.phase = "idle" /\ q.id = NoFile /\ NoFile \notin File
    BY <1>3, <1>5, EmptyTypes, Numbers DEF File, NoFile
  <2>2. CancelOK(p)'
    BY <1>2, <1>3, <2>1 DEF CancelOK
  <2> QED
    BY <1>1, <1>2, <1>3, <1>5, <2>1, <2>2, StillOnce
<1>6. CASE ~proc[p].eof
  <2>1. q.phase = "answered" /\ q.id = id /\ q.errs = proc[p].errs /\ q.flags = proc[p].flags
    BY <1>2, <1>3, <1>6 DEF ProcType
  <2>2. CancelOK(p)
    BY <1>1, CleanFacts
  <2>3. CancelOK(p)' /\ (Withdrawn(proc[p]) => Withdrawn(q))
    BY <1>1, <1>2, <1>3, <2>1, <2>2 DEF CancelOK, Withdrawn, Commits
  <2> QED
    BY <1>1, <1>2, <1>3, <2>1, <2>3, StillOnce
<1> QED
  BY <1>5, <1>6

\* Process p, with file id, has all of the input: q and G are the process and
\* the files when the Milters have spoken.
LEMMA FlushToOnce ==
    ASSUME IInv, CleanInv, left.clean, UNCHANGED <<smtpdVars, pickupVars>>,
           NEW p \in Proc, proc[p].phase = "flush", NEW id \in File, proc[p].id = id,
           NEW q \in ProcType, q.id = id, "BOUNCE" \in q.flags => "BOUNCE" \in proc[p].flags,
           NEW G \in [File -> FileType], \A i \in File : i # id => G[i] = file[i],
           G[id].data = file[id].data, G[id].loc = file[id].loc, G[id].ready = file[id].ready,
           FlushTo(p, q, G)
    PROVE  CleanInv'
<1>1. /\ proc[p].phase \in Running /\ ~Withdrawn(proc[p])
      /\ proc \in [Proc -> ProcType] /\ ProcOK(p)
  BY CleanFacts DEF Running, Withdrawn
<1>2. /\ file[id].loc = "incoming" /\ ~file[id].ready
      /\ file[id].data.from \in {NoMsg} \cup IF "BOUNCE" \in proc[p].flags THEN Drop ELSE Mail
  BY <1>1 DEF ProcOK
<1>3. CASE /\ proc' = [proc EXCEPT ![p] = [q EXCEPT !.phase = "chmod"]]
           /\ file' = [G EXCEPT ![id].loc = HoldOrNot(q)]
           /\ bounced' = bounced
  <2>1. PICK q2 : q2 = [q EXCEPT !.phase = "chmod"]
    OBVIOUS
  <2>2. q2.phase = "chmod" /\ q2.id = id /\ proc' = [proc EXCEPT ![p] = q2] /\ proc'[p] = q2
    BY <1>1, <1>3, <2>1 DEF ProcType
  <2>3. PICK F2 : F2 = [G[id] EXCEPT !.loc = HoldOrNot(q)]
    OBVIOUS
  <2>4. F2.data = file[id].data /\ file' = [G EXCEPT ![id] = F2]
    BY <1>3, <2>3 DEF FileType
  <2>5. file'[id].data.from \in {NoMsg, file[id].data.from} /\ \A i \in File : i # id => file'[i] = file[i]
    BY <2>4
  <2>6. CancelOK(p)'
    BY <2>2 DEF CancelOK
  <2> QED
    BY <1>1, <1>3, <2>2, <2>5, <2>6, QuietOnce
<1>4. CASE /\ q.errs # {} /\ CanBounce(q)
           /\ proc' = [proc EXCEPT ![p] = cleanup_bounce(q)]
           /\ bounced' = bounced \cup {file[id].data.from}
           /\ file' = G
  <2>1. PICK q2 : q2 = cleanup_bounce(q)
    OBVIOUS
  <2>2. q2.phase = "cancel" /\ q2.id = id /\ q2.errs = {} /\ "DISCARD" \in q2.flags
    BY <2>1 DEF cleanup_bounce, ProcType
  <2>3. proc' = [proc EXCEPT ![p] = q2] /\ proc'[p] = q2
    BY <1>1, <1>4, <2>1
  <2>4. /\ file'[id].data.from \in {NoMsg, file[id].data.from}
        /\ \A i \in File : i # id => file'[i] = file[i]
        /\ file'[id].loc = "incoming" /\ ~file'[id].ready
    BY <1>2, <1>4
  <2>5. CancelOK(p)'
    BY <2>2, <2>3, <2>4 DEF CancelOK
  <2>6. Withdrawn(q2)
    BY <2>2 DEF Withdrawn
  <2>7. file[id].data.from \in Drop
    BY <1>2, <1>4 DEF CanBounce
  <2> QED
    BY <1>1, <1>4, <2>2, <2>3, <2>4, <2>5, <2>6, <2>7, QuietOnce
<1>5. CASE /\ proc' = [proc EXCEPT ![p] = [q EXCEPT !.phase = "cancel"]]
           /\ file' = G
           /\ bounced' = bounced
  <2>1. PICK q2 : q2 = [q EXCEPT !.phase = "cancel"]
    OBVIOUS
  <2>2. q2.phase = "cancel" /\ q2.id = id /\ proc' = [proc EXCEPT ![p] = q2] /\ proc'[p] = q2
    BY <1>1, <1>5, <2>1 DEF ProcType
  <2>3. /\ file'[id].data.from \in {NoMsg, file[id].data.from}
        /\ \A i \in File : i # id => file'[i] = file[i]
        /\ file'[id].loc = "incoming" /\ ~file'[id].ready
    BY <1>2, <1>5
  <2>4. CancelOK(p)'
    BY <2>2, <2>3 DEF CancelOK
  <2> QED
    BY <1>1, <1>5, <2>2, <2>3, <2>4, QuietOnce
<1> QED
  BY <1>3, <1>4, <1>5 DEF FlushTo

LEMMA FlushOnce ==
    ASSUME IInv, CleanInv, left'.clean, UNCHANGED <<smtpdVars, pickupVars>>,
           NEW p \in Proc, CleanupFlush(p)
    PROVE  CleanInv'
<1>1. proc[p].phase = "flush" /\ proc[p].phase \in Running /\ left' = left
  BY DEF CleanupFlush, Running
<1>2. PICK id \in File :
        /\ proc[p].id = id /\ proc[p] \in ProcType /\ file \in [File -> FileType]
  BY <1>1, ProcMoves
<1>3. PICK q : q = [proc[p] EXCEPT !.errs = FlushErrs(proc[p])]
  OBVIOUS
<1>4. FlushErrs(proc[p]) \subseteq Stat
  BY <1>2 DEF FlushErrs, ProcType, Stat
<1>5. q \in ProcType /\ q.id = id /\ q.flags = proc[p].flags
  BY <1>2, <1>3, <1>4 DEF ProcType
<1>6. FlushTo(p, q, file)
  BY <1>3 DEF CleanupFlush
<1> QED
  BY <1>1, <1>2, <1>5, <1>6, FlushToOnce

LEMMA MilterOnce ==
    ASSUME IInv, CleanInv, left'.clean, UNCHANGED <<smtpdVars, pickupVars>>,
           NEW p \in Proc, NEW verdict \in ActionFlag \cup {"CONT"}, CleanupMilter(p, verdict)
    PROVE  CleanInv'
<1>1. proc[p].phase = "flush" /\ proc[p].phase \in Running /\ Spend("verdict")
  BY DEF CleanupMilter, Running
<1>2. PICK id \in File :
        /\ proc[p].id = id /\ left \in SetupType
        /\ proc[p] \in ProcType /\ file[id] \in FileType /\ file \in [File -> FileType]
  BY <1>1, ProcMoves
<1>3. PICK V : V = {verdict} \cap ActionFlag /\ V \subseteq Flag
  BY DEF Flag
<1>4. PICK E : E = {verdict} \cap Stat /\ E \subseteq Stat
  OBVIOUS
<1>5. PICK q0 : q0 = [proc[p] EXCEPT !.errs = FlushErrs(proc[p])]
  OBVIOUS
<1>6. FlushErrs(proc[p]) \subseteq Stat
  BY <1>2 DEF FlushErrs, ProcType, Stat
<1>7. q0 \in ProcType /\ q0.id = id /\ q0.flags = proc[p].flags
  BY <1>2, <1>5, <1>6 DEF ProcType
<1>8. PICK q : q = [q0 EXCEPT !.flags = @ \cup V, !.errs = @ \cup E]
  OBVIOUS
<1>9. q \in ProcType /\ q.id = id /\ q.flags = proc[p].flags \cup V
  BY <1>3, <1>4, <1>7, <1>8 DEF ProcType
<1>10. "BOUNCE" \in q.flags => "BOUNCE" \in proc[p].flags
  BY <1>3, <1>9 DEF ActionFlag
<1>11. PICK F : F = [file[id] EXCEPT !.asked = @ \cup V]
  OBVIOUS
<1>12. F \in FileType /\ F.data = file[id].data /\ F.loc = file[id].loc /\ F.ready = file[id].ready
  BY <1>2, <1>3, <1>11 DEF FileType
<1>13. PICK G : G = [file EXCEPT ![id] = F]
  OBVIOUS
<1>14. /\ G \in [File -> FileType] /\ \A i \in File : i # id => G[i] = file[i]
       /\ G[id] = F
  BY <1>2, <1>12, <1>13
<1>15. FlushTo(p, q, [file EXCEPT ![id] = F])
  BY <1>3, <1>4, <1>5, <1>7, <1>8, <1>11, Zenon DEF CleanupMilter
<1>16. FlushTo(p, q, G)
  BY <1>13, <1>15, Zenon
<1>17. left.clean
  BY <1>1, <1>2, NoFaultYet
<1> QED
  BY <1>1, <1>2, <1>9, <1>10, <1>12, <1>14, <1>16, <1>17, FlushToOnce

\* A fault ends the run without a fault.
LEMMA NoFault ==
    ASSUME IInv, left'.clean
    PROVE  ~Spend("fault")
BY SessFacts, NoFaultYet

LEMMA CleanupOnceMore ==
    ASSUME IInv, IInv', CleanInv, left'.clean, UNCHANGED <<smtpdVars, pickupVars>>,
           NEW p \in Proc, CleanupStep(p) \/ CleanupTrouble(p)
    PROVE  CleanInv'
<1>1. CASE CleanupStep(p)
  <2>1. CASE CleanupRecord(p)
    BY <2>1, RecordOnce
  <2>2. CASE CleanupEof(p)
    BY <2>2, EofOnce
  <2>3. CASE CleanupDrain(p)
    BY <2>3, DrainOnce
  <2>4. CASE CleanupFlush(p)
    BY <2>4, FlushOnce
  <2>5. CASE CleanupChmod(p)
    BY <2>5, ChmodOnce
  <2>6. CASE CleanupSync(p)
    BY <2>6, SyncOnce
  <2>7. CASE CleanupCancel(p)
    BY <2>7, CancelOnce
  <2>8. CASE CleanupForget(p)
    BY <2>8, ForgetOnce
  <2>9. CASE CleanupAnswer(p)
    BY <2>9, AnswerOnce
  <2> QED
    BY <1>1, <2>1, <2>2, <2>3, <2>4, <2>5, <2>6, <2>7, <2>8, <2>9, Zenon DEF CleanupStep
<1>2. CASE CleanupTrouble(p)
  <2>1. CASE \E err \in Stat : CleanupWriteError(p, err)
    BY <2>1, NoFault DEF CleanupWriteError
  <2>2. CASE \E verdict \in ActionFlag \cup {"CONT"} : CleanupContentCheck(p, verdict)
    BY <2>2, ContentCheckOnce
  <2>3. CASE \E verdict \in ActionFlag \cup {"CONT"} : CleanupMilter(p, verdict)
    BY <2>3, MilterOnce
  <2>4. CASE CleanupFlushError(p) \/ cleanup_sig(p) \/ CleanupKilled(p)
    BY <2>4, NoFault DEF CleanupFlushError, cleanup_sig, CleanupKilled
  <2> QED
    BY <1>2, <2>1, <2>2, <2>3, <2>4, Zenon DEF CleanupTrouble
<1> QED
  BY <1>1, <1>2

-----------------------------------------------------------------------------
(***************************************************************************)
(* The steps of smtpd.                                                     *)
(***************************************************************************)
\* Only the process of pickup reads the beginning of a local message.
LEMMA LocalMail ==
    ASSUME IInv', NEW p \in Proc, NEW d \in Drop,
           proc'[p].phase = "read", proc'[p].pipe # <<>>,
           Head(proc'[p].pipe) = RecOf("FROM", d)
    PROVE  /\ "BOUNCE" \in proc'[p].flags
           /\ p = pick'.p => pick'.d = d
<1>1. ProcOK(p)' /\ proc'[p] \in ProcType
  BY DEF IInv, TypeOK, CleanupTypeOK
<1>2. PICK T \in Plan : PlanOf(p, T)'
  BY <1>1 DEF ProcOK
<1>3. /\ "BOUNCE" \in proc'[p].flags <=> T.m \in Drop
      /\ p = pick'.p => T = PickPlan'
  BY <1>2 DEF PlanOf
<1>4. PICK q, D : q \in ProcType /\ q = proc'[p] /\ D = file'[proc'[p].id].data
  BY <1>1
<1>5. Reading(q, D, T)
  BY <1>2, <1>4 DEF PlanOf, Reading, Consumed
<1>6. q.pipe # <<>> /\ Head(q.pipe).type = "FROM" /\ Head(q.pipe).val = d
  BY <1>4 DEF RecOf
<1>7. T.m = d
  BY <1>4, <1>5, <1>6, ReadingCarries
<1> QED
  BY <1>3, <1>7 DEF PickPlan

\* What smtpd does to its process c: it writes to it, closes its connection,
\* or opens a new one.  P is the state of the processes after that.
Fields == DOMAIN IdleProc
Slid(q, r) == q.phase = r.phase /\ q.id = r.id /\ q.errs = r.errs /\ q.flags = r.flags
Fresh(q) == q.phase = "read" /\ q.id \in File /\ file[q.id].loc = "none"
Handled(P, c) ==
    /\ DOMAIN P = Proc
    /\ \A p \in Proc : p # c => P[p] = proc[p]
    /\ c \in Proc => /\ c # pick.p /\ DOMAIN P[c] = Fields
                     /\ "BOUNCE" \notin P[c].flags
                     /\ Slid(P[c], proc[c]) \/ P[c] = IdleProc \/ Fresh(P[c])

LEMMA SmtpdOnce ==
    ASSUME IInv, IInv', CleanInv, left.clean, UNCHANGED <<pickupVars, bounced>>,
           NEW c, Handled(proc', c),
           \A i \in File : file'[i] = file[i] \/ (file[i].loc = "none" /\ file'[i] = NewFile)
    PROVE  CleanInv'
<1>1. /\ \A p \in Proc : CancelOK(p)
      /\ \A d \in Drop : OnceOK(d)
      /\ \A p \in Proc : ProcOK(p)
      /\ \A i \in File : FileOK(i)
      /\ Drop \subseteq Msg /\ NoMsg \notin Msg /\ NoFile \notin File
      /\ pick' = pick /\ drop' = drop /\ bounced' = bounced
  BY CleanFacts DEF pickupVars
<1>2. PICK P : P = proc' /\ Handled(P, c)
  OBVIOUS
<1>3. /\ \A p \in Proc : p # c => proc'[p] = proc[p]
      /\ c \in Proc => /\ c # pick.p /\ "BOUNCE" \notin proc'[c].flags
                       /\ Slid(proc'[c], proc[c]) \/ proc'[c] = IdleProc \/ Fresh(proc'[c])
  BY <1>2 DEF Handled
<1>4. /\ IdleProc.phase = "idle" /\ IdleProc.id = NoFile
      /\ NewFile.data.from = NoMsg
  BY EmptyTypes DEF NewFile
<1>5. ASSUME NEW p \in Proc, proc[p].id \in File, file[proc[p].id].loc = "none"
      PROVE  FALSE
  <2>1. proc[p].phase \in Running \cup {"answered", "idle", "dead"}
    BY SessFacts DEF ProcType
  <2>2. proc[p].phase \in {"idle", "dead"} => proc[p].id = NoFile
    <3>1. ASSUME NEW ph
          PROVE  [IdleProc EXCEPT !.phase = ph].id = NoFile
      BY DEF IdleProc
    <3>2. PICK ph : ph = proc[p].phase
      OBVIOUS
    <3>3. ph \in {"idle", "dead"} => proc[p] = [IdleProc EXCEPT !.phase = ph]
      BY <1>1, <3>2 DEF ProcOK
    <3> QED
      BY <3>1, <3>2, <3>3
  <2>3. proc[p].phase \notin Running \cup {"answered"}
    BY <1>1, <1>5 DEF ProcOK
  <2> QED
    BY <1>1, <1>5, <2>1, <2>2, <2>3
<1>6. ASSUME NEW p \in Proc
      PROVE  CancelOK(p)'
  <2>1. CASE proc'[p] = proc[p] \/ Slid(proc'[p], proc[p])
    <3>1. /\ proc'[p].phase = proc[p].phase /\ proc'[p].id = proc[p].id
          /\ proc'[p].errs = proc[p].errs /\ proc'[p].flags = proc[p].flags
      BY <2>1 DEF Slid
    <3>2. CASE proc[p].id \in File
      <4>1. file'[proc[p].id] = file[proc[p].id]
        BY <1>5, <3>2
      <4> QED
        BY <1>1, <3>1, <4>1 DEF CancelOK, Commits
    <3>3. CASE proc[p].id \notin File
      <4>1. proc[p].phase \notin Running \cup {"answered"}
        BY <1>1, <3>3 DEF ProcOK
      <4> QED
        BY <1>1, <3>1, <4>1 DEF CancelOK, Running
    <3> QED
      BY <3>2, <3>3
  <2>2. CASE proc'[p] = IdleProc \/ Fresh(proc'[p])
    BY <1>4, <2>2 DEF CancelOK, Fresh
  <2> QED
    BY <1>3, <2>1, <2>2
<1>7. ASSUME NEW i \in File, NEW d \in Drop, Carries(i, d)'
      PROVE  Carries(i, d) /\ file'[i] = file[i]
  <2>1. CASE file'[i].data.from = d
    BY <1>1, <1>4, <2>1 DEF Carries
  <2>2. CASE file'[i].data.from # d
    <3>1. PICK p \in Proc : /\ proc'[p].phase = "read" /\ proc'[p].id = i /\ proc'[p].pipe # <<>>
                            /\ Head(proc'[p].pipe) = RecOf("FROM", d)
      BY <1>7, <2>2 DEF Carries
    <3>2. proc'[p] = proc[p]
      BY <1>3, <3>1, LocalMail
    <3>3. file[i].loc # "none"
      BY <1>5, <3>1, <3>2
    <3> QED
      BY <3>1, <3>2, <3>3 DEF Carries
  <2> QED
    BY <2>1, <2>2
<1>8. pick.p # NoProc => pick.p \in Proc /\ proc'[pick.p] = proc[pick.p]
  BY <1>3, PickHas
<1>9. ASSUME NEW i \in File, file[i].ready, \A p \in Proc : proc[p].id # i
      PROVE  \A p \in Proc : proc'[p].id # i
  <2>1. file[i].loc # "none"
    <3>1. ~[NewFile EXCEPT !.loc = "none"].ready
      BY DEF NewFile
    <3> QED
      BY <1>1, <1>9, <3>1 DEF FileOK
  <2> QED
    BY <1>1, <1>3, <1>4, <1>9, <2>1 DEF Slid, Fresh
<1>10. ASSUME NEW d \in Drop
       PROVE  OnceOK(d)'
  <2>1. OnceOK(d) /\ (Settled(d)' <=> Settled(d))
    BY <1>1 DEF Settled
  <2>2. ~drop'[d].torn /\ (pick'.phase # "idle" /\ pick'.d = d => drop'[d].loc = "maildrop")
    BY <1>1, <2>1 DEF OnceOK
  <2>3. ASSUME NEW i \in File, Carries(i, d)'
        PROVE  \/ Copies(i, d)'
               \/ Settled(d)' /\ file'[i].ready /\ \A r \in Proc : proc'[r].id # i
    <3>1. Carries(i, d) /\ file'[i] = file[i]
      BY <1>7, <2>3
    <3>2. CASE Copies(i, d)
      BY <1>1, <1>8, <3>2 DEF Copies
    <3>3. CASE Settled(d) /\ file[i].ready /\ \A r \in Proc : proc[r].id # i
      BY <1>9, <2>1, <3>1, <3>3
    <3> QED
      BY <2>1, <3>1, <3>2, <3>3 DEF OnceOK
  <2>4. \A i, j \in File : Carries(i, d)' /\ Carries(j, d)' => i = j
    BY <1>7, <2>1 DEF OnceOK
  <2>5. ASSUME d \in bounced'
        PROVE  \/ Settled(d)' /\ \A i \in File : ~Carries(i, d)'
               \/ pick'.d = d /\ pick'.p # NoProc /\ Withdrawn(proc'[pick'.p])
    BY <1>1, <1>7, <1>8, <2>1, <2>5 DEF OnceOK
  <2> QED
    BY <2>2, <2>3, <2>4, <2>5 DEF OnceOK
<1> QED
  BY <1>6, <1>10 DEF CleanInv

\* Nothing is done yet to the process of the session.
LEMMA HandledNot ==
    ASSUME IInv
    PROVE  Handled(proc, sess.cleanup)
<1>1. /\ proc \in [Proc -> ProcType] /\ \A p \in Proc : ProcOK(p)
      /\ Mail \cap Drop = {}
      /\ sess.cleanup # NoProc => /\ sess.cleanup # pick.p /\ Serves(sess.cleanup, sess.sender)
                                  /\ sess.sender \in Mail
      /\ NoProc \notin Proc
  BY SessFacts, Numbers DEF IInv
<1>2. DOMAIN proc = Proc /\ \A p \in Proc : DOMAIN proc[p] = Fields
  BY <1>1 DEF ProcType, Fields, IdleProc
<1>3. ASSUME sess.cleanup \in Proc
      PROVE  "BOUNCE" \notin proc[sess.cleanup].flags
  <2>1. PICK q : q = proc[sess.cleanup] /\ q \in ProcType
    BY <1>1, <1>3
  <2>2. CASE q.phase \in Running \cup {"answered"}
    BY <1>1, <1>3, <2>1, <2>2 DEF Serves
  <2>3. CASE q.phase \in {"idle", "dead"}
    <3>1. q = [IdleProc EXCEPT !.phase = q.phase]
      BY <1>1, <1>3, <2>1, <2>3 DEF ProcOK
    <3>2. q.flags = {}
      BY <3>1 DEF IdleProc
    <3> QED
      BY <2>1, <3>2
  <2> QED
    BY <2>1, <2>2, <2>3 DEF ProcType
<1>4. \A q : Slid(q, q)
  BY DEF Slid
<1> QED
  BY <1>1, <1>2, <1>3, <1>4 DEF Handled

LEMMA HandledWrite ==
    ASSUME NEW P, NEW c \in Proc, Handled(P, c), NEW recs
    PROVE  Handled(Write(P, c, recs), c)
<1>1. PICK Q : Q = Write(P, c, recs)
  OBVIOUS
<1>2. CASE P[c].phase \in Running
  <2>1. PICK t : t = P[c].pipe \o recs
    OBVIOUS
  <2>2. PICK q : q = [P[c] EXCEPT !.pipe = t]
    OBVIOUS
  <2>3. Q = [P EXCEPT ![c] = q]
    BY <1>1, <1>2, <2>1, <2>2 DEF Write
  <2>4. DOMAIN P[c] = Fields /\ DOMAIN P = Proc
    BY DEF Handled
  <2>5. /\ DOMAIN Q = Proc /\ Q[c] = q /\ \A p \in Proc : p # c => Q[p] = P[p]
    BY <2>3, <2>4
  <2>6. DOMAIN q = Fields /\ Slid(q, P[c])
    BY <2>2, <2>4 DEF Fields, IdleProc, Slid
  <2>7. P[c] # IdleProc
    BY <1>2, EmptyTypes DEF Running
  <2>8. /\ c # pick.p /\ "BOUNCE" \notin P[c].flags
        /\ Slid(P[c], proc[c]) \/ Fresh(P[c])
        /\ \A p \in Proc : p # c => P[p] = proc[p]
    BY <2>7 DEF Handled
  <2>9. Slid(q, proc[c]) \/ Fresh(q)
    BY <2>6, <2>8 DEF Slid, Fresh
  <2>10. "BOUNCE" \notin q.flags
    BY <2>6, <2>8 DEF Slid
  <2>11. Handled(Q, c)
    BY <2>5, <2>6, <2>8, <2>9, <2>10 DEF Handled
  <2> QED
    BY <1>1, <2>11
<1>3. CASE P[c].phase \notin Running
  BY <1>3 DEF Write
<1> QED
  BY <1>2, <1>3

LEMMA HandledClosed ==
    ASSUME NEW P, NEW c, Handled(P, c),
           NEW s, s.cleanup = NoProc \/ (s.cleanup = c /\ c \in Proc)
    PROVE  Handled(Closed(s, P), c)
<1>1. PICK Q : Q = Closed(s, P)
  OBVIOUS
<1>2. CASE s.cleanup = NoProc
  BY <1>2 DEF Closed
<1>3. CASE s.cleanup = c /\ c \in Proc /\ c # NoProc
  <2>1. PICK q : q = IF P[c].phase \in Running THEN [P[c] EXCEPT !.eof = TRUE] ELSE IdleProc
    OBVIOUS
  <2>2. DOMAIN P[c] = Fields /\ DOMAIN P = Proc
    BY <1>3 DEF Handled
  <2>3. Q = [P EXCEPT ![c] = q]
    BY <1>1, <1>3, <2>1 DEF Closed, mail_stream_cleanup
  <2>4. /\ DOMAIN Q = Proc /\ Q[c] = q /\ \A p \in Proc : p # c => Q[p] = P[p]
    BY <1>3, <2>2, <2>3
  <2>5. /\ c # pick.p /\ "BOUNCE" \notin P[c].flags
        /\ Slid(P[c], proc[c]) \/ P[c] = IdleProc \/ Fresh(P[c])
        /\ \A p \in Proc : p # c => P[p] = proc[p]
    BY <1>3 DEF Handled
  <2>6. CASE P[c].phase \in Running
    <3>1. DOMAIN q = Fields /\ Slid(q, P[c])
      BY <2>1, <2>2, <2>6 DEF Fields, IdleProc, Slid
    <3>2. P[c] # IdleProc
      BY <2>6, EmptyTypes DEF Running
    <3>3. Slid(q, proc[c]) \/ Fresh(q)
      BY <2>5, <3>1, <3>2 DEF Slid, Fresh
    <3>4. "BOUNCE" \notin q.flags
      BY <2>5, <3>1 DEF Slid
    <3>5. Handled(Q, c)
      BY <2>4, <2>5, <3>1, <3>3, <3>4 DEF Handled
    <3> QED
      BY <1>1, <3>5
  <2>7. CASE P[c].phase \notin Running
    <3>1. q = IdleProc /\ DOMAIN q = Fields /\ "BOUNCE" \notin q.flags
      BY <2>1, <2>7, EmptyTypes DEF Fields
    <3>2. Handled(Q, c)
      BY <2>4, <2>5, <3>1 DEF Handled
    <3> QED
      BY <1>1, <3>2
  <2> QED
    BY <2>6, <2>7
<1> QED
  BY <1>2, <1>3

LEMMA HandledOpen ==
    ASSUME IInv, CanOpen, NEW s
    PROVE  AnyProc \in Proc /\ Handled(NewStream(s), AnyProc)
<1>1. PICK c : c = AnyProc
  OBVIOUS
<1>2. PICK i : i = NextFile
  OBVIOUS
<1>3. c \in Proc /\ i \in File /\ file[i].loc = "none" /\ c # pick.p
  BY <1>1, <1>2, OpeningFacts
<1>4. PICK q : q = [Opened({}) EXCEPT !.pipe = <<RecOf("FROM", s.sender)>>]
  OBVIOUS
<1>5. q.phase = "read" /\ q.id = i /\ q.flags = {} /\ DOMAIN q = Fields
  BY <1>2, <1>4 DEF Opened, IdleProc, Fields
<1>6. PICK Q : Q = NewStream(s)
  OBVIOUS
<1>7. Q = [proc EXCEPT ![c] = q]
  BY <1>1, <1>4, <1>6 DEF NewStream
<1>8. proc \in [Proc -> ProcType]
  BY SessFacts
<1>9. DOMAIN Q = Proc /\ Q[c] = q /\ \A p \in Proc : p # c => Q[p] = proc[p]
  BY <1>3, <1>7, <1>8
<1>10. Handled(Q, c)
  BY <1>3, <1>5, <1>9 DEF Handled, Fresh
<1> QED
  BY <1>1, <1>3, <1>6, <1>10

\* smtpd opens no file, or a new one.
LEMMA SessionOnce ==
    ASSUME IInv, IInv', CleanInv, left.clean, UNCHANGED <<pickupVars, file, bounced>>,
           NEW c, NEW P, Handled(P, c), proc' = P
    PROVE  CleanInv'
<1>1. Handled(proc', c)
  OBVIOUS
<1>2. \A i \in File : file'[i] = file[i]
  OBVIOUS
<1>3. UNCHANGED <<pickupVars, bounced>>
  OBVIOUS
<1> QED
  BY <1>1, <1>2, <1>3, SmtpdOnce

LEMMA OpensOnce ==
    ASSUME IInv, IInv', CleanInv, left.clean, UNCHANGED <<pickupVars, bounced>>,
           NEW c, NEW P, Handled(P, c), proc' = P, CanOpen,
           file' = [file EXCEPT ![NextFile] = NewFile]
    PROVE  CleanInv'
<1>1. Handled(proc', c)
  OBVIOUS
<1>2. PICK n \in File : n = NextFile /\ file[n].loc = "none"
  BY OpeningFacts
<1>3. file \in [File -> FileType]
  BY SessFacts
<1>4. file' = [file EXCEPT ![n] = NewFile]
  BY <1>2
<1>5. \A i \in File : file'[i] = file[i] \/ (file[i].loc = "none" /\ file'[i] = NewFile)
  BY <1>2, <1>3, <1>4
<1> QED
  BY <1>1, <1>5, SmtpdOnce

LEMMA MailOnce ==
    ASSUME IInv, IInv', CleanInv, left'.clean, UNCHANGED pickupVars, mail_cmd
    PROVE  CleanInv'
<1>0. left \in SetupType
  BY SessFacts
<1>1. CASE Reject(sess) \/ Reject(mail_reset(sess))
  <2>1. UNCHANGED <<pickupVars, file, bounced>> /\ proc' = proc /\ left.clean
    BY <1>1 DEF Reject
  <2> QED
    BY <2>1, HandledNot, SessionOnce
<1>2. CASE Spend("mail") /\ ~Reject(sess) /\ ~Reject(mail_reset(sess))
  <2>1. left.clean
    BY <1>0, <1>2, NoFaultYet
  <2>2. PICK m : m = left.mail
    OBVIOUS
  <2>3. PICK t : t = [sess EXCEPT !.sender = m]
    OBVIOUS
  <2>4. /\ UNCHANGED bounced
        /\ \/ UNCHANGED <<proc, file>>
           \/ mail_open_stream(t) /\ proc' = NewStream(t)
    BY <1>2, <2>2, <2>3 DEF mail_cmd
  <2>5. CASE UNCHANGED <<proc, file>>
    <3>1. UNCHANGED <<pickupVars, file, bounced>> /\ proc' = proc
      BY <2>4, <2>5
    <3> QED
      BY <2>1, <3>1, HandledNot, SessionOnce
  <2>6. CASE mail_open_stream(t) /\ proc' = NewStream(t)
    <3>1. CanOpen /\ file' = [file EXCEPT ![NextFile] = NewFile]
      BY <2>6 DEF mail_open_stream
    <3>2. UNCHANGED <<pickupVars, bounced>>
      BY <2>4
    <3>3. PICK P : P = NewStream(t) /\ proc' = P /\ Handled(P, AnyProc)
      BY <2>6, <3>1, HandledOpen
    <3> QED
      BY <2>1, <3>1, <3>2, <3>3, OpensOnce
  <2> QED
    BY <2>4, <2>5, <2>6
<1> QED
  BY <1>1, <1>2 DEF mail_cmd

LEMMA RcptOnce ==
    ASSUME IInv, IInv', CleanInv, left'.clean, UNCHANGED pickupVars, rcpt_cmd
    PROVE  CleanInv'
<1>0. left \in SetupType /\ sess \in SessType
      /\ (sess.cleanup # NoProc => sess.cleanup \in Proc)
  BY SessFacts
<1>1. CASE Reject(sess)
  <2>1. UNCHANGED <<pickupVars, file, bounced>> /\ proc' = proc /\ left.clean
    BY <1>1 DEF Reject
  <2> QED
    BY <2>1, HandledNot, SessionOnce
<1>2. CASE ~Reject(sess)
  <2>0. PICK flags \in {{}} \cup {{f} : f \in ActionFlag} :
          LET s == [sess EXCEPT !.saved_flags = @ \cup flags]
          IN  /\ IF flags = {} THEN UNCHANGED left ELSE Spend("verdict")
              /\ \/ sess' = s /\ UNCHANGED <<proc, file, sent>>
                 \/ s.cleanup # NoProc /\ Accept(s, proc) /\ UNCHANGED file
                 \/ /\ s.cleanup = NoProc /\ mail_open_stream(s)
                    /\ Accept([s EXCEPT !.cleanup = AnyProc], NewStream(s))
    BY <1>2 DEF rcpt_cmd
  <2>1. PICK s :
          /\ s = [sess EXCEPT !.saved_flags = @ \cup flags]
          /\ IF flags = {} THEN UNCHANGED left ELSE Spend("verdict")
          /\ \/ UNCHANGED <<proc, file>>
             \/ s.cleanup # NoProc /\ Accept(s, proc) /\ UNCHANGED file
             \/ /\ mail_open_stream(s)
                /\ Accept([s EXCEPT !.cleanup = AnyProc], NewStream(s))
    BY <2>0
  <2>2. bounced' = bounced
    BY <1>2 DEF rcpt_cmd
  <2>3. left.clean
    BY <1>0, <2>1, NoFaultYet
  <2>4. s.cleanup = sess.cleanup /\ DOMAIN s = DOMAIN sess /\ "cleanup" \in DOMAIN sess
    BY <1>0, <2>1 DEF SessType
  <2>5. CASE UNCHANGED <<proc, file>>
    <3>1. UNCHANGED <<pickupVars, file, bounced>> /\ proc' = proc
      BY <2>2, <2>5
    <3> QED
      BY <2>3, <3>1, HandledNot, SessionOnce
  <2>6. CASE s.cleanup # NoProc /\ Accept(s, proc) /\ UNCHANGED file
    <3>1. PICK c \in Proc : c = sess.cleanup /\ c = s.cleanup
      BY <1>0, <2>4, <2>6
    <3>2. PICK recs : proc' = Write(proc, c, recs)
      BY <2>6, <3>1 DEF Accept
    <3>3. UNCHANGED <<pickupVars, file, bounced>>
      BY <2>2, <2>6
    <3>4. Handled(proc, c)
      BY <3>1, HandledNot
    <3>5. PICK P : P = Write(proc, c, recs) /\ Handled(P, c)
      BY <3>4, HandledWrite
    <3> QED
      BY <2>3, <3>2, <3>3, <3>5, SessionOnce
  <2>7. CASE mail_open_stream(s) /\ Accept([s EXCEPT !.cleanup = AnyProc], NewStream(s))
    <3>1. CanOpen /\ file' = [file EXCEPT ![NextFile] = NewFile]
      BY <2>7 DEF mail_open_stream
    <3>2. UNCHANGED <<pickupVars, bounced>>
      BY <2>2
    <3>3. PICK c \in Proc, P0 \in {NewStream(s)} : c = AnyProc /\ Handled(P0, c)
      BY <3>1, HandledOpen
    <3>4. PICK t : t = [s EXCEPT !.cleanup = c]
      OBVIOUS
    <3>5. t.cleanup = c
      BY <2>4, <3>4
    <3>6. Accept(t, P0)
      BY <2>7, <3>3, <3>4
    <3>7. PICK recs : proc' = Write(P0, c, recs)
      BY <3>5, <3>6 DEF Accept
    <3>8. PICK P : P = Write(P0, c, recs) /\ Handled(P, c)
      BY <3>3, HandledWrite
    <3> QED
      BY <2>3, <3>1, <3>2, <3>7, <3>8, OpensOnce
  <2> QED
    BY <2>1, <2>5, <2>6, <2>7
<1> QED
  BY <1>1, <1>2

LEMMA DataOnce ==
    ASSUME IInv, IInv', CleanInv, left'.clean, UNCHANGED pickupVars, data_cmd
    PROVE  CleanInv'
<1>1. CASE Reject(sess)
  <2>1. UNCHANGED <<pickupVars, file, bounced>> /\ proc' = proc /\ left.clean
    BY <1>1 DEF Reject
  <2> QED
    BY <2>1, HandledNot, SessionOnce
<1>2. CASE ~Reject(sess)
  <2>1. /\ proc' = Write(proc, sess.cleanup, PreMessage(sess))
        /\ sess.phase = "cmd" /\ sess.rcpt_count > 0
        /\ UNCHANGED <<pickupVars, file, bounced>> /\ left.clean
    BY <1>2 DEF data_cmd, AtPrompt
  <2>2. PICK c \in Proc : c = sess.cleanup
    BY <2>1, SessFacts DEF SessOK, StreamMatches
  <2>3. PICK P : P = Write(proc, c, PreMessage(sess)) /\ Handled(P, c)
    BY <2>2, HandledNot, HandledWrite
  <2> QED
    BY <2>1, <2>2, <2>3, SessionOnce
<1> QED
  BY <1>1, <1>2

\* The end of a message.
LEMMA PostOnce ==
    ASSUME IInv, IInv', CleanInv, left.clean, UNCHANGED <<pickupVars, file, bounced>>,
           NEW c, NEW P, Handled(P, c), NEW s, s.cleanup = c, c = NoProc \/ c \in Proc,
           PostHandling(s, P) \/ \E err : Reply(s, P, err)
    PROVE  CleanInv'
<1>1. CASE proc' = Write(P, s.cleanup, PostMessage(s)) /\ s.cleanup # NoProc
  <2>1. PICK Q : Q = Write(P, c, PostMessage(s)) /\ Handled(Q, c)
    BY <1>1, HandledWrite
  <2> QED
    BY <1>1, <2>1, SessionOnce
<1>2. CASE proc' = Closed(s, P)
  <2>1. PICK Q : Q = Closed(s, P) /\ Handled(Q, c)
    BY HandledClosed
  <2> QED
    BY <1>2, <2>1, SessionOnce
<1> QED
  BY <1>1, <1>2 DEF PostHandling, Reply

LEMMA StoredOnce ==
    ASSUME NEW P, NEW c \in Proc, Handled(P, c), NEW s, s.cleanup = c
    PROVE  Handled(Stored(s, P), c)
BY HandledWrite DEF Stored

LEMMA ReceiveOnce ==
    ASSUME IInv, IInv', CleanInv, left'.clean, UNCHANGED pickupVars, receive_data_message
    PROVE  CleanInv'
<1>1. /\ sess \in SessType /\ SessOK /\ sess.phase = "data"
      /\ UNCHANGED <<pickupVars, file, bounced>> /\ left.clean
  BY SessFacts DEF receive_data_message
<1>2. PICK s \in Content(sess) : PostHandling(s, Stored(s, proc))
  BY Zenon DEF receive_data_message
<1>3. sess.err = {} /\ sess.cleanup # NoProc
  BY <1>1 DEF SessOK, StreamMatches
<1>4. PICK c \in Proc : c = sess.cleanup /\ s.cleanup = c
  BY <1>1, <1>2, <1>3, ContentIs, SessFacts
<1>5. PICK P : P = Stored(s, proc) /\ Handled(P, c)
  BY <1>4, HandledNot, StoredOnce
<1>6. PostHandling(s, P)
  BY <1>2, <1>5, Zenon
<1> QED
  BY <1>1, <1>4, <1>5, <1>6, PostOnce

LEMMA BdatOnce ==
    ASSUME IInv, IInv', CleanInv, left'.clean, UNCHANGED pickupVars,
           NEW last \in BOOLEAN, bdat_cmd(last)
    PROVE  CleanInv'
<1>1. /\ sess \in SessType /\ SessOK
      /\ UNCHANGED <<pickupVars, file, bounced>> /\ left.clean
      /\ sess.cleanup = NoProc \/ sess.cleanup \in Proc
  BY SessFacts DEF bdat_cmd
<1>2. CASE skip_bdat(last)
  <2>1. CASE proc' = proc
    BY <1>1, <2>1, HandledNot, SessionOnce
  <2>2. CASE proc' = Closed(sess, proc)
    <3>1. PICK P : P = Closed(sess, proc) /\ Handled(P, sess.cleanup)
      BY <1>1, HandledNot, HandledClosed
    <3> QED
      BY <1>1, <2>2, <3>1, SessionOnce
  <2> QED
    BY <1>2, <2>1, <2>2 DEF skip_bdat
<1>3. CASE ~skip_bdat(last)
  <2>1. PICK t : t = [sess EXCEPT !.bdat_state = "OK"]
    OBVIOUS
  <2>2. PICK P0 : P0 = IF ProcessingBdat THEN proc ELSE Write(proc, sess.cleanup, PreMessage(sess))
    OBVIOUS
  <2>3. /\ sess.phase = "cmd" /\ sess.bdat_state # "ERROR"
        /\ ProcessingBdat \/ sess.rcpt_count > 0
    BY <1>3 DEF bdat_cmd, AtPrompt
  <2>4. PICK s \in Content(t) : Chunk(s, Stored(s, P0), last)
    BY <1>3, <2>1, <2>2, Zenon DEF bdat_cmd
  <2>5. t \in SessType /\ t.err = {} /\ t.cleanup = sess.cleanup
    BY <1>1, <2>1 DEF SessType, SessOK
  <2>6. sess.cleanup # NoProc
    BY <1>1, <2>3 DEF SessOK, StreamMatches, ProcessingBdat, SessType
  <2>7. PICK c \in Proc : c = sess.cleanup /\ s.cleanup = c
    BY <1>1, <2>4, <2>5, <2>6, ContentIs
  <2>8. Handled(P0, c)
    BY <2>2, <2>7, HandledNot, HandledWrite
  <2>9. PICK P : P = Stored(s, P0) /\ Handled(P, c)
    BY <2>7, <2>8, StoredOnce
  <2>10. Chunk(s, P, last)
    BY <2>4, <2>9, Zenon
  <2>11. CASE PostHandling(s, P)
    BY <1>1, <2>7, <2>9, <2>11, PostOnce
  <2>12. CASE Reply([s EXCEPT !.post = "ERROR"], P, s.err)
    <3>1. PICK s1 : s1 = [s EXCEPT !.post = "ERROR"]
      OBVIOUS
    <3>2. s \in SessType
      BY <2>4, <2>5, ContentIs
    <3>3. s1.cleanup = c
      BY <2>7, <3>1, <3>2 DEF SessType
    <3>4. \E err : Reply(s1, P, err)
      BY <2>12, <3>1
    <3> QED
      BY <1>1, <2>9, <3>3, <3>4, PostOnce
  <2>13. CASE proc' = P
    BY <1>1, <2>9, <2>13, SessionOnce
  <2> QED
    BY <2>10, <2>11, <2>12, <2>13 DEF Chunk
<1> QED
  BY <1>2, <1>3

LEMMA SmtpdOnceMore ==
    ASSUME IInv, IInv', CleanInv, left'.clean, UNCHANGED pickupVars, SmtpdNext
    PROVE  CleanInv'
<1>0. sess.cleanup = NoProc \/ sess.cleanup \in Proc
  BY SessFacts
<1>1. CASE Connect
  <2>1. UNCHANGED <<pickupVars, file, bounced>> /\ proc' = proc /\ left.clean
    BY <1>1 DEF Connect
  <2> QED
    BY <2>1, HandledNot, SessionOnce
<1>2. CASE rset_cmd \/ helo_cmd \/ starttls_cmd \/ EndSession
  <2>1. UNCHANGED <<pickupVars, file, bounced>> /\ proc' = Closed(sess, proc) /\ left.clean
    BY <1>2 DEF rset_cmd, helo_cmd, starttls_cmd, EndSession
  <2>2. PICK P : P = Closed(sess, proc) /\ Handled(P, sess.cleanup)
    BY <1>0, HandledNot, HandledClosed
  <2> QED
    BY <2>1, <2>2, SessionOnce
<1>3. CASE SmtpdDies
  BY <1>3, NoFault DEF SmtpdDies
<1>4. CASE SmtpdFinish
  <2>1. /\ UNCHANGED <<pickupVars, file, bounced>> /\ left.clean
        /\ \E err : Reply(sess, proc, err)
    BY <1>4 DEF SmtpdFinish
  <2> QED
    BY <1>0, <2>1, HandledNot, PostOnce
<1>5. ASSUME NEW last \in BOOLEAN, bdat_cmd(last)
      PROVE  CleanInv'
  BY <1>5, BdatOnce, Zenon
<1> QED
  BY <1>1, <1>2, <1>3, <1>4, <1>5, MailOnce, RcptOnce, DataOnce, ReceiveOnce, Zenon DEF SmtpdNext

-----------------------------------------------------------------------------
(***************************************************************************)
(* The steps of pickup and postdrop.                                       *)
(***************************************************************************)
\* What has a message in it is not a free file.
LEMMA NotFree ==
    ASSUME IInv
    PROVE  /\ \A p \in Proc : proc[p].id \in File => file[proc[p].id].loc # "none"
           /\ \A i \in File : file[i].ready => file[i].loc # "none"
           /\ \A p \in Proc : proc[p].phase \in Running \cup {"answered"} => proc[p].id \in File
<1>1. ASSUME NEW p \in Proc, proc[p].id \in File
      PROVE  file[proc[p].id].loc # "none"
  <2>1. PICK q, ph : q = proc[p] /\ ph = q.phase
    OBVIOUS
  <2>2. CASE ph \in {"idle", "dead"}
    <3>1. q = [IdleProc EXCEPT !.phase = ph]
      BY <2>1, <2>2 DEF IInv, ProcOK
    <3>2. q.id = NoFile /\ NoFile \notin File
      BY <3>1, Numbers DEF IdleProc, File, NoFile
    <3> QED
      BY <1>1, <2>1, <3>2
  <2>3. CASE ph \in Running \cup {"answered"}
    BY <1>1, <2>1, <2>3 DEF IInv, ProcOK
  <2> QED
    BY <2>1, <2>2, <2>3, SessFacts DEF ProcType
<1>2. ASSUME NEW i \in File, file[i].ready
      PROVE  file[i].loc # "none"
  <2>1. ~[NewFile EXCEPT !.loc = "none"].ready
    BY DEF NewFile
  <2> QED
    BY <1>2, <2>1 DEF IInv, FileOK
<1> QED
  BY <1>1, <1>2 DEF IInv, ProcOK

\* pickup opens a connection.
LEMMA OpenOnce ==
    ASSUME IInv, IInv', CleanInv, left'.clean, UNCHANGED smtpdVars,
           NEW d \in Drop, PickupOpen(d)
    PROVE  CleanInv'
<1>1. /\ pick.phase = "idle" /\ drop[d].loc = "maildrop" /\ CanOpen /\ left.clean
      /\ UNCHANGED <<bounced, left, drop>>
  BY DEF PickupOpen
<1>2. PICK c, n, q : c = AnyProc /\ n = NextFile /\ q = Opened({"BOUNCE"})
  OBVIOUS
<1>3. /\ c \in Proc /\ n \in File /\ file[n].loc = "none" /\ proc[c] = IdleProc /\ c # NoProc
      /\ \A m \in Msg : ~Carries(n, m)
      /\ \A r \in Proc : proc[r].id # n
  BY <1>1, <1>2, OpeningFacts
<1>4. q.phase = "read" /\ q.id = n /\ q.pipe = <<>>
  BY <1>2 DEF Opened, IdleProc
<1>5. /\ file' = [file EXCEPT ![n] = NewFile] /\ proc' = [proc EXCEPT ![c] = q]
      /\ pick' = [phase |-> "copy", d |-> d, p |-> c]
  BY <1>2 DEF PickupOpen
<1>6. /\ \A p \in Proc : CancelOK(p)
      /\ \A e \in Drop : OnceOK(e)
      /\ proc \in [Proc -> ProcType] /\ file \in [File -> FileType]
      /\ Drop \subseteq Msg /\ NoMsg \notin Msg /\ NoFile \notin File
  BY <1>1, CleanFacts
<1>7. /\ proc'[c] = q /\ \A r \in Proc : r # c => proc'[r] = proc[r]
      /\ file'[n] = NewFile /\ \A i \in File : i # n => file'[i] = file[i]
      /\ pick'.phase = "copy" /\ pick'.d = d /\ pick'.p = c
  BY <1>3, <1>5, <1>6
<1>8. pick.p = NoProc /\ pick.phase # "remove"
  BY <1>1, PickHas
<1>9. NewFile.data.from = NoMsg
  BY EmptyTypes DEF NewFile
<1>10. ASSUME NEW r \in Proc
       PROVE  CancelOK(r)'
  <2>1. CASE r = c
    BY <1>4, <1>7, <2>1 DEF CancelOK
  <2>2. CASE r # c /\ proc[r].id \in File
    <3>1. proc'[r] = proc[r] /\ file'[proc[r].id] = file[proc[r].id]
      BY <1>3, <1>7, <2>2
    <3> QED
      BY <1>6, <3>1 DEF CancelOK, Commits
  <2>3. CASE r # c /\ proc[r].id \notin File
    <3>1. proc'[r] = proc[r] /\ proc[r].phase \notin Running \cup {"answered"}
      BY <1>7, <2>3, NotFree
    <3> QED
      BY <1>6, <3>1 DEF CancelOK, Running
  <2> QED
    BY <2>1, <2>2, <2>3
<1>11. ASSUME NEW i \in File, NEW e \in Drop, Carries(i, e)'
       PROVE  Carries(i, e) /\ i # n
  <2>1. CASE file'[i].data.from = e
    <3>1. i # n
      BY <1>6, <1>7, <1>9, <2>1
    <3> QED
      BY <1>7, <2>1, <3>1 DEF Carries
  <2>2. CASE file'[i].data.from # e
    <3>1. PICK p \in Proc : /\ proc'[p].phase = "read" /\ proc'[p].id = i /\ proc'[p].pipe # <<>>
                            /\ Head(proc'[p].pipe) = RecOf("FROM", e)
      BY <1>11, <2>2 DEF Carries
    <3>2. p # c
      BY <1>4, <1>7, <3>1
    <3> QED
      BY <1>3, <1>7, <3>1, <3>2 DEF Carries
  <2> QED
    BY <2>1, <2>2
<1>12. ASSUME NEW e \in Drop
       PROVE  OnceOK(e)'
  <2>1. OnceOK(e) /\ \A i \in File : ~Copies(i, e)
    BY <1>6, <1>8 DEF Copies
  <2>2. Settled(e) => drop[e].loc = "removed" /\ Settled(e)'
    BY <1>1, <1>8 DEF Settled
  <2>3. Settled(e) => e # d
    BY <1>1, <2>2
  <2>4. ~drop'[e].torn /\ (pick'.phase # "idle" /\ pick'.d = e => drop'[e].loc = "maildrop")
    BY <1>1, <1>7, <2>1 DEF OnceOK
  <2>5. ASSUME NEW i \in File, Carries(i, e)'
        PROVE  Settled(e)' /\ file'[i].ready /\ \A r \in Proc : proc'[r].id # i
    <3>1. Carries(i, e) /\ i # n
      BY <1>11, <2>5
    <3>2. Settled(e) /\ file[i].ready /\ \A r \in Proc : proc[r].id # i
      BY <2>1, <3>1 DEF OnceOK
    <3> QED
      BY <1>4, <1>7, <2>2, <3>1, <3>2
  <2>6. \A i, j \in File : Carries(i, e)' /\ Carries(j, e)' => i = j
    BY <1>11, <2>1 DEF OnceOK
  <2>7. ASSUME e \in bounced'
        PROVE  Settled(e)' /\ \A i \in File : ~Carries(i, e)'
    BY <1>1, <1>8, <1>11, <2>1, <2>2, <2>7 DEF OnceOK
  <2> QED
    BY <2>4, <2>5, <2>6, <2>7 DEF OnceOK
<1> QED
  BY <1>10, <1>12 DEF CleanInv

\* pickup writes to its process.
LEMMA CopyOnce ==
    ASSUME IInv, IInv', CleanInv, left.clean, UNCHANGED smtpdVars,
           pick.phase \in {"copy", "rest"}, UNCHANGED <<file, bounced, left, drop>>,
           NEW recs, proc' = Write(proc, pick.p, recs),
           pick'.phase \in {"rest", "wait"}, pick'.d = pick.d, pick'.p = pick.p
    PROVE  CleanInv'
<1>1. /\ \A p \in Proc : CancelOK(p)
      /\ \A e \in Drop : OnceOK(e)
      /\ proc \in [Proc -> ProcType]
  BY CleanFacts
<1>2. PICK c \in Proc, d \in Drop : c = pick.p /\ d = pick.d /\ c # NoProc
  BY PickHas
<1>3. /\ \A r \in Proc : r # c => proc'[r] = proc[r]
      /\ Slid(proc'[c], proc[c])
  <2>1. PICK t : t = proc[c].pipe \o recs
    OBVIOUS
  <2>2. PICK q : q = [proc[c] EXCEPT !.pipe = t]
    OBVIOUS
  <2>3. Slid(q, proc[c])
    BY <1>1, <2>2 DEF ProcType, Slid
  <2>4. proc' = [proc EXCEPT ![c] = q] \/ proc' = proc
    BY <1>2, <2>1, <2>2 DEF Write
  <2> QED
    BY <1>1, <2>3, <2>4 DEF Slid
<1>4. \A r \in Proc : /\ proc'[r].phase = proc[r].phase /\ proc'[r].id = proc[r].id
                      /\ proc'[r].errs = proc[r].errs /\ proc'[r].flags = proc[r].flags
  BY <1>3 DEF Slid
<1>5. file' = file /\ drop' = drop /\ bounced' = bounced
  OBVIOUS
<1>6. ASSUME NEW r \in Proc
      PROVE  CancelOK(r)'
  BY <1>1, <1>4, <1>5 DEF CancelOK, Commits
<1>7. ASSUME NEW i \in File, NEW e \in Drop, Carries(i, e)'
      PROVE  Carries(i, e) \/ (e = d /\ i = proc[c].id)
  <2>1. CASE file'[i].data.from = e
    BY <1>5, <2>1 DEF Carries
  <2>2. CASE file'[i].data.from # e
    <3>1. PICK p \in Proc : /\ proc'[p].phase = "read" /\ proc'[p].id = i /\ proc'[p].pipe # <<>>
                            /\ Head(proc'[p].pipe) = RecOf("FROM", e)
      BY <1>7, <2>2 DEF Carries
    <3>2. CASE p = c
      BY <1>2, <1>4, <3>1, <3>2, LocalMail
    <3>3. CASE p # c
      BY <1>3, <3>1, <3>3 DEF Carries
    <3> QED
      BY <3>2, <3>3
  <2> QED
    BY <2>1, <2>2
<1>8. OnceOK(d) /\ drop[d].loc = "maildrop" /\ ~Settled(d)
  BY <1>1, <1>2 DEF OnceOK, Settled
<1>9. ASSUME NEW i \in File, Carries(i, d)'
      PROVE  i = proc[c].id
  BY <1>2, <1>7, <1>8, <1>9 DEF OnceOK, Copies
<1>10. ASSUME NEW e \in Drop
       PROVE  OnceOK(e)'
  <2>1. OnceOK(e) /\ (Settled(e)' <=> Settled(e))
    BY <1>1, <1>5 DEF Settled
  <2>2. ~drop'[e].torn /\ (pick'.phase # "idle" /\ pick'.d = e => drop'[e].loc = "maildrop")
    BY <1>5, <2>1 DEF OnceOK
  <2>3. ASSUME NEW i \in File, Carries(i, e)'
        PROVE  \/ Copies(i, e)'
               \/ Settled(e)' /\ file'[i].ready /\ \A r \in Proc : proc'[r].id # i
    <3>1. CASE e = d
      BY <1>2, <1>4, <1>9, <2>3, <3>1 DEF Copies
    <3>2. CASE e # d
      <4>1. Carries(i, e) /\ ~Copies(i, e)
        BY <1>2, <1>7, <2>3, <3>2 DEF Copies
      <4> QED
        BY <1>4, <1>5, <2>1, <4>1 DEF OnceOK
    <3> QED
      BY <3>1, <3>2
  <2>4. \A i, j \in File : Carries(i, e)' /\ Carries(j, e)' => i = j
    BY <1>7, <1>9, <2>1 DEF OnceOK
  <2>5. ASSUME e \in bounced'
        PROVE  \/ Settled(e)' /\ \A i \in File : ~Carries(i, e)'
               \/ pick'.d = e /\ pick'.p # NoProc /\ Withdrawn(proc'[pick'.p])
    <3>1. CASE e = d
      <4>1. Withdrawn(proc[c])
        BY <1>2, <1>5, <1>8, <2>5, <3>1 DEF OnceOK
      <4>2. Withdrawn(proc'[c])
        BY <1>4, <4>1 DEF Withdrawn
      <4> QED
        BY <1>2, <3>1, <4>2
    <3>2. CASE e # d
      BY <1>2, <1>5, <1>7, <2>1, <2>5, <3>2 DEF OnceOK
    <3> QED
      BY <3>1, <3>2
  <2> QED
    BY <2>2, <2>3, <2>4, <2>5 DEF OnceOK
<1> QED
  BY <1>6, <1>10 DEF CleanInv

LEMMA FinishOnce ==
    ASSUME IInv, IInv', CleanInv, left'.clean, UNCHANGED smtpdVars, PickupFinish
    PROVE  CleanInv'
<1>1. /\ pick.phase = "wait" /\ Answered(pick.p) /\ left.clean
      /\ proc' = mail_stream_cleanup(proc, pick.p)
      /\ file' = file /\ bounced' = bounced /\ drop' = drop
  BY DEF PickupFinish
<1>2. /\ \A p \in Proc : CancelOK(p)
      /\ \A e \in Drop : OnceOK(e)
      /\ \A p \in Proc : ProcOK(p)
      /\ \A i \in File : FileOK(i)
      /\ OwnFile
      /\ proc \in [Proc -> ProcType]
      /\ Drop \subseteq Msg /\ NoMsg \notin Msg /\ NoFile \notin File
  BY <1>1, CleanFacts
<1>3. PICK c \in Proc, d \in Drop : /\ c = pick.p /\ d = pick.d /\ c # NoProc
                                    /\ ~proc[c].eof
  BY <1>1, PickHas
<1>4. proc[c].phase = "answered"
  BY <1>1, <1>2, <1>3 DEF Answered, CancelOK
<1>5. PICK id \in File : id = proc[c].id
  BY <1>2, <1>4 DEF ProcOK
<1>6. proc' = [proc EXCEPT ![c] = IdleProc]
  BY <1>1, <1>3, <1>4 DEF mail_stream_cleanup, Running
<1>7. /\ proc'[c] = IdleProc /\ \A r \in Proc : r # c => proc'[r] = proc[r]
      /\ IdleProc.id = NoFile /\ IdleProc.phase = "idle"
  BY <1>2, <1>6, EmptyTypes
<1>8. \A r \in Proc : proc'[r].id # id
  BY <1>2, <1>4, <1>5, <1>7 DEF OwnFile
<1>9. ASSUME NEW r \in Proc
      PROVE  CancelOK(r)'
  <2>1. CASE r = c
    BY <1>7, <2>1 DEF CancelOK
  <2>2. CASE r # c
    BY <1>1, <1>2, <1>7, <2>2 DEF CancelOK, Commits
  <2> QED
    BY <2>1, <2>2
<1>10. ASSUME NEW i \in File, NEW e \in Drop, Carries(i, e)'
       PROVE  Carries(i, e)
  BY <1>1, <1>7, <1>10 DEF Carries
<1>11. mail_stream_finish_ipc(pick.p) = proc[c].errs
  BY <1>3, <1>4 DEF mail_stream_finish_ipc
<1>12. Removable(proc[c].errs) <=> proc[c].errs = {}
  BY <1>2, <1>3 DEF Removable, ProcOK
<1>13. Commits(proc[c]) => file[id].ready
  BY <1>2, <1>4, <1>5 DEF ProcOK, Good
<1>14. ~Commits(proc[c]) => file[id].data.from = NoMsg
  <2>1. ~Commits(proc[c]) => file[id].loc = "removed"
    BY <1>2, <1>4, <1>5 DEF CancelOK
  <2> QED
    BY <1>2, <2>1, EmptyTypes DEF FileOK
<1>15. ~Commits(proc[c]) => ~Carries(id, d)
  <2>1. ASSUME NEW p \in Proc, proc[p].id = id
        PROVE  proc[p].phase # "read"
    BY <1>2, <1>4, <1>5, <2>1 DEF OwnFile
  <2> QED
    BY <1>2, <1>14, <2>1 DEF Carries
<1>16. OnceOK(d) /\ drop[d].loc = "maildrop" /\ ~Settled(d)
  BY <1>1, <1>2, <1>3 DEF OnceOK, Settled
<1>17. \A i \in File : Carries(i, d) => i = id
  BY <1>3, <1>5, <1>16 DEF OnceOK, Copies
<1>18. d \in bounced => Withdrawn(proc[c])
  BY <1>3, <1>16 DEF OnceOK
\* the other messages
<1>19. ASSUME NEW e \in Drop, e # d
       PROVE  OnceOK(e)'
  <2>1. OnceOK(e) /\ Settled(e)' = Settled(e)
    <3>1. pick'.d = d \/ pick' = PickIdle
      BY <1>3, SessFacts DEF PickupFinish, PickupTypeOK, PickType
    <3>2. PickIdle.phase = "idle"
      BY DEF PickIdle
    <3> QED
      BY <1>1, <1>2, <1>3, <1>19, <3>1, <3>2 DEF Settled
  <2>2. ~drop'[e].torn /\ (pick'.phase # "idle" /\ pick'.d = e => drop'[e].loc = "maildrop")
    <3>1. pick'.d = d \/ pick'.phase = "idle"
      BY <1>3, SessFacts DEF PickupFinish, PickupTypeOK, PickType, PickIdle
    <3> QED
      BY <1>1, <1>19, <2>1, <3>1 DEF OnceOK
  <2>3. ASSUME NEW i \in File, Carries(i, e)'
        PROVE  Settled(e)' /\ file'[i].ready /\ \A r \in Proc : proc'[r].id # i
    <3>1. Settled(e) /\ file[i].ready /\ \A r \in Proc : proc[r].id # i
      BY <1>3, <1>10, <1>19, <2>1, <2>3 DEF OnceOK, Copies
    <3> QED
      BY <1>1, <1>2, <1>7, <2>1, <3>1
  <2>4. \A i, j \in File : Carries(i, e)' /\ Carries(j, e)' => i = j
    BY <1>10, <2>1 DEF OnceOK
  <2>5. ASSUME e \in bounced'
        PROVE  Settled(e)' /\ \A i \in File : ~Carries(i, e)'
    BY <1>1, <1>3, <1>10, <1>19, <2>1, <2>5 DEF OnceOK
  <2> QED
    BY <2>2, <2>3, <2>4, <2>5 DEF OnceOK
<1>20. \A i, j \in File : Carries(i, d)' /\ Carries(j, d)' => i = j
  BY <1>10, <1>17
<1>21. ~drop'[d].torn /\ drop'[d].loc = "maildrop"
  BY <1>1, <1>16 DEF OnceOK
\* accepted, discarded or returned to its sender
<1>22. CASE proc[c].errs = {}
  <2>1. pick'.phase = "remove" /\ pick'.d = d
    BY <1>3, <1>11, <1>12, <1>22, SessFacts DEF PickupFinish, PickupTypeOK, PickType
  <2>2. Settled(d)'
    BY <2>1 DEF Settled
  <2>3. ASSUME NEW i \in File, Carries(i, d)'
        PROVE  file'[i].ready /\ \A r \in Proc : proc'[r].id # i
    BY <1>1, <1>8, <1>10, <1>13, <1>15, <1>17, <2>3
  <2>4. d \in bounced' => \A i \in File : ~Carries(i, d)'
    <3>1. d \in bounced' => ~Commits(proc[c])
      BY <1>1, <1>18 DEF Withdrawn, Commits
    <3> QED
      BY <1>10, <1>15, <1>17, <3>1
  <2>5. OnceOK(d)'
    BY <1>20, <1>21, <2>2, <2>3, <2>4 DEF OnceOK
  <2> QED
    BY <1>9, <1>19, <2>5 DEF CleanInv
\* to be tried again
<1>23. CASE proc[c].errs # {}
  <2>1. pick'.phase = "idle"
    BY <1>11, <1>12, <1>23 DEF PickupFinish, PickIdle
  <2>2. \A i \in File : ~Carries(i, d)'
    BY <1>10, <1>15, <1>17, <1>23 DEF Commits
  <2>3. d \notin bounced'
    BY <1>1, <1>18, <1>23 DEF Withdrawn
  <2>4. OnceOK(d)'
    BY <1>21, <2>1, <2>2, <2>3 DEF OnceOK
  <2> QED
    BY <1>9, <1>19, <2>4 DEF CleanInv
<1> QED
  BY <1>22, <1>23

\* The maildrop files change, and pickup may be done.
LEMMA DropsOnce ==
    ASSUME IInv, CleanInv, left.clean, UNCHANGED <<smtpdVars, proc, file, bounced>>,
           NEW d \in Drop, NEW D, drop' = [drop EXCEPT ![d] = D], D.torn = drop[d].torn,
           \/ /\ pick' = pick
              /\ \/ D.loc = drop[d].loc
                 \/ drop[d].loc # "removed" /\ ~(pick.phase # "idle" /\ pick.d = d)
           \/ pick.phase = "remove" /\ pick.d = d /\ D.loc = "removed" /\ pick' = PickIdle
    PROVE  CleanInv'
<1>1. /\ \A p \in Proc : CancelOK(p)
      /\ \A e \in Drop : OnceOK(e)
  BY CleanFacts
<1>2. proc' = proc /\ file' = file /\ bounced' = bounced
  OBVIOUS
<1>3. drop'[d] = D /\ \A e \in Drop : e # d => drop'[e] = drop[e]
  BY SessFacts DEF PickupTypeOK
<1>4. \A p \in Proc : CancelOK(p)'
  BY <1>1, <1>2 DEF CancelOK, Commits
<1>5. \A i \in File, e \in Drop : Carries(i, e)' <=> Carries(i, e)
  BY <1>2 DEF Carries
<1>6. PickIdle.phase = "idle"
  BY DEF PickIdle
<1>7. ASSUME NEW e \in Drop
      PROVE  OnceOK(e)'
  <2>1. OnceOK(e)
    BY <1>1
  <2>2. ~drop'[e].torn
    BY <1>3, <2>1 DEF OnceOK
  <2>3. pick'.phase # "idle" /\ pick'.d = e => drop'[e].loc = "maildrop"
    BY <1>3, <1>6, <2>1 DEF OnceOK
  <2>4. Settled(e) => Settled(e)'
    BY <1>3, <1>6 DEF Settled
  <2>5. pick' = pick \/ (pick.phase = "remove" /\ pick.p = NoProc)
    BY PickFacts
  <2>6. ASSUME NEW i \in File, Carries(i, e)'
        PROVE  \/ Copies(i, e)'
               \/ Settled(e)' /\ file'[i].ready /\ \A r \in Proc : proc'[r].id # i
    BY <1>2, <1>5, <2>1, <2>4, <2>5, <2>6 DEF OnceOK, Copies
  <2>7. \A i, j \in File : Carries(i, e)' /\ Carries(j, e)' => i = j
    BY <1>5, <2>1 DEF OnceOK
  <2>8. ASSUME e \in bounced'
        PROVE  \/ Settled(e)' /\ \A i \in File : ~Carries(i, e)'
               \/ pick'.d = e /\ pick'.p # NoProc /\ Withdrawn(proc'[pick'.p])
    BY <1>2, <1>5, <2>1, <2>4, <2>5, <2>8 DEF OnceOK
  <2> QED
    BY <2>2, <2>3, <2>6, <2>7, <2>8 DEF OnceOK
<1> QED
  BY <1>4, <1>7 DEF CleanInv

LEMMA PostdropOnce ==
    ASSUME IInv, CleanInv, left'.clean, UNCHANGED smtpdVars,
           NEW d \in Drop, PostdropStart(d) \/ PostdropStep(d) \/ postdrop_sig(d)
    PROVE  CleanInv'
<1>1. /\ drop[d] \in DropType /\ DropOK(d) /\ left \in SetupType
      /\ drop \in [Drop -> DropType]
  BY DropFacts, SessFacts
<1>2. pick.phase # "idle" /\ pick.d = d => drop[d].ready
  BY PickFacts
<1>3. CASE PostdropStart(d)
  <2>1. /\ drop[d].post = "none" /\ Spend("drop") /\ pick' = pick
        /\ UNCHANGED <<smtpdVars, proc, file, bounced>>
        /\ drop' = [drop EXCEPT ![d].loc = "maildrop", ![d].post = "write"]
    BY <1>3 DEF PostdropStart
  <2>2. left.clean
    BY <1>1, <2>1, NoFaultYet
  <2>3. drop[d].loc = "none" /\ ~drop[d].ready
    BY <1>1, <2>1 DEF DropOK, NoDrop
  <2>4. PICK D : D = [drop[d] EXCEPT !.loc = "maildrop", !.post = "write"]
    OBVIOUS
  <2>5. D.torn = drop[d].torn /\ drop' = [drop EXCEPT ![d] = D]
    BY <1>1, <2>1, <2>4 DEF DropType
  <2> QED
    BY <1>2, <2>1, <2>2, <2>3, <2>5, DropsOnce
<1>4. CASE PostdropInput(d)
  <2>1. /\ drop[d].post = "write" /\ pick' = pick /\ left' = left
        /\ UNCHANGED <<smtpdVars, proc, file, bounced>>
    BY <1>4 DEF PostdropInput
  <2>2. drop[d].loc = "maildrop" /\ ~drop[d].ready
    BY <1>1, <2>1 DEF DropOK
  <2>3. PICK D : D.torn = drop[d].torn /\ drop' = [drop EXCEPT ![d] = D]
    <3>1. PICK D1, D2, D3 : /\ D1 = [drop[d] EXCEPT !.post = "chmod"]
                            /\ D2 = [DropRemoved(drop[d]) EXCEPT !.post = "dead"]
                            /\ D3 = [drop[d] EXCEPT !.post = "tell", !.status = {"BAD"}]
      OBVIOUS
    <3>2. D1.torn = drop[d].torn /\ D2.torn = drop[d].torn /\ D3.torn = drop[d].torn
      BY <1>1, <3>1 DEF DropType, DropRemoved
    <3>3. \/ drop' = [drop EXCEPT ![d] = D1] \/ drop' = [drop EXCEPT ![d] = D2]
          \/ drop' = [drop EXCEPT ![d] = D3]
      BY <1>1, <1>4, <3>1 DEF PostdropInput
    <3> QED
      BY <3>2, <3>3
  <2> QED
    BY <1>2, <2>1, <2>2, <2>3, DropsOnce
<1>5. CASE PostdropChmod(d) \/ PostdropSync(d) \/ PostdropForget(d) \/ PostdropTell(d)
  <2>1. pick' = pick /\ UNCHANGED <<smtpdVars, proc, file, bounced>>
    BY <1>5 DEF PostdropChmod, PostdropSync, PostdropForget, PostdropTell
  <2>2. ~PostdropFail(d, drop[d])
    BY NoFault DEF PostdropFail
  <2>3. /\ left' = left
        /\ \/ drop' = [drop EXCEPT ![d].post = "sync", ![d].ready = TRUE]
           \/ drop' = [drop EXCEPT ![d].post = "forget", ![d].synced = TRUE]
           \/ drop' = [drop EXCEPT ![d].post = "tell"]
           \/ drop' = [drop EXCEPT ![d].post = "done",
                                   ![d].user = IF drop[d].status = {} THEN "ok" ELSE "error"]
    BY <1>5, <2>2 DEF PostdropChmod, PostdropSync, PostdropForget, PostdropTell
  <2>4. PICK u : u = IF drop[d].status = {} THEN "ok" ELSE "error"
    OBVIOUS
  <2>5. PICK D1, D2, D3, D4 :
          /\ D1 = [drop[d] EXCEPT !.post = "sync", !.ready = TRUE]
          /\ D2 = [drop[d] EXCEPT !.post = "forget", !.synced = TRUE]
          /\ D3 = [drop[d] EXCEPT !.post = "tell"]
          /\ D4 = [drop[d] EXCEPT !.post = "done", !.user = u]
    OBVIOUS
  <2>6. /\ D1.torn = drop[d].torn /\ D1.loc = drop[d].loc
        /\ D2.torn = drop[d].torn /\ D2.loc = drop[d].loc
        /\ D3.torn = drop[d].torn /\ D3.loc = drop[d].loc
        /\ D4.torn = drop[d].torn /\ D4.loc = drop[d].loc
    BY <1>1, <2>5 DEF DropType
  <2>7. \/ drop' = [drop EXCEPT ![d] = D1] \/ drop' = [drop EXCEPT ![d] = D2]
        \/ drop' = [drop EXCEPT ![d] = D3] \/ drop' = [drop EXCEPT ![d] = D4]
    BY <1>1, <2>3, <2>4, <2>5
  <2>8. PICK D : /\ D.torn = drop[d].torn /\ D.loc = drop[d].loc
                 /\ drop' = [drop EXCEPT ![d] = D]
    BY <2>6, <2>7
  <2> QED
    BY <2>1, <2>3, <2>8, DropsOnce
<1>6. CASE postdrop_sig(d)
  BY <1>6, NoFault DEF postdrop_sig
<1> QED
  BY <1>3, <1>4, <1>5, <1>6 DEF PostdropStep

LEMMA PickupOnceMore ==
    ASSUME IInv, IInv', CleanInv, left'.clean, UNCHANGED smtpdVars, PickupNext
    PROVE  CleanInv'
<1>1. ASSUME NEW d \in Drop, PickupOpen(d)
      PROVE  CleanInv'
  BY <1>1, OpenOnce
<1>2. CASE PickupCopy
  <2>1. /\ pick.phase = "copy" /\ UNCHANGED <<file, bounced, left, drop>>
        /\ left.clean
    BY <1>2 DEF PickupCopy
  <2>2. /\ pick \in PickType /\ pick.d \in Drop
    BY <2>1, PickFacts
  <2>3. ~drop[pick.d].torn
    BY <2>1, <2>2, CleanFacts DEF OnceOK
  <2>4. PICK recs : proc' = Write(proc, pick.p, recs)
    BY <1>2, <2>3 DEF PickupCopy
  <2>5. pick'.phase = "rest" /\ pick'.d = pick.d /\ pick'.p = pick.p
    BY <1>2, <2>2, <2>3 DEF PickupCopy, PickType
  <2> QED
    BY <2>1, <2>4, <2>5, CopyOnce
<1>3. CASE PickupRest
  <2>1. /\ pick.phase = "rest" /\ UNCHANGED <<file, bounced, left, drop>>
        /\ left.clean
    BY <1>3 DEF PickupRest
  <2>2. pick \in PickType
    BY <2>1, PickFacts
  <2>3. PICK recs : proc' = Write(proc, pick.p, recs)
    BY <1>3 DEF PickupRest
  <2>4. pick'.phase = "wait" /\ pick'.d = pick.d /\ pick'.p = pick.p
    BY <1>3, <2>2 DEF PickupRest, PickType
  <2> QED
    BY <2>1, <2>3, <2>4, CopyOnce
<1>4. CASE PickupRemove
  <2>1. /\ pick.phase = "remove" /\ pick' = PickIdle /\ left.clean
        /\ UNCHANGED <<smtpdVars, proc, file, bounced>>
    BY <1>4 DEF PickupRemove
  <2>2. PICK d \in Drop : d = pick.d
    BY <2>1, PickFacts
  <2>3. drop \in [Drop -> DropType]
    BY SessFacts DEF PickupTypeOK
  <2>4. PICK D : D = DropRemoved(drop[d])
    OBVIOUS
  <2>5. D.loc = "removed" /\ D.torn = drop[d].torn
    BY <2>3, <2>4 DEF DropRemoved, DropType
  <2>6. drop' = [drop EXCEPT ![d] = D]
    BY <1>4, <2>2, <2>4 DEF PickupRemove
  <2> QED
    BY <2>1, <2>2, <2>5, <2>6, DropsOnce
<1>5. CASE PickupDies
  BY <1>5, NoFault DEF PickupDies
<1>6. ASSUME NEW d \in Drop, PostdropStart(d) \/ PostdropStep(d) \/ postdrop_sig(d)
      PROVE  CleanInv'
  BY <1>6, PostdropOnce
<1> QED
  BY <1>1, <1>2, <1>3, <1>4, <1>5, <1>6, FinishOnce, Zenon DEF PickupNext, PickupStep

-----------------------------------------------------------------------------
(***************************************************************************)
(* The theorem.                                                            *)
(***************************************************************************)
LEMMA TakesOnce ==
    ASSUME IInv, CleanInv, left'.clean, UNCHANGED <<smtpdVars, pickupVars>>,
           NEW i \in File, QmgrTakes(i)
    PROVE  CleanInv'
<1>1. /\ file[i].loc = "incoming" /\ file[i].ready
      /\ proc' = proc /\ bounced' = bounced /\ left.clean /\ pick' = pick /\ drop' = drop
  BY DEF QmgrTakes, pickupVars
<1>2. /\ \A p \in Proc : CancelOK(p)
      /\ \A e \in Drop : OnceOK(e)
      /\ file \in [File -> FileType]
  BY <1>1, CleanFacts
<1>3. /\ \A j \in File : /\ file'[j].data = file[j].data /\ file'[j].ready = file[j].ready
                         /\ j # i => file'[j] = file[j]
  <2>1. PICK F : F = [file[i] EXCEPT !.loc = IF file[i].torn THEN "corrupt" ELSE "active"]
    OBVIOUS
  <2>2. F.data = file[i].data /\ F.ready = file[i].ready
    BY <1>2, <2>1 DEF FileType
  <2>3. file' = [file EXCEPT ![i] = F]
    BY <1>2, <2>1 DEF QmgrTakes
  <2> QED
    BY <1>2, <2>2, <2>3
<1>4. ASSUME NEW p \in Proc
      PROVE  CancelOK(p)'
  <2>1. CASE proc[p].id = i
    BY <1>1, <1>2, <2>1 DEF CancelOK, Commits
  <2>2. CASE proc[p].id \in File /\ proc[p].id # i
    BY <1>1, <1>2, <1>3, <2>2 DEF CancelOK, Commits
  <2>3. CASE proc[p].id \notin File
    BY <1>1, <1>2, <2>3, NotFree DEF CancelOK, Commits, Running
  <2> QED
    BY <2>1, <2>2, <2>3
<1>5. \A j \in File, e \in Drop : Carries(j, e)' <=> Carries(j, e)
  BY <1>1, <1>3 DEF Carries
<1>6. ASSUME NEW e \in Drop
      PROVE  OnceOK(e)'
  BY <1>1, <1>2, <1>3, <1>5 DEF OnceOK, Copies, Settled, Withdrawn
<1> QED
  BY <1>4, <1>6 DEF CleanInv

LEMMA StutterOnce ==
    ASSUME CleanInv, UNCHANGED vars
    PROVE  CleanInv'
<1>1. /\ proc' = proc /\ file' = file /\ bounced' = bounced /\ left' = left
      /\ drop' = drop /\ pick' = pick
  BY DEF vars, cleanupVars, pickupVars
<1>2. \A p \in Proc : CancelOK(p) => CancelOK(p)'
  BY <1>1 DEF CancelOK, Commits
<1>3. \A j \in File, e \in Drop : Carries(j, e)' <=> Carries(j, e)
  BY <1>1 DEF Carries
<1>4. \A e \in Drop : OnceOK(e) => OnceOK(e)'
  BY <1>1, <1>3 DEF OnceOK, Copies, Settled, Withdrawn
<1> QED
  BY <1>1, <1>2, <1>4 DEF CleanInv

LEMMA CleanStays == IInv /\ CleanInv /\ [Next]_vars => CleanInv'
<1> SUFFICES ASSUME IInv, CleanInv, [Next]_vars
             PROVE  CleanInv'
  OBVIOUS
<1>1. IInv'
  BY Preserved
<1>2. CASE ~left'.clean
  BY <1>2 DEF CleanInv
<1>3. CASE left'.clean
  <2>1. CASE SmtpdNext /\ UNCHANGED pickupVars
    BY <1>1, <1>3, <2>1, SmtpdOnceMore
  <2>2. CASE PickupNext /\ UNCHANGED smtpdVars
    BY <1>1, <1>3, <2>2, PickupOnceMore
  <2>3. CASE \E p \in Proc : (CleanupStep(p) \/ CleanupTrouble(p)) /\ UNCHANGED <<smtpdVars, pickupVars>>
    BY <1>1, <1>3, <2>3, CleanupOnceMore
  <2>4. CASE \E i \in File : QmgrTakes(i) /\ UNCHANGED <<smtpdVars, pickupVars>>
    BY <1>3, <2>4, TakesOnce
  <2>5. CASE PowerFails
    BY <1>3, <2>5, NoFault DEF PowerFails, PowerOff
  <2>6. CASE UNCHANGED vars
    BY <2>6, StutterOnce
  <2> QED
    BY <2>1, <2>2, <2>3, <2>4, <2>5, <2>6, Zenon DEF Next
<1> QED
  BY <1>2, <1>3

LEMMA CleanAtFirst == Init => CleanInv
<1> SUFFICES ASSUME Init
             PROVE  CleanInv
  OBVIOUS
<1>1. /\ proc = [p \in Proc |-> IdleProc] /\ bounced = {}
      /\ file = [i \in File |-> [NewFile EXCEPT !.loc = "none"]]
      /\ drop = [d \in Drop |-> NoDrop] /\ pick = PickIdle
  BY DEF Init, CleanupInit, PickupInit
<1>2. Drop \subseteq Msg /\ NoMsg \notin Msg
  BY Numbers
<1>3. \A i \in File : file[i].data.from = NoMsg
  BY <1>1 DEF NewFile, NoData
<1>4. \A p \in Proc : proc[p].phase = "idle"
  BY <1>1, EmptyTypes
<1>5. \A p \in Proc : CancelOK(p)
  BY <1>4 DEF CancelOK
<1>6. \A i \in File, d \in Drop : ~Carries(i, d)
  BY <1>2, <1>3, <1>4 DEF Carries
<1>7. \A d \in Drop : ~drop[d].torn
  BY <1>1 DEF NoDrop
<1>8. pick.phase = "idle"
  BY <1>1 DEF PickIdle
<1>9. \A d \in Drop : OnceOK(d)
  BY <1>1, <1>6, <1>7, <1>8 DEF OnceOK
<1> QED
  BY <1>5, <1>9 DEF CleanInv

\* What the invariants mean.
LEMMA NoneTwice ==
    ASSUME IInv, CleanInv
    PROVE  NoDuplicate
<1> SUFFICES ASSUME left.clean, NEW m \in Msg
             PROVE  Cardinality({i \in File : file[i].ready /\ file[i].loc # "removed"
                                              /\ file[i].data.from = m})
                    <= IF m \in bounced THEN 0 ELSE 1
  BY DEF NoDuplicate
<1> DEFINE S == {i \in File : file[i].ready /\ file[i].loc # "removed" /\ file[i].data.from = m}
<1>1. m \in Mail \cup Drop /\ Mail \cap Drop = {} /\ bounced \subseteq Drop
  BY CleanFacts, SubmissionAssumption
<1>2. \A i \in S : i \in File /\ Carries(i, m) /\ file[i].ready /\ file[i].data.from = m
  BY DEF Carries
<1>3. \A i, j \in S : i = j
  <2>1. CASE m \in Mail
    BY <1>2, <2>1, SessFacts DEF OneFile
  <2>2. CASE m \in Drop
    BY <1>2, <2>2, CleanFacts DEF OnceOK
  <2> QED
    BY <1>1, <2>1, <2>2
<1>4. m \in bounced => S = {}
  <2>1. SUFFICES ASSUME m \in bounced, NEW i \in S
                 PROVE  FALSE
    OBVIOUS
  <2>2. OnceOK(m)
    BY <1>1, <2>1, CleanFacts
  <2>3. pick.d = m /\ pick.p # NoProc /\ Withdrawn(proc[pick.p])
    BY <1>2, <2>1, <2>2 DEF OnceOK
  <2>4. PICK p \in Proc : p = pick.p /\ pick.phase \in {"copy", "rest", "wait"}
    BY <2>3, PickHas
  <2>5. drop[m].loc = "maildrop"
    BY <2>2, <2>3, <2>4 DEF OnceOK
  <2>6. ~Settled(m)
    BY <2>4, <2>5 DEF Settled
  <2>7. proc[p].id = i
    BY <1>2, <2>2, <2>4, <2>6 DEF OnceOK, Copies
  <2>8. CancelOK(p) /\ FileOK(i)
    BY <1>2, <2>1, <2>4, CleanFacts
  <2>9. file[i].ready
    BY <1>2, <2>1
  <2> QED
    BY <2>3, <2>4, <2>7, <2>8, <2>9 DEF CancelOK, Withdrawn, Commits, FileOK
<1>5. Cardinality(S) = IF S = {} THEN 0 ELSE 1
  <2>1. CASE S = {}
    BY <2>1, FS_EmptySet
  <2>2. CASE S # {}
    <3>1. PICK i \in S : S = {i}
      BY <1>3, <2>2
    <3> QED
      BY <2>2, <3>1, FS_Singleton
  <2> QED
    BY <2>1, <2>2
<1> QED
  BY <1>4, <1>5

\* The queue is what its clients made it: whole messages, nothing that is left
\* of an attempt that failed, and, as long as there is no fault, each message
\* at most once and none that was also returned to its sender
\* (mail_reset(), skip_bdat(), cleanup_flush(), cleanup_bounce(),
\* cleanup_service_error_reason()).
THEOREM QueueClean == Spec => []QueueIsClean
<1>1. Init => IInv /\ CleanInv
  BY InitOK, CleanAtFirst
<1>2. IInv /\ CleanInv /\ [Next]_vars => (IInv /\ CleanInv)'
  BY Preserved, CleanStays
<1>3. IInv /\ CleanInv => QueueIsClean
  BY FilesWhole, FilesOwned, NoneTwice DEF QueueIsClean
<1> QED
  BY <1>1, <1>2, <1>3, PTL DEF Spec

=============================================================================

-------------------------- MODULE SubmissionProofs --------------------------
(***************************************************************************)
(* Proofs about Submission, for any number of cleanup processes, queue     *)
(* files, messages, recipients, faults and verdicts.                       *)
(***************************************************************************)
EXTENDS Submission, FiniteSetTheorems, TLAPS

-----------------------------------------------------------------------------
(***************************************************************************)
(* The stream of records for one message, as far as its client has written *)
(* it.  A plan is what the client has written: the message m, the number n *)
(* of recipients, the flags f that it passed on, the number k of pieces of *)
(* content, and how far it is: nothing yet, in the envelope, in the        *)
(* content, or at the end.                                                 *)
(***************************************************************************)
Plan == [m : Mail \cup Drop, n : 0..MaxRcpt, f : SUBSET ActionFlag, k : Nat,
         at : {"none", "envelope", "message", "extracted"}]

Extra(T) == IF T.f = {} THEN 0 ELSE 1       \* is there a FLGS record?
MesgAt(T) == T.n + 2 + Extra(T)             \* the place of each record
XtraAt(T) == MesgAt(T) + T.k + 1
EndAt(T) == XtraAt(T) + Extra(T) + 1
Length(T) ==
    CASE T.at = "none" -> 0
      [] T.at = "envelope" -> T.n + 1
      [] T.at = "message" -> MesgAt(T) + T.k
      [] T.at = "extracted" -> EndAt(T)

RecordAt(T, i) ==
    IF i = 1 THEN RecOf("FROM", T.m)
    ELSE IF i <= T.n + 1 THEN RecOf("RCPT", <<T.m, i - 1>>)
    ELSE IF i = MesgAt(T) THEN Rec("MESG")
    ELSE IF i = XtraAt(T) THEN Rec("XTRA")
    ELSE IF i = EndAt(T) THEN Rec("END")
    ELSE IF i < MesgAt(T) \/ i > XtraAt(T) THEN RecOf("FLGS", T.f)
    ELSE Rec("NORM")

\* Where cleanup is, and what it has written, after the first c records.
ActAt(T, c) == IF c < MesgAt(T) THEN "envelope"
               ELSE IF c < XtraAt(T) THEN "message" ELSE "extracted"
FirstRcpts(m, n) == {<<m, i>> : i \in 1 .. n}
Partial(m, n, k) == [from |-> m, rcpts |-> FirstRcpts(m, n), body |-> k, end |-> FALSE]
Full(T) == [from |-> T.m, rcpts |-> FirstRcpts(T.m, T.n), body |-> T.k, end |-> TRUE]
DataAt(T, c) ==
    IF c = 0 THEN NoData
    ELSE IF c <= T.n + 1 THEN Partial(T.m, c - 1, 0)
    ELSE IF c <= MesgAt(T) THEN Partial(T.m, T.n, 0)
    ELSE IF c < XtraAt(T) THEN Partial(T.m, T.n, c - MesgAt(T))
    ELSE IF c < EndAt(T) THEN Partial(T.m, T.n, T.k)
    ELSE Full(T)

\* Process q, which has written d, is at its place in the stream of plan T.
Consumed(q, T) == Length(T) - Len(q.pipe)
Reading(q, d, T) ==
    /\ Len(q.pipe) <= Length(T)
    /\ \A i \in 1 .. Len(q.pipe) : q.pipe[i] = RecordAt(T, Consumed(q, T) + i)
    /\ q.act = ActAt(T, Consumed(q, T))
    /\ d = DataAt(T, Consumed(q, T))
    /\ Consumed(q, T) >= T.n + 2 => T.f \subseteq q.flags

-----------------------------------------------------------------------------
(***************************************************************************)
(* The inductive invariant.                                                *)
(***************************************************************************)
\* What the site's policy asked for the message in a queue file.
Wish(F) == F.asked \cup (IF F.data.from \in Mail THEN asked[F.data.from] ELSE {})

\* A queue file with a whole message.
Complete(F) == /\ F.data.from # NoMsg /\ F.data.end /\ F.data.rcpts # {}
               /\ F.data = Whole(F.data.from)
Good(F) == /\ F.loc \in {"incoming", "hold", "active"}
           /\ F.ready /\ F.synced /\ ~F.torn

\* A good queue file with message m, which no process can remove any more.
Kept(m) ==
    \E i \in File :
        /\ Good(file[i]) /\ file[i].data = Whole(m)
        /\ \A p \in Proc : proc[p].id = i => proc[p].phase \in {"answer", "answered"}
Fate(d) == Kept(d) \/ d \in bounced \/ "DISCARD" \in asked[d]

\* What the session and pickup have written.
SessPlan ==
    LET at == IF sess.phase = "wait" THEN "extracted"
              ELSE IF sess.phase = "data" \/ sess.bdat_state = "OK" THEN "message"
              ELSE "envelope"
    IN  [ m |-> sess.sender, n |-> sess.rcpt_count,
          f |-> IF at = "envelope" THEN {} ELSE sess.saved_flags,
          k |-> sent[sess.sender].body, at |-> at ]
PickPlan ==
    [ m |-> pick.d, n |-> 1, f |-> {}, k |-> 1,
      at |-> CASE pick.phase = "copy" -> "none"
               [] pick.phase = "rest" -> "message"
               [] OTHER -> "extracted" ]

\* The plan of a process that reads.
PlanOf(p, T) ==
    /\ Reading(proc[p], file[proc[p].id].data, T)
    /\ "BOUNCE" \in proc[p].flags <=> T.m \in Drop
    /\ T.f \subseteq asked[T.m] /\ (T.m \in Drop => T.f = {})
    /\ T.at \in {"message", "extracted"} => T.n > 0
    /\ T.at = "extracted" => Full(T) = Whole(T.m)
    /\ T.at = "extracted" /\ T.m \in Mail => asked[T.m] \subseteq proc[p].flags \cup T.f
    /\ p = sess.cleanup =>
          /\ T.m = sess.sender
          /\ T.at \in {"envelope", "message"} \/ T = SessPlan
          /\ sess.bdat_state # "ERROR" => T = SessPlan
          /\ asked[T.m] \subseteq proc[p].flags \cup sess.saved_flags
    /\ p = pick.p => T = PickPlan

ProcOK(p) ==
    LET q == proc[p]
        F == file[q.id]
    IN  /\ q.phase \in {"idle", "dead"} => q = [IdleProc EXCEPT !.phase = q.phase]
        /\ q.phase \in Running \cup {"answered"} =>
              q.id \in File /\ ~F.torn /\ F.loc # "none"
        /\ q.phase = "read" => /\ F.loc = "incoming" /\ ~F.ready
                               /\ "END_SEEN" \notin q.flags
                               /\ OutOk(q)
                               /\ F.asked \subseteq q.flags
                               /\ "HOLD" \in q.flags => "HOLD" \in Wish(F)
                               /\ \E T \in Plan : PlanOf(p, T)
        /\ q.phase = "drain" => /\ F.loc = "incoming" /\ ~F.ready
                                /\ "END_SEEN" \notin q.flags
                                /\ ~OutOk(q)
        /\ q.phase = "flush" =>
              /\ F.loc = "incoming" /\ ~F.ready
              /\ OutOk(q) => "END_SEEN" \in q.flags
              /\ "END_SEEN" \in q.flags =>
                    /\ Complete(F)
                    /\ Wish(F) \subseteq q.flags
                    /\ "HOLD" \in q.flags => "HOLD" \in Wish(F)
        /\ q.phase = "chmod" => /\ F.loc \in {"incoming", "hold"} /\ ~F.ready
                                /\ Complete(F)
                                /\ F.loc = "incoming" => Wish(F) = {}
        /\ q.phase \in {"chmod", "sync", "forget"} => Commits(q)
        /\ q.phase = "sync" => F.loc \in {"incoming", "hold", "active"} /\ F.ready
        /\ q.phase = "forget" => Good(F)
        /\ q.phase = "cancel" => ~Commits(q)
        /\ q.phase \in {"answer", "answered"} =>
              /\ F.loc \in {"incoming", "hold"} => F.ready
              /\ Commits(q) => Good(F)
        /\ ~q.eof => q.errs \cap {"BAD", "RCPT"} = {}
        /\ q.phase \in Running \cup {"answered"} =>
              F.data.from \in {NoMsg} \cup IF "BOUNCE" \in q.flags THEN Drop ELSE Mail

FileOK(i) ==
    LET F == file[i]
    IN  /\ F.loc = "none" => F = [NewFile EXCEPT !.loc = "none"]
        /\ F.loc = "removed" => ~F.ready /\ F.data = NoData
        /\ F.ready => Complete(F)
        /\ F.loc = "active" => F.ready
        /\ F.loc = "active" \/ (F.loc = "incoming" /\ F.ready) => Wish(F) = {}
        /\ F.loc = "hold" => "HOLD" \in Wish(F)
        /\ F.loc \in {"incoming", "hold"} /\ ~F.ready =>
              F.orphan \/ \E p \in Proc : proc[p].phase \in Running /\ proc[p].id = i

\* Each process has a file of its own.
OwnFile ==
    \A p, r \in Proc :
        /\ proc[p].phase \in Running \cup {"answered"} /\ proc[p].id = proc[r].id
        => p = r

\* A file with message m, or that is to get it, and at most one of them for a
\* message from SMTP.
Carries(i, m) ==
    \/ file[i].data.from = m
    \/ \E p \in Proc : /\ proc[p].phase = "read" /\ proc[p].id = i /\ proc[p].pipe # <<>>
                       /\ Head(proc[p].pipe) = RecOf("FROM", m)
OneFile ==
    \A m \in Mail, i \in File : Carries(i, m) =>
        /\ \A j \in File : Carries(j, m) => i = j
        /\ m > left.mail
        /\ m = sess.sender => sess.cleanup # NoProc

\* What a client knows of the process that has its message m.
Serves(p, m) ==
    LET q == proc[p]
    IN  /\ q.phase # "idle" /\ ~q.eof
        /\ q.phase \in Running \cup {"answered"} =>
              /\ file[q.id].data.from \in {NoMsg, m}
              /\ m \in Drop <=> "BOUNCE" \in q.flags
        /\ "DISCARD" \in q.flags => "DISCARD" \in asked[m] \/ m \in bounced

SessOK ==
    /\ sess.err = {} /\ sess.post = "NONE"
    /\ sess.phase = "off" => sess = NoSession
    /\ StreamMatches
    /\ sess.sender # NoMsg =>
          /\ sess.sender > left.mail
          /\ sent[sess.sender].from = sess.sender
          /\ sess.rcpt_count <= MaxRcpt
          /\ sent[sess.sender].rcpts = FirstRcpts(sess.sender, sess.rcpt_count)
          /\ sess.saved_flags \subseteq asked[sess.sender]
          /\ sent[sess.sender].end <=> sess.phase = "wait"
          /\ sess.phase # "wait" /\ sess.bdat_state = "NONE" => sent[sess.sender].body = 0
          /\ sess.cleanup = NoProc => asked[sess.sender] \subseteq sess.saved_flags
    /\ sess.phase \in {"data", "wait"} \/ sess.bdat_state = "OK" => sess.rcpt_count > 0
    /\ sess.phase = "data" => sess.bdat_state = "NONE"
    /\ sess.phase = "wait" => sess.bdat_state # "ERROR"
    /\ sess.cleanup # NoProc => Serves(sess.cleanup, sess.sender)

MailOK ==
    /\ bounced \subseteq Drop
    /\ left.rcpt <= MaxRcpt
    /\ \A m \in 1 .. left.mail :
          m \in Mail /\ sent[m] = NoData /\ asked[m] = {} /\ told[m] = "nothing"
    /\ \A m \in Mail : told[m] = "ok" => Kept(m) \/ "DISCARD" \in asked[m]

DropOK(d) ==
    LET D == drop[d]
    IN  /\ D.post \in {"none", "write", "chmod"} => ~D.ready
        /\ D.post = "none" => D = NoDrop
        /\ D.post \in {"write", "chmod", "sync", "forget"} => D.status = {}
        /\ D.post \in {"write", "chmod"} => D.loc = "maildrop"
        /\ D.torn => D.post = "dead" \/ (D.post = "done" /\ D.status # {})
        /\ D.user = "ok" => D.post = "done" /\ D.status = {}
        /\ D.post \in {"sync", "forget", "tell", "done"} /\ D.status = {} =>
              D.ready /\ (D.loc = "maildrop" \/ Fate(d))
        /\ D.post \in {"forget", "tell", "done"} /\ D.status = {} => D.synced

PickOK ==
    /\ pick.phase = "idle" => pick = PickIdle
    /\ pick.phase # "idle" => pick.d \in Drop /\ drop[pick.d].ready
    /\ pick.phase \in {"copy", "rest", "wait"} =>
          pick.p \in Proc /\ pick.p # sess.cleanup /\ Serves(pick.p, pick.d)
    /\ pick.phase = "remove" => pick.p = NoProc /\ (drop[pick.d].torn \/ Fate(pick.d))

IInv ==
    /\ TypeOK
    /\ \A p \in Proc : ProcOK(p)
    /\ \A i \in File : FileOK(i)
    /\ OwnFile /\ OneFile
    /\ SessOK /\ MailOK /\ PickOK
    /\ \A d \in Drop : DropOK(d)

-----------------------------------------------------------------------------
(***************************************************************************)
(* The stream of records.                                                  *)
(***************************************************************************)
LEMMA RecTypes ==
    /\ \A t \in {"MESG", "NORM", "XTRA", "END"} : Rec(t) \in Record
    /\ \A m \in Msg : RecOf("FROM", m) \in Record
    /\ \A r \in Rcpt : RecOf("RCPT", r) \in Record
    /\ \A f \in SUBSET ActionFlag : RecOf("FLGS", f) \in Record
BY DEF Rec, RecOf, Record

LEMMA Numbers ==
    /\ MaxRcpt \in Nat /\ MaxRcpt > 0 /\ MaxFile \in Nat
    /\ Mail \subseteq Msg /\ Drop \subseteq Msg /\ Mail \cap Drop = {}
    /\ \A m \in Msg : m \in Nat /\ m > 0
    /\ NoMsg \notin Msg /\ NoProc \notin Proc
<1>1. MaxRcpt \in Nat /\ MaxFile \in Nat /\ Msg \subseteq Nat \ {0} /\ NoProc \notin Proc
  BY CleanupAssumption
<1> QED
  BY <1>1, SmtpdAssumption, PickupAssumption, SubmissionAssumption DEF NoMsg

LEMMA PlanTypes ==
    ASSUME NEW T \in Plan
    PROVE  /\ T.n \in Nat /\ T.n <= MaxRcpt /\ T.k \in Nat
           /\ T.m \in Mail \cup Drop /\ T.m \in Msg /\ T.m # NoMsg
           /\ T.f \subseteq ActionFlag
           /\ T.at \in {"none", "envelope", "message", "extracted"}
<1>1. T.n \in 0..MaxRcpt /\ T.k \in Nat
  BY DEF Plan
<1>2. T.m \in Mail \cup Drop /\ T.f \subseteq ActionFlag
  BY DEF Plan
<1>3. T.at \in {"none", "envelope", "message", "extracted"}
  BY DEF Plan
<1> QED
  BY <1>1, <1>2, <1>3, Numbers

LEMMA PlanPlaces ==
    ASSUME NEW T \in Plan
    PROVE  /\ Extra(T) \in {0, 1} /\ (Extra(T) = 0 <=> T.f = {})
           /\ MesgAt(T) = T.n + 2 + Extra(T) /\ MesgAt(T) \in Nat
           /\ XtraAt(T) = MesgAt(T) + T.k + 1 /\ XtraAt(T) \in Nat
           /\ EndAt(T) = XtraAt(T) + Extra(T) + 1 /\ EndAt(T) \in Nat
<1>1. Extra(T) \in {0, 1} /\ (Extra(T) = 0 <=> T.f = {})
  BY DEF Extra
<1> QED
  BY <1>1, PlanTypes DEF MesgAt, XtraAt, EndAt

LEMMA PlanLength ==
    ASSUME NEW T \in Plan
    PROVE  /\ Length(T) \in Nat /\ Length(T) <= EndAt(T)
           /\ T.at = "none" => Length(T) = 0
           /\ T.at = "envelope" => Length(T) = T.n + 1
           /\ T.at = "message" => Length(T) = MesgAt(T) + T.k
           /\ T.at = "extracted" <=> Length(T) = EndAt(T)
<1>1. /\ T.at = "none" => Length(T) = 0
      /\ T.at = "envelope" => Length(T) = T.n + 1
      /\ T.at = "message" => Length(T) = MesgAt(T) + T.k
      /\ T.at = "extracted" => Length(T) = EndAt(T)
  BY DEF Length
<1> QED
  BY <1>1, PlanTypes, PlanPlaces

LEMMA FirstRcptsSteps ==
    /\ \A m : FirstRcpts(m, 0) = {}
    /\ \A m : \A n \in Nat :
          /\ FirstRcpts(m, n + 1) = FirstRcpts(m, n) \cup {<<m, n + 1>>}
          /\ n > 0 => FirstRcpts(m, n) # {}
          /\ m \in Msg /\ n <= MaxRcpt => FirstRcpts(m, n) \subseteq Rcpt
<1>1. \A m : FirstRcpts(m, 0) = {}
  BY DEF FirstRcpts
<1>2. ASSUME NEW m, NEW n \in Nat
      PROVE  FirstRcpts(m, n + 1) = FirstRcpts(m, n) \cup {<<m, n + 1>>}
  <2>1. \A i \in 1 .. n + 1 : i \in 1 .. n \/ i = n + 1
    OBVIOUS
  <2>2. 1 .. n \subseteq 1 .. n + 1 /\ n + 1 \in 1 .. n + 1
    OBVIOUS
  <2> QED
    BY <2>1, <2>2 DEF FirstRcpts
<1>3. ASSUME NEW m, NEW n \in Nat, n > 0
      PROVE  FirstRcpts(m, n) # {}
  <2>1. 1 \in 1 .. n
    BY <1>3
  <2> QED
    BY <2>1 DEF FirstRcpts
<1>4. ASSUME NEW m \in Msg, NEW n \in Nat, n <= MaxRcpt
      PROVE  FirstRcpts(m, n) \subseteq Rcpt
  <2>1. \A i \in 1 .. n : i \in 1 .. MaxRcpt
    BY <1>4, Numbers
  <2> QED
    BY <2>1 DEF FirstRcpts, Rcpt
<1> QED
  BY <1>1, <1>2, <1>3, <1>4

LEMMA DataAtPlaces ==
    ASSUME NEW T \in Plan, NEW c \in Nat
    PROVE  /\ c = 0 => DataAt(T, c) = NoData
           /\ c \in 1 .. (T.n + 1) => DataAt(T, c) = Partial(T.m, c - 1, 0)
           /\ T.n + 1 <= c /\ c <= MesgAt(T) => DataAt(T, c) = Partial(T.m, T.n, 0)
           /\ MesgAt(T) <= c /\ c < XtraAt(T) =>
                 DataAt(T, c) = Partial(T.m, T.n, c - MesgAt(T))
           /\ XtraAt(T) - 1 <= c /\ c < EndAt(T) => DataAt(T, c) = Partial(T.m, T.n, T.k)
           /\ c = EndAt(T) => DataAt(T, c) = Full(T)
<1>1. /\ T.n \in Nat /\ T.k \in Nat /\ MesgAt(T) \in Nat /\ XtraAt(T) \in Nat /\ EndAt(T) \in Nat
      /\ T.n + 1 < MesgAt(T) /\ XtraAt(T) = MesgAt(T) + T.k + 1 /\ XtraAt(T) < EndAt(T)
  BY PlanTypes, PlanPlaces
<1> USE <1>1
<1>2. c = 0 => DataAt(T, c) = NoData
  BY DEF DataAt
<1>3. c \in 1 .. (T.n + 1) => DataAt(T, c) = Partial(T.m, c - 1, 0)
  BY DEF DataAt
<1>4. T.n + 1 <= c /\ c <= MesgAt(T) => DataAt(T, c) = Partial(T.m, T.n, 0)
  <2>1. CASE c = T.n + 1
    <3>0. \A n \in Nat : n + 1 \in 1 .. (n + 1) /\ n + 1 - 1 = n
      OBVIOUS
    <3>1. c \in 1 .. (T.n + 1) /\ c - 1 = T.n
      BY <2>1, <3>0, PlanTypes
    <3>2. DataAt(T, c) = Partial(T.m, c - 1, 0)
      BY <1>3, <3>1
    <3> QED
      BY <3>1, <3>2
  <2>2. CASE c > T.n + 1
    BY <2>2 DEF DataAt
  <2> QED
    BY <2>1, <2>2
<1>5. MesgAt(T) <= c /\ c < XtraAt(T) => DataAt(T, c) = Partial(T.m, T.n, c - MesgAt(T))
  <2>1. CASE c = MesgAt(T)
    BY <2>1, <1>4
  <2>2. CASE c > MesgAt(T)
    BY <2>2 DEF DataAt
  <2> QED
    BY <2>1, <2>2
<1>6. XtraAt(T) - 1 <= c /\ c < EndAt(T) => DataAt(T, c) = Partial(T.m, T.n, T.k)
  <2>1. CASE c = XtraAt(T) - 1
    BY <2>1, <1>5
  <2>2. CASE c >= XtraAt(T) /\ c < EndAt(T)
    BY <2>2 DEF DataAt
  <2> QED
    BY <2>1, <2>2
<1>7. c = EndAt(T) => DataAt(T, c) = Full(T)
  BY DEF DataAt
<1> QED
  BY <1>2, <1>3, <1>4, <1>5, <1>6, <1>7

\* The kinds of records, by place.
LEMMA PlaceOfRecord ==
    ASSUME NEW T \in Plan, NEW i \in 1 .. Length(T)
    PROVE  LET r == RecordAt(T, i) IN
           \/ i = 1 /\ r = RecOf("FROM", T.m)
           \/ i \in 2 .. (T.n + 1) /\ r = RecOf("RCPT", <<T.m, i - 1>>)
           \/ i = T.n + 2 /\ i < MesgAt(T) /\ r = RecOf("FLGS", T.f)
           \/ i = MesgAt(T) /\ r = Rec("MESG")
           \/ MesgAt(T) < i /\ i < XtraAt(T) /\ r = Rec("NORM")
           \/ i = XtraAt(T) /\ r = Rec("XTRA")
           \/ i = XtraAt(T) + 1 /\ i < EndAt(T) /\ r = RecOf("FLGS", T.f)
           \/ i = EndAt(T) /\ r = Rec("END")
BY PlanTypes, PlanPlaces, PlanLength DEF RecordAt

\* What the effect of one record is.
LEMMA OutputFields ==
    ASSUME NEW d
    PROVE  /\ \A m : Output(d, RecOf("FROM", m)) = [d EXCEPT !.from = m]
           /\ \A r : Output(d, RecOf("RCPT", r)) = [d EXCEPT !.rcpts = @ \cup {r}]
           /\ Output(d, Rec("NORM")) = [d EXCEPT !.body = @ + 1]
           /\ Output(d, Rec("END")) = [d EXCEPT !.end = TRUE]
           /\ Output(d, Rec("MESG")) = d /\ Output(d, Rec("XTRA")) = d
           /\ \A f : Output(d, RecOf("FLGS", f)) = d
<1> USE DEF Output, Rec, RecOf
<1>1. \A m : Output(d, RecOf("FROM", m)) = [d EXCEPT !.from = m]
  OBVIOUS
<1>2. \A r : Output(d, RecOf("RCPT", r)) = [d EXCEPT !.rcpts = @ \cup {r}]
  OBVIOUS
<1>3. Output(d, Rec("NORM")) = [d EXCEPT !.body = @ + 1]
  OBVIOUS
<1>4. Output(d, Rec("END")) = [d EXCEPT !.end = TRUE]
  OBVIOUS
<1>5. Output(d, Rec("MESG")) = d /\ Output(d, Rec("XTRA")) = d
  OBVIOUS
<1>6. \A f : Output(d, RecOf("FLGS", f)) = d
  OBVIOUS
<1> QED
  BY <1>1, <1>2, <1>3, <1>4, <1>5, <1>6

LEMMA OutputSteps ==
    /\ \A m : Output(NoData, RecOf("FROM", m)) = Partial(m, 0, 0)
    /\ \A m : \A n \in Nat : Output(Partial(m, n, 0), RecOf("RCPT", <<m, n + 1>>))
                              = Partial(m, n + 1, 0)
    /\ \A m, n : \A k \in Nat : Output(Partial(m, n, k), Rec("NORM")) = Partial(m, n, k + 1)
    /\ \A m, n, k : Output(Partial(m, n, k), Rec("END")) = [Partial(m, n, k) EXCEPT !.end = TRUE]
<1>1. ASSUME NEW m
      PROVE  Output(NoData, RecOf("FROM", m)) = Partial(m, 0, 0)
  <2>1. FirstRcpts(m, 0) = {}
    BY FirstRcptsSteps
  <2>2. Output(NoData, RecOf("FROM", m)) = [NoData EXCEPT !.from = m]
    BY OutputFields
  <2> QED
    BY <2>1, <2>2 DEF Partial, NoData
<1>2. ASSUME NEW m, NEW n \in Nat
      PROVE  Output(Partial(m, n, 0), RecOf("RCPT", <<m, n + 1>>))
             = Partial(m, n + 1, 0)
  <2>1. Output(Partial(m, n, 0), RecOf("RCPT", <<m, n + 1>>))
        = [Partial(m, n, 0) EXCEPT !.rcpts = @ \cup {<<m, n + 1>>}]
    BY OutputFields
  <2>2. FirstRcpts(m, n + 1) = FirstRcpts(m, n) \cup {<<m, n + 1>>}
    BY FirstRcptsSteps
  <2> QED
    BY <2>1, <2>2 DEF Partial
<1>3. ASSUME NEW m, NEW n, NEW k \in Nat
      PROVE  Output(Partial(m, n, k), Rec("NORM")) = Partial(m, n, k + 1)
  <2>1. Output(Partial(m, n, k), Rec("NORM")) = [Partial(m, n, k) EXCEPT !.body = @ + 1]
    BY OutputFields
  <2> QED
    BY <2>1 DEF Partial
<1>4. \A m, n, k : Output(Partial(m, n, k), Rec("END")) = [Partial(m, n, k) EXCEPT !.end = TRUE]
  BY OutputFields
<1> QED
  BY <1>1, <1>2, <1>3, <1>4

LEMMA PlaceStep ==
    ASSUME NEW T \in Plan, NEW c \in Nat, c < Length(T), NEW q, NEW d, NEW r,
           q.act = ActAt(T, c), d = DataAt(T, c), r = RecordAt(T, c + 1)
    PROVE  /\ ~Malformed(q, d, r)
           /\ NextAct(q.act, r.type) = ActAt(T, c + 1)
           /\ Output(d, r) = DataAt(T, c + 1)
           /\ r.type = "FLGS" <=> (c + 1 = T.n + 2 \/ c + 1 = XtraAt(T) + 1) /\ T.f # {}
           /\ r.type = "FLGS" => r.val = T.f
           /\ r.type = "END" <=> T.at = "extracted" /\ c + 1 = Length(T)
           /\ r.type = "FROM" => r.val = T.m /\ d.from = NoMsg
           /\ r.type # "FROM" => d.from = T.m
<1>2. c \in Nat /\ c + 1 \in 1 .. Length(T)
  BY PlanLength
<1>3. q.act = ActAt(T, c) /\ d = DataAt(T, c)
  OBVIOUS
<1>4. PICK i \in 1 .. Length(T) : i = c + 1 /\ r = RecordAt(T, i)
  BY <1>2
<1>5. /\ T.n \in Nat /\ T.k \in Nat /\ T.m # NoMsg
      /\ Extra(T) \in {0, 1} /\ (Extra(T) = 0 <=> T.f = {})
      /\ MesgAt(T) \in Nat /\ XtraAt(T) \in Nat /\ EndAt(T) \in Nat
      /\ MesgAt(T) = T.n + 2 + Extra(T) /\ XtraAt(T) = MesgAt(T) + T.k + 1
      /\ EndAt(T) = XtraAt(T) + Extra(T) + 1
      /\ Length(T) <= EndAt(T) /\ (T.at = "extracted" <=> Length(T) = EndAt(T))
  BY PlanTypes, PlanPlaces, PlanLength
<1>7. /\ T.n + 2 <= MesgAt(T) /\ MesgAt(T) < XtraAt(T) /\ XtraAt(T) < EndAt(T)
      /\ T.f # {} => MesgAt(T) = T.n + 3 /\ EndAt(T) = XtraAt(T) + 2
  BY <1>5
<1>8. /\ T.n \in Nat /\ MesgAt(T) \in Nat /\ XtraAt(T) \in Nat /\ EndAt(T) \in Nat
      /\ T.n + 2 <= MesgAt(T) /\ MesgAt(T) < XtraAt(T) /\ XtraAt(T) < EndAt(T)
  BY <1>5, <1>7
<1>6. \A m, n, k : Partial(m, n, k).from = m
  BY DEF Partial
<1>a. CASE i = 1 /\ r = RecOf("FROM", T.m)
  <2>1. c = 0 /\ d = NoData /\ q.act = "envelope" /\ ActAt(T, c + 1) = "envelope"
    BY <1>a, <1>2, <1>3, <1>4, <1>5, DataAtPlaces DEF ActAt
  <2>2. DataAt(T, c + 1) = Partial(T.m, 0, 0)
    BY <2>1, <1>5, DataAtPlaces
  <2>3. Output(d, r) = DataAt(T, c + 1)
    BY <1>a, <2>1, <2>2, OutputSteps
  <2>4. r.type = "FROM" /\ r.val = T.m /\ d.from = NoMsg
    BY <1>a, <2>1 DEF RecOf, NoData
  <2> QED
    BY <1>2, <1>5, <2>1, <2>3, <2>4 DEF Malformed, Expected, NextAct
<1>b. CASE i \in 2 .. (T.n + 1) /\ r = RecOf("RCPT", <<T.m, i - 1>>)
  <2>1. c \in 1 .. T.n /\ q.act = "envelope" /\ ActAt(T, c + 1) = "envelope"
    BY <1>b, <1>2, <1>3, <1>4, <1>5 DEF ActAt
  <2>2. d = Partial(T.m, c - 1, 0) /\ DataAt(T, c + 1) = Partial(T.m, c, 0)
    BY <2>1, <1>2, <1>3, <1>5, DataAtPlaces
  <2>3. c - 1 \in Nat /\ c - 1 + 1 = c /\ i - 1 = c
    BY <2>1, <1>4
  <2>4. Output(d, r) = DataAt(T, c + 1)
    <3>1. Output(Partial(T.m, c - 1, 0), RecOf("RCPT", <<T.m, c - 1 + 1>>)) = Partial(T.m, c - 1 + 1, 0)
      BY <2>3, OutputSteps
    <3> QED
      BY <1>b, <2>2, <2>3, <3>1
  <2>5. r.type = "RCPT" /\ d.from = T.m
    BY <1>b, <2>2, <1>6 DEF RecOf
  <2>6. c + 1 # T.n + 2 /\ c + 1 # XtraAt(T) + 1 /\ c + 1 # EndAt(T)
    BY <2>1, <1>5
  <2> QED
    BY <1>2, <1>5, <2>1, <2>4, <2>5, <2>6 DEF Malformed, Expected, NextAct
<1>c. CASE i = T.n + 2 /\ i < MesgAt(T) /\ r = RecOf("FLGS", T.f)
  <2>1. /\ c = T.n + 1 /\ q.act = "envelope" /\ ActAt(T, c + 1) = "envelope"
        /\ T.f # {} /\ c + 1 # EndAt(T)
    BY <1>c, <1>2, <1>3, <1>4, <1>5 DEF ActAt
  <2>2. d = Partial(T.m, T.n, 0) /\ DataAt(T, c + 1) = Partial(T.m, T.n, 0)
    BY <1>c, <2>1, <1>2, <1>3, <1>4, <1>5, DataAtPlaces
  <2>3. Output(d, r) = DataAt(T, c + 1)
    <3>1. Output(d, RecOf("FLGS", T.f)) = d
      BY OutputFields
    <3> QED
      BY <1>c, <2>2, <3>1
  <2>4. r.type = "FLGS" /\ r.val = T.f /\ d.from = T.m
    BY <1>c, <2>2, <1>6 DEF RecOf
  <2> QED
    BY <1>2, <1>4, <1>5, <2>1, <2>3, <2>4 DEF Malformed, Expected, NextAct
<1>d. CASE i = MesgAt(T) /\ r = Rec("MESG")
  <2>0. /\ c >= T.n + 1 /\ c < MesgAt(T) /\ c + 1 >= MesgAt(T) /\ c + 1 < XtraAt(T)
        /\ c + 1 # EndAt(T) /\ c + 1 # XtraAt(T) + 1
    BY <1>d, <1>2, <1>4, <1>8
  <2>1. q.act = "envelope" /\ ActAt(T, c + 1) = "message" /\ ~(c + 1 = T.n + 2 /\ T.f # {})
    <3>1. q.act = "envelope" /\ ActAt(T, c + 1) = "message"
      BY <1>2, <1>3, <1>5, <2>0 DEF ActAt
    <3>2. ~(c + 1 = T.n + 2 /\ T.f # {})
      BY <1>d, <1>4, <1>7, <1>8
    <3> QED
      BY <3>1, <3>2
  <2>2. d = Partial(T.m, T.n, 0) /\ DataAt(T, c + 1) = Partial(T.m, T.n, 0)
    <3>1. c + 1 \in Nat /\ T.n + 1 <= c + 1 /\ c <= MesgAt(T) /\ c + 1 = MesgAt(T)
      BY <1>d, <1>2, <1>4, <1>5, <2>0
    <3> QED
      BY <2>0, <3>1, <1>3, DataAtPlaces
  <2>3. Output(d, r) = DataAt(T, c + 1)
    BY <1>d, <2>2, OutputFields
  <2>4. r.type = "MESG" /\ d.from = T.m
    BY <1>d, <2>2, <1>6 DEF Rec
  <2> QED
    BY <1>2, <1>4, <1>5, <2>0, <2>1, <2>3, <2>4 DEF Malformed, Expected, NextAct
<1>e. CASE MesgAt(T) < i /\ i < XtraAt(T) /\ r = Rec("NORM")
  <2>1. /\ c >= MesgAt(T) /\ c + 1 < XtraAt(T) /\ q.act = "message" /\ ActAt(T, c + 1) = "message"
        /\ c + 1 # EndAt(T) /\ c + 1 # XtraAt(T) + 1 /\ c + 1 # T.n + 2
    BY <1>e, <1>2, <1>3, <1>4, <1>5 DEF ActAt
  <2>2. d = Partial(T.m, T.n, c - MesgAt(T)) /\ DataAt(T, c + 1) = Partial(T.m, T.n, c + 1 - MesgAt(T))
    BY <2>1, <1>2, <1>3, <1>5, DataAtPlaces
  <2>3. c - MesgAt(T) \in Nat /\ c - MesgAt(T) + 1 = c + 1 - MesgAt(T)
    BY <2>1, <1>2, <1>5
  <2>4. Output(d, r) = DataAt(T, c + 1)
    BY <1>e, <2>2, <2>3, OutputSteps
  <2>5. r.type = "NORM" /\ d.from = T.m
    BY <1>e, <2>2, <1>6 DEF Rec
  <2> QED
    BY <1>2, <1>4, <1>5, <2>1, <2>4, <2>5 DEF Malformed, Expected, NextAct
<1>f. CASE i = XtraAt(T) /\ r = Rec("XTRA")
  <2>1. /\ c >= MesgAt(T) /\ c = XtraAt(T) - 1 /\ q.act = "message" /\ ActAt(T, c + 1) = "extracted"
        /\ c + 1 # EndAt(T) /\ c + 1 # XtraAt(T) + 1 /\ c + 1 # T.n + 2
    <3>1. /\ c >= MesgAt(T) /\ c = XtraAt(T) - 1 /\ c < XtraAt(T) /\ c + 1 >= XtraAt(T)
          /\ c + 1 >= MesgAt(T) /\ c + 1 # EndAt(T) /\ c + 1 # XtraAt(T) + 1 /\ c + 1 # T.n + 2
      BY <1>f, <1>2, <1>4, <1>8
    <3> QED
      BY <1>2, <1>3, <1>5, <3>1 DEF ActAt
  <2>2. d = Partial(T.m, T.n, T.k) /\ DataAt(T, c + 1) = Partial(T.m, T.n, T.k)
    BY <2>1, <1>2, <1>3, <1>5, DataAtPlaces
  <2>3. Output(d, r) = DataAt(T, c + 1)
    BY <1>f, <2>2, OutputFields
  <2>4. r.type = "XTRA" /\ d.from = T.m
    BY <1>f, <2>2, <1>6 DEF Rec
  <2> QED
    BY <1>2, <1>4, <1>5, <2>1, <2>3, <2>4 DEF Malformed, Expected, NextAct
<1>g. CASE i = XtraAt(T) + 1 /\ i < EndAt(T) /\ r = RecOf("FLGS", T.f)
  <2>1. /\ c = XtraAt(T) /\ q.act = "extracted" /\ ActAt(T, c + 1) = "extracted" /\ T.f # {}
        /\ c + 1 # EndAt(T)
    BY <1>g, <1>2, <1>3, <1>4, <1>5 DEF ActAt
  <2>2. d = Partial(T.m, T.n, T.k) /\ DataAt(T, c + 1) = Partial(T.m, T.n, T.k)
    BY <1>g, <2>1, <1>2, <1>3, <1>4, <1>5, DataAtPlaces
  <2>3. Output(d, r) = DataAt(T, c + 1)
    <3>1. Output(d, RecOf("FLGS", T.f)) = d
      BY OutputFields
    <3> QED
      BY <1>g, <2>2, <3>1
  <2>4. r.type = "FLGS" /\ r.val = T.f /\ d.from = T.m
    BY <1>g, <2>2, <1>6 DEF RecOf
  <2> QED
    BY <1>2, <1>4, <1>5, <2>1, <2>3, <2>4 DEF Malformed, Expected, NextAct
<1>h. CASE i = EndAt(T) /\ r = Rec("END")
  <2>1. /\ c >= XtraAt(T) /\ c + 1 = EndAt(T) /\ q.act = "extracted" /\ ActAt(T, c + 1) = "extracted"
        /\ T.at = "extracted" /\ c + 1 = Length(T)
        /\ ~(c + 1 = XtraAt(T) + 1 /\ T.f # {}) /\ c + 1 # T.n + 2
    <3>1. /\ c >= XtraAt(T) /\ c >= MesgAt(T) /\ c + 1 >= XtraAt(T) /\ c + 1 >= MesgAt(T)
          /\ c + 1 = EndAt(T) /\ c + 1 # T.n + 2
      BY <1>h, <1>2, <1>4, <1>8
    <3>2. T.at = "extracted" /\ c + 1 = Length(T)
      <4>1. Length(T) = EndAt(T)
        <5>1. \A a, b \in Nat : c + 1 <= a /\ a <= b /\ c + 1 = b => a = b
          BY <1>2
        <5>2. c + 1 <= Length(T) /\ Length(T) \in Nat
          BY <1>2, PlanLength
        <5>3. Length(T) <= EndAt(T) /\ c + 1 = EndAt(T) /\ EndAt(T) \in Nat
          BY <1>5, <3>1
        <5> QED
          BY <5>1, <5>2, <5>3
      <4> QED
        BY <4>1, <1>5, <3>1
    <3>3. ~(c + 1 = XtraAt(T) + 1 /\ T.f # {})
      BY <1>7, <1>8, <3>1
    <3> QED
      BY <1>2, <1>3, <1>5, <3>1, <3>2, <3>3 DEF ActAt
  <2>2. d = Partial(T.m, T.n, T.k) /\ DataAt(T, c + 1) = Full(T)
    BY <2>1, <1>2, <1>3, <1>5, DataAtPlaces
  <2>3. Output(d, r) = DataAt(T, c + 1)
    <3>1. Output(d, r) = [Partial(T.m, T.n, T.k) EXCEPT !.end = TRUE]
      BY <1>h, <2>2, OutputFields
    <3> QED
      BY <2>2, <3>1 DEF Partial, Full
  <2>4. r.type = "END" /\ d.from = T.m
    BY <1>h, <2>2, <1>6 DEF Rec
  <2> QED
    BY <1>2, <1>4, <1>5, <2>1, <2>3, <2>4 DEF Malformed, Expected, NextAct
<1> QED
  <2>1. \/ i = 1 /\ r = RecOf("FROM", T.m)
        \/ i \in 2 .. (T.n + 1) /\ r = RecOf("RCPT", <<T.m, i - 1>>)
        \/ i = T.n + 2 /\ i < MesgAt(T) /\ r = RecOf("FLGS", T.f)
        \/ i = MesgAt(T) /\ r = Rec("MESG")
        \/ MesgAt(T) < i /\ i < XtraAt(T) /\ r = Rec("NORM")
        \/ i = XtraAt(T) /\ r = Rec("XTRA")
        \/ i = XtraAt(T) + 1 /\ i < EndAt(T) /\ r = RecOf("FLGS", T.f)
        \/ i = EndAt(T) /\ r = Rec("END")
    BY <1>4, PlaceOfRecord
  <2> QED
    BY <2>1, <1>a, <1>b, <1>c, <1>d, <1>e, <1>f, <1>g, <1>h

LEMMA ReadOne ==
    ASSUME NEW q \in ProcType, NEW d, NEW T \in Plan, Reading(q, d, T), q.pipe # <<>>
    PROVE  LET c == Consumed(q, T)
               r == Head(q.pipe)
           IN  /\ c \in Nat /\ c < Length(T) /\ r \in Record
               /\ Tail(q.pipe) \in Seq(Record) /\ Len(Tail(q.pipe)) = Len(q.pipe) - 1
               /\ \A i \in 1 .. Len(q.pipe) - 1 : Tail(q.pipe)[i] = RecordAt(T, c + 1 + i)
               /\ q.act = ActAt(T, c) /\ d = DataAt(T, c) /\ r = RecordAt(T, c + 1)
<1> DEFINE c == Consumed(q, T)
<1>1. /\ q.pipe \in Seq(Record) /\ Len(q.pipe) \in Nat /\ Len(q.pipe) > 0
      /\ Head(q.pipe) = q.pipe[1] /\ Head(q.pipe) \in Record
      /\ Tail(q.pipe) \in Seq(Record) /\ Len(Tail(q.pipe)) = Len(q.pipe) - 1
      /\ \A i \in 1 .. Len(q.pipe) - 1 : Tail(q.pipe)[i] = q.pipe[i + 1]
  BY DEF ProcType
<1>2. PICK n \in Nat : n = Len(q.pipe) /\ n > 0
  BY <1>1
<1>3. c \in Nat /\ c < Length(T) /\ c = Length(T) - n
  <2>1. Len(q.pipe) <= Length(T)
    BY DEF Reading
  <2>2. n <= Length(T) /\ Length(T) \in Nat /\ c = Length(T) - n
    BY <1>2, <2>1, PlanLength DEF Consumed
  <2> QED
    BY <1>2, <2>2
<1>4. \A i \in 1 .. n : q.pipe[i] = RecordAt(T, c + i)
  BY <1>2 DEF Reading
<1>5. Head(q.pipe) = RecordAt(T, c + 1)
  BY <1>1, <1>2, <1>4
<1>6. ASSUME NEW i \in 1 .. Len(q.pipe) - 1
      PROVE  Tail(q.pipe)[i] = RecordAt(T, c + 1 + i)
  <2>1. i \in Int /\ i + 1 \in 1 .. n /\ c + (i + 1) = c + 1 + i
    BY <1>2, <1>3
  <2>2. q.pipe[i + 1] = RecordAt(T, c + (i + 1))
    BY <1>4, <2>1
  <2> QED
    BY <1>1, <2>1, <2>2
<1>7. q.act = ActAt(T, c) /\ d = DataAt(T, c)
  BY DEF Reading
<1> QED
  BY <1>1, <1>3, <1>5, <1>6, <1>7

LEMMA ReadMore ==
    ASSUME NEW q \in ProcType, NEW d, NEW T \in Plan, Reading(q, d, T), q.pipe # <<>>,
           NEW q2, q2.pipe = Tail(q.pipe), q2.act = NextAct(q.act, Head(q.pipe).type),
           q.flags \subseteq q2.flags,
           Head(q.pipe).type = "FLGS" => Head(q.pipe).val \subseteq q2.flags
    PROVE  Reading(q2, Output(d, Head(q.pipe)), T)
<1> DEFINE c == Consumed(q, T)
           r == Head(q.pipe)
<1>1. /\ c \in Nat /\ c < Length(T) /\ q.act = ActAt(T, c) /\ d = DataAt(T, c)
      /\ r = RecordAt(T, c + 1)
      /\ Len(Tail(q.pipe)) = Len(q.pipe) - 1
      /\ \A i \in 1 .. Len(q.pipe) - 1 : Tail(q.pipe)[i] = RecordAt(T, c + 1 + i)
  BY ReadOne
<1>2. /\ NextAct(q.act, r.type) = ActAt(T, c + 1)
      /\ Output(d, r) = DataAt(T, c + 1)
      /\ r.type = "FLGS" <=> (c + 1 = T.n + 2 \/ c + 1 = XtraAt(T) + 1) /\ T.f # {}
      /\ r.type = "FLGS" => r.val = T.f
  BY <1>1, PlaceStep
<1>3. PICK n \in Nat : n = Len(q.pipe) /\ n > 0 /\ c = Length(T) - n
  <2>1. Len(q.pipe) \in Nat /\ Len(q.pipe) > 0
    BY DEF ProcType
  <2> QED
    BY <2>1, <1>1 DEF Consumed
<1>4. Len(q2.pipe) = n - 1 /\ Len(q2.pipe) <= Length(T) /\ Consumed(q2, T) = c + 1
  <2>1. Len(q2.pipe) = n - 1
    BY <1>1, <1>3
  <2>2. n - 1 <= Length(T) /\ Length(T) - (n - 1) = c + 1
    BY <1>1, <1>3, PlanLength
  <2> QED
    BY <2>1, <2>2 DEF Consumed
<1>5. \A i \in 1 .. Len(q2.pipe) : q2.pipe[i] = RecordAt(T, c + 1 + i)
  BY <1>1, <1>3, <1>4
<1>6. ASSUME c + 1 >= T.n + 2
      PROVE  T.f \subseteq q2.flags
  <2>1. CASE c >= T.n + 2
    BY <2>1 DEF Reading
  <2>2. CASE c + 1 = T.n + 2
    BY <2>2, <1>2
  <2> QED
    BY <1>1, <1>6, <2>1, <2>2, PlanTypes
<1> QED
  BY <1>2, <1>4, <1>5, <1>6 DEF Reading

\* Plan U goes on where plan T stops.
GoesOn(T, U, recs) ==
    /\ Length(U) = Length(T) + Len(recs)
    /\ \A i \in 1 .. Length(T) : RecordAt(U, i) = RecordAt(T, i)
    /\ \A i \in 1 .. Len(recs) : recs[i] = RecordAt(U, Length(T) + i)
    /\ \A c \in 0 .. Length(T) : /\ ActAt(U, c) = ActAt(T, c)
                                 /\ DataAt(U, c) = DataAt(T, c)
                                 /\ c >= U.n + 2 => c >= T.n + 2 /\ U.f = T.f

LEMMA WriteMore ==
    ASSUME NEW q \in ProcType, NEW d, NEW T \in Plan, NEW U \in Plan, Reading(q, d, T),
           NEW recs \in Seq(Record), GoesOn(T, U, recs),
           NEW q2, q2.pipe = q.pipe \o recs, q2.act = q.act, q2.flags = q.flags
    PROVE  Reading(q2, d, U)
<1> DEFINE c == Consumed(q, T)
<1>1. /\ q.pipe \in Seq(Record) /\ recs \in Seq(Record)
      /\ Len(q2.pipe) = Len(q.pipe) + Len(recs)
      /\ \A i \in 1 .. Len(q.pipe) + Len(recs) :
            q2.pipe[i] = IF i <= Len(q.pipe) THEN q.pipe[i] ELSE recs[i - Len(q.pipe)]
  BY DEF ProcType
<1>2. PICK n \in Nat : n = Len(q.pipe)
  BY <1>1
<1>3. PICK k \in Nat : k = Len(recs)
  BY <1>1
<1>4. n <= Length(T) /\ Length(T) \in Nat
  BY <1>2, PlanLength DEF Reading
<1>5. c = Length(T) - n /\ c \in 0 .. Length(T)
  BY <1>2, <1>4 DEF Consumed
<1>6. Length(U) = Length(T) + k /\ Len(q2.pipe) = n + k
  BY <1>1, <1>2, <1>3 DEF GoesOn
<1>7. Consumed(q2, U) = c /\ Len(q2.pipe) <= Length(U)
  BY <1>4, <1>5, <1>6 DEF Consumed
<1>8. ASSUME NEW i \in 1 .. n + k
      PROVE  q2.pipe[i] = RecordAt(U, c + i)
  <2>1. CASE i <= n
    <3>1. i \in 1 .. n /\ c + i \in 1 .. Length(T)
      BY <1>4, <1>5, <2>1
    <3>2. q.pipe[i] = RecordAt(T, c + i)
      BY <1>2, <3>1 DEF Reading
    <3>3. RecordAt(U, c + i) = RecordAt(T, c + i)
      BY <3>1 DEF GoesOn
    <3> QED
      BY <1>1, <1>2, <1>3, <2>1, <3>2, <3>3
  <2>2. CASE ~(i <= n)
    <3>1. i - n \in 1 .. k /\ Length(T) + (i - n) = c + i /\ ~(i <= n)
      BY <1>4, <1>5, <2>2
    <3>2. recs[i - n] = RecordAt(U, c + i)
      BY <1>3, <3>1 DEF GoesOn
    <3>3. q2.pipe[i] = recs[i - n]
      BY <1>1, <1>2, <1>3, <2>2
    <3> QED
      BY <3>2, <3>3
  <2> QED
    BY <2>1, <2>2
<1>9. q.act = ActAt(U, c) /\ d = DataAt(U, c) /\ (c >= U.n + 2 => U.f \subseteq q.flags)
  BY <1>5 DEF Reading, GoesOn
<1> QED
  BY <1>6, <1>7, <1>8, <1>9 DEF Reading

\* The three ways in which a client goes on.
Later(T, U) ==
    /\ U.m = T.m
    /\ \/ T.at = "none"
       \/ T.at = "envelope" /\ U.n >= T.n
       \/ T.at = "message" /\ U.n = T.n /\ U.f = T.f /\ U.k >= T.k

LEMMA SamePast ==
    ASSUME NEW T \in Plan, NEW U \in Plan, Later(T, U)
    PROVE  /\ \A i \in 1 .. Length(T) : RecordAt(U, i) = RecordAt(T, i)
           /\ \A c \in 0 .. Length(T) : /\ ActAt(U, c) = ActAt(T, c)
                                        /\ DataAt(U, c) = DataAt(T, c)
                                        /\ c >= U.n + 2 => c >= T.n + 2 /\ U.f = T.f
<1>1. /\ T.n \in Nat /\ T.k \in Nat /\ MesgAt(T) \in Nat /\ XtraAt(T) \in Nat
      /\ T.n + 2 <= MesgAt(T) /\ XtraAt(T) = MesgAt(T) + T.k + 1
      /\ U.n \in Nat /\ U.k \in Nat /\ MesgAt(U) \in Nat /\ XtraAt(U) \in Nat
      /\ U.n + 2 <= MesgAt(U) /\ XtraAt(U) = MesgAt(U) + U.k + 1
      /\ XtraAt(T) < EndAt(T) /\ EndAt(T) \in Nat /\ XtraAt(U) < EndAt(U) /\ EndAt(U) \in Nat
  BY PlanTypes, PlanPlaces
<1>2. CASE T.at = "none"
  <2>1. Length(T) = 0
    BY <1>2, PlanLength
  <2>2. 1 .. 0 = {} /\ 0 .. 0 = {0}
    OBVIOUS
  <2>3. ActAt(U, 0) = ActAt(T, 0) /\ DataAt(U, 0) = DataAt(T, 0) /\ ~(0 >= U.n + 2)
    BY <1>1 DEF ActAt, DataAt
  <2> QED
    BY <2>1, <2>2, <2>3
<1>3. CASE T.at = "envelope" /\ U.n >= T.n /\ U.m = T.m
  <2>1. Length(T) = T.n + 1
    BY <1>3, PlanLength
  <2>2. ASSUME NEW i \in 1 .. T.n + 1
        PROVE  RecordAt(U, i) = RecordAt(T, i)
    BY <1>1, <1>3 DEF RecordAt
  <2>3. ASSUME NEW c \in 0 .. T.n + 1
        PROVE  /\ ActAt(U, c) = ActAt(T, c) /\ DataAt(U, c) = DataAt(T, c) /\ ~(c >= U.n + 2)
    BY <1>1, <1>3 DEF ActAt, DataAt
  <2> QED
    BY <2>1, <2>2, <2>3
<1>4. CASE T.at = "message" /\ U.n = T.n /\ U.f = T.f /\ U.k >= T.k /\ U.m = T.m
  <2>1. Length(T) = MesgAt(T) + T.k /\ MesgAt(U) = MesgAt(T) /\ XtraAt(T) <= XtraAt(U)
    <3>1. Length(T) = MesgAt(T) + T.k
      BY <1>4, PlanLength
    <3>2. MesgAt(U) = MesgAt(T)
      BY <1>4 DEF MesgAt, Extra
    <3> QED
      BY <1>1, <1>4, <3>1, <3>2
  <2>2. ASSUME NEW i \in 1 .. MesgAt(T) + T.k
        PROVE  RecordAt(U, i) = RecordAt(T, i)
    <3>1. i < XtraAt(T) /\ i < XtraAt(U) /\ i < EndAt(T) /\ i < EndAt(U)
      BY <1>1, <2>1
    <3> QED
      BY <1>1, <1>4, <2>1, <3>1 DEF RecordAt
  <2>3. ASSUME NEW c \in 0 .. MesgAt(T) + T.k
        PROVE  ActAt(U, c) = ActAt(T, c) /\ DataAt(U, c) = DataAt(T, c)
    <3>1. c < XtraAt(T) /\ c < XtraAt(U)
      BY <1>1, <2>1
    <3> QED
      BY <1>1, <1>4, <2>1, <3>1 DEF ActAt, DataAt
  <2> QED
    BY <1>4, <2>1, <2>2, <2>3
<1> QED
  BY <1>2, <1>3, <1>4, PlanTypes DEF Later

\* Appending one record.
LEMMA Append1 ==
    ASSUME NEW s \in Seq(Record), NEW r \in Record
    PROVE  /\ s \o <<r>> \in Seq(Record) /\ Len(s \o <<r>>) = Len(s) + 1
           /\ (s \o <<r>>)[Len(s) + 1] = r
           /\ \A i \in 1 .. Len(s) : (s \o <<r>>)[i] = s[i]
<1>1. <<r>> \in Seq(Record) /\ Len(<<r>>) = 1 /\ <<r>>[1] = r /\ Len(s) \in Nat
  OBVIOUS
<1>2. /\ s \o <<r>> \in Seq(Record) /\ Len(s \o <<r>>) = Len(s) + Len(<<r>>)
      /\ \A i \in 1 .. Len(s) + Len(<<r>>) :
            (s \o <<r>>)[i] = IF i <= Len(s) THEN s[i] ELSE <<r>>[i - Len(s)]
  BY <1>1
<1>3. PICK n \in Nat : n = Len(s)
  BY <1>1
<1>4. n + 1 \in 1 .. n + 1 /\ ~(n + 1 <= n) /\ n + 1 - n = 1
      /\ \A i \in 1 .. n : i \in 1 .. n + 1 /\ i <= n
  OBVIOUS
<1> QED
  BY <1>1, <1>2, <1>3, <1>4

LEMMA Single ==
    ASSUME NEW r \in Record
    PROVE  <<r>> \in Seq(Record) /\ Len(<<r>>) = 1 /\ <<r>>[1] = r
OBVIOUS

LEMMA GoesOnByOne ==
    ASSUME NEW T \in Plan, NEW U \in Plan, Later(T, U), NEW r \in Record,
           Length(U) = Length(T) + 1, RecordAt(U, Length(U)) = r
    PROVE  <<r>> \in Seq(Record) /\ GoesOn(T, U, <<r>>)
<1>1. <<r>> \in Seq(Record) /\ Len(<<r>>) = 1 /\ <<r>>[1] = r
  BY Single
<1>2. \A i \in 1 .. 1 : i = 1
  OBVIOUS
<1>3. \A i \in 1 .. Len(<<r>>) : <<r>>[i] = RecordAt(U, Length(T) + i)
  BY <1>1, <1>2
<1>4. /\ \A i \in 1 .. Length(T) : RecordAt(U, i) = RecordAt(T, i)
      /\ \A c \in 0 .. Length(T) : /\ ActAt(U, c) = ActAt(T, c)
                                   /\ DataAt(U, c) = DataAt(T, c)
                                   /\ c >= U.n + 2 => c >= T.n + 2 /\ U.f = T.f
  BY SamePast
<1> QED
  BY <1>1, <1>3, <1>4 DEF GoesOn

\* What the clients write, and how far their plans are then.
LEMMA WriteRcpt ==
    ASSUME NEW T \in Plan, T.at = "envelope", T.n < MaxRcpt,
           NEW U \in Plan, U.at = "envelope", U.m = T.m, U.n = T.n + 1, U.f = {}
    PROVE  LET recs == <<RecOf("RCPT", <<T.m, T.n + 1>>)>> IN
           recs \in Seq(Record) /\ GoesOn(T, U, recs)
<1>1. T.n \in Nat /\ Length(T) = T.n + 1
  BY PlanTypes, PlanLength
<1>2. Length(U) = T.n + 2 /\ MesgAt(U) > T.n + 2
  <2>1. Length(U) = U.n + 1 /\ MesgAt(U) = U.n + 2 + Extra(U) /\ Extra(U) \in {0, 1}
    BY PlanLength, PlanPlaces
  <2> QED
    BY <1>1, <2>1
<1>3. Later(T, U)
  BY <1>1 DEF Later
<1>4. RecOf("RCPT", <<T.m, T.n + 1>>) \in Record
  <2>1. T.m \in Msg /\ T.n + 1 \in 1 .. MaxRcpt
    BY <1>1, PlanTypes, Numbers
  <2> QED
    BY <2>1, RecTypes DEF Rcpt
<1>5. RecordAt(U, T.n + 2) = RecOf("RCPT", <<T.m, T.n + 1>>)
  <2>1. PICK j \in Nat : j = T.n + 2
    BY <1>1
  <2>2. j # 1 /\ j <= U.n + 1 /\ j - 1 = T.n + 1
    BY <1>1, <2>1
  <2>3. RecordAt(U, j) = RecOf("RCPT", <<U.m, j - 1>>)
    BY <2>2 DEF RecordAt
  <2> QED
    BY <2>1, <2>2, <2>3
<1>6. Length(U) = Length(T) + 1
  BY <1>1, <1>2
<1> QED
  BY <1>2, <1>3, <1>4, <1>5, <1>6, GoesOnByOne

LEMMA WriteFrom ==
    ASSUME NEW T \in Plan, T.at = "none",
           NEW U \in Plan, U.at = "envelope", U.m = T.m, U.n = 0
    PROVE  LET recs == <<RecOf("FROM", T.m)>> IN
           recs \in Seq(Record) /\ GoesOn(T, U, recs)
<1>1. Length(T) = 0 /\ Length(U) = 1
  <2>1. Length(T) = 0 /\ Length(U) = U.n + 1
    BY PlanLength
  <2> QED
    BY <2>1
<1>2. Later(T, U)
  BY DEF Later
<1>3. RecOf("FROM", T.m) \in Record
  BY RecTypes, PlanTypes
<1>4. RecordAt(U, 1) = RecOf("FROM", T.m)
  BY DEF RecordAt
<1>5. Length(U) = Length(T) + 1
  BY <1>1
<1> QED
  BY <1>1, <1>2, <1>3, <1>4, <1>5, GoesOnByOne

LEMMA WriteNorm ==
    ASSUME NEW T \in Plan, T.at = "message",
           NEW U \in Plan, U.at = "message", U.m = T.m, U.n = T.n, U.f = T.f, U.k = T.k + 1
    PROVE  LET recs == <<Rec("NORM")>> IN
           recs \in Seq(Record) /\ GoesOn(T, U, recs)
<1>1. Length(T) = MesgAt(T) + T.k /\ T.k \in Nat /\ MesgAt(T) \in Nat /\ T.n + 2 <= MesgAt(T) /\ T.n \in Nat
  BY PlanTypes, PlanLength, PlanPlaces
<1>2. MesgAt(U) = MesgAt(T)
  BY DEF MesgAt, Extra
<1>3. Length(U) = MesgAt(T) + T.k + 1 /\ XtraAt(U) > Length(U) /\ EndAt(U) > Length(U)
  <2>1. /\ Length(U) = MesgAt(U) + U.k /\ XtraAt(U) = MesgAt(U) + U.k + 1
        /\ EndAt(U) = XtraAt(U) + Extra(U) + 1 /\ Extra(U) \in {0, 1}
    BY PlanLength, PlanPlaces
  <2> QED
    BY <1>1, <1>2, <2>1
<1>4. Later(T, U)
  BY <1>1 DEF Later
<1>5. Rec("NORM") \in Record
  BY RecTypes
<1>6. RecordAt(U, Length(U)) = Rec("NORM")
  <2>1. /\ Length(U) # 1 /\ ~(Length(U) <= U.n + 1) /\ Length(U) # MesgAt(U) /\ Length(U) # XtraAt(U)
        /\ Length(U) # EndAt(U) /\ ~(Length(U) < MesgAt(U)) /\ ~(Length(U) > XtraAt(U))
    <3>1. XtraAt(U) \in Nat /\ EndAt(U) \in Nat
      BY PlanPlaces
    <3> QED
      BY <1>1, <1>2, <1>3, <3>1
  <2> QED
    BY <2>1 DEF RecordAt
<1>7. Length(U) = Length(T) + 1
  BY <1>1, <1>3
<1> QED
  BY <1>4, <1>5, <1>6, <1>7, GoesOnByOne

\* The records around the content, which hold the flags if there are any.
LEMMA PreMessageIs ==
    ASSUME NEW s, s.saved_flags \subseteq ActionFlag
    PROVE  LET p == PreMessage(s) IN
           /\ p \in Seq(Record)
           /\ s.saved_flags = {} => Len(p) = 1 /\ p[1] = Rec("MESG")
           /\ s.saved_flags # {} => Len(p) = 2 /\ p[1] = RecOf("FLGS", s.saved_flags) /\ p[2] = Rec("MESG")
<1>1. RecOf("FLGS", s.saved_flags) \in Record /\ Rec("MESG") \in Record
  BY RecTypes
<1> DEFINE f == RecOf("FLGS", s.saved_flags)
           m == Rec("MESG")
<1>2. PreMessage(s) = (IF s.saved_flags = {} THEN <<>> ELSE <<f>>) \o <<m>>
  BY DEF PreMessage
<1>3. f \in Record /\ m \in Record
  BY <1>1
<1> HIDE DEF f, m
<1>4. CASE s.saved_flags = {}
  <2>1. <<>> \in Seq(Record) /\ Len(<<>>) = 0
    OBVIOUS
  <2> QED
    BY <1>2, <1>3, <1>4, <2>1, Append1 DEF m
<1>5. CASE s.saved_flags # {}
  <2>1. <<f>> \in Seq(Record) /\ Len(<<f>>) = 1 /\ <<f>>[1] = f
    BY <1>3, Single
  <2>2. /\ <<f>> \o <<m>> \in Seq(Record) /\ Len(<<f>> \o <<m>>) = 2
        /\ (<<f>> \o <<m>>)[1] = f /\ (<<f>> \o <<m>>)[2] = m
    BY <1>3, <2>1, Append1
  <2> QED
    BY <1>2, <1>5, <2>2 DEF f, m
<1> QED
  BY <1>4, <1>5

LEMMA PostMessageIs ==
    ASSUME NEW s, s.saved_flags \subseteq ActionFlag
    PROVE  LET p == PostMessage(s) IN
           /\ p \in Seq(Record)
           /\ s.saved_flags = {} => Len(p) = 2 /\ p[1] = Rec("XTRA") /\ p[2] = Rec("END")
           /\ s.saved_flags # {} => /\ Len(p) = 3 /\ p[1] = Rec("XTRA")
                                    /\ p[2] = RecOf("FLGS", s.saved_flags) /\ p[3] = Rec("END")
<1>1. RecOf("FLGS", s.saved_flags) \in Record /\ Rec("XTRA") \in Record /\ Rec("END") \in Record
  BY RecTypes
<1> DEFINE f == RecOf("FLGS", s.saved_flags)
           x == Rec("XTRA")
           e == Rec("END")
<1>2. PostMessage(s) = (<<x>> \o (IF s.saved_flags = {} THEN <<>> ELSE <<f>>)) \o <<e>>
  BY DEF PostMessage
<1>3. f \in Record /\ x \in Record /\ e \in Record
  BY <1>1
<1> HIDE DEF f, x, e
<1>4. <<x>> \in Seq(Record) /\ Len(<<x>>) = 1 /\ <<x>>[1] = x
  BY <1>3, Single
<1>5. CASE s.saved_flags = {}
  <2>1. <<x>> \o <<>> = <<x>>
    OBVIOUS
  <2>2. /\ <<x>> \o <<e>> \in Seq(Record) /\ Len(<<x>> \o <<e>>) = 2
        /\ (<<x>> \o <<e>>)[1] = x /\ (<<x>> \o <<e>>)[2] = e
    BY <1>3, <1>4, Append1
  <2> QED
    BY <1>2, <1>5, <2>1, <2>2 DEF x, e
<1>6. CASE s.saved_flags # {}
  <2>0. /\ <<x>> \o <<f>> \in Seq(Record) /\ Len(<<x>> \o <<f>>) = 2
        /\ (<<x>> \o <<f>>)[1] = x /\ (<<x>> \o <<f>>)[2] = f
    BY <1>3, <1>4, Append1
  <2>1. PICK y : y = <<x>> \o <<f>>
    OBVIOUS
  <2>2. y \in Seq(Record) /\ Len(y) = 2 /\ y[1] = x /\ y[2] = f
    BY <2>0, <2>1
  <2>3. /\ y \o <<e>> \in Seq(Record) /\ Len(y \o <<e>>) = 3
        /\ (y \o <<e>>)[1] = x /\ (y \o <<e>>)[2] = f /\ (y \o <<e>>)[3] = e
    <3>1. /\ y \o <<e>> \in Seq(Record) /\ Len(y \o <<e>>) = Len(y) + 1
          /\ (y \o <<e>>)[Len(y) + 1] = e
          /\ \A i \in 1 .. Len(y) : (y \o <<e>>)[i] = y[i]
      BY <1>3, <2>2, Append1
    <3>2. 1 \in 1 .. 2 /\ 2 \in 1 .. 2 /\ 2 + 1 = 3
      OBVIOUS
    <3> QED
      BY <2>2, <3>1, <3>2
  <2> QED
    BY <1>2, <1>6, <2>1, <2>3 DEF x, f, e
<1> QED
  BY <1>5, <1>6

LEMMA WritePre ==
    ASSUME NEW T \in Plan, T.at = "envelope",
           NEW s, s.saved_flags \subseteq ActionFlag,
           NEW U \in Plan, U.at = "message", U.m = T.m, U.n = T.n, U.k = 0, U.f = s.saved_flags
    PROVE  PreMessage(s) \in Seq(Record) /\ GoesOn(T, U, PreMessage(s))
<1>1. T.n \in Nat /\ Length(T) = T.n + 1
  BY PlanTypes, PlanLength
<1>2. /\ Length(U) = MesgAt(U) /\ MesgAt(U) = T.n + 2 + Extra(U)
      /\ XtraAt(U) \in Nat /\ XtraAt(U) > MesgAt(U) /\ EndAt(U) \in Nat /\ EndAt(U) > MesgAt(U)
  <2>1. /\ Length(U) = MesgAt(U) + U.k /\ MesgAt(U) = U.n + 2 + Extra(U) /\ MesgAt(U) \in Nat
        /\ XtraAt(U) = MesgAt(U) + U.k + 1 /\ EndAt(U) = XtraAt(U) + Extra(U) + 1 /\ Extra(U) \in {0, 1}
    BY PlanLength, PlanPlaces
  <2> QED
    BY <1>1, <2>1
<1>3. Later(T, U)
  BY <1>1 DEF Later
<1>4. /\ Length(U) = Length(T) + Len(PreMessage(s))
      /\ \A i \in 1 .. Len(PreMessage(s)) : PreMessage(s)[i] = RecordAt(U, Length(T) + i)
  <2>1. CASE s.saved_flags = {}
    <3>1. Extra(U) = 0 /\ Len(PreMessage(s)) = 1 /\ PreMessage(s)[1] = Rec("MESG")
      BY <2>1, PreMessageIs DEF Extra
    <3>2. MesgAt(U) = T.n + 2 /\ T.n + 2 # 1 /\ ~(T.n + 2 <= U.n + 1)
      BY <1>1, <1>2, <3>1
    <3>3. RecordAt(U, T.n + 2) = Rec("MESG")
      BY <3>2 DEF RecordAt
    <3>4. /\ T.n + 1 + 1 = T.n + 2
          /\ \A i \in 1 .. 1 : i = 1
      BY <1>1
    <3> QED
      BY <1>1, <1>2, <3>1, <3>2, <3>3, <3>4
  <2>2. CASE s.saved_flags # {}
    <3>1. /\ Extra(U) = 1 /\ Len(PreMessage(s)) = 2
          /\ PreMessage(s)[1] = RecOf("FLGS", s.saved_flags) /\ PreMessage(s)[2] = Rec("MESG")
      BY <2>2, PreMessageIs DEF Extra
    <3>2. /\ MesgAt(U) = T.n + 3 /\ T.n + 2 # 1 /\ ~(T.n + 2 <= U.n + 1)
          /\ T.n + 3 # 1 /\ ~(T.n + 3 <= U.n + 1) /\ T.n + 2 < MesgAt(U)
          /\ T.n + 2 # XtraAt(U) /\ T.n + 2 # EndAt(U)
      BY <1>1, <1>2, <3>1
    <3>3. RecordAt(U, T.n + 2) = RecOf("FLGS", s.saved_flags) /\ RecordAt(U, T.n + 3) = Rec("MESG")
      BY <1>1, <3>2 DEF RecordAt
    <3>4. /\ T.n + 1 + 1 = T.n + 2 /\ T.n + 1 + 2 = T.n + 3
          /\ \A i \in 1 .. 2 : i = 1 \/ i = 2
      BY <1>1
    <3> QED
      BY <1>1, <1>2, <3>1, <3>2, <3>3, <3>4
  <2> QED
    BY <2>1, <2>2
<1> QED
  BY <1>3, <1>4, SamePast, PreMessageIs DEF GoesOn

LEMMA WritePost ==
    ASSUME NEW T \in Plan, T.at = "message",
           NEW s, s.saved_flags = T.f,
           NEW U \in Plan, U.at = "extracted", U.m = T.m, U.n = T.n, U.k = T.k, U.f = T.f
    PROVE  PostMessage(s) \in Seq(Record) /\ GoesOn(T, U, PostMessage(s))
<1>1. /\ T.n \in Nat /\ T.k \in Nat /\ Length(T) = MesgAt(T) + T.k
      /\ XtraAt(T) = MesgAt(T) + T.k + 1 /\ MesgAt(T) \in Nat /\ T.n + 2 <= MesgAt(T)
      /\ EndAt(T) = XtraAt(T) + Extra(T) + 1
      /\ T.f \subseteq ActionFlag
  BY PlanTypes, PlanLength, PlanPlaces
<1>2. MesgAt(U) = MesgAt(T) /\ XtraAt(U) = XtraAt(T) /\ EndAt(U) = EndAt(T) /\ Extra(U) = Extra(T)
  BY DEF MesgAt, XtraAt, EndAt, Extra
<1>3. Length(U) = EndAt(U) /\ Later(T, U)
  <2>1. Length(U) = EndAt(U)
    BY PlanLength
  <2> QED
    BY <1>1, <2>1 DEF Later
<1>4. /\ Length(U) = Length(T) + Len(PostMessage(s))
      /\ \A i \in 1 .. Len(PostMessage(s)) : PostMessage(s)[i] = RecordAt(U, Length(T) + i)
  <2> DEFINE l == Length(T)
  <2>0. l \in Nat /\ XtraAt(U) = l + 1 /\ MesgAt(U) < l + 1 /\ U.n + 1 < l + 1 /\ MesgAt(U) \in Nat /\ U.n \in Nat
        /\ l + 1 # 1
    BY <1>1, <1>2
  <2>1. CASE s.saved_flags = {}
    <3>1. Extra(U) = 0 /\ Len(PostMessage(s)) = 2 /\ PostMessage(s)[1] = Rec("XTRA") /\ PostMessage(s)[2] = Rec("END")
      BY <1>1, <2>1, PostMessageIs DEF Extra
    <3>2. EndAt(U) = l + 2
      BY <1>1, <1>2, <2>0, <3>1
    <3>3. RecordAt(U, l + 1) = Rec("XTRA") /\ RecordAt(U, l + 2) = Rec("END")
      BY <2>0, <3>2 DEF RecordAt
    <3>4. \A i \in 1 .. 2 : i = 1 \/ i = 2
      OBVIOUS
    <3> QED
      BY <1>3, <3>1, <3>2, <3>3, <3>4
  <2>2. CASE s.saved_flags # {}
    <3>1. /\ Extra(U) = 1 /\ Len(PostMessage(s)) = 3 /\ PostMessage(s)[1] = Rec("XTRA")
          /\ PostMessage(s)[2] = RecOf("FLGS", T.f) /\ PostMessage(s)[3] = Rec("END")
      BY <1>1, <2>2, PostMessageIs DEF Extra
    <3>2. EndAt(U) = l + 3
      BY <1>1, <1>2, <2>0, <3>1
    <3>3. RecordAt(U, l + 1) = Rec("XTRA") /\ RecordAt(U, l + 2) = RecOf("FLGS", T.f) /\ RecordAt(U, l + 3) = Rec("END")
      BY <2>0, <3>2 DEF RecordAt
    <3>4. \A i \in 1 .. 3 : i = 1 \/ i = 2 \/ i = 3
      OBVIOUS
    <3> QED
      BY <1>3, <3>1, <3>2, <3>3, <3>4
  <2> QED
    BY <2>1, <2>2
<1>5. PostMessage(s) \in Seq(Record)
  BY <1>1, PostMessageIs
<1> QED
  BY <1>3, <1>4, <1>5, SamePast DEF GoesOn

\* pickup_copy() writes the envelope and the content at once, then the rest.
LEMMA WriteCopy ==
    ASSUME NEW T \in Plan, T.at = "none", T.n = 1, T.f = {}, T.k = 1,
           NEW U \in Plan, U.at = "message", U.m = T.m, U.n = 1, U.f = {}, U.k = 1
    PROVE  LET recs == <<RecOf("FROM", T.m), RecOf("RCPT", <<T.m, 1>>), Rec("MESG"), Rec("NORM")>> IN
           recs \in Seq(Record) /\ GoesOn(T, U, recs)
<1> DEFINE a == RecOf("FROM", T.m)
           b == RecOf("RCPT", <<T.m, 1>>)
           c == Rec("MESG")
           d == Rec("NORM")
<1>1. T.m \in Msg /\ 1 \in 1 .. MaxRcpt
  BY PlanTypes, Numbers
<1>2. a \in Record /\ b \in Record /\ c \in Record /\ d \in Record
  BY <1>1, RecTypes DEF Rcpt
<1>3. Length(T) = 0 /\ MesgAt(U) = 3 /\ XtraAt(U) = 5 /\ EndAt(U) = 6 /\ Length(U) = 4
  <2>1. /\ Length(T) = 0 /\ Length(U) = MesgAt(U) + U.k /\ MesgAt(U) = U.n + 2 + Extra(U)
        /\ XtraAt(U) = MesgAt(U) + U.k + 1 /\ EndAt(U) = XtraAt(U) + Extra(U) + 1
    BY PlanLength, PlanPlaces
  <2>2. Extra(U) = 0
    BY DEF Extra
  <2> QED
    BY <2>1, <2>2
<1>4. RecordAt(U, 1) = a /\ RecordAt(U, 3) = c /\ RecordAt(U, 4) = d
  BY <1>3 DEF RecordAt
<1>5. RecordAt(U, 2) = b
  <2>1. RecordAt(U, 2) = RecOf("RCPT", <<U.m, 2 - 1>>)
    BY DEF RecordAt
  <2>2. 2 - 1 = 1
    OBVIOUS
  <2> QED
    BY <2>1, <2>2
<1>6. Later(T, U)
  BY DEF Later
<1> HIDE DEF a, b, c, d
<1>7. /\ <<a, b, c, d>> \in Seq(Record) /\ Len(<<a, b, c, d>>) = 4
      /\ <<a, b, c, d>>[1] = a /\ <<a, b, c, d>>[2] = b
      /\ <<a, b, c, d>>[3] = c /\ <<a, b, c, d>>[4] = d
  BY <1>2
<1>8. \A i \in 1 .. 4 : i = 1 \/ i = 2 \/ i = 3 \/ i = 4
  OBVIOUS
<1>9. \A i \in 1 .. 4 : <<a, b, c, d>>[i] = RecordAt(U, Length(T) + i)
  BY <1>3, <1>4, <1>5, <1>7, <1>8
<1>10. GoesOn(T, U, <<a, b, c, d>>)
  BY <1>3, <1>6, <1>7, <1>9, SamePast DEF GoesOn
<1> QED
  BY <1>7, <1>10 DEF a, b, c, d

LEMMA WriteRest ==
    ASSUME NEW T \in Plan, T.at = "message", T.f = {},
           NEW U \in Plan, U.at = "extracted", U.m = T.m, U.n = T.n, U.f = {}, U.k = T.k
    PROVE  LET recs == <<Rec("XTRA"), Rec("END")>> IN
           recs \in Seq(Record) /\ GoesOn(T, U, recs)
<1> DEFINE a == Rec("XTRA")
           b == Rec("END")
<1>1. a \in Record /\ b \in Record
  BY RecTypes
<1>2. /\ T.n \in Nat /\ T.k \in Nat /\ Length(T) = MesgAt(T) + T.k
      /\ XtraAt(T) = MesgAt(T) + T.k + 1 /\ MesgAt(T) \in Nat /\ T.n + 2 <= MesgAt(T)
      /\ EndAt(T) = XtraAt(T) + Extra(T) + 1
  BY PlanTypes, PlanLength, PlanPlaces
<1>3. MesgAt(U) = MesgAt(T) /\ XtraAt(U) = XtraAt(T) /\ EndAt(U) = EndAt(T) /\ Extra(T) = 0
  BY DEF MesgAt, XtraAt, EndAt, Extra
<1> DEFINE l == Length(T)
<1>4. /\ l \in Nat /\ XtraAt(U) = l + 1 /\ EndAt(U) = l + 2 /\ MesgAt(U) < l + 1
      /\ MesgAt(U) \in Nat /\ U.n \in Nat /\ U.n + 1 < l + 1 /\ l + 1 # 1
  BY <1>2, <1>3
<1>5. RecordAt(U, l + 1) = a /\ RecordAt(U, l + 2) = b
  BY <1>4 DEF RecordAt
<1>6. Length(U) = l + 2 /\ Later(T, U)
  <2>1. Length(U) = EndAt(U)
    BY PlanLength
  <2> QED
    BY <1>2, <1>4, <2>1 DEF Later
<1> HIDE DEF a, b
<1>7. <<a, b>> \in Seq(Record) /\ Len(<<a, b>>) = 2 /\ <<a, b>>[1] = a /\ <<a, b>>[2] = b
  BY <1>1
<1>8. \A i \in 1 .. 2 : i = 1 \/ i = 2
  OBVIOUS
<1>9. \A i \in 1 .. 2 : <<a, b>>[i] = RecordAt(U, Length(T) + i)
  BY <1>5, <1>7, <1>8
<1>10. GoesOn(T, U, <<a, b>>)
  BY <1>6, <1>7, <1>9, SamePast DEF GoesOn
<1> QED
  BY <1>7, <1>10 DEF a, b

\* A stream that has just been opened, with a sender or without.
LEMMA ReadNothing ==
    ASSUME NEW T \in Plan, T.at = "none",
           NEW q, q.pipe = <<>>, q.act = "envelope"
    PROVE  Reading(q, NoData, T)
<1>1. Length(T) = 0 /\ Len(q.pipe) = 0 /\ T.n \in Nat /\ MesgAt(T) > 0
  BY PlanLength, PlanTypes, PlanPlaces
<1>2. Consumed(q, T) = 0 /\ 1 .. Len(q.pipe) = {}
  <2>1. Consumed(q, T) = Length(T) - Len(q.pipe)
    BY DEF Consumed
  <2>2. 0 - 0 = 0 /\ 1 .. 0 = {}
    OBVIOUS
  <2> QED
    BY <1>1, <2>1, <2>2, Zenon
<1>3. ActAt(T, 0) = "envelope" /\ DataAt(T, 0) = NoData /\ ~(0 >= T.n + 2)
  BY <1>1 DEF ActAt, DataAt
<1> QED
  BY <1>1, <1>2, <1>3 DEF Reading

\* A process in the middle of a stream that has begun has, or is about to
\* read, the sender.
LEMMA ReadingCarries ==
    ASSUME NEW q \in ProcType, NEW d, NEW T \in Plan, Reading(q, d, T)
    PROVE  /\ d.from \in {NoMsg, T.m}
           /\ d.end = FALSE \/ Consumed(q, T) >= EndAt(T)
           /\ T.at # "none" =>
                 d.from = T.m \/ (q.pipe # <<>> /\ Head(q.pipe) = RecOf("FROM", T.m))
           /\ q.pipe # <<>> /\ Head(q.pipe).type = "FROM" => Head(q.pipe).val = T.m /\ d.from = NoMsg
<1> DEFINE c == Consumed(q, T)
<1>1. q.pipe \in Seq(Record) /\ Len(q.pipe) \in Nat
  BY DEF ProcType
<1>2. PICK n \in Nat : n = Len(q.pipe)
  BY <1>1
<1>3. c = Length(T) - n /\ c \in Nat
  BY <1>2, PlanLength DEF Consumed, Reading
<1>4. d = DataAt(T, c)
  BY DEF Reading
<1>5. c # 0 => d.from = T.m
  BY <1>3, <1>4 DEF DataAt, Partial, Full
<1>6. c = 0 => d.from = NoMsg /\ d.end = FALSE
  BY <1>4 DEF DataAt, NoData
<1>7. d.end = FALSE \/ c >= EndAt(T)
  <2>1. c < EndAt(T) \/ c >= EndAt(T)
    BY <1>3, PlanPlaces
  <2> QED
    BY <1>3, <1>4, <2>1, PlanPlaces, PlanTypes DEF DataAt, Partial, Full, NoData
<1>8. ASSUME T.at # "none", c = 0
      PROVE  q.pipe # <<>> /\ Head(q.pipe) = RecOf("FROM", T.m)
  <2>1. Length(T) > 0
    BY <1>8, PlanLength, PlanTypes, PlanPlaces
  <2>2. n > 0
    BY <1>3, <1>8, <2>1, PlanLength
  <2>3. q.pipe # <<>>
    BY <1>2, <2>2
  <2>4. Head(q.pipe) = RecordAt(T, 0 + 1)
    BY <1>8, <2>3, ReadOne
  <2> QED
    BY <2>3, <2>4 DEF RecordAt
<1>9. ASSUME q.pipe # <<>>, Head(q.pipe).type = "FROM"
      PROVE  Head(q.pipe).val = T.m /\ d.from = NoMsg
  BY <1>9, ReadOne, PlaceStep
<1> QED
  BY <1>5, <1>6, <1>7, <1>8, <1>9

-----------------------------------------------------------------------------
(***************************************************************************)
(* What a step leaves alone.  A step changes one process and its file, so  *)
(* most of the invariant is about things that stay as they are, except     *)
(* that the histories grow.                                                *)
(***************************************************************************)
Grows ==
    /\ \A m \in Msg : asked[m] \subseteq asked'[m]
    /\ bounced \subseteq bounced'
    /\ \A m \in Mail : sent[m].end => sent'[m] = sent[m]

\* A whole message remains whole.
LEMMA CompleteStays ==
    ASSUME Grows, NEW i, file'[i].data = file[i].data, Complete(file[i])
    PROVE  /\ Complete(file[i])'
           /\ file[i].data.from \in Mail => sent[file[i].data.from].end
<1>1. /\ file[i].data.from # NoMsg /\ file[i].data.end /\ file[i].data.rcpts # {}
      /\ file[i].data = Whole(file[i].data.from)
  BY DEF Complete
<1>2. file[i].data.from \in Mail => sent[file[i].data.from].end
  BY <1>1 DEF Whole
<1>3. Whole(file[i].data.from)' = Whole(file[i].data.from)
  BY <1>2 DEF Whole, Grows, DropData
<1> QED
  BY <1>1, <1>2, <1>3 DEF Complete

LEMMA WishGrows ==
    ASSUME Grows, SmtpdAssumption, NEW i, file'[i] = file[i]
    PROVE  /\ Wish(file[i]) \subseteq Wish(file[i])'
           /\ (file[i].data.from \in Mail => asked'[file[i].data.from] = asked[file[i].data.from])
              => Wish(file[i])' = Wish(file[i])
BY DEF Grows, Wish, SmtpdAssumption

\* A file that the step does not touch.
LEMMA FileFrame ==
    ASSUME IInv, NEW i \in File, file'[i] = file[i], Grows,
           \A m \in Mail : asked'[m] = asked[m] \/ file[i].data.from # m \/ ~sent[m].end,
           \/ file[i].loc \notin {"incoming", "hold"} \/ file[i].ready
           \/ \A p \in Proc : proc[p].phase \in Running /\ proc[p].id = i
                                 => proc'[p].phase \in Running /\ proc'[p].id = i
    PROVE  FileOK(i)'
<1>1. FileOK(i)
  BY DEF IInv
<1>2. Wish(file[i]) \subseteq Wish(file[i])'
  BY WishGrows, SmtpdAssumption
<1>3. ASSUME Complete(file[i])
      PROVE  Complete(file[i])' /\ Wish(file[i])' = Wish(file[i])
  <2>1. Complete(file[i])' /\ (file[i].data.from \in Mail => sent[file[i].data.from].end)
    BY <1>3, CompleteStays
  <2> QED
    BY <2>1, WishGrows, SmtpdAssumption
<1>4. file[i].loc = "active" \/ (file[i].loc = "incoming" /\ file[i].ready) => Complete(file[i])
  BY <1>1 DEF FileOK
<1>5. file[i].loc \in {"incoming", "hold"} /\ ~file[i].ready
         /\ (file[i].orphan \/ (\E p \in Proc : proc[p].phase \in Running /\ proc[p].id = i))
         => file[i].orphan \/ (\E p \in Proc : proc'[p].phase \in Running /\ proc'[p].id = i)
  OBVIOUS
<1> QED
  BY <1>1, <1>2, <1>3, <1>4, <1>5 DEF FileOK

\* A process that reads the records of message m, or has read them.
LEMMA PlanCarries ==
    ASSUME TypeOK, NEW p \in Proc, proc[p].phase = "read", NEW T \in Plan, PlanOf(p, T),
           T.at # "none"
    PROVE  Carries(proc[p].id, T.m)
<1>1. proc[p] \in ProcType
  BY DEF TypeOK, CleanupTypeOK
<1>2. Reading(proc[p], file[proc[p].id].data, T)
  BY DEF PlanOf
<1> QED
  BY <1>1, <1>2, ReadingCarries DEF Carries

\* A process that the step does not touch.
LEMMA ProcFrame ==
    ASSUME IInv, NEW r \in Proc, proc'[r] = proc[r],
           proc[r].id \in File => file'[proc[r].id] = file[proc[r].id],
           Grows,
           \A m \in Mail : \/ asked'[m] = asked[m]
                           \/ ~(proc[r].id \in File /\ Carries(proc[r].id, m))
                           \/ ~sent[m].end /\ r # sess'.cleanup,
           r = sess'.cleanup => r = sess.cleanup /\ sess' = sess /\ sent' = sent,
           r = pick'.p => r = pick.p /\ pick' = pick
    PROVE  ProcOK(r)'
<1>1. ProcOK(r) /\ TypeOK
  BY DEF IInv
<1>2. CASE proc[r].phase \notin Running \cup {"answered"}
  BY <1>1, <1>2 DEF ProcOK, Running
<1>3. CASE proc[r].phase \in Running \cup {"answered"}
  <2> DEFINE i == proc[r].id
  <2>1. i \in File /\ file'[i] = file[i]
    BY <1>1, <1>3 DEF ProcOK
  <2>2. Wish(file[i]) \subseteq Wish(file[i])'
    BY <2>1, WishGrows, SmtpdAssumption
  <2>3. ASSUME Complete(file[i])
        PROVE  Complete(file[i])' /\ Wish(file[i])' = Wish(file[i])
    <3>1. Complete(file[i])' /\ (file[i].data.from \in Mail => sent[file[i].data.from].end)
      BY <2>1, <2>3, CompleteStays
    <3>2. file[i].data.from \in Mail => Carries(i, file[i].data.from)
      BY DEF Carries
    <3> QED
      BY <2>1, <3>1, <3>2, WishGrows, SmtpdAssumption
  <2>4. ASSUME proc[r].phase = "read", NEW T \in Plan, PlanOf(r, T)
        PROVE  PlanOf(r, T)'
    <3>1. T.m \in Mail \/ T.m \in Drop
      BY PlanTypes
    <3>2. T.at = "extracted" => Full(T) = Whole(T.m)'
      <4>1. T.at = "extracted" /\ T.m \in Mail => sent[T.m].end
        BY <2>4 DEF PlanOf, Full, Whole
      <4> QED
        BY <2>4, <4>1 DEF PlanOf, Whole, DropData, Grows
    <3>3. ASSUME T.m \in Mail, T.at = "extracted" \/ r = sess'.cleanup
          PROVE  asked'[T.m] = asked[T.m]
      <4>1. r = sess.cleanup => T.at # "none"
        BY <2>4 DEF PlanOf, SessPlan
      <4>2. T.at # "none"
        BY <3>3, <4>1
      <4>3. Carries(i, T.m)
        BY <1>1, <2>4, <4>2, PlanCarries
      <4>4. T.at = "extracted" => sent[T.m].end
        BY <2>4, <3>3 DEF PlanOf, Full, Whole
      <4> QED
        BY <2>1, <3>3, <4>3, <4>4
    <3>4. T.f \subseteq asked'[T.m]
      BY <2>4, PlanTypes DEF PlanOf, Grows
    <3>5. Reading(proc[r], file[i].data, T)'
      BY <2>1, <2>4 DEF PlanOf, Reading, Consumed
    <3>6. r = pick'.p => T = PickPlan'
      BY <2>4 DEF PlanOf, PickPlan
    <3>7. ASSUME r = sess'.cleanup
          PROVE  /\ T.m = sess'.sender
                 /\ T.at \in {"envelope", "message"} \/ T = SessPlan'
                 /\ sess'.bdat_state # "ERROR" => T = SessPlan'
                 /\ asked'[T.m] \subseteq proc'[r].flags \cup sess'.saved_flags
      <4>1. T.m = sess.sender /\ T.m \in Mail
        BY <1>1, <2>4, <3>7, PlanTypes DEF PlanOf, TypeOK, SmtpdTypeOK, SessType
      <4>2. SessPlan' = SessPlan
        BY <3>7 DEF SessPlan
      <4> QED
        BY <2>4, <3>3, <3>7, <4>1, <4>2 DEF PlanOf
    <3> QED
      BY <2>1, <2>4, <3>2, <3>3, <3>4, <3>5, <3>6, <3>7 DEF PlanOf
  <2>5. OutOk(proc[r])' <=> OutOk(proc[r])
    BY DEF OutOk, ErrMask
  <2>6. Commits(proc[r])' <=> Commits(proc[r])
    BY DEF Commits
  <2>7. Good(file[i])' <=> Good(file[i])
    BY <2>1 DEF Good
  <2> QED
    BY <1>1, <1>3, <2>1, <2>2, <2>3, <2>4, <2>5, <2>6, <2>7 DEF ProcOK
<1> QED
  BY <1>2, <1>3

\* A file that nobody can remove any more stays in the queue.
LEMMA KeptFrame ==
    ASSUME IInv, Grows, NEW m,
           \A i \in File :
               /\ Good(file[i])
               /\ \A p \in Proc : proc[p].id = i => proc[p].phase \in {"answer", "answered"}
               => /\ Good(file'[i]) /\ file'[i].data = file[i].data
                  /\ \A p \in Proc : proc'[p].id = i => proc'[p].phase \in {"answer", "answered"}
    PROVE  Kept(m) => Kept(m)'
<1> SUFFICES ASSUME Kept(m)
             PROVE  Kept(m)'
  OBVIOUS
<1>1. PICK i \in File :
        /\ Good(file[i]) /\ file[i].data = Whole(m)
        /\ \A p \in Proc : proc[p].id = i => proc[p].phase \in {"answer", "answered"}
  BY DEF Kept
<1>2. Complete(file[i]) /\ file[i].data.end
  BY <1>1 DEF IInv, FileOK, Good, Complete
<1>3. m \in Mail => sent[m].end
  BY <1>1, <1>2 DEF Whole
<1>4. Whole(m)' = Whole(m)
  BY <1>3 DEF Whole, Grows, DropData
<1>5. Good(file[i])' <=> Good(file'[i])
  BY DEF Good
<1> QED
  BY <1>1, <1>4, <1>5 DEF Kept

LEMMA FateFrame ==
    ASSUME PickupAssumption, Grows, NEW d \in Drop, Kept(d) => Kept(d)'
    PROVE  Fate(d) => Fate(d)'
BY DEF PickupAssumption, Grows, Fate

LEMMA DropFrame ==
    ASSUME NEW d \in Drop, drop'[d] = drop[d], Fate(d) => Fate(d)'
    PROVE  DropOK(d) => DropOK(d)'
BY DEF DropOK

LEMMA PickFrame ==
    ASSUME PickOK, pick' = pick,
           pick.p = sess'.cleanup => pick.p = sess.cleanup \/ pick.p \notin Proc,
           \A d \in Drop : /\ drop'[d].ready = drop[d].ready
                           /\ drop[d].torn => drop'[d].torn
                           /\ Fate(d) => Fate(d)',
           pick.p \in Proc /\ Serves(pick.p, pick.d) => Serves(pick.p, pick.d)'
    PROVE  PickOK'
BY DEF PickOK

\* Serves(p, m) depends on one process and its file.
LEMMA ServesFrame ==
    ASSUME Grows, NEW p \in Proc, NEW m \in Msg,
           proc'[p] = proc[p],
           proc[p].phase \in Running \cup {"answered"}
              => file'[proc[p].id] = file[proc[p].id]
    PROVE  Serves(p, m) => Serves(p, m)'
BY DEF Serves, Grows, Running

-----------------------------------------------------------------------------
(***************************************************************************)
(* A step of a cleanup process.                                            *)
(***************************************************************************)
LEMMA OtherFile ==
    ASSUME IInv, NEW p \in Proc, NEW r \in Proc, r # p, proc[p].phase \in Running \cup {"answered"},
           proc[r].id \in File
    PROVE  proc[r].id # proc[p].id
BY DEF IInv, OwnFile

\* The message that the client of a process has for it.
Client(p, m) == (p = sess.cleanup /\ m = sess.sender) \/ (p = pick.p /\ m = pick.d)

LEMMA CleanupFrame ==
    ASSUME IInv, TypeOK', NEW p \in Proc, proc[p].phase \in Running,
           NEW id \in File, proc[p].id = id,
           \A r \in Proc : r # p => proc'[r] = proc[r],
           proc'[p].id = id \/ proc'[p].phase \in {"idle", "dead"},
           proc'[p].phase = "idle" => proc[p].eof,
           proc[p].phase = "answer" =>
               /\ Good(file[id]) => Good(file'[id]) /\ file'[id].data = file[id].data
               /\ proc'[p].phase \notin Running,
           \A i \in File : i # id => file'[i] = file[i],
           UNCHANGED <<smtpdVars, pickupVars>>,
           left'.mail = left.mail, left'.rcpt = left.rcpt,
           Grows, bounced' \subseteq Drop,
           \A m \in Msg : asked'[m] = asked[m] \/ file[id].data.from = m,
           ProcOK(p)', FileOK(id)',
           \A m \in Mail : Carries(id, m)' => Carries(id, m),
           \A m \in Msg : Client(p, m) /\ ~proc[p].eof /\ Serves(p, m) => Serves(p, m)'
    PROVE  IInv'
<1>1. /\ TypeOK /\ \A r \in Proc : ProcOK(r)
      /\ \A i \in File : FileOK(i)
      /\ OwnFile /\ OneFile /\ SessOK /\ MailOK /\ PickOK
      /\ \A d \in Drop : DropOK(d)
  BY DEF IInv
<1>2. /\ sess' = sess /\ told' = told /\ sent' = sent /\ drop' = drop /\ pick' = pick
      /\ NoProc \notin Proc /\ Mail \subseteq Msg /\ Drop \subseteq Msg
  BY Numbers DEF smtpdVars, pickupVars
<1>3. NoFile \notin File
  BY Numbers DEF File, NoFile
<1>4. proc'[p].phase \in {"idle", "dead"} => proc'[p].id = NoFile
  BY DEF ProcOK, IdleProc
<1>5. proc'[p].id \in {id, NoFile}
  BY <1>4
<1>6. ASSUME NEW m \in Mail, asked'[m] # asked[m]
      PROVE  Carries(id, m)
  BY <1>2, <1>6 DEF Carries
<1>7. \A r \in Proc : ProcOK(r)'
  <2> SUFFICES ASSUME NEW r \in Proc, r # p
               PROVE  ProcOK(r)'
    OBVIOUS
  <2>1. proc[r].id \in File => proc[r].id # id /\ file'[proc[r].id] = file[proc[r].id]
    BY OtherFile
  <2>2. \A m \in Mail : asked'[m] = asked[m] \/ ~(proc[r].id \in File /\ Carries(proc[r].id, m))
    BY <1>1, <1>3, <1>6, <2>1 DEF OneFile
  <2> QED
    BY <1>2, <2>1, <2>2, ProcFrame
<1>8. \A i \in File : FileOK(i)'
  <2> SUFFICES ASSUME NEW i \in File, i # id
               PROVE  FileOK(i)'
    OBVIOUS
  <2>1. \A m \in Mail : asked'[m] = asked[m] \/ file[i].data.from # m
    BY <1>1, <1>3, <1>6 DEF OneFile, Carries
  <2>2. \A r \in Proc : proc[r].phase \in Running /\ proc[r].id = i
                           => proc'[r].phase \in Running /\ proc'[r].id = i
    <3> TAKE r \in Proc
    <3>1. proc[r].id = i => r # p
      OBVIOUS
    <3> QED
      BY <3>1
  <2> QED
    BY <2>1, <2>2, FileFrame
<1>9. OwnFile'
  <2>1. \A r \in Proc : r # p => proc[r].id # id
    BY <1>1 DEF OwnFile
  <2>2. proc'[p].phase \in Running \cup {"answered"} => proc'[p].id = id
    BY DEF Running
  <2>3. ASSUME NEW r \in Proc, NEW s \in Proc, proc'[r].phase \in Running \cup {"answered"},
               proc'[r].id = proc'[s].id, r # s
        PROVE  FALSE
    <3>1. CASE r = p
      BY <2>1, <2>2, <2>3, <3>1
    <3>2. CASE r # p /\ s # p
      BY <1>1, <2>3, <3>2 DEF OwnFile
    <3>3. CASE r # p /\ s = p
      <4>1. proc[r].id \in File
        BY <1>1, <2>3, <3>3 DEF ProcOK
      <4> QED
        BY <1>3, <1>5, <2>1, <2>3, <3>3, <4>1
    <3> QED
      BY <2>3, <3>1, <3>2, <3>3
  <2> QED
    BY <2>3 DEF OwnFile
<1>10. ASSUME NEW i \in File, NEW m \in Mail, Carries(i, m)'
       PROVE  Carries(i, m)
  <2>1. CASE i = id
    BY <1>10, <2>1
  <2>2. CASE i # id
    <3>1. file'[i].data.from = m => Carries(i, m)
      BY <2>2 DEF Carries
    <3>2. ASSUME NEW r \in Proc, proc'[r].phase = "read", proc'[r].id = i, proc'[r].pipe # <<>>,
                 Head(proc'[r].pipe) = RecOf("FROM", m)
          PROVE  Carries(i, m)
      <4>1. r # p
        BY <1>3, <1>5, <2>2, <3>2
      <4> QED
        BY <3>2, <4>1 DEF Carries
    <3> QED
      BY <1>10, <3>1, <3>2 DEF Carries
  <2> QED
    BY <2>1, <2>2
<1>11. OneFile'
  <2>1. File' = File /\ Mail' = Mail
    BY DEF File
  <2> QED
    BY <1>1, <1>2, <1>10 DEF OneFile
<1>12. \A m \in Msg : Kept(m) => Kept(m)'
  <2>1. ASSUME NEW i \in File, Good(file[i]),
               \A r \in Proc : proc[r].id = i => proc[r].phase \in {"answer", "answered"}
        PROVE  /\ Good(file'[i]) /\ file'[i].data = file[i].data
               /\ \A r \in Proc : proc'[r].id = i => proc'[r].phase \in {"answer", "answered"}
    <3>1. Good(file'[i]) /\ file'[i].data = file[i].data
      BY <2>1 DEF Running
    <3>2. ASSUME NEW r \in Proc, proc'[r].id = i
          PROVE  proc'[r].phase \in {"answer", "answered"}
      <4>1. CASE r # p
        BY <2>1, <3>2, <4>1
      <4>2. CASE r = p
        <5>1. proc[p].id = i /\ proc[p].phase = "answer"
          BY <1>3, <1>5, <2>1, <3>2, <4>2 DEF Running
        <5>2. proc'[p].phase \notin Running /\ proc'[p].phase \notin {"idle", "dead"}
          BY <1>3, <1>4, <3>2, <4>2, <5>1
        <5>3. proc'[p] \in ProcType
          BY DEF TypeOK, CleanupTypeOK
        <5> QED
          BY <4>2, <5>2, <5>3 DEF ProcType
      <4> QED
        BY <4>1, <4>2
    <3> QED
      BY <2>1, <3>1, <3>2
  <2> QED
    BY <2>1, KeptFrame
<1>13. \A d \in Drop : Fate(d) => Fate(d)'
  BY <1>2, <1>12, FateFrame, PickupAssumption
<1>14. \A d \in Drop : DropOK(d)'
  BY <1>1, <1>2, <1>13, DropFrame
<1>15. ASSUME NEW r \in Proc, NEW m \in Msg, Client(r, m), Serves(r, m)
       PROVE  Serves(r, m)'
  <2>1. CASE r = p
    BY <1>15, <2>1 DEF Serves
  <2>2. CASE r # p
    <3>1. proc[r].phase \in Running \cup {"answered"} => file'[proc[r].id] = file[proc[r].id]
      <4>1. proc[r].phase \in Running \cup {"answered"} => proc[r].id \in File
        BY <1>1 DEF ProcOK
      <4>2. proc[r].id \in File => proc[r].id # id
        BY <2>2, OtherFile
      <4> QED
        BY <4>1, <4>2
    <3> QED
      BY <1>15, <2>2, <3>1, ServesFrame
  <2> QED
    BY <2>1, <2>2
<1>16. PickOK'
  <2>1. pick.p \in Proc /\ Serves(pick.p, pick.d) => Serves(pick.p, pick.d)'
    <3>1. pick.d \in Msg \/ pick.p \notin Proc
      <4>1. pick.phase # "idle" \/ pick.p = NoProc
        BY <1>1 DEF PickOK, PickIdle
      <4> QED
        BY <1>1, <1>2, <4>1 DEF PickOK
    <3> QED
      BY <1>2, <1>15, <3>1 DEF Client
  <2> QED
    BY <1>1, <1>2, <1>13, <2>1, PickFrame
<1>17. MailOK'
  <2>1. \A m \in 1 .. left.mail : m \in Mail => asked'[m] = asked[m]
    <3> TAKE m \in 1 .. left.mail
    <3>1. m \in Mail /\ asked'[m] # asked[m] => m > left.mail
      BY <1>1, <1>6 DEF OneFile
    <3>2. left.mail \in Nat
      BY <1>1 DEF TypeOK, CleanupTypeOK, SetupType
    <3> QED
      BY <3>1, <3>2
  <2>2. \A m \in Mail : told[m] = "ok" => Kept(m)' \/ "DISCARD" \in asked'[m]
    BY <1>1, <1>2, <1>12 DEF MailOK, Grows
  <2> QED
    BY <1>1, <1>2, <2>1, <2>2 DEF MailOK
<1>18. SessOK'
  <2>1. sess.sender \in Mail \cup {NoMsg}
    BY <1>1 DEF TypeOK, SmtpdTypeOK, SessType
  <2>2. sess.sender # NoMsg => asked[sess.sender] \subseteq asked'[sess.sender]
    BY <1>2, <2>1 DEF Grows
  <2>3. sess.sender # NoMsg /\ sess.cleanup = NoProc => asked'[sess.sender] = asked[sess.sender]
    BY <1>1, <1>3, <1>6, <2>1 DEF OneFile
  <2>4. sess.cleanup # NoProc => sess.cleanup \in Proc /\ sess.sender # NoMsg /\ Serves(sess.cleanup, sess.sender)
    BY <1>1 DEF SessOK, StreamMatches
  <2>5. sess.cleanup # NoProc => Serves(sess.cleanup, sess.sender)'
    BY <1>2, <1>15, <2>1, <2>4 DEF Client
  <2>6. StreamMatches'
    <3>1. ASSUME sess.cleanup # NoProc
          PROVE  ~proc'[sess.cleanup].eof
      BY <1>2, <2>5, <3>1 DEF Serves
    <3> QED
      BY <1>1, <1>2, <3>1 DEF SessOK, StreamMatches
  <2> QED
    BY <1>1, <1>2, <2>2, <2>3, <2>5, <2>6 DEF SessOK
<1> QED
  BY <1>7, <1>8, <1>9, <1>11, <1>14, <1>16, <1>17, <1>18 DEF IInv

\* A process that no longer reads, or stops reading.
LEMMA CleanupMoves ==
    ASSUME IInv, NEW p \in Proc, proc[p].phase \in Running,
           NEW id \in File, proc[p].id = id,
           NEW q \in ProcType, NEW F \in FileType, proc' = [proc EXCEPT ![p] = q], file' = [file EXCEPT ![id] = F],
           q.phase # "read",
           q.id = id \/ q.phase \in {"idle", "dead"},
           q.phase = "idle" => proc[p].eof,
           q.phase # "idle" /\ ~proc[p].eof => ~q.eof,
           proc[p].phase = "answer" => /\ Good(file[id]) => Good(F) /\ F.data = file[id].data
                                       /\ q.phase \notin Running,
           UNCHANGED <<smtpdVars, pickupVars>>,
           left' \in SetupType, left'.mail = left.mail, left'.rcpt = left.rcpt,
           Grows, bounced' \subseteq Drop, asked' \in [Msg -> SUBSET ActionFlag],
           \A m \in Msg : asked'[m] = asked[m] \/ file[id].data.from = m,
           ProcOK(p)', FileOK(id)',
           F.data.from \in {NoMsg, file[id].data.from},
           q.phase \in Running \cup {"answered"} =>
               ("BOUNCE" \in q.flags <=> "BOUNCE" \in proc[p].flags),
           "DISCARD" \in q.flags =>
               \/ "DISCARD" \in proc[p].flags
               \/ /\ file[id].data.from # NoMsg
                  /\ file[id].data.from \in bounced' \/ "DISCARD" \in asked'[file[id].data.from]
    PROVE  IInv'
<1>1. TypeOK /\ SmtpdTypeOK /\ PickupTypeOK /\ ProcOK(p) /\ OwnFile
  BY DEF IInv, TypeOK
<1>2. TypeOK'
  <2>1. CleanupTypeOK'
    BY <1>1, Numbers DEF TypeOK, CleanupTypeOK, File
  <2> QED
    BY <1>1, <2>1 DEF TypeOK, SmtpdTypeOK, PickupTypeOK, smtpdVars, pickupVars
<1>3. proc'[p] = q /\ file'[id] = F /\ \A r \in Proc : r # p => proc'[r] = proc[r]
  BY <1>1 DEF TypeOK, CleanupTypeOK
<1>4. \A i \in File : i # id => file'[i] = file[i]
  BY <1>1 DEF TypeOK, CleanupTypeOK
<1>5. ASSUME NEW m \in Mail, Carries(id, m)'
      PROVE  Carries(id, m)
  <2>1. m # NoMsg
    BY Numbers
  <2>2. F.data.from = m => Carries(id, m)
    BY <2>1 DEF Carries
  <2>3. ASSUME NEW r \in Proc, proc'[r].phase = "read", proc'[r].id = id, proc'[r].pipe # <<>>,
               Head(proc'[r].pipe) = RecOf("FROM", m)
        PROVE  Carries(id, m)
    <3>1. r # p
      BY <1>3, <2>3
    <3> QED
      BY <1>3, <2>3, <3>1 DEF Carries
  <2> QED
    BY <1>3, <1>5, <2>2, <2>3 DEF Carries
<1>6. ASSUME NEW m \in Msg, ~proc[p].eof, Serves(p, m)
      PROVE  Serves(p, m)'
  <2>1. file[id].data.from \in {NoMsg, m} /\ (m \in Drop <=> "BOUNCE" \in proc[p].flags)
    BY <1>6 DEF Serves
  <2>2. "DISCARD" \in proc[p].flags => "DISCARD" \in asked'[m] \/ m \in bounced'
    BY <1>6 DEF Serves, Grows
  <2>3. "DISCARD" \in q.flags => "DISCARD" \in asked'[m] \/ m \in bounced'
    BY <2>1, <2>2
  <2> QED
    BY <1>3, <1>6, <2>1, <2>3 DEF Serves, Running
<1> QED
  BY <1>2, <1>3, <1>4, <1>5, <1>6, CleanupFrame

LEMMA ProcFacts ==
    ASSUME IInv, NEW p \in Proc, proc[p].phase \in Running \cup {"answered"}
    PROVE  /\ CleanupTypeOK /\ ProcOK(p)
           /\ proc[p] \in ProcType /\ proc[p].id \in File /\ file[proc[p].id] \in FileType
           /\ FileOK(proc[p].id)
           /\ bounced \subseteq Drop
<1>1. TypeOK /\ ProcOK(p) /\ (\A i \in File : FileOK(i)) /\ MailOK
  BY DEF IInv
<1>2. proc[p].id \in File
  BY <1>1 DEF ProcOK
<1> QED
  BY <1>1, <1>2 DEF TypeOK, CleanupTypeOK, MailOK

LEMMA NothingAsked ==
    ASSUME UNCHANGED <<asked, sent>>, bounced \subseteq bounced'
    PROVE  Grows
BY DEF Grows


-----------------------------------------------------------------------------
(***************************************************************************)
(* The end of cleanup_flush() and of mail_stream_finish_file().            *)
(***************************************************************************)

\* The process with a file of its own, before and after a step.
LEMMA ProcMoves ==
    ASSUME IInv, NEW p \in Proc, proc[p].phase \in Running
    PROVE  \E id \in File :
             /\ proc[p].id = id
             /\ proc[p] \in ProcType /\ file[id] \in FileType
             /\ ProcOK(p) /\ FileOK(id) /\ bounced \subseteq Drop
             /\ proc \in [Proc -> ProcType] /\ file \in [File -> FileType]
             /\ asked \in [Msg -> SUBSET ActionFlag] /\ left \in SetupType
             /\ \A q : proc' = [proc EXCEPT ![p] = q] => proc'[p] = q
             /\ \A F : file' = [file EXCEPT ![id] = F] => file'[id] = F
             /\ file = [file EXCEPT ![id] = file[id]]
BY ProcFacts DEF CleanupTypeOK

LEMMA LeftFacts ==
    ASSUME left \in SetupType
    PROVE  /\ UNCHANGED left => /\ left' \in SetupType /\ left'.mail = left.mail /\ left'.rcpt = left.rcpt
           /\ Spend("fault") \/ Spend("verdict") \/ Spend("drop") =>
                 /\ left' \in SetupType /\ left'.mail = left.mail /\ left'.rcpt = left.rcpt
<1>1. ASSUME NEW what \in {"fault", "verdict", "drop"}, Spend(what)
      PROVE  left' \in SetupType /\ left'.mail = left.mail /\ left'.rcpt = left.rcpt
  <2>1. PICK b \in BOOLEAN : b = (left.clean /\ what # "fault")
    BY Zenon
  <2>2. PICK n \in Nat : n = left[what] - 1
    <3>1. left[what] > 0
      BY <1>1, Zenon DEF Spend
    <3>2. left[what] \in Nat
      BY DEF SetupType
    <3> QED
      BY <3>1, <3>2
  <2>3. left' = [left EXCEPT ![what] = n, !.clean = b]
    BY <1>1, <2>1, <2>2, Zenon DEF Spend
  <2> QED
    BY <2>3 DEF SetupType
<1>2. ASSUME UNCHANGED left
      PROVE  left' \in SetupType /\ left'.mail = left.mail /\ left'.rcpt = left.rcpt
  BY <1>2
<1>3. "fault" \in {"fault", "verdict", "drop"} /\ "verdict" \in {"fault", "verdict", "drop"}
      /\ "drop" \in {"fault", "verdict", "drop"}
  OBVIOUS
<1> QED
  BY <1>1, <1>2, <1>3, Zenon

LEMMA EmptyTypes ==
    /\ IdleProc \in ProcType /\ [IdleProc EXCEPT !.phase = "dead"] \in ProcType
    /\ IdleProc.phase = "idle" /\ IdleProc.id = NoFile /\ IdleProc.flags = {} /\ IdleProc.errs = {}
    /\ ~IdleProc.eof /\ [IdleProc EXCEPT !.phase = "idle"] = IdleProc
    /\ NoData \in Data /\ NoData.from = NoMsg
    /\ NewFile \in FileType
    /\ LET F == [NewFile EXCEPT !.loc = "removed"]
       IN  F \in FileType /\ F.loc = "removed" /\ ~F.ready /\ F.data = NoData
<1>1. <<>> \in Seq(Record) /\ NoFile \in File \cup {NoFile} /\ NoMsg \in Msg \cup {NoMsg}
  OBVIOUS
<1>2. IdleProc \in ProcType /\ [IdleProc EXCEPT !.phase = "dead"] \in ProcType
  BY <1>1 DEF IdleProc, ProcType
<1>3. NoData \in Data /\ NoData.from = NoMsg
  BY <1>1 DEF NoData, Data
<1>4. NewFile \in FileType /\ [NewFile EXCEPT !.loc = "removed"] \in FileType
  BY <1>3 DEF NewFile, FileType
<1>5. [IdleProc EXCEPT !.phase = "idle"] = IdleProc
  <2>1. \A r \in ProcType : [r EXCEPT !.phase = r.phase] = r
    BY DEF ProcType
  <2>2. IdleProc.phase = "idle"
    BY DEF IdleProc
  <2> QED
    BY <1>2, <2>1, <2>2
<1>6. LET F == [NewFile EXCEPT !.loc = "removed"]
      IN  F.loc = "removed" /\ ~F.ready /\ F.data = NoData
  BY DEF NewFile
<1> QED
  BY <1>2, <1>3, <1>4, <1>5, <1>6 DEF IdleProc

\* A file that is the same but for its place and its state on the disk.
LEMMA SameFile ==
    ASSUME UNCHANGED <<asked, sent>>, NEW i \in File, FileOK(i),
           file'[i].data = file[i].data, file'[i].asked = file[i].asked,
           file'[i].loc = file[i].loc, file'[i].ready = file[i].ready,
           file[i].loc # "none",
           file[i].loc \in {"incoming", "hold"} /\ ~file[i].ready => file'[i].orphan \/
               \E p \in Proc : proc'[p].phase \in Running /\ proc'[p].id = i
    PROVE  FileOK(i)'
<1>1. Wish(file[i])' = Wish(file[i])
  BY DEF Wish
<1>2. Complete(file[i])' <=> Complete(file[i])
  BY DEF Complete, Whole, DropData
<1> QED
  BY <1>1, <1>2 DEF FileOK

\* cleanup_path = 0.
LEMMA ForgetStep ==
    ASSUME IInv, NEW p \in Proc, CleanupForget(p), UNCHANGED <<smtpdVars, pickupVars>>
    PROVE  IInv'
<1>1. proc[p].phase = "forget" /\ proc[p].phase \in Running
  BY DEF CleanupForget, Running
<1>2. PICK id \in File :
        /\ proc[p].id = id
        /\ proc[p] \in ProcType /\ file[id] \in FileType
        /\ ProcOK(p) /\ FileOK(id) /\ bounced \subseteq Drop
        /\ proc \in [Proc -> ProcType] /\ file \in [File -> FileType]
        /\ asked \in [Msg -> SUBSET ActionFlag] /\ left \in SetupType
        /\ \A q : proc' = [proc EXCEPT ![p] = q] => proc'[p] = q
        /\ \A F : file' = [file EXCEPT ![id] = F] => file'[id] = F
        /\ file = [file EXCEPT ![id] = file[id]]
  BY <1>1, ProcMoves
<1>3. PICK q : q = [proc[p] EXCEPT !.phase = "answer"]
  OBVIOUS
<1>4. proc' = [proc EXCEPT ![p] = q] /\ file' = [file EXCEPT ![id] = file[id]] /\ file' = file
  BY <1>2, <1>3 DEF CleanupForget
<1>5. /\ q \in ProcType /\ q.phase = "answer" /\ q.id = id /\ q.eof = proc[p].eof
      /\ q.flags = proc[p].flags /\ q.errs = proc[p].errs
  BY <1>2, <1>3 DEF ProcType, Running
<1>6. UNCHANGED <<asked, bounced, left>> /\ Grows
  BY DEF CleanupForget, Grows, smtpdVars
<1>7. ProcOK(p)'
  BY <1>1, <1>2, <1>4, <1>5 DEF ProcOK, Running, Commits, Good
<1>8. FileOK(id)'
  <2>1. \A r \in Proc : proc[r].phase \in Running /\ proc[r].id = id
                          => proc'[r].phase \in Running /\ proc'[r].id = id
    BY <1>2, <1>4, <1>5 DEF Running
  <2> QED
    BY <1>4, <1>6, <2>1, FileFrame
<1>9. left' \in SetupType /\ left'.mail = left.mail /\ left'.rcpt = left.rcpt
  BY <1>2, <1>6, LeftFacts
<1>10. /\ q.phase # "read"
       /\ q.id = id \/ q.phase \in {"idle", "dead"}
       /\ q.phase = "idle" => proc[p].eof
       /\ q.phase # "idle" /\ ~proc[p].eof => ~q.eof
       /\ proc[p].phase = "answer" => /\ Good(file[id]) => Good(file[id]) /\ file[id].data = file[id].data
                                      /\ q.phase \notin Running
       /\ q.phase \in Running \cup {"answered"} =>
               ("BOUNCE" \in q.flags <=> "BOUNCE" \in proc[p].flags)
       /\ "DISCARD" \in q.flags => "DISCARD" \in proc[p].flags
  BY <1>1, <1>2, <1>5 DEF Running
<1> QED
  BY <1>1, <1>2, <1>4, <1>5, <1>6, <1>7, <1>8, <1>9, <1>10, CleanupMoves

\* The status is sent.
LEMMA AnswerStep ==
    ASSUME IInv, NEW p \in Proc, CleanupAnswer(p), UNCHANGED <<smtpdVars, pickupVars>>
    PROVE  IInv'
<1>1. proc[p].phase = "answer" /\ proc[p].phase \in Running
  BY DEF CleanupAnswer, Running
<1>2. PICK id \in File :
        /\ proc[p].id = id
        /\ proc[p] \in ProcType /\ file[id] \in FileType
        /\ ProcOK(p) /\ FileOK(id) /\ bounced \subseteq Drop
        /\ proc \in [Proc -> ProcType] /\ file \in [File -> FileType]
        /\ asked \in [Msg -> SUBSET ActionFlag] /\ left \in SetupType
        /\ \A q : proc' = [proc EXCEPT ![p] = q] => proc'[p] = q
        /\ \A F : file' = [file EXCEPT ![id] = F] => file'[id] = F
        /\ file = [file EXCEPT ![id] = file[id]]
  BY <1>1, ProcMoves
<1>3. PICK q : q = IF proc[p].eof THEN IdleProc ELSE [proc[p] EXCEPT !.phase = "answered"]
  OBVIOUS
<1>4. /\ proc' = [proc EXCEPT ![p] = q] /\ proc'[p] = q
      /\ file' = [file EXCEPT ![id] = file[id]] /\ file' = file
  BY <1>2, <1>3 DEF CleanupAnswer
<1>5. /\ q \in ProcType
      /\ proc[p].eof => q = IdleProc /\ q.phase = "idle" /\ q.flags = {}
      /\ ~proc[p].eof => /\ q.phase = "answered" /\ q.id = id /\ q.eof = proc[p].eof
                         /\ q.flags = proc[p].flags /\ q.errs = proc[p].errs
  BY <1>2, <1>3, EmptyTypes DEF ProcType, IdleProc, NoFile
<1>6. UNCHANGED <<asked, bounced, left>> /\ Grows
  BY DEF CleanupAnswer, Grows, smtpdVars
<1>7. ProcOK(p)'
  <2>1. CASE proc[p].eof
    <3>1. q = [IdleProc EXCEPT !.phase = q.phase] /\ q.errs = {}
      BY <1>5, <2>1, EmptyTypes
    <3> QED
      BY <1>4, <1>5, <2>1, <3>1 DEF ProcOK, Running
  <2>2. CASE ~proc[p].eof
    BY <1>1, <1>2, <1>4, <1>5, <2>2 DEF ProcOK, Running, Commits, Good
  <2> QED
    BY <2>1, <2>2
<1>8. FileOK(id)'
  <2>1. file[id].loc \notin {"incoming", "hold"} \/ file[id].ready
    BY <1>1, <1>2 DEF ProcOK
  <2> QED
    BY <1>4, <1>6, <2>1, FileFrame
<1>9. left' \in SetupType /\ left'.mail = left.mail /\ left'.rcpt = left.rcpt
  BY <1>2, <1>6, LeftFacts
<1> QED
  BY <1>1, <1>2, <1>4, <1>5, <1>6, <1>7, <1>8, <1>9, CleanupMoves DEF Running

\* The file is removed, unless the queue manager has it.
LEMMA CancelStep ==
    ASSUME IInv, NEW p \in Proc, CleanupCancel(p), UNCHANGED <<smtpdVars, pickupVars>>
    PROVE  IInv'
<1>1. proc[p].phase = "cancel" /\ proc[p].phase \in Running
  BY DEF CleanupCancel, Running
<1>2. PICK id \in File :
        /\ proc[p].id = id
        /\ proc[p] \in ProcType /\ file[id] \in FileType
        /\ ProcOK(p) /\ FileOK(id) /\ bounced \subseteq Drop
        /\ proc \in [Proc -> ProcType] /\ file \in [File -> FileType]
        /\ asked \in [Msg -> SUBSET ActionFlag] /\ left \in SetupType
        /\ \A q : proc' = [proc EXCEPT ![p] = q] => proc'[p] = q
        /\ \A F : file' = [file EXCEPT ![id] = F] => file'[id] = F
        /\ file = [file EXCEPT ![id] = file[id]]
  BY <1>1, ProcMoves
<1>3. PICK q, F :
        /\ q = [proc[p] EXCEPT !.phase = "answer"]
        /\ F = IF file[id].loc \in {"incoming", "hold"}
                 THEN [NewFile EXCEPT !.loc = "removed"] ELSE file[id]
  OBVIOUS
<1>4. /\ proc' = [proc EXCEPT ![p] = q] /\ proc'[p] = q
      /\ file' = [file EXCEPT ![id] = F] /\ file'[id] = F
  BY <1>2, <1>3 DEF CleanupCancel, Removed
<1>5. /\ q \in ProcType /\ q.phase = "answer" /\ q.id = id /\ q.eof = proc[p].eof
      /\ q.flags = proc[p].flags /\ q.errs = proc[p].errs
      /\ F \in FileType /\ F.data.from \in {NoMsg, file[id].data.from}
      /\ F.loc \notin {"none", "incoming", "hold"} /\ ~F.torn
      /\ F = file[id] \/ (F.loc = "removed" /\ ~F.ready /\ F.data = NoData)
  BY <1>1, <1>2, <1>3, EmptyTypes DEF ProcType, Running, FileType, NewFile, NoData, ProcOK
<1>6. UNCHANGED <<asked, bounced, left>> /\ Grows
  BY DEF CleanupCancel, Grows, smtpdVars
<1>7. ProcOK(p)'
  BY <1>1, <1>2, <1>4, <1>5 DEF ProcOK, Running, Commits
<1>8. FileOK(id)'
  <2>1. CASE F = file[id]
    BY <1>2, <1>4, <1>5, <1>6, <2>1, FileFrame
  <2>2. CASE F # file[id]
    BY <1>2, <1>4, <1>5, <2>2 DEF FileOK
  <2> QED
    BY <2>1, <2>2
<1>9. left' \in SetupType /\ left'.mail = left.mail /\ left'.rcpt = left.rcpt
  BY <1>2, <1>6, LeftFacts
<1> QED
  BY <1>1, <1>2, <1>4, <1>5, <1>6, <1>7, <1>8, <1>9, CleanupMoves DEF Running

\* fsync() and close().
LEMMA SyncStep ==
    ASSUME IInv, NEW p \in Proc, CleanupSync(p), UNCHANGED <<smtpdVars, pickupVars>>
    PROVE  IInv'
<1>1. proc[p].phase = "sync" /\ proc[p].phase \in Running
  BY DEF CleanupSync, Running
<1>2. PICK id \in File :
        /\ proc[p].id = id
        /\ proc[p] \in ProcType /\ file[id] \in FileType
        /\ ProcOK(p) /\ FileOK(id) /\ bounced \subseteq Drop
        /\ proc \in [Proc -> ProcType] /\ file \in [File -> FileType]
        /\ asked \in [Msg -> SUBSET ActionFlag] /\ left \in SetupType
        /\ \A q : proc' = [proc EXCEPT ![p] = q] => proc'[p] = q
        /\ \A F : file' = [file EXCEPT ![id] = F] => file'[id] = F
        /\ file = [file EXCEPT ![id] = file[id]]
  BY <1>1, ProcMoves
<1>3. PICK q, F :
        /\ proc' = [proc EXCEPT ![p] = q] /\ file' = [file EXCEPT ![id] = F]
        /\ \/ q = [proc[p] EXCEPT !.phase = "forget"] /\ F = [file[id] EXCEPT !.synced = TRUE]
           \/ /\ q = [proc[p] EXCEPT !.phase = "cancel", !.errs = {"WRITE"}]
              /\ \E synced \in BOOLEAN : F = [file[id] EXCEPT !.synced = synced]
  <2>1. CASE /\ proc' = [proc EXCEPT ![p].phase = "forget"]
             /\ file' = [file EXCEPT ![id].synced = TRUE]
    BY <2>1
  <2>2. ASSUME NEW b \in BOOLEAN,
               proc' = [proc EXCEPT ![p].phase = "cancel", ![p].errs = {"WRITE"}],
               file' = [file EXCEPT ![id].synced = b]
        PROVE  /\ proc' = [proc EXCEPT ![p] = [proc[p] EXCEPT !.phase = "cancel", !.errs = {"WRITE"}]]
               /\ file' = [file EXCEPT ![id] = [file[id] EXCEPT !.synced = b]]
    BY <2>2
  <2> QED
    BY <1>2, <2>1, <2>2 DEF CleanupSync
<1>4. /\ proc' = [proc EXCEPT ![p] = q] /\ proc'[p] = q
      /\ file' = [file EXCEPT ![id] = F] /\ file'[id] = F
  BY <1>2, <1>3
<1>5. /\ q \in ProcType /\ q.id = id /\ q.eof = proc[p].eof /\ q.flags = proc[p].flags
      /\ \/ q.phase = "forget" /\ q.errs = proc[p].errs /\ F.synced
         \/ q.phase = "cancel" /\ q.errs = {"WRITE"}
      /\ F \in FileType /\ F.data = file[id].data /\ F.loc = file[id].loc /\ F.ready = file[id].ready
      /\ F.torn = file[id].torn /\ F.asked = file[id].asked /\ F.orphan = file[id].orphan
  <2>1. /\ q \in ProcType /\ q.id = id /\ q.eof = proc[p].eof /\ q.flags = proc[p].flags
        /\ \/ q.phase = "forget" /\ q.errs = proc[p].errs
           \/ q.phase = "cancel" /\ q.errs = {"WRITE"}
    <3>1. [proc[p] EXCEPT !.phase = "forget"] \in ProcType
      BY <1>2 DEF ProcType, Running
    <3>2. [proc[p] EXCEPT !.phase = "cancel", !.errs = {"WRITE"}] \in ProcType
      BY <1>2 DEF ProcType, Running, Stat
    <3> QED
      BY <1>2, <1>3, <3>1, <3>2 DEF ProcType
  <2>2. q.phase = "forget" => F.synced
    BY <1>2, <1>3 DEF FileType, ProcType
  <2>3. PICK b \in BOOLEAN : F = [file[id] EXCEPT !.synced = b]
    BY <1>3
  <2>4. /\ F \in FileType /\ F.data = file[id].data /\ F.loc = file[id].loc /\ F.ready = file[id].ready
        /\ F.torn = file[id].torn /\ F.asked = file[id].asked /\ F.orphan = file[id].orphan
    BY <1>2, <2>3 DEF FileType
  <2> QED
    BY <2>1, <2>2, <2>4
<1>6. UNCHANGED <<asked, bounced>> /\ Grows
  BY DEF CleanupSync, Grows, smtpdVars
<1>7. ProcOK(p)'
  BY <1>1, <1>2, <1>4, <1>5 DEF ProcOK, Running, Commits, Good
<1>8. FileOK(id)'
  <2>1. file[id].ready /\ file[id].loc # "none"
    BY <1>1, <1>2 DEF ProcOK
  <2> QED
    BY <1>2, <1>4, <1>5, <1>6, <2>1, SameFile DEF smtpdVars
<1>9. left' \in SetupType /\ left'.mail = left.mail /\ left'.rcpt = left.rcpt
  BY <1>2, LeftFacts DEF CleanupSync
<1> QED
  BY <1>1, <1>2, <1>4, <1>5, <1>6, <1>7, <1>8, <1>9, CleanupMoves DEF Running

\* fchmod(): the queue manager may take the file.
LEMMA ChmodStep ==
    ASSUME IInv, NEW p \in Proc, CleanupChmod(p), UNCHANGED <<smtpdVars, pickupVars>>
    PROVE  IInv'
<1>1. proc[p].phase = "chmod" /\ proc[p].phase \in Running
  BY DEF CleanupChmod, Running
<1>2. PICK id \in File :
        /\ proc[p].id = id
        /\ proc[p] \in ProcType /\ file[id] \in FileType
        /\ ProcOK(p) /\ FileOK(id) /\ bounced \subseteq Drop
        /\ proc \in [Proc -> ProcType] /\ file \in [File -> FileType]
        /\ asked \in [Msg -> SUBSET ActionFlag] /\ left \in SetupType
        /\ \A q : proc' = [proc EXCEPT ![p] = q] => proc'[p] = q
        /\ \A F : file' = [file EXCEPT ![id] = F] => file'[id] = F
        /\ file = [file EXCEPT ![id] = file[id]]
  BY <1>1, ProcMoves
<1>3. PICK q, F :
        /\ proc' = [proc EXCEPT ![p] = q] /\ file' = [file EXCEPT ![id] = F]
        /\ \/ q = [proc[p] EXCEPT !.phase = "sync"] /\ F = [file[id] EXCEPT !.ready = TRUE]
           \/ q = [proc[p] EXCEPT !.phase = "cancel", !.errs = {"WRITE"}] /\ F = file[id]
  <2>1. CASE /\ proc' = [proc EXCEPT ![p].phase = "sync"]
             /\ file' = [file EXCEPT ![id].ready = TRUE]
    BY <2>1
  <2>2. CASE /\ proc' = [proc EXCEPT ![p].phase = "cancel", ![p].errs = {"WRITE"}]
             /\ file' = file
    <3>1. proc' = [proc EXCEPT ![p] = [proc[p] EXCEPT !.phase = "cancel", !.errs = {"WRITE"}]]
      BY <1>2, <2>2
    <3> QED
      BY <1>2, <2>2, <3>1
  <2> QED
    BY <1>2, <2>1, <2>2 DEF CleanupChmod
<1>4. /\ proc' = [proc EXCEPT ![p] = q] /\ proc'[p] = q
      /\ file' = [file EXCEPT ![id] = F] /\ file'[id] = F
  BY <1>2, <1>3
<1>5. /\ q \in ProcType /\ q.id = id /\ q.eof = proc[p].eof /\ q.flags = proc[p].flags
      /\ \/ q.phase = "sync" /\ q.errs = proc[p].errs /\ F.ready
         \/ q.phase = "cancel" /\ q.errs = {"WRITE"} /\ F = file[id]
      /\ F \in FileType /\ F.data = file[id].data /\ F.loc = file[id].loc
      /\ F.torn = file[id].torn /\ F.asked = file[id].asked /\ F.orphan = file[id].orphan
  <2>1. CASE q = [proc[p] EXCEPT !.phase = "sync"] /\ F = [file[id] EXCEPT !.ready = TRUE]
    BY <1>2, <2>1 DEF ProcType, Running, FileType
  <2>2. CASE q = [proc[p] EXCEPT !.phase = "cancel", !.errs = {"WRITE"}] /\ F = file[id]
    BY <1>2, <2>2 DEF ProcType, Running, FileType, Stat
  <2> QED
    BY <1>3, <2>1, <2>2
<1>6. UNCHANGED <<asked, bounced, sent>> /\ Grows
  BY DEF CleanupChmod, Grows, smtpdVars
<1>7. ProcOK(p)'
  BY <1>1, <1>2, <1>4, <1>5 DEF ProcOK, Running, Commits, Good
<1>8. FileOK(id)'
  <2>1. CASE F = file[id]
    <3>1. \A r \in Proc : proc[r].phase \in Running /\ proc[r].id = id
                            => proc'[r].phase \in Running /\ proc'[r].id = id
      BY <1>2, <1>4, <1>5 DEF Running
    <3> QED
      BY <1>4, <1>6, <2>1, <3>1, FileFrame
  <2>2. CASE F.ready
    <3>1. /\ Complete(file[id]) /\ file[id].loc \in {"incoming", "hold"}
          /\ file[id].loc = "incoming" => Wish(file[id]) = {}
      BY <1>1, <1>2 DEF ProcOK
    <3>2. Complete(file[id])'
      BY <1>4, <1>5, <1>6, <3>1, CompleteStays
    <3>3. Wish(file[id])' = Wish(file[id])
      BY <1>4, <1>5, <1>6 DEF Wish
    <3> QED
      BY <1>2, <1>4, <1>5, <2>2, <3>1, <3>2, <3>3 DEF FileOK
  <2> QED
    BY <1>5, <2>1, <2>2
<1>9. left' \in SetupType /\ left'.mail = left.mail /\ left'.rcpt = left.rcpt
  BY <1>2, LeftFacts DEF CleanupChmod
<1> QED
  BY <1>1, <1>2, <1>4, <1>5, <1>6, <1>7, <1>8, <1>9, CleanupMoves DEF Running

\* The connection ends early.
LEMMA EofStep ==
    ASSUME IInv, NEW p \in Proc, CleanupEof(p), UNCHANGED <<smtpdVars, pickupVars>>
    PROVE  IInv'
<1>1. proc[p].phase = "read" /\ proc[p].phase \in Running
  BY DEF CleanupEof, Running
<1>2. PICK id \in File :
        /\ proc[p].id = id
        /\ proc[p] \in ProcType /\ file[id] \in FileType
        /\ ProcOK(p) /\ FileOK(id) /\ bounced \subseteq Drop
        /\ proc \in [Proc -> ProcType] /\ file \in [File -> FileType]
        /\ asked \in [Msg -> SUBSET ActionFlag] /\ left \in SetupType
        /\ \A q : proc' = [proc EXCEPT ![p] = q] => proc'[p] = q
        /\ \A F : file' = [file EXCEPT ![id] = F] => file'[id] = F
        /\ file = [file EXCEPT ![id] = file[id]]
  BY <1>1, ProcMoves
<1>3. PICK q : q = [proc[p] EXCEPT !.phase = "flush", !.errs = @ \cup {"BAD"}]
  OBVIOUS
<1>4. /\ proc' = [proc EXCEPT ![p] = q] /\ proc'[p] = q
      /\ file' = [file EXCEPT ![id] = file[id]] /\ file' = file
  BY <1>2, <1>3 DEF CleanupEof
<1>5. /\ q \in ProcType /\ q.phase = "flush" /\ q.id = id /\ q.eof = proc[p].eof /\ q.eof
      /\ q.flags = proc[p].flags /\ q.errs = proc[p].errs \cup {"BAD"}
  BY <1>2, <1>3 DEF ProcType, Running, Stat, CleanupEof
<1>6. UNCHANGED <<asked, bounced, left>> /\ Grows
  BY DEF CleanupEof, Grows, smtpdVars
<1>7. ProcOK(p)'
  <2>1. ~OutOk(proc[p])'
    BY <1>4, <1>5 DEF OutOk, ErrMask, Stat, Incomplete
  <2> QED
    BY <1>1, <1>2, <1>4, <1>5, <2>1 DEF ProcOK, Running
<1>8. FileOK(id)'
  <2>1. \A r \in Proc : proc[r].phase \in Running /\ proc[r].id = id
                          => proc'[r].phase \in Running /\ proc'[r].id = id
    BY <1>2, <1>4, <1>5 DEF Running
  <2> QED
    BY <1>4, <1>6, <2>1, FileFrame
<1>9. left' \in SetupType /\ left'.mail = left.mail /\ left'.rcpt = left.rcpt
  BY <1>2, <1>6, LeftFacts
<1> QED
  BY <1>1, <1>2, <1>4, <1>5, <1>6, <1>7, <1>8, <1>9, CleanupMoves DEF Running

\* The rest of the input is skipped.
LEMMA DrainStep ==
    ASSUME IInv, NEW p \in Proc, CleanupDrain(p), UNCHANGED <<smtpdVars, pickupVars>>
    PROVE  IInv'
<1>1. proc[p].phase = "drain" /\ proc[p].phase \in Running
  BY DEF CleanupDrain, Running
<1>2. PICK id \in File :
        /\ proc[p].id = id
        /\ proc[p] \in ProcType /\ file[id] \in FileType
        /\ ProcOK(p) /\ FileOK(id) /\ bounced \subseteq Drop
        /\ proc \in [Proc -> ProcType] /\ file \in [File -> FileType]
        /\ asked \in [Msg -> SUBSET ActionFlag] /\ left \in SetupType
        /\ \A q : proc' = [proc EXCEPT ![p] = q] => proc'[p] = q
        /\ \A F : file' = [file EXCEPT ![id] = F] => file'[id] = F
        /\ file = [file EXCEPT ![id] = file[id]]
  BY <1>1, ProcMoves
<1>3. PICK q : /\ proc' = [proc EXCEPT ![p] = q]
                /\ \/ /\ q = [proc[p] EXCEPT !.pipe = Tail(@), !.phase = "drain"]
                      /\ proc[p].pipe # <<>>
                   \/ /\ q = [proc[p] EXCEPT !.pipe = Tail(@), !.phase = "flush"]
                      /\ proc[p].pipe # <<>>
                   \/ q = [proc[p] EXCEPT !.phase = "flush"]
  BY DEF CleanupDrain
<1>4. /\ proc' = [proc EXCEPT ![p] = q] /\ proc'[p] = q
      /\ file' = [file EXCEPT ![id] = file[id]] /\ file' = file
  BY <1>2, <1>3 DEF CleanupDrain
<1>5. /\ q \in ProcType /\ q.phase \in {"drain", "flush"} /\ q.id = id /\ q.eof = proc[p].eof
      /\ q.flags = proc[p].flags /\ q.errs = proc[p].errs
  <2>1. proc[p].pipe # <<>> => Tail(proc[p].pipe) \in Seq(Record)
    BY <1>2 DEF ProcType
  <2>2. PICK t : t = Tail(proc[p].pipe)
    OBVIOUS
  <2>3. CASE t \in Seq(Record) /\ q = [proc[p] EXCEPT !.pipe = t, !.phase = "drain"]
    BY <1>2, <2>3 DEF ProcType, Running
  <2>4. CASE t \in Seq(Record) /\ q = [proc[p] EXCEPT !.pipe = t, !.phase = "flush"]
    BY <1>2, <2>4 DEF ProcType, Running
  <2>5. CASE q = [proc[p] EXCEPT !.phase = "flush"]
    BY <1>2, <2>5 DEF ProcType, Running
  <2> QED
    BY <1>3, <2>1, <2>2, <2>3, <2>4, <2>5
<1>6. UNCHANGED <<asked, bounced, left>> /\ Grows
  BY DEF CleanupDrain, Grows, smtpdVars
<1>7. ProcOK(p)'
  <2>1. OutOk(proc[p])' <=> OutOk(proc[p])
    BY <1>4, <1>5 DEF OutOk, ErrMask
  <2> QED
    BY <1>1, <1>2, <1>4, <1>5, <2>1 DEF ProcOK, Running
<1>8. FileOK(id)'
  <2>1. \A r \in Proc : proc[r].phase \in Running /\ proc[r].id = id
                          => proc'[r].phase \in Running /\ proc'[r].id = id
    BY <1>2, <1>4, <1>5 DEF Running
  <2> QED
    BY <1>4, <1>6, <2>1, FileFrame
<1>9. left' \in SetupType /\ left'.mail = left.mail /\ left'.rcpt = left.rcpt
  BY <1>2, <1>6, LeftFacts
<1>20. /\ q.phase # "read"
       /\ q.id = id \/ q.phase \in {"idle", "dead"}
       /\ q.phase = "idle" => proc[p].eof
       /\ q.phase # "idle" /\ ~proc[p].eof => ~q.eof
       /\ proc[p].phase = "answer" => /\ Good(file[id]) => Good(file[id]) /\ file[id].data = file[id].data
                                      /\ q.phase \notin Running
       /\ q.phase \in Running \cup {"answered"} =>
               ("BOUNCE" \in q.flags <=> "BOUNCE" \in proc[p].flags)
       /\ "DISCARD" \in q.flags => "DISCARD" \in proc[p].flags
  BY <1>1, <1>2, <1>4, <1>5 DEF Running
<1> QED
  BY <1>1, <1>2, <1>4, <1>5, <1>6, <1>7, <1>8, <1>9, <1>20, CleanupMoves

\* SIGKILL.
LEMMA KilledStep ==
    ASSUME IInv, NEW p \in Proc, CleanupKilled(p), UNCHANGED <<smtpdVars, pickupVars>>
    PROVE  IInv'
<1>1. proc[p].phase \in Running /\ proc[p].phase \in Running
  BY DEF CleanupKilled, Running
<1>2. PICK id \in File :
        /\ proc[p].id = id
        /\ proc[p] \in ProcType /\ file[id] \in FileType
        /\ ProcOK(p) /\ FileOK(id) /\ bounced \subseteq Drop
        /\ proc \in [Proc -> ProcType] /\ file \in [File -> FileType]
        /\ asked \in [Msg -> SUBSET ActionFlag] /\ left \in SetupType
        /\ \A q : proc' = [proc EXCEPT ![p] = q] => proc'[p] = q
        /\ \A F : file' = [file EXCEPT ![id] = F] => file'[id] = F
        /\ file = [file EXCEPT ![id] = file[id]]
  BY <1>1, ProcMoves
<1>3. PICK q : q = IF proc[p].eof THEN IdleProc ELSE [IdleProc EXCEPT !.phase = "dead"]
  OBVIOUS
<1>4. PICK F : /\ F = [file[id] EXCEPT !.orphan = TRUE]
                /\ proc' = [proc EXCEPT ![p] = q] /\ proc'[p] = q
                /\ file' = [file EXCEPT ![id] = F] /\ file'[id] = F
  BY <1>2, <1>3 DEF CleanupKilled, Gone
<1>5. /\ q \in ProcType /\ q.phase \in {"idle", "dead"} /\ q = [IdleProc EXCEPT !.phase = q.phase]
      /\ q.phase = "idle" => proc[p].eof
      /\ q.phase # "idle" => ~proc[p].eof
      /\ ~q.eof /\ q.flags = {} /\ q.errs = {}
  <2>1. CASE proc[p].eof
    BY <1>3, <2>1, EmptyTypes
  <2>2. CASE ~proc[p].eof
    <3>1. q = [IdleProc EXCEPT !.phase = "dead"] /\ q \in ProcType
      BY <1>3, <2>2, EmptyTypes
    <3>2. q.phase = "dead" /\ ~q.eof /\ q.flags = {} /\ q.errs = {}
      BY <3>1, EmptyTypes DEF IdleProc
    <3> QED
      BY <2>2, <3>1, <3>2
  <2> QED
    BY <2>1, <2>2
<1>10. F \in FileType /\ F.data = file[id].data /\ F.asked = file[id].asked /\ F.loc = file[id].loc
       /\ F.ready = file[id].ready /\ F.orphan
  BY <1>2, <1>4 DEF FileType
<1>6. UNCHANGED <<asked, bounced, sent>> /\ Grows
  BY DEF CleanupKilled, Grows, smtpdVars
<1>7. ProcOK(p)'
  BY <1>4, <1>5 DEF ProcOK, Running
<1>8. FileOK(id)'
  <2>1. file[id].loc # "none"
    BY <1>1, <1>2 DEF ProcOK
  <2> QED
    BY <1>2, <1>4, <1>6, <1>10, <2>1, SameFile
<1>9. left' \in SetupType /\ left'.mail = left.mail /\ left'.rcpt = left.rcpt
  BY <1>2, LeftFacts DEF CleanupKilled
<1>11. Good(file[id]) => Good(F)
  BY <1>2, <1>4 DEF Good, FileType
<1>20. /\ q.phase # "read"
       /\ q.id = id \/ q.phase \in {"idle", "dead"}
       /\ q.phase = "idle" => proc[p].eof
       /\ q.phase # "idle" /\ ~proc[p].eof => ~q.eof
       /\ proc[p].phase = "answer" => /\ Good(file[id]) => Good(F) /\ F.data = file[id].data
                                      /\ q.phase \notin Running
       /\ q.phase \in Running \cup {"answered"} =>
               ("BOUNCE" \in q.flags <=> "BOUNCE" \in proc[p].flags)
       /\ "DISCARD" \in q.flags => "DISCARD" \in proc[p].flags
  BY <1>1, <1>2, <1>4, <1>5, <1>10, <1>11 DEF Running
<1> QED
  BY <1>1, <1>2, <1>4, <1>5, <1>6, <1>7, <1>8, <1>9, <1>20, <1>10, CleanupMoves

\* A signal: cleanup_sig() removes the file while cleanup_path names it.
LEMMA SigStep ==
    ASSUME IInv, NEW p \in Proc, cleanup_sig(p), UNCHANGED <<smtpdVars, pickupVars>>
    PROVE  IInv'
<1>1. proc[p].phase \in Running /\ proc[p].phase \in Running
  BY DEF cleanup_sig, Running
<1>2. PICK id \in File :
        /\ proc[p].id = id
        /\ proc[p] \in ProcType /\ file[id] \in FileType
        /\ ProcOK(p) /\ FileOK(id) /\ bounced \subseteq Drop
        /\ proc \in [Proc -> ProcType] /\ file \in [File -> FileType]
        /\ asked \in [Msg -> SUBSET ActionFlag] /\ left \in SetupType
        /\ \A q : proc' = [proc EXCEPT ![p] = q] => proc'[p] = q
        /\ \A F : file' = [file EXCEPT ![id] = F] => file'[id] = F
        /\ file = [file EXCEPT ![id] = file[id]]
  BY <1>1, ProcMoves
<1>3. PICK q : q = IF proc[p].eof THEN IdleProc ELSE [IdleProc EXCEPT !.phase = "dead"]
  OBVIOUS
<1>11. PICK F : F = IF proc[p].phase # "answer" /\ file[id].loc \in {"incoming", "hold"}
                     THEN [NewFile EXCEPT !.loc = "removed"] ELSE file[id]
  OBVIOUS
<1>4. /\ proc' = [proc EXCEPT ![p] = q] /\ proc'[p] = q
      /\ file' = [file EXCEPT ![id] = F] /\ file'[id] = F
  BY <1>2, <1>3, <1>11 DEF cleanup_sig, Gone, Removed
<1>5. /\ q \in ProcType /\ q.phase \in {"idle", "dead"} /\ q = [IdleProc EXCEPT !.phase = q.phase]
      /\ q.phase = "idle" => proc[p].eof
      /\ q.phase # "idle" => ~proc[p].eof
      /\ ~q.eof /\ q.flags = {} /\ q.errs = {}
  <2>1. CASE proc[p].eof
    BY <1>3, <2>1, EmptyTypes
  <2>2. CASE ~proc[p].eof
    <3>1. q = [IdleProc EXCEPT !.phase = "dead"] /\ q \in ProcType
      BY <1>3, <2>2, EmptyTypes
    <3>2. q.phase = "dead" /\ ~q.eof /\ q.flags = {} /\ q.errs = {}
      BY <3>1, EmptyTypes DEF IdleProc
    <3> QED
      BY <2>2, <3>1, <3>2
  <2> QED
    BY <2>1, <2>2
<1>10. /\ F \in FileType /\ F.data.from \in {NoMsg, file[id].data.from}
       /\ F = file[id] \/ (F.loc = "removed" /\ ~F.ready /\ F.data = NoData)
       /\ proc[p].phase = "answer" => F = file[id]
  BY <1>2, <1>11, EmptyTypes
<1>6. UNCHANGED <<asked, bounced, sent>> /\ Grows
  BY DEF cleanup_sig, Grows, smtpdVars
<1>7. ProcOK(p)'
  BY <1>4, <1>5 DEF ProcOK, Running
<1>8. FileOK(id)'
  <2>1. CASE F = file[id]
    <3>1. file[id].loc \notin {"incoming", "hold"} \/ file[id].ready
      <4>1. CASE proc[p].phase = "answer"
        BY <1>2, <4>1 DEF ProcOK
      <4>2. CASE proc[p].phase # "answer"
        <5>1. [NewFile EXCEPT !.loc = "removed"].loc = "removed"
          BY DEF NewFile
        <5> QED
          BY <1>11, <2>1, <4>2, <5>1
      <4> QED
        BY <4>1, <4>2
    <3> QED
      BY <1>2, <1>4, <1>6, <2>1, <3>1, FileFrame
  <2>2. CASE F # file[id]
    BY <1>2, <1>4, <1>10, <2>2 DEF FileOK
  <2> QED
    BY <2>1, <2>2
<1>9. left' \in SetupType /\ left'.mail = left.mail /\ left'.rcpt = left.rcpt
  BY <1>2, LeftFacts DEF cleanup_sig
<1>20. /\ q.phase # "read"
       /\ q.id = id \/ q.phase \in {"idle", "dead"}
       /\ q.phase = "idle" => proc[p].eof
       /\ q.phase # "idle" /\ ~proc[p].eof => ~q.eof
       /\ proc[p].phase = "answer" => /\ Good(file[id]) => Good(F) /\ F.data = file[id].data
                                      /\ q.phase \notin Running
       /\ q.phase \in Running \cup {"answered"} =>
               ("BOUNCE" \in q.flags <=> "BOUNCE" \in proc[p].flags)
       /\ "DISCARD" \in q.flags => "DISCARD" \in proc[p].flags
  BY <1>1, <1>2, <1>4, <1>5, <1>10 DEF Running
<1> QED
  BY <1>1, <1>2, <1>4, <1>5, <1>6, <1>7, <1>8, <1>9, <1>20, <1>10, CleanupMoves

\* The file cannot be finished, or the bounce cannot be sent.
LEMMA FlushErrorStep ==
    ASSUME IInv, NEW p \in Proc, CleanupFlushError(p), UNCHANGED <<smtpdVars, pickupVars>>
    PROVE  IInv'
<1>1. proc[p].phase = "flush" /\ proc[p].phase \in Running
  BY DEF CleanupFlushError, Running
<1>2. PICK id \in File :
        /\ proc[p].id = id
        /\ proc[p] \in ProcType /\ file[id] \in FileType
        /\ ProcOK(p) /\ FileOK(id) /\ bounced \subseteq Drop
        /\ proc \in [Proc -> ProcType] /\ file \in [File -> FileType]
        /\ asked \in [Msg -> SUBSET ActionFlag] /\ left \in SetupType
        /\ \A q : proc' = [proc EXCEPT ![p] = q] => proc'[p] = q
        /\ \A F : file' = [file EXCEPT ![id] = F] => file'[id] = F
        /\ file = [file EXCEPT ![id] = file[id]]
  BY <1>1, ProcMoves
<1>3. PICK q : q = [proc[p] EXCEPT !.phase = "cancel", !.errs = {"WRITE"}]
  OBVIOUS
<1>4. /\ proc' = [proc EXCEPT ![p] = q] /\ proc'[p] = q
      /\ file' = [file EXCEPT ![id] = file[id]] /\ file' = file
  <2>1. [[proc[p] EXCEPT !.errs = FlushErrs(proc[p])] EXCEPT !.phase = "cancel", !.errs = {"WRITE"}] = q
    BY <1>2, <1>3 DEF ProcType
  <2> QED
    BY <1>2, <1>3, <2>1 DEF CleanupFlushError
<1>5. /\ q \in ProcType /\ q.phase = "cancel" /\ q.id = id /\ q.eof = proc[p].eof
      /\ q.flags = proc[p].flags /\ q.errs = {"WRITE"}
  BY <1>2, <1>3 DEF ProcType, Running, Stat
<1>6. UNCHANGED <<asked, bounced>> /\ Grows
  BY DEF CleanupFlushError, Grows, smtpdVars
<1>7. ProcOK(p)'
  BY <1>1, <1>2, <1>4, <1>5 DEF ProcOK, Running, Commits
<1>8. FileOK(id)'
  <2>1. \A r \in Proc : proc[r].phase \in Running /\ proc[r].id = id
                          => proc'[r].phase \in Running /\ proc'[r].id = id
    BY <1>2, <1>4, <1>5 DEF Running
  <2> QED
    BY <1>4, <1>6, <2>1, FileFrame
<1>9. left' \in SetupType /\ left'.mail = left.mail /\ left'.rcpt = left.rcpt
  BY <1>2, LeftFacts DEF CleanupFlushError
<1>20. /\ q.phase # "read"
       /\ q.id = id \/ q.phase \in {"idle", "dead"}
       /\ q.phase = "idle" => proc[p].eof
       /\ q.phase # "idle" /\ ~proc[p].eof => ~q.eof
       /\ proc[p].phase = "answer" => /\ Good(file[id]) => Good(file[id]) /\ file[id].data = file[id].data
                                      /\ q.phase \notin Running
       /\ q.phase \in Running \cup {"answered"} =>
               ("BOUNCE" \in q.flags <=> "BOUNCE" \in proc[p].flags)
       /\ "DISCARD" \in q.flags => "DISCARD" \in proc[p].flags
  BY <1>1, <1>2, <1>4, <1>5 DEF Running
<1> QED
  BY <1>1, <1>2, <1>4, <1>5, <1>6, <1>7, <1>8, <1>9, <1>20, CleanupMoves

\* What is asked for the message in file i.
Asks(i, V) ==
    /\ asked' \in [Msg -> SUBSET ActionFlag]
    /\ \A m \in Msg : asked'[m] = IF m = file[i].data.from THEN asked[m] \cup V ELSE asked[m]
Approved(p) == FlushErrs(proc[p]) = {} /\ "DISCARD" \notin proc[p].flags

\* cleanup_flush() from the Milters on: V and E are what they want.
LEMMA FlushToStep ==
    ASSUME IInv, NEW p \in Proc, proc[p].phase = "flush", UNCHANGED <<smtpdVars, pickupVars>>,
           NEW V \in SUBSET ActionFlag, NEW E \in SUBSET {"CONT"},
           NEW id \in File, proc[p].id = id,
           (V = {} /\ E = {}) \/ Approved(p),
           NEW q, q = [proc[p] EXCEPT !.errs = FlushErrs(proc[p]) \cup E, !.flags = @ \cup V],
           NEW F, F = [file[id] EXCEPT !.asked = @ \cup V],
           Asks(id, V),
           left' \in SetupType, left'.mail = left.mail, left'.rcpt = left.rcpt,
           FlushTo(p, q, [file EXCEPT ![id] = F])
    PROVE  IInv'
<1>1. proc[p].phase \in Running
  BY DEF Running
<1>2. /\ proc \in [Proc -> ProcType] /\ file \in [File -> FileType]
      /\ proc[p] \in ProcType /\ file[id] \in FileType
      /\ ProcOK(p) /\ FileOK(id) /\ bounced \subseteq Drop
      /\ asked \in [Msg -> SUBSET ActionFlag]
  BY <1>1, ProcFacts DEF CleanupTypeOK
<1>3. /\ q \in ProcType /\ q.phase = "flush" /\ q.id = id /\ q.eof = proc[p].eof
      /\ q.errs = FlushErrs(proc[p]) \cup E /\ q.flags = proc[p].flags \cup V
      /\ "BOUNCE" \in q.flags <=> "BOUNCE" \in proc[p].flags
  <2>1. FlushErrs(proc[p]) \subseteq Stat
    BY <1>2 DEF FlushErrs, ProcType, Stat
  <2>2. FlushErrs(proc[p]) \cup E \in SUBSET Stat /\ proc[p].flags \cup V \in SUBSET Flag
    BY <1>2, <2>1 DEF Stat, Flag, ProcType
  <2> QED
    BY <1>2, <2>2 DEF ProcType, ActionFlag
<1>4. /\ F \in FileType /\ F.asked = file[id].asked \cup V
      /\ F.data = file[id].data /\ F.loc = file[id].loc /\ F.ready = file[id].ready
      /\ F.torn = file[id].torn
      /\ file[id].loc = "incoming" /\ ~file[id].ready /\ ~file[id].torn
  <2>1. /\ F \in FileType /\ F.asked = file[id].asked \cup V
        /\ F.data = file[id].data /\ F.loc = file[id].loc /\ F.ready = file[id].ready
        /\ F.torn = file[id].torn
    BY <1>2 DEF FileType
  <2> QED
    BY <1>1, <1>2, <2>1 DEF ProcOK
<1>5. q.eof \/ q.errs \cap {"BAD", "RCPT"} = {}
  <2>1. proc[p].eof \/ proc[p].errs \cap {"BAD", "RCPT"} = {}
    BY <1>2 DEF ProcOK
  <2>2. OutOk(proc[p]) => file[id].data.rcpts # {} /\ "END_SEEN" \in proc[p].flags
    BY <1>2 DEF ProcOK, Complete
  <2>3. FlushErrs(proc[p]) \subseteq proc[p].errs
    BY <2>2 DEF FlushErrs
  <2> QED
    BY <1>3, <2>1, <2>3
<1>6. FlushErrs(proc[p]) = {} /\ "DISCARD" \notin proc[p].flags =>
         /\ Complete(file[id]) /\ Wish(file[id]) \subseteq proc[p].flags
         /\ "HOLD" \in proc[p].flags => "HOLD" \in Wish(file[id])
  <2>1. FlushErrs(proc[p]) = {} /\ "DISCARD" \notin proc[p].flags => OutOk(proc[p])
    BY DEF FlushErrs, OutOk
  <2> QED
    BY <1>2, <2>1 DEF ProcOK
<1>7. file[id].data.from \in Msg \cup {NoMsg}
  BY <1>2 DEF FileType, Data
<1>8. file[id].data.from \in {NoMsg} \cup IF "BOUNCE" \in proc[p].flags THEN Drop ELSE Mail
  BY <1>1, <1>2 DEF ProcOK
<1>9. /\ asked' \in [Msg -> SUBSET ActionFlag]
      /\ \A m \in Msg : asked[m] \subseteq asked'[m] /\ (asked'[m] = asked[m] \/ file[id].data.from = m)
  BY DEF Asks
<1>10. sent' = sent
  BY DEF smtpdVars
<1>11. CASE Commits(q) /\ UNCHANGED bounced
            /\ proc' = [proc EXCEPT ![p] = [q EXCEPT !.phase = "chmod"]]
            /\ file' = [[file EXCEPT ![id] = F] EXCEPT ![q.id].loc = HoldOrNot(q)]
  <2>1. PICK q2, F2 : q2 = [q EXCEPT !.phase = "chmod"] /\ F2 = [F EXCEPT !.loc = HoldOrNot(q)]
    OBVIOUS
  <2>2. /\ proc' = [proc EXCEPT ![p] = q2] /\ proc'[p] = q2
        /\ file' = [file EXCEPT ![id] = F2] /\ file'[id] = F2
    <3>1. PICK G : G = [file EXCEPT ![id] = F]
      OBVIOUS
    <3>2. [G EXCEPT ![id].loc = HoldOrNot(q)] = [file EXCEPT ![id] = F2]
      BY <1>2, <2>1, <3>1
    <3>3. file' = [file EXCEPT ![id] = F2]
      BY <1>3, <1>11, <3>1, <3>2
    <3> QED
      BY <1>2, <1>11, <2>1, <3>3
  <2>3. /\ q2 \in ProcType /\ q2.phase = "chmod" /\ q2.id = id /\ q2.eof = proc[p].eof
        /\ q2.flags = q.flags /\ q2.errs = q.errs
    BY <1>3, <2>1 DEF ProcType, Running
  <2>4. HoldOrNot(q) \in {"incoming", "hold"} /\ (HoldOrNot(q) = "hold" <=> "HOLD" \in q.flags)
    BY DEF HoldOrNot
  <2>5. /\ F2 \in FileType /\ F2.data = file[id].data /\ F2.asked = F.asked /\ F2.loc = HoldOrNot(q)
        /\ ~F2.ready /\ ~F2.torn
    BY <1>4, <2>1, <2>4 DEF FileType
  <2>6. FlushErrs(proc[p]) = {} /\ "DISCARD" \notin q.flags /\ q.errs = {}
    BY <1>3, <1>11 DEF Commits
  <2>7. /\ Complete(file[id]) /\ Wish(file[id]) \subseteq proc[p].flags
        /\ "HOLD" \in proc[p].flags => "HOLD" \in Wish(file[id])
    BY <1>3, <1>6, <2>6
  <2>8. file[id].data.from \in Msg
    BY <1>7, <2>7 DEF Complete
  <2>9. Grows
    BY <1>9, <1>10, <1>11 DEF Grows
  <2>10. Complete(file[id])'
    BY <2>2, <2>5, <2>7, <2>9, CompleteStays
  <2>11. Wish(file[id])' = Wish(file[id]) \cup V
    BY <1>4, <2>2, <2>5, <2>8, Numbers DEF Wish, Asks
  <2>12. Wish(file[id]) \subseteq ActionFlag
    BY <1>2, <2>8 DEF Wish, FileType
  <2>13. /\ F2.loc = "incoming" => Wish(file[id])' = {}
         /\ F2.loc = "hold" => "HOLD" \in Wish(file[id])'
    BY <1>3, <2>4, <2>5, <2>6, <2>7, <2>11, <2>12 DEF ActionFlag
  <2>14. ProcOK(p)'
    BY <1>3, <1>8, <2>2, <2>3, <2>4, <2>5, <2>6, <2>10, <2>13 DEF ProcOK, Running, Commits
  <2>15. FileOK(id)'
    BY <2>2, <2>3, <2>4, <2>5, <2>13 DEF FileOK, Running
  <2>16. /\ q2.phase # "read" /\ q2.id = id
         /\ q2.phase # "idle" /\ ~proc[p].eof => ~q2.eof
         /\ proc[p].phase # "answer" /\ q2.phase # "idle"
         /\ "BOUNCE" \in q2.flags <=> "BOUNCE" \in proc[p].flags
         /\ "DISCARD" \notin q2.flags
         /\ F2.data.from \in {NoMsg, file[id].data.from}
         /\ bounced' \subseteq Drop
    BY <1>2, <1>3, <1>11, <2>3, <2>5, <2>6
  <2> QED
    BY <1>1, <1>9, <2>2, <2>3, <2>5, <2>9, <2>14, <2>15, <2>16, CleanupMoves
<1>12. ASSUME NEW q2 \in ProcType, NEW F2, F2 = F,
              proc' = [proc EXCEPT ![p] = q2], file' = [file EXCEPT ![id] = F2],
              q2.phase = "cancel", q2.id = id, q2.eof = proc[p].eof,
              q2.errs \subseteq q.errs, "DISCARD" \in q2.flags \/ q2.errs # {},
              "BOUNCE" \in q2.flags <=> "BOUNCE" \in proc[p].flags,
              "DISCARD" \in q2.flags =>
                  \/ "DISCARD" \in q.flags
                  \/ file[id].data.from # NoMsg /\ file[id].data.from \in bounced',
              bounced \subseteq bounced', bounced' \subseteq Drop
       PROVE  IInv'
  <2>1. proc'[p] = q2 /\ file'[id] = F2
    BY <1>2, <1>12
  <2>2. Grows
    BY <1>9, <1>10, <1>12 DEF Grows
  <2>3. ProcOK(p)'
    BY <1>4, <1>5, <1>8, <1>12, <2>1 DEF ProcOK, Running, Commits
  <2>4. FileOK(id)'
    BY <1>4, <1>12, <2>1 DEF FileOK, Running
  <2>5. "DISCARD" \in q2.flags =>
           \/ "DISCARD" \in proc[p].flags
           \/ /\ file[id].data.from # NoMsg
              /\ file[id].data.from \in bounced' \/ "DISCARD" \in asked'[file[id].data.from]
    <3>1. CASE "DISCARD" \in V
      <4>1. Complete(file[id])
        BY <1>6, <3>1 DEF Approved
      <4>2. file[id].data.from # NoMsg /\ file[id].data.from \in Msg
        BY <1>7, <4>1 DEF Complete
      <4>3. asked'[file[id].data.from] = asked[file[id].data.from] \cup V
        BY <4>2 DEF Asks
      <4> QED
        BY <3>1, <4>2, <4>3
    <3>2. CASE "DISCARD" \notin V
      BY <1>3, <1>12, <3>2
    <3> QED
      BY <3>1, <3>2
  <2>6. /\ q2.phase # "read" /\ q2.id = id
        /\ q2.phase # "idle" /\ ~proc[p].eof => ~q2.eof
        /\ proc[p].phase # "answer" /\ q2.phase # "idle"
        /\ F2.data.from \in {NoMsg, file[id].data.from}
        /\ F2 \in FileType
    BY <1>4, <1>12
  <2> QED
    BY <1>1, <1>9, <1>12, <2>2, <2>3, <2>4, <2>5, <2>6, CleanupMoves
<1>13. CASE /\ q.errs # {} /\ CanBounce(q)
            /\ proc' = [proc EXCEPT ![p] = cleanup_bounce(q)]
            /\ bounced' = bounced \cup {file[q.id].data.from}
            /\ file' = [file EXCEPT ![id] = F]
  <2>1. PICK q2 : q2 = [q EXCEPT !.phase = "cancel", !.errs = {}, !.flags = @ \cup {"DISCARD"}]
    OBVIOUS
  <2>2. /\ q2 \in ProcType /\ q2.phase = "cancel" /\ q2.id = id /\ q2.eof = proc[p].eof
        /\ q2.errs = {} /\ q2.flags = q.flags \cup {"DISCARD"}
    BY <1>3, <2>1 DEF ProcType, Running, Flag, ActionFlag
  <2>3. file[id].data.from # NoMsg /\ file[id].data.from \in Drop /\ file[id].data.from \in bounced'
    BY <1>3, <1>8, <1>13 DEF CanBounce
  <2>4. bounced \subseteq bounced' /\ bounced' \subseteq Drop
    BY <1>2, <1>3, <1>13, <2>3
  <2> QED
    BY <1>3, <1>12, <1>13, <2>1, <2>2, <2>3, <2>4 DEF cleanup_bounce
<1>14. CASE /\ ~Commits(q) /\ UNCHANGED bounced
            /\ proc' = [proc EXCEPT ![p] = [q EXCEPT !.phase = "cancel"]]
            /\ file' = [file EXCEPT ![id] = F]
  <2>1. PICK q2 : q2 = [q EXCEPT !.phase = "cancel"]
    OBVIOUS
  <2>2. /\ q2 \in ProcType /\ q2.phase = "cancel" /\ q2.id = id /\ q2.eof = proc[p].eof
        /\ q2.errs = q.errs /\ q2.flags = q.flags
    BY <1>3, <2>1 DEF ProcType, Running
  <2>3. "DISCARD" \in q.flags \/ q.errs # {}
    BY <1>14 DEF Commits
  <2> QED
    BY <1>2, <1>3, <1>12, <1>14, <2>1, <2>2, <2>3
<1> QED
  BY <1>11, <1>13, <1>14 DEF FlushTo

LEMMA FlushStep ==
    ASSUME IInv, NEW p \in Proc, CleanupFlush(p), UNCHANGED <<smtpdVars, pickupVars>>
    PROVE  IInv'
<1>1. proc[p].phase = "flush" /\ proc[p].phase \in Running /\ UNCHANGED <<asked, left>>
  BY DEF CleanupFlush, Running
<1>2. PICK id \in File :
        /\ proc[p].id = id
        /\ proc[p] \in ProcType /\ file[id] \in FileType
        /\ asked \in [Msg -> SUBSET ActionFlag] /\ left \in SetupType
        /\ file = [file EXCEPT ![id] = file[id]]
  BY <1>1, ProcMoves
<1>3. PICK q : q = [proc[p] EXCEPT !.errs = FlushErrs(proc[p])]
  OBVIOUS
<1>4. q = [proc[p] EXCEPT !.errs = FlushErrs(proc[p]) \cup {}, !.flags = @ \cup {}]
  BY <1>2, <1>3 DEF ProcType
<1>5. file[id] = [file[id] EXCEPT !.asked = @ \cup {}]
  BY <1>2 DEF FileType
<1>6. FlushTo(p, q, [file EXCEPT ![id] = file[id]])
  BY <1>2, <1>3 DEF CleanupFlush
<1>7. left' \in SetupType /\ left'.mail = left.mail /\ left'.rcpt = left.rcpt
  BY <1>1, <1>2, LeftFacts
<1>8. PICK V \in SUBSET ActionFlag, E \in SUBSET {"CONT"} : V = {} /\ E = {}
  OBVIOUS
<1>9. Asks(id, V)
  BY <1>1, <1>2, <1>8 DEF Asks
<1>10. q = [proc[p] EXCEPT !.errs = FlushErrs(proc[p]) \cup E, !.flags = @ \cup V]
  BY <1>4, <1>8
<1>11. PICK F : F = file[id] /\ F = [file[id] EXCEPT !.asked = @ \cup V]
  BY <1>5, <1>8
<1>12. FlushTo(p, q, [file EXCEPT ![id] = F])
  BY <1>6, <1>11
<1> QED
  BY <1>1, <1>2, <1>7, <1>8, <1>9, <1>10, <1>11, <1>12, FlushToStep

LEMMA MilterStep ==
    ASSUME IInv, NEW p \in Proc, NEW verdict \in ActionFlag \cup {"CONT"},
           CleanupMilter(p, verdict), UNCHANGED <<smtpdVars, pickupVars>>
    PROVE  IInv'
<1>1. proc[p].phase = "flush" /\ proc[p].phase \in Running
  BY DEF CleanupMilter, Running
<1>2. PICK id \in File :
        /\ proc[p].id = id
        /\ proc[p] \in ProcType /\ file[id] \in FileType /\ file \in [File -> FileType]
        /\ asked \in [Msg -> SUBSET ActionFlag] /\ left \in SetupType
  BY <1>1, ProcMoves
<1>3. PICK V \in SUBSET ActionFlag : V = {verdict} \cap ActionFlag
  OBVIOUS
<1>4. PICK E \in SUBSET {"CONT"} : E = {verdict} \cap Stat
  BY DEF ActionFlag, Stat
<1>5. PICK q0 : q0 = [proc[p] EXCEPT !.errs = FlushErrs(proc[p])]
  OBVIOUS
<1>6. /\ q0.errs = FlushErrs(proc[p]) /\ q0.flags = proc[p].flags /\ q0.id = id
  BY <1>2, <1>5 DEF ProcType
<1>7. PICK q : q = [q0 EXCEPT !.flags = @ \cup V, !.errs = @ \cup E]
  OBVIOUS
<1>8. q = [proc[p] EXCEPT !.errs = FlushErrs(proc[p]) \cup E, !.flags = @ \cup V]
  BY <1>2, <1>5, <1>7 DEF ProcType
<1>9. PICK F : F = [file[id] EXCEPT !.asked = @ \cup V]
  OBVIOUS
<1>10. /\ FlushTo(p, q, [file EXCEPT ![id] = F])
       /\ Commits(q0) /\ Spend("verdict")
       /\ asked' = [asked EXCEPT ![file[id].data.from] = @ \cup V]
  BY <1>3, <1>4, <1>5, <1>6, <1>7, <1>9, Zenon DEF CleanupMilter
<1>11. left' \in SetupType /\ left'.mail = left.mail /\ left'.rcpt = left.rcpt
  BY <1>2, <1>10, LeftFacts
<1>12. Approved(p)
  BY <1>6, <1>10 DEF Commits, Approved
<1>13. Asks(id, V)
  BY <1>2, <1>10 DEF Asks
<1> QED
  BY <1>1, <1>2, <1>8, <1>9, <1>10, <1>11, <1>12, <1>13, FlushToStep

-----------------------------------------------------------------------------
(***************************************************************************)
(* Reading a record.                                                       *)
(***************************************************************************)

LEMMA SomeRcpts ==
    ASSUME NEW m, NEW n \in Nat, n > 0
    PROVE  FirstRcpts(m, n) # {}
BY FirstRcptsSteps

\* The next record is the sender of message m.
Starts(q, m) == q.pipe # <<>> /\ Head(q.pipe) = RecOf("FROM", m)
LEMMA HeadIsFrom ==
    ASSUME NEW q \in ProcType, NEW d, NEW T \in Plan, Reading(q, d, T), NEW m, Starts(q, m)
    PROVE  m = T.m
<1>1. q.pipe # <<>> /\ Head(q.pipe).type = "FROM" /\ Head(q.pipe).val = m
  BY DEF RecOf, Starts
<1> QED
  BY <1>1, ReadingCarries

\* The plan of a process that has something to read.
LEMMA PlanToRead ==
    ASSUME IInv, NEW p \in Proc, proc[p].phase = "read", proc[p].pipe # <<>>
    PROVE  \E T \in Plan :
             LET q == proc[p]
                 r == Head(q.pipe)
                 d == file[q.id].data
             IN  /\ PlanOf(p, T) /\ T.at # "none" /\ Carries(q.id, T.m)
                 /\ r \in Record /\ Tail(q.pipe) \in Seq(Record)
                 /\ ~Malformed(q, d, r)
                 /\ r.type = "FLGS" => r.val = T.f
                 /\ r.type = "END" => Output(d, r) = Full(T) /\ T.at = "extracted" /\ T.f \subseteq q.flags
                 /\ d.from \in {NoMsg, T.m} /\ Output(d, r).from = T.m
                 /\ r.type # "FROM" => d.from = T.m
<1>1. proc[p] \in ProcType /\ ProcOK(p)
  BY ProcFacts DEF Running
<1>2. PICK T \in Plan : PlanOf(p, T)
  BY <1>1 DEF ProcOK
<1> DEFINE q == proc[p]
           r == Head(q.pipe)
           d == file[q.id].data
           c == Consumed(q, T)
<1>3. Reading(q, d, T)
  BY <1>2 DEF PlanOf
<1>4. /\ c \in Nat /\ c < Length(T) /\ r \in Record /\ Tail(q.pipe) \in Seq(Record)
      /\ q.act = ActAt(T, c) /\ d = DataAt(T, c) /\ r = RecordAt(T, c + 1)
  BY <1>1, <1>3, ReadOne
<1>5. T.at # "none"
  BY <1>4, PlanLength
<1>6. Carries(q.id, T.m)
  BY <1>2, <1>5, PlanCarries DEF IInv
<1>7. /\ ~Malformed(q, d, r)
      /\ Output(d, r) = DataAt(T, c + 1)
      /\ r.type = "FLGS" => r.val = T.f
      /\ r.type = "END" <=> T.at = "extracted" /\ c + 1 = Length(T)
      /\ r.type = "FROM" => r.val = T.m /\ d.from = NoMsg
      /\ r.type # "FROM" => d.from = T.m
  BY <1>4, PlaceStep
<1>8. ASSUME r.type = "END"
      PROVE  Output(d, r) = Full(T) /\ T.at = "extracted" /\ T.f \subseteq q.flags
  <2>1. T.at = "extracted" /\ c + 1 = EndAt(T)
    BY <1>7, <1>8, PlanLength
  <2>2. DataAt(T, c + 1) = Full(T)
    BY <1>4, <2>1, DataAtPlaces
  <2>3. c >= T.n + 2
    <3>1. PICK k \in Nat : k = c
      BY <1>4
    <3>2. k + 1 = EndAt(T)
      BY <2>1, <3>1
    <3>3. k >= T.n + 2
      BY <3>2, PlanPlaces, PlanTypes
    <3> QED
      BY <3>1, <3>3
  <2> QED
    BY <1>3, <1>7, <2>1, <2>2, <2>3 DEF Reading
<1>9. d.from \in {NoMsg, T.m}
  BY <1>7
<1>10. Output(d, r).from = T.m
  BY <1>4, <1>7, PlanTypes DEF DataAt, Partial, Full
<1> QED
  BY <1>2, <1>4, <1>5, <1>6, <1>7, <1>8, <1>9, <1>10

\* What record r does to a process and to its file; V and E are what a content
\* check wants.
Reads(q0, q, r, V, E) ==
    /\ q.pipe = Tail(q0.pipe) /\ q.act = NextAct(q0.act, r.type)
    /\ q.id = q0.id /\ q.eof = q0.eof /\ q.errs = q0.errs \cup E
    /\ q.flags = q0.flags \cup V \cup (IF r.type = "FLGS" THEN r.val ELSE {})
                                 \cup (IF r.type = "END" THEN {"END_SEEN"} ELSE {})
    /\ q.phase = IF r.type = "END" THEN "flush" ELSE IF OutOk(q) THEN "read" ELSE "drain"
Writes(F0, F, r, V) ==
    /\ F.data = Output(F0.data, r) /\ F.asked = F0.asked \cup V
    /\ F.loc = F0.loc /\ F.ready = F0.ready /\ F.torn = F0.torn

\* A record that is as it should be.
LEMMA ReadStep ==
    ASSUME IInv, NEW p \in Proc, proc[p].phase = "read", proc[p].pipe # <<>>,
           UNCHANGED <<smtpdVars, pickupVars, bounced>>,
           NEW V \in SUBSET ActionFlag, NEW E \in SUBSET {"CONT"},
           NEW id \in File, proc[p].id = id,
           NEW r, r = Head(proc[p].pipe),
           (V = {} /\ E = {}) \/ r.type = "NORM",
           NEW q \in ProcType,
           Reads(proc[p], q, r, V, E),
           NEW F \in FileType, Writes(file[id], F, r, V),
           proc' = [proc EXCEPT ![p] = q], file' = [file EXCEPT ![id] = F],
           Asks(id, V),
           left' \in SetupType, left'.mail = left.mail, left'.rcpt = left.rcpt
    PROVE  IInv'
<1>0. /\ q.pipe = Tail(proc[p].pipe) /\ q.act = NextAct(proc[p].act, r.type)
      /\ q.id = id /\ q.eof = proc[p].eof /\ q.errs = proc[p].errs \cup E
      /\ q.flags = proc[p].flags \cup V \cup (IF r.type = "FLGS" THEN r.val ELSE {})
                                        \cup (IF r.type = "END" THEN {"END_SEEN"} ELSE {})
      /\ q.phase = IF r.type = "END" THEN "flush" ELSE IF OutOk(q) THEN "read" ELSE "drain"
      /\ F.data = Output(file[id].data, r) /\ F.asked = file[id].asked \cup V
      /\ F.loc = file[id].loc /\ F.ready = file[id].ready /\ F.torn = file[id].torn
  BY DEF Reads, Writes
<1> USE <1>0
<1>1. proc[p].phase \in Running
  BY DEF Running
<1>2. /\ proc \in [Proc -> ProcType] /\ file \in [File -> FileType]
      /\ proc[p] \in ProcType /\ file[id] \in FileType
      /\ ProcOK(p) /\ FileOK(id) /\ bounced \subseteq Drop
      /\ asked \in [Msg -> SUBSET ActionFlag]
  BY <1>1, ProcFacts DEF CleanupTypeOK
<1>3. PICK T \in Plan :
        /\ PlanOf(p, T) /\ T.at # "none" /\ Carries(id, T.m)
        /\ r \in Record /\ Tail(proc[p].pipe) \in Seq(Record)
        /\ ~Malformed(proc[p], file[id].data, r)
        /\ r.type = "FLGS" => r.val = T.f
        /\ r.type = "END" => F.data = Full(T) /\ T.at = "extracted" /\ T.f \subseteq proc[p].flags
        /\ file[id].data.from \in {NoMsg, T.m} /\ F.data.from = T.m
        /\ r.type # "FROM" => file[id].data.from = T.m
  BY PlanToRead
<1>4. /\ proc'[p] = q /\ file'[id] = F /\ \A s \in Proc : s # p => proc'[s] = proc[s]
      /\ \A i \in File : i # id => file'[i] = file[i]
  BY <1>2
<1>5. /\ sess' = sess /\ told' = told /\ sent' = sent /\ drop' = drop /\ pick' = pick /\ bounced' = bounced
  BY DEF smtpdVars, pickupVars
<1>6. /\ asked' \in [Msg -> SUBSET ActionFlag]
      /\ \A m \in Msg : asked[m] \subseteq asked'[m] /\ (asked'[m] = asked[m] \/ file[id].data.from = m)
      /\ \A m \in Msg : asked'[m] \subseteq asked[m] \cup V
  BY DEF Asks
<1>7. Grows
  BY <1>5, <1>6 DEF Grows
<1>8. T.m \in Msg /\ T.m # NoMsg /\ (T.m \in Mail \/ T.m \in Drop) /\ T.f \subseteq ActionFlag
  BY PlanTypes
<1>9. Reading(q, F.data, T)
  <2>1. Reading(proc[p], file[id].data, T)
    BY <1>3 DEF PlanOf
  <2>2. proc[p].flags \subseteq q.flags /\ (r.type = "FLGS" => r.val \subseteq q.flags)
    OBVIOUS
  <2> QED
    BY <1>2, <2>1, <2>2, ReadMore
<1>10. /\ "BOUNCE" \in q.flags <=> "BOUNCE" \in proc[p].flags
       /\ r.type # "END" => ("END_SEEN" \in q.flags <=> "END_SEEN" \in proc[p].flags)
       /\ proc[p].flags \subseteq q.flags
       /\ q.flags \cap ActionFlag \subseteq proc[p].flags \cup V \cup (IF r.type = "FLGS" THEN T.f ELSE {})
  BY <1>3, <1>8 DEF ActionFlag
<1>11. V # {} => file[id].data.from = T.m /\ asked'[T.m] = asked[T.m] \cup V
  BY <1>3, <1>8 DEF Asks
<1>12. F.loc = "incoming" /\ ~F.ready /\ ~F.torn
  BY <1>1, <1>2 DEF ProcOK
<1>13. /\ Wish(file[id]) \subseteq Wish(file[id])' /\ V \subseteq Wish(file[id])'
       /\ T.f \subseteq Wish(file[id])'
       /\ T.m \in Mail => asked'[T.m] \subseteq Wish(file[id])'
       /\ Wish(file[id])' = F.asked \cup (IF T.m \in Mail THEN asked'[T.m] ELSE {})
  <2>1. Wish(file[id])' = F.asked \cup (IF T.m \in Mail THEN asked'[T.m] ELSE {})
    BY <1>3, <1>4 DEF Wish
  <2>2. Wish(file[id]) \subseteq file[id].asked \cup (IF T.m \in Mail THEN asked[T.m] ELSE {})
    BY <1>3, Numbers DEF Wish
  <2>3. T.f \subseteq asked[T.m] /\ (T.m \in Drop => T.f = {})
    BY <1>3 DEF PlanOf
  <2>4. asked[T.m] \subseteq asked'[T.m]
    BY <1>6, <1>8
  <2> QED
    BY <1>8, <2>1, <2>2, <2>3, <2>4
<1>14. "HOLD" \in q.flags => "HOLD" \in Wish(file[id])'
  <2>1. "HOLD" \in proc[p].flags => "HOLD" \in Wish(file[id])
    BY <1>2 DEF ProcOK
  <2> QED
    BY <1>10, <1>13, <2>1 DEF ActionFlag
<1>15. PlanOf(p, T)'
  <2>1. Reading(proc[p], file[proc[p].id].data, T)'
    <3>1. Reading(proc'[p], file'[proc'[p].id].data, T)
      BY <1>4, <1>9
    <3> QED
      BY <3>1 DEF Reading, Consumed
  <2>2. T.f \subseteq asked'[T.m]
    BY <1>3, <1>6, <1>8 DEF PlanOf
  <2>3. T.at = "extracted" /\ T.m \in Mail => asked'[T.m] \subseteq q.flags \cup T.f
    BY <1>3, <1>6, <1>8, <1>10 DEF PlanOf
  <2>4. Whole(T.m)' = Whole(T.m) /\ SessPlan' = SessPlan /\ PickPlan' = PickPlan
    BY <1>5 DEF Whole, DropData, SessPlan, PickPlan
  <2>5. p = sess.cleanup => asked'[T.m] \subseteq q.flags \cup sess.saved_flags
    BY <1>3, <1>6, <1>8, <1>10 DEF PlanOf
  <2> QED
    BY <1>3, <1>4, <1>5, <1>10, <2>1, <2>2, <2>3, <2>4, <2>5 DEF PlanOf
<1>16. r.type = "END" => Complete(file[id])' /\ Wish(file[id])' \subseteq q.flags
  <2> SUFFICES ASSUME r.type = "END"
               PROVE  Complete(file[id])' /\ Wish(file[id])' \subseteq q.flags
    OBVIOUS
  <2>1. /\ F.data = Full(T) /\ T.at = "extracted" /\ T.f \subseteq proc[p].flags
        /\ T.n > 0 /\ Full(T) = Whole(T.m)
    BY <1>3 DEF PlanOf
  <2>2. FirstRcpts(T.m, T.n) # {}
    <3>1. T.n \in Nat /\ T.n > 0
      BY <2>1, PlanTypes
    <3> QED
      BY <3>1, SomeRcpts
  <2>3. Whole(T.m)' = Whole(T.m)
    BY <1>5 DEF Whole, DropData
  <2>4. Complete(file[id])'
    BY <1>3, <1>4, <1>8, <2>1, <2>2, <2>3 DEF Complete, Full
  <2>5. F.asked \subseteq proc[p].flags
    BY <1>2 DEF ProcOK
  <2>6. T.m \in Mail => asked'[T.m] \subseteq proc[p].flags
    <3>1. T.m \in Mail => asked[T.m] \subseteq proc[p].flags \cup T.f
      BY <1>3, <2>1 DEF PlanOf
    <3>2. V = {}
      OBVIOUS
    <3> QED
      BY <1>6, <1>8, <2>1, <3>1, <3>2
  <2> QED
    BY <1>10, <1>13, <2>4, <2>5, <2>6
<1>17. F.asked \subseteq q.flags
  BY <1>2 DEF ProcOK
<1>18. OutOk(proc[p])' <=> OutOk(q)
  BY <1>4 DEF OutOk, ErrMask
<1>19. proc[p].eof \/ q.errs \cap {"BAD", "RCPT"} = {}
  <2>1. proc[p].eof \/ proc[p].errs \cap {"BAD", "RCPT"} = {}
    BY <1>2 DEF ProcOK
  <2> QED
    BY <2>1
<1>20. file'[id].data.from \in {NoMsg} \cup IF "BOUNCE" \in q.flags THEN Drop ELSE Mail
  BY <1>3, <1>4, <1>8, <1>10, Numbers DEF PlanOf
<1>21. ProcOK(p)'
  <2>1. CASE r.type = "END"
    <3>1. q.phase = "flush" /\ "END_SEEN" \in q.flags
      BY <2>1
    <3> QED
      BY <1>4, <1>12, <1>14, <1>16, <1>19, <1>20, <2>1, <3>1 DEF ProcOK, Running
  <2>2. CASE r.type # "END" /\ OutOk(q)
    <3>1. q.phase = "read" /\ "END_SEEN" \notin q.flags
      BY <1>2, <1>10, <2>2 DEF ProcOK
    <3> QED
      BY <1>4, <1>12, <1>14, <1>15, <1>17, <1>18, <1>19, <1>20, <2>2, <3>1 DEF ProcOK, Running
  <2>3. CASE r.type # "END" /\ ~OutOk(q)
    <3>1. q.phase = "drain" /\ "END_SEEN" \notin q.flags
      BY <1>2, <1>10, <2>3 DEF ProcOK
    <3> QED
      BY <1>4, <1>12, <1>18, <1>19, <1>20, <2>3, <3>1 DEF ProcOK, Running
  <2> QED
    BY <2>1, <2>2, <2>3
<1>22. q.phase \in Running /\ q.phase \notin {"idle", "dead", "answered"} /\ q.phase \in {"read", "flush", "drain"}
  BY DEF Running
<1>23. FileOK(id)'
  BY <1>4, <1>12, <1>22 DEF FileOK
<1>24. ASSUME NEW m \in Mail, Carries(id, m)'
       PROVE  Carries(id, m)
  <2>1. CASE F.data.from = m
    BY <1>3, <2>1
  <2>2. ASSUME NEW s \in Proc, proc'[s].phase = "read", proc'[s].id = id, proc'[s].pipe # <<>>,
               Head(proc'[s].pipe) = RecOf("FROM", m)
        PROVE  Carries(id, m)
    <3>1. CASE s # p
      BY <1>4, <2>2, <3>1 DEF Carries
    <3>2. CASE s = p
      <4>1. Starts(q, m)
        BY <1>4, <2>2, <3>2, Zenon DEF Starts
      <4>2. m = T.m
        BY <1>9, <4>1, HeadIsFrom
      <4> QED
        BY <1>3, <4>2
    <3> QED
      BY <3>1, <3>2
  <2> QED
    BY <1>4, <1>24, <2>1, <2>2 DEF Carries
<1>25. ASSUME NEW m \in Msg, Client(p, m), ~proc[p].eof, Serves(p, m)
       PROVE  Serves(p, m)'
  <2>1. m = T.m
    BY <1>3, <1>25 DEF Client, PlanOf, PickPlan
  <2>2. m \in Drop <=> "BOUNCE" \in q.flags
    BY <1>1, <1>10, <1>25 DEF Serves
  <2>3. "DISCARD" \in q.flags => "DISCARD" \in asked'[m] \/ m \in bounced'
    <3>1. "DISCARD" \in proc[p].flags => "DISCARD" \in asked[m] \/ m \in bounced
      BY <1>25 DEF Serves
    <3>2. T.f \subseteq asked[T.m]
      BY <1>3 DEF PlanOf
    <3> QED
      BY <1>5, <1>6, <1>10, <1>11, <2>1, <3>1, <3>2 DEF ActionFlag
  <2> QED
    BY <1>3, <1>4, <1>22, <1>25, <2>1, <2>2, <2>3 DEF Serves
<1>26. TypeOK'
  <2>1. TypeOK
    BY DEF IInv
  <2>2. CleanupTypeOK'
    BY <1>2, <1>6, Numbers DEF CleanupTypeOK, File
  <2> QED
    BY <1>5, <2>1, <2>2 DEF TypeOK, SmtpdTypeOK, PickupTypeOK
<1>27. UNCHANGED <<smtpdVars, pickupVars>>
  OBVIOUS
<1>28. bounced' \subseteq Drop /\ proc[p].phase # "answer" /\ proc'[p].id = id /\ proc'[p].phase # "idle"
  BY <1>2, <1>4, <1>22
<1> QED
  BY <1>1, <1>4, <1>6, <1>7, <1>21, <1>23, <1>24, <1>25, <1>26, <1>27, <1>28, CleanupFrame

\* Where the process goes after a record.
LEMMA AfterIs ==
    ASSUME NEW q \in ProcType, NEW t
    PROVE  LET a == After(q, t)
           IN  /\ a \in ProcType
               /\ a.phase = IF t = "END" THEN "flush" ELSE IF OutOk(a) THEN "read" ELSE "drain"
               /\ a.pipe = q.pipe /\ a.act = q.act /\ a.id = q.id /\ a.eof = q.eof
               /\ a.errs = q.errs /\ a.flags = q.flags
<1>1. PICK ph : ph = CASE t = "END" -> "flush" [] t # "END" /\ OutOk(q) -> "read" [] OTHER -> "drain"
  OBVIOUS
<1>2. ph = IF t = "END" THEN "flush" ELSE IF OutOk(q) THEN "read" ELSE "drain"
  BY <1>1
<1>3. PICK a : a = [q EXCEPT !.phase = ph]
  OBVIOUS
<1>4. a = After(q, t)
  BY <1>1, <1>3 DEF After
<1>5. ph \in {"flush", "read", "drain"}
  BY <1>2
<1>6. /\ a \in ProcType /\ a.phase = ph
      /\ a.pipe = q.pipe /\ a.act = q.act /\ a.id = q.id /\ a.eof = q.eof
      /\ a.errs = q.errs /\ a.flags = q.flags
  BY <1>3, <1>5 DEF ProcType, Running
<1>7. OutOk(a) <=> OutOk(q)
  BY <1>6 DEF OutOk, ErrMask
<1> QED
  BY <1>2, <1>4, <1>6, <1>7

LEMMA OutputTypes ==
    ASSUME NEW d \in Data, NEW r \in Record
    PROVE  Output(d, r) \in Data
<1>1. r.type = "FROM" => r.val \in Msg
  BY DEF Record
<1>2. r.type = "RCPT" => r.val \in Rcpt
  BY DEF Record
<1>3. CASE r.type = "FROM"
  BY <1>1, <1>3 DEF Output, Data
<1>4. CASE r.type = "RCPT"
  <2>1. Output(d, r) = [d EXCEPT !.rcpts = @ \cup {r.val}]
    BY <1>4 DEF Output
  <2> QED
    BY <1>2, <1>4, <2>1 DEF Data
<1>5. CASE r.type = "NORM"
  <2>1. Output(d, r) = [d EXCEPT !.body = @ + 1]
    BY <1>5 DEF Output
  <2> QED
    BY <2>1 DEF Data
<1>6. CASE r.type = "END"
  <2>1. Output(d, r) = [d EXCEPT !.end = TRUE]
    BY <1>6 DEF Output
  <2> QED
    BY <2>1 DEF Data
<1>7. CASE r.type \notin {"FROM", "RCPT", "NORM", "END"}
  BY <1>7 DEF Output
<1> QED
  BY <1>3, <1>4, <1>5, <1>6, <1>7

\* A record without incident: it is never out of place.
LEMMA RecordStep ==
    ASSUME IInv, NEW p \in Proc, CleanupRecord(p), UNCHANGED <<smtpdVars, pickupVars>>
    PROVE  IInv'
<1>1. proc[p].phase = "read" /\ proc[p].pipe # <<>> /\ proc[p].phase \in Running
  BY DEF CleanupRecord, Running
<1>2. PICK id \in File :
        /\ proc[p].id = id
        /\ proc[p] \in ProcType /\ file[id] \in FileType
        /\ ProcOK(p) /\ FileOK(id) /\ bounced \subseteq Drop
        /\ proc \in [Proc -> ProcType] /\ file \in [File -> FileType]
        /\ asked \in [Msg -> SUBSET ActionFlag] /\ left \in SetupType
        /\ \A q : proc' = [proc EXCEPT ![p] = q] => proc'[p] = q
        /\ \A F : file' = [file EXCEPT ![id] = F] => file'[id] = F
        /\ file = [file EXCEPT ![id] = file[id]]
  BY <1>1, ProcMoves
<1>3. PICK r : r = Head(proc[p].pipe)
  OBVIOUS
<1>4. PICK T \in Plan :
        /\ r \in Record /\ Tail(proc[p].pipe) \in Seq(Record)
        /\ ~Malformed(proc[p], file[id].data, r)
        /\ r.type = "FLGS" => r.val = T.f
  BY <1>1, <1>2, <1>3, PlanToRead
<1>5. PICK fl : fl = proc[p].flags \cup (IF r.type = "FLGS" THEN r.val ELSE {})
                                   \cup (IF r.type = "END" THEN {"END_SEEN"} ELSE {})
  OBVIOUS
<1>6. fl \in SUBSET Flag
  BY <1>2, <1>4, <1>5, PlanTypes DEF ProcType, Flag
<1>7. PICK a : a = NextAct(proc[p].act, r.type)
  OBVIOUS
<1>8. a \in {"envelope", "message", "extracted"}
  BY <1>2, <1>7 DEF NextAct, ProcType
<1>9. PICK t \in Seq(Record) : t = Tail(proc[p].pipe)
  BY <1>4
<1>10. PICK q0 : q0 = [proc[p] EXCEPT !.pipe = t, !.act = a, !.flags = fl]
  OBVIOUS
<1>11. q0 = Processed([proc[p] EXCEPT !.pipe = Tail(@)], r)
  BY <1>2, <1>5, <1>7, <1>9, <1>10 DEF Processed, ProcType
<1>12. /\ q0 \in ProcType /\ q0.pipe = t /\ q0.act = a /\ q0.flags = fl /\ q0.id = id
       /\ q0.eof = proc[p].eof /\ q0.errs = proc[p].errs
  BY <1>2, <1>6, <1>8, <1>10 DEF ProcType
<1>13. PICK q : q = After(q0, r.type)
  OBVIOUS
<1>14. /\ q \in ProcType
       /\ q.phase = IF r.type = "END" THEN "flush" ELSE IF OutOk(q) THEN "read" ELSE "drain"
       /\ q.pipe = t /\ q.act = a /\ q.id = id /\ q.eof = proc[p].eof
       /\ q.errs = proc[p].errs /\ q.flags = fl
  BY <1>12, <1>13, AfterIs
<1>15. PICK d : d = Output(file[id].data, r)
  OBVIOUS
<1>16. d \in Data
  BY <1>2, <1>4, <1>15, OutputTypes DEF FileType
<1>17. PICK F : F = [file[id] EXCEPT !.data = d]
  OBVIOUS
<1>18. /\ F \in FileType /\ F.data = d /\ F.asked = file[id].asked /\ F.loc = file[id].loc
       /\ F.ready = file[id].ready /\ F.torn = file[id].torn
  BY <1>2, <1>16, <1>17 DEF FileType
<1>19. /\ proc' = [proc EXCEPT ![p] = q]
       /\ file' = [file EXCEPT ![id] = F]
       /\ UNCHANGED <<asked, bounced, left>>
  BY <1>2, <1>3, <1>4, <1>11, <1>13, <1>15, <1>17 DEF CleanupRecord
<1>20. PICK V \in SUBSET ActionFlag, E \in SUBSET {"CONT"} : V = {} /\ E = {}
  OBVIOUS
<1>21. Asks(id, V)
  BY <1>2, <1>19, <1>20 DEF Asks
<1>22. /\ left' \in SetupType /\ left'.mail = left.mail /\ left'.rcpt = left.rcpt
       /\ q.errs = proc[p].errs \cup E /\ F.asked = file[id].asked \cup V
       /\ q.flags = proc[p].flags \cup V \cup (IF r.type = "FLGS" THEN r.val ELSE {})
                                         \cup (IF r.type = "END" THEN {"END_SEEN"} ELSE {})
  BY <1>2, <1>5, <1>14, <1>18, <1>19, <1>20, LeftFacts
<1>23. UNCHANGED <<smtpdVars, pickupVars, bounced>>
  BY <1>19
<1>24. Reads(proc[p], q, r, V, E)
  BY <1>2, <1>7, <1>9, <1>14, <1>22 DEF Reads
<1>25. Writes(file[id], F, r, V)
  BY <1>15, <1>18, <1>22 DEF Writes
<1> QED
  BY <1>1, <1>2, <1>3, <1>14, <1>18, <1>19, <1>20, <1>21, <1>22, <1>23, <1>24, <1>25, ReadStep

\* Content that a check rejects, holds or discards.
LEMMA ContentCheckStep ==
    ASSUME IInv, NEW p \in Proc, NEW verdict \in ActionFlag \cup {"CONT"},
           CleanupContentCheck(p, verdict), UNCHANGED <<smtpdVars, pickupVars>>
    PROVE  IInv'
<1>1. proc[p].phase = "read" /\ proc[p].pipe # <<>> /\ proc[p].phase \in Running
  BY DEF CleanupContentCheck, Running
<1>2. PICK id \in File :
        /\ proc[p].id = id
        /\ proc[p] \in ProcType /\ file[id] \in FileType
        /\ ProcOK(p) /\ FileOK(id) /\ bounced \subseteq Drop
        /\ proc \in [Proc -> ProcType] /\ file \in [File -> FileType]
        /\ asked \in [Msg -> SUBSET ActionFlag] /\ left \in SetupType
        /\ \A q : proc' = [proc EXCEPT ![p] = q] => proc'[p] = q
        /\ \A F : file' = [file EXCEPT ![id] = F] => file'[id] = F
        /\ file = [file EXCEPT ![id] = file[id]]
  BY <1>1, ProcMoves
<1>3. PICK r : r = Head(proc[p].pipe) /\ r.type = "NORM"
  BY DEF CleanupContentCheck
<1>4. r \in Record /\ Tail(proc[p].pipe) \in Seq(Record)
  BY <1>1, <1>3, PlanToRead
<1>5. PICK V \in SUBSET ActionFlag : V = {verdict} \cap ActionFlag
  OBVIOUS
<1>6. PICK E \in SUBSET {"CONT"} : E = {verdict} \cap Stat
  BY DEF ActionFlag, Stat
<1>7. PICK a : a = NextAct(proc[p].act, r.type)
  OBVIOUS
<1>8. a = proc[p].act
  BY <1>3, <1>7 DEF NextAct
<1>9. PICK t \in Seq(Record) : t = Tail(proc[p].pipe)
  BY <1>4
<1>10. PICK q0 : q0 = [proc[p] EXCEPT !.pipe = t, !.flags = @ \cup V, !.errs = @ \cup E]
  OBVIOUS
<1>11. /\ q0 \in ProcType /\ q0.pipe = t /\ q0.act = a /\ q0.id = id
       /\ q0.flags = proc[p].flags \cup V /\ q0.eof = proc[p].eof /\ q0.errs = proc[p].errs \cup E
  <2>1. proc[p].flags \cup V \in SUBSET Flag /\ proc[p].errs \cup E \in SUBSET Stat
    BY <1>2 DEF ProcType, Flag, Stat
  <2> QED
    BY <1>2, <1>8, <1>10, <2>1 DEF ProcType
<1>13. PICK q : q = After(q0, r.type)
  OBVIOUS
<1>14. /\ q \in ProcType
       /\ q.phase = IF r.type = "END" THEN "flush" ELSE IF OutOk(q) THEN "read" ELSE "drain"
       /\ q.pipe = t /\ q.act = a /\ q.id = id /\ q.eof = proc[p].eof
       /\ q.errs = proc[p].errs \cup E /\ q.flags = proc[p].flags \cup V
  BY <1>11, <1>13, AfterIs
<1>15. PICK d : d = Output(file[id].data, r)
  OBVIOUS
<1>16. d \in Data
  BY <1>2, <1>4, <1>15, OutputTypes DEF FileType
<1>17. PICK F : F = [file[id] EXCEPT !.data = d, !.asked = @ \cup V]
  OBVIOUS
<1>18. /\ F \in FileType /\ F.data = d /\ F.asked = file[id].asked \cup V /\ F.loc = file[id].loc
       /\ F.ready = file[id].ready /\ F.torn = file[id].torn
  BY <1>2, <1>16, <1>17 DEF FileType
<1>19. /\ proc' = [proc EXCEPT ![p] = q]
       /\ asked' = [asked EXCEPT ![file[id].data.from] = @ \cup V]
       /\ UNCHANGED bounced /\ Spend("verdict")
  BY <1>2, <1>3, <1>5, <1>6, <1>9, <1>10, <1>13 DEF CleanupContentCheck
<1>20. file' = [file EXCEPT ![id] = F]
  BY <1>2, <1>3, <1>5, <1>15, <1>17 DEF CleanupContentCheck
<1>21. Asks(id, V)
  BY <1>2, <1>19 DEF Asks
<1>22. left' \in SetupType /\ left'.mail = left.mail /\ left'.rcpt = left.rcpt
  BY <1>2, <1>19, LeftFacts
<1>23. UNCHANGED <<smtpdVars, pickupVars, bounced>>
  BY <1>19
<1>24. Reads(proc[p], q, r, V, E)
  BY <1>2, <1>3, <1>7, <1>9, <1>14 DEF Reads
<1>25. Writes(file[id], F, r, V)
  BY <1>15, <1>18 DEF Writes
<1> QED
  BY <1>1, <1>2, <1>3, <1>14, <1>18, <1>19, <1>20, <1>21, <1>22, <1>23, <1>24, <1>25, ReadStep

\* A record that cannot be written.
LEMMA WriteErrorStep ==
    ASSUME IInv, NEW p \in Proc, NEW err \in Stat,
           CleanupWriteError(p, err), UNCHANGED <<smtpdVars, pickupVars>>
    PROVE  IInv'
<1>1. proc[p].phase = "read" /\ proc[p].pipe # <<>> /\ proc[p].phase \in Running
  BY DEF CleanupWriteError, Running
<1>2. PICK id \in File :
        /\ proc[p].id = id
        /\ proc[p] \in ProcType /\ file[id] \in FileType
        /\ ProcOK(p) /\ FileOK(id) /\ bounced \subseteq Drop
        /\ proc \in [Proc -> ProcType] /\ file \in [File -> FileType]
        /\ asked \in [Msg -> SUBSET ActionFlag] /\ left \in SetupType
        /\ \A q : proc' = [proc EXCEPT ![p] = q] => proc'[p] = q
        /\ \A F : file' = [file EXCEPT ![id] = F] => file'[id] = F
        /\ file = [file EXCEPT ![id] = file[id]]
  BY <1>1, ProcMoves
<1>3. PICK r : r = Head(proc[p].pipe)
  OBVIOUS
<1>4. PICK t \in Seq(Record) : t = Tail(proc[p].pipe)
  BY <1>1, PlanToRead
<1>10. PICK q0 : q0 = [proc[p] EXCEPT !.pipe = t, !.errs = @ \cup {err}]
  OBVIOUS
<1>11. /\ q0 \in ProcType /\ q0.id = id /\ q0.flags = proc[p].flags /\ q0.eof = proc[p].eof
       /\ q0.errs = proc[p].errs \cup {err}
  BY <1>2, <1>10 DEF ProcType
<1>12. PICK q : q = After(q0, r.type)
  OBVIOUS
<1>13. err \in {"WRITE", "SIZE", "DEFER"}
  BY DEF CleanupWriteError
<1>14. /\ q \in ProcType /\ q.id = id /\ q.eof = proc[p].eof
       /\ q.errs = proc[p].errs \cup {err} /\ q.flags = proc[p].flags
       /\ q.phase = IF r.type = "END" THEN "flush" ELSE IF OutOk(q) THEN "read" ELSE "drain"
  BY <1>11, <1>12, AfterIs
<1>15. ~OutOk(q)
  BY <1>13, <1>14 DEF OutOk, ErrMask, Stat, Incomplete
<1>5. /\ q \in ProcType /\ q.phase \in {"drain", "flush"} /\ q.id = id /\ q.eof = proc[p].eof
      /\ q.flags = proc[p].flags
  BY <1>14, <1>15
<1>4a. proc' = [proc EXCEPT ![p] = q] /\ file' = file
  BY <1>3, <1>4, <1>10, <1>12 DEF CleanupWriteError
<1>4b. /\ proc' = [proc EXCEPT ![p] = q] /\ proc'[p] = q
       /\ file' = [file EXCEPT ![id] = file[id]] /\ file' = file
  BY <1>2, <1>4a
<1>6. UNCHANGED <<asked, bounced>> /\ Grows
  BY DEF CleanupWriteError, Grows, smtpdVars
<1>7. ProcOK(p)'
  <2>1. ~OutOk(proc[p])'
    BY <1>4b, <1>15 DEF OutOk, ErrMask
  <2>2. "END_SEEN" \notin proc[p].flags
    BY <1>1, <1>2 DEF ProcOK
  <2>3. proc[p].eof \/ q.errs \cap {"BAD", "RCPT"} = {}
    <3>1. proc[p].eof \/ proc[p].errs \cap {"BAD", "RCPT"} = {}
      BY <1>2 DEF ProcOK
    <3> QED
      BY <1>13, <1>14, <3>1
  <2> QED
    BY <1>1, <1>2, <1>4b, <1>5, <2>1, <2>2, <2>3 DEF ProcOK, Running
<1>8. FileOK(id)'
  <2>1. \A s \in Proc : proc[s].phase \in Running /\ proc[s].id = id
                          => proc'[s].phase \in Running /\ proc'[s].id = id
    BY <1>2, <1>4b, <1>5 DEF Running
  <2> QED
    BY <1>4b, <1>6, <2>1, FileFrame
<1>9. left' \in SetupType /\ left'.mail = left.mail /\ left'.rcpt = left.rcpt
  BY <1>2, LeftFacts DEF CleanupWriteError
<1>20. /\ q.phase # "read"
       /\ q.id = id \/ q.phase \in {"idle", "dead"}
       /\ q.phase = "idle" => proc[p].eof
       /\ q.phase # "idle" /\ ~proc[p].eof => ~q.eof
       /\ proc[p].phase = "answer" => /\ Good(file[id]) => Good(file[id]) /\ file[id].data = file[id].data
                                      /\ q.phase \notin Running
       /\ q.phase \in Running \cup {"answered"} =>
               ("BOUNCE" \in q.flags <=> "BOUNCE" \in proc[p].flags)
       /\ "DISCARD" \in q.flags => "DISCARD" \in proc[p].flags
  BY <1>1, <1>2, <1>5 DEF Running
<1> QED
  BY <1>1, <1>2, <1>4b, <1>5, <1>6, <1>7, <1>8, <1>9, <1>20, CleanupMoves

-----------------------------------------------------------------------------
(***************************************************************************)
(* A step of a client: smtpd(8) or pickup(8) opens a connection, writes to *)
(* it, or closes it.                                                       *)
(***************************************************************************)

\* A new connection gets a process that nobody uses, and a new file.
LEMMA OpeningFacts ==
    ASSUME IInv, CanOpen
    PROVE  /\ AnyProc \in Proc /\ proc[AnyProc] = IdleProc /\ proc[AnyProc].phase = "idle"
           /\ NextFile \in File /\ file[NextFile].loc = "none"
           /\ AnyProc # sess.cleanup /\ AnyProc # pick.p /\ AnyProc # NoProc
           /\ \A r \in Proc : proc[r].id # NextFile
           /\ \A m \in Msg : ~Carries(NextFile, m)
<1>1. AnyProc \in IdleProcs /\ NextFile \in FreeFiles
  BY DEF CanOpen, AnyProc, NextFile
<1>2. AnyProc \in Proc /\ proc[AnyProc].phase = "idle" /\ NextFile \in File /\ file[NextFile].loc = "none"
  BY <1>1 DEF IdleProcs, FreeFiles
<1>3. ProcOK(AnyProc) /\ FileOK(NextFile) /\ SessOK /\ PickOK
  BY <1>2 DEF IInv
<1>4. proc[AnyProc] = IdleProc
  BY <1>2, <1>3, EmptyTypes DEF ProcOK
<1>5. AnyProc # NoProc
  BY <1>2, Numbers
<1>6. AnyProc # sess.cleanup
  BY <1>2, <1>3, <1>5 DEF SessOK, Serves
<1>7. AnyProc # pick.p
  <2>1. pick.phase = "idle" => pick.p = NoProc
    BY <1>3 DEF PickOK, PickIdle
  <2>2. pick.phase \in {"idle", "copy", "rest", "wait", "remove"}
    BY DEF IInv, TypeOK, PickupTypeOK, PickType
  <2> QED
    BY <1>2, <1>3, <1>5, <2>1, <2>2 DEF PickOK, Serves
<1>8. ASSUME NEW r \in Proc
      PROVE  proc[r].id # NextFile
  <2>1. ProcOK(r) /\ proc[r] \in ProcType
    BY DEF IInv, TypeOK, CleanupTypeOK
  <2>2. proc[r].phase \in {"idle", "dead"} \/ proc[r].phase \in Running \cup {"answered"}
    BY <2>1 DEF ProcType
  <2>3. proc[r].phase \in {"idle", "dead"} => proc[r].id = NoFile
    BY <2>1 DEF ProcOK, IdleProc
  <2>4. NextFile # NoFile
    BY <1>2, Numbers DEF File, NoFile
  <2> QED
    BY <1>2, <2>1, <2>2, <2>3, <2>4 DEF ProcOK
<1>9. ASSUME NEW m \in Msg
      PROVE  ~Carries(NextFile, m)
  <2>1. file[NextFile].data = NoData
    BY <1>2, <1>3 DEF FileOK, NewFile
  <2> QED
    BY <1>8, <2>1, EmptyTypes, Numbers DEF Carries
<1> QED
  BY <1>2, <1>4, <1>5, <1>6, <1>7, <1>8, <1>9

\* The client's process is p, or it has none; j is the file of a process that
\* it has just connected to.
LEMMA ClientFrame ==
    ASSUME IInv, NEW p \in Proc \cup {NoProc}, NEW j \in File \cup {NoFile},
           \A r \in Proc : r # p => proc'[r] = proc[r],
           \A i \in File : i # j => file'[i] = file[i],
           j \in File => /\ file[j].loc = "none" /\ file'[j] = NewFile
                         /\ p \in Proc /\ proc'[p].phase = "read" /\ proc'[p].id = j
                         /\ proc[p].phase = "idle",
           j = NoFile /\ p \in Proc =>
               \/ proc'[p].phase = proc[p].phase /\ proc'[p].id = proc[p].id
               \/ /\ proc[p].phase \notin Running
                  /\ proc'[p].phase = "idle" /\ proc'[p].id = NoFile,
           p \in Proc => ProcOK(p)',
           Grows,
           \A m \in Mail : asked'[m] = asked[m] \/ ~sent[m].end,
           sess'.cleanup \in {p, NoProc} \/ UNCHANGED <<sess, sent, asked>>,
           pick'.p \in {p, NoProc} \/ UNCHANGED pick
    PROVE  /\ \A r \in Proc : ProcOK(r)'
           /\ \A i \in File : FileOK(i)'
           /\ OwnFile'
           /\ \A m \in Msg : Kept(m) => Kept(m)'
           /\ \A d \in Drop : Fate(d) => Fate(d)'
<1>1. /\ \A r \in Proc : ProcOK(r)
      /\ \A i \in File : FileOK(i)
      /\ OwnFile
  BY DEF IInv
<1>2. NoFile \notin File /\ NoProc \notin Proc /\ Mail \subseteq Msg
  BY Numbers DEF File, NoFile
<1>3. ASSUME NEW r \in Proc, proc[r].id = j, j \in File
      PROVE  FALSE
  <2>1. proc[r].phase \in Running \cup {"answered"} => file[j].loc # "none"
    BY <1>1, <1>3 DEF ProcOK
  <2>0. ProcOK(r) /\ proc[r] \in ProcType
    BY <1>1 DEF IInv, TypeOK, CleanupTypeOK
  <2>2. proc[r].phase \in {"idle", "dead"} => proc[r].id = NoFile
    BY <2>0 DEF ProcOK, IdleProc
  <2>3. proc[r].phase \in Running \cup {"answered"} \cup {"idle", "dead"}
    BY <2>0 DEF ProcType
  <2> QED
    BY <1>2, <1>3, <2>1, <2>2, <2>3
<1>4. \A r \in Proc : ProcOK(r)'
  <2> SUFFICES ASSUME NEW r \in Proc, r # p
               PROVE  ProcOK(r)'
    OBVIOUS
  <2>1. proc'[r] = proc[r] /\ (proc[r].id \in File => file'[proc[r].id] = file[proc[r].id])
    BY <1>3
  <2>2. \A m \in Mail : \/ asked'[m] = asked[m]
                        \/ ~(proc[r].id \in File /\ Carries(proc[r].id, m))
                        \/ ~sent[m].end /\ r # sess'.cleanup
    BY <1>2
  <2>3. r = sess'.cleanup => r = sess.cleanup /\ sess' = sess /\ sent' = sent
    BY <1>2
  <2>4. r = pick'.p => r = pick.p /\ pick' = pick
    BY <1>2
  <2> QED
    BY <2>1, <2>2, <2>3, <2>4, ProcFrame
<1>5. \A i \in File : FileOK(i)'
  <2>1. ASSUME NEW i \in File, i # j
        PROVE  FileOK(i)'
    <3>1. \A m \in Mail : asked'[m] = asked[m] \/ file[i].data.from # m \/ ~sent[m].end
      OBVIOUS
    <3>2. \A r \in Proc : proc[r].phase \in Running /\ proc[r].id = i
                            => proc'[r].phase \in Running /\ proc'[r].id = i
      <4> TAKE r \in Proc
      <4>1. CASE r # p
        BY <4>1
      <4>2. CASE r = p /\ j = NoFile
        BY <4>2
      <4>3. CASE r = p /\ j \in File
        BY <4>3 DEF Running
      <4> QED
        BY <4>1, <4>2, <4>3
    <3> QED
      BY <2>1, <3>1, <3>2, FileFrame
  <2>2. ASSUME j \in File
        PROVE  FileOK(j)'
    <3>1. /\ file'[j].loc = "incoming" /\ ~file'[j].ready
      BY <2>2 DEF NewFile
    <3>2. \E r \in Proc : proc'[r].phase \in Running /\ proc'[r].id = j
      BY <2>2 DEF Running
    <3> QED
      BY <3>1, <3>2 DEF FileOK
  <2> QED
    BY <2>1, <2>2
<1>6. OwnFile'
  <2>1. ASSUME NEW r \in Proc, NEW s \in Proc, proc'[r].phase \in Running \cup {"answered"},
               proc'[r].id = proc'[s].id, r # s
        PROVE  FALSE
    <3>1. proc'[r].id \in File
      BY <1>4, <2>1 DEF ProcOK, File
    <3>2. CASE j \in File
      <4>1. r # p => r # p /\ proc'[r].id # j
        BY <1>3, <3>2
      <4>2. s # p => s # p /\ proc'[s].id # j
        BY <1>3, <3>2
      <4> QED
        BY <1>1, <2>1, <3>2, <4>1, <4>2 DEF OwnFile
    <3>3. CASE j = NoFile
      <4>1. r = p => proc'[r].phase = proc[r].phase /\ proc'[r].id = proc[r].id
        BY <2>1, <3>3 DEF Running
      <4>2. s = p => proc'[s].id = proc[s].id
        BY <1>2, <2>1, <3>1, <3>3
      <4> QED
        BY <1>1, <2>1, <4>1, <4>2 DEF OwnFile
    <3> QED
      BY <3>2, <3>3
  <2> QED
    BY <2>1 DEF OwnFile
<1>7. \A m \in Msg : Kept(m) => Kept(m)'
  <2>1. ASSUME NEW i \in File, Good(file[i]),
               \A r \in Proc : proc[r].id = i => proc[r].phase \in {"answer", "answered"}
        PROVE  /\ Good(file'[i]) /\ file'[i].data = file[i].data
               /\ \A r \in Proc : proc'[r].id = i => proc'[r].phase \in {"answer", "answered"}
    <3>1. i # j
      BY <2>1 DEF Good
    <3>2. ASSUME NEW r \in Proc, proc'[r].id = i
          PROVE  proc'[r].phase \in {"answer", "answered"}
      <4>1. CASE r # p
        BY <2>1, <3>2, <4>1
      <4>2. CASE r = p
        BY <1>2, <2>1, <3>1, <3>2, <4>2
      <4> QED
        BY <4>1, <4>2
    <3> QED
      BY <2>1, <3>1, <3>2
  <2> QED
    BY <2>1, KeptFrame
<1>8. \A d \in Drop : Fate(d) => Fate(d)'
  <2>1. Drop \subseteq Msg
    BY Numbers
  <2> QED
    BY <1>7, <2>1, FateFrame, PickupAssumption
<1> QED
  BY <1>4, <1>5, <1>6, <1>7, <1>8

\* A process whose client has written to it, or has closed the connection.
Alike(q, r) ==
    /\ q \in ProcType
    /\ q = [r EXCEPT !.pipe = q.pipe, !.eof = q.eof]
    /\ r.eof => q.eof
    /\ r.phase \notin Running => q = r

LEMMA AlikeIs ==
    ASSUME NEW r \in ProcType, NEW q, Alike(q, r)
    PROVE  /\ q \in ProcType /\ q.phase = r.phase /\ q.id = r.id /\ q.act = r.act
           /\ q.errs = r.errs /\ q.flags = r.flags /\ (~q.eof => ~r.eof)
           /\ r.phase \notin Running => q = r
BY DEF Alike, ProcType

LEMMA ClientProc ==
    ASSUME IInv, NEW p \in Proc, Alike(proc'[p], proc[p]),
           proc[p].id \in File => file'[proc[p].id] = file[proc[p].id],
           Grows,
           \A m \in Mail : asked'[m] = asked[m] \/ ~sent[m].end,
           proc[p].phase = "read" => \E T \in Plan : PlanOf(p, T)'
    PROVE  ProcOK(p)'
<1>1. ProcOK(p) /\ proc[p] \in ProcType
  BY DEF IInv, TypeOK, CleanupTypeOK
<1>2. PICK q : q = proc'[p]
  OBVIOUS
<1>3. /\ q.phase = proc[p].phase /\ q.id = proc[p].id /\ q.act = proc[p].act
      /\ q.errs = proc[p].errs /\ q.flags = proc[p].flags /\ (~q.eof => ~proc[p].eof)
      /\ proc[p].phase \notin Running => q = proc[p]
  BY <1>1, <1>2, AlikeIs
<1>4. CASE proc[p].phase \notin Running \cup {"answered"}
  BY <1>1, <1>2, <1>3, <1>4 DEF ProcOK, Running
<1>5. CASE proc[p].phase \in Running \cup {"answered"}
  <2>1. PICK i \in File : i = proc[p].id /\ file'[i] = file[i]
    BY <1>1, <1>5 DEF ProcOK
  <2>2. Wish(file[i]) \subseteq Wish(file[i])'
    BY <2>1, WishGrows, SmtpdAssumption
  <2>3. ASSUME Complete(file[i])
        PROVE  Complete(file[i])' /\ Wish(file[i])' = Wish(file[i])
    <3>1. Complete(file[i])' /\ (file[i].data.from \in Mail => sent[file[i].data.from].end)
      BY <2>1, <2>3, CompleteStays
    <3> QED
      BY <2>1, <3>1, WishGrows, SmtpdAssumption
  <2>4. OutOk(proc[p])' <=> OutOk(proc[p])
    BY <1>2, <1>3 DEF OutOk, ErrMask
  <2>5. Commits(proc[p])' <=> Commits(proc[p])
    BY <1>2, <1>3 DEF Commits
  <2>6. Good(file[i])' <=> Good(file[i])
    BY <2>1 DEF Good
  <2>7. file[proc[p].id]' = file[i]
    BY <1>2, <1>3, <2>1
  <2>8. /\ Wish(file[proc[p].id])' = Wish(file[i])'
        /\ Complete(file[proc[p].id])' <=> Complete(file[i])'
        /\ Good(file[proc[p].id])' <=> Good(file[i])'
    BY <1>2, <1>3, <2>1
  <2>9. /\ proc'[p].phase = proc[p].phase /\ proc'[p].flags = proc[p].flags
        /\ proc'[p].errs = proc[p].errs /\ proc'[p].id = i
        /\ file'[i] = file[i] /\ proc[p].id = i
        /\ ~proc'[p].eof => ~proc[p].eof
    BY <1>2, <1>3, <2>1
  <2>10. CASE proc[p].phase \in {"read", "drain"}
    BY <1>1, <1>5, <2>2, <2>4, <2>9, <2>10 DEF ProcOK, Running
  <2>11. CASE proc[p].phase = "flush"
    BY <1>1, <1>5, <2>2, <2>3, <2>4, <2>8, <2>9, <2>11 DEF ProcOK, Running
  <2>12. CASE proc[p].phase \in {"chmod", "sync", "forget", "cancel"}
    BY <1>1, <1>5, <2>3, <2>5, <2>6, <2>8, <2>9, <2>12 DEF ProcOK, Running
  <2>13. CASE proc[p].phase \in {"answer", "answered"}
    BY <1>1, <1>5, <2>5, <2>6, <2>8, <2>9, <2>13 DEF ProcOK, Running
  <2> QED
    BY <1>5, <2>10, <2>11, <2>12, <2>13 DEF Running
<1> QED
  BY <1>4, <1>5

\* P is B after process p was written what plan U has.
Wrote(B, P, p, d, U) ==
    /\ P \in [Proc -> ProcType] /\ B \in [Proc -> ProcType]
    /\ \A r \in Proc : r # p => P[r] = B[r]
    /\ Alike(P[p], B[p]) /\ P[p].eof = B[p].eof
    /\ B[p].phase = "read" => Reading(P[p], d, U)

LEMMA WroteNothing ==
    ASSUME NEW B \in [Proc -> ProcType], NEW p \in Proc, NEW d, NEW U,
           B[p].phase = "read" => Reading(B[p], d, U)
    PROVE  Wrote(B, B, p, d, U)
<1>1. Alike(B[p], B[p])
  BY DEF Alike, ProcType
<1> QED
  BY <1>1 DEF Wrote

LEMMA Appended == \A s, t \in Seq(Record) : s \o t \in Seq(Record)
OBVIOUS

LEMMA WroteMore ==
    ASSUME NEW B, NEW P, NEW p \in Proc, NEW d, NEW T \in Plan, NEW U \in Plan,
           Wrote(B, P, p, d, T), NEW recs \in Seq(Record), GoesOn(T, U, recs)
    PROVE  Wrote(B, Write(P, p, recs), p, d, U)
<1>1. /\ P \in [Proc -> ProcType] /\ B \in [Proc -> ProcType]
      /\ Alike(P[p], B[p]) /\ P[p].eof = B[p].eof
  BY DEF Wrote
<1>2. /\ P[p] \in ProcType /\ B[p] \in ProcType /\ P[p].phase = B[p].phase
      /\ P[p].act = B[p].act /\ P[p].flags = B[p].flags
  BY <1>1, AlikeIs
<1>3. CASE P[p].phase \notin Running
  BY <1>2, <1>3 DEF Wrote, Write, Running
<1>4. CASE P[p].phase \in Running
  <2>1. PICK s \in Seq(Record) : s = P[p].pipe \o recs
    <3>1. P[p].pipe \in Seq(Record)
      BY <1>2 DEF ProcType
    <3> QED
      BY <3>1, Appended, Zenon
  <2>2. PICK q : q = [P[p] EXCEPT !.pipe = s]
    OBVIOUS
  <2>3. Write(P, p, recs) = [P EXCEPT ![p] = q]
    BY <1>1, <1>4, <2>1, <2>2 DEF Write
  <2>4. /\ q \in ProcType /\ q.pipe = s /\ q.act = P[p].act /\ q.flags = P[p].flags
        /\ q.eof = P[p].eof
    BY <1>2, <2>2 DEF ProcType
  <2>5. Alike(q, B[p])
    <3>1. B[p].eof => q.eof
      BY <1>1, <2>4
    <3>2. q = [B[p] EXCEPT !.pipe = q.pipe, !.eof = q.eof]
      BY <1>1, <1>2, <2>2, <2>4 DEF Alike, ProcType
    <3> QED
      BY <1>2, <1>4, <2>4, <3>1, <3>2 DEF Alike
  <2>6. B[p].phase = "read" => Reading(q, d, U)
    BY <1>2, <2>1, <2>4, WriteMore DEF Wrote
  <2>7. PICK Q : Q = [P EXCEPT ![p] = q]
    OBVIOUS
  <2>8. Q \in [Proc -> ProcType] /\ Q[p] = q /\ \A r \in Proc : r # p => Q[r] = P[r]
    BY <1>1, <2>4, <2>7
  <2>9. q.eof = B[p].eof
    BY <1>1, <2>4
  <2>10. Wrote(B, Q, p, d, U)
    BY <1>1, <2>5, <2>6, <2>8, <2>9 DEF Wrote
  <2> QED
    BY <2>3, <2>7, <2>10
<1> QED
  BY <1>3, <1>4

\* A step of smtpd, which leaves pickup and postdrop alone.
LEMMA SmtpdFrame ==
    ASSUME IInv, TypeOK', SessOK', UNCHANGED <<bounced, pickupVars>>,
           NEW p \in Proc \cup {NoProc}, NEW j \in File \cup {NoFile},
           p = NoProc \/ p # pick.p,
           \A r \in Proc : r # p => proc'[r] = proc[r],
           \A i \in File : i # j => file'[i] = file[i],
           j \in File => /\ file[j].loc = "none" /\ file'[j] = NewFile
                         /\ p \in Proc /\ proc'[p].phase = "read" /\ proc'[p].id = j
                         /\ proc[p].phase = "idle",
           j = NoFile /\ p \in Proc =>
               \/ proc'[p].phase = proc[p].phase /\ proc'[p].id = proc[p].id
               \/ /\ proc[p].phase \notin Running
                  /\ proc'[p].phase = "idle" /\ proc'[p].id = NoFile,
           p \in Proc => ProcOK(p)',
           Grows,
           sess'.cleanup \in {p, NoProc} \/ UNCHANGED <<sess, sent, asked>>,
           \A m \in Mail : asked'[m] = asked[m] \/ ~sent[m].end,
           \A i \in File, m \in Mail : Carries(i, m)' =>
               \/ Carries(i, m)
               \/ i = j /\ m > left'.mail /\ \A k \in File : ~Carries(k, m),
           \A i \in File, m \in Mail : Carries(i, m)' /\ m = sess'.sender => sess'.cleanup # NoProc,
           left'.mail <= left.mail, left'.rcpt = left.rcpt,
           \A m \in Mail : \/ sent'[m] = sent[m] /\ asked'[m] = asked[m] /\ told'[m] = told[m]
                           \/ m > left'.mail,
           \A m \in Mail : told'[m] = "ok" => told[m] = "ok" \/ Kept(m) \/ "DISCARD" \in asked[m]
    PROVE  IInv'
<1>1. /\ TypeOK /\ OneFile /\ MailOK /\ PickOK /\ SessOK
      /\ \A d \in Drop : DropOK(d)
      /\ \A r \in Proc : ProcOK(r)
  BY DEF IInv
<1>2. /\ drop' = drop /\ pick' = pick /\ bounced' = bounced
      /\ NoProc \notin Proc /\ Mail \subseteq Msg /\ Drop \subseteq Msg /\ NoFile \notin File
  BY Numbers DEF pickupVars, File, NoFile
<1>3. /\ \A r \in Proc : ProcOK(r)'
      /\ \A i \in File : FileOK(i)'
      /\ OwnFile'
      /\ \A m \in Msg : Kept(m) => Kept(m)'
      /\ \A d \in Drop : Fate(d) => Fate(d)'
  <2>1. pick'.p \in {p, NoProc} \/ UNCHANGED pick
    BY <1>2
  <2> QED
    BY <2>1, ClientFrame
<1>4. \A d \in Drop : DropOK(d)'
  BY <1>1, <1>2, <1>3, DropFrame
<1>5. left.mail \in Nat /\ left'.mail \in Nat
  BY <1>1 DEF TypeOK, CleanupTypeOK, SetupType
<1>6. OneFile'
  <2>1. File' = File /\ Mail' = Mail
    BY DEF File
  <2>2. ASSUME NEW m \in Mail, NEW i \in File, Carries(i, m)'
        PROVE  /\ \A k \in File : Carries(k, m)' => i = k
               /\ m > left'.mail
               /\ m = sess'.sender => sess'.cleanup # NoProc
    <3>1. m \in Nat
      BY Numbers
    <3>2. m > left'.mail
      BY <1>1, <1>5, <2>2, <3>1 DEF OneFile
    <3>3. \A k \in File : Carries(k, m)' => i = k
      BY <1>1, <2>2 DEF OneFile
    <3> QED
      BY <2>2, <3>2, <3>3
  <2> QED
    BY <2>1, <2>2 DEF OneFile
<1>7. MailOK'
  <2>1. ASSUME NEW m \in 1 .. left'.mail
        PROVE  m \in Mail /\ sent'[m] = NoData /\ asked'[m] = {} /\ told'[m] = "nothing"
    <3>1. m \in 1 .. left.mail /\ ~(m > left'.mail)
      BY <1>5
    <3> QED
      BY <1>1, <3>1 DEF MailOK
  <2>2. ASSUME NEW m \in Mail, told'[m] = "ok"
        PROVE  Kept(m)' \/ "DISCARD" \in asked'[m]
    <3>1. asked[m] \subseteq asked'[m]
      BY <1>2 DEF Grows
    <3>2. Kept(m) => Kept(m)'
      BY <1>2, <1>3
    <3>3. Kept(m) \/ "DISCARD" \in asked[m]
      BY <1>1, <2>2 DEF MailOK
    <3> QED
      BY <3>1, <3>2, <3>3
  <2> QED
    BY <1>1, <1>2, <2>1, <2>2 DEF MailOK
<1>8. PickOK'
  <2>1. ASSUME pick.p \in Proc, Serves(pick.p, pick.d)
        PROVE  Serves(pick.p, pick.d)'
    <3>1. pick.phase # "idle"
      BY <1>1, <1>2, <2>1 DEF PickOK, PickIdle
    <3>2. pick.d \in Msg
      BY <1>1, <1>2, <3>1 DEF PickOK
    <3>3. proc'[pick.p] = proc[pick.p]
      BY <1>2, <2>1
    <3>4. proc[pick.p].phase \in Running \cup {"answered"}
             => proc[pick.p].id \in File /\ file[proc[pick.p].id].loc # "none"
      BY <1>1, <2>1 DEF ProcOK
    <3>5. proc[pick.p].phase \in Running \cup {"answered"}
             => file'[proc[pick.p].id] = file[proc[pick.p].id]
      BY <3>4
    <3>6. Serves(pick.p, pick.d) => Serves(pick.p, pick.d)'
      <4>1. PICK a \in Proc, b \in Msg : a = pick.p /\ b = pick.d
        BY <2>1, <3>2
      <4>2. Serves(a, b) => Serves(a, b)'
        BY <3>3, <3>5, <4>1, ServesFrame
      <4>3. Serves(pick.p, pick.d)' <=> Serves(a, b)'
        BY <1>2, <4>1
      <4> QED
        BY <4>1, <4>2, <4>3
    <3> QED
      BY <2>1, <3>6
  <2>2. pick.p = sess'.cleanup => pick.p = sess.cleanup \/ pick.p \notin Proc
    BY <1>2
  <2>3. \A d \in Drop : /\ drop'[d].ready = drop[d].ready
                        /\ drop[d].torn => drop'[d].torn
                        /\ Fate(d) => Fate(d)'
    BY <1>2, <1>3
  <2> QED
    BY <1>1, <1>2, <2>1, <2>2, <2>3, PickFrame
<1> QED
  BY <1>3, <1>4, <1>6, <1>7, <1>8 DEF IInv

\* Writing more of the same message does not give it another file.
LEMMA SameCarries ==
    ASSUME IInv, NEW p \in Proc,
           \A r \in Proc : r # p => proc'[r] = proc[r],
           UNCHANGED file,
           proc'[p].phase = "read" =>
               /\ proc[p].phase = "read" /\ proc'[p].id = proc[p].id /\ proc'[p] \in ProcType
               /\ \E T, U \in Plan :
                    /\ PlanOf(p, T) /\ U.m = T.m /\ (T.at # "none" \/ T.m \in Drop)
                    /\ Reading(proc'[p], file[proc[p].id].data, U)
    PROVE  \A i \in File, m \in Mail : Carries(i, m)' => Carries(i, m)
<1> SUFFICES ASSUME NEW i \in File, NEW m \in Mail, Carries(i, m)'
             PROVE  Carries(i, m)
  OBVIOUS
<1>1. file'[i].data.from = m => Carries(i, m)
  BY DEF Carries
<1>2. ASSUME NEW r \in Proc, proc'[r].phase = "read", proc'[r].id = i, proc'[r].pipe # <<>>,
             Head(proc'[r].pipe) = RecOf("FROM", m)
      PROVE  Carries(i, m)
  <2>1. CASE r # p
    BY <1>2, <2>1 DEF Carries
  <2>2. CASE r = p
    <3>1. PICK q : q = proc'[p]
      OBVIOUS
    <3>2. /\ proc[p].phase = "read" /\ proc[p].id = i /\ q \in ProcType
          /\ q.pipe # <<>> /\ Head(q.pipe).type = "FROM" /\ Head(q.pipe).val = m
      BY <1>2, <2>2, <3>1 DEF RecOf
    <3>3. PICK T \in Plan, U \in Plan :
            /\ PlanOf(p, T) /\ U.m = T.m /\ (T.at # "none" \/ T.m \in Drop)
            /\ Reading(q, file[proc[p].id].data, U)
      BY <1>2, <2>2, <3>1
    <3>4. U.m = m
      BY <3>2, <3>3, ReadingCarries
    <3>5. T.m = m /\ T.at # "none"
      BY <3>3, <3>4, Numbers
    <3> QED
      BY <3>2, <3>3, <3>5, PlanCarries DEF IInv
  <2> QED
    BY <2>1, <2>2
<1> QED
  BY <1>1, <1>2 DEF Carries

\* What holds of a plan, whoever reads it.
Means(p, U) ==
    /\ "BOUNCE" \in proc[p].flags <=> U.m \in Drop
    /\ U.f \subseteq asked[U.m] /\ (U.m \in Drop => U.f = {})
    /\ U.at \in {"message", "extracted"} => U.n > 0
    /\ U.at = "extracted" => Full(U) = Whole(U.m)
    /\ U.at = "extracted" /\ U.m \in Mail => asked[U.m] \subseteq proc[p].flags \cup U.f

\* The client of process p has written some more, up to plan U.
Extends(p, P, U) ==
    /\ Wrote(proc, P, p, file[proc[p].id].data, U)
    /\ proc[p].phase = "read" =>
          /\ Means(p, U)
          /\ \E T \in Plan : PlanOf(p, T) /\ U.m = T.m /\ (T.at # "none" \/ T.m \in Drop)

LEMMA ClosedIs ==
    ASSUME NEW B, NEW P, NEW p \in Proc, NEW d, NEW U, Wrote(B, P, p, d, U),
           NEW Q, Q = mail_stream_cleanup(P, p)
    PROVE  /\ Q \in [Proc -> ProcType]
           /\ \A r \in Proc : r # p => Q[r] = B[r]
           /\ B[p].phase \in Running => Alike(Q[p], B[p]) /\ Q[p].eof
           /\ B[p].phase = "read" => Reading(Q[p], d, U)
           /\ B[p].phase \notin Running => Q[p] = IdleProc
<1>1. /\ P \in [Proc -> ProcType] /\ B \in [Proc -> ProcType]
      /\ \A r \in Proc : r # p => P[r] = B[r]
      /\ Alike(P[p], B[p])
  BY DEF Wrote
<1>2. P[p] \in ProcType /\ B[p] \in ProcType /\ P[p].phase = B[p].phase
  BY <1>1, AlikeIs
<1>3. CASE B[p].phase \notin Running
  <2>1. Q = [P EXCEPT ![p] = IdleProc]
    BY <1>2, <1>3 DEF mail_stream_cleanup
  <2> QED
    BY <1>1, <1>3, <2>1, EmptyTypes DEF Running
<1>4. CASE B[p].phase \in Running
  <2>1. PICK q : q = [P[p] EXCEPT !.eof = TRUE]
    OBVIOUS
  <2>2. Q = [P EXCEPT ![p] = q]
    BY <1>1, <1>2, <1>4, <2>1 DEF mail_stream_cleanup
  <2>3. /\ q \in ProcType /\ q.pipe = P[p].pipe /\ q.act = P[p].act /\ q.flags = P[p].flags
        /\ q.eof = TRUE
    BY <1>2, <2>1 DEF ProcType
  <2>4. q = [B[p] EXCEPT !.pipe = q.pipe, !.eof = q.eof]
    BY <1>1, <1>2, <2>1, <2>3 DEF Alike, ProcType
  <2>5. Alike(q, B[p])
    BY <1>4, <2>3, <2>4 DEF Alike
  <2>6. B[p].phase = "read" => Reading(q, d, U)
    BY <2>3 DEF Wrote, Reading, Consumed
  <2> QED
    BY <1>1, <1>4, <2>2, <2>3, <2>5, <2>6
<1> QED
  BY <1>3, <1>4

\* The client closes the connection: the process will find out.
LEMMA ClosedProc ==
    ASSUME IInv, NEW p \in Proc, NEW P, NEW U \in Plan, Extends(p, P, U),
           proc' = mail_stream_cleanup(P, p), UNCHANGED <<file, asked>>, Grows,
           p # sess'.cleanup, p # pick'.p
    PROVE  /\ proc' \in [Proc -> ProcType]
           /\ \A r \in Proc : r # p => proc'[r] = proc[r]
           /\ ProcOK(p)'
           /\ \/ proc'[p].phase = proc[p].phase /\ proc'[p].id = proc[p].id
              \/ /\ proc[p].phase \notin Running
                 /\ proc'[p].phase = "idle" /\ proc'[p].id = NoFile
           /\ \A i \in File, m \in Mail : Carries(i, m)' => Carries(i, m)
<1>0. Wrote(proc, P, p, file[proc[p].id].data, U)
  BY DEF Extends
<1>1. PICK Q : Q = proc'
  OBVIOUS
<1>2. /\ Q \in [Proc -> ProcType]
      /\ \A r \in Proc : r # p => Q[r] = proc[r]
      /\ proc[p].phase \in Running => Alike(Q[p], proc[p]) /\ Q[p].eof
      /\ proc[p].phase = "read" => Reading(Q[p], file[proc[p].id].data, U)
      /\ proc[p].phase \notin Running => Q[p] = IdleProc
  BY <1>0, <1>1, ClosedIs
<1>3. proc[p] \in ProcType
  BY DEF IInv, TypeOK, CleanupTypeOK
<1>4. proc[p].phase \in Running => Q[p].phase = proc[p].phase /\ Q[p].id = proc[p].id
                                   /\ Q[p].flags = proc[p].flags
  BY <1>2, <1>3, AlikeIs
<1>5. ASSUME proc[p].phase = "read"
      PROVE  PlanOf(p, U)'
  <2>1. Means(p, U)
    BY <1>5 DEF Extends
  <2>2. proc[p].phase \in Running
    BY <1>5 DEF Running
  <2>3. Reading(proc[p], file[proc[p].id].data, U)'
    BY <1>1, <1>2, <1>4, <1>5, <2>2
  <2>4. U.at = "extracted" => Full(U) = Whole(U.m)'
    <3>1. U.at = "extracted" /\ U.m \in Mail => sent[U.m].end
      BY <2>1 DEF Means, Full, Whole
    <3> QED
      BY <2>1, <3>1 DEF Means, Whole, DropData, Grows
  <2> QED
    BY <1>1, <1>4, <2>1, <2>2, <2>3, <2>4 DEF Means, PlanOf
<1>6. ProcOK(p)'
  <2>1. CASE proc[p].phase \in Running
    <3>1. Alike(proc'[p], proc[p])
      BY <1>1, <1>2, <2>1
    <3>2. proc[p].phase = "read" => \E T \in Plan : PlanOf(p, T)'
      BY <1>5
    <3> QED
      BY <3>1, <3>2, ClientProc
  <2>2. CASE proc[p].phase \notin Running
    <3>1. proc'[p] = IdleProc
      BY <1>1, <1>2, <2>2
    <3> QED
      BY <3>1, EmptyTypes DEF ProcOK, Running
  <2> QED
    BY <2>1, <2>2
<1>7. \A i \in File, m \in Mail : Carries(i, m)' => Carries(i, m)
  <2>1. ASSUME proc'[p].phase = "read"
        PROVE  /\ proc[p].phase = "read" /\ proc'[p].id = proc[p].id /\ proc'[p] \in ProcType
               /\ \E T, V \in Plan :
                    /\ PlanOf(p, T) /\ V.m = T.m /\ (T.at # "none" \/ T.m \in Drop)
                    /\ Reading(proc'[p], file[proc[p].id].data, V)
    <3>1. proc[p].phase = "read"
      BY <1>1, <1>2, <1>4, <2>1, EmptyTypes
    <3>2. /\ proc'[p].id = proc[p].id /\ proc'[p] \in ProcType
          /\ Reading(proc'[p], file[proc[p].id].data, U)
      BY <1>1, <1>2, <1>4, <3>1 DEF Running
    <3> QED
      BY <3>1, <3>2 DEF Extends
  <2>2. \A r \in Proc : r # p => proc'[r] = proc[r]
    BY <1>1, <1>2
  <2> QED
    BY <2>1, <2>2, SameCarries
<1>8. \/ proc'[p].phase = proc[p].phase /\ proc'[p].id = proc[p].id
      \/ /\ proc[p].phase \notin Running
         /\ proc'[p].phase = "idle" /\ proc'[p].id = NoFile
  BY <1>1, <1>2, <1>4, EmptyTypes
<1> QED
  BY <1>1, <1>2, <1>6, <1>7, <1>8

\* A process goes on with plan T as it is.
LEMMA PlanMeans ==
    ASSUME NEW p \in Proc, NEW T \in Plan, PlanOf(p, T)
    PROVE  Means(p, T)
BY DEF PlanOf, Means

-----------------------------------------------------------------------------
(***************************************************************************)
(* The SMTP session.                                                       *)
(***************************************************************************)
LEMMA SessFacts ==
    ASSUME IInv
    PROVE  /\ sess \in SessType /\ told \in [Mail -> {"nothing", "ok", "error"}]
           /\ sent \in [Mail -> Data] /\ left \in SetupType /\ left.mail \in Nat /\ left.rcpt \in Nat
           /\ proc \in [Proc -> ProcType] /\ file \in [File -> FileType]
           /\ asked \in [Msg -> SUBSET ActionFlag] /\ bounced \subseteq Msg
           /\ PickupTypeOK
           /\ SessOK /\ MailOK /\ OneFile
           /\ left.rcpt <= MaxRcpt
           /\ sess.cleanup # NoProc => /\ sess.cleanup \in Proc /\ sess.sender # NoMsg
                                       /\ sess.cleanup # pick.p
                                       /\ Serves(sess.cleanup, sess.sender)
           /\ sess.sender # NoMsg => sess.sender \in Mail /\ sess.sender > left.mail
<1>1. TypeOK /\ SessOK /\ MailOK /\ OneFile
  BY DEF IInv
<1>2. left \in SetupType /\ left.mail \in Nat /\ left.rcpt \in Nat
  BY <1>1 DEF TypeOK, CleanupTypeOK, SetupType
<1>3. sess.cleanup # NoProc => /\ sess.cleanup \in Proc /\ sess.sender # NoMsg
                               /\ sess.cleanup # pick.p
  BY <1>1 DEF SessOK, StreamMatches
<1>4. sess.sender # NoMsg => sess.sender \in Mail /\ sess.sender > left.mail
  BY <1>1 DEF SessOK, TypeOK, SmtpdTypeOK, SessType
<1> QED
  BY <1>1, <1>2, <1>3, <1>4 DEF TypeOK, CleanupTypeOK, SmtpdTypeOK, SessOK, MailOK

LEMMA SessPlanType ==
    ASSUME IInv, sess.sender # NoMsg
    PROVE  /\ SessPlan \in Plan /\ SessPlan.at # "none"
           /\ SessPlan.m = sess.sender /\ SessPlan.n = sess.rcpt_count
           /\ SessPlan.k = sent[sess.sender].body
<1>1. /\ sess \in SessType /\ sess.sender \in Mail /\ sent[sess.sender] \in Data
      /\ sess.rcpt_count <= MaxRcpt
  BY SessFacts DEF SessOK
<1>2. /\ sess.rcpt_count \in Nat /\ sess.saved_flags \subseteq ActionFlag
      /\ sent[sess.sender].body \in Nat
  BY <1>1 DEF SessType, Data
<1>3. sess.rcpt_count \in 0 .. MaxRcpt
  BY <1>1, <1>2, Numbers
<1> QED
  BY <1>1, <1>2, <1>3 DEF SessPlan, Plan

\* What the session has written so far.
LEMMA SessionPlan ==
    ASSUME IInv, NEW p \in Proc, p = sess.cleanup
    PROVE  \E U \in Plan :
             /\ Extends(p, proc, U) /\ U.m = sess.sender
             /\ U.at \in {"envelope", "message"} \/ U = SessPlan
             /\ U.at # "none"
             /\ sess.bdat_state # "ERROR" => U = SessPlan
             /\ proc[p].phase = "read" => PlanOf(p, U)
             /\ U.f \subseteq asked[U.m] /\ (U.at = "message" => U.n > 0)
<1>1. proc \in [Proc -> ProcType] /\ ProcOK(p) /\ sess.sender # NoMsg
  BY SessFacts, Numbers DEF IInv
<1>2. CASE proc[p].phase = "read"
  <2>1. PICK T \in Plan : PlanOf(p, T)
    BY <1>1, <1>2 DEF ProcOK
  <2>2. /\ T.m = sess.sender
        /\ T.at \in {"envelope", "message"} \/ T = SessPlan
        /\ sess.bdat_state # "ERROR" => T = SessPlan
        /\ Reading(proc[p], file[proc[p].id].data, T)
    BY <2>1 DEF PlanOf
  <2>3. T.at # "none"
    BY <1>1, <2>2, SessPlanType
  <2>4. Extends(p, proc, T)
    BY <1>1, <2>1, <2>2, <2>3, WroteNothing, PlanMeans DEF Extends
  <2>5. T.f \subseteq asked[T.m] /\ (T.at = "message" => T.n > 0)
    BY <2>1 DEF PlanOf
  <2> QED
    BY <1>2, <2>1, <2>2, <2>3, <2>4, <2>5
<1>3. CASE proc[p].phase # "read"
  <2>1. SessPlan \in Plan /\ SessPlan.at # "none" /\ SessPlan.m = sess.sender
    BY <1>1, SessPlanType
  <2>2. Extends(p, proc, SessPlan)
    BY <1>1, <1>3, WroteNothing DEF Extends
  <2>3. SessPlan.f \subseteq asked[SessPlan.m] /\ (SessPlan.at = "message" => SessPlan.n > 0)
    BY <1>1, SessFacts DEF SessPlan, SessOK
  <2> QED
    BY <1>3, <2>1, <2>2, <2>3
<1> QED
  BY <1>2, <1>3

\* A session between transactions.
Blank(s) ==
    /\ s \in SessType
    /\ s.sender = NoMsg /\ s.cleanup = NoProc /\ s.rcpt_count = 0 /\ s.saved_flags = {}
    /\ s.err = {} /\ s.post = "NONE" /\ s.bdat_state \in {"NONE", "ERROR"}
    /\ s = NoSession \/ s.phase = "cmd"

\* A transaction ends.
LEMMA SessionEnds ==
    ASSUME IInv, UNCHANGED <<file, asked, bounced, pickupVars>>, Blank(sess'),
           NEW P,
           sess.cleanup = NoProc => proc' = proc,
           sess.cleanup # NoProc => /\ proc' = mail_stream_cleanup(P, sess.cleanup)
                                    /\ \E U \in Plan : Extends(sess.cleanup, P, U),
           left' \in SetupType, left'.mail = left.mail, left'.rcpt = left.rcpt,
           sent' \in [Mail -> Data], told' \in [Mail -> {"nothing", "ok", "error"}],
           \A m \in Mail : sent'[m] = sent[m] \/ (m = sess.sender /\ ~sent[m].end),
           \A m \in Mail : told'[m] = told[m] \/ m = sess.sender,
           \A m \in Mail : told'[m] = "ok" => told[m] = "ok" \/ Kept(m) \/ "DISCARD" \in asked[m]
    PROVE  IInv'
<1>1. /\ NoProc \notin Proc /\ NoMsg \notin Mail /\ Mail \subseteq Msg /\ NoFile \notin File
  BY Numbers DEF File, NoFile
<1>2. /\ drop' = drop /\ pick' = pick /\ file' = file /\ asked' = asked /\ bounced' = bounced
      /\ sess'.cleanup = NoProc /\ sess'.sender = NoMsg
  BY DEF pickupVars, Blank
<1>3. Grows
  BY <1>2 DEF Grows
<1>4. PICK p \in Proc \cup {NoProc} : p = sess.cleanup
  BY SessFacts
<1>5. /\ proc' \in [Proc -> ProcType]
      /\ \A r \in Proc : r # p => proc'[r] = proc[r]
      /\ p \in Proc => ProcOK(p)'
      /\ p \in Proc => \/ proc'[p].phase = proc[p].phase /\ proc'[p].id = proc[p].id
                       \/ /\ proc[p].phase \notin Running
                          /\ proc'[p].phase = "idle" /\ proc'[p].id = NoFile
      /\ \A i \in File, m \in Mail : Carries(i, m)' => Carries(i, m)
  <2>1. CASE p = NoProc
    <3>1. proc' = proc
      BY <1>4, <2>1
    <3>2. \A i \in File, m \in Mail : Carries(i, m)' => Carries(i, m)
      BY <1>2, <3>1 DEF Carries
    <3> QED
      BY <1>1, <2>1, <3>1, <3>2, SessFacts
  <2>2. CASE p \in Proc
    <3>1. PICK U \in Plan : Extends(p, P, U)
      BY <1>1, <1>4, <2>2
    <3>2. proc' = mail_stream_cleanup(P, p) /\ p # sess'.cleanup /\ p # pick'.p
      BY <1>1, <1>2, <1>4, <2>2, SessFacts
    <3> QED
      BY <1>2, <1>3, <2>2, <3>1, <3>2, ClosedProc
  <2> QED
    BY <2>1, <2>2
<1>6. TypeOK'
  <2>1. file \in [File -> FileType] /\ asked \in [Msg -> SUBSET ActionFlag] /\ bounced \subseteq Msg
        /\ PickupTypeOK
    BY SessFacts
  <2>2. File' = File /\ sess' \in SessType
    BY DEF File, Blank
  <2> QED
    BY <1>2, <1>5, <2>1, <2>2 DEF TypeOK, CleanupTypeOK, SmtpdTypeOK, PickupTypeOK
<1>7. SessOK'
  <2>1. /\ sess'.rcpt_count = 0 /\ sess'.saved_flags = {} /\ sess'.err = {} /\ sess'.post = "NONE"
        /\ sess'.bdat_state \in {"NONE", "ERROR"}
        /\ sess'.phase = "off" => sess' = NoSession
        /\ sess'.phase \in {"off", "cmd"}
    BY DEF Blank, NoSession
  <2> QED
    BY <1>2, <2>1 DEF SessOK, StreamMatches
<1>8. \A m \in Mail : m # sess.sender \/ m > left'.mail
  BY <1>1, SessFacts
<1>9. /\ p = NoProc \/ p # pick.p
      /\ sess'.cleanup \in {p, NoProc} \/ UNCHANGED <<sess, sent, asked>>
      /\ \A i \in File : i # NoFile => file'[i] = file[i]
      /\ left'.mail <= left.mail
      /\ \A m \in Mail : asked'[m] = asked[m] \/ ~sent[m].end
      /\ \A i \in File, m \in Mail : Carries(i, m)' /\ m = sess'.sender => sess'.cleanup # NoProc
      /\ \A m \in Mail : \/ sent'[m] = sent[m] /\ asked'[m] = asked[m] /\ told'[m] = told[m]
                         \/ m > left'.mail
      /\ UNCHANGED <<bounced, pickupVars>>
  BY <1>1, <1>2, <1>4, <1>8, SessFacts
<1>10. PICK j \in File \cup {NoFile} : j = NoFile
  OBVIOUS
<1> QED
  BY <1>1, <1>3, <1>5, <1>6, <1>7, <1>9, <1>10, SmtpdFrame

\* Nothing happens.
LEMMA Stutters ==
    ASSUME IInv, UNCHANGED vars
    PROVE  IInv'
<1>1. /\ proc' = proc /\ file' = file /\ asked' = asked /\ bounced' = bounced /\ left' = left
      /\ sess' = sess /\ told' = told /\ sent' = sent /\ drop' = drop /\ pick' = pick
  BY DEF vars, cleanupVars, smtpdVars, pickupVars
<1>2. TypeOK'
  BY <1>1 DEF IInv, TypeOK, CleanupTypeOK, SmtpdTypeOK, PickupTypeOK, File
<1>3. SessOK'
  <2>1. SessOK
    BY DEF IInv
  <2>2. Serves(sess.cleanup, sess.sender)' <=> Serves(sess.cleanup, sess.sender)
    BY <1>1 DEF Serves
  <2>3. StreamMatches' <=> StreamMatches
    BY <1>1 DEF StreamMatches
  <2> QED
    BY <1>1, <2>1, <2>2, <2>3 DEF SessOK
<1>4. Grows /\ UNCHANGED <<bounced, pickupVars>>
  BY <1>1 DEF Grows, pickupVars
<1>5. \A i \in File, m \in Mail : Carries(i, m)' => Carries(i, m)
  BY <1>1 DEF Carries
<1>6. \A i \in File, m \in Mail : Carries(i, m)' /\ m = sess'.sender => sess'.cleanup # NoProc
  BY <1>1, <1>5, SessFacts DEF OneFile
<1>7. PICK p \in Proc \cup {NoProc}, j \in File \cup {NoFile} : p = NoProc /\ j = NoFile
  OBVIOUS
<1>8. p \notin Proc /\ j \notin File
  BY <1>7, Numbers DEF File, NoFile
<1>9. left'.mail <= left.mail /\ left'.rcpt = left.rcpt
  BY <1>1, SessFacts
<1>10. UNCHANGED <<sess, sent, asked>>
  BY <1>1
<1> QED
  BY <1>1, <1>2, <1>3, <1>4, <1>5, <1>6, <1>7, <1>8, <1>9, <1>10, SmtpdFrame

LEMMA GivenUpIs ==
    ASSUME sent \in [Mail -> Data], NEW s, NEW S, S = GivenUp(s)
    PROVE  /\ S \in [Mail -> Data]
           /\ \A m \in Mail : S[m] = sent[m] \/ (m = s.sender /\ ~sent[m].end)
BY EmptyTypes DEF GivenUp

\* The transaction is given up: rset_cmd, the end of the session.
LEMMA GivesUp ==
    ASSUME IInv, UNCHANGED <<file, asked, bounced, pickupVars, told>>, Blank(sess'),
           proc' = Closed(sess, proc), sent' = GivenUp(sess),
           left' \in SetupType, left'.mail = left.mail, left'.rcpt = left.rcpt
    PROVE  IInv'
<1>1. /\ told \in [Mail -> {"nothing", "ok", "error"}] /\ sent \in [Mail -> Data]
      /\ sess.cleanup # NoProc => sess.cleanup \in Proc
  BY SessFacts
<1>2. sess.cleanup = NoProc => proc' = proc
  BY DEF Closed
<1>3. sess.cleanup # NoProc => /\ proc' = mail_stream_cleanup(proc, sess.cleanup)
                               /\ \E U \in Plan : Extends(sess.cleanup, proc, U)
  BY <1>1, SessionPlan DEF Closed
<1>4. /\ sent' \in [Mail -> Data]
      /\ \A m \in Mail : sent'[m] = sent[m] \/ (m = sess.sender /\ ~sent[m].end)
  BY <1>1, GivenUpIs
<1>5. \A m \in Mail : told'[m] = "ok" => told[m] = "ok" \/ Kept(m) \/ "DISCARD" \in asked[m]
  OBVIOUS
<1>6. /\ told' \in [Mail -> {"nothing", "ok", "error"}]
      /\ \A m \in Mail : told'[m] = told[m] \/ m = sess.sender
      /\ UNCHANGED <<file, asked, bounced, pickupVars>>
  BY <1>1
<1> QED
  BY <1>2, <1>3, <1>4, <1>5, <1>6, SessionEnds

LEMMA ResetIs ==
    ASSUME NEW s \in SessType, NEW t, t = rcpt_reset(mail_reset(s))
    PROVE  /\ t \in SessType /\ t.phase = s.phase /\ t.post = s.post
           /\ t.sender = NoMsg /\ t.cleanup = NoProc /\ t.rcpt_count = 0 /\ t.saved_flags = {}
           /\ t.err = {} /\ t.bdat_state = "NONE"
BY DEF rcpt_reset, mail_reset, SessType, NoMsg

LEMMA NoSessionIs == NoSession \in SessType /\ Blank(NoSession)
<1>1. NoSession \in SessType
  BY DEF NoSession, SessType
<1> QED
  BY <1>1 DEF Blank, NoSession

\* RSET, HELO, EHLO, STARTTLS.
LEMMA RsetStep ==
    ASSUME IInv, rset_cmd, UNCHANGED pickupVars
    PROVE  IInv'
<1>1. sess \in SessType /\ sess.post = "NONE" /\ left \in SetupType
  BY SessFacts DEF SessOK
<1>2. Blank(sess')
  BY <1>1, ResetIs DEF rset_cmd, AtPrompt, Blank
<1>3. left' \in SetupType /\ left'.mail = left.mail /\ left'.rcpt = left.rcpt
  BY <1>1 DEF rset_cmd
<1> QED
  BY <1>2, <1>3, GivesUp DEF rset_cmd

LEMMA EndSessionStep ==
    ASSUME IInv, EndSession, UNCHANGED pickupVars
    PROVE  IInv'
<1>1. Blank(sess')
  BY NoSessionIs DEF EndSession
<1>2. left' \in SetupType /\ left'.mail = left.mail /\ left'.rcpt = left.rcpt
  BY SessFacts DEF EndSession
<1> QED
  BY <1>1, <1>2, GivesUp DEF EndSession

LEMMA SmtpdDiesStep ==
    ASSUME IInv, SmtpdDies, UNCHANGED pickupVars
    PROVE  IInv'
<1>1. Blank(sess')
  BY NoSessionIs DEF SmtpdDies
<1>2. left' \in SetupType /\ left'.mail = left.mail /\ left'.rcpt = left.rcpt
  <2>1. Spend("fault") /\ left \in SetupType
    BY SessFacts DEF SmtpdDies
  <2> QED
    BY <2>1, LeftFacts
<1> QED
  BY <1>1, <1>2, GivesUp DEF SmtpdDies

LEMMA ConnectStep ==
    ASSUME IInv, Connect, UNCHANGED pickupVars
    PROVE  IInv'
<1>1. /\ sess = NoSession /\ left \in SetupType /\ sent \in [Mail -> Data]
      /\ told \in [Mail -> {"nothing", "ok", "error"}]
  BY SessFacts DEF Connect, SessOK
<1>2. Blank(sess')
  BY NoSessionIs DEF Connect, Blank, NoSession, SessType
<1>3. sess.cleanup = NoProc
  BY <1>1 DEF NoSession
<1>4. UNCHANGED <<file, asked, bounced, pickupVars>> /\ proc' = proc /\ left' = left
      /\ sent' = sent /\ told' = told
  BY DEF Connect
<1> QED
  BY <1>1, <1>2, <1>3, <1>4, SessionEnds

\* What a client that is told "no error" may rely on.
LEMMA AnswerTrue ==
    ASSUME IInv, NEW p \in Proc, NEW m \in Msg, Serves(p, m),
           proc[p].phase = "answered", proc[p].errs = {}
    PROVE  Kept(m) \/ "DISCARD" \in asked[m] \/ m \in bounced
<1>1. proc[p].phase \in Running \cup {"answered"}
  OBVIOUS
<1>2. /\ ProcOK(p) /\ proc[p].id \in File /\ FileOK(proc[p].id) /\ OwnFile
  BY <1>1, ProcFacts DEF IInv
<1>3. CASE "DISCARD" \in proc[p].flags
  BY <1>3 DEF Serves
<1>4. CASE "DISCARD" \notin proc[p].flags
  <2>1. PICK i \in File : i = proc[p].id
    BY <1>2
  <2>2. Good(file[i]) /\ FileOK(i) /\ file[i].data.from \in {NoMsg, m}
    BY <1>2, <1>4, <2>1 DEF ProcOK, Commits, Serves
  <2>3. Complete(file[i])
    BY <2>2 DEF FileOK, Good
  <2>4. file[i].data = Whole(m)
    BY <2>2, <2>3 DEF Complete
  <2>5. \A r \in Proc : proc[r].id = i => proc[r].phase \in {"answer", "answered"}
    BY <1>2, <2>1 DEF OwnFile
  <2> QED
    BY <2>2, <2>4, <2>5 DEF Kept
<1> QED
  BY <1>3, <1>4

\* A reply that ends a transaction.
LEMMA ReplyStep ==
    ASSUME IInv, NEW s \in SessType, NEW P, NEW err, Reply(s, P, err),
           s.cleanup = sess.cleanup, s.sender = sess.sender,
           sess.cleanup # NoProc => \E U \in Plan : Extends(sess.cleanup, P, U),
           sess.cleanup = NoProc => P = proc,
           err = {} /\ s.sender # NoMsg => Kept(s.sender) \/ "DISCARD" \in asked[s.sender],
           UNCHANGED <<file, asked, bounced, left, pickupVars>>,
           sent' \in [Mail -> Data],
           \A m \in Mail : sent'[m] = sent[m] \/ (m = sess.sender /\ ~sent[m].end)
    PROVE  IInv'
<1>1. /\ told \in [Mail -> {"nothing", "ok", "error"}] /\ left \in SetupType
      /\ sess.sender # NoMsg => sess.sender \in Mail
  BY SessFacts
<1>2. Blank(sess')
  <2>1. PICK t : t = rcpt_reset(mail_reset(s))
    OBVIOUS
  <2>2. sess' = [t EXCEPT !.phase = "cmd", !.post = "NONE", !.bdat_state = s.post]
    BY <2>1 DEF Reply
  <2>3. /\ t \in SessType /\ t.sender = NoMsg /\ t.cleanup = NoProc /\ t.rcpt_count = 0
        /\ t.saved_flags = {} /\ t.err = {} /\ s.post \in {"NONE", "ERROR"}
    BY <2>1, ResetIs DEF SessType
  <2> QED
    BY <2>2, <2>3 DEF Blank, SessType
<1>3. sess.cleanup = NoProc => proc' = proc
  BY DEF Reply, Closed
<1>4. sess.cleanup # NoProc => /\ proc' = mail_stream_cleanup(P, sess.cleanup)
                               /\ \E U \in Plan : Extends(sess.cleanup, P, U)
  BY DEF Reply, Closed
<1>5. /\ told' \in [Mail -> {"nothing", "ok", "error"}]
      /\ \A m \in Mail : told'[m] = told[m] \/ m = sess.sender
      /\ \A m \in Mail : told'[m] = "ok" => told[m] = "ok" \/ Kept(m) \/ "DISCARD" \in asked[m]
  <2>1. CASE s.sender = NoMsg
    BY <1>1, <2>1 DEF Reply
  <2>2. CASE s.sender # NoMsg
    <3>1. told' = [told EXCEPT ![s.sender] = IF err = {} THEN "ok" ELSE "error"]
      BY <2>2 DEF Reply
    <3> QED
      BY <1>1, <2>2, <3>1
  <2> QED
    BY <2>1, <2>2
<1>6. /\ left' \in SetupType /\ left'.mail = left.mail /\ left'.rcpt = left.rcpt
      /\ UNCHANGED <<file, asked, bounced, pickupVars>>
  BY <1>1
<1> QED
  BY <1>2, <1>3, <1>4, <1>5, <1>6, SessionEnds

\* The status of cleanup is passed on to the client.
LEMMA SmtpdFinishStep ==
    ASSUME IInv, SmtpdFinish, UNCHANGED pickupVars
    PROVE  IInv'
<1>1. sess.phase = "wait" /\ Answered(sess.cleanup)
      /\ Reply(sess, proc, mail_stream_finish_ipc(sess.cleanup))
      /\ UNCHANGED <<file, asked, bounced, left, pickupVars>> /\ sent' = sent
  BY DEF SmtpdFinish
<1>2. /\ sess \in SessType /\ sent \in [Mail -> Data]
      /\ sess.cleanup # NoProc /\ sess.cleanup \in Proc /\ sess.sender \in Mail
      /\ Serves(sess.cleanup, sess.sender)
  BY <1>1, SessFacts DEF SessOK, StreamMatches
<1>3. \E U \in Plan : Extends(sess.cleanup, proc, U)
  BY <1>2, SessionPlan
<1>4. ASSUME mail_stream_finish_ipc(sess.cleanup) = {}
      PROVE  Kept(sess.sender) \/ "DISCARD" \in asked[sess.sender]
  <2>1. proc[sess.cleanup].phase = "answered" /\ proc[sess.cleanup].errs = {}
    BY <1>4 DEF mail_stream_finish_ipc
  <2>2. sess.sender \in Msg /\ sess.sender \notin bounced
    BY <1>2, Numbers, SessFacts DEF MailOK
  <2> QED
    BY <1>2, <2>1, <2>2, AnswerTrue
<1> QED
  BY <1>1, <1>2, <1>3, <1>4, ReplyStep

\* The session in a transaction, apart from its process.
SessData ==
    /\ sess.err = {} /\ sess.post = "NONE" /\ sess.phase # "off"
    /\ sess.sender \in Mail /\ sess.sender > left.mail
    /\ sess.rcpt_count <= MaxRcpt
    /\ sent[sess.sender].from = sess.sender
    /\ sent[sess.sender].rcpts = FirstRcpts(sess.sender, sess.rcpt_count)
    /\ sess.saved_flags \subseteq asked[sess.sender]
    /\ sent[sess.sender].end <=> sess.phase = "wait"
    /\ sess.phase # "wait" /\ sess.bdat_state = "NONE" => sent[sess.sender].body = 0
    /\ sess.phase \in {"data", "wait"} \/ sess.bdat_state = "OK" => sess.rcpt_count > 0
    /\ sess.phase = "data" => sess.bdat_state = "NONE"
    /\ sess.phase = "wait" => sess.bdat_state # "ERROR"

LEMMA SessDataHolds ==
    ASSUME IInv, sess.sender # NoMsg
    PROVE  SessData
<1>1. sess.phase # "off"
  BY SessFacts DEF SessOK, NoSession
<1> QED
  BY <1>1, SessFacts DEF SessOK, SessData

\* The rest of the state, while the session goes on.
Continues ==
    /\ UNCHANGED <<bounced, pickupVars, told>>
    /\ sess' \in SessType /\ sent' \in [Mail -> Data]
    /\ asked' \in [Msg -> SUBSET ActionFlag]
    /\ left' \in SetupType /\ left'.mail <= left.mail /\ left'.rcpt = left.rcpt
    /\ ~sent[sess'.sender].end
    /\ \A m \in Mail : m # sess'.sender => sent'[m] = sent[m]
    /\ \A m \in Msg : m # sess'.sender => asked'[m] = asked[m]
    /\ asked[sess'.sender] \subseteq asked'[sess'.sender]

LEMMA ContinuesGrows ==
    ASSUME IInv, Continues, SessData'
    PROVE  /\ Grows
           /\ \A m \in Mail : asked'[m] = asked[m] \/ ~sent[m].end
           /\ \A m \in Mail : \/ sent'[m] = sent[m] /\ asked'[m] = asked[m] /\ told'[m] = told[m]
                              \/ m > left'.mail
           /\ \A m \in Mail : told'[m] = "ok" => told[m] = "ok" \/ Kept(m) \/ "DISCARD" \in asked[m]
<1>1. sess'.sender \in Mail /\ sess'.sender > left'.mail /\ Mail \subseteq Msg
  BY Numbers DEF SessData
<1> QED
  BY <1>1 DEF Continues, Grows

\* The session writes to the process that it has, and its plan gets to U.
LEMMA SessionGoesOn ==
    ASSUME IInv, SessData', Continues, UNCHANGED file,
           NEW p \in Proc, p = sess.cleanup, sess'.cleanup = p, sess'.sender = sess.sender,
           asked'[sess.sender] \subseteq asked[sess.sender] \cup sess'.saved_flags,
           sess.saved_flags \subseteq sess'.saved_flags,
           NEW U \in Plan, Wrote(proc, proc', p, file[proc[p].id].data, U),
           U.m = sess.sender, U.f \subseteq asked'[U.m],
           U.at = "message" => U.n > 0,
           U.at \in {"envelope", "message"} \/ U = SessPlan',
           sess'.bdat_state # "ERROR" => U = SessPlan'
    PROVE  IInv'
<1>1. /\ sess.sender \in Mail /\ Mail \subseteq Msg /\ Mail \cap Drop = {} /\ p # NoProc /\ p # pick.p
      /\ Serves(p, sess.sender) /\ NoMsg \notin Mail /\ NoFile \notin File
  BY SessFacts, Numbers DEF File, NoFile
<1>2. /\ drop' = drop /\ pick' = pick /\ file' = file /\ bounced' = bounced /\ told' = told
  BY DEF pickupVars, Continues
<1>3. /\ Grows
      /\ \A m \in Mail : asked'[m] = asked[m] \/ ~sent[m].end
      /\ \A m \in Mail : \/ sent'[m] = sent[m] /\ asked'[m] = asked[m] /\ told'[m] = told[m]
                         \/ m > left'.mail
      /\ \A m \in Mail : told'[m] = "ok" => told[m] = "ok" \/ Kept(m) \/ "DISCARD" \in asked[m]
  BY ContinuesGrows
<1>4. PICK q : q = proc'[p]
  OBVIOUS
<1>5. proc[p] \in ProcType /\ proc \in [Proc -> ProcType]
  BY SessFacts
<1>6. /\ Alike(q, proc[p]) /\ q.eof = proc[p].eof
      /\ q \in ProcType /\ q.phase = proc[p].phase /\ q.id = proc[p].id /\ q.flags = proc[p].flags
      /\ proc[p].phase \notin Running => q = proc[p]
      /\ proc[p].phase = "read" => Reading(q, file[proc[p].id].data, U)
      /\ \A r \in Proc : r # p => proc'[r] = proc[r]
      /\ proc' \in [Proc -> ProcType]
  BY <1>4, <1>5, AlikeIs DEF Wrote
<1>7. TypeOK'
  <2>1. file \in [File -> FileType] /\ bounced \subseteq Msg /\ PickupTypeOK
        /\ told \in [Mail -> {"nothing", "ok", "error"}]
    BY SessFacts
  <2>2. File' = File
    BY DEF File
  <2> QED
    BY <1>2, <1>6, <2>1, <2>2 DEF Continues, TypeOK, CleanupTypeOK, SmtpdTypeOK, PickupTypeOK
<1>8. Serves(p, sess.sender)'
  <2>1. "DISCARD" \in q.flags => "DISCARD" \in asked'[sess.sender] \/ sess.sender \in bounced
    BY <1>1, <1>6 DEF Serves, Continues
  <2>2. ~q.eof /\ q.phase # "idle"
    BY <1>1, <1>6 DEF Serves
  <2>3. q.phase \in Running \cup {"answered"} =>
              /\ file'[q.id].data.from \in {NoMsg, sess.sender}
              /\ sess.sender \in Drop <=> "BOUNCE" \in q.flags
    BY <1>1, <1>2, <1>6 DEF Serves
  <2> QED
    BY <1>2, <1>4, <2>1, <2>2, <2>3 DEF Serves
<1>9. SessOK'
  <2>1. Serves(sess.cleanup, sess.sender)'
    BY <1>8
  <2>2. StreamMatches'
    <3>1. ~proc'[p].eof
      BY <1>8 DEF Serves
    <3> QED
      BY <1>1, <1>2, <3>1 DEF StreamMatches
  <2> QED
    BY <1>1, <2>1, <2>2 DEF SessOK, SessData
<1>10. ASSUME proc[p].phase = "read"
       PROVE  /\ PlanOf(p, U)'
              /\ \E T \in Plan : PlanOf(p, T) /\ U.m = T.m /\ (T.at # "none" \/ T.m \in Drop)
  <2>1. PICK T \in Plan : PlanOf(p, T) /\ T.m = sess.sender /\ T.at # "none"
    BY <1>10, SessionPlan
  <2>2. /\ "BOUNCE" \in proc[p].flags <=> U.m \in Drop
        /\ asked[U.m] \subseteq proc[p].flags \cup sess.saved_flags
    BY <2>1 DEF PlanOf
  <2>3. asked'[U.m] \subseteq proc[p].flags \cup sess'.saved_flags
    BY <2>2
  <2>4. U.at \in {"envelope", "message", "none", "extracted"} /\ (U.m \in Drop => U.f = {})
    BY <1>1, PlanTypes
  <2>5. ASSUME U.at = "extracted"
        PROVE  U.n > 0 /\ Full(U) = Whole(U.m)' /\ U.f = sess'.saved_flags
    <3>1. U = SessPlan'
      BY <2>5
    <3>2. sess'.phase = "wait"
      BY <2>5, <3>1 DEF SessPlan
    <3>3. /\ U.n = sess'.rcpt_count /\ U.f = sess'.saved_flags /\ U.k = sent'[sess.sender].body
      BY <3>1, <3>2 DEF SessPlan
    <3>4. /\ sent'[sess.sender] \in Data
          /\ sent'[sess.sender].from = sess.sender
          /\ sent'[sess.sender].rcpts = FirstRcpts(sess.sender, U.n)
          /\ sent'[sess.sender].end
      BY <1>1, <3>2, <3>3 DEF SessData, Continues
    <3>5. sent'[sess.sender] = Full(U)
      BY <3>3, <3>4 DEF Full, Data
    <3> QED
      BY <1>1, <3>2, <3>3, <3>5 DEF SessData, Whole
  <2>6. Reading(proc[p], file[proc[p].id].data, U)'
    BY <1>2, <1>4, <1>6, <1>10
  <2>7. /\ U.m = sess'.sender
        /\ U.at \in {"envelope", "message"} \/ U = SessPlan'
        /\ sess'.bdat_state # "ERROR" => U = SessPlan'
    OBVIOUS
  <2>8. p # pick'.p
    BY <1>1, <1>2
  <2>9. "BOUNCE" \in proc'[p].flags <=> U.m \in Drop
    BY <1>4, <1>6, <2>2
  <2>10. asked'[U.m] \subseteq proc'[p].flags \cup sess'.saved_flags
    BY <1>4, <1>6, <2>3
  <2>11. PlanOf(p, U)'
    BY <2>4, <2>5, <2>6, <2>7, <2>8, <2>9, <2>10 DEF PlanOf
  <2> QED
    BY <2>1, <2>11
<1>11. ProcOK(p)'
  <2>1. proc[p].phase = "read" => \E T \in Plan : PlanOf(p, T)'
    BY <1>10
  <2>2. Alike(proc'[p], proc[p])
    BY <1>4, <1>6
  <2> QED
    BY <1>2, <1>3, <2>1, <2>2, ClientProc
<1>12. \A i \in File, m \in Mail : Carries(i, m)' => Carries(i, m)
  <2>1. ASSUME proc'[p].phase = "read"
        PROVE  /\ proc[p].phase = "read" /\ proc'[p].id = proc[p].id /\ proc'[p] \in ProcType
               /\ \E T, V \in Plan :
                    /\ PlanOf(p, T) /\ V.m = T.m /\ (T.at # "none" \/ T.m \in Drop)
                    /\ Reading(proc'[p], file[proc[p].id].data, V)
    BY <1>4, <1>6, <1>10, <2>1
  <2> QED
    BY <1>2, <1>6, <2>1, SameCarries
<1>13. \A i \in File, m \in Mail : Carries(i, m)' /\ m = sess'.sender => sess'.cleanup # NoProc
  BY <1>1
<1>14. PICK j \in File \cup {NoFile} : j = NoFile
  OBVIOUS
<1>15. proc'[p].phase = proc[p].phase /\ proc'[p].id = proc[p].id
  BY <1>4, <1>6
<1>16. left'.mail <= left.mail /\ left'.rcpt = left.rcpt /\ UNCHANGED <<bounced, pickupVars>>
  BY DEF Continues
<1> QED
  BY <1>1, <1>2, <1>3, <1>6, <1>7, <1>9, <1>11, <1>12, <1>13, <1>14, <1>15, <1>16, SmtpdFrame

\* The session has no process, and does without.
LEMMA SessionStands ==
    ASSUME IInv, SessData', Continues, UNCHANGED <<proc, file>>,
           sess.cleanup = NoProc, sess'.cleanup = NoProc,
           asked'[sess'.sender] \subseteq sess'.saved_flags,
           sess'.rcpt_count = 0, sess'.phase = "cmd",
           sess'.sender = sess.sender \/ sess'.sender <= left.mail
    PROVE  IInv'
<1>1. /\ Mail \subseteq Msg /\ NoMsg \notin Mail /\ NoFile \notin File /\ NoProc \notin Proc
      /\ sess'.sender \in Mail
  BY Numbers DEF File, NoFile, SessData
<1>2. /\ drop' = drop /\ pick' = pick /\ file' = file /\ proc' = proc /\ bounced' = bounced
      /\ told' = told
  BY DEF pickupVars, Continues
<1>3. /\ Grows
      /\ \A m \in Mail : asked'[m] = asked[m] \/ ~sent[m].end
      /\ \A m \in Mail : \/ sent'[m] = sent[m] /\ asked'[m] = asked[m] /\ told'[m] = told[m]
                         \/ m > left'.mail
      /\ \A m \in Mail : told'[m] = "ok" => told[m] = "ok" \/ Kept(m) \/ "DISCARD" \in asked[m]
  BY ContinuesGrows
<1>4. TypeOK'
  <2>1. file \in [File -> FileType] /\ bounced \subseteq Msg /\ PickupTypeOK
        /\ told \in [Mail -> {"nothing", "ok", "error"}] /\ proc \in [Proc -> ProcType]
    BY SessFacts
  <2>2. File' = File
    BY DEF File
  <2> QED
    BY <1>2, <2>1, <2>2 DEF Continues, TypeOK, CleanupTypeOK, SmtpdTypeOK, PickupTypeOK
<1>5. SessOK'
  <2>1. StreamMatches'
    BY <1>1 DEF StreamMatches, SessData
  <2> QED
    BY <1>1, <2>1 DEF SessOK, SessData
<1>6. \A i \in File, m \in Mail : Carries(i, m)' => Carries(i, m)
  BY <1>2 DEF Carries
<1>7. \A i \in File, m \in Mail : Carries(i, m)' /\ m = sess'.sender => sess'.cleanup # NoProc
  <2> SUFFICES ASSUME NEW i \in File, NEW m \in Mail, Carries(i, m), m = sess'.sender
               PROVE  FALSE
    BY <1>6
  <2>1. m > left.mail /\ (m = sess.sender => sess.cleanup # NoProc)
    BY SessFacts DEF OneFile
  <2>2. m \in Nat /\ left.mail \in Nat
    BY SessFacts, Numbers
  <2> QED
    BY <2>1, <2>2
<1>8. PICK p \in Proc \cup {NoProc}, j \in File \cup {NoFile} : p = NoProc /\ j = NoFile
  OBVIOUS
<1>9. left'.mail <= left.mail /\ left'.rcpt = left.rcpt /\ UNCHANGED <<bounced, pickupVars>>
  BY DEF Continues
<1> QED
  BY <1>1, <1>2, <1>3, <1>4, <1>5, <1>6, <1>7, <1>8, <1>9, SmtpdFrame

\* The session connects to cleanup and writes the envelope so far.
LEMMA SessionOpens ==
    ASSUME IInv, SessData', Continues, CanOpen,
           sess.cleanup = NoProc, sess'.cleanup = AnyProc,
           file' = [file EXCEPT ![NextFile] = NewFile],
           NEW B, B = [proc EXCEPT ![AnyProc] = Opened({})],
           NEW U \in Plan, U = SessPlan', U.at = "envelope",
           Wrote(B, proc', AnyProc, NoData, U),
           asked'[sess'.sender] \subseteq sess'.saved_flags,
           sess'.phase = "cmd",
           sess'.sender = sess.sender \/ sess'.sender <= left.mail
    PROVE  IInv'
<1>1. /\ Mail \subseteq Msg /\ Mail \cap Drop = {} /\ NoMsg \notin Mail /\ NoFile \notin File
      /\ NoProc \notin Proc /\ sess'.sender \in Mail
  BY Numbers DEF File, NoFile, SessData
<1>2. PICK p \in Proc, j \in File :
        /\ p = AnyProc /\ j = NextFile
        /\ proc[p] = IdleProc /\ proc[p].phase = "idle" /\ file[j].loc = "none"
        /\ p # pick.p /\ p # NoProc
        /\ \A r \in Proc : proc[r].id # j
  BY OpeningFacts
<1>3. /\ drop' = drop /\ pick' = pick /\ bounced' = bounced /\ told' = told
  BY DEF pickupVars, Continues
<1>4. /\ Grows
      /\ \A m \in Mail : asked'[m] = asked[m] \/ ~sent[m].end
      /\ \A m \in Mail : \/ sent'[m] = sent[m] /\ asked'[m] = asked[m] /\ told'[m] = told[m]
                         \/ m > left'.mail
      /\ \A m \in Mail : told'[m] = "ok" => told[m] = "ok" \/ Kept(m) \/ "DISCARD" \in asked[m]
  BY ContinuesGrows
<1>5. /\ Opened({}).phase = "read" /\ Opened({}).id = j /\ Opened({}).pipe = <<>>
      /\ Opened({}).eof = FALSE /\ Opened({}).errs = {} /\ Opened({}).flags = {}
  BY <1>2 DEF Opened, IdleProc
<1>6. PICK q : q = proc'[p]
  OBVIOUS
<1>7. proc \in [Proc -> ProcType] /\ file \in [File -> FileType]
  BY SessFacts
<1>8. B \in [Proc -> ProcType] /\ B[p] = Opened({}) /\ \A r \in Proc : r # p => B[r] = proc[r]
  BY <1>2, <1>7 DEF Wrote
<1>9. /\ q \in ProcType /\ q.phase = "read" /\ q.id = j /\ ~q.eof /\ q.errs = {} /\ q.flags = {}
      /\ Reading(q, NoData, U)
      /\ \A r \in Proc : r # p => proc'[r] = proc[r]
      /\ proc' \in [Proc -> ProcType]
  <2>1. Alike(q, B[p]) /\ q.eof = B[p].eof /\ Reading(q, NoData, U)
    BY <1>2, <1>5, <1>6, <1>8 DEF Wrote
  <2>2. B[p] \in ProcType
    BY <1>8
  <2>3. /\ q \in ProcType /\ q.phase = "read" /\ q.id = j /\ q.errs = {} /\ q.flags = {}
    BY <1>5, <1>8, <2>1, <2>2, AlikeIs
  <2>4. ~q.eof
    BY <1>5, <1>8, <2>1
  <2>5. proc' \in [Proc -> ProcType] /\ \A r \in Proc : r # p => proc'[r] = proc[r]
    BY <1>2, <1>8 DEF Wrote
  <2> QED
    BY <2>1, <2>3, <2>4, <2>5
<1>10. /\ file'[j] = NewFile /\ \A i \in File : i # j => file'[i] = file[i]
       /\ file' \in [File -> FileType]
  BY <1>2, <1>7, EmptyTypes
<1>11. /\ NewFile.data = NoData /\ NewFile.loc = "incoming" /\ ~NewFile.ready /\ ~NewFile.torn
       /\ NewFile.asked = {} /\ NoData.from = NoMsg
  BY DEF NewFile, NoData
<1>12. TypeOK'
  <2>1. bounced \subseteq Msg /\ PickupTypeOK
        /\ told \in [Mail -> {"nothing", "ok", "error"}]
    BY SessFacts
  <2>2. File' = File
    BY DEF File
  <2> QED
    BY <1>3, <1>9, <1>10, <2>1, <2>2 DEF Continues, TypeOK, CleanupTypeOK, SmtpdTypeOK, PickupTypeOK
<1>13. PICK m0 \in Mail : m0 = sess'.sender /\ Serves(p, m0)'
  <2>1. PICK m0 \in Mail : m0 = sess'.sender
    BY <1>1
  <2>2. Serves(p, m0)'
    BY <1>1, <1>6, <1>9, <1>10, <1>11 DEF Serves
  <2> QED
    BY <2>1, <2>2
<1>14. SessOK'
  <2>1. Serves(sess.cleanup, sess.sender)'
    BY <1>2, <1>13
  <2>2. StreamMatches'
    <3>1. ~proc'[p].eof
      BY <1>6, <1>9
    <3> QED
      BY <1>1, <1>2, <1>3, <3>1 DEF StreamMatches
  <2>3. sess'.cleanup # NoProc
    BY <1>2
  <2> QED
    BY <1>1, <2>1, <2>2, <2>3 DEF SessOK, SessData
<1>15. ProcOK(p)'
  <2>1. U.m = sess'.sender
    BY DEF SessPlan
  <2>2. PlanOf(p, U)'
    <3>1. Reading(proc[p], file[proc[p].id].data, U)'
      BY <1>6, <1>9, <1>10, <1>11
    <3>2. "BOUNCE" \notin proc'[p].flags /\ U.m \notin Drop
      BY <1>1, <1>6, <1>9, <2>1
    <3>3. U.f = {}
      BY DEF SessPlan
    <3>4. asked'[U.m] \subseteq proc'[p].flags \cup sess'.saved_flags
      BY <2>1
    <3>5. p # pick'.p
      BY <1>2, <1>3
    <3> QED
      BY <2>1, <3>1, <3>2, <3>3, <3>4, <3>5 DEF PlanOf
  <2>3. OutOk(proc[p])'
    BY <1>6, <1>9 DEF OutOk
  <2>4. /\ proc'[p].phase = "read" /\ proc'[p].id = j /\ proc'[p].errs = {} /\ proc'[p].flags = {}
        /\ file'[j] = NewFile
    BY <1>6, <1>9, <1>10
  <2> QED
    BY <1>11, <2>2, <2>3, <2>4 DEF ProcOK, Running
<1>16. ASSUME NEW k \in File
       PROVE  ~Carries(k, sess'.sender)
  <2> SUFFICES ASSUME Carries(k, sess'.sender)
               PROVE  FALSE
    OBVIOUS
  <2>1. sess'.sender > left.mail /\ (sess'.sender = sess.sender => sess.cleanup # NoProc)
    BY <1>1, SessFacts DEF OneFile
  <2>2. sess'.sender \in Nat /\ left.mail \in Nat
    BY <1>1, SessFacts, Numbers
  <2> QED
    BY <2>1, <2>2
<1>17. ASSUME NEW i \in File, NEW m \in Mail, Carries(i, m)'
       PROVE  Carries(i, m) \/ (i = j /\ m = sess'.sender)
  <2>1. m # NoMsg
    BY <1>1
  <2>2. file'[i].data.from = m => Carries(i, m)
    BY <1>10, <1>11, <2>1 DEF Carries
  <2>3. ASSUME NEW r \in Proc, proc'[r].phase = "read", proc'[r].id = i, proc'[r].pipe # <<>>,
               Head(proc'[r].pipe) = RecOf("FROM", m)
        PROVE  Carries(i, m) \/ (i = j /\ m = sess'.sender)
    <3>1. CASE r # p
      BY <1>9, <2>3, <3>1 DEF Carries
    <3>2. CASE r = p
      <4>1. i = j
        BY <1>6, <1>9, <2>3, <3>2
      <4>2. q.pipe # <<>> /\ Head(q.pipe).type = "FROM" /\ Head(q.pipe).val = m
        BY <1>6, <2>3, <3>2 DEF RecOf
      <4>3. U.m = m
        BY <1>9, <4>2, ReadingCarries
      <4> QED
        BY <4>1, <4>3 DEF SessPlan
    <3> QED
      BY <3>1, <3>2
  <2> QED
    BY <1>17, <2>2, <2>3 DEF Carries
<1>18. /\ \A i \in File, m \in Mail : Carries(i, m)' =>
               \/ Carries(i, m)
               \/ i = j /\ m > left'.mail /\ \A k \in File : ~Carries(k, m)
       /\ \A i \in File, m \in Mail : Carries(i, m)' /\ m = sess'.sender => sess'.cleanup # NoProc
  <2>1. sess'.sender > left'.mail /\ sess'.cleanup # NoProc
    BY <1>2 DEF SessData
  <2> QED
    BY <1>16, <1>17, <2>1
<1>19. left'.mail <= left.mail /\ left'.rcpt = left.rcpt /\ UNCHANGED <<bounced, pickupVars>>
  BY DEF Continues
<1>20. proc'[p].phase = "read" /\ proc'[p].id = j /\ proc[p].phase = "idle" /\ j # NoFile
  BY <1>1, <1>2, <1>6, <1>9
<1> QED
  BY <1>2, <1>4, <1>9, <1>10, <1>12, <1>14, <1>15, <1>18, <1>19, <1>20, SmtpdFrame

\* Recipients are numbered in the order in which they are accepted.
LEMMA RcptNumber ==
    ASSUME NEW m, NEW n \in Nat
    PROVE  Cardinality(FirstRcpts(m, n)) = n
<1> DEFINE f == [i \in 1 .. n |-> <<m, i>>]
<1>1. IsFiniteSet(1 .. n) /\ Cardinality(1 .. n) = n
  <2>1. IsFiniteSet(1 .. n) /\ Cardinality(1 .. n) = IF 1 > n THEN 0 ELSE n - 1 + 1
    BY FS_Interval
  <2> QED
    BY <2>1
<1>2. f \in [1 .. n -> FirstRcpts(m, n)]
  BY DEF FirstRcpts
<1>3. \A i, j \in 1 .. n : f[i] = f[j] => i = j
  OBVIOUS
<1>4. \A r \in FirstRcpts(m, n) : \E i \in 1 .. n : f[i] = r
  BY DEF FirstRcpts
<1>5. f \in Bijection(1 .. n, FirstRcpts(m, n))
  <2>1. IsInjective(f)
    BY <1>3 DEF IsInjective
  <2> HIDE DEF f
  <2> QED
    BY <1>2, <1>4, <2>1 DEF Bijection, Injection, Surjection
<1>6. ExistsBijection(1 .. n, FirstRcpts(m, n))
  BY <1>5 DEF ExistsBijection
<1> QED
  BY <1>1, <1>6, FS_Bijection

LEMMA SpendMail ==
    ASSUME left \in SetupType, Spend("mail")
    PROVE  /\ left' \in SetupType /\ left'.rcpt = left.rcpt
           /\ left.mail \in Nat /\ left.mail > 0 /\ left'.mail = left.mail - 1
<1>1. PICK n \in Nat : n = left.mail - 1 /\ left.mail > 0
  <2>1. left.mail \in Nat
    BY DEF SetupType
  <2>2. left["mail"] > 0
    BY Zenon DEF Spend
  <2> QED
    BY <2>1, <2>2
<1>2. PICK b \in BOOLEAN : b = (left.clean /\ "mail" # "fault")
  BY Zenon
<1>3. left' = [left EXCEPT !["mail"] = n, !.clean = b]
  <2>1. left' = [left EXCEPT !["mail"] = left["mail"] - 1, !.clean = (left.clean /\ "mail" # "fault")]
    BY Zenon DEF Spend
  <2>2. left["mail"] - 1 = n
    BY <1>1
  <2> QED
    BY <1>2, <2>1, <2>2, Zenon
<1> QED
  BY <1>1, <1>3 DEF SetupType

\* The stream after mail_open_stream().
LEMMA NewStreamIs ==
    ASSUME IInv, CanOpen, NEW s, s.sender \in Mail,
           NEW U \in Plan, U.at = "envelope", U.m = s.sender, U.n = 0,
           NEW B, B = [proc EXCEPT ![AnyProc] = Opened({})]
    PROVE  Wrote(B, NewStream(s), AnyProc, NoData, U)
<1>1. AnyProc \in Proc /\ NextFile \in File /\ proc \in [Proc -> ProcType]
  BY OpeningFacts, SessFacts
<1>2. PICK o : o = Opened({})
  OBVIOUS
<1>3. /\ o \in ProcType /\ o.phase = "read" /\ o.pipe = <<>> /\ o.act = "envelope"
  BY <1>1, <1>2, EmptyTypes DEF Opened, IdleProc, ProcType, Running
<1>4. B \in [Proc -> ProcType] /\ B[AnyProc] = o
  BY <1>1, <1>2, <1>3
<1>5. PICK T \in Plan : T = [U EXCEPT !.at = "none"] /\ T.at = "none" /\ T.m = U.m
  <2>1. [U EXCEPT !.at = "none"] \in Plan
    BY DEF Plan
  <2> QED
    BY <2>1 DEF Plan
<1>6. Reading(B[AnyProc], NoData, T)
  BY <1>3, <1>4, <1>5, ReadNothing
<1>7. Wrote(B, B, AnyProc, NoData, T)
  BY <1>1, <1>4, <1>6, WroteNothing
<1>8. <<RecOf("FROM", T.m)>> \in Seq(Record) /\ GoesOn(T, U, <<RecOf("FROM", T.m)>>)
  BY <1>5, WriteFrom
<1>9. Wrote(B, Write(B, AnyProc, <<RecOf("FROM", T.m)>>), AnyProc, NoData, U)
  BY <1>1, <1>7, <1>8, WroteMore
<1>10. Write(B, AnyProc, <<RecOf("FROM", T.m)>>) = NewStream(s)
  <2>1. PICK r \in Record : r = RecOf("FROM", s.sender)
    BY Numbers, RecTypes
  <2>2. <<>> \o <<r>> = <<r>>
    OBVIOUS
  <2>3. Write(B, AnyProc, <<r>>) = [B EXCEPT ![AnyProc].pipe = @ \o <<r>>]
    BY <1>3, <1>4 DEF Write, Running
  <2>4. [B EXCEPT ![AnyProc].pipe = @ \o <<r>>] = [B EXCEPT ![AnyProc] = [o EXCEPT !.pipe = <<r>>]]
    BY <1>1, <1>3, <1>4, <2>2
  <2>5. [B EXCEPT ![AnyProc] = [o EXCEPT !.pipe = <<r>>]]
          = [proc EXCEPT ![AnyProc] = [o EXCEPT !.pipe = <<r>>]]
    BY <1>1
  <2> QED
    BY <1>2, <1>5, <2>1, <2>3, <2>4, <2>5 DEF NewStream
<1> QED
  BY <1>9, <1>10

\* MAIL: out of sequence, refused, or accepted.
LEMMA MailStep ==
    ASSUME IInv, mail_cmd, UNCHANGED pickupVars
    PROVE  IInv'
<1>1. /\ sess \in SessType /\ sent \in [Mail -> Data] /\ asked \in [Msg -> SUBSET ActionFlag]
      /\ told \in [Mail -> {"nothing", "ok", "error"}] /\ left \in SetupType
      /\ SessOK /\ MailOK /\ sess.phase = "cmd" /\ Mail \subseteq Msg
      /\ sess.err = {} /\ sess.post = "NONE"
  BY SessFacts, Numbers DEF mail_cmd, AtPrompt, SessOK
<1>2. CASE Reject(sess)
  <2>1. UNCHANGED vars
    BY <1>2 DEF Reject, vars, cleanupVars, smtpdVars, pickupVars
  <2> QED
    BY <2>1, Stutters
<1>3. ASSUME ~InTransaction, ~ProcessingBdat
      PROVE  /\ sess.sender = NoMsg /\ sess.bdat_state = "NONE" /\ sess.cleanup = NoProc
             /\ sess.rcpt_count = 0 /\ sess.saved_flags = {}
  BY <1>1, <1>3 DEF InTransaction, ProcessingBdat, SessOK, StreamMatches
<1>4. CASE ~InTransaction /\ ~ProcessingBdat /\ Reject(mail_reset(sess))
  <2>1. UNCHANGED <<proc, file, asked, bounced, left, told, sent>> /\ sess' = mail_reset(sess)
    BY <1>4 DEF Reject
  <2>2. Blank(sess')
    BY <1>1, <1>3, <1>4, <2>1 DEF Blank, mail_reset, SessType, NoMsg
  <2> QED
    BY <1>1, <1>3, <1>4, <2>1, <2>2, SessionEnds
<1>5. ASSUME ~InTransaction, ~ProcessingBdat, Spend("mail"),
             NEW m, m = left.mail,
             sess' = [sess EXCEPT !.sender = m, !.cleanup = sess'.cleanup],
             sess'.cleanup \in Proc \cup {NoProc},
             sent' = [sent EXCEPT ![m].from = m],
             UNCHANGED <<asked, bounced, told>>
      PROVE  /\ SessData' /\ Continues /\ sess'.sender = m /\ m <= left.mail
             /\ asked'[sess'.sender] \subseteq sess'.saved_flags
             /\ sess'.phase = "cmd" /\ sess'.rcpt_count = 0
             /\ m \in Mail /\ sess.cleanup = NoProc /\ sess'.bdat_state = "NONE"
             /\ sent'[m].body = 0
  <2>1. /\ left' \in SetupType /\ left'.rcpt = left.rcpt
        /\ left.mail \in Nat /\ left.mail > 0 /\ left'.mail = left.mail - 1
    BY <1>1, <1>5, SpendMail
  <2>2. m \in 1 .. left.mail
    BY <1>5, <2>1
  <2>3. m \in Mail /\ m \in Msg /\ sent[m] = NoData /\ asked[m] = {}
    BY <1>1, <2>2 DEF MailOK
  <2>4. /\ sess' \in SessType /\ sess'.sender = m /\ sess'.phase = "cmd" /\ sess'.rcpt_count = 0
        /\ sess'.saved_flags = {} /\ sess'.err = {} /\ sess'.post = "NONE"
        /\ sess'.bdat_state = "NONE"
    BY <1>1, <1>3, <1>5, <2>3 DEF SessType
  <2>5. /\ sent' \in [Mail -> Data] /\ sent'[m].from = m /\ sent'[m].rcpts = {}
        /\ sent'[m].body = 0 /\ sent'[m].end = FALSE /\ sent[m].end = FALSE
        /\ \A l \in Mail : l # m => sent'[l] = sent[l]
    <3>1. PICK D : D = [NoData EXCEPT !.from = m]
      OBVIOUS
    <3>2. /\ D \in Data /\ D.from = m /\ D.rcpts = {} /\ D.body = 0 /\ D.end = FALSE
          /\ NoData.end = FALSE
      BY <2>3, <3>1 DEF NoData, Data
    <3>3. sent' = [sent EXCEPT ![m] = D]
      BY <1>5, <2>3, <3>1
    <3> QED
      BY <1>1, <2>3, <3>2, <3>3
  <2>6. FirstRcpts(m, 0) = {}
    BY FirstRcptsSteps
  <2>7. SessData'
    <3>1. m > left'.mail /\ 0 <= MaxRcpt
      BY <1>5, <2>1, <2>2, Numbers
    <3>2. /\ sess'.sender \in Mail /\ sess'.sender > left'.mail /\ sess'.rcpt_count <= MaxRcpt
          /\ sent'[sess'.sender].from = sess'.sender
          /\ sent'[sess'.sender].rcpts = FirstRcpts(sess'.sender, sess'.rcpt_count)
          /\ sent'[sess'.sender].body = 0 /\ ~sent'[sess'.sender].end
      BY <2>3, <2>4, <2>5, <2>6, <3>1
    <3> QED
      BY <2>4, <3>2 DEF SessData
  <2>8. Continues
    BY <1>1, <1>5, <2>1, <2>3, <2>4, <2>5 DEF Continues
  <2> QED
    BY <1>3, <1>5, <2>1, <2>3, <2>4, <2>5, <2>7, <2>8
<1>6. ASSUME ~InTransaction, ~ProcessingBdat, Spend("mail"),
             left.delay_open, sess' = [sess EXCEPT !.sender = left.mail],
             UNCHANGED <<proc, file>>,
             sent' = [sent EXCEPT ![left.mail].from = left.mail],
             UNCHANGED <<asked, bounced, told>>
      PROVE  IInv'
  <2>1. sess' = [sess EXCEPT !.sender = left.mail, !.cleanup = sess'.cleanup]
        /\ sess'.cleanup = NoProc
    BY <1>1, <1>3, <1>6 DEF SessType
  <2>2. /\ SessData' /\ Continues /\ sess'.sender = left.mail /\ left.mail <= left.mail
        /\ asked'[sess'.sender] \subseteq sess'.saved_flags
        /\ sess'.phase = "cmd" /\ sess'.rcpt_count = 0
        /\ sess.cleanup = NoProc
    BY <1>5, <1>6, <2>1
  <2> QED
    BY <1>6, <2>1, <2>2, SessionStands
<1>7. ASSUME ~InTransaction, ~ProcessingBdat, Spend("mail"),
             NEW t, t = [sess EXCEPT !.sender = left.mail],
             mail_open_stream(t), sess' = [t EXCEPT !.cleanup = AnyProc],
             proc' = NewStream(t),
             sent' = [sent EXCEPT ![left.mail].from = left.mail],
             UNCHANGED <<asked, bounced, told>>
      PROVE  IInv'
  <2>1. CanOpen /\ file' = [file EXCEPT ![NextFile] = NewFile] /\ AnyProc \in Proc
    BY <1>7, OpeningFacts DEF mail_open_stream
  <2>2. sess' = [sess EXCEPT !.sender = left.mail, !.cleanup = sess'.cleanup]
        /\ sess'.cleanup = AnyProc /\ t.sender = left.mail
    BY <1>1, <1>7 DEF SessType
  <2>3. /\ SessData' /\ Continues /\ sess'.sender = left.mail /\ left.mail <= left.mail
        /\ asked'[sess'.sender] \subseteq sess'.saved_flags
        /\ sess'.phase = "cmd" /\ sess'.rcpt_count = 0 /\ left.mail \in Mail
        /\ sess.cleanup = NoProc /\ sess'.bdat_state = "NONE" /\ sent'[left.mail].body = 0
    BY <1>5, <1>7, <2>1, <2>2
  <2>4. PICK U \in Plan : U = SessPlan' /\ U.at = "envelope" /\ U.m = t.sender /\ U.n = 0
    <3>1. PICK U : U = [m |-> left.mail, n |-> 0, f |-> {}, k |-> 0, at |-> "envelope"]
      OBVIOUS
    <3>2. 0 \in 0 .. MaxRcpt
      BY Numbers
    <3>3. U \in Plan
      BY <2>3, <3>1, <3>2 DEF Plan
    <3>4. SessPlan' = U
      BY <2>3, <3>1 DEF SessPlan
    <3> QED
      BY <2>2, <3>1, <3>3, <3>4
  <2>5. PICK B : B = [proc EXCEPT ![AnyProc] = Opened({})]
    OBVIOUS
  <2>6. Wrote(B, proc', AnyProc, NoData, U)
    BY <1>7, <2>1, <2>2, <2>3, <2>4, <2>5, NewStreamIs
  <2> QED
    BY <2>1, <2>2, <2>3, <2>4, <2>5, <2>6, SessionOpens
<1> QED
  BY <1>2, <1>4, <1>6, <1>7 DEF mail_cmd

\* RCPT: refused, accepted by the checks only, or accepted and written.
LEMMA RcptStep ==
    ASSUME IInv, rcpt_cmd, UNCHANGED pickupVars
    PROVE  IInv'
<1>1. CASE Reject(sess)
  <2>1. UNCHANGED vars
    BY <1>1 DEF Reject, vars, cleanupVars, smtpdVars, pickupVars
  <2> QED
    BY <2>1, Stutters
<1>2. CASE ~Reject(sess)
  <2>1. /\ sess.phase = "cmd" /\ sess.sender # NoMsg /\ sess.bdat_state = "NONE"
        /\ sess.rcpt_count < left.rcpt
        /\ UNCHANGED <<bounced, told>>
    BY <1>2 DEF rcpt_cmd, AtPrompt, InTransaction, ProcessingBdat, BelowRcptLimit
  <2>0. PICK flags \in {{}} \cup {{f} : f \in ActionFlag} :
          LET s == [sess EXCEPT !.saved_flags = @ \cup flags]
          IN  /\ IF flags = {} THEN UNCHANGED left ELSE Spend("verdict")
              /\ asked' = [asked EXCEPT ![s.sender] = @ \cup flags]
              /\ \/ sess' = s /\ UNCHANGED <<proc, file, sent>>
                 \/ s.cleanup # NoProc /\ Accept(s, proc) /\ UNCHANGED file
                 \/ /\ s.cleanup = NoProc /\ mail_open_stream(s)
                    /\ Accept([s EXCEPT !.cleanup = AnyProc], NewStream(s))
    BY <1>2 DEF rcpt_cmd
  <2>2. PICK s :
          /\ s = [sess EXCEPT !.saved_flags = @ \cup flags]
          /\ IF flags = {} THEN UNCHANGED left ELSE Spend("verdict")
          /\ asked' = [asked EXCEPT ![s.sender] = @ \cup flags]
          /\ \/ sess' = s /\ UNCHANGED <<proc, file, sent>>
             \/ s.cleanup # NoProc /\ Accept(s, proc) /\ UNCHANGED file
             \/ /\ s.cleanup = NoProc /\ mail_open_stream(s)
                /\ Accept([s EXCEPT !.cleanup = AnyProc], NewStream(s))
    BY <2>0
  <2>3. /\ sess \in SessType /\ sent \in [Mail -> Data] /\ asked \in [Msg -> SUBSET ActionFlag]
        /\ left \in SetupType /\ SessOK /\ Mail \subseteq Msg /\ MaxRcpt \in Nat
        /\ left.rcpt \in Nat /\ left.rcpt <= MaxRcpt /\ left.mail \in Nat
        /\ flags \subseteq ActionFlag
    BY SessFacts, Numbers
  <2>4. PICK m \in Mail, n \in Nat :
          m = sess.sender /\ n = sess.rcpt_count /\ n < MaxRcpt /\ m > left.mail
    <3>1. sess.sender \in Mail /\ sess.sender > left.mail
      BY <2>1, SessFacts
    <3>2. sess.rcpt_count \in Nat
      BY <2>3 DEF SessType
    <3>3. sess.rcpt_count < MaxRcpt
      BY <2>1, <2>3, <3>2
    <3> QED
      BY <3>1, <3>2, <3>3
  <2>5. /\ SessData
        /\ sess.cleanup = NoProc => asked[m] \subseteq sess.saved_flags
        /\ sess.cleanup = NoProc => n = 0
        /\ sess.cleanup # NoProc => sess.cleanup \in Proc
    <3>1. SessData
      BY <2>1, SessDataHolds
    <3>2. sess.cleanup = NoProc => ~(n > 0)
      BY <2>1, <2>3, <2>4 DEF SessOK, StreamMatches
    <3> QED
      BY <2>1, <2>3, <2>4, <3>1, <3>2, SessFacts DEF SessOK
  <2>6. /\ sent[m].from = m /\ sent[m].rcpts = FirstRcpts(m, n) /\ sent[m].body = 0
        /\ ~sent[m].end /\ sess.saved_flags \subseteq asked[m]
        /\ sess.err = {} /\ sess.post = "NONE"
    BY <2>1, <2>4, <2>5 DEF SessData
  <2>7. /\ s \in SessType /\ s.phase = "cmd" /\ s.sender = m /\ s.cleanup = sess.cleanup
        /\ s.rcpt_count = n /\ s.bdat_state = "NONE" /\ s.err = {} /\ s.post = "NONE"
        /\ s.saved_flags = sess.saved_flags \cup flags
    BY <2>1, <2>2, <2>3, <2>4, <2>6 DEF SessType
  <2>8. left' \in SetupType /\ left'.mail = left.mail /\ left'.rcpt = left.rcpt
    BY <2>2, <2>3, LeftFacts
  <2>9. /\ asked' \in [Msg -> SUBSET ActionFlag] /\ asked'[m] = asked[m] \cup flags
        /\ \A l \in Msg : l # m => asked'[l] = asked[l]
        /\ s.saved_flags \subseteq asked'[m]
        /\ asked'[m] \subseteq asked[m] \cup s.saved_flags
        /\ sess.saved_flags \subseteq s.saved_flags
        /\ asked[m] \subseteq asked'[m]
        /\ sess.cleanup = NoProc => asked'[m] \subseteq s.saved_flags
    BY <2>2, <2>3, <2>5, <2>6, <2>7
  <2> DEFINE PlanFor(k) == [m |-> m, n |-> k, f |-> {}, k |-> 0, at |-> "envelope"]
  <2>10. /\ n \in 0 .. MaxRcpt /\ n + 1 \in 0 .. MaxRcpt /\ n + 1 <= MaxRcpt /\ n <= MaxRcpt
    BY <2>3, <2>4
  <2>11. PlanFor(n) \in Plan /\ PlanFor(n + 1) \in Plan
    BY <2>10 DEF Plan
  <2>12. SessPlan = PlanFor(n)
    BY <2>1, <2>4, <2>6 DEF SessPlan
  \* what holds afterwards, with k recipients
  <2>13. ASSUME NEW k \in {n, n + 1},
                sess' = [s EXCEPT !.rcpt_count = k, !.cleanup = sess'.cleanup],
                sess'.cleanup \in Proc \cup {NoProc},
                NEW R, R \subseteq Rcpt, R = FirstRcpts(m, k),
                sent' = [sent EXCEPT ![m].rcpts = R]
         PROVE  /\ SessData' /\ Continues /\ SessPlan' = PlanFor(k)
                /\ sess'.sender = m /\ sess'.phase = "cmd" /\ sess'.rcpt_count = k
                /\ sess'.saved_flags = s.saved_flags /\ sess'.bdat_state = "NONE"
    <3>1. k \in Nat /\ k <= MaxRcpt
      BY <2>10
    <3>2. /\ sess' \in SessType /\ sess'.phase = "cmd" /\ sess'.sender = m
          /\ sess'.rcpt_count = k /\ sess'.bdat_state = "NONE" /\ sess'.err = {}
          /\ sess'.post = "NONE" /\ sess'.saved_flags = s.saved_flags
      BY <2>7, <2>13, <3>1 DEF SessType
    <3>3. PICK D : D = [sent[m] EXCEPT !.rcpts = R]
      OBVIOUS
    <3>4. /\ D \in Data /\ D.from = m /\ D.rcpts = R /\ D.body = 0 /\ ~D.end
      BY <2>3, <2>6, <2>13, <3>3 DEF Data
    <3>5. /\ sent' \in [Mail -> Data] /\ sent'[m] = D
          /\ \A l \in Mail : l # m => sent'[l] = sent[l]
      BY <2>3, <2>13, <3>3, <3>4
    <3>6. SessData'
      BY <2>4, <2>8, <2>9, <2>13, <3>1, <3>2, <3>4, <3>5 DEF SessData
    <3>7. Continues
      BY <2>1, <2>3, <2>6, <2>8, <2>9, <3>2, <3>5 DEF Continues
    <3>8. SessPlan' = PlanFor(k)
      BY <3>2, <3>4, <3>5 DEF SessPlan
    <3> QED
      BY <3>2, <3>6, <3>7, <3>8
  <2> HIDE DEF PlanFor
  <2>14. CASE sess' = s /\ UNCHANGED <<proc, file, sent>>
    <3>1. FirstRcpts(m, n) \subseteq Rcpt
      BY <2>3, <2>6 DEF Data
    <3>2. sess' = [s EXCEPT !.rcpt_count = n, !.cleanup = sess'.cleanup]
      BY <2>7, <2>14 DEF SessType
    <3>3. sent' = [sent EXCEPT ![m].rcpts = FirstRcpts(m, n)]
      <4>1. [sent[m] EXCEPT !.rcpts = FirstRcpts(m, n)] = sent[m]
        BY <2>3, <2>6 DEF Data
      <4> QED
        BY <2>3, <2>14, <4>1
    <3>4. sess'.cleanup = sess.cleanup /\ sess'.cleanup \in Proc \cup {NoProc}
      BY <2>5, <2>7, <2>14
    <3>5. /\ SessData' /\ Continues /\ SessPlan' = PlanFor(n)
          /\ sess'.sender = m /\ sess'.phase = "cmd" /\ sess'.rcpt_count = n
          /\ sess'.saved_flags = s.saved_flags
      BY <2>13, <3>1, <3>2, <3>3, <3>4
    <3>6. CASE sess.cleanup = NoProc
      BY <2>4, <2>5, <2>9, <2>14, <3>4, <3>5, <3>6, SessionStands
    <3>7. CASE sess.cleanup # NoProc
      <4>1. PICK p \in Proc : p = sess.cleanup
        BY <2>5, <3>7
      <4>2. PICK U \in Plan : Extends(p, proc, U) /\ U = SessPlan
        BY <2>1, <4>1, SessionPlan
      <4>3. U = PlanFor(n) /\ U = SessPlan' /\ Wrote(proc, proc', p, file[proc[p].id].data, U)
        BY <2>12, <2>14, <3>5, <4>2 DEF Extends
      <4>4. U.m = m /\ U.f = {} /\ U.at = "envelope"
        BY <4>3 DEF PlanFor
      <4> QED
        BY <2>4, <2>9, <2>14, <3>4, <3>5, <4>1, <4>3, <4>4, SessionGoesOn
    <3> QED
      BY <3>6, <3>7
  <2>15. ASSUME NEW t, NEW P, Accept(t, P), t = [s EXCEPT !.cleanup = t.cleanup],
                t.cleanup \in Proc
         PROVE  /\ sess' = [s EXCEPT !.rcpt_count = n + 1, !.cleanup = sess'.cleanup]
                /\ sess'.cleanup = t.cleanup
                /\ proc' = Write(P, t.cleanup, <<RecOf("RCPT", <<m, n + 1>>)>>)
                /\ SessData' /\ Continues /\ SessPlan' = PlanFor(n + 1)
                /\ sess'.sender = m /\ sess'.phase = "cmd"
                /\ sess'.saved_flags = s.saved_flags
    <3>1. /\ t \in SessType /\ t.sender = m /\ t.rcpt_count = n
      BY <2>7, <2>15 DEF SessType
    <3>2. Cardinality(sent[t.sender].rcpts) = n
      BY <2>6, <3>1, RcptNumber
    <3>3. PICK r : r = <<m, n + 1>>
      OBVIOUS
    <3>4. /\ sess' = [t EXCEPT !.rcpt_count = n + 1]
          /\ proc' = Write(P, t.cleanup, <<RecOf("RCPT", r)>>)
          /\ sent' = [sent EXCEPT ![m].rcpts = @ \cup {r}]
      BY <2>15, <3>1, <3>2, <3>3 DEF Accept
    <3>5. PICK R : R = FirstRcpts(m, n + 1)
      OBVIOUS
    <3>6. R = FirstRcpts(m, n) \cup {r} /\ R \subseteq Rcpt
      BY <2>3, <2>10, <3>3, <3>5, FirstRcptsSteps
    <3>7. sent' = [sent EXCEPT ![m].rcpts = R]
      BY <2>3, <2>6, <3>4, <3>6
    <3>8. sess' = [s EXCEPT !.rcpt_count = n + 1, !.cleanup = sess'.cleanup]
          /\ sess'.cleanup = t.cleanup
      BY <2>7, <2>15, <3>1, <3>4 DEF SessType
    <3> QED
      BY <2>13, <2>15, <3>3, <3>4, <3>5, <3>6, <3>7, <3>8
  <2>16. /\ <<RecOf("RCPT", <<m, n + 1>>)>> \in Seq(Record)
         /\ GoesOn(PlanFor(n), PlanFor(n + 1), <<RecOf("RCPT", <<m, n + 1>>)>>)
         /\ PlanFor(n + 1).m = m /\ PlanFor(n + 1).f = {} /\ PlanFor(n + 1).at = "envelope"
         /\ PlanFor(n).m = m /\ PlanFor(n).n = n /\ PlanFor(n).at = "envelope"
    <3>1. PICK T \in Plan, U \in Plan : T = PlanFor(n) /\ U = PlanFor(n + 1)
      BY <2>11
    <3>2. /\ T.m = m /\ T.n = n /\ T.at = "envelope"
          /\ U.m = m /\ U.n = n + 1 /\ U.f = {} /\ U.at = "envelope"
      BY <3>1 DEF PlanFor
    <3>3. T.n < MaxRcpt /\ U.m = T.m /\ U.n = T.n + 1
      BY <2>4, <3>2
    <3>4. /\ <<RecOf("RCPT", <<T.m, T.n + 1>>)>> \in Seq(Record)
          /\ GoesOn(T, U, <<RecOf("RCPT", <<T.m, T.n + 1>>)>>)
      BY <3>2, <3>3, WriteRcpt
    <3> QED
      BY <3>1, <3>2, <3>4
  <2>17. CASE s.cleanup # NoProc /\ Accept(s, proc) /\ UNCHANGED file
    <3>1. PICK p \in Proc : p = sess.cleanup /\ p = s.cleanup
      BY <2>5, <2>7, <2>17
    <3>2. s = [s EXCEPT !.cleanup = s.cleanup]
      BY <2>7 DEF SessType
    <3>3. /\ sess'.cleanup = p
          /\ proc' = Write(proc, p, <<RecOf("RCPT", <<m, n + 1>>)>>)
          /\ SessData' /\ Continues /\ SessPlan' = PlanFor(n + 1)
          /\ sess'.sender = m /\ sess'.saved_flags = s.saved_flags
      BY <2>15, <2>17, <3>1, <3>2
    <3>4. PICK T \in Plan : Extends(p, proc, T) /\ T = PlanFor(n)
      BY <2>1, <2>12, <3>1, SessionPlan
    <3>5. PICK U \in Plan : U = PlanFor(n + 1)
      BY <2>11
    <3>6. Wrote(proc, proc', p, file[proc[p].id].data, U)
      BY <2>16, <3>3, <3>4, <3>5, WroteMore DEF Extends
    <3> QED
      BY <2>4, <2>9, <2>16, <2>17, <3>1, <3>3, <3>5, <3>6, SessionGoesOn
  <2>18. CASE /\ s.cleanup = NoProc /\ mail_open_stream(s)
              /\ Accept([s EXCEPT !.cleanup = AnyProc], NewStream(s))
    <3>1. /\ CanOpen /\ AnyProc \in Proc /\ file' = [file EXCEPT ![NextFile] = NewFile]
          /\ sess.cleanup = NoProc /\ n = 0
      BY <2>5, <2>7, <2>18, OpeningFacts DEF mail_open_stream
    <3>2. PICK t : t = [s EXCEPT !.cleanup = AnyProc]
      OBVIOUS
    <3>3. t = [s EXCEPT !.cleanup = t.cleanup] /\ t.cleanup = AnyProc
      BY <2>7, <3>2 DEF SessType
    <3>4. /\ sess'.cleanup = AnyProc
          /\ proc' = Write(NewStream(s), AnyProc, <<RecOf("RCPT", <<m, n + 1>>)>>)
          /\ SessData' /\ Continues /\ SessPlan' = PlanFor(n + 1)
          /\ sess'.sender = m /\ sess'.saved_flags = s.saved_flags /\ sess'.phase = "cmd"
      BY <2>15, <2>18, <3>1, <3>2, <3>3
    <3>5. PICK B : B = [proc EXCEPT ![AnyProc] = Opened({})]
      OBVIOUS
    <3>6. PICK T \in Plan, U \in Plan : T = PlanFor(n) /\ U = PlanFor(n + 1)
      BY <2>11
    <3>7. Wrote(B, NewStream(s), AnyProc, NoData, T)
      BY <2>7, <2>16, <3>1, <3>5, <3>6, NewStreamIs
    <3>8. Wrote(B, proc', AnyProc, NoData, U)
      BY <2>16, <3>1, <3>4, <3>6, <3>7, WroteMore
    <3>9. U = SessPlan' /\ U.at = "envelope" /\ sess'.sender = sess.sender
      BY <2>4, <2>16, <3>4, <3>6
    <3> QED
      BY <2>9, <3>1, <3>4, <3>5, <3>8, <3>9, SessionOpens
  <2> QED
    BY <2>2, <2>14, <2>17, <2>18
<1> QED
  BY <1>1, <1>2

\* common_pre_message_handling() writes the start of the content.
AtContent(s) ==
    [ m |-> sess.sender, n |-> sess.rcpt_count, f |-> s.saved_flags,
      k |-> sent[sess.sender].body, at |-> "message" ]

LEMMA AtContentType ==
    ASSUME IInv, sess.sender # NoMsg, NEW s, s.saved_flags = sess.saved_flags
    PROVE  /\ AtContent(s) \in Plan /\ AtContent(s).at = "message"
           /\ AtContent(s).m = sess.sender /\ AtContent(s).n = sess.rcpt_count
           /\ AtContent(s).k = sent[sess.sender].body /\ AtContent(s).f = sess.saved_flags
           /\ sess.saved_flags \subseteq asked[sess.sender]
<1>1. /\ SessPlan \in Plan /\ SessPlan.m = sess.sender /\ SessPlan.n = sess.rcpt_count
      /\ SessPlan.k = sent[sess.sender].body
  BY SessPlanType
<1>2. sess.saved_flags \subseteq ActionFlag /\ sess.saved_flags \subseteq asked[sess.sender]
  BY SessFacts DEF SessType, SessOK
<1> QED
  BY <1>1, <1>2 DEF AtContent, Plan

LEMMA PreWrites ==
    ASSUME IInv, NEW p \in Proc, p = sess.cleanup, sess.phase = "cmd", sess.bdat_state = "NONE",
           sess.rcpt_count > 0, NEW s, s.saved_flags = sess.saved_flags
    PROVE  Extends(p, Write(proc, p, PreMessage(s)), AtContent(s))
<1>1. PICK T \in Plan : /\ Extends(p, proc, T) /\ T = SessPlan
                        /\ proc[p].phase = "read" => PlanOf(p, T)
  BY SessionPlan
<1>2. sess.sender # NoMsg /\ sess.sender \in Mail /\ sess.saved_flags \subseteq ActionFlag
  BY SessFacts, Numbers DEF SessType
<1>3. PICK U \in Plan :
        /\ U = AtContent(s) /\ U.at = "message" /\ U.m = sess.sender /\ U.n = sess.rcpt_count
        /\ U.k = sent[sess.sender].body /\ U.f = sess.saved_flags
        /\ sess.saved_flags \subseteq asked[sess.sender]
  BY <1>2, AtContentType
<1>4. sent[sess.sender].body = 0
  BY <1>2, SessDataHolds DEF SessData
<1>5. T.at = "envelope" /\ T.m = U.m /\ T.n = U.n
  BY <1>1, <1>3 DEF SessPlan
<1>6. PreMessage(s) \in Seq(Record) /\ GoesOn(T, U, PreMessage(s))
  BY <1>2, <1>3, <1>4, <1>5, WritePre
<1>7. Wrote(proc, Write(proc, p, PreMessage(s)), p, file[proc[p].id].data, U)
  BY <1>1, <1>6, WroteMore DEF Extends
<1>8. ASSUME proc[p].phase = "read"
      PROVE  Means(p, U) /\ PlanOf(p, T) /\ U.m = T.m /\ T.at # "none"
  <2>1. Means(p, T) /\ PlanOf(p, T)
    BY <1>1, <1>8, PlanMeans
  <2>2. U.m \notin Drop
    BY <1>2, <1>3, Numbers
  <2>3. Means(p, U)
    BY <1>3, <1>5, <2>1, <2>2 DEF Means
  <2> QED
    BY <1>5, <2>1, <2>3
<1>9. Extends(p, Write(proc, p, PreMessage(s)), U)
  BY <1>7, <1>8 DEF Extends
<1> QED
  BY <1>3, <1>9

\* DATA is refused, or the content may come.
LEMMA DataStep ==
    ASSUME IInv, data_cmd, UNCHANGED pickupVars
    PROVE  IInv'
<1>1. CASE Reject(sess)
  <2>1. UNCHANGED vars
    BY <1>1 DEF Reject, vars, cleanupVars, smtpdVars, pickupVars
  <2> QED
    BY <2>1, Stutters
<1>2. CASE ~Reject(sess)
  <2>1. /\ sess.phase = "cmd" /\ sess.bdat_state = "NONE" /\ sess.rcpt_count > 0
        /\ sess' = [sess EXCEPT !.phase = "data"]
        /\ proc' = Write(proc, sess.cleanup, PreMessage(sess))
        /\ UNCHANGED <<file, asked, bounced, left, told, sent>>
    BY <1>2 DEF data_cmd, AtPrompt, ProcessingBdat
  <2>2. sess.cleanup # NoProc
    BY <2>1, SessFacts DEF SessOK, StreamMatches
  <2>3. PICK p \in Proc : p = sess.cleanup
    BY <2>2, SessFacts
  <2>4. /\ sess.sender # NoMsg /\ sess \in SessType /\ sent \in [Mail -> Data]
        /\ asked \in [Msg -> SUBSET ActionFlag] /\ left \in SetupType /\ left.mail \in Nat
    BY <2>2, SessFacts
  <2>5. SessData
    BY <2>4, SessDataHolds
  <2>6. /\ sess' \in SessType /\ sess'.phase = "data" /\ sess'.sender = sess.sender
        /\ sess'.cleanup = p /\ sess'.rcpt_count = sess.rcpt_count
        /\ sess'.bdat_state = "NONE" /\ sess'.err = sess.err /\ sess'.post = sess.post
        /\ sess'.saved_flags = sess.saved_flags
    BY <2>1, <2>3, <2>4 DEF SessType
  <2>7. SessData'
    BY <2>1, <2>5, <2>6 DEF SessData
  <2>8. Continues
    BY <2>1, <2>4, <2>5, <2>6 DEF Continues, SessData
  <2>9. Extends(p, proc', AtContent(sess))
    BY <2>1, <2>3, PreWrites
  <2>10. PICK U \in Plan :
        /\ U = AtContent(sess) /\ U.at = "message" /\ U.m = sess.sender /\ U.n = sess.rcpt_count
        /\ U.k = sent[sess.sender].body /\ U.f = sess.saved_flags
        /\ sess.saved_flags \subseteq asked[sess.sender]
    BY <2>4, AtContentType
  <2>11. U = SessPlan'
    BY <2>1, <2>6, <2>10 DEF SessPlan, AtContent
  <2>12. Wrote(proc, proc', p, file[proc[p].id].data, U)
    BY <2>9, <2>10 DEF Extends
  <2> QED
    BY <2>1, <2>3, <2>6, <2>7, <2>8, <2>10, <2>11, <2>12, SessionGoesOn
<1> QED
  BY <1>1, <1>2

\* A piece of content is written.
LEMMA NormWrites ==
    ASSUME NEW p \in Proc, NEW P, NEW T \in Plan, Extends(p, P, T), T.at = "message",
           NEW U, U = [T EXCEPT !.k = @ + 1]
    PROVE  /\ U \in Plan /\ U.at = "message" /\ U.m = T.m /\ U.n = T.n /\ U.f = T.f /\ U.k = T.k + 1
           /\ Extends(p, Write(P, p, <<Rec("NORM")>>), U)
<1>1. /\ U \in Plan /\ U.at = "message" /\ U.m = T.m /\ U.n = T.n /\ U.f = T.f /\ U.k = T.k + 1
  BY DEF Plan
<1>2. <<Rec("NORM")>> \in Seq(Record) /\ GoesOn(T, U, <<Rec("NORM")>>)
  BY <1>1, WriteNorm
<1>3. Wrote(proc, Write(P, p, <<Rec("NORM")>>), p, file[proc[p].id].data, U)
  BY <1>1, <1>2, WroteMore DEF Extends
<1>4. Means(p, T) => Means(p, U)
  BY <1>1 DEF Means
<1> QED
  BY <1>1, <1>3, <1>4 DEF Extends

\* The client has sent another piece of content, and perhaps its last.
LEMMA SentBody ==
    ASSUME sent \in [Mail -> Data], NEW m \in Mail, NEW b \in BOOLEAN,
           sent' = [sent EXCEPT ![m].body = @ + 1, ![m].end = b]
    PROVE  /\ sent' \in [Mail -> Data]
           /\ sent'[m].from = sent[m].from /\ sent'[m].rcpts = sent[m].rcpts
           /\ sent'[m].body = sent[m].body + 1 /\ (sent'[m].end <=> b)
           /\ \A l \in Mail : l # m => sent'[l] = sent[l]
<1>1. PICK D : D = [sent[m] EXCEPT !.body = @ + 1, !.end = b]
  OBVIOUS
<1>2. /\ D \in Data /\ D.from = sent[m].from /\ D.rcpts = sent[m].rcpts
      /\ D.body = sent[m].body + 1 /\ (D.end <=> b)
  <2>1. PICK n \in Nat : n = sent[m].body + 1
    <3>1. sent[m].body \in Nat
      BY DEF Data
    <3> QED
      BY <3>1
  <2>2. D = [sent[m] EXCEPT !.body = n, !.end = b] /\ sent[m] \in Data
    BY <1>1, <2>1
  <2>3. D \in Data /\ D.from = sent[m].from /\ D.rcpts = sent[m].rcpts /\ D.body = n
    BY <2>2 DEF Data
  <2>4. D.end = b
    BY <2>2, Zenon DEF Data
  <2> QED
    BY <2>1, <2>3, <2>4
<1>3. sent' = [sent EXCEPT ![m] = D]
  BY <1>1
<1> QED
  BY <1>2, <1>3

\* A piece of content may be in error, which changes nothing else.
LEMMA ContentIs ==
    ASSUME NEW t \in SessType, t.err = {}, NEW s \in Content(t)
    PROVE  /\ s \in SessType /\ s.phase = t.phase /\ s.sender = t.sender /\ s.cleanup = t.cleanup
           /\ s.rcpt_count = t.rcpt_count /\ s.bdat_state = t.bdat_state
           /\ s.saved_flags = t.saved_flags /\ s.post = t.post
BY DEF Content, SessType, Stat

LEMMA StoredWrites ==
    ASSUME NEW p \in Proc, NEW P, NEW T \in Plan, Extends(p, P, T), T.at = "message",
           NEW s, s.cleanup = p
    PROVE  \E U \in Plan :
             /\ Extends(p, Stored(s, P), U) /\ U.at = "message"
             /\ U.m = T.m /\ U.n = T.n /\ U.f = T.f
             /\ s.err = {} => U.k = T.k + 1
<1>1. CASE s.err = {}
  <2>1. PICK U : U = [T EXCEPT !.k = @ + 1]
    OBVIOUS
  <2>2. Stored(s, P) = Write(P, p, <<Rec("NORM")>>)
    BY <1>1 DEF Stored
  <2> QED
    BY <2>1, <2>2, NormWrites
<1>2. CASE s.err # {}
  BY <1>2 DEF Stored
<1> QED
  BY <1>1, <1>2

\* The session at the end of a message, with everything written up to plan T.
LEMMA PostHandles ==
    ASSUME IInv, NEW p \in Proc, p = sess.cleanup, sess.phase # "wait",
           NEW s \in SessType, s.sender = sess.sender, s.cleanup = p,
           s.rcpt_count = sess.rcpt_count, s.saved_flags = sess.saved_flags,
           s.post = "NONE", s.bdat_state # "ERROR", sess.rcpt_count > 0,
           NEW P, NEW T \in Plan, Extends(p, P, T), T.at = "message",
           T.m = sess.sender, T.n = sess.rcpt_count, T.f = sess.saved_flags,
           s.err = {} => T.k = sent[sess.sender].body + 1,
           PostHandling(s, P),
           sent' = [sent EXCEPT ![sess.sender].body = @ + 1, ![sess.sender].end = TRUE],
           UNCHANGED <<file, asked, bounced, left, pickupVars>>
    PROVE  IInv'
<1>1. /\ sess.sender \in Mail /\ sent \in [Mail -> Data] /\ asked \in [Msg -> SUBSET ActionFlag]
      /\ left \in SetupType /\ left.mail \in Nat /\ p # NoProc /\ sess.sender # NoMsg
  BY SessFacts, Numbers
<1>2. PICK m \in Mail : m = sess.sender
  BY <1>1
<1>3. SessData
  BY <1>1, SessDataHolds
<1>4. /\ sent' \in [Mail -> Data]
      /\ sent'[m].from = sent[m].from /\ sent'[m].rcpts = sent[m].rcpts
      /\ sent'[m].body = sent[m].body + 1 /\ sent'[m].end
      /\ \A l \in Mail : l # m => sent'[l] = sent[l]
  <2>1. PICK b \in BOOLEAN : b = TRUE
    OBVIOUS
  <2>2. sent' = [sent EXCEPT ![m].body = @ + 1, ![m].end = b]
    BY <1>2, <2>1, Zenon
  <2> QED
    BY <1>1, <2>1, <2>2, SentBody
<1>5. ~sent[m].end
  BY <1>2, <1>3 DEF SessData
<1>6. ASSUME s.err = {}, sess' = [s EXCEPT !.phase = "wait"],
             proc' = Write(P, s.cleanup, PostMessage(s)), UNCHANGED told
      PROVE  IInv'
  <2>1. /\ sess' \in SessType /\ sess'.phase = "wait" /\ sess'.sender = m /\ sess'.cleanup = p
        /\ sess'.rcpt_count = sess.rcpt_count /\ sess'.bdat_state = s.bdat_state
        /\ sess'.err = {} /\ sess'.post = "NONE" /\ sess'.saved_flags = sess.saved_flags
    BY <1>2, <1>6 DEF SessType
  <2>2. SessData'
    BY <1>2, <1>3, <1>4, <2>1 DEF SessData
  <2>3. Continues
    BY <1>1, <1>2, <1>4, <1>5, <1>6, <2>1 DEF Continues
  <2>4. PICK U : U = [T EXCEPT !.at = "extracted"]
    OBVIOUS
  <2>5. U \in Plan /\ U.at = "extracted" /\ U.m = T.m /\ U.n = T.n /\ U.k = T.k /\ U.f = T.f
    BY <2>4 DEF Plan
  <2>6. PostMessage(s) \in Seq(Record) /\ GoesOn(T, U, PostMessage(s))
    BY <2>5, WritePost
  <2>7. Wrote(proc, proc', p, file[proc[p].id].data, U)
    BY <1>6, <2>5, <2>6, WroteMore DEF Extends
  <2>8. U = SessPlan'
    <3>1. U = [m |-> m, n |-> sess.rcpt_count, f |-> sess.saved_flags,
               k |-> sent[m].body + 1, at |-> "extracted"]
      BY <1>2, <1>6, <2>5 DEF Plan
    <3> QED
      BY <1>2, <1>4, <2>1, <3>1 DEF SessPlan
  <2>9. sess.saved_flags \subseteq asked[m]
    BY <1>2, <1>3 DEF SessData
  <2> QED
    BY <1>2, <2>1, <2>2, <2>3, <2>5, <2>7, <2>8, <2>9, SessionGoesOn
<1>7. ASSUME NEW err, err # {}, Reply(s, P, err)
      PROVE  IInv'
  <2>1. \A l \in Mail : sent'[l] = sent[l] \/ (l = sess.sender /\ ~sent[l].end)
    BY <1>2, <1>4, <1>5
  <2>2. \E U \in Plan : Extends(sess.cleanup, P, U)
    OBVIOUS
  <2> QED
    BY <1>1, <1>4, <1>7, <2>1, <2>2, ReplyStep
<1>8. {"CONT"} # {}
  OBVIOUS
<1> QED
  BY <1>6, <1>7, <1>8 DEF PostHandling


\* The message that follows DATA.
LEMMA ReceiveStep ==
    ASSUME IInv, receive_data_message, UNCHANGED pickupVars
    PROVE  IInv'
<1>1. /\ sess \in SessType /\ SessOK /\ sess.phase = "data"
      /\ UNCHANGED <<file, asked, bounced, left, pickupVars>>
  BY SessFacts DEF receive_data_message
<1>2. PICK s \in Content(sess) :
        /\ PostHandling(s, Stored(s, proc))
        /\ sent' = [sent EXCEPT ![s.sender].body = @ + 1, ![s.sender].end = TRUE]
  BY Zenon DEF receive_data_message, WithBody
<1>3. /\ sess.err = {} /\ sess.post = "NONE" /\ sess.bdat_state = "NONE" /\ sess.rcpt_count > 0
      /\ sess.cleanup # NoProc
  BY <1>1 DEF SessOK, StreamMatches
<1>4. /\ s \in SessType /\ s.sender = sess.sender /\ s.cleanup = sess.cleanup
      /\ s.rcpt_count = sess.rcpt_count /\ s.bdat_state = sess.bdat_state
      /\ s.saved_flags = sess.saved_flags /\ s.post = sess.post
  BY <1>1, <1>2, <1>3, ContentIs
<1>5. PICK p \in Proc : p = sess.cleanup /\ sess.sender # NoMsg
  BY <1>3, SessFacts
<1>6. PICK T \in Plan : Extends(p, proc, T) /\ T = SessPlan
  BY <1>3, <1>5, SessionPlan
<1>7. /\ T.at = "message" /\ T.m = sess.sender /\ T.n = sess.rcpt_count
      /\ T.f = sess.saved_flags /\ T.k = sent[sess.sender].body
  BY <1>1, <1>6 DEF SessPlan
<1>8. PICK U \in Plan :
        /\ Extends(p, Stored(s, proc), U) /\ U.at = "message"
        /\ U.m = T.m /\ U.n = T.n /\ U.f = T.f
        /\ s.err = {} => U.k = T.k + 1
  BY <1>4, <1>5, <1>6, <1>7, StoredWrites
<1>9. sent' = [sent EXCEPT ![sess.sender].body = @ + 1, ![sess.sender].end = TRUE]
  BY <1>2, <1>4, Zenon
<1>10. sess.phase # "wait" /\ s.post = "NONE" /\ s.bdat_state # "ERROR"
  BY <1>1, <1>3, <1>4
<1> QED
  BY <1>1, <1>2, <1>3, <1>4, <1>5, <1>7, <1>8, <1>9, <1>10, PostHandles

\* A chunk that is not the last one: it is stored, or the message ends with an
\* error.
LEMMA ChunkGoesOn ==
    ASSUME IInv, NEW p \in Proc, p = sess.cleanup, sess.phase = "cmd", sess.rcpt_count > 0,
           NEW s \in SessType, s.phase = "cmd", s.sender = sess.sender, s.cleanup = p,
           s.rcpt_count = sess.rcpt_count, s.saved_flags = sess.saved_flags,
           s.post = "NONE", s.bdat_state = "OK",
           NEW P, NEW T \in Plan, Extends(p, P, T), T.at = "message",
           T.m = sess.sender, T.n = sess.rcpt_count, T.f = sess.saved_flags,
           s.err = {} => T.k = sent[sess.sender].body + 1,
           \/ s.err # {} /\ Reply([s EXCEPT !.post = "ERROR"], P, s.err)
           \/ s.err = {} /\ sess' = s /\ proc' = P /\ UNCHANGED told,
           sent' = [sent EXCEPT ![sess.sender].body = @ + 1, ![sess.sender].end = FALSE],
           UNCHANGED <<file, asked, bounced, left, pickupVars>>
    PROVE  IInv'
<1>1. /\ sess.sender \in Mail /\ sent \in [Mail -> Data] /\ asked \in [Msg -> SUBSET ActionFlag]
      /\ left \in SetupType /\ left.mail \in Nat /\ p # NoProc /\ sess.sender # NoMsg
  BY SessFacts, Numbers
<1>2. PICK m \in Mail : m = sess.sender
  BY <1>1
<1>3. SessData
  BY <1>1, SessDataHolds
<1>4. /\ sent' \in [Mail -> Data]
      /\ sent'[m].from = sent[m].from /\ sent'[m].rcpts = sent[m].rcpts
      /\ sent'[m].body = sent[m].body + 1 /\ ~sent'[m].end
      /\ \A l \in Mail : l # m => sent'[l] = sent[l]
  <2>1. PICK b \in BOOLEAN : b = FALSE
    OBVIOUS
  <2>2. sent' = [sent EXCEPT ![m].body = @ + 1, ![m].end = b]
    BY <1>2, <2>1, Zenon
  <2> QED
    BY <1>1, <2>1, <2>2, SentBody
<1>5. ~sent[m].end
  BY <1>2, <1>3 DEF SessData
<1>6. CASE s.err = {} /\ sess' = s /\ proc' = P /\ UNCHANGED told
  <2>1. /\ sess' \in SessType /\ sess'.phase = "cmd" /\ sess'.sender = m /\ sess'.cleanup = p
        /\ sess'.rcpt_count = sess.rcpt_count /\ sess'.bdat_state = "OK"
        /\ sess'.err = {} /\ sess'.post = "NONE" /\ sess'.saved_flags = sess.saved_flags
    BY <1>2, <1>6
  <2>2. SessData'
    BY <1>2, <1>3, <1>4, <2>1 DEF SessData
  <2>3. Continues
    BY <1>1, <1>2, <1>4, <1>5, <1>6, <2>1 DEF Continues
  <2>4. Wrote(proc, proc', p, file[proc[p].id].data, T)
    BY <1>6 DEF Extends
  <2>5. T = SessPlan'
    <3>1. T = [m |-> m, n |-> sess.rcpt_count, f |-> sess.saved_flags,
               k |-> sent[m].body + 1, at |-> "message"]
      BY <1>2, <1>6 DEF Plan
    <3> QED
      BY <1>2, <1>4, <2>1, <3>1 DEF SessPlan
  <2>6. sess.saved_flags \subseteq asked[m]
    BY <1>2, <1>3 DEF SessData
  <2> QED
    BY <1>2, <2>1, <2>2, <2>3, <2>4, <2>5, <2>6, SessionGoesOn
<1>7. CASE s.err # {} /\ Reply([s EXCEPT !.post = "ERROR"], P, s.err)
  <2>1. \A l \in Mail : sent'[l] = sent[l] \/ (l = sess.sender /\ ~sent[l].end)
    BY <1>2, <1>4, <1>5
  <2>2. \E U \in Plan : Extends(sess.cleanup, P, U)
    OBVIOUS
  <2>3. PICK t : t = [s EXCEPT !.post = "ERROR"]
    OBVIOUS
  <2>4. t \in SessType /\ t.cleanup = sess.cleanup /\ t.sender = sess.sender
    BY <2>3 DEF SessType
  <2> QED
    BY <1>1, <1>4, <1>7, <2>1, <2>2, <2>3, <2>4, ReplyStep
<1> QED
  BY <1>6, <1>7

\* skip_bdat() of a chunk that is not the last one.
LEMMA SkipStep ==
    ASSUME IInv, sess.phase = "cmd", sess' = [sess EXCEPT !.bdat_state = "ERROR"],
           sent' = IF InTransaction THEN WithBody(sess, FALSE) ELSE sent,
           UNCHANGED <<proc, file, told, asked, bounced, left, pickupVars>>
    PROVE  IInv'
<1>1. /\ sent \in [Mail -> Data] /\ asked \in [Msg -> SUBSET ActionFlag] /\ sess \in SessType
      /\ told \in [Mail -> {"nothing", "ok", "error"}]
      /\ left \in SetupType /\ left.mail \in Nat /\ SessOK /\ NoMsg \notin Mail
  BY SessFacts, Numbers
<1>2. /\ sess' \in SessType /\ sess'.phase = "cmd" /\ sess'.sender = sess.sender
      /\ sess'.cleanup = sess.cleanup /\ sess'.rcpt_count = sess.rcpt_count
      /\ sess'.bdat_state = "ERROR" /\ sess'.err = {} /\ sess'.post = "NONE"
      /\ sess'.saved_flags = sess.saved_flags
  BY <1>1 DEF SessOK, SessType
<1>3. CASE sess.sender = NoMsg
  <2>1. Blank(sess') /\ sess.cleanup = NoProc
    BY <1>1, <1>2, <1>3 DEF Blank, SessOK, StreamMatches
  <2>2. sent' = sent
    BY <1>3 DEF InTransaction
  <2> QED
    BY <1>1, <2>1, <2>2, SessionEnds
<1>4. CASE sess.sender # NoMsg
  <2>1. PICK m \in Mail : m = sess.sender
    BY <1>4, SessFacts
  <2>2. /\ sent' \in [Mail -> Data]
        /\ sent'[m].from = sent[m].from /\ sent'[m].rcpts = sent[m].rcpts
        /\ ~sent'[m].end
        /\ \A l \in Mail : l # m => sent'[l] = sent[l]
    <3>1. PICK b \in BOOLEAN : b = FALSE
      OBVIOUS
    <3>2. sent' = [sent EXCEPT ![m].body = @ + 1, ![m].end = b]
      BY <1>4, <2>1, <3>1, Zenon DEF InTransaction, WithBody
    <3> QED
      BY <1>1, <3>1, <3>2, SentBody
  <2>3. SessData
    BY <1>4, SessDataHolds
  <2>4. SessData'
    BY <1>2, <2>1, <2>2, <2>3 DEF SessData
  <2>5. Continues
    <3>1. ~sent[m].end
      BY <1>2, <2>1, <2>3 DEF SessData
    <3>2. sess'.sender = m /\ left' = left /\ asked' = asked
      BY <1>2, <2>1
    <3>3. /\ asked' \in [Msg -> SUBSET ActionFlag] /\ left' \in SetupType
          /\ left'.mail <= left.mail /\ left'.rcpt = left.rcpt
      BY <1>1, <3>2
    <3>4. /\ \A l \in Mail : l # sess'.sender => sent'[l] = sent[l]
          /\ \A l \in Msg : l # sess'.sender => asked'[l] = asked[l]
          /\ asked[sess'.sender] \subseteq asked'[sess'.sender]
          /\ ~sent[sess'.sender].end
      BY <2>2, <3>1, <3>2
    <3>5. UNCHANGED <<bounced, pickupVars, told>>
      OBVIOUS
    <3> QED
      BY <1>2, <2>2, <3>3, <3>4, <3>5 DEF Continues
  <2>6. CASE sess.cleanup = NoProc
    <3>1. asked[m] \subseteq sess.saved_flags /\ sess.rcpt_count = 0
      <4>1. ~(sess.rcpt_count > 0) /\ sess.rcpt_count \in Nat
        BY <1>1, <2>6 DEF SessOK, StreamMatches, SessType
      <4> QED
        BY <1>1, <1>4, <2>1, <2>6, <4>1 DEF SessOK
    <3> QED
      BY <1>2, <2>1, <2>4, <2>5, <2>6, <3>1, SessionStands
  <2>7. CASE sess.cleanup # NoProc
    <3>1. PICK p \in Proc : p = sess.cleanup
      BY <2>7, SessFacts
    <3>2. PICK U \in Plan :
            /\ Extends(p, proc, U) /\ U.m = sess.sender
            /\ U.at \in {"envelope", "message"} \/ U = SessPlan
            /\ U.at # "none"
            /\ U.f \subseteq asked[U.m] /\ (U.at = "message" => U.n > 0)
      BY <3>1, SessionPlan
    <3>3. U.at \in {"envelope", "message"}
      BY <3>2 DEF SessPlan
    <3>4. Wrote(proc, proc', p, file[proc[p].id].data, U)
      BY <3>2 DEF Extends
    <3> QED
      BY <1>2, <2>1, <2>4, <2>5, <3>1, <3>2, <3>3, <3>4, SessionGoesOn
  <2> QED
    BY <2>6, <2>7
<1> QED
  BY <1>3, <1>4

\* A chunk that is accepted, after the start of the content if it is the first.
LEMMA BdatAccepted ==
    ASSUME IInv, sess.phase = "cmd", sess.bdat_state # "ERROR",
           sess.bdat_state # "NONE" \/ sess.rcpt_count > 0,
           NEW s \in Content([sess EXCEPT !.bdat_state = "OK"])
    PROVE  /\ sess.cleanup \in Proc /\ sess.cleanup # NoProc /\ sess.rcpt_count > 0
           /\ s \in SessType /\ s.phase = "cmd" /\ s.sender = sess.sender
           /\ s.cleanup = sess.cleanup /\ s.rcpt_count = sess.rcpt_count /\ s.bdat_state = "OK"
           /\ s.saved_flags = sess.saved_flags /\ s.post = "NONE"
           /\ LET P == IF ProcessingBdat THEN proc
                       ELSE Write(proc, sess.cleanup, PreMessage(sess))
              IN  \E U \in Plan :
                     /\ Extends(sess.cleanup, Stored(s, P), U) /\ U.at = "message"
                     /\ U.m = sess.sender /\ U.n = sess.rcpt_count /\ U.f = sess.saved_flags
                     /\ s.err = {} => U.k = sent[sess.sender].body + 1
<1>1. /\ sess \in SessType /\ SessOK /\ sess.err = {} /\ sess.post = "NONE"
      /\ sess.bdat_state \in {"NONE", "OK"} /\ sess.rcpt_count > 0 /\ sess.cleanup # NoProc
  BY SessFacts DEF SessOK, StreamMatches, SessType
<1>2. PICK p \in Proc : p = sess.cleanup /\ sess.sender # NoMsg
  BY <1>1, SessFacts
<1>3. /\ s \in SessType /\ s.phase = "cmd" /\ s.sender = sess.sender
      /\ s.cleanup = sess.cleanup /\ s.rcpt_count = sess.rcpt_count /\ s.bdat_state = "OK"
      /\ s.saved_flags = sess.saved_flags /\ s.post = "NONE"
  <2>1. PICK t : t = [sess EXCEPT !.bdat_state = "OK"]
    OBVIOUS
  <2>2. /\ t \in SessType /\ t.phase = "cmd" /\ t.sender = sess.sender
        /\ t.cleanup = sess.cleanup /\ t.rcpt_count = sess.rcpt_count /\ t.bdat_state = "OK"
        /\ t.saved_flags = sess.saved_flags /\ t.post = "NONE" /\ t.err = {}
    BY <1>1, <2>1 DEF SessType
  <2> QED
    BY <2>1, <2>2, ContentIs
<1>4. PICK P : P = IF ProcessingBdat THEN proc
                   ELSE Write(proc, sess.cleanup, PreMessage(sess))
  OBVIOUS
<1>5. \E T \in Plan :
        /\ Extends(p, P, T) /\ T.at = "message" /\ T.m = sess.sender /\ T.n = sess.rcpt_count
        /\ T.f = sess.saved_flags /\ T.k = sent[sess.sender].body
  <2>1. CASE sess.bdat_state = "OK"
    <3>1. PICK T \in Plan : Extends(p, proc, T) /\ T = SessPlan
      BY <1>2, <2>1, SessionPlan
    <3>2. P = proc
      BY <1>4, <2>1 DEF ProcessingBdat
    <3> QED
      BY <2>1, <3>1, <3>2 DEF SessPlan
  <2>2. CASE sess.bdat_state = "NONE"
    <3>1. P = Write(proc, p, PreMessage(sess))
      BY <1>2, <1>4, <2>2 DEF ProcessingBdat
    <3>2. Extends(p, P, AtContent(sess))
      BY <1>1, <1>2, <2>2, <3>1, PreWrites
    <3> QED
      BY <1>2, <3>2, AtContentType
  <2> QED
    BY <1>1, <2>1, <2>2
<1>6. PICK T \in Plan :
        /\ Extends(p, P, T) /\ T.at = "message" /\ T.m = sess.sender /\ T.n = sess.rcpt_count
        /\ T.f = sess.saved_flags /\ T.k = sent[sess.sender].body
  BY <1>5
<1>7. \E U \in Plan :
        /\ Extends(p, Stored(s, P), U) /\ U.at = "message"
        /\ U.m = T.m /\ U.n = T.n /\ U.f = T.f
        /\ s.err = {} => U.k = T.k + 1
  BY <1>2, <1>3, <1>6, StoredWrites
<1> QED
  BY <1>1, <1>2, <1>3, <1>4, <1>6, <1>7

\* BDAT.
LEMMA BdatStep ==
    ASSUME IInv, NEW last \in BOOLEAN, bdat_cmd(last), UNCHANGED pickupVars
    PROVE  IInv'
<1>1. sess.phase = "cmd" /\ UNCHANGED <<file, asked, bounced, left, pickupVars>>
  BY Zenon DEF bdat_cmd, AtPrompt
<1>2. CASE skip_bdat(last)
  <2>1. CASE last
    <3>1. /\ sess' = rcpt_reset(mail_reset(sess)) /\ proc' = Closed(sess, proc)
          /\ sent' = GivenUp(sess) /\ UNCHANGED told
      BY <1>2, <2>1, Zenon DEF skip_bdat
    <3>2. sess \in SessType /\ sess.post = "NONE" /\ left \in SetupType
      BY SessFacts DEF SessOK
    <3>3. Blank(sess')
      BY <1>1, <3>1, <3>2, ResetIs DEF Blank
    <3>4. left' \in SetupType /\ left'.mail = left.mail /\ left'.rcpt = left.rcpt
      BY <1>1, <3>2
    <3> QED
      BY <1>1, <3>1, <3>3, <3>4, GivesUp
  <2>2. CASE ~last
    <3>1. /\ sess' = [sess EXCEPT !.bdat_state = "ERROR"]
          /\ sent' = IF InTransaction THEN WithBody(sess, FALSE) ELSE sent
          /\ UNCHANGED <<proc, told>>
      BY <1>2, <2>2, Zenon DEF skip_bdat
    <3> QED
      BY <1>1, <3>1, SkipStep
  <2> QED
    BY <2>1, <2>2
<1>3. CASE ~skip_bdat(last)
  <2>1. PICK s \in Content([sess EXCEPT !.bdat_state = "OK"]) :
          /\ sess.bdat_state # "ERROR"
          /\ ProcessingBdat \/ sess.rcpt_count > 0
          /\ LET P == IF ProcessingBdat THEN proc
                      ELSE Write(proc, sess.cleanup, PreMessage(sess))
             IN  Chunk(s, Stored(s, P), last)
          /\ sent' = WithBody(s, last)
    BY <1>3, Zenon DEF bdat_cmd
  <2>2. PICK P : P = IF ProcessingBdat THEN proc
                     ELSE Write(proc, sess.cleanup, PreMessage(sess))
    OBVIOUS
  <2>3. sess.bdat_state # "NONE" \/ sess.rcpt_count > 0
    BY <2>1 DEF ProcessingBdat
  <2>4. /\ sess.cleanup \in Proc /\ sess.cleanup # NoProc /\ sess.rcpt_count > 0
        /\ s \in SessType /\ s.phase = "cmd" /\ s.sender = sess.sender
        /\ s.cleanup = sess.cleanup /\ s.rcpt_count = sess.rcpt_count /\ s.bdat_state = "OK"
        /\ s.saved_flags = sess.saved_flags /\ s.post = "NONE"
        /\ \E U \in Plan :
             /\ Extends(sess.cleanup, Stored(s, P), U) /\ U.at = "message"
             /\ U.m = sess.sender /\ U.n = sess.rcpt_count /\ U.f = sess.saved_flags
             /\ s.err = {} => U.k = sent[sess.sender].body + 1
    BY <1>1, <2>1, <2>2, <2>3, BdatAccepted
  <2>5. PICK p \in Proc : p = sess.cleanup
    BY <2>4
  <2>6. PICK U \in Plan :
          /\ Extends(p, Stored(s, P), U) /\ U.at = "message"
          /\ U.m = sess.sender /\ U.n = sess.rcpt_count /\ U.f = sess.saved_flags
          /\ s.err = {} => U.k = sent[sess.sender].body + 1
    BY <2>4, <2>5
  <2>7. Chunk(s, Stored(s, P), last)
    BY <2>1, <2>2, Zenon
  <2>8. CASE last
    <3>1. PostHandling(s, Stored(s, P))
      BY <2>7, <2>8, Zenon DEF Chunk
    <3>2. sent' = [sent EXCEPT ![sess.sender].body = @ + 1, ![sess.sender].end = TRUE]
      <4>1. last = TRUE
        BY <2>8, Zenon
      <4>2. sent' = [sent EXCEPT ![s.sender].body = @ + 1, ![s.sender].end = last]
        BY <2>1, Zenon DEF WithBody
      <4> QED
        BY <2>4, <4>1, <4>2, Zenon
    <3>3. s.bdat_state # "ERROR" /\ sess.phase # "wait"
      BY <1>1, <2>4
    <3> QED
      BY <1>1, <2>4, <2>5, <2>6, <3>1, <3>2, <3>3, PostHandles
  <2>9. CASE ~last
    <3>1. \/ s.err # {} /\ Reply([s EXCEPT !.post = "ERROR"], Stored(s, P), s.err)
          \/ s.err = {} /\ sess' = s /\ proc' = Stored(s, P) /\ UNCHANGED told
      BY <2>7, <2>9, Zenon DEF Chunk
    <3>2. sent' = [sent EXCEPT ![sess.sender].body = @ + 1, ![sess.sender].end = FALSE]
      <4>1. last = FALSE
        BY <2>9, Zenon
      <4>2. sent' = [sent EXCEPT ![s.sender].body = @ + 1, ![s.sender].end = last]
        BY <2>1, Zenon DEF WithBody
      <4> QED
        BY <2>4, <4>1, <4>2, Zenon
    <3> QED
      BY <1>1, <2>4, <2>5, <2>6, <3>1, <3>2, ChunkGoesOn
  <2> QED
    BY <2>8, <2>9
<1> QED
  BY <1>2, <1>3

\* One step of smtpd.
LEMMA SmtpdPreserves ==
    ASSUME IInv, SmtpdNext, UNCHANGED pickupVars
    PROVE  IInv'
<1>1. CASE Connect
  BY <1>1, ConnectStep
<1>2. CASE rset_cmd \/ helo_cmd \/ starttls_cmd
  BY <1>2, RsetStep DEF helo_cmd, starttls_cmd
<1>3. CASE EndSession
  BY <1>3, EndSessionStep
<1>4. CASE SmtpdDies
  BY <1>4, SmtpdDiesStep
<1>5. CASE mail_cmd
  BY <1>5, MailStep
<1>6. CASE rcpt_cmd
  BY <1>6, RcptStep
<1>7. CASE data_cmd
  BY <1>7, DataStep
<1>8. CASE receive_data_message
  BY <1>8, ReceiveStep
<1>9. CASE SmtpdFinish
  BY <1>9, SmtpdFinishStep
<1>10. ASSUME NEW last \in BOOLEAN, bdat_cmd(last)
       PROVE  IInv'
  BY <1>10, BdatStep, Zenon
<1> QED
  BY <1>1, <1>2, <1>3, <1>4, <1>5, <1>6, <1>7, <1>8, <1>9, <1>10, Zenon DEF SmtpdNext

-----------------------------------------------------------------------------
(***************************************************************************)
(* Pickup and postdrop.                                                    *)
(***************************************************************************)

\* The session does not notice what others do.
LEMMA SessStays ==
    ASSUME IInv, UNCHANGED smtpdVars, Grows,
           sess.sender # NoMsg => asked'[sess.sender] = asked[sess.sender],
           left'.mail = left.mail,
           pick'.p # sess.cleanup \/ pick'.p = NoProc,
           sess.cleanup # NoProc =>
               /\ proc'[sess.cleanup] = proc[sess.cleanup]
               /\ proc[sess.cleanup].phase \in Running \cup {"answered"} =>
                     file'[proc[sess.cleanup].id].data = file[proc[sess.cleanup].id].data
    PROVE  SessOK'
<1>1. /\ sess' = sess /\ sent' = sent /\ told' = told /\ SessOK
      /\ sess.sender # NoMsg => sess.sender \in Msg
  BY SessFacts, Numbers DEF smtpdVars
<1>2. StreamMatches'
  BY <1>1, Numbers DEF SessOK, StreamMatches
<1>3. sess.cleanup # NoProc => Serves(sess.cleanup, sess.sender)'
  <2> SUFFICES ASSUME sess.cleanup # NoProc
               PROVE  Serves(sess.cleanup, sess.sender)'
    OBVIOUS
  <2>1. PICK p \in Proc, m \in Msg : p = sess.cleanup /\ m = sess.sender /\ Serves(p, m)
    BY <1>1, SessFacts
  <2>2. asked[m] \subseteq asked'[m] /\ bounced \subseteq bounced'
    BY DEF Grows
  <2>3. PICK q : q = proc[p] /\ proc'[p] = q
    BY <2>1
  <2>4. q.phase \in Running \cup {"answered"} => file'[q.id].data = file[q.id].data
    BY <2>1, <2>3
  <2>5. Serves(p, m)'
    BY <2>1, <2>2, <2>3, <2>4 DEF Serves
  <2> QED
    BY <1>1, <2>1, <2>5
<1> QED
  BY <1>1, <1>2, <1>3 DEF SessOK

\* The rest of the invariant, when the histories stay as they are.
LEMMA MailStays ==
    ASSUME IInv, UNCHANGED <<smtpdVars, asked, bounced>>, left'.mail = left.mail,
           left'.rcpt = left.rcpt,
           \A m \in Msg : Kept(m) => Kept(m)',
           \A i \in File, m \in Mail : Carries(i, m)' => Carries(i, m)
    PROVE  MailOK' /\ OneFile'
<1>1. /\ sess' = sess /\ sent' = sent /\ told' = told /\ MailOK /\ OneFile
      /\ Mail \subseteq Msg
  BY SessFacts, Numbers DEF smtpdVars
<1>2. MailOK'
  BY <1>1 DEF MailOK
<1>3. OneFile'
  <2>1. File' = File
    BY DEF File
  <2> QED
    BY <1>1, <2>1 DEF OneFile
<1> QED
  BY <1>2, <1>3

\* A step of pickup or of postdrop.
LEMMA PickupFrame ==
    ASSUME IInv, TypeOK', UNCHANGED <<smtpdVars, asked, bounced>>,
           NEW p \in Proc \cup {NoProc}, NEW j \in File \cup {NoFile},
           p = NoProc \/ p # sess.cleanup,
           \A r \in Proc : r # p => proc'[r] = proc[r],
           \A i \in File : i # j => file'[i] = file[i],
           j \in File => /\ file[j].loc = "none" /\ file'[j] = NewFile
                         /\ p \in Proc /\ proc'[p].phase = "read" /\ proc'[p].id = j
                         /\ proc[p].phase = "idle",
           j = NoFile /\ p \in Proc =>
               \/ proc'[p].phase = proc[p].phase /\ proc'[p].id = proc[p].id
               \/ /\ proc[p].phase \notin Running
                  /\ proc'[p].phase = "idle" /\ proc'[p].id = NoFile,
           p \in Proc => ProcOK(p)',
           pick'.p \in {p, NoProc} \/ UNCHANGED pick,
           \A i \in File, m \in Mail : Carries(i, m)' => Carries(i, m),
           left'.mail = left.mail, left'.rcpt = left.rcpt,
           (\A d \in Drop : Fate(d) => Fate(d)') => PickOK' /\ \A d \in Drop : DropOK(d)'
    PROVE  IInv'
<1>1. /\ sess' = sess /\ sent' = sent /\ asked' = asked /\ bounced' = bounced
      /\ NoProc \notin Proc
  BY Numbers DEF smtpdVars
<1>2. Grows /\ \A m \in Mail : asked'[m] = asked[m] \/ ~sent[m].end
  BY <1>1 DEF Grows
<1>3. /\ \A r \in Proc : ProcOK(r)'
      /\ \A i \in File : FileOK(i)'
      /\ OwnFile'
      /\ \A m \in Msg : Kept(m) => Kept(m)'
      /\ \A d \in Drop : Fate(d) => Fate(d)'
  BY <1>1, <1>2, ClientFrame
<1>4. MailOK' /\ OneFile'
  BY <1>3, MailStays
<1>5. SessOK'
  <2>1. pick'.p # sess.cleanup \/ pick'.p = NoProc
    BY <1>1, SessFacts
  <2>2. ASSUME sess.cleanup # NoProc
        PROVE  /\ proc'[sess.cleanup] = proc[sess.cleanup]
               /\ proc[sess.cleanup].phase \in Running \cup {"answered"} =>
                     file'[proc[sess.cleanup].id].data = file[proc[sess.cleanup].id].data
    <3>1. PICK r \in Proc : r = sess.cleanup /\ r # p
      BY <1>1, <2>2, SessFacts
    <3>2. ProcOK(r)
      BY DEF IInv
    <3>3. proc[r].phase \in Running \cup {"answered"} =>
             proc[r].id \in File /\ file[proc[r].id].loc # "none"
      BY <3>2 DEF ProcOK
    <3> QED
      BY <3>1, <3>3
  <2>3. sess.sender # NoMsg => asked'[sess.sender] = asked[sess.sender]
    BY <1>1
  <2> QED
    BY <1>2, <2>1, <2>2, <2>3, SessStays
<1> QED
  BY <1>3, <1>4, <1>5 DEF IInv

LEMMA PickFacts ==
    ASSUME IInv, pick.phase # "idle"
    PROVE  /\ pick \in PickType /\ pick.d \in Drop /\ pick.d \in Msg /\ drop[pick.d].ready
           /\ pick.phase \in {"copy", "rest", "wait"} =>
                 /\ pick.p \in Proc /\ pick.p # sess.cleanup /\ pick.p # NoProc
                 /\ Serves(pick.p, pick.d)
           /\ pick.phase = "remove" => pick.p = NoProc /\ (drop[pick.d].torn \/ Fate(pick.d))
           /\ drop \in [Drop -> DropType] /\ \A d \in Drop : DropOK(d)
BY Numbers DEF IInv, PickOK, TypeOK, PickupTypeOK

LEMMA PickPlanType ==
    ASSUME NEW d \in Drop, NEW at \in {"none", "message", "extracted"}, NEW U,
           U = [m |-> d, n |-> 1, f |-> {}, k |-> 1, at |-> at]
    PROVE  /\ U \in Plan /\ U.m = d /\ U.n = 1 /\ U.f = {} /\ U.k = 1 /\ U.at = at
           /\ U.at = "extracted" => Full(U) = Whole(U.m)
<1>1. 1 \in 0 .. MaxRcpt /\ 1 \in Nat
  BY Numbers
<1>2. U \in Plan /\ U.m = d /\ U.n = 1 /\ U.f = {} /\ U.k = 1 /\ U.at = at
  BY <1>1 DEF Plan
<1>3. Full(U) = Whole(d)
  <2>1. FirstRcpts(d, 1) = {<<d, 1>>}
    <3>1. \A i \in 1 .. 1 : i = 1
      OBVIOUS
    <3> QED
      BY <1>1, <3>1 DEF FirstRcpts
  <2>2. d \notin Mail
    BY Numbers
  <2> QED
    BY <1>2, <2>1, <2>2 DEF Full, Whole, DropData
<1> QED
  BY <1>2, <1>3

\* What pickup has written so far.
LEMMA PickupPlan ==
    ASSUME IInv, pick.phase \in {"copy", "rest", "wait"}
    PROVE  /\ PickPlan \in Plan /\ PickPlan.m = pick.d /\ PickPlan.n = 1 /\ PickPlan.f = {}
           /\ PickPlan.k = 1
           /\ pick.phase = "copy" => PickPlan.at = "none"
           /\ pick.phase = "rest" => PickPlan.at = "message"
           /\ pick.phase = "wait" => PickPlan.at = "extracted"
           /\ Extends(pick.p, proc, PickPlan)
           /\ proc[pick.p].phase = "read" => PlanOf(pick.p, PickPlan)
<1>1. pick.d \in Drop /\ pick.p \in Proc /\ proc \in [Proc -> ProcType] /\ ProcOK(pick.p)
  BY PickFacts, SessFacts DEF IInv
<1>2. PICK p \in Proc : p = pick.p
  BY <1>1
<1>0. PICK at \in {"none", "message", "extracted"} :
        at = CASE pick.phase = "copy" -> "none"
               [] pick.phase = "rest" -> "message"
               [] OTHER -> "extracted"
  OBVIOUS
<1>3. PICK U : U = [m |-> pick.d, n |-> 1, f |-> {}, k |-> 1, at |-> at]
  OBVIOUS
<1>4. U = PickPlan
  BY <1>0, <1>3 DEF PickPlan
<1>5. U \in Plan /\ U.m = pick.d /\ U.n = 1 /\ U.f = {} /\ U.k = 1 /\ U.at = at
  BY <1>1, <1>3, PickPlanType
<1>6. ASSUME proc[p].phase = "read"
      PROVE  PlanOf(p, U)
  BY <1>1, <1>2, <1>4, <1>6 DEF ProcOK, PlanOf
<1>7. Extends(p, proc, U)
  <2>1. Wrote(proc, proc, p, file[proc[p].id].data, U)
    BY <1>1, <1>6, WroteNothing DEF PlanOf
  <2>2. proc[p].phase = "read" => Means(p, U) /\ PlanOf(p, U) /\ U.m \in Drop
    BY <1>1, <1>5, <1>6, PlanMeans
  <2> QED
    BY <1>5, <2>1, <2>2 DEF Extends
<1> QED
  BY <1>0, <1>2, <1>3, <1>4, <1>5, <1>6, <1>7

\* Pickup writes to the process that it has, and its plan gets to U.
LEMMA PickupWrites ==
    ASSUME IInv, pick.phase \in {"copy", "rest"}, NEW ph \in {"rest", "wait"},
           pick' = [pick EXCEPT !.phase = ph],
           UNCHANGED <<smtpdVars, file, asked, bounced, left, drop>>,
           NEW at, at = IF ph = "rest" THEN "message" ELSE "extracted",
           NEW U, U = [m |-> pick.d, n |-> 1, f |-> {}, k |-> 1, at |-> at],
           Wrote(proc, proc', pick.p, file[proc[pick.p].id].data, U)
    PROVE  IInv'
<1>1. /\ pick \in PickType /\ pick.d \in Drop /\ pick.d \in Msg /\ drop[pick.d].ready
      /\ pick.p \in Proc /\ pick.p # sess.cleanup /\ pick.p # NoProc
      /\ Serves(pick.p, pick.d) /\ NoFile \notin File
      /\ drop \in [Drop -> DropType] /\ \A d \in Drop : DropOK(d)
  BY PickFacts, Numbers DEF File, NoFile
<1>2. PICK p \in Proc : p = pick.p
  BY <1>1
<1>3. /\ sess' = sess /\ told' = told /\ sent' = sent /\ file' = file /\ asked' = asked
      /\ bounced' = bounced /\ left' = left /\ drop' = drop
  BY DEF smtpdVars
<1>4. pick' \in PickType /\ pick'.phase = ph /\ pick'.d = pick.d /\ pick'.p = p
  BY <1>1, <1>2 DEF PickType
<1>5. at \in {"message", "extracted"} /\ at \in {"none", "message", "extracted"}
  OBVIOUS
<1>6. /\ U \in Plan /\ U.m = pick.d /\ U.n = 1 /\ U.f = {} /\ U.k = 1 /\ U.at = at
      /\ U.at = "extracted" => Full(U) = Whole(U.m)
  BY <1>1, <1>5, PickPlanType
<1>7. U = PickPlan'
  BY <1>4 DEF PickPlan
<1>8. PICK q : q = proc'[p]
  OBVIOUS
<1>9. proc[p] \in ProcType /\ proc \in [Proc -> ProcType]
  BY SessFacts
<1>10. /\ Alike(q, proc[p]) /\ q.eof = proc[p].eof
       /\ q \in ProcType /\ q.phase = proc[p].phase /\ q.id = proc[p].id /\ q.flags = proc[p].flags
       /\ proc[p].phase \notin Running => q = proc[p]
       /\ proc[p].phase = "read" => Reading(q, file[proc[p].id].data, U)
       /\ \A r \in Proc : r # p => proc'[r] = proc[r]
       /\ proc' \in [Proc -> ProcType]
  BY <1>2, <1>8, <1>9, AlikeIs DEF Wrote
<1>11. TypeOK'
  <2>1. file \in [File -> FileType] /\ bounced \subseteq Msg /\ asked \in [Msg -> SUBSET ActionFlag]
        /\ left \in SetupType /\ sess \in SessType /\ sent \in [Mail -> Data]
        /\ told \in [Mail -> {"nothing", "ok", "error"}]
    BY SessFacts
  <2>2. File' = File
    BY DEF File
  <2> QED
    BY <1>1, <1>3, <1>4, <1>10, <2>1, <2>2 DEF TypeOK, CleanupTypeOK, SmtpdTypeOK, PickupTypeOK
<1>12. ASSUME proc[p].phase = "read"
       PROVE  PlanOf(p, U)' /\ PlanOf(p, PickPlan) /\ PickPlan \in Plan /\ PickPlan.m = U.m
  <2>1. PlanOf(p, PickPlan) /\ PickPlan \in Plan /\ PickPlan.m = pick.d
    BY <1>2, <1>12, PickupPlan
  <2>2. Reading(proc[p], file[proc[p].id].data, U)'
    BY <1>3, <1>8, <1>10, <1>12
  <2>3. "BOUNCE" \in proc[p].flags
    BY <1>1, <2>1 DEF PlanOf
  <2>4. U.m \notin Mail /\ U.m \in Drop
    BY <1>1, <1>6, Numbers
  <2>5. Whole(U.m)' = Whole(U.m)
    BY <2>4 DEF Whole, DropData
  <2>6. "BOUNCE" \in proc'[p].flags
    BY <1>8, <1>10, <2>3
  <2>7. PlanOf(p, U)'
    BY <1>1, <1>2, <1>3, <1>6, <1>7, <2>2, <2>4, <2>5, <2>6 DEF PlanOf
  <2> QED
    BY <1>6, <2>1, <2>7
<1>13. ProcOK(p)'
  <2>1. proc[p].phase = "read" => \E T \in Plan : PlanOf(p, T)'
    BY <1>6, <1>12
  <2>2. Alike(proc'[p], proc[p])
    BY <1>8, <1>10
  <2>3. Grows /\ \A m \in Mail : asked'[m] = asked[m] \/ ~sent[m].end
    BY <1>3 DEF Grows
  <2> QED
    BY <1>3, <2>1, <2>2, <2>3, ClientProc
<1>14. \A i \in File, m \in Mail : Carries(i, m)' => Carries(i, m)
  <2>1. ASSUME proc'[p].phase = "read"
        PROVE  /\ proc[p].phase = "read" /\ proc'[p].id = proc[p].id /\ proc'[p] \in ProcType
               /\ \E T, V \in Plan :
                    /\ PlanOf(p, T) /\ V.m = T.m /\ (T.at # "none" \/ T.m \in Drop)
                    /\ Reading(proc'[p], file[proc[p].id].data, V)
    <3>1. proc[p].phase = "read" /\ proc'[p].id = proc[p].id /\ proc'[p] \in ProcType
          /\ Reading(proc'[p], file[proc[p].id].data, U)
      BY <1>8, <1>10, <2>1
    <3>2. PlanOf(p, PickPlan) /\ PickPlan \in Plan /\ PickPlan.m = U.m /\ U.m \in Drop
      BY <1>1, <1>6, <1>12, <3>1
    <3> QED
      BY <1>6, <3>1, <3>2
  <2> QED
    BY <1>3, <1>10, <2>1, SameCarries
<1>15. PickOK'
  <2>1. Serves(p, pick.d)'
    <3>1. proc'[p].phase = q.phase /\ proc'[p].eof = proc[p].eof /\ proc'[p].flags = proc[p].flags
          /\ proc'[p].id = proc[p].id /\ proc'[p].phase = proc[p].phase
      BY <1>8, <1>10
    <3> QED
      BY <1>1, <1>2, <1>3, <3>1 DEF Serves
  <2>2. Serves(pick.p, pick.d)'
    <3>1. PICK d \in Drop : d = pick.d /\ Serves(p, d)'
      BY <1>1, <2>1
    <3>2. pick'.d = d
      BY <1>4, <3>1
    <3> QED
      BY <1>4, <3>1, <3>2
  <2> QED
    BY <1>1, <1>2, <1>3, <1>4, <2>2 DEF PickOK
<1>16. (\A d \in Drop : Fate(d) => Fate(d)') => PickOK' /\ \A d \in Drop : DropOK(d)'
  BY <1>1, <1>3, <1>15, DropFrame
<1>17. PICK j \in File \cup {NoFile} : j = NoFile
  OBVIOUS
<1>18. proc'[p].phase = proc[p].phase /\ proc'[p].id = proc[p].id
  BY <1>8, <1>10
<1>19. left'.mail = left.mail /\ left'.rcpt = left.rcpt /\ UNCHANGED <<smtpdVars, asked, bounced>>
  BY <1>3
<1> QED
  BY <1>1, <1>2, <1>3, <1>4, <1>10, <1>11, <1>13, <1>14, <1>16, <1>17, <1>18, <1>19, PickupFrame

\* Pickup lets go of its process, if it has one.
LEMMA PickupCloses ==
    ASSUME IInv, UNCHANGED <<smtpdVars, file, asked, bounced, drop>>,
           pick.phase # "idle",
           pick.p = NoProc => proc' = proc,
           pick.p # NoProc => proc' = mail_stream_cleanup(proc, pick.p),
           left' \in SetupType, left'.mail = left.mail, left'.rcpt = left.rcpt,
           pick' \in PickType, pick'.p = NoProc,
           \/ pick' = PickIdle
           \/ pick'.phase = "remove" /\ pick'.d = pick.d /\ (drop[pick.d].torn \/ Fate(pick.d))
    PROVE  IInv'
<1>1. /\ pick \in PickType /\ pick.d \in Drop /\ drop[pick.d].ready /\ pick.p \in Proc \cup {NoProc}
      /\ pick.p # NoProc => /\ pick.phase \in {"copy", "rest", "wait"}
                            /\ pick.p # sess.cleanup /\ pick.p \in Proc
      /\ drop \in [Drop -> DropType] /\ (\A d \in Drop : DropOK(d)) /\ NoProc \notin Proc
      /\ NoFile \notin File
  BY PickFacts, Numbers DEF PickType, File, NoFile
<1>2. /\ sess' = sess /\ told' = told /\ sent' = sent /\ file' = file /\ asked' = asked
      /\ bounced' = bounced /\ drop' = drop
  BY DEF smtpdVars
<1>3. PICK p \in Proc \cup {NoProc} : p = pick.p
  BY <1>1
<1>4. /\ proc' \in [Proc -> ProcType]
      /\ \A r \in Proc : r # p => proc'[r] = proc[r]
      /\ p \in Proc => ProcOK(p)'
      /\ p \in Proc => \/ proc'[p].phase = proc[p].phase /\ proc'[p].id = proc[p].id
                       \/ /\ proc[p].phase \notin Running
                          /\ proc'[p].phase = "idle" /\ proc'[p].id = NoFile
      /\ \A i \in File, m \in Mail : Carries(i, m)' => Carries(i, m)
  <2>1. CASE p = NoProc
    <3>1. proc' = proc /\ proc \in [Proc -> ProcType]
      BY <1>3, <2>1, SessFacts
    <3>2. \A i \in File, m \in Mail : Carries(i, m)' => Carries(i, m)
      BY <1>2, <3>1 DEF Carries
    <3> QED
      BY <1>1, <2>1, <3>1, <3>2
  <2>2. CASE p \in Proc
    <3>1. p # NoProc /\ p # sess.cleanup /\ proc' = mail_stream_cleanup(proc, p)
      BY <1>1, <1>3, <2>2
    <3>2. PICK U \in Plan : Extends(p, proc, U)
      BY <1>1, <1>3, <3>1, PickupPlan
    <3>3. Grows /\ p # sess'.cleanup /\ p # pick'.p
      BY <1>2, <3>1 DEF Grows
    <3> QED
      BY <2>2, <3>1, <3>2, <3>3, ClosedProc
  <2> QED
    BY <2>1, <2>2
<1>5. TypeOK'
  <2>1. file \in [File -> FileType] /\ bounced \subseteq Msg /\ asked \in [Msg -> SUBSET ActionFlag]
        /\ sess \in SessType /\ sent \in [Mail -> Data]
        /\ told \in [Mail -> {"nothing", "ok", "error"}]
    BY SessFacts
  <2>2. File' = File
    BY DEF File
  <2> QED
    BY <1>1, <1>2, <1>4, <2>1, <2>2 DEF TypeOK, CleanupTypeOK, SmtpdTypeOK, PickupTypeOK
<1>6. ASSUME \A d \in Drop : Fate(d) => Fate(d)'
      PROVE  PickOK' /\ \A d \in Drop : DropOK(d)'
  <2>1. \A d \in Drop : DropOK(d)'
    BY <1>1, <1>2, <1>6, DropFrame
  <2>2. CASE pick' = PickIdle
    BY <2>1, <2>2 DEF PickOK, PickIdle
  <2>3. CASE pick'.phase = "remove" /\ pick'.d = pick.d /\ (drop[pick.d].torn \/ Fate(pick.d))
    <3>1. PICK d \in Drop : d = pick.d /\ pick'.d = d /\ drop[d].ready /\ (drop[d].torn \/ Fate(d))
      BY <1>1, <2>3
    <3>2. drop'[d].torn \/ Fate(d)'
      BY <1>2, <1>6, <3>1
    <3>3. drop'[pick'.d].torn \/ Fate(pick.d)'
      BY <3>1, <3>2
    <3> QED
      BY <1>2, <2>1, <2>3, <3>1, <3>3 DEF PickOK
  <2> QED
    BY <2>2, <2>3
<1>7. PICK j \in File \cup {NoFile} : j = NoFile
  OBVIOUS
<1>8. (p = NoProc \/ p # sess.cleanup) /\ pick'.p \in {p, NoProc}
      /\ UNCHANGED <<smtpdVars, asked, bounced>>
  BY <1>1, <1>3
<1> QED
  BY <1>1, <1>2, <1>4, <1>5, <1>6, <1>7, <1>8, PickupFrame

LEMMA PickupCopyStep ==
    ASSUME IInv, PickupCopy, UNCHANGED smtpdVars
    PROVE  IInv'
<1>1. pick.phase = "copy" /\ UNCHANGED <<smtpdVars, file, asked, bounced, left, drop>>
  BY DEF PickupCopy
<1>2. /\ pick \in PickType /\ pick.d \in Drop /\ pick.p \in Proc /\ pick.p # NoProc
      /\ left \in SetupType
  BY <1>1, PickFacts, SessFacts
<1>3. CASE drop[pick.d].torn
  <2>1. /\ proc' = mail_stream_cleanup(proc, pick.p)
        /\ pick' = [pick EXCEPT !.phase = "remove", !.p = NoProc]
    BY <1>3 DEF PickupCopy
  <2>2. pick' \in PickType /\ pick'.p = NoProc /\ pick'.phase = "remove" /\ pick'.d = pick.d
    BY <1>2, <2>1 DEF PickType
  <2>3. left' \in SetupType /\ left'.mail = left.mail /\ left'.rcpt = left.rcpt
    BY <1>1, <1>2
  <2> QED
    BY <1>1, <1>2, <1>3, <2>1, <2>2, <2>3, PickupCloses
<1>4. CASE ~drop[pick.d].torn
  <2>1. /\ proc' = Write(proc, pick.p, <<RecOf("FROM", pick.d), RecOf("RCPT", <<pick.d, 1>>),
                                         Rec("MESG"), Rec("NORM")>>)
        /\ pick' = [pick EXCEPT !.phase = "rest"]
    BY <1>4 DEF PickupCopy
  <2>2. PICK T \in Plan :
          /\ T.m = pick.d /\ T.n = 1 /\ T.f = {} /\ T.k = 1 /\ T.at = "none"
          /\ Extends(pick.p, proc, T)
    BY <1>1, PickupPlan
  <2>3. PICK U : U = [m |-> pick.d, n |-> 1, f |-> {}, k |-> 1, at |-> "message"]
    OBVIOUS
  <2>4. U \in Plan /\ U.m = T.m /\ U.n = 1 /\ U.f = {} /\ U.k = 1 /\ U.at = "message"
    BY <1>2, <2>2, <2>3, PickPlanType
  <2>5. PICK recs : recs = <<RecOf("FROM", pick.d), RecOf("RCPT", <<pick.d, 1>>),
                             Rec("MESG"), Rec("NORM")>>
    OBVIOUS
  <2>6. recs \in Seq(Record) /\ GoesOn(T, U, recs)
    BY <2>2, <2>4, <2>5, WriteCopy
  <2>7. Wrote(proc, proc', pick.p, file[proc[pick.p].id].data, U)
    BY <1>2, <2>1, <2>2, <2>4, <2>5, <2>6, WroteMore DEF Extends
  <2> QED
    BY <1>1, <2>1, <2>3, <2>7, PickupWrites
<1> QED
  BY <1>3, <1>4

LEMMA PickupRestStep ==
    ASSUME IInv, PickupRest, UNCHANGED smtpdVars
    PROVE  IInv'
<1>1. /\ pick.phase = "rest" /\ UNCHANGED <<smtpdVars, file, asked, bounced, left, drop>>
      /\ proc' = Write(proc, pick.p, <<Rec("XTRA"), Rec("END")>>)
      /\ pick' = [pick EXCEPT !.phase = "wait"]
  BY DEF PickupRest
<1>2. pick.d \in Drop /\ pick.p \in Proc
  BY <1>1, PickFacts
<1>3. PICK T \in Plan :
        /\ T.m = pick.d /\ T.n = 1 /\ T.f = {} /\ T.k = 1 /\ T.at = "message"
        /\ Extends(pick.p, proc, T)
  BY <1>1, PickupPlan
<1>4. PICK U : U = [m |-> pick.d, n |-> 1, f |-> {}, k |-> 1, at |-> "extracted"]
  OBVIOUS
<1>5. U \in Plan /\ U.m = T.m /\ U.n = T.n /\ U.f = {} /\ U.k = T.k /\ U.at = "extracted"
  BY <1>2, <1>3, <1>4, PickPlanType
<1>6. PICK recs : recs = <<Rec("XTRA"), Rec("END")>>
  OBVIOUS
<1>7. recs \in Seq(Record) /\ GoesOn(T, U, recs)
  BY <1>3, <1>5, <1>6, WriteRest
<1>8. Wrote(proc, proc', pick.p, file[proc[pick.p].id].data, U)
  BY <1>1, <1>2, <1>3, <1>5, <1>6, <1>7, WroteMore DEF Extends
<1> QED
  BY <1>1, <1>4, <1>8, PickupWrites

\* The status of cleanup decides whether the maildrop file may go.
LEMMA PickupFinishStep ==
    ASSUME IInv, PickupFinish, UNCHANGED smtpdVars
    PROVE  IInv'
<1>1. /\ pick.phase = "wait" /\ Answered(pick.p)
      /\ UNCHANGED <<smtpdVars, file, asked, bounced, left, drop>>
      /\ proc' = mail_stream_cleanup(proc, pick.p)
  BY DEF PickupFinish
<1>2. /\ pick \in PickType /\ pick.d \in Drop /\ pick.d \in Msg /\ pick.p \in Proc
      /\ pick.p # NoProc /\ Serves(pick.p, pick.d) /\ left \in SetupType
  BY <1>1, PickFacts, SessFacts
<1>3. left' \in SetupType /\ left'.mail = left.mail /\ left'.rcpt = left.rcpt
  BY <1>1, <1>2
<1>4. CASE Removable(mail_stream_finish_ipc(pick.p))
  <2>1. pick' = [pick EXCEPT !.phase = "remove", !.p = NoProc]
    BY <1>4 DEF PickupFinish
  <2>2. pick' \in PickType /\ pick'.p = NoProc /\ pick'.phase = "remove" /\ pick'.d = pick.d
    BY <1>2, <2>1 DEF PickType
  <2>3. mail_stream_finish_ipc(pick.p) \cap {"BAD", "RCPT"} = {}
    <3>1. ProcOK(pick.p) /\ ~proc[pick.p].eof
      BY <1>2 DEF IInv, Serves
    <3>2. proc[pick.p].errs \cap {"BAD", "RCPT"} = {}
      BY <3>1 DEF ProcOK
    <3> QED
      BY <3>2 DEF mail_stream_finish_ipc
  <2>4. proc[pick.p].phase = "answered" /\ proc[pick.p].errs = {}
    BY <1>4, <2>3 DEF Removable, mail_stream_finish_ipc
  <2>5. Fate(pick.d)
    BY <1>2, <2>4, AnswerTrue DEF Fate
  <2> QED
    BY <1>1, <1>2, <1>3, <2>2, <2>5, PickupCloses
<1>5. CASE ~Removable(mail_stream_finish_ipc(pick.p))
  <2>1. pick' = PickIdle
    BY <1>5 DEF PickupFinish
  <2>2. pick' \in PickType /\ pick'.p = NoProc
    BY <2>1 DEF PickType, PickIdle, NoMsg
  <2> QED
    BY <1>1, <1>2, <1>3, <2>1, <2>2, PickupCloses
<1> QED
  BY <1>4, <1>5

LEMMA PickupDiesStep ==
    ASSUME IInv, PickupDies, UNCHANGED smtpdVars
    PROVE  IInv'
<1>1. /\ pick.phase # "idle" /\ UNCHANGED <<smtpdVars, file, asked, bounced, drop>>
      /\ pick' = PickIdle /\ Spend("fault")
      /\ pick.p = NoProc => proc' = proc
      /\ pick.p # NoProc => proc' = mail_stream_cleanup(proc, pick.p)
  BY DEF PickupDies
<1>2. pick' \in PickType /\ pick'.p = NoProc
  BY <1>1 DEF PickType, PickIdle, NoMsg
<1>3. left' \in SetupType /\ left'.mail = left.mail /\ left'.rcpt = left.rcpt
  BY <1>1, SessFacts, LeftFacts
<1> QED
  BY <1>1, <1>2, <1>3, PickupCloses

LEMMA PickupOpenStep ==
    ASSUME IInv, NEW d \in Drop, PickupOpen(d), UNCHANGED smtpdVars
    PROVE  IInv'
<1>1. /\ pick.phase = "idle" /\ drop[d].ready /\ CanOpen
      /\ file' = [file EXCEPT ![NextFile] = NewFile]
      /\ proc' = [proc EXCEPT ![AnyProc] = Opened({"BOUNCE"})]
      /\ pick' = [phase |-> "copy", d |-> d, p |-> AnyProc]
      /\ UNCHANGED <<smtpdVars, asked, bounced, left, drop>>
  BY DEF PickupOpen
<1>2. PICK p \in Proc, j \in File :
        /\ p = AnyProc /\ j = NextFile
        /\ proc[p] = IdleProc /\ proc[p].phase = "idle" /\ file[j].loc = "none"
        /\ p # sess.cleanup /\ p # NoProc
  BY <1>1, OpeningFacts
<1>3. /\ sess' = sess /\ told' = told /\ sent' = sent /\ asked' = asked
      /\ bounced' = bounced /\ left' = left /\ drop' = drop
  BY <1>1 DEF smtpdVars
<1>4. /\ proc \in [Proc -> ProcType] /\ file \in [File -> FileType]
      /\ asked \in [Msg -> SUBSET ActionFlag] /\ left \in SetupType
      /\ d \in Msg /\ d \notin Mail /\ NoMsg \notin Mail /\ NoFile \notin File
  BY SessFacts, Numbers DEF File, NoFile
<1>5. PICK q : q = Opened({"BOUNCE"})
  OBVIOUS
<1>6. /\ q \in ProcType /\ q.phase = "read" /\ q.id = j /\ q.pipe = <<>> /\ q.act = "envelope"
      /\ q.eof = FALSE /\ q.errs = {} /\ q.flags = {"BOUNCE"}
  BY <1>2, <1>5, EmptyTypes DEF Opened, IdleProc, ProcType, Running, Flag
<1>7. /\ proc' \in [Proc -> ProcType] /\ proc'[p] = q
      /\ \A r \in Proc : r # p => proc'[r] = proc[r]
  BY <1>1, <1>2, <1>4, <1>5, <1>6
<1>8. /\ file'[j] = NewFile /\ \A i \in File : i # j => file'[i] = file[i]
      /\ file' \in [File -> FileType]
  BY <1>1, <1>2, <1>4, EmptyTypes
<1>9. /\ NewFile.data = NoData /\ NewFile.loc = "incoming" /\ ~NewFile.ready /\ ~NewFile.torn
      /\ NewFile.asked = {} /\ NoData.from = NoMsg
  BY DEF NewFile, NoData
<1>10. pick' \in PickType /\ pick'.phase = "copy" /\ pick'.d = d /\ pick'.p = p
  BY <1>1, <1>2 DEF PickType
<1>11. TypeOK'
  <2>1. bounced \subseteq Msg /\ sess \in SessType /\ sent \in [Mail -> Data]
        /\ told \in [Mail -> {"nothing", "ok", "error"}] /\ drop \in [Drop -> DropType]
    BY SessFacts DEF PickupTypeOK
  <2>2. File' = File
    BY DEF File
  <2> QED
    BY <1>3, <1>4, <1>7, <1>8, <1>10, <2>1, <2>2
       DEF TypeOK, CleanupTypeOK, SmtpdTypeOK, PickupTypeOK
<1>12. PICK U : U = [m |-> d, n |-> 1, f |-> {}, k |-> 1, at |-> "none"]
  OBVIOUS
<1>13. U \in Plan /\ U.m = d /\ U.f = {} /\ U.at = "none"
  BY <1>12, PickPlanType
<1>14. U = PickPlan'
  BY <1>10, <1>12 DEF PickPlan
<1>15. ProcOK(p)'
  <2>1. PlanOf(p, U)'
    <3>1. Reading(q, NoData, U)
      BY <1>6, <1>13, ReadNothing
    <3>2. Reading(proc[p], file[proc[p].id].data, U)'
      BY <1>6, <1>7, <1>8, <1>9, <3>1
    <3>3. "BOUNCE" \in proc'[p].flags
      BY <1>6, <1>7
    <3> QED
      BY <1>2, <1>3, <1>4, <1>13, <1>14, <3>2, <3>3 DEF PlanOf
  <2>2. OutOk(proc[p])'
    BY <1>6, <1>7 DEF OutOk
  <2>3. /\ proc'[p].phase = "read" /\ proc'[p].id = j /\ proc'[p].errs = {}
        /\ proc'[p].flags = {"BOUNCE"} /\ file'[j] = NewFile
    BY <1>6, <1>7, <1>8
  <2> QED
    BY <1>9, <1>13, <2>1, <2>2, <2>3 DEF ProcOK, Running
<1>16. \A i \in File, m \in Mail : Carries(i, m)' => Carries(i, m)
  <2> SUFFICES ASSUME NEW i \in File, NEW m \in Mail, Carries(i, m)'
               PROVE  Carries(i, m)
    OBVIOUS
  <2>1. file'[i].data.from = m => Carries(i, m)
    BY <1>4, <1>8, <1>9 DEF Carries
  <2>2. ASSUME NEW r \in Proc, proc'[r].phase = "read", proc'[r].id = i, proc'[r].pipe # <<>>,
               Head(proc'[r].pipe) = RecOf("FROM", m)
        PROVE  Carries(i, m)
    <3>1. r # p
      BY <1>6, <1>7, <2>2
    <3> QED
      BY <1>7, <2>2, <3>1 DEF Carries
  <2> QED
    BY <2>1, <2>2 DEF Carries
<1>17. PickOK'
  <2>1. Serves(p, d)'
    BY <1>3, <1>6, <1>7, <1>8, <1>9 DEF Serves
  <2>2. Serves(pick.p, pick.d)'
    BY <1>10, <2>1
  <2> QED
    BY <1>1, <1>2, <1>3, <1>10, <2>2 DEF PickOK
<1>18. (\A e \in Drop : Fate(e) => Fate(e)') => PickOK' /\ \A e \in Drop : DropOK(e)'
  <2>1. \A e \in Drop : DropOK(e)
    BY DEF IInv
  <2> QED
    BY <1>3, <1>17, <2>1, DropFrame
<1>19. /\ left'.mail = left.mail /\ left'.rcpt = left.rcpt /\ UNCHANGED <<smtpdVars, asked, bounced>>
       /\ j # NoFile /\ proc'[p].phase = "read" /\ proc'[p].id = j
  BY <1>1, <1>3, <1>4, <1>6, <1>7
<1> QED
  BY <1>2, <1>7, <1>8, <1>10, <1>11, <1>15, <1>16, <1>18, <1>19, PickupFrame

\* A step that changes only a maildrop file, and perhaps pickup.
LEMMA DropStep ==
    ASSUME IInv, UNCHANGED <<smtpdVars, proc, file, asked, bounced>>,
           left' \in SetupType, left'.mail = left.mail, left'.rcpt = left.rcpt,
           NEW d \in Drop, NEW D \in DropType, drop' = [drop EXCEPT ![d] = D],
           drop[d].ready => D.ready, drop[d].torn => D.torn,
           pick' = pick \/ pick' = PickIdle,
           (Fate(d) => Fate(d)') => DropOK(d)'
    PROVE  IInv'
<1>1. /\ sess' = sess /\ told' = told /\ sent' = sent /\ file' = file /\ asked' = asked
      /\ bounced' = bounced /\ proc' = proc
  BY DEF smtpdVars
<1>2. /\ drop \in [Drop -> DropType] /\ pick \in PickType /\ PickOK
      /\ \A e \in Drop : DropOK(e)
  BY DEF IInv, TypeOK, PickupTypeOK
<1>3. drop' \in [Drop -> DropType] /\ drop'[d] = D /\ \A e \in Drop : e # d => drop'[e] = drop[e]
  BY <1>2
<1>4. TypeOK'
  <2>1. file \in [File -> FileType] /\ bounced \subseteq Msg /\ asked \in [Msg -> SUBSET ActionFlag]
        /\ sess \in SessType /\ sent \in [Mail -> Data] /\ proc \in [Proc -> ProcType]
        /\ told \in [Mail -> {"nothing", "ok", "error"}]
    BY SessFacts
  <2>2. File' = File
    BY DEF File
  <2>3. pick' \in PickType
    BY <1>2 DEF PickIdle, PickType, NoMsg
  <2> QED
    BY <1>1, <1>3, <2>1, <2>2, <2>3 DEF TypeOK, CleanupTypeOK, SmtpdTypeOK, PickupTypeOK
<1>5. ASSUME \A e \in Drop : Fate(e) => Fate(e)'
      PROVE  PickOK' /\ \A e \in Drop : DropOK(e)'
  <2>1. \A e \in Drop : DropOK(e)'
    <3>1. ASSUME NEW e \in Drop, e # d
          PROVE  DropOK(e)'
      BY <1>2, <1>3, <1>5, <3>1, DropFrame
    <3>2. DropOK(d)'
      BY <1>5
    <3> QED
      BY <3>1, <3>2
  <2>2. CASE pick' = PickIdle
    BY <2>1, <2>2 DEF PickOK, PickIdle
  <2>3. CASE pick' = pick
    <3>1. \A e \in Drop : (drop[e].ready => drop'[e].ready) /\ (drop[e].torn => drop'[e].torn)
      BY <1>3
    <3>2. ASSUME pick.phase # "idle"
          PROVE  pick.d \in Drop /\ drop'[pick.d].ready
      BY <1>2, <3>1, <3>2 DEF PickOK
    <3>3. ASSUME pick.phase = "remove"
          PROVE  drop'[pick.d].torn \/ Fate(pick.d)'
      <4>1. PICK e \in Drop : e = pick.d
        BY <3>2, <3>3
      <4>2. drop[e].torn \/ Fate(e)
        BY <1>2, <3>3, <4>1 DEF PickOK
      <4>3. drop'[e].torn \/ Fate(e)'
        BY <1>5, <3>1, <4>2
      <4>4. pick'.d = e
        BY <2>3, <4>1
      <4> QED
        BY <2>3, <4>1, <4>3
    <3>4. ASSUME pick.phase \in {"copy", "rest", "wait"}
          PROVE  Serves(pick.p, pick.d)'
      <4>1. Serves(pick.p, pick.d)
        BY <1>2, <3>4 DEF PickOK
      <4> QED
        BY <1>1, <2>3, <4>1 DEF Serves
    <3> QED
      BY <1>1, <1>2, <2>1, <2>3, <3>2, <3>3, <3>4 DEF PickOK
  <2> QED
    BY <2>2, <2>3
<1>6. \A i \in File, m \in Mail : Carries(i, m)' => Carries(i, m)
  BY <1>1 DEF Carries
<1>7. PICK p \in Proc \cup {NoProc}, j \in File \cup {NoFile} : p = NoProc /\ j = NoFile
  OBVIOUS
<1>8. p \notin Proc /\ j \notin File /\ UNCHANGED <<smtpdVars, asked, bounced>>
  BY <1>7, Numbers DEF File, NoFile
<1>9. pick'.p \in {p, NoProc} \/ UNCHANGED pick
  BY DEF PickIdle
<1> QED
  BY <1>1, <1>4, <1>5, <1>6, <1>7, <1>8, <1>9, PickupFrame

LEMMA PickupRemoveStep ==
    ASSUME IInv, PickupRemove, UNCHANGED smtpdVars
    PROVE  IInv'
<1>1. /\ pick.phase = "remove" /\ drop' = [drop EXCEPT ![pick.d] = DropRemoved(@)]
      /\ pick' = PickIdle /\ UNCHANGED <<smtpdVars, proc, file, asked, bounced, left>>
  BY DEF PickupRemove
<1>2. /\ pick.d \in Drop /\ drop[pick.d].ready /\ (drop[pick.d].torn \/ Fate(pick.d))
      /\ drop \in [Drop -> DropType] /\ \A d \in Drop : DropOK(d)
  BY <1>1, PickFacts
<1>3. PICK d \in Drop : d = pick.d
  BY <1>2
<1>4. PICK D : D = [drop[d] EXCEPT !.loc = "removed"]
  OBVIOUS
<1>5. /\ D \in DropType /\ D.loc = "removed" /\ D.post = drop[d].post /\ D.status = drop[d].status
      /\ D.ready = drop[d].ready /\ D.synced = drop[d].synced /\ D.torn = drop[d].torn
      /\ D.user = drop[d].user
  BY <1>2, <1>4 DEF DropType
<1>6. drop' = [drop EXCEPT ![d] = D]
  BY <1>1, <1>2, <1>3, <1>4 DEF DropRemoved
<1>7. drop'[d] = D
  BY <1>2, <1>6
<1>8. (Fate(d) => Fate(d)') => DropOK(d)'
  <2>1. D.post \notin {"none", "write", "chmod"}
    BY <1>2, <1>3, <1>5 DEF DropOK
  <2> QED
    BY <1>2, <1>3, <1>5, <1>7, <2>1 DEF DropOK
<1>9. left' \in SetupType /\ left'.mail = left.mail /\ left'.rcpt = left.rcpt
  BY <1>1, SessFacts
<1>10. /\ UNCHANGED <<smtpdVars, proc, file, asked, bounced>>
       /\ drop[d].ready => D.ready
       /\ drop[d].torn => D.torn
  BY <1>1, <1>5
<1> QED
  BY <1>1, <1>5, <1>6, <1>8, <1>9, <1>10, DropStep

\* postdrop: one lemma for a file that is being written, and what follows.
LEMMA PostdropStep1 ==
    ASSUME IInv, NEW d \in Drop, UNCHANGED <<smtpdVars, proc, file, asked, bounced, pick>>,
           NEW D \in DropType, drop' = [drop EXCEPT ![d] = D],
           UNCHANGED left \/ Spend("fault") \/ Spend("drop"),
           drop[d].ready => D.ready, D.torn <=> drop[d].torn,
           (Fate(d) => Fate(d)') => DropOK(d)'
    PROVE  IInv'
<1>1. left' \in SetupType /\ left'.mail = left.mail /\ left'.rcpt = left.rcpt
  BY SessFacts, LeftFacts
<1>2. UNCHANGED <<smtpdVars, proc, file, asked, bounced>>
  OBVIOUS
<1>3. pick' = pick \/ pick' = PickIdle
  OBVIOUS
<1> QED
  BY <1>1, <1>2, <1>3, DropStep

LEMMA DropFacts ==
    ASSUME IInv, NEW d \in Drop
    PROVE  /\ drop \in [Drop -> DropType] /\ drop[d] \in DropType /\ DropOK(d)
           /\ \A D : drop' = [drop EXCEPT ![d] = D] => drop'[d] = D
           /\ drop[d].torn => drop[d].post = "dead" \/ (drop[d].post = "done" /\ drop[d].status # {})
           /\ drop[d].user = "ok" => drop[d].post = "done" /\ drop[d].status = {}
BY DEF IInv, TypeOK, PickupTypeOK, DropOK

LEMMA PostdropStartStep ==
    ASSUME IInv, NEW d \in Drop, PostdropStart(d), UNCHANGED smtpdVars
    PROVE  IInv'
<1>1. /\ drop[d].post = "none" /\ Spend("drop")
      /\ drop' = [drop EXCEPT ![d].loc = "maildrop", ![d].post = "write"]
      /\ UNCHANGED <<smtpdVars, proc, file, asked, bounced, pick>>
  BY DEF PostdropStart
<1>2. PICK D : D = [drop[d] EXCEPT !.loc = "maildrop", !.post = "write"]
  OBVIOUS
<1>3. drop[d] \in DropType /\ DropOK(d) /\ ~drop[d].torn /\ drop[d].user # "ok"
      /\ drop \in [Drop -> DropType]
  BY <1>1, DropFacts
<1>4. /\ D \in DropType /\ D.loc = "maildrop" /\ D.post = "write" /\ D.status = drop[d].status
      /\ D.ready = drop[d].ready /\ D.torn = drop[d].torn /\ D.user = drop[d].user
  BY <1>2, <1>3 DEF DropType
<1>5. drop' = [drop EXCEPT ![d] = D]
  BY <1>1, <1>2, <1>3
<1>6. drop'[d] = D
  BY <1>5, DropFacts
<1>7. drop[d].status = {} /\ ~drop[d].ready
  BY <1>1, <1>3 DEF DropOK, NoDrop
<1>8. DropOK(d)'
  BY <1>3, <1>4, <1>6, <1>7 DEF DropOK
<1>9. (drop[d].ready => D.ready) /\ (D.torn <=> drop[d].torn)
  BY <1>4
<1> QED
  BY <1>1, <1>4, <1>5, <1>8, <1>9, PostdropStep1

LEMMA PostdropInputStep ==
    ASSUME IInv, NEW d \in Drop, PostdropInput(d), UNCHANGED smtpdVars
    PROVE  IInv'
<1>1. /\ drop[d].post = "write"
      /\ UNCHANGED <<smtpdVars, proc, file, asked, bounced, left, pick>>
      /\ UNCHANGED <<smtpdVars, proc, file, asked, bounced, pick>> /\ left' = left
  BY DEF PostdropInput
<1>2. /\ drop[d] \in DropType /\ DropOK(d) /\ ~drop[d].torn /\ drop[d].user # "ok"
      /\ drop \in [Drop -> DropType]
      /\ drop[d].status = {} /\ ~drop[d].ready /\ drop[d].loc = "maildrop"
  BY <1>1, DropFacts DEF DropOK
<1>3. CASE drop' = [drop EXCEPT ![d].post = "chmod"]
  <2>1. PICK D : D = [drop[d] EXCEPT !.post = "chmod"]
    OBVIOUS
  <2>2. /\ D \in DropType /\ D.loc = "maildrop" /\ D.post = "chmod" /\ D.status = {}
        /\ ~D.ready /\ ~D.torn /\ D.user # "ok"
    BY <1>2, <2>1 DEF DropType
  <2>3. drop' = [drop EXCEPT ![d] = D]
    BY <1>2, <1>3, <2>1
  <2>4. drop'[d] = D
    BY <2>3, DropFacts
  <2>5. DropOK(d)'
    BY <2>2, <2>4 DEF DropOK
  <2> QED
    BY <1>1, <1>2, <2>2, <2>3, <2>5, PostdropStep1
<1>4. CASE drop' = [drop EXCEPT ![d] = [DropRemoved(@) EXCEPT !.post = "dead"]]
  <2>1. PICK D : D = [drop[d] EXCEPT !.loc = "removed", !.post = "dead"]
    OBVIOUS
  <2>2. /\ D \in DropType /\ D.post = "dead" /\ ~D.ready /\ ~D.torn /\ D.user # "ok"
    BY <1>2, <2>1 DEF DropType
  <2>3. drop' = [drop EXCEPT ![d] = D]
    <3>1. [DropRemoved(drop[d]) EXCEPT !.post = "dead"] = D
      BY <1>2, <2>1 DEF DropRemoved, DropType
    <3> QED
      BY <1>2, <1>4, <3>1
  <2>4. drop'[d] = D
    BY <2>3, DropFacts
  <2>5. DropOK(d)'
    BY <2>2, <2>4 DEF DropOK
  <2> QED
    BY <1>1, <1>2, <2>2, <2>3, <2>5, PostdropStep1
<1>5. CASE drop' = [drop EXCEPT ![d].post = "tell", ![d].status = {"BAD"}]
  <2>1. PICK D : D = [drop[d] EXCEPT !.post = "tell", !.status = {"BAD"}]
    OBVIOUS
  <2>2. /\ D \in DropType /\ D.post = "tell" /\ D.status = {"BAD"}
        /\ ~D.ready /\ ~D.torn /\ D.user # "ok"
    BY <1>2, <2>1 DEF DropType, Stat
  <2>3. drop' = [drop EXCEPT ![d] = D]
    BY <1>2, <1>5, <2>1
  <2>4. drop'[d] = D
    BY <2>3, DropFacts
  <2>5. DropOK(d)'
    BY <2>2, <2>4 DEF DropOK
  <2> QED
    BY <1>1, <1>2, <2>2, <2>3, <2>5, PostdropStep1
<1> QED
  BY <1>3, <1>4, <1>5 DEF PostdropInput

LEMMA PostdropFailStep ==
    ASSUME IInv, NEW d \in Drop, drop[d].post \in {"chmod", "sync"}, PostdropFail(d, drop[d]),
           UNCHANGED <<smtpdVars, proc, file, asked, bounced, pick>>
    PROVE  IInv'
<1>1. /\ drop[d] \in DropType /\ DropOK(d) /\ ~drop[d].torn /\ drop[d].user # "ok"
      /\ drop \in [Drop -> DropType]
  BY DropFacts
<1>2. PICK D : D = [drop[d] EXCEPT !.loc = "removed", !.post = "tell", !.status = {"WRITE"}]
  OBVIOUS
<1>3. /\ D \in DropType /\ D.post = "tell" /\ D.status = {"WRITE"}
      /\ D.ready = drop[d].ready /\ D.torn = drop[d].torn /\ D.user # "ok"
  BY <1>1, <1>2 DEF DropType, Stat
<1>4. drop' = [drop EXCEPT ![d] = D] /\ Spend("fault")
  <2>1. [DropRemoved(drop[d]) EXCEPT !.post = "tell", !.status = {"WRITE"}] = D
    BY <1>1, <1>2 DEF DropRemoved, DropType
  <2> QED
    BY <1>1, <2>1 DEF PostdropFail
<1>5. drop'[d] = D
  BY <1>4, DropFacts
<1>6. DropOK(d)'
  BY <1>1, <1>3, <1>5 DEF DropOK
<1>7. (drop[d].ready => D.ready) /\ (D.torn <=> drop[d].torn)
  BY <1>3
<1> QED
  BY <1>3, <1>4, <1>6, <1>7, PostdropStep1

\* fchmod(), fsync(), and postdrop_path = 0.
LEMMA PostdropCommitStep ==
    ASSUME IInv, NEW d \in Drop, PostdropChmod(d) \/ PostdropSync(d) \/ PostdropForget(d),
           UNCHANGED smtpdVars
    PROVE  IInv'
<1>1. UNCHANGED <<smtpdVars, proc, file, asked, bounced, pick>>
  BY DEF PostdropChmod, PostdropSync, PostdropForget
<1>2. drop[d] \in DropType /\ DropOK(d) /\ drop \in [Drop -> DropType]
  BY DropFacts
<1>3. CASE drop[d].post \in {"chmod", "sync"} /\ PostdropFail(d, drop[d])
  BY <1>1, <1>3, PostdropFailStep
<1>4. CASE /\ drop[d].post = "chmod" /\ UNCHANGED left
           /\ drop' = [drop EXCEPT ![d].post = "sync", ![d].ready = TRUE]
  <2>1. PICK D : D = [drop[d] EXCEPT !.post = "sync", !.ready = TRUE]
    OBVIOUS
  <2>2. /\ D \in DropType /\ D.loc = "maildrop" /\ D.post = "sync" /\ D.status = {}
        /\ D.ready = TRUE /\ D.torn = drop[d].torn /\ D.user = drop[d].user
    BY <1>2, <1>4, <2>1 DEF DropType, DropOK
  <2>3. drop' = [drop EXCEPT ![d] = D]
    BY <1>2, <1>4, <2>1
  <2>4. drop'[d] = D /\ ~drop[d].torn /\ drop[d].user # "ok"
    BY <1>4, <2>3, DropFacts
  <2>5. DropOK(d)'
    BY <2>2, <2>4 DEF DropOK
  <2>6. (drop[d].ready => D.ready) /\ (D.torn <=> drop[d].torn)
    BY <2>2
  <2> QED
    BY <1>1, <1>4, <2>2, <2>3, <2>5, <2>6, PostdropStep1
<1>5. CASE /\ drop[d].post = "sync" /\ UNCHANGED left
           /\ drop' = [drop EXCEPT ![d].post = "forget", ![d].synced = TRUE]
  <2>1. PICK D : D = [drop[d] EXCEPT !.post = "forget", !.synced = TRUE]
    OBVIOUS
  <2>2. /\ D \in DropType /\ D.loc = drop[d].loc /\ D.post = "forget" /\ D.status = drop[d].status
        /\ D.ready = drop[d].ready /\ D.torn = drop[d].torn /\ D.user = drop[d].user
        /\ D.synced = TRUE
    BY <1>2, <1>5, <2>1 DEF DropType
  <2>3. drop' = [drop EXCEPT ![d] = D]
    BY <1>2, <1>5, <2>1
  <2>4. drop'[d] = D /\ ~drop[d].torn /\ drop[d].user # "ok"
    BY <1>5, <2>3, DropFacts
  <2>5. (Fate(d) => Fate(d)') => DropOK(d)'
    BY <1>2, <1>5, <2>2, <2>4 DEF DropOK
  <2>6. (drop[d].ready => D.ready) /\ (D.torn <=> drop[d].torn)
    BY <2>2
  <2> QED
    BY <1>1, <1>5, <2>2, <2>3, <2>5, <2>6, PostdropStep1
<1>6. CASE /\ drop[d].post = "forget" /\ UNCHANGED left
           /\ drop' = [drop EXCEPT ![d].post = "tell"]
  <2>1. PICK D : D = [drop[d] EXCEPT !.post = "tell"]
    OBVIOUS
  <2>2. /\ D \in DropType /\ D.loc = drop[d].loc /\ D.post = "tell" /\ D.status = drop[d].status
        /\ D.ready = drop[d].ready /\ D.torn = drop[d].torn /\ D.user = drop[d].user
        /\ D.synced = drop[d].synced
    BY <1>2, <1>6, <2>1 DEF DropType
  <2>3. drop' = [drop EXCEPT ![d] = D]
    BY <1>2, <1>6, <2>1
  <2>4. drop'[d] = D /\ ~drop[d].torn /\ drop[d].user # "ok"
    BY <1>6, <2>3, DropFacts
  <2>5. (Fate(d) => Fate(d)') => DropOK(d)'
    BY <1>2, <1>6, <2>2, <2>4 DEF DropOK
  <2>6. (drop[d].ready => D.ready) /\ (D.torn <=> drop[d].torn)
    BY <2>2
  <2> QED
    BY <1>1, <1>6, <2>2, <2>3, <2>5, <2>6, PostdropStep1
<1> QED
  BY <1>3, <1>4, <1>5, <1>6 DEF PostdropChmod, PostdropSync, PostdropForget

LEMMA PostdropTellStep ==
    ASSUME IInv, NEW d \in Drop, PostdropTell(d), UNCHANGED smtpdVars
    PROVE  IInv'
<1>1. /\ drop[d].post = "tell" /\ UNCHANGED <<smtpdVars, proc, file, asked, bounced, pick>>
      /\ UNCHANGED left
      /\ drop' = [drop EXCEPT ![d].post = "done",
                              ![d].user = IF drop[d].status = {} THEN "ok" ELSE "error"]
  BY DEF PostdropTell
<1>2. drop[d] \in DropType /\ DropOK(d) /\ ~drop[d].torn /\ drop \in [Drop -> DropType]
  BY <1>1, DropFacts
<1>3. PICK u \in {"ok", "error"} : u = IF drop[d].status = {} THEN "ok" ELSE "error"
  OBVIOUS
<1>4. PICK D : D = [drop[d] EXCEPT !.post = "done", !.user = u]
  OBVIOUS
<1>5. /\ D \in DropType /\ D.loc = drop[d].loc /\ D.post = "done" /\ D.status = drop[d].status
      /\ D.ready = drop[d].ready /\ D.torn = drop[d].torn /\ D.user = u
      /\ D.synced = drop[d].synced
  BY <1>2, <1>4 DEF DropType
<1>6. drop' = [drop EXCEPT ![d] = D]
  BY <1>1, <1>2, <1>3, <1>4
<1>7. drop'[d] = D
  BY <1>6, DropFacts
<1>8. (Fate(d) => Fate(d)') => DropOK(d)'
  BY <1>1, <1>2, <1>3, <1>5, <1>7 DEF DropOK
<1>9. (drop[d].ready => D.ready) /\ (D.torn <=> drop[d].torn)
  BY <1>5
<1> QED
  BY <1>1, <1>5, <1>6, <1>8, <1>9, PostdropStep1

LEMMA PostdropSigStep ==
    ASSUME IInv, NEW d \in Drop, postdrop_sig(d), UNCHANGED smtpdVars
    PROVE  IInv'
<1>1. /\ drop[d].post \in {"write", "chmod", "sync", "forget", "tell"} /\ Spend("fault")
      /\ UNCHANGED <<smtpdVars, proc, file, asked, bounced, pick>>
      /\ drop' = [drop EXCEPT ![d] =
            [IF drop[d].post = "tell" THEN @ ELSE DropRemoved(@) EXCEPT !.post = "dead"]]
  BY DEF postdrop_sig
<1>2. /\ drop[d] \in DropType /\ DropOK(d) /\ ~drop[d].torn /\ drop[d].user # "ok"
      /\ drop \in [Drop -> DropType]
  BY <1>1, DropFacts
<1>3. PICK D : D = [IF drop[d].post = "tell" THEN drop[d] ELSE DropRemoved(drop[d])
                      EXCEPT !.post = "dead"]
  OBVIOUS
<1>4. /\ D \in DropType /\ D.post = "dead" /\ D.status = drop[d].status
      /\ D.ready = drop[d].ready /\ D.torn = drop[d].torn /\ D.user = drop[d].user
  BY <1>2, <1>3 DEF DropRemoved, DropType
<1>5. drop' = [drop EXCEPT ![d] = D]
  BY <1>1, <1>2, <1>3
<1>6. drop'[d] = D
  BY <1>5, DropFacts
<1>7. DropOK(d)'
  BY <1>2, <1>4, <1>6 DEF DropOK
<1>8. (drop[d].ready => D.ready) /\ (D.torn <=> drop[d].torn)
  BY <1>4
<1> QED
  BY <1>1, <1>4, <1>5, <1>7, <1>8, PostdropStep1

\* One step of pickup or postdrop.
LEMMA PickupPreserves ==
    ASSUME IInv, PickupNext, UNCHANGED smtpdVars
    PROVE  IInv'
<1>1. CASE PickupStep
  BY <1>1, PickupOpenStep, PickupCopyStep, PickupRestStep, PickupFinishStep, PickupRemoveStep, Zenon
     DEF PickupStep
<1>2. CASE PickupDies
  BY <1>2, PickupDiesStep
<1>3. ASSUME NEW d \in Drop, PostdropStart(d) \/ PostdropStep(d) \/ postdrop_sig(d)
      PROVE  IInv'
  BY <1>3, PostdropStartStep, PostdropInputStep, PostdropCommitStep, PostdropTellStep,
     PostdropSigStep, Zenon DEF PostdropStep
<1> QED
  BY <1>1, <1>2, <1>3 DEF PickupNext

-----------------------------------------------------------------------------
(***************************************************************************)
(* The queue manager, and a power failure.                                 *)
(***************************************************************************)
LEMMA QmgrTakesStep ==
    ASSUME IInv, NEW i \in File, QmgrTakes(i), UNCHANGED <<smtpdVars, pickupVars>>
    PROVE  IInv'
<1>1. /\ file[i].loc = "incoming" /\ file[i].ready
      /\ file' = [file EXCEPT ![i].loc = IF file[i].torn THEN "corrupt" ELSE "active"]
      /\ UNCHANGED <<proc, asked, bounced, left>>
  BY DEF QmgrTakes
<1>2. /\ sess' = sess /\ told' = told /\ sent' = sent /\ asked' = asked /\ proc' = proc
      /\ bounced' = bounced /\ left' = left /\ drop' = drop /\ pick' = pick
  BY <1>1 DEF smtpdVars, pickupVars
<1>3. /\ file \in [File -> FileType] /\ FileOK(i) /\ OwnFile /\ PickOK
      /\ (\A r \in Proc : ProcOK(r)) /\ (\A d \in Drop : DropOK(d))
      /\ (\A k \in File : FileOK(k))
  BY SessFacts DEF IInv
<1>4. PICK F : F = file'[i]
  OBVIOUS
<1>5. /\ F \in FileType /\ F.data = file[i].data /\ F.ready = file[i].ready
      /\ F.synced = file[i].synced /\ F.torn = file[i].torn /\ F.asked = file[i].asked
      /\ F.orphan = file[i].orphan
      /\ F.loc = IF file[i].torn THEN "corrupt" ELSE "active"
      /\ file' \in [File -> FileType]
      /\ \A k \in File : k # i => file'[k] = file[k]
  <2>1. PICK l \in {"corrupt", "active"} : l = IF file[i].torn THEN "corrupt" ELSE "active"
    OBVIOUS
  <2>2. PICK G : G = [file[i] EXCEPT !.loc = l]
    OBVIOUS
  <2>3. /\ G \in FileType /\ G.data = file[i].data /\ G.ready = file[i].ready
        /\ G.synced = file[i].synced /\ G.torn = file[i].torn /\ G.asked = file[i].asked
        /\ G.orphan = file[i].orphan /\ G.loc = l
    BY <1>3, <2>2 DEF FileType
  <2>4. file' = [file EXCEPT ![i] = G]
    BY <1>1, <1>3, <2>1, <2>2
  <2> QED
    BY <1>3, <1>4, <2>1, <2>3, <2>4
<1>6. Grows /\ \A m \in Mail : asked'[m] = asked[m]
  BY <1>2 DEF Grows
<1>7. TypeOK'
  <2>1. /\ proc \in [Proc -> ProcType] /\ bounced \subseteq Msg
        /\ asked \in [Msg -> SUBSET ActionFlag] /\ left \in SetupType
        /\ sess \in SessType /\ sent \in [Mail -> Data]
        /\ told \in [Mail -> {"nothing", "ok", "error"}]
        /\ PickupTypeOK
    BY SessFacts
  <2>2. File' = File
    BY DEF File
  <2> QED
    BY <1>2, <1>5, <2>1, <2>2 DEF TypeOK, CleanupTypeOK, SmtpdTypeOK, PickupTypeOK
<1>8. Complete(file[i]) /\ Wish(file[i]) = {}
  BY <1>1, <1>3 DEF FileOK
<1>9. Complete(file[i])' /\ Wish(file[i])' = {}
  <2>1. Complete(F)' /\ Wish(F)' = {}
    BY <1>2, <1>5, <1>8 DEF Complete, Wish, Whole, DropData
  <2> QED
    BY <1>4, <2>1
<1>10. \A k \in File : FileOK(k)'
  <2>1. ASSUME NEW k \in File, k # i
        PROVE  FileOK(k)'
    BY <1>2, <1>5, <1>6, <2>1, FileFrame
  <2>2. FileOK(i)'
    BY <1>1, <1>4, <1>5, <1>9 DEF FileOK
  <2> QED
    BY <2>1, <2>2
<1>11. \A r \in Proc : ProcOK(r)'
  <2> SUFFICES ASSUME NEW r \in Proc
               PROVE  ProcOK(r)'
    OBVIOUS
  <2>1. CASE proc[r].id # i
    <3>1. proc[r].id \in File => file'[proc[r].id] = file[proc[r].id]
      BY <1>5, <2>1
    <3> QED
      BY <1>2, <1>6, <3>1, ProcFrame
  <2>2. CASE proc[r].id = i /\ proc[r].phase \notin Running \cup {"answered"}
    <3>1. ProcOK(r)
      BY <1>3
    <3> QED
      BY <1>2, <2>2, <3>1 DEF ProcOK, Running
  <2>3. CASE proc[r].id = i /\ proc[r].phase \in Running \cup {"answered"}
    <3>1. ProcOK(r)
      BY <1>3
    <3>2. ~file[i].torn /\ proc[r].phase \notin {"read", "drain", "flush", "chmod"}
      BY <1>1, <2>3, <3>1 DEF ProcOK
    <3>3. /\ F.loc = "active" /\ F.ready /\ ~F.torn
          /\ Good(file[i]) => Good(file[i])'
      BY <1>1, <1>4, <1>5, <3>2 DEF Good
    <3>4. Commits(proc[r])' <=> Commits(proc[r])
      BY <1>2 DEF Commits
    <3>5. proc'[r] = proc[r] /\ file'[proc[r].id] = F /\ (Good(file[proc[r].id])' <=> Good(file[i])')
      BY <1>2, <1>4, <2>3
    <3> QED
      BY <1>5, <2>3, <3>1, <3>2, <3>3, <3>4, <3>5 DEF ProcOK, Running
  <2> QED
    BY <2>1, <2>2, <2>3
<1>12. OwnFile'
  BY <1>2, <1>3 DEF OwnFile
<1>13. \A m \in Msg : Kept(m) => Kept(m)'
  <2>1. ASSUME NEW k \in File, Good(file[k])
        PROVE  Good(file'[k]) /\ file'[k].data = file[k].data
    <3>1. CASE k # i
      BY <1>5, <2>1, <3>1
    <3>2. CASE k = i
      BY <1>4, <1>5, <2>1, <3>2 DEF Good
    <3> QED
      BY <3>1, <3>2
  <2> QED
    BY <1>2, <1>6, <2>1, KeptFrame
<1>14. \A d \in Drop : Fate(d) => Fate(d)'
  BY <1>6, <1>13, Numbers, PickupAssumption, FateFrame
<1>15. \A d \in Drop : DropOK(d)'
  BY <1>2, <1>3, <1>14, DropFrame
<1>16. ASSUME NEW k \in File
       PROVE  file'[k].data = file[k].data
  BY <1>4, <1>5
<1>17. \A k \in File, m \in Mail : Carries(k, m)' => Carries(k, m)
  BY <1>2, <1>16 DEF Carries
<1>18. MailOK' /\ OneFile'
  <2>1. UNCHANGED <<smtpdVars, asked, bounced>> /\ left'.mail = left.mail /\ left'.rcpt = left.rcpt
    BY <1>2
  <2> QED
    BY <1>13, <1>17, <2>1, MailStays
<1>19. \A r \in Proc : proc[r].phase \in Running \cup {"answered"} =>
          file'[proc[r].id].data = file[proc[r].id].data
  BY <1>3, <1>16 DEF ProcOK
<1>20. SessOK'
  <2>1. /\ sess.sender # NoMsg => asked'[sess.sender] = asked[sess.sender]
        /\ left'.mail = left.mail
        /\ pick'.p # sess.cleanup \/ pick'.p = NoProc
        /\ sess.cleanup # NoProc =>
               /\ proc'[sess.cleanup] = proc[sess.cleanup]
               /\ proc[sess.cleanup].phase \in Running \cup {"answered"} =>
                     file'[proc[sess.cleanup].id].data = file[proc[sess.cleanup].id].data
    BY <1>2, <1>19, SessFacts
  <2> QED
    BY <1>6, <2>1, SessStays
<1>21. PickOK'
  <2>1. ASSUME pick.p \in Proc, Serves(pick.p, pick.d)
        PROVE  Serves(pick.p, pick.d)'
    <3>1. proc[pick.p].phase \in Running \cup {"answered"} =>
             file'[proc[pick.p].id].data = file[proc[pick.p].id].data
      BY <1>19, <2>1
    <3> QED
      BY <1>2, <2>1, <3>1 DEF Serves
  <2>2. pick.p = sess'.cleanup => pick.p = sess.cleanup
    BY <1>2
  <2>3. \A d \in Drop : /\ drop'[d].ready = drop[d].ready
                        /\ drop[d].torn => drop'[d].torn
                        /\ Fate(d) => Fate(d)'
    BY <1>2, <1>14
  <2> QED
    BY <1>2, <1>3, <2>1, <2>2, <2>3, PickFrame
<1> QED
  BY <1>7, <1>10, <1>11, <1>12, <1>15, <1>18, <1>20, <1>21 DEF IInv

LEMMA PowerStep ==
    ASSUME IInv, PowerFails
    PROVE  IInv'
<1>1. /\ Spend("fault") /\ proc' = [p \in Proc |-> IdleProc]
      /\ asked' = asked /\ bounced' = bounced /\ told' = told
      /\ sess' = NoSession /\ pick' = PickIdle /\ sent' = GivenUp(sess)
  BY DEF PowerFails, PowerOff
<1>2. PICK lost \in SUBSET Unsynced : file' = [i \in File |-> Damaged(i, lost)]
  BY DEF PowerFails, PowerOff
<1>3. PICK gone \in SUBSET {d \in Drop : drop[d].loc = "maildrop" /\ ~drop[d].synced} :
        drop' = [d \in Drop |->
                   [drop[d] EXCEPT !.torn = @ \/ d \in gone,
                      !.post = IF @ \in {"none", "done"} THEN @ ELSE "dead"]]
  BY DEF PowerFails
<1>4. /\ file \in [File -> FileType] /\ drop \in [Drop -> DropType] /\ sent \in [Mail -> Data]
      /\ told \in [Mail -> {"nothing", "ok", "error"}] /\ asked \in [Msg -> SUBSET ActionFlag]
      /\ bounced \subseteq Msg /\ MailOK /\ OneFile
      /\ (\A i \in File : FileOK(i)) /\ (\A d \in Drop : DropOK(d))
      /\ left \in SetupType /\ NoMsg \notin Mail /\ NoProc \notin Proc /\ Mail \subseteq Msg
      /\ Drop \subseteq Msg
  BY SessFacts, Numbers DEF IInv, PickupTypeOK
<1>5. left' \in SetupType /\ left'.mail = left.mail /\ left'.rcpt = left.rcpt
  BY <1>1, <1>4, LeftFacts
<1>6. /\ proc' \in [Proc -> ProcType] /\ \A p \in Proc : proc'[p] = IdleProc
      /\ \A p \in Proc : proc'[p].phase = "idle" /\ proc'[p].id = NoFile
  BY <1>1, EmptyTypes
<1>7. /\ sent' \in [Mail -> Data]
      /\ \A m \in Mail : sent'[m] = sent[m] \/ (m = sess.sender /\ ~sent[m].end)
  BY <1>1, <1>4, GivenUpIs
<1>8. Grows
  BY <1>1, <1>7 DEF Grows
<1>9. ASSUME NEW i \in File
      PROVE  /\ file'[i] \in FileType /\ file'[i].data = file[i].data /\ file'[i].loc = file[i].loc
             /\ file'[i].ready = file[i].ready /\ file'[i].synced = file[i].synced
             /\ file'[i].asked = file[i].asked
             /\ file[i].synced \/ file[i].loc = "none" => (file'[i].torn <=> file[i].torn)
             /\ file'[i].orphan <=> file[i].orphan \/ (file[i].loc # "none" /\ ~file[i].ready)
  <2>1. PICK t \in BOOLEAN : t = (file[i].torn \/ i \in lost)
    BY Zenon
  <2>2. PICK o \in BOOLEAN : o = (file[i].orphan \/ (file[i].loc # "none" /\ ~file[i].ready))
    BY Zenon
  <2>3. file'[i] = [file[i] EXCEPT !.torn = t, !.orphan = o]
    <3>1. file'[i] = Damaged(i, lost)
      BY <1>2
    <3> QED
      BY <2>1, <2>2, <3>1, Zenon DEF Damaged
  <2>4. file[i].synced \/ file[i].loc = "none" => i \notin lost
    BY <1>2 DEF Unsynced
  <2>5. file[i] \in FileType
    BY <1>4
  <2>6. /\ file'[i] \in FileType /\ file'[i].data = file[i].data /\ file'[i].loc = file[i].loc
        /\ file'[i].ready = file[i].ready /\ file'[i].synced = file[i].synced
        /\ file'[i].asked = file[i].asked /\ file'[i].torn = t /\ file'[i].orphan = o
    BY <2>3, <2>5 DEF FileType
  <2> QED
    BY <2>1, <2>2, <2>4, <2>6
<1>10. file' \in [File -> FileType]
  BY <1>2, <1>9
<1>11. ASSUME NEW d \in Drop
       PROVE  /\ drop'[d] \in DropType /\ drop'[d].loc = drop[d].loc
              /\ drop'[d].status = drop[d].status /\ drop'[d].ready = drop[d].ready
              /\ drop'[d].synced = drop[d].synced /\ drop'[d].user = drop[d].user
              /\ drop'[d].torn => drop[d].torn \/ (drop[d].loc = "maildrop" /\ ~drop[d].synced)
              /\ drop'[d].post = IF drop[d].post \in {"none", "done"} THEN drop[d].post ELSE "dead"
              /\ drop[d].post = "none" => drop'[d] = drop[d]
  <2>1. PICK t \in BOOLEAN : t = (drop[d].torn \/ d \in gone)
    BY Zenon
  <2>2. PICK s : s = IF drop[d].post \in {"none", "done"} THEN drop[d].post ELSE "dead"
    OBVIOUS
  <2>3. drop'[d] = [drop[d] EXCEPT !.torn = t, !.post = s]
    BY <1>3, <2>1, <2>2, Zenon
  <2>4. d \in gone => drop[d].loc = "maildrop" /\ ~drop[d].synced
    BY <1>3
  <2>5. drop[d] \in DropType /\ s \in {"none", "done", "dead"}
    BY <1>4, <2>2
  <2>6. /\ drop'[d] \in DropType /\ drop'[d].loc = drop[d].loc
        /\ drop'[d].status = drop[d].status /\ drop'[d].ready = drop[d].ready
        /\ drop'[d].synced = drop[d].synced /\ drop'[d].user = drop[d].user
        /\ drop'[d].torn = t /\ drop'[d].post = s
    BY <2>3, <2>5 DEF DropType
  <2>7. ASSUME drop[d].post = "none"
        PROVE  drop'[d] = drop[d]
    <3>1. drop[d] = NoDrop /\ NoDrop.loc = "none" /\ NoDrop.torn = FALSE
      BY <1>4, <2>7 DEF DropOK, NoDrop
    <3>2. d \notin gone /\ t = drop[d].torn
      BY <2>1, <2>4, <3>1
    <3>3. s = drop[d].post
      BY <2>2, <2>7
    <3> QED
      BY <2>3, <2>5, <3>2, <3>3 DEF DropType
  <2> QED
    BY <2>1, <2>2, <2>4, <2>6, <2>7
<1>12. drop' \in [Drop -> DropType]
  BY <1>3, <1>11
<1>13. TypeOK'
  <2>1. File' = File
    BY DEF File
  <2>2. sess' \in SessType /\ pick' \in PickType
    BY <1>1, NoSessionIs DEF PickIdle, PickType, NoMsg
  <2> QED
    BY <1>1, <1>4, <1>5, <1>6, <1>7, <1>10, <1>12, <2>1, <2>2
       DEF TypeOK, CleanupTypeOK, SmtpdTypeOK, PickupTypeOK
<1>14. \A p \in Proc : ProcOK(p)'
  BY <1>6, EmptyTypes DEF ProcOK, Running
<1>15. ASSUME NEW i \in File
       PROVE  FileOK(i)'
  <2>1. FileOK(i)
    BY <1>4
  <2>2. file[i].loc = "none" => file'[i] = [NewFile EXCEPT !.loc = "none"]
    <3> SUFFICES ASSUME file[i].loc = "none"
                 PROVE  file'[i] = file[i]
      BY <2>1 DEF FileOK
    <3>1. (file'[i].torn <=> file[i].torn) /\ (file'[i].orphan <=> file[i].orphan)
      BY <1>9
    <3>2. file'[i].torn = file[i].torn /\ file'[i].orphan = file[i].orphan
      <4>1. file[i] \in FileType /\ file'[i] \in FileType
        BY <1>4, <1>9
      <4> QED
        BY <3>1, <4>1 DEF FileType
    <3>3. file[i] \in FileType /\ file'[i] \in FileType
      BY <1>4, <1>9
    <3> QED
      BY <1>9, <3>2, <3>3 DEF FileType
  <2>3. Wish(file[i])' = Wish(file[i])
    BY <1>1, <1>9 DEF Wish
  <2>4. Complete(file[i]) => Complete(file[i])'
    BY <1>8, <1>9, CompleteStays
  <2> QED
    BY <1>9, <2>1, <2>2, <2>3, <2>4 DEF FileOK
<1>16. OwnFile'
  BY <1>6 DEF OwnFile, Running
<1>17. \A m \in Msg : Kept(m) => Kept(m)'
  <2>1. ASSUME NEW i \in File, Good(file[i])
        PROVE  Good(file'[i]) /\ file'[i].data = file[i].data
    BY <1>9, <2>1 DEF Good
  <2>2. ASSUME NEW i \in File, NEW p \in Proc
        PROVE  proc'[p].id # i
    BY <1>6, Numbers DEF File, NoFile
  <2> QED
    BY <1>8, <2>1, <2>2, KeptFrame
<1>18. \A d \in Drop : Fate(d) => Fate(d)'
  BY <1>4, <1>8, <1>17, PickupAssumption, FateFrame
<1>19. ASSUME NEW d \in Drop
       PROVE  DropOK(d)'
  <2>1. DropOK(d)
    BY <1>4
  <2>2. Fate(d) => Fate(d)'
    BY <1>18
  <2>3. drop[d].post = "none" => DropOK(d)'
    BY <1>11, <2>1, <2>2, DropFrame
  <2>4. drop[d].post # "none" => DropOK(d)'
    BY <1>11, <2>1, <2>2 DEF DropOK
  <2> QED
    BY <2>3, <2>4
<1>20. OneFile'
  <2>1. ASSUME NEW m \in Mail, NEW i \in File, Carries(i, m)'
        PROVE  Carries(i, m)
    BY <1>6, <1>9, <2>1 DEF Carries
  <2>2. File' = File /\ sess'.sender = NoMsg
    BY <1>1 DEF File, NoSession
  <2> QED
    BY <1>4, <1>5, <2>1, <2>2 DEF OneFile
<1>21. SessOK'
  BY <1>1 DEF SessOK, StreamMatches, NoSession
<1>22. MailOK'
  <2>1. ASSUME NEW m \in 1 .. left.mail
        PROVE  m \in Mail /\ sent'[m] = NoData
    <3>1. m \in Mail /\ sent[m] = NoData /\ (m = sess.sender => m > left.mail)
      BY <1>4, SessFacts DEF MailOK
    <3>2. m # sess.sender
      BY <1>4, <3>1 DEF SetupType
    <3> QED
      BY <1>7, <3>1, <3>2
  <2>2. ASSUME NEW m \in Mail, told[m] = "ok"
        PROVE  Kept(m)' \/ "DISCARD" \in asked[m]
    BY <1>4, <1>17, <2>2 DEF MailOK
  <2> QED
    BY <1>1, <1>4, <1>5, <2>1, <2>2 DEF MailOK
<1>23. PickOK'
  BY <1>1 DEF PickOK, PickIdle
<1> QED
  BY <1>13, <1>14, <1>15, <1>16, <1>19, <1>20, <1>21, <1>22, <1>23 DEF IInv

-----------------------------------------------------------------------------
(***************************************************************************)
(* All steps together.                                                     *)
(***************************************************************************)
LEMMA CleanupPreserves ==
    ASSUME IInv, NEW p \in Proc, CleanupStep(p) \/ CleanupTrouble(p),
           UNCHANGED <<smtpdVars, pickupVars>>
    PROVE  IInv'
<1>1. CASE CleanupStep(p)
  <2>1. CASE CleanupRecord(p)
    BY <2>1, RecordStep
  <2>2. CASE CleanupEof(p)
    BY <2>2, EofStep
  <2>3. CASE CleanupDrain(p)
    BY <2>3, DrainStep
  <2>4. CASE CleanupFlush(p)
    BY <2>4, FlushStep
  <2>5. CASE CleanupChmod(p)
    BY <2>5, ChmodStep
  <2>6. CASE CleanupSync(p)
    BY <2>6, SyncStep
  <2>7. CASE CleanupCancel(p)
    BY <2>7, CancelStep
  <2>8. CASE CleanupForget(p)
    BY <2>8, ForgetStep
  <2>9. CASE CleanupAnswer(p)
    BY <2>9, AnswerStep
  <2> QED
    BY <1>1, <2>1, <2>2, <2>3, <2>4, <2>5, <2>6, <2>7, <2>8, <2>9, Zenon DEF CleanupStep
<1>2. CASE CleanupTrouble(p)
  <2>1. CASE \E err \in Stat : CleanupWriteError(p, err)
    BY <2>1, WriteErrorStep
  <2>2. CASE \E verdict \in ActionFlag \cup {"CONT"} : CleanupContentCheck(p, verdict)
    BY <2>2, ContentCheckStep
  <2>3. CASE \E verdict \in ActionFlag \cup {"CONT"} : CleanupMilter(p, verdict)
    BY <2>3, MilterStep
  <2>4. CASE CleanupFlushError(p)
    BY <2>4, FlushErrorStep
  <2>5. CASE cleanup_sig(p)
    BY <2>5, SigStep
  <2>6. CASE CleanupKilled(p)
    BY <2>6, KilledStep
  <2> QED
    BY <1>2, <2>1, <2>2, <2>3, <2>4, <2>5, <2>6, Zenon DEF CleanupTrouble
<1> QED
  BY <1>1, <1>2

LEMMA InitOK == Init => IInv
<1> SUFFICES ASSUME Init PROVE IInv
  OBVIOUS
<1>1. /\ proc = [p \in Proc |-> IdleProc]
      /\ file = [i \in File |-> [NewFile EXCEPT !.loc = "none"]]
      /\ asked = [m \in Msg |-> {}] /\ bounced = {} /\ left \in Setups
  BY DEF Init, CleanupInit
<1>2. sess = NoSession /\ told = [m \in Mail |-> "nothing"] /\ sent = [m \in Mail |-> NoData]
  BY DEF Init, SmtpdInit
<1>3. drop = [d \in Drop |-> NoDrop] /\ pick = PickIdle
  BY DEF Init, PickupInit
<1>4. \A p \in Proc : proc[p] = IdleProc
  BY <1>1
<1>5. PICK F \in FileType : F = [NewFile EXCEPT !.loc = "none"]
  BY EmptyTypes DEF FileType
<1>6. \A i \in File : file[i] = F
  BY <1>1, <1>5
<1>7. /\ F.loc = "none" /\ ~F.ready /\ ~F.torn /\ F.data = NoData /\ F.data.from = NoMsg
  BY <1>5 DEF NewFile, NoData
<1>8. TypeOK
  <2>1. CleanupTypeOK
    <3>1. proc \in [Proc -> ProcType]
      BY <1>1, EmptyTypes
    <3>2. file \in [File -> FileType]
      BY <1>1, <1>5
    <3>3. asked \in [Msg -> SUBSET ActionFlag]
      BY <1>1
    <3>4. left \in SetupType
      BY <1>1, CleanupAssumption
    <3> QED
      BY <1>1, <3>1, <3>2, <3>3, <3>4 DEF CleanupTypeOK
  <2>2. SmtpdTypeOK
    <3>1. told \in [Mail -> {"nothing", "ok", "error"}]
      BY <1>2
    <3>2. sent \in [Mail -> Data]
      BY <1>2, EmptyTypes
    <3> QED
      BY <1>2, <3>1, <3>2, NoSessionIs DEF SmtpdTypeOK
  <2>3. PickupTypeOK
    <3>1. NoDrop \in DropType
      BY DEF NoDrop, DropType
    <3>2. pick \in PickType
      BY <1>3 DEF PickIdle, PickType
    <3> QED
      BY <1>3, <3>1, <3>2 DEF PickupTypeOK
  <2> QED
    BY <2>1, <2>2, <2>3 DEF TypeOK
<1>9. ASSUME NEW p \in Proc
      PROVE  ProcOK(p)
  BY <1>4, EmptyTypes DEF ProcOK, Running
<1>10. ASSUME NEW i \in File
       PROVE  FileOK(i)
  <2>1. file[i] = F
    BY <1>6
  <2>2. file[i].loc = "none" /\ ~file[i].ready
    BY <1>7, <2>1
  <2> QED
    BY <1>5, <2>1, <2>2 DEF FileOK
<1>11. OwnFile
  BY <1>4, EmptyTypes DEF OwnFile, Running
<1>12. OneFile
  <2>1. ASSUME NEW m \in Mail, NEW i \in File, Carries(i, m)
        PROVE  FALSE
    <3>1. file[i].data.from = NoMsg
      BY <1>6, <1>7
    <3>2. m # NoMsg
      BY Numbers
    <3>3. \A p \in Proc : proc[p].phase # "read"
      BY <1>4, EmptyTypes
    <3> QED
      BY <2>1, <3>1, <3>2, <3>3 DEF Carries
  <2> QED
    BY <2>1 DEF OneFile
<1>13. SessOK
  BY <1>2 DEF SessOK, StreamMatches, NoSession
<1>14. MailOK
  <2>1. 1 .. left.mail \subseteq Mail /\ left.rcpt <= MaxRcpt
    BY <1>1, SubmissionAssumption
  <2>2. ASSUME NEW m \in 1 .. left.mail
        PROVE  m \in Mail /\ sent[m] = NoData /\ asked[m] = {} /\ told[m] = "nothing"
    <3>1. m \in Mail /\ m \in Msg
      BY <2>1, Numbers
    <3> QED
      BY <1>1, <1>2, <3>1
  <2>3. \A m \in Mail : told[m] # "ok"
    BY <1>2
  <2> QED
    BY <1>1, <2>1, <2>2, <2>3 DEF MailOK
<1>15. PickOK
  BY <1>3 DEF PickOK, PickIdle
<1>16. ASSUME NEW d \in Drop
       PROVE  DropOK(d)
  <2>1. drop[d] = NoDrop
    BY <1>3
  <2>2. /\ NoDrop.post = "none" /\ ~NoDrop.ready /\ ~NoDrop.torn /\ NoDrop.user = "nothing"
    BY DEF NoDrop
  <2> QED
    BY <2>1, <2>2 DEF DropOK
<1> QED
  BY <1>8, <1>9, <1>10, <1>11, <1>12, <1>13, <1>14, <1>15, <1>16 DEF IInv

LEMMA Preserved == IInv /\ [Next]_vars => IInv'
<1> SUFFICES ASSUME IInv, [Next]_vars
             PROVE  IInv'
  OBVIOUS
<1>1. CASE SmtpdNext /\ UNCHANGED pickupVars
  BY <1>1, SmtpdPreserves
<1>2. CASE PickupNext /\ UNCHANGED smtpdVars
  BY <1>2, PickupPreserves
<1>3. CASE \E p \in Proc : (CleanupStep(p) \/ CleanupTrouble(p)) /\ UNCHANGED <<smtpdVars, pickupVars>>
  BY <1>3, CleanupPreserves
<1>4. CASE \E i \in File : QmgrTakes(i) /\ UNCHANGED <<smtpdVars, pickupVars>>
  BY <1>4, QmgrTakesStep
<1>5. CASE PowerFails
  BY <1>5, PowerStep
<1>6. CASE UNCHANGED vars
  BY <1>6, Stutters
<1> QED
  BY <1>1, <1>2, <1>3, <1>4, <1>5, <1>6, Zenon DEF Next

\* The conjuncts of IInv hold, in every reachable state, for any number of
\* processes, files, messages and recipients, whoever fails.
THEOREM Inductive == Spec => []IInv
<1> QED
  BY InitOK, Preserved, PTL DEF Spec

-----------------------------------------------------------------------------
(***************************************************************************)
(* What the invariant means.                                               *)
(***************************************************************************)
LEMMA KeptIsInQueue ==
    ASSUME NEW m, Kept(m)
    PROVE  InQueue(m)
BY DEF Kept, Good, InQueue

LEMMA NothingLost ==
    ASSUME IInv
    PROVE  NoMailLost
<1>1. ASSUME NEW m \in Mail, told[m] = "ok"
      PROVE  InQueue(m) \/ "DISCARD" \in asked[m]
  <2>1. Kept(m) \/ "DISCARD" \in asked[m]
    BY <1>1 DEF IInv, MailOK
  <2> QED
    BY <2>1, KeptIsInQueue
<1>2. ASSUME NEW d \in Drop, drop[d].user = "ok"
      PROVE  InMaildrop(d) \/ InQueue(d) \/ d \in bounced \/ "DISCARD" \in asked[d]
  <2>1. DropOK(d)
    BY DEF IInv
  <2>2. /\ drop[d].post = "done" /\ drop[d].status = {}
        /\ drop[d].ready /\ drop[d].synced /\ ~drop[d].torn
        /\ drop[d].loc = "maildrop" \/ Fate(d)
    BY <1>2, <2>1 DEF DropOK
  <2>3. Fate(d) => InQueue(d) \/ d \in bounced \/ "DISCARD" \in asked[d]
    BY KeptIsInQueue DEF Fate
  <2> QED
    BY <2>2, <2>3 DEF InMaildrop
<1> QED
  BY <1>1, <1>2 DEF NoMailLost

LEMMA NoRecordMisplaced ==
    ASSUME IInv
    PROVE  WellFormedStream
<1>1. ASSUME NEW p \in Proc, proc[p].phase = "read", proc[p].pipe # <<>>
      PROVE  ~Malformed(proc[p], file[proc[p].id].data, Head(proc[p].pipe))
  <2>1. proc[p] \in ProcType /\ ProcOK(p)
    BY DEF IInv, TypeOK, CleanupTypeOK
  <2>2. PICK T \in Plan : Reading(proc[p], file[proc[p].id].data, T)
    BY <1>1, <2>1 DEF ProcOK, PlanOf
  <2>3. PICK c \in Nat :
           /\ c < Length(T) /\ proc[p].act = ActAt(T, c)
           /\ file[proc[p].id].data = DataAt(T, c)
           /\ Head(proc[p].pipe) = RecordAt(T, c + 1)
    BY <1>1, <2>1, <2>2, ReadOne
  <2> QED
    BY <2>3, PlaceStep
<1> QED
  BY <1>1 DEF IInv, SessOK, WellFormedStream

LEMMA PolicyKept ==
    ASSUME IInv
    PROVE  PolicyRespected
<1>1. ASSUME NEW i \in File
      PROVE  /\ file[i].loc = "active" => Wish(file[i]) = {}
             /\ file[i].loc = "hold" => "HOLD" \in Wish(file[i])
  BY DEF IInv, FileOK
<1> QED
  BY <1>1 DEF PolicyRespected, Wish

LEMMA FilesWhole ==
    ASSUME IInv
    PROVE  OnlyWholeMessages
BY DEF IInv, FileOK, Complete, OnlyWholeMessages

LEMMA FilesOwned ==
    ASSUME IInv
    PROVE  NoLeftover
BY DEF IInv, FileOK, NoLeftover

-----------------------------------------------------------------------------
(***************************************************************************)
(* The theorems.                                                           *)
(***************************************************************************)
\* The processes, the queue files and the sessions are what their types say,
\* whatever clients do and whoever fails.
THEOREM TypeCorrect == Spec => []TypeOK
<1>1. IInv => TypeOK
  BY DEF IInv
<1> QED
  BY <1>1, Inductive, PTL

\* A message that was accepted is in the queue, whole and on stable storage,
\* or the site discarded it, or it went back to its sender: no order of the
\* steps of data_cmd(), pickup_copy(), cleanup_flush() and
\* mail_stream_finish_file(), no signal and no power failure loses it.
THEOREM AcceptedIsKept == Spec => []NoMailLost
<1>1. IInv => NoMailLost
  BY NothingLost
<1> QED
  BY <1>1, Inductive, PTL

\* cleanup never finds a record out of place, however the commands of a
\* session are mixed and whichever of them fail (mail_reset(), skip_bdat(),
\* cleanup_envelope_process()).
THEOREM StreamsWellFormed == Spec => []WellFormedStream
<1>1. IInv => WellFormedStream
  BY NoRecordMisplaced
<1> QED
  BY <1>1, Inductive, PTL

\* The queue manager takes no message that a check or a Milter wants held or
\* discarded, and nothing else is held (saved_flags, REC_TYPE_FLGS,
\* CLEANUP_FLAG_HOLD).
THEOREM PolicyHonoured == Spec => []PolicyRespected
<1>1. IInv => PolicyRespected
  BY PolicyKept
<1> QED
  BY <1>1, Inductive, PTL

\* A file that the queue manager may take has one whole message in it: nothing
\* of a transaction that was aborted, and nothing of another message
\* (mail_reset(), cleanup_flush()).
THEOREM QueueHoldsWholeMessages == Spec => []OnlyWholeMessages
<1>1. IInv => OnlyWholeMessages
  BY FilesWhole
<1> QED
  BY <1>1, Inductive, PTL

\* A file that is not finished has a process that will finish or remove it,
\* unless that process was killed before it could (cleanup_sig()).
THEOREM NothingLeftOver == Spec => []NoLeftover
<1>1. IInv => NoLeftover
  BY FilesOwned
<1> QED
  BY <1>1, Inductive, PTL

=============================================================================

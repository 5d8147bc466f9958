------------------------------- MODULE Cleanup -------------------------------
(***************************************************************************)
(* The cleanup(8) server and the commit of a queue file.                   *)
(*                                                                         *)
(* A client (smtpd(8), pickup(8)) connects to a cleanup process, which     *)
(* creates a queue file, reads records from the connection, and reports a  *)
(* status.  The status is what decides who is responsible for the message, *)
(* so the order of the steps at the end matters: fchmod() makes the file   *)
(* visible to the queue manager, fsync() makes it survive a power failure, *)
(* and only then is the status sent.  A process can be killed between any  *)
(* two of these steps.                                                     *)
(*                                                                         *)
(* This module has the processes and the files.  Smtpd and Pickup have the *)
(* two clients, and Submission puts them together.                         *)
(***************************************************************************)
EXTENDS Naturals, Sequences, FiniteSets

CONSTANTS
    Proc,       \* the cleanup processes
    NoProc,     \* no process: a client without a connection
    MaxFile,    \* bound: queue files created in a behaviour
    Msg,        \* the messages that clients submit
    MaxRcpt,    \* bound: recipients of a message
    Setups      \* bounds and settings: see "left" below

SetupType == [ fault : Nat, verdict : Nat, mail : Nat, drop : Nat,
               rcpt : Nat, chunk : Nat, delay_open : BOOLEAN, clean : BOOLEAN ]

ASSUME CleanupAssumption ==
    /\ NoProc \notin Proc
    /\ MaxFile \in Nat /\ MaxRcpt \in Nat
    /\ Msg \subseteq Nat \ {0}
    /\ Setups \subseteq SetupType

VARIABLES
    proc,       \* the cleanup processes, and the connection each one serves
    file,       \* the queue files
    asked,      \* history: what the policy of the site asked for a message
    bounced,    \* history: the messages returned to their sender
    left        \* how many faults, policy verdicts, messages may still come;
                \* smtpd_recipient_limit, the pieces of content of a message,
                \* and smtpd_delay_open; no fault has happened yet

cleanupVars == <<proc, file, asked, bounced, left>>

File == 1 .. MaxFile
NoFile == 0
NoMsg == 0

\* The n-th recipient of a message.
Rcpt == Msg \X (1 .. MaxRcpt)

\* CLEANUP_STAT_*, as a set of bits.
Stat == {"BAD", "WRITE", "SIZE", "CONT", "RCPT", "DEFER"}
CantBounce == {"BAD", "WRITE", "DEFER", "RCPT"}
Incomplete == {"BAD", "WRITE", "SIZE", "DEFER"}

\* CLEANUP_FLAG_*.  Action flags are the ones that access tables, header
\* checks and Milters turn on for one message.
ActionFlag == {"HOLD", "DISCARD"}
Flag == ActionFlag \cup {"BOUNCE", "END_SEEN"}

\* Queue file records: the message content is one NORM record per piece that
\* the client sends.
Record == [type : {"MESG", "NORM", "XTRA", "END"}, val : {NoMsg}]
          \cup [type : {"FROM"}, val : Msg]
          \cup [type : {"RCPT"}, val : Rcpt]
          \cup [type : {"FLGS"}, val : SUBSET ActionFlag]
Rec(type) == [type |-> type, val |-> NoMsg]
RecOf(type, val) == [type |-> type, val |-> val]

\* What a queue file holds.
Data == [from : Msg \cup {NoMsg}, rcpts : SUBSET Rcpt, body : Nat, end : BOOLEAN]
NoData == [from |-> NoMsg, rcpts |-> {}, body |-> 0, end |-> FALSE]

FileType ==
    [ loc : {"none", "incoming", "hold", "active", "removed", "corrupt"},
      data : Data,
      ready : BOOLEAN,      \* mode 0700: the queue manager may take it
      synced : BOOLEAN,     \* on stable storage
      torn : BOOLEAN,       \* a power failure damaged it
      orphan : BOOLEAN,     \* its process died without running a handler
      asked : SUBSET ActionFlag ]   \* history: what checks in cleanup asked for
NewFile == [ loc |-> "incoming", data |-> NoData, ready |-> FALSE,
             synced |-> FALSE, torn |-> FALSE, orphan |-> FALSE, asked |-> {} ]

\* Where the process is in cleanup_service() and cleanup_flush().  "dead" and
\* "answered" wait for the client to look at the connection.
Running == {"read", "drain", "flush", "chmod", "sync", "cancel", "forget", "answer"}
ProcType ==
    [ phase : Running \cup {"idle", "answered", "dead"},
      id : File \cup {NoFile},
      pipe : Seq(Record),   \* records that the client sent, not read yet
      eof : BOOLEAN,        \* the client has closed the connection
      act : {"envelope", "message", "extracted"},
      errs : SUBSET Stat,
      flags : SUBSET Flag ]
IdleProc == [ phase |-> "idle", id |-> NoFile, pipe |-> <<>>, eof |-> FALSE,
              act |-> "envelope", errs |-> {}, flags |-> {} ]

CleanupTypeOK ==
    /\ proc \in [Proc -> ProcType]
    /\ file \in [File -> FileType]
    /\ asked \in [Msg -> SUBSET ActionFlag]
    /\ bounced \subseteq Msg
    /\ left \in SetupType

CleanupInit ==
    /\ proc = [p \in Proc |-> IdleProc]
    /\ file = [i \in File |-> [NewFile EXCEPT !.loc = "none"]]
    /\ asked = [m \in Msg |-> {}]
    /\ bounced = {}
    /\ left \in Setups

------------------------------------------------------------------------------
(***************************************************************************)
(* The environment's share of an action: a fault (an I/O error, a signal,  *)
(* a power failure) or a verdict of the site's policy (reject, hold,       *)
(* discard).                                                               *)
(***************************************************************************)
Spend(what) == /\ left[what] > 0
               /\ left' = [left EXCEPT ![what] = @ - 1, !.clean = @ /\ what # "fault"]

(***************************************************************************)
(* The client's side of the connection.                                    *)
(***************************************************************************)
IdleProcs == {p \in Proc : proc[p].phase = "idle"}
FreeFiles == {i \in File : file[i].loc = "none"}
CanOpen == IdleProcs # {} /\ FreeFiles # {}
\* The processes are interchangeable, and so are the names of new files.
AnyProc == CHOOSE p \in IdleProcs : TRUE
NextFile == CHOOSE i \in FreeFiles : TRUE

\* cleanup_open(), cleanup_control(): the process that accepts the connection.
Opened(flags) == [IdleProc EXCEPT !.phase = "read", !.id = NextFile, !.flags = flags]

\* Send records: P is the state of the processes so far.  A dead process does
\* not read them.
Write(P, p, recs) ==
    IF P[p].phase \in Running THEN [P EXCEPT ![p].pipe = @ \o recs] ELSE P

\* Close the connection.  A process that is still running finds out when it
\* reads or answers.
mail_stream_cleanup(P, p) ==
    IF P[p].phase \in Running THEN [P EXCEPT ![p].eof = TRUE]
                              ELSE [P EXCEPT ![p] = IdleProc]

\* The status has arrived, or never will.
Answered(p) == proc[p].phase \in {"answered", "dead"}

mail_stream_finish_ipc_mutant(p) ==
    IF proc[p].phase = "answered" THEN proc[p].errs ELSE {}

\* The status that the client ends up with: no status is a write error.
mail_stream_finish_ipc(p) ==
    IF proc[p].phase = "answered" THEN proc[p].errs ELSE {"WRITE"}

------------------------------------------------------------------------------
(***************************************************************************)
(* cleanup_service(): reading the records.                                 *)
(***************************************************************************)

\* err_mask: a client that asks for bounces wants every record examined
\* unless that is impossible.
ErrMask(q) == IF "BOUNCE" \in q.flags THEN Incomplete ELSE Stat
OutOk(q) == q.errs \cap ErrMask(q) = {} /\ "DISCARD" \notin q.flags

\* Which record types the current segment allows, and the next segment.
Expected(act) ==
    CASE act = "envelope"  -> {"FROM", "RCPT", "FLGS", "MESG"}
      [] act = "message"   -> {"NORM", "XTRA"}
      [] act = "extracted" -> {"RCPT", "FLGS", "END"}
NextAct(act, type) ==
    CASE type = "MESG" -> "message" [] type = "XTRA" -> "extracted" [] OTHER -> act

\* A record that the segment does not allow, a second sender, or a recipient
\* without a sender.
Malformed(q, d, r) ==
    \/ r.type \notin Expected(q.act)
    \/ r.type = "FROM" /\ d.from # NoMsg
    \/ r.type = "RCPT" /\ d.from = NoMsg

\* cleanup_envelope_process(), cleanup_message(), cleanup_extracted_process():
\* the effect on the process and on the queue file.
Processed(q, r) ==
    [q EXCEPT !.act = NextAct(@, r.type),
              !.flags = @ \cup (IF r.type = "FLGS" THEN r.val ELSE {})
                          \cup (IF r.type = "END" THEN {"END_SEEN"} ELSE {})]
Output(d, r) ==
    CASE r.type = "FROM" -> [d EXCEPT !.from = r.val]
      [] r.type = "RCPT" -> [d EXCEPT !.rcpts = @ \cup {r.val}]
      [] r.type = "NORM" -> [d EXCEPT !.body = @ + 1]
      [] r.type = "END"  -> [d EXCEPT !.end = TRUE]
      [] OTHER -> d

\* After a record: done, or go on, or throw away the rest of the input.
After(q, type) ==
    [q EXCEPT !.phase = CASE type = "END" -> "flush"
                          [] type # "END" /\ OutOk(q) -> "read"
                          [] OTHER -> "drain"]

\* One record, without incident.
CleanupRecord(p) ==
    LET q == proc[p]
        r == Head(q.pipe)
        bad == Malformed(q, file[q.id].data, r)
    IN  /\ q.phase = "read" /\ q.pipe # <<>>
        /\ proc' = [proc EXCEPT ![p] =
              After(IF bad THEN [q EXCEPT !.pipe = Tail(@), !.errs = @ \cup {"BAD"}]
                           ELSE Processed([q EXCEPT !.pipe = Tail(@)], r), r.type)]
        /\ file' = [file EXCEPT ![q.id].data = IF bad THEN @ ELSE Output(@, r)]
        /\ UNCHANGED <<asked, bounced, left>>

\* One record that cannot be written, or whose table lookup fails.
CleanupWriteError(p, err) ==
    LET q == proc[p]
    IN  /\ q.phase = "read" /\ q.pipe # <<>>
        /\ err \in {"WRITE", "SIZE", "DEFER"}
        /\ Spend("fault")
        /\ proc' = [proc EXCEPT ![p] =
              After([q EXCEPT !.pipe = Tail(@), !.errs = @ \cup {err}], Head(q.pipe).type)]
        /\ UNCHANGED <<file, asked, bounced>>

\* Message content that a header or body check rejects, holds or discards.
CleanupContentCheck(p, verdict) ==
    LET q == proc[p]
        r == Head(q.pipe)
    IN  /\ q.phase = "read" /\ q.pipe # <<>>
        /\ r.type = "NORM" /\ ~Malformed(q, file[q.id].data, r)
        /\ verdict \in ActionFlag \cup {"CONT"}
        /\ Spend("verdict")
        /\ proc' = [proc EXCEPT ![p] =
              After([q EXCEPT !.pipe = Tail(@),
                              !.flags = @ \cup ({verdict} \cap ActionFlag),
                              !.errs = @ \cup ({verdict} \cap Stat)], r.type)]
        /\ file' = [file EXCEPT ![q.id].data = Output(@, r),
                                ![q.id].asked = @ \cup ({verdict} \cap ActionFlag)]
        /\ asked' = [asked EXCEPT ![file[q.id].data.from] = @ \cup ({verdict} \cap ActionFlag)]
        /\ UNCHANGED bounced

\* The connection ends before the END record.
CleanupEof(p) ==
    LET q == proc[p]
    IN  /\ q.phase = "read" /\ q.pipe = <<>> /\ q.eof
        /\ proc' = [proc EXCEPT ![p].phase = "flush", ![p].errs = @ \cup {"BAD"}]
        /\ UNCHANGED <<file, asked, bounced, left>>

CleanupDrain_mutant(p) ==
    LET q == proc[p]
    IN  /\ q.phase = "drain"
        /\ \/ /\ q.pipe # <<>>
              /\ proc' = [proc EXCEPT ![p].pipe = Tail(@)]
           \/ /\ q.pipe = <<>> /\ q.eof
              /\ proc' = [proc EXCEPT ![p].phase = "flush"]
        /\ UNCHANGED <<file, asked, bounced, left>>

\* After an error, skip the rest of the input, so that the client does not
\* block on a full pipe and can read the status.
CleanupDrain(p) ==
    LET q == proc[p]
    IN  /\ q.phase = "drain"
        /\ \/ /\ q.pipe # <<>>
              /\ proc' = [proc EXCEPT ![p].pipe = Tail(@),
                            ![p].phase = IF Head(q.pipe).type = "END" THEN "flush" ELSE "drain"]
           \/ /\ q.pipe = <<>> /\ q.eof
              /\ proc' = [proc EXCEPT ![p].phase = "flush"]
        /\ UNCHANGED <<file, asked, bounced, left>>

------------------------------------------------------------------------------
(***************************************************************************)
(* cleanup_flush().                                                        *)
(***************************************************************************)

\* The errors before Milters: no recipient, no END record; a discarded
\* message has none.
FlushErrs(q) ==
    IF "DISCARD" \in q.flags THEN {}
    ELSE q.errs \cup
         (IF OutOk(q) /\ file[q.id].data.rcpts = {} THEN {"RCPT"} ELSE {}) \cup
         (IF OutOk(q) /\ "END_SEEN" \notin q.flags THEN {"BAD"} ELSE {})

\* What follows once the Milters have spoken: commit, bounce or cancel.
CanBounce(q) == /\ q.errs \cap CantBounce = {}
                /\ file[q.id].data.from # NoMsg
                /\ "BOUNCE" \in q.flags
Commits(q) == q.errs = {} /\ "DISCARD" \notin q.flags

\* HOLD moves the file to the hold queue before it is finished.
HoldOrNot(q) == IF "HOLD" \in q.flags THEN "hold" ELSE "incoming"

\* cleanup_bounce(): the sender has been told, so the client is not.
cleanup_bounce(q) ==
    [q EXCEPT !.phase = "cancel", !.errs = {}, !.flags = @ \cup {"DISCARD"}]

FlushTo(p, q, F) ==
    \/ /\ Commits(q)
       /\ proc' = [proc EXCEPT ![p] = [q EXCEPT !.phase = "chmod"]]
       /\ file' = [F EXCEPT ![q.id].loc = HoldOrNot(q)]
       /\ UNCHANGED bounced
    \/ /\ q.errs # {} /\ CanBounce(q)
       /\ proc' = [proc EXCEPT ![p] = cleanup_bounce(q)]
       /\ bounced' = bounced \cup {file[q.id].data.from}
       /\ file' = F
    \/ /\ ~Commits(q) /\ ~(q.errs # {} /\ CanBounce(q))
       /\ proc' = [proc EXCEPT ![p] = [q EXCEPT !.phase = "cancel"]]
       /\ file' = F
       /\ UNCHANGED bounced

CleanupFlush(p) ==
    /\ proc[p].phase = "flush"
    /\ FlushTo(p, [proc[p] EXCEPT !.errs = FlushErrs(proc[p])], file)
    /\ UNCHANGED <<asked, left>>

\* A Milter rejects, holds or discards at the end of the message.
CleanupMilter(p, verdict) ==
    LET q == [proc[p] EXCEPT !.errs = FlushErrs(proc[p])]
    IN  /\ proc[p].phase = "flush"
        /\ Commits(q)
        /\ verdict \in ActionFlag \cup {"CONT"}
        /\ Spend("verdict")
        /\ asked' = [asked EXCEPT ![file[q.id].data.from] = @ \cup ({verdict} \cap ActionFlag)]
        /\ FlushTo(p, [q EXCEPT !.flags = @ \cup ({verdict} \cap ActionFlag),
                                !.errs = @ \cup ({verdict} \cap Stat)],
                    [file EXCEPT ![q.id].asked = @ \cup ({verdict} \cap ActionFlag)])

\* The bounce service fails, or the file cannot be written at the end: the
\* message is canceled with a write error.
CleanupFlushError(p) ==
    LET q == [proc[p] EXCEPT !.errs = FlushErrs(proc[p])]
    IN  /\ proc[p].phase = "flush"
        /\ Commits(q) \/ (q.errs # {} /\ CanBounce(q))
        /\ Spend("fault")
        /\ proc' = [proc EXCEPT ![p] = [q EXCEPT !.phase = "cancel", !.errs = {"WRITE"}]]
        /\ UNCHANGED <<file, asked, bounced>>

(***************************************************************************)
(* mail_stream_finish_file(): flush the file, make it visible, make it     *)
(* durable, in this order.  Any of these can fail.                         *)
(***************************************************************************)
CleanupChmod(p) ==
    /\ proc[p].phase = "chmod"
    /\ \/ /\ proc' = [proc EXCEPT ![p].phase = "sync"]
          /\ file' = [file EXCEPT ![proc[p].id].ready = TRUE]
          /\ UNCHANGED left
       \/ /\ Spend("fault")
          /\ proc' = [proc EXCEPT ![p].phase = "cancel", ![p].errs = {"WRITE"}]
          /\ UNCHANGED file
    /\ UNCHANGED <<asked, bounced>>

\* fsync() and close(): a failing close may follow a successful fsync.
CleanupSync(p) ==
    /\ proc[p].phase = "sync"
    /\ \/ /\ proc' = [proc EXCEPT ![p].phase = "forget"]
          /\ file' = [file EXCEPT ![proc[p].id].synced = TRUE]
          /\ UNCHANGED left
       \/ /\ Spend("fault")
          /\ \E synced \in BOOLEAN :
                file' = [file EXCEPT ![proc[p].id].synced = synced]
          /\ proc' = [proc EXCEPT ![p].phase = "cancel", ![p].errs = {"WRITE"}]
    /\ UNCHANGED <<asked, bounced>>

\* REMOVE(cleanup_path): without effect if the queue manager has already
\* moved the file to the active queue.
Removed(F, i) ==
    IF F[i].loc \in {"incoming", "hold"}
      THEN [F EXCEPT ![i] = [NewFile EXCEPT !.loc = "removed"]] ELSE F

CleanupCancel(p) ==
    /\ proc[p].phase = "cancel"
    /\ proc' = [proc EXCEPT ![p].phase = "answer"]
    /\ file' = Removed(file, proc[p].id)
    /\ UNCHANGED <<asked, bounced, left>>

\* cleanup_path = 0: from here on no signal handler removes the file.
CleanupForget(p) ==
    /\ proc[p].phase = "forget"
    /\ proc' = [proc EXCEPT ![p].phase = "answer"]
    /\ UNCHANGED <<file, asked, bounced, left>>

\* Send the status.
CleanupAnswer(p) ==
    /\ proc[p].phase = "answer"
    /\ proc' = [proc EXCEPT ![p] = IF @.eof THEN IdleProc ELSE [@ EXCEPT !.phase = "answered"]]
    /\ UNCHANGED <<file, asked, bounced, left>>

------------------------------------------------------------------------------
(***************************************************************************)
(* Faults.                                                                 *)
(***************************************************************************)
Gone(q) == IF q.eof THEN IdleProc ELSE [IdleProc EXCEPT !.phase = "dead"]

\* SIGTERM, or a fatal error: cleanup_sig() removes the queue file that
\* cleanup_path names.
cleanup_sig(p) ==
    /\ proc[p].phase \in Running
    /\ Spend("fault")
    /\ proc' = [proc EXCEPT ![p] = Gone(@)]
    /\ file' = IF proc[p].phase = "answer" THEN file ELSE Removed(file, proc[p].id)
    /\ UNCHANGED <<asked, bounced>>

\* SIGKILL: no handler runs.
CleanupKilled(p) ==
    /\ proc[p].phase \in Running
    /\ Spend("fault")
    /\ proc' = [proc EXCEPT ![p] = Gone(@)]
    /\ file' = [file EXCEPT ![proc[p].id].orphan = TRUE]
    /\ UNCHANGED <<asked, bounced>>

\* A power failure damages some of the files that were not synced; the
\* files of the processes that were running are left behind.
Unsynced == {i \in File : ~file[i].synced /\ file[i].loc \in {"incoming", "hold", "active"}}
Damaged(i, lost) ==
    [file[i] EXCEPT !.torn = @ \/ i \in lost, !.orphan = @ \/ (file[i].loc # "none" /\ ~file[i].ready)]
PowerOff ==
    /\ Spend("fault")
    /\ \E lost \in SUBSET Unsynced : file' = [i \in File |-> Damaged(i, lost)]
    /\ proc' = [p \in Proc |-> IdleProc]
    /\ UNCHANGED <<asked, bounced>>

(***************************************************************************)
(* The queue manager: it takes a file whose mode says that it is complete, *)
(* and it moves a damaged file aside.                                      *)
(***************************************************************************)
QmgrTakes(i) ==
    /\ file[i].loc = "incoming" /\ file[i].ready
    /\ file' = [file EXCEPT ![i].loc = IF file[i].torn THEN "corrupt" ELSE "active"]
    /\ UNCHANGED <<proc, asked, bounced, left>>

CleanupStep(p) ==
    \/ CleanupRecord(p) \/ CleanupEof(p) \/ CleanupDrain(p) \/ CleanupFlush(p)
    \/ CleanupChmod(p) \/ CleanupSync(p) \/ CleanupCancel(p) \/ CleanupForget(p)
    \/ CleanupAnswer(p)

CleanupTrouble(p) ==
    \/ \E err \in Stat : CleanupWriteError(p, err)
    \/ \E verdict \in ActionFlag \cup {"CONT"} :
          CleanupContentCheck(p, verdict) \/ CleanupMilter(p, verdict)
    \/ CleanupFlushError(p) \/ cleanup_sig(p) \/ CleanupKilled(p)

=============================================================================

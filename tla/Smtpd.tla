-------------------------------- MODULE Smtpd --------------------------------
(***************************************************************************)
(* One smtpd(8) process: an SMTP session, the mail transactions in it, and *)
(* the hand-over of each message to cleanup(8).                            *)
(*                                                                         *)
(* An SMTP command is one action, from reading it to its reply.  DATA has  *)
(* three: the command, the end of the message, and the answer of cleanup,  *)
(* because the client can go away and processes can die in between.  What  *)
(* the checks of smtpd_check.c decide is left open.                        *)
(***************************************************************************)
EXTENDS Cleanup

CONSTANTS Mail      \* the messages that come in with SMTP, numbered

ASSUME SmtpdAssumption == Mail \subseteq Msg

VARIABLES
    sess,   \* SMTPD_STATE
    told,   \* the reply to the end of each message
    sent    \* history: what the client of a message got a positive reply for

smtpdVars == <<sess, told, sent>>

NoSession ==
    [ phase |-> "off",          \* off, cmd, data (after 354), wait (for cleanup)
      sender |-> NoMsg,         \* the transaction, NoMsg when there is none
      cleanup |-> NoProc,       \* state->cleanup, state->dest
      rcpt_count |-> 0,
      bdat_state |-> "NONE",
      err |-> {},
      saved_flags |-> {},
      post |-> "NONE" ]         \* bdat_state after common_post_message_handling()

SessType ==
    [ phase : {"off", "cmd", "data", "wait"}, sender : Mail \cup {NoMsg},
      cleanup : Proc \cup {NoProc}, rcpt_count : Nat,
      bdat_state : {"NONE", "OK", "ERROR"}, err : SUBSET (Stat \cup {"BARE_LF"}),
      saved_flags : SUBSET ActionFlag, post : {"NONE", "ERROR"} ]

SmtpdTypeOK ==
    /\ sess \in SessType
    /\ told \in [Mail -> {"nothing", "ok", "error"}]
    /\ sent \in [Mail -> Data]

SmtpdInit ==
    /\ sess = NoSession
    /\ told = [m \in Mail |-> "nothing"]
    /\ sent = [m \in Mail |-> NoData]

------------------------------------------------------------------------------
(***************************************************************************)
(* Resets.                                                                 *)
(***************************************************************************)
mail_reset_mutant(s) ==
    [s EXCEPT !.cleanup = NoProc, !.err = {}, !.sender = NoMsg,
              !.bdat_state = "NONE"]

mail_reset(s) ==
    [s EXCEPT !.cleanup = NoProc, !.err = {}, !.sender = NoMsg, !.saved_flags = {},
              !.bdat_state = "NONE"]

rcpt_reset(s) == [s EXCEPT !.rcpt_count = 0]

\* The connection to cleanup is closed without an END record.
Closed(s, P) == IF s.cleanup = NoProc THEN P ELSE mail_stream_cleanup(P, s.cleanup)

\* The client has given up on its message, unless it has sent all of it.
GivenUp(s) ==
    [m \in Mail |-> IF m = s.sender /\ ~sent[m].end THEN NoData ELSE sent[m]]

\* The session is at the command prompt.
AtPrompt == sess.phase = "cmd"
InTransaction == sess.sender # NoMsg
ProcessingBdat_mutant == sess.bdat_state = "ERROR"
ProcessingBdat == sess.bdat_state # "NONE"

\* A command that fails.  The error count is not kept: too many errors are
\* one of the reasons for EndSession.
Reject(s) ==
    /\ sess' = s
    /\ UNCHANGED <<proc, file, asked, bounced, left, told, sent>>

------------------------------------------------------------------------------
(***************************************************************************)
(* Session commands.                                                       *)
(***************************************************************************)
Connect ==
    /\ sess.phase = "off" /\ left.mail > 0
    /\ sess' = [NoSession EXCEPT !.phase = "cmd"]
    /\ UNCHANGED <<proc, file, asked, bounced, left, told, sent>>

\* RSET.  HELO and EHLO do the same when the greeting is accepted, and so
\* does STARTTLS.
rset_cmd ==
    /\ AtPrompt
    /\ sess' = rcpt_reset(mail_reset(sess))
    /\ proc' = Closed(sess, proc)
    /\ sent' = GivenUp(sess)
    /\ UNCHANGED <<file, asked, bounced, left, told>>
helo_cmd == rset_cmd
starttls_cmd == rset_cmd

\* QUIT, a lost connection, a timeout, a 421 reply, too many errors.
EndSession ==
    /\ sess.phase \in {"cmd", "data"}
    /\ sess' = NoSession
    /\ proc' = Closed(sess, proc)
    /\ sent' = GivenUp(sess)
    /\ UNCHANGED <<file, asked, bounced, left, told>>

\* The process is killed, or has a fatal error.
SmtpdDies ==
    /\ sess.phase # "off"
    /\ Spend("fault")
    /\ sess' = NoSession
    /\ proc' = Closed(sess, proc)
    /\ sent' = GivenUp(sess)
    /\ UNCHANGED <<file, asked, bounced, told>>

------------------------------------------------------------------------------
(***************************************************************************)
(* MAIL and RCPT.                                                          *)
(***************************************************************************)

\* mail_open_stream(): connect to cleanup and write the sender.
NewStream(s) ==
    [proc EXCEPT ![AnyProc] = [Opened({}) EXCEPT !.pipe = <<RecOf("FROM", s.sender)>>]]
mail_open_stream(s) ==
    /\ CanOpen
    /\ file' = [file EXCEPT ![NextFile] = NewFile]

\* MAIL: out of sequence, refused for its parameters or by a check, or
\* accepted.
mail_cmd ==
    /\ AtPrompt
    /\ \/ Reject(sess)
       \/ /\ ~InTransaction /\ ~ProcessingBdat
          /\ Reject(mail_reset(sess))
       \/ /\ ~InTransaction /\ ~ProcessingBdat
          /\ Spend("mail")
          /\ LET m == left.mail             \* messages count down
                 t == [sess EXCEPT !.sender = m]
             IN  /\ IF left.delay_open
                      THEN /\ sess' = t
                           /\ UNCHANGED <<proc, file>>
                      ELSE /\ mail_open_stream(t)
                           /\ sess' = [t EXCEPT !.cleanup = AnyProc]
                           /\ proc' = NewStream(t)
                 /\ sent' = [sent EXCEPT ![m].from = m]
          /\ UNCHANGED <<asked, bounced, told>>

\* RCPT is accepted: the next recipient is written to cleanup, whose process is
\* connected to at the first one.
Accept(s, P) ==
  LET r == <<s.sender, Cardinality(sent[s.sender].rcpts) + 1>>
  IN
    /\ sess' = [s EXCEPT !.rcpt_count = @ + 1]
    /\ proc' = Write(P, s.cleanup, <<RecOf("RCPT", r)>>)
    /\ sent' = [sent EXCEPT ![s.sender].rcpts = @ \cup {r}]

\* smtpd_recipient_limit.
BelowRcptLimit_mutant(s) == s.rcpt_count <= left.rcpt
BelowRcptLimit(s) == s.rcpt_count < left.rcpt

rcpt_cmd ==
    /\ AtPrompt
    /\ \/ Reject(sess)
       \/ /\ InTransaction /\ ~ProcessingBdat /\ BelowRcptLimit(sess)
          \* an access table may have asked for HOLD or DISCARD
          /\ \E flags \in {{}} \cup {{f} : f \in ActionFlag} :
             LET s == [sess EXCEPT !.saved_flags = @ \cup flags]
             IN  /\ IF flags = {} THEN UNCHANGED left ELSE Spend("verdict")
                 /\ asked' = [asked EXCEPT ![s.sender] = @ \cup flags]
                 /\ \/ /\ sess' = s
                       /\ UNCHANGED <<proc, file, sent>>
                    \/ /\ s.cleanup # NoProc
                       /\ Accept(s, proc)
                       /\ UNCHANGED file
                    \/ /\ s.cleanup = NoProc
                       /\ mail_open_stream(s)
                       /\ Accept([s EXCEPT !.cleanup = AnyProc], NewStream(s))
          /\ UNCHANGED <<bounced, told>>

------------------------------------------------------------------------------
(***************************************************************************)
(* DATA and BDAT.                                                          *)
(***************************************************************************)

\* common_pre_message_handling().
PreMessage(s) ==
    (IF s.saved_flags = {} THEN <<>> ELSE <<RecOf("FLGS", s.saved_flags)>>) \o <<Rec("MESG")>>
\* common_post_message_handling(), when there is no error.
PostMessage(s) ==
    <<Rec("XTRA")>>
    \o (IF s.saved_flags = {} THEN <<>> ELSE <<RecOf("FLGS", s.saved_flags)>>)
    \o <<Rec("END")>>

data_cmd ==
    /\ AtPrompt
    /\ \/ /\ ProcessingBdat \/ sess.rcpt_count = 0
          /\ Reject(sess)
       \/ /\ ~ProcessingBdat /\ sess.rcpt_count > 0
          /\ Reject(sess)
       \/ /\ ~ProcessingBdat /\ sess.rcpt_count > 0
          /\ sess' = [sess EXCEPT !.phase = "data"]
          /\ proc' = Write(proc, sess.cleanup, PreMessage(sess))
          /\ UNCHANGED <<file, asked, bounced, left, told, sent>>

\* The reply to the end of a message, and the resets that follow it.
Reply(s, P, err) ==
    /\ told' = IF s.sender = NoMsg THEN told
               ELSE [told EXCEPT ![s.sender] = IF err = {} THEN "ok" ELSE "error"]
    /\ sess' = [rcpt_reset(mail_reset(s)) EXCEPT
                    !.phase = "cmd", !.post = "NONE", !.bdat_state = s.post]
    /\ proc' = Closed(s, P)

\* common_post_message_handling(), up to the point where smtpd waits for the
\* status of cleanup.  P is the state of the processes so far.
PostHandling(s, P) ==
    \/ /\ s.err = {}
       /\ s.cleanup # NoProc
       /\ sess' = [s EXCEPT !.phase = "wait"]
       /\ proc' = Write(P, s.cleanup, PostMessage(s))
       /\ UNCHANGED told
    \/ /\ s.err # {}
       /\ Reply(s, P, s.err)
    \/ /\ s.err = {}                    \* smtpd_check_eod()
       /\ Reply(s, P, {"CONT"})

\* A piece of content: stored, or too large, or in error; once there is an
\* error the rest is not stored.
Content(s) == {s} \cup (IF s.err = {} THEN {[s EXCEPT !.err = {e}] : e \in {"SIZE", "BARE_LF"}} ELSE {})
Stored(s, P) == IF s.err = {} THEN Write(P, s.cleanup, <<Rec("NORM")>>) ELSE P
WithBody(s, last) ==
    [sent EXCEPT ![s.sender].body = @ + 1, ![s.sender].end = last]

\* receive_data_message() and the end of the message.
receive_data_message ==
    /\ sess.phase = "data"
    /\ \E s \in Content(sess) :
          /\ PostHandling(s, Stored(s, proc))
          /\ sent' = WithBody(s, TRUE)
    /\ UNCHANGED <<file, asked, bounced, left>>

\* mail_stream_finish() returns.
SmtpdFinish ==
    /\ sess.phase = "wait" /\ Answered(sess.cleanup)
    /\ Reply(sess, proc, mail_stream_finish_ipc(sess.cleanup))
    /\ UNCHANGED <<file, asked, bounced, left, sent>>

skip_bdat_mutant(last) ==
    /\ IF last
         THEN /\ sess' = rcpt_reset(mail_reset(sess))
              /\ proc' = Closed(sess, proc)
              /\ sent' = GivenUp(sess)
         ELSE /\ sess' = sess
              /\ sent' = IF InTransaction THEN WithBody(sess, FALSE) ELSE sent
              /\ UNCHANGED proc
    /\ UNCHANGED told

\* skip_bdat(): the chunk is read and thrown away.
skip_bdat(last) ==
    /\ IF last
         THEN /\ sess' = rcpt_reset(mail_reset(sess))
              /\ proc' = Closed(sess, proc)
              /\ sent' = GivenUp(sess)
         ELSE /\ sess' = [sess EXCEPT !.bdat_state = "ERROR"]
              /\ sent' = IF InTransaction THEN WithBody(sess, FALSE) ELSE sent
              /\ UNCHANGED proc
    /\ UNCHANGED told

\* A chunk that is accepted, up to the end of bdat_cmd(): the last one ends
\* the message, an error in an earlier one ends it too.
Chunk(s, P, last) ==
    \/ /\ last
       /\ PostHandling(s, P)
    \/ /\ ~last /\ s.err # {}
       /\ Reply([s EXCEPT !.post = "ERROR"], P, s.err)
    \/ /\ ~last /\ s.err = {}
       /\ sess' = s
       /\ proc' = P
       /\ UNCHANGED told

BodySent == IF InTransaction THEN sent[sess.sender].body ELSE 0

bdat_cmd(last) ==
    /\ AtPrompt
    /\ last \/ BodySent < left.chunk
    /\ \/ skip_bdat(last)               \* an earlier error, or a check fails now
       \/ /\ sess.bdat_state # "ERROR"
          /\ ProcessingBdat \/ sess.rcpt_count > 0
          /\ \E s \in Content([sess EXCEPT !.bdat_state = "OK"]) :
             LET P == IF ProcessingBdat THEN proc
                      ELSE Write(proc, sess.cleanup, PreMessage(sess))
             IN  /\ Chunk(s, Stored(s, P), last)
                 /\ sent' = WithBody(s, last)
    /\ UNCHANGED <<file, asked, bounced, left>>

SmtpdNext ==
    \/ Connect \/ rset_cmd \/ helo_cmd \/ starttls_cmd
    \/ EndSession \/ SmtpdDies
    \/ mail_cmd \/ rcpt_cmd \/ data_cmd \/ receive_data_message \/ SmtpdFinish
    \/ \E last \in BOOLEAN : bdat_cmd(last)

=============================================================================

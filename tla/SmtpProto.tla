------------------------------ MODULE SmtpProto ------------------------------
(***************************************************************************)
(* The SMTP and LMTP client's conversation with one server: the sender and *)
(* receiver machines of smtp_loop() (smtp_proto.c), what smtp_trouble.c    *)
(* does about errors, and the marks of smtp_rcpt.c that account for each   *)
(* recipient.  SmtpClient.tla chooses the servers.                         *)
(*                                                                         *)
(* The server is external: it answers the commands in order, with replies  *)
(* of its choice, and may vanish at any time.                              *)
(***************************************************************************)
EXTENDS Integers, Sequences, FiniteSets, SequencesExt

CONSTANTS
    Rcpt,      \* recipients of the delivery request
    NoRcpt,
    Addr,      \* network addresses of servers
    NoAddr,
    Setups     \* configurations and destinations, see Setup

\* smtp_mode: SMTP or LMTP.  sites: for each next hop (the last ones may be
\* smtp_fallback_relay) the addresses that a lookup returns; best: those with
\* the best preference; skip: those that smtp_tls_authorize_mx_hostname()
\* refuses; cached: idle connections, dest: those under the name of the
\* destination.  vrfy: the request is a probe that ends at this state.
Setup ==
    [ smtp_mode : BOOLEAN, skip_quit_resp : BOOLEAN, pipelining : BOOLEAN,
      tls : BOOLEAN, load : BOOLEAN, store : BOOLEAN,
      vrfy : {"no", "RCPT", "DATA"}, rcpts : Seq(Rcpt),
      sites : Seq(Seq(Addr)), fallback : BOOLEAN, relayhost : BOOLEAN,
      best : SUBSET Addr, skip : SUBSET Addr, cached : SUBSET Addr,
      dest : SUBSET Addr, mxaddr_limit : Nat, mxsess_limit : Nat ]

\* Two recipients of a request are two records, whatever their addresses; a
\* connection under the name of the destination is also there under its own.
ASSUME SetupsAssumption ==
    /\ IsFiniteSet(Rcpt) /\ NoRcpt \notin Rcpt /\ NoAddr \notin Addr
    /\ Setups \subseteq Setup
    /\ \A c \in Setups : c.dest \subseteq c.cached /\ IsInjective(c.rcpts)

VARIABLES
    cfg,     \* the setup; it does not change
    st,      \* SMTP_STATE and the delivery request
    ses,     \* SMTP_SESSION
    lp,      \* local variables of smtp_loop()
    srv,     \* the server: commands without a reply, and its transaction
    pc       \* what the program does next

protoVars == <<st, ses, lp, srv, pc>>

\* Reply classes: expected, 4xx, 5xx, and anything that makes the protocol
\* state doubtful (smtp_check_code(), smtp_chat_resp(), vsmtp_fill_dsn()).
Reply == {"ok", "soft", "hard", "proto"}
Refusal == Reply \ {"ok"}

States == <<"MAIL", "RCPT", "DATA", "DOT", "ABORT", "RSET", "QUIT", "LAST">>
Rank(state) == CHOOSE i \in DOMAIN States : States[i] = state

NoSession ==
    [addr |-> NoAddr, expire |-> "no", forbidden |-> FALSE, broken |-> FALSE,
     tls |-> FALSE, retry_plain |-> FALSE, xfer |-> FALSE]

\* A server with a new connection.  What the servers have taken so far is for
\* the properties: "accepted" with the reply seen, "unseen" without.
Fresh(v) == [v EXCEPT !.wire = <<>>, !.mail = FALSE, !.rcpts = <<>>]

\* xfer_init of smtp_loop(); ctx says where a broken write jumps to.
NewLoop ==
    [send_state |-> "MAIL", recv_state |-> "MAIL", next_state |-> "MAIL",
     send_rcpt |-> 0, recv_rcpt |-> 0, next_rcpt |-> 0, nrcpt |-> 0,
     survivors |-> <<>>, recv_done |-> 0, mail_from_rejected |-> FALSE,
     except |-> FALSE, ctx |-> "loop"]

Cached(se) == ~se.forbidden /\ se.expire = "cached"
Throttled(se) == ~se.forbidden /\ se.expire = "throttled"
DontCache(se) == [se EXCEPT !.expire = "no"]

\* A cached session may have reached its age or reuse limit.
MayExpire(se) == {se} \cup (IF Cached(se) THEN {DontCache(se)} ELSE {})

Probe(target) == cfg.vrfy = target

------------------------------------------------------------------------------
(***************************************************************************)
(* Recipients: mark and sweep.                                             *)
(***************************************************************************)
Marked(s) == s.keep \cup s.drop
Unmarked_mutant(s) == ToSet(s.list)

Unmarked(s) == ToSet(s.list) \ Marked(s)

SMTP_RCPT_KEEP(s, R) ==
    [s EXCEPT !.keep = @ \cup R, !.panic = @ \/ R \cap Marked(s) # {}]

SMTP_RCPT_DROP(s, R, how) ==
    [s EXCEPT !.drop = @ \cup R, !.fate[how] = @ \cup R,
              !.panic = @ \/ R \cap Marked(s) # {}]

smtp_rcpt_done(s, R) ==
    IF R = {} THEN s ELSE [SMTP_RCPT_DROP(s, R, "sent") EXCEPT !.why = "2"]

\* The sort moves the recipients that are kept to the front; qsort() does not
\* say in which order.
Kept(s) ==
    IF s.drop # {} /\ s.keep # {} THEN SetToSeqs(s.keep)
    ELSE {IF s.keep = {} THEN <<>> ELSE s.list}

smtp_rcpt_cleanup(s) ==
    { [s EXCEPT !.panic = @ \/ Unmarked(s) # {}, !.list = left,
                !.keep = {}, !.drop = {}] : left \in Kept(s) }

------------------------------------------------------------------------------
(***************************************************************************)
(* Trouble.                                                                *)
(***************************************************************************)

\* vsmtp_fill_dsn(): the reason for what happens next.  The field "refused"
\* is not in the program: the recipients for which someone has said no.
FillDsn(s, R, reply) ==
    [s EXCEPT !.why = IF reply = "soft" THEN "4" ELSE "5",
              !.refused = IF reply = "soft" THEN @ ELSE @ \cup R]

smtp_check_code(se, reply) == IF reply = "proto" THEN DontCache(se) ELSE se

smtp_bulk_fail(s, throttle, soft_non_final) ==
    LET R == Unmarked(s)
        soft == s.why = "4" \/ (soft_non_final /\ ~s.final_server)
    IN  IF soft /\ ~s.final_server
        THEN SMTP_RCPT_KEEP(s, R)
        ELSE [SMTP_RCPT_DROP(s, R, IF soft THEN "deferred" ELSE "bounced") EXCEPT
                !.hop_status = @ \/ (throttle /\ soft /\ R # {} /\ ~s.complete)]

\* The messages for which everything works but this server's opinion, and
\* the sites that do not work.
smtp_mesg_fail(s, reply) == smtp_bulk_fail(FillDsn(s, Unmarked(s), reply), FALSE, FALSE)
smtp_site_fail(s, reply) == smtp_bulk_fail(FillDsn(s, Unmarked(s), reply), TRUE, FALSE)
smtp_sess_fail(s) == smtp_bulk_fail(s, TRUE, FALSE)

smtp_rcpt_fail(s, r, reply) ==
    IF reply = "soft" /\ ~s.final_server
    THEN SMTP_RCPT_KEEP(FillDsn(s, {r}, reply), {r})
    ELSE SMTP_RCPT_DROP(FillDsn(s, {r}, reply), {r},
                        IF reply = "soft" THEN "deferred" ELSE "bounced")

\* RETRY_AS_PLAINTEXT, with an opportunistic TLS session and mail that has
\* been waiting.
PlainOK(s, se) == se.tls /\ Unmarked(s) # {}

smtp_stream_except(s, se) ==
    smtp_bulk_fail([s EXCEPT !.why = "4", !.final_server = @ /\ ~PlainOK(s, se)],
                   TRUE, FALSE)

\* The session after smtp_stream_except(), and before RETURN forgets it.
Broken(s, se) ==
    [se EXCEPT !.broken = TRUE, !.expire = "throttled",
               !.retry_plain = @ \/ PlainOK(s, se)]

------------------------------------------------------------------------------
(***************************************************************************)
(* The server, as far as the client can tell.                              *)
(***************************************************************************)

\* Commands as the server sees them; LMTP end-of-data has a reply for each
\* recipient that the server has accepted.
Command(state, r) == [cmd |-> state, rcpt |-> r]

Expected(state, r) ==
    IF state = "DOT" /\ ~cfg.smtp_mode
    THEN [i \in 1..Len(srv.rcpts) |-> Command("DOT", srv.rcpts[i])]
    ELSE <<Command(state, r)>>

Replies(c) ==
    CASE c.cmd = "RCPT" /\ ~srv.mail -> Refusal
      [] c.cmd = "DATA" /\ (~srv.mail \/ (~cfg.smtp_mode /\ srv.rcpts = <<>>)) -> Refusal
      [] c.cmd = "QUIT" -> {"ok"}
      [] OTHER -> Reply

\* The recipients that the server becomes responsible for with this reply.
Accepts(c, reply) ==
    IF c.cmd # "DOT" \/ reply # "ok" THEN <<>>
    ELSE IF cfg.smtp_mode THEN srv.rcpts ELSE <<c.rcpt>>

\* The server's transaction once it has sent a reply.
Answered(c, reply) ==
    [srv EXCEPT
       !.wire = Tail(@),
       !.mail = IF c.cmd = "MAIL" THEN reply = "ok" ELSE @ /\ c.cmd \notin {"DOT", "ABORT"},
       !.rcpts = IF c.cmd = "RCPT" /\ reply = "ok" THEN Append(@, c.rcpt)
                 ELSE IF c.cmd \in {"RCPT", "DATA"} THEN @ ELSE <<>>,
       !.accepted = @ \o Accepts(c, reply)]

\* A lost connection: the server may have accepted mail, and its replies are
\* lost.
LostReplies ==
    LET dots == {i \in DOMAIN srv.wire : srv.wire[i].cmd = "DOT"}
    IN  IF cfg.smtp_mode
        THEN {{}} \cup {ToSet(srv.rcpts) : i \in dots}
        ELSE SUBSET {srv.wire[i].rcpt : i \in dots}

Unseen(R) == [srv EXCEPT !.unseen = @ \cup R]

------------------------------------------------------------------------------
(***************************************************************************)
(* smtp_loop().                                                            *)
(***************************************************************************)
SENDER_IS_AHEAD(l) ==
    Rank(l.recv_state) < Rank(l.send_state) \/ l.recv_rcpt # l.send_rcpt

SENDING_MAIL(l) == Rank(l.recv_state) <= Rank("DOT")

AfterRcpt_mutant == "DATA"

\* Where the conversation goes after the last recipient.
AfterRcpt == IF Probe("RCPT") THEN "ABORT" ELSE "DATA"

AfterMail(se) == IF Cached(se) THEN "LAST" ELSE "QUIT"

NextState(l, se) ==
    CASE l.send_state = "MAIL" -> "RCPT"
      [] l.send_state = "RCPT" /\ l.send_rcpt + 1 = Len(st.list) -> AfterRcpt
      [] l.send_state = "DATA" -> "DOT"
      [] l.send_state \in {"DOT", "ABORT"} -> AfterMail(se)
      [] l.send_state = "QUIT" -> "LAST"
      [] OTHER -> l.next_state

NextRcpt(l) == IF l.send_state = "RCPT" THEN l.send_rcpt + 1 ELSE l.next_rcpt

\* The RETURN macro, and the end of smtp_xfer().
Return(s, se, l, result) ==
    /\ st' = [s EXCEPT !.complete = @ \/ (result = 0 /\ ~se.broken)]
    /\ ses' = IF l.recv_state = "LAST" THEN se ELSE DontCache(se)
    /\ lp' = NewLoop
    /\ pc' = "cleanup"

\* The connection is lost, or a timeout expires, outside the message content.
ReturnExcept(unseen) ==
    /\ srv' = Unseen(unseen)
    /\ Return(IF SENDING_MAIL(lp) THEN smtp_stream_except(st, ses) ELSE st,
              IF SENDING_MAIL(lp) THEN Broken(st, ses) ELSE [ses EXCEPT !.broken = TRUE],
              lp, -1)

\* The choice of the next command, and whether to wait for replies first: if
\* there is no pipelining, before the message content and at the end, and
\* when the output buffer is full or replies have been waiting for long.
LoopTop ==
    /\ pc = "send"
    /\ \E se \in IF lp.send_state \in {"DOT", "ABORT"} THEN MayExpire(ses) ELSE {ses} :
          /\ ses' = IF lp.send_state = "QUIT" /\ Cached(se) THEN DontCache(se) ELSE se
          /\ lp' = [lp EXCEPT !.next_state = NextState(lp, se), !.next_rcpt = NextRcpt(lp)]
    /\ pc' \in IF lp.send_state \in {"DOT", "LAST"} \/ (SENDER_IS_AHEAD(lp) /\ ~cfg.pipelining)
               THEN {"recv"}
               ELSE IF SENDER_IS_AHEAD(lp) THEN {"recv", "emit"} ELSE {"emit"}
    /\ UNCHANGED <<st, srv>>

------------------------------------------------------------------------------
(***************************************************************************)
(* Replies, one operator for each receiver state.                          *)
(***************************************************************************)
Received(s, se, l) ==
    /\ st' = s
    /\ ses' = se
    /\ lp' = [l EXCEPT !.ctx = "loop"]

MailReply(reply, se) ==
    Received(IF reply = "ok" THEN st ELSE smtp_mesg_fail(st, reply),
             smtp_check_code(se, reply),
             [lp EXCEPT !.recv_state = "RCPT", !.mail_from_rejected = reply # "ok"])

RcptReply(reply, se) ==
    LET r == st.list[lp.recv_rcpt + 1]
        good == reply = "ok" /\ ~lp.mail_from_rejected
        l == [lp EXCEPT !.recv_rcpt = @ + 1,
                        !.recv_state = IF lp.recv_rcpt + 1 = Len(st.list) THEN AfterRcpt ELSE @,
                        !.nrcpt = IF good THEN @ + 1 ELSE @,
                        !.survivors = IF good THEN Append(@, lp.recv_rcpt + 1) ELSE @]
    IN  Received(IF lp.mail_from_rejected \/ (good /\ ~Probe("RCPT")) THEN st
                 ELSE IF good THEN smtp_rcpt_done(st, {r})
                 ELSE smtp_rcpt_fail(st, r, reply),
                 IF lp.mail_from_rejected THEN se ELSE smtp_check_code(se, reply),
                 l)

DataReply(reply, se) ==
    CASE reply # "ok" ->
            Received(IF lp.nrcpt > 0 THEN smtp_mesg_fail(st, reply) ELSE st,
                     IF lp.nrcpt > 0 THEN smtp_check_code(se, reply) ELSE se,
                     [lp EXCEPT !.recv_state = "DOT", !.nrcpt = -1])
      [] reply = "ok" /\ Probe("DATA") ->
            Received(smtp_rcpt_done(st, Unmarked(st)), DontCache(se),
                     [lp EXCEPT !.recv_state = "LAST", !.send_state = "LAST",
                                !.nrcpt = Len(st.list)])
      [] OTHER -> Received(st, se, [lp EXCEPT !.recv_state = "DOT"])

\* Whether a reply to QUIT will be read.
AfterDot_mutant(se, l) == IF cfg.skip_quit_resp \/ Cached(se) THEN "LAST" ELSE "QUIT"

AfterDot(se, l) ==
    IF cfg.skip_quit_resp \/ Cached(se) \/ l.except THEN "LAST" ELSE "QUIT"

DotReply(reply, old) ==
    IF cfg.smtp_mode
    THEN LET se == IF lp.nrcpt > 0 THEN smtp_check_code(old, reply) ELSE old
         IN  Received(IF lp.nrcpt <= 0 THEN st
                      ELSE IF reply = "ok" THEN smtp_rcpt_done(st, Unmarked(st))
                      ELSE smtp_mesg_fail(st, reply),
                      se, [lp EXCEPT !.recv_state = AfterDot(se, lp)])
    ELSE LET r == st.list[lp.survivors[lp.recv_done + 1]]
             se == IF lp.nrcpt > 0 THEN smtp_check_code(old, reply) ELSE old
         IN  Received(IF lp.nrcpt <= 0 THEN st
                      ELSE IF reply = "ok" THEN smtp_rcpt_done(st, {r})
                      ELSE smtp_rcpt_fail(st, r, reply),
                      se,
                      [lp EXCEPT !.recv_done = IF lp.nrcpt > 0 THEN @ + 1 ELSE @,
                                 !.recv_state = IF lp.recv_done + 1 < lp.nrcpt THEN @
                                                ELSE AfterDot(se, lp)])

\* RSET after an abort, and QUIT: the reply says nothing.
OtherReply(se) ==
    Received(st, se,
             [lp EXCEPT !.recv_state =
                IF @ = "QUIT" \/ cfg.skip_quit_resp \/ Cached(se) THEN "LAST" ELSE "QUIT"])

\* Garbage disables caching before anyone looks at the reply.
Doubt(reply) == {ses} \cup (IF reply = "proto" THEN {DontCache(ses)} ELSE {})

Handle(reply, se) ==
    CASE lp.recv_state = "MAIL" -> MailReply(reply, se)
      [] lp.recv_state = "RCPT" -> RcptReply(reply, se)
      [] lp.recv_state = "DATA" -> DataReply(reply, se)
      [] lp.recv_state = "DOT" -> DotReply(reply, se)
      [] OTHER -> OtherReply(se)

RecvReply ==
    /\ pc = "recv" /\ SENDER_IS_AHEAD(lp) /\ srv.wire # <<>>
    /\ \E reply \in Replies(Head(srv.wire)) :
          /\ \E se \in Doubt(reply) : Handle(reply, se)
          /\ srv' = Answered(Head(srv.wire), reply)
    /\ UNCHANGED pc

\* LOST_CONNECTION_INSIDE_DATA: the server may have said why it does not want
\* the message, before it was gone.
RecvPremature ==
    /\ pc = "recv" /\ SENDER_IS_AHEAD(lp) /\ srv.wire = <<>> /\ lp.except
    /\ \E reply \in Refusal : \E se \in Doubt(reply) : DotReply(reply, se)
    /\ UNCHANGED <<srv, pc>>

RecvLost ==
    /\ pc = "recv" /\ SENDER_IS_AHEAD(lp)
    /\ \E unseen \in LostReplies : ReturnExcept(unseen)

\* All replies have been read.  The server's policy may force a change of
\* plan.
Synced ==
    /\ pc = "recv" /\ ~SENDER_IS_AHEAD(lp)
    /\ IF \/ lp.send_state = "RCPT" /\ lp.mail_from_rejected
          \/ lp.send_state = "DATA" /\ lp.nrcpt = 0
          \/ lp.send_state = "DOT" /\ lp.nrcpt < 0
       THEN \E se \in MayExpire(ses) :
               /\ ses' = se
               /\ lp' = [lp EXCEPT !.send_state = "ABORT", !.recv_state = "ABORT",
                                   !.send_rcpt = 0, !.recv_rcpt = 0, !.next_rcpt = 0,
                                   !.next_state = AfterMail(se)]
       ELSE UNCHANGED <<ses, lp>>
    /\ pc' = "emit"
    /\ UNCHANGED <<st, srv>>

------------------------------------------------------------------------------
(***************************************************************************)
(* Commands and message content.                                           *)
(***************************************************************************)
SendsContent == lp.send_state = "DOT" /\ lp.nrcpt > 0

EmitNothing ==
    /\ pc = "emit" /\ lp.send_state = "LAST"
    /\ Return(st, ses, lp, 0)
    /\ UNCHANGED srv

\* A command, after the message content if it is end-of-data; then the end of
\* the loop body, and its condition.
EmitCommand ==
    /\ pc = "emit" /\ lp.send_state # "LAST"
    /\ srv' = [srv EXCEPT !.wire = @ \o Expected(lp.send_state,
                  IF lp.send_state = "RCPT" THEN st.list[lp.send_rcpt + 1] ELSE NoRcpt)]
    /\ IF lp.recv_state = "LAST" THEN Return(st, ses, lp, 0)
       ELSE /\ lp' = [lp EXCEPT !.send_state = lp.next_state, !.send_rcpt = lp.next_rcpt,
                                !.ctx = IF SendsContent THEN "body" ELSE @]
            /\ pc' = "send"
            /\ UNCHANGED <<st, ses>>

\* smtp_mime_fail() and an unreadable queue file: the message is returned,
\* and the conversation ends in the middle of the content.
EmitBadContent ==
    /\ pc = "emit" /\ SendsContent
    /\ \/ Return(smtp_mesg_fail(st, "hard"), ses, lp, 0)
       \/ Return(smtp_mesg_fail(st, "hard"), [ses EXCEPT !.forbidden = TRUE], lp, -1)
    /\ UNCHANGED srv

\* A write fails, in the message content or in the command after it: what the
\* server has said about the message is still read.
EmitLostContent ==
    /\ pc = "emit" /\ lp.send_state # "LAST"
    /\ SendsContent \/ lp.ctx = "body"
    /\ ses' = DontCache([ses EXCEPT !.broken = TRUE])
    /\ lp' = [lp EXCEPT !.except = TRUE, !.ctx = "body", !.next_state = "LAST",
                        !.send_state = "LAST", !.send_rcpt = lp.next_rcpt]
    /\ pc' = "send"
    /\ UNCHANGED <<st, srv>>

\* A write fails elsewhere; or a timeout, anywhere.
EmitLost ==
    /\ pc = "emit" /\ lp.send_state # "LAST"
    /\ \E unseen \in LostReplies : ReturnExcept(unseen)

SmtpLoop ==
    \/ LoopTop \/ RecvReply \/ RecvPremature \/ RecvLost \/ Synced
    \/ EmitNothing \/ EmitCommand \/ EmitBadContent \/ EmitLostContent \/ EmitLost

==============================================================================

-------------------------- MODULE SmtpProtoProofs ---------------------------
(***************************************************************************)
(* The conversation of the SMTP and LMTP client with one server: the       *)
(* inductive invariant of smtp_loop(), and what the marks of smtp_rcpt.c   *)
(* preserve.  SmtpClientProofs puts the conversations together.            *)
(***************************************************************************)
EXTENDS SmtpProto, FiniteSetTheorems, SequenceTheorems, TLAPS

-----------------------------------------------------------------------------
(***************************************************************************)
(* Types.                                                                  *)
(***************************************************************************)
Fates == {"sent", "deferred", "bounced"}
StateName == {"MAIL", "RCPT", "DATA", "DOT", "ABORT", "RSET", "QUIT", "LAST"}

StType ==
    [ list : Seq(Rcpt), keep : SUBSET Rcpt, drop : SUBSET Rcpt, why : {"", "2", "4", "5"},
      final_server : BOOLEAN, complete : BOOLEAN, hop_status : BOOLEAN,
      fate : [Fates -> SUBSET Rcpt], refused : SUBSET Rcpt, panic : BOOLEAN ]

SesType ==
    [ addr : Addr \cup {NoAddr}, expire : {"cached", "no", "throttled"}, forbidden : BOOLEAN,
      broken : BOOLEAN, tls : BOOLEAN, retry_plain : BOOLEAN, xfer : BOOLEAN ]

LoopType ==
    [ send_state : StateName, recv_state : StateName, next_state : StateName,
      send_rcpt : Nat, recv_rcpt : Nat, next_rcpt : Nat, nrcpt : Int,
      survivors : Seq(Nat), recv_done : Nat, mail_from_rejected : BOOLEAN,
      except : BOOLEAN, ctx : {"loop", "body"} ]

CommandType == [cmd : StateName, rcpt : Rcpt \cup {NoRcpt}]

SrvType ==
    [ wire : Seq(CommandType), mail : BOOLEAN, rcpts : Seq(Rcpt), accepted : Seq(Rcpt),
      unseen : SUBSET Rcpt ]

LoopPc == {"send", "recv", "emit"}

-----------------------------------------------------------------------------
(***************************************************************************)
(* The recipients.                                                         *)
(***************************************************************************)
Decided(s) == s.fate["sent"] \cup s.fate["deferred"] \cup s.fate["bounced"]

\* Every recipient of the request is on the list or has an outcome, and only
\* those with the mark "drop" have both.  The last server keeps nobody.  Once
\* the destination is reported dead nobody is left to try.
Account(s) ==
    /\ ~s.panic
    /\ \A i, j \in 1..Len(s.list) : s.list[i] = s.list[j] => i = j
    /\ Marked(s) \subseteq ToSet(s.list) /\ s.keep \cap s.drop = {}
    /\ \A x, y \in Fates : x # y => s.fate[x] \cap s.fate[y] = {}
    /\ Decided(s) \cup ToSet(s.list) = ToSet(cfg.rcpts)
    /\ Decided(s) \cap ToSet(s.list) = s.drop
    /\ s.final_server => s.keep = {}
    /\ s.hop_status => ~s.complete /\ ToSet(s.list) \subseteq s.drop

\* What is refused is bounced, nothing else.
Fair(s) == s.fate["bounced"] \subseteq s.refused

\* The servers have accepted what the client has logged as sent, once.
Taken(s, v) ==
    /\ \A i, j \in 1..Len(v.accepted) : v.accepted[i] = v.accepted[j] => i = j
    /\ ToSet(v.accepted) = IF Probe("no") THEN s.fate["sent"] ELSE {}
    /\ ~Probe("no") => v.unseen = {}

-----------------------------------------------------------------------------
(***************************************************************************)
(* The receiver: the recipients whose fate the replies have not decided.   *)
(***************************************************************************)
Closed(l) ==
    \/ l.mail_from_rejected \/ l.nrcpt = -1
    \/ l.recv_state \in {"ABORT", "RSET", "QUIT", "LAST"}

Survivors(l) ==
    IF Probe("RCPT") THEN {} ELSE {l.survivors[j] : j \in (l.recv_done + 1)..Len(l.survivors)}

Open(l, n) == IF Closed(l) THEN {} ELSE ((l.recv_rcpt + 1)..n) \cup Survivors(l)

Receiving(l, n) ==
    /\ n > 0
    /\ l.recv_rcpt <= n
    /\ l.recv_state = "MAIL" =>
          l.recv_rcpt = 0 /\ l.survivors = <<>> /\ ~l.mail_from_rejected
    /\ l.recv_state = "RCPT" => l.recv_rcpt < n /\ l.nrcpt <= l.recv_rcpt
    /\ l.recv_state \in {"DATA", "DOT"} => l.recv_rcpt = n /\ ~Probe("RCPT")
    /\ l.recv_state \in {"MAIL", "RCPT", "DATA"} => l.nrcpt = Len(l.survivors) /\ l.recv_done = 0
    /\ l.recv_state = "DOT" =>
          /\ l.nrcpt \in {-1, Len(l.survivors)} /\ (cfg.smtp_mode \/ l.nrcpt # 0)
          /\ IF l.nrcpt > 0 THEN l.recv_done < l.nrcpt ELSE l.recv_done = 0
          /\ Probe("DATA") => l.nrcpt = -1
          /\ cfg.smtp_mode => l.recv_done = 0
    /\ l.recv_state # "RSET"
    /\ l.nrcpt \in -1..n
    /\ l.mail_from_rejected => l.survivors = <<>>
    /\ \A i \in 1..Len(l.survivors) :
          /\ l.survivors[i] \in 1..n
          /\ l.recv_state = "RCPT" => l.survivors[i] <= l.recv_rcpt
          /\ \A j \in 1..Len(l.survivors) : l.survivors[i] = l.survivors[j] => i = j

\* Who has no mark.
At(L, A) == {L[i] : i \in A}
Undecided(l, s) == Unmarked(s) = At(s.list, Open(l, Len(s.list)))

Receiver(l, s) == Receiving(l, Len(s.list)) /\ Undecided(l, s)

-----------------------------------------------------------------------------
(***************************************************************************)
(* The sender, and the commands that have no reply yet.                    *)
(***************************************************************************)
Early == IF Probe("RCPT") THEN {"MAIL", "RCPT", "ABORT"} ELSE {"MAIL", "RCPT", "DATA", "DOT"}

\* The commands up to DATA, or to the end of a probe, have fixed places.
Place(state, k, n) ==
    CASE state = "MAIL" -> 0
      [] state = "RCPT" -> k + 1
      [] state = "DOT" -> n + 2
      [] OTHER -> n + 1

CommandAt(L, p) ==
    IF p = 0 THEN Command("MAIL", NoRcpt)
    ELSE IF p <= Len(L) THEN Command("RCPT", L[p])
    ELSE Command(AfterRcpt, NoRcpt)

RecvPlace(l, L) == Place(l.recv_state, l.recv_rcpt, Len(L))
SendPlace(l, L) == Place(l.send_state, l.send_rcpt, Len(L))

Sends(l, L) ==
    /\ l.send_state = "MAIL" => l.send_rcpt = 0
    /\ l.send_state = "RCPT" => l.send_rcpt < Len(L)
    /\ l.send_state \in {"DATA", "DOT"} => l.send_rcpt = Len(L)

\* Up to the message content.
Asking(l, L, w) ==
    /\ l.send_state \in Early /\ l.recv_state \in Early /\ ~l.except /\ l.recv_done = 0
    /\ l.send_state = "ABORT" => l.send_rcpt = Len(L)
    /\ l.recv_state = "ABORT" => l.recv_rcpt = Len(L)
    /\ Len(w) = SendPlace(l, L) - RecvPlace(l, L)
    /\ \A k \in 1..Len(w) : w[k] = CommandAt(L, RecvPlace(l, L) + k - 1)

\* The sender has changed plans, and is about to say so.
Aborting(l, w) ==
    /\ l.send_state = "ABORT" /\ l.recv_state = "ABORT" /\ ~l.except
    /\ l.send_rcpt = 0 /\ l.recv_rcpt = 0 /\ w = <<>>

\* After the content, or the abort: the replies to wait for, and QUIT.
Count(l, L) ==
    CASE l.recv_state \in {"MAIL", "RCPT"} -> Len(L) + 2 - RecvPlace(l, L)
      [] l.recv_state = "DOT" -> IF cfg.smtp_mode THEN 1 ELSE l.nrcpt - l.recv_done
      [] l.recv_state = "ABORT" -> 1
      [] OTHER -> 0

Awaited(l, L, k) ==
    CASE l.recv_state \in {"MAIL", "RCPT"} -> CommandAt(L, RecvPlace(l, L) + k - 1)
      [] l.recv_state = "DOT" ->
            Command("DOT", IF cfg.smtp_mode THEN NoRcpt ELSE L[l.survivors[l.recv_done + k]])
      [] OTHER -> Command("ABORT", NoRcpt)

Ending(l, L, se) ==
    /\ l.send_state \in {"QUIT", "LAST"}
    /\ l.recv_state \in {"MAIL", "RCPT"} => Probe("RCPT") /\ l.send_rcpt = Len(L)
    /\ l.recv_state \in {"DOT", "ABORT", "QUIT", "LAST"} => l.recv_rcpt = l.send_rcpt
    /\ l.recv_state # "DATA"
    /\ l.recv_state = "DOT" => l.nrcpt >= 0
    /\ l.recv_state = "QUIT" => ~cfg.skip_quit_resp
    /\ l.except => l.recv_state \in {"DOT", "LAST"} /\ l.send_state = "LAST"
    /\ l.send_state = "QUIT" => ~Cached(se)

Owed(l, L, w, se) ==
    \/ /\ Len(w) = Count(l, L)
       /\ l.recv_state = "QUIT" /\ l.send_state = "LAST" => ~Cached(se)
    \/ /\ Len(w) = Count(l, L) + 1 /\ w[Len(w)] = Command("QUIT", NoRcpt)
       /\ l.send_state = "LAST" /\ ~Cached(se) /\ ~l.except
    \/ l.except /\ l.recv_state = "DOT" /\ l.nrcpt > 0 /\ w = <<>>

Closing(l, L, w, se) ==
    /\ Ending(l, L, se) /\ Owed(l, L, w, se)
    /\ \A k \in 1..Count(l, L) : k <= Len(w) => w[k] = Awaited(l, L, k)

\* What comes after the next command, or does already.
Planned(l, L, se, p) ==
    IF p = "send" THEN l.send_state = l.next_state /\ l.send_rcpt = l.next_rcpt
    ELSE /\ l.send_state = "MAIL" => l.next_state = "RCPT" /\ l.next_rcpt = 0
         /\ l.send_state = "RCPT" =>
               /\ l.next_rcpt = l.send_rcpt + 1
               /\ l.next_state = IF l.next_rcpt = Len(L) THEN AfterRcpt ELSE "RCPT"
         /\ l.send_state = "DATA" => l.next_state = "DOT" /\ l.next_rcpt = Len(L)
         /\ l.send_state \in {"DOT", "ABORT"} =>
               /\ l.next_state \in {"QUIT", "LAST"} /\ l.next_rcpt = l.send_rcpt
               /\ l.next_state = "QUIT" => ~Cached(se)
         /\ l.send_state = "QUIT" => l.next_state = "LAST" /\ l.next_rcpt = l.send_rcpt
         /\ p = "emit" /\ l.send_state = "DOT" => l.recv_state = "DOT" /\ l.nrcpt >= 0
         /\ p = "emit" /\ l.send_state = "LAST" => l.recv_state = "LAST"

\* What the server knows of the message.
Agreed(l, s, v) ==
    /\ l.recv_state = "MAIL" => ~v.mail /\ v.rcpts = <<>>
    /\ l.recv_state \in {"RCPT", "DATA"} => v.mail = ~l.mail_from_rejected
    /\ l.recv_state \in {"RCPT", "DATA", "DOT"} /\ (cfg.smtp_mode \/ l.send_state \in Early) =>
          /\ Len(v.rcpts) = Len(l.survivors)
          /\ \A i \in 1..Len(v.rcpts) : v.rcpts[i] = s.list[l.survivors[i]]

Talks(l, s, se, v, p) ==
    /\ Receiver(l, s) /\ Sends(l, s.list)
    /\ l.next_rcpt <= Len(s.list) /\ l.send_rcpt <= Len(s.list)
    /\ Asking(l, s.list, v.wire) \/ Aborting(l, v.wire) \/ Closing(l, s.list, v.wire, se)
    /\ Planned(l, s.list, se, p)
    /\ Agreed(l, s, v)
    /\ l.ctx = "body" => l.recv_state = "DOT" /\ l.send_state \in {"QUIT", "LAST"} /\ l.nrcpt > 0
    /\ ~s.hop_status /\ se.xfer

Talking == Talks(lp, st, ses, srv, pc)

TalkType ==
    /\ cfg \in Setups
    /\ st \in StType /\ ses \in SesType /\ lp \in LoopType /\ srv \in SrvType

ProtoInv ==
    /\ TalkType
    /\ Account(st) /\ Taken(st, srv)
    /\ pc \in LoopPc => Talking /\ Fair(st)
    /\ pc = "cleanup" =>
          /\ Unmarked(st) = {} /\ Fair(st)
          /\ lp = NewLoop
          /\ Cached(ses) /\ ~ses.broken => srv.wire = <<>>

-----------------------------------------------------------------------------
(***************************************************************************)
(* The marks.                                                              *)
(***************************************************************************)
\* SMTP_RCPT_KEEP: a mark for recipients that had none.
LEMMA KeepOK ==
    ASSUME NEW s \in StType, Account(s), ~s.final_server,
           NEW R \in SUBSET Rcpt, R \subseteq Unmarked(s),
           NEW t, t = SMTP_RCPT_KEEP(s, R)
    PROVE  /\ t \in StType /\ Account(t) /\ Unmarked(t) = Unmarked(s) \ R
           /\ t.list = s.list /\ t.complete = s.complete /\ t.hop_status = s.hop_status
           /\ t.final_server = s.final_server /\ t.fate = s.fate /\ t.refused = s.refused
           /\ t.why = s.why /\ t.drop = s.drop
<1>1. R \cap Marked(s) = {} /\ R \subseteq ToSet(s.list)
  BY DEF Unmarked
<1>2. PICK b \in BOOLEAN : b = (s.panic \/ R \cap Marked(s) # {})
  BY Zenon
<1>2a. t = [s EXCEPT !.keep = s.keep \cup R, !.panic = b]
  BY <1>2 DEF SMTP_RCPT_KEEP
<1>2b. b = FALSE
  BY <1>1, <1>2 DEF Account
<1>3. /\ t \in StType /\ t.keep = s.keep \cup R /\ ~t.panic
      /\ t.list = s.list /\ t.complete = s.complete /\ t.hop_status = s.hop_status
      /\ t.final_server = s.final_server /\ t.fate = s.fate /\ t.refused = s.refused
      /\ t.why = s.why /\ t.drop = s.drop
  BY <1>2a, <1>2b, ZenonT(30) DEF StType
<1>4. Marked(t) = Marked(s) \cup R /\ Decided(t) = Decided(s)
  BY <1>3 DEF Marked, Decided
<1>5. Unmarked(t) = Unmarked(s) \ R
  BY <1>3, <1>4 DEF Unmarked
<1>6. Account(t)
  BY <1>1, <1>3, <1>4 DEF Account, Marked
<1> QED BY <1>3, <1>5, <1>6

\* A recipient that is dropped gets an outcome, and had none.
LEMMA DropOK ==
    ASSUME NEW s \in StType, Account(s), NEW how \in Fates,
           NEW R \in SUBSET Rcpt, R \subseteq Unmarked(s),
           NEW t, t = SMTP_RCPT_DROP(s, R, how)
    PROVE  /\ t \in StType /\ Account(t) /\ Unmarked(t) = Unmarked(s) \ R
           /\ t.list = s.list /\ t.complete = s.complete /\ t.hop_status = s.hop_status
           /\ t.final_server = s.final_server /\ t.refused = s.refused
           /\ t.why = s.why /\ t.keep = s.keep /\ t.drop = s.drop \cup R
           /\ t.fate[how] = s.fate[how] \cup R
           /\ \A x \in Fates : x # how => t.fate[x] = s.fate[x]
<1>1. R \cap Marked(s) = {} /\ R \subseteq ToSet(s.list)
  BY DEF Unmarked
<1>2. PICK f : f = [s.fate EXCEPT ![how] = s.fate[how] \cup R]
  OBVIOUS
<1>3. PICK b \in BOOLEAN : b = (s.panic \/ R \cap Marked(s) # {})
  BY Zenon
<1>3a. t = [s EXCEPT !.drop = s.drop \cup R, !.fate = f, !.panic = b]
  <2>1. t = [s EXCEPT !.drop = s.drop \cup R, !.fate[how] = s.fate[how] \cup R, !.panic = b]
    BY <1>3 DEF SMTP_RCPT_DROP
  <2> QED BY <2>1, <1>2 DEF StType
<1>3b. b = FALSE
  BY <1>1, <1>3 DEF Account
<1>4. /\ f \in [Fates -> SUBSET Rcpt] /\ f[how] = s.fate[how] \cup R
      /\ \A x \in Fates : x # how => f[x] = s.fate[x]
  BY <1>2 DEF StType
<1>5. /\ t \in StType /\ t.drop = s.drop \cup R /\ ~t.panic /\ t.keep = s.keep /\ t.fate = f
      /\ t.list = s.list /\ t.complete = s.complete /\ t.hop_status = s.hop_status
      /\ t.final_server = s.final_server /\ t.refused = s.refused /\ t.why = s.why
  <2>0. s.drop \cup R \in SUBSET Rcpt
    BY DEF StType
  <2>1. t \in StType
    BY <2>0, <1>3a, <1>4 DEF StType
  <2>2. t.drop = s.drop \cup R /\ ~t.panic /\ t.keep = s.keep /\ t.fate = f
    BY <1>3a, <1>3b DEF StType
  <2> QED BY <2>1, <2>2, <1>3a DEF StType
<1>6. Decided(t) = Decided(s) \cup R
  BY <1>4, <1>5 DEF Decided, Fates
<1>7. Marked(t) = Marked(s) \cup R
  BY <1>5 DEF Marked
<1>8. Unmarked(t) = Unmarked(s) \ R
  BY <1>5, <1>7 DEF Unmarked
<1>9. R \cap Decided(s) = {}
  BY <1>1 DEF Account, Marked
<1>10. \A x, y \in Fates : x # y => t.fate[x] \cap t.fate[y] = {}
  <2>1. \A x \in Fates : R \cap s.fate[x] = {}
    BY <1>9 DEF Decided, Fates
  <2> QED BY <2>1, <1>4, <1>5 DEF Account
<1>11. Account(t)
  <2>1. /\ Marked(t) \subseteq ToSet(t.list) /\ t.keep \cap t.drop = {}
    BY <1>1, <1>5, <1>7 DEF Account, Marked
  <2>2. /\ Decided(t) \cup ToSet(t.list) = ToSet(cfg.rcpts)
        /\ Decided(t) \cap ToSet(t.list) = t.drop
    BY <1>1, <1>5, <1>6 DEF Account
  <2> QED BY <2>1, <2>2, <1>5, <1>10 DEF Account
<1> QED BY <1>4, <1>5, <1>8, <1>11

\* A reason is about some of the recipients.
Filled(s, R, reply, t) ==
    /\ t \in StType /\ Account(t) /\ Unmarked(t) = Unmarked(s)
    /\ t.list = s.list /\ t.complete = s.complete /\ t.hop_status = s.hop_status
    /\ t.final_server = s.final_server /\ t.fate = s.fate /\ s.refused \subseteq t.refused
    /\ t.keep = s.keep /\ t.drop = s.drop
    /\ t.why = (IF reply = "soft" THEN "4" ELSE "5")
    /\ reply # "soft" => R \subseteq t.refused

\* vsmtp_fill_dsn() changes the reason and who was refused, nothing else.
LEMMA Filling ==
    ASSUME NEW s \in StType, Account(s), NEW R \in SUBSET Rcpt, NEW reply \in Refusal,
           NEW t, t = FillDsn(s, R, reply)
    PROVE  Filled(s, R, reply, t)
<1>1. PICK why \in {"4", "5"} : why = IF reply = "soft" THEN "4" ELSE "5"
  OBVIOUS
<1>2. PICK V \in SUBSET Rcpt : V = IF reply = "soft" THEN s.refused ELSE s.refused \cup R
  BY DEF StType
<1>3. t = [s EXCEPT !.why = why, !.refused = V]
  BY <1>1, <1>2 DEF FillDsn
<1>4. /\ t \in StType /\ t.why = why /\ t.refused = V
      /\ t.list = s.list /\ t.complete = s.complete /\ t.hop_status = s.hop_status
      /\ t.final_server = s.final_server /\ t.fate = s.fate /\ t.panic = s.panic
      /\ t.keep = s.keep /\ t.drop = s.drop
  BY <1>3 DEF StType
<1>5. Account(t) /\ Unmarked(t) = Unmarked(s)
  BY <1>4 DEF Account, Unmarked, Marked, Decided
<1> QED BY <1>1, <1>2, <1>4, <1>5 DEF Filled

\* smtp_rcpt_done().
Done(s, R, t) ==
    /\ t \in StType /\ Account(t) /\ Unmarked(t) = Unmarked(s) \ R
    /\ t.list = s.list /\ t.complete = s.complete /\ t.hop_status = s.hop_status
    /\ t.final_server = s.final_server
    /\ t.fate["sent"] = s.fate["sent"] \cup R
    /\ Fair(s) => Fair(t)

\* smtp_rcpt_done(): the recipients are sent, and dropped.
LEMMA RcptDoneOK ==
    ASSUME NEW s \in StType, Account(s), NEW R \in SUBSET Rcpt, R \subseteq Unmarked(s),
           NEW t, t = smtp_rcpt_done(s, R)
    PROVE  Done(s, R, t)
<1>1. CASE R = {}
  <2>1. t = s
    BY <1>1 DEF smtp_rcpt_done
  <2> QED BY <2>1, <1>1 DEF Done
<1>2. CASE R # {}
  <2>1. PICK u : u = SMTP_RCPT_DROP(s, R, "sent")
    OBVIOUS
  <2>2. t = [u EXCEPT !.why = "2"]
    BY <1>2, <2>1 DEF smtp_rcpt_done
  <2>3. "sent" \in Fates /\ "bounced" \in Fates /\ "deferred" \in Fates
    BY DEF Fates
  <2>4. /\ u \in StType /\ Account(u) /\ Unmarked(u) = Unmarked(s) \ R
        /\ u.list = s.list /\ u.complete = s.complete /\ u.hop_status = s.hop_status
        /\ u.final_server = s.final_server /\ u.refused = s.refused
        /\ u.fate["sent"] = s.fate["sent"] \cup R
        /\ u.fate["bounced"] = s.fate["bounced"]
    <3> HIDE DEF Fates
    <3>1. \A x \in Fates : x # "sent" => u.fate[x] = s.fate[x]
      BY <2>1, <2>3, DropOK
    <3> QED BY <2>1, <2>3, <3>1, DropOK
  <2>5. /\ t \in StType /\ t.list = u.list /\ t.complete = u.complete
        /\ t.hop_status = u.hop_status /\ t.final_server = u.final_server
        /\ t.refused = u.refused /\ t.fate = u.fate /\ t.panic = u.panic
        /\ t.keep = u.keep /\ t.drop = u.drop
    BY <2>2, <2>4 DEF StType
  <2>6. Account(t) /\ Unmarked(t) = Unmarked(u)
    BY <2>4, <2>5 DEF Account, Unmarked, Marked, Decided
  <2> QED BY <2>4, <2>5, <2>6 DEF Fair, Done
<1> QED BY <1>1, <1>2

\* A failure leaves what was sent alone, and is fair.
Failed(s, t) ==
    /\ t \in StType /\ Account(t)
    /\ t.list = s.list /\ t.complete = s.complete
    /\ t.fate["sent"] = s.fate["sent"]
    /\ s.refused \subseteq t.refused
    /\ Fair(s) => Fair(t)

\* What smtp_bulk_fail() does: "yes" is a destination that may be dead.
BulkStep(s, R, how, dead, t) ==
    /\ s \in StType /\ Account(s) /\ R = Unmarked(s)
    /\ how \in {"deferred", "bounced"} /\ (how = "bounced" => R \subseteq s.refused)
    /\ dead \in {"yes", "no"} /\ (dead = "yes" => s.final_server /\ ~s.complete)
    /\ \/ ~s.final_server /\ t = SMTP_RCPT_KEEP(s, R)
       \/ t = [SMTP_RCPT_DROP(s, R, how) EXCEPT !.hop_status = @ \/ dead = "yes"]

\* Everybody has a mark after it.
Bulked(s, dead, t) ==
    /\ Failed(s, t) /\ Unmarked(t) = {}
    /\ t.final_server = s.final_server /\ t.why = s.why
    /\ dead = "no" => t.hop_status = s.hop_status

\* What the callers of smtp_bulk_fail() need of it.
LEMMA BulkOK ==
    ASSUME NEW s, NEW R, NEW how, NEW h, NEW t, BulkStep(s, R, how, h, t)
    PROVE  Bulked(s, h, t)
<1>0. /\ s \in StType /\ Account(s) /\ R = Unmarked(s)
      /\ how \in {"deferred", "bounced"} /\ (how = "bounced" => R \subseteq s.refused)
      /\ h \in {"yes", "no"} /\ (h = "yes" => s.final_server /\ ~s.complete)
  BY DEF BulkStep
<1>1. R \in SUBSET Rcpt /\ R \subseteq Unmarked(s)
  <2>1. s.list \in Seq(Rcpt)
    BY <1>0 DEF StType
  <2>2. ToSet(s.list) \subseteq Rcpt
    BY <2>1 DEF ToSet
  <2> QED BY <1>0, <2>2 DEF Unmarked
<1>2. CASE ~s.final_server /\ t = SMTP_RCPT_KEEP(s, R)
  BY <1>0, <1>1, <1>2, KeepOK DEF Failed, Fair, Bulked
<1>3. CASE t = [SMTP_RCPT_DROP(s, R, how) EXCEPT !.hop_status = @ \/ h = "yes"]
  <2>1. PICK u : u = SMTP_RCPT_DROP(s, R, how)
    OBVIOUS
  <2>2. how \in Fates /\ how # "sent" /\ "sent" \in Fates /\ "bounced" \in Fates
    BY <1>0 DEF Fates
  <2>3. /\ u \in StType /\ Account(u) /\ Unmarked(u) = Unmarked(s) \ R
        /\ u.list = s.list /\ u.complete = s.complete /\ u.hop_status = s.hop_status
        /\ u.final_server = s.final_server /\ u.refused = s.refused
        /\ u.why = s.why /\ u.keep = s.keep /\ u.drop = s.drop \cup R
        /\ u.fate[how] = s.fate[how] \cup R
        /\ \A x \in Fates : x # how => u.fate[x] = s.fate[x]
    <3> HIDE DEF Fates
    <3> QED BY <1>0, <1>1, <2>1, <2>2, DropOK
  <2>4. u.fate["sent"] = s.fate["sent"]
    BY <2>2, <2>3
  <2>5. u.fate["bounced"] \subseteq s.fate["bounced"] \cup s.refused
    <3>1. CASE how = "bounced"
      BY <1>0, <2>3, <3>1
    <3>2. CASE how # "bounced"
      BY <2>2, <2>3, <3>2
    <3> QED BY <3>1, <3>2
  <2>6. PICK b \in BOOLEAN : b = (u.hop_status \/ h = "yes")
    BY Zenon
  <2>7. t = [u EXCEPT !.hop_status = b]
    BY <1>3, <2>1, <2>6
  <2>8. /\ t \in StType /\ t.list = u.list /\ t.complete = u.complete
        /\ t.hop_status = b /\ t.final_server = u.final_server
        /\ t.refused = u.refused /\ t.fate = u.fate /\ t.panic = u.panic
        /\ t.keep = u.keep /\ t.drop = u.drop /\ t.why = u.why
    BY <2>3, <2>7 DEF StType
  <2>9. Unmarked(t) = {}
    BY <1>0, <2>3, <2>8 DEF Unmarked, Marked
  <2>10. b => ~t.complete /\ ToSet(t.list) \subseteq t.drop
    <3>1. CASE h = "yes"
      <4>1. u.keep = {} /\ ~u.complete
        BY <1>0, <2>3, <3>1 DEF Account
      <4> QED BY <2>8, <2>9, <4>1 DEF Unmarked, Marked
    <3>2. CASE h # "yes"
      BY <2>3, <2>6, <2>8, <3>2 DEF Account
    <3> QED BY <3>1, <3>2
  <2>11. Account(t)
    BY <2>3, <2>8, <2>10 DEF Account, Marked, Decided
  <2>12. h = "no" => t.hop_status = s.hop_status
    BY <1>0, <2>3, <2>6, <2>8 DEF StType
  <2>13. Failed(s, t)
    BY <2>3, <2>4, <2>5, <2>8, <2>11 DEF Failed, Fair
  <2> QED BY <2>3, <2>8, <2>9, <2>12, <2>13 DEF Bulked
<1> QED BY <1>2, <1>3 DEF BulkStep


LEMMA UnmarkedType ==
    ASSUME NEW s \in StType
    PROVE  Unmarked(s) \in SUBSET Rcpt
<1>1. s.list \in Seq(Rcpt)
  BY DEF StType
<1> QED BY <1>1 DEF Unmarked, ToSet

\* smtp_bulk_fail() ends the session for everybody.
LEMMA BulkFailOK ==
    ASSUME NEW s \in StType, Account(s),
           s.why = "4" \/ Unmarked(s) \subseteq s.refused,
           NEW t, t = smtp_bulk_fail(s, FALSE, FALSE)
    PROVE  Bulked(s, "no", t)
<1>1. PICK R : R = Unmarked(s)
  OBVIOUS
<1>2. PICK how \in {"deferred", "bounced"} : how = IF s.why = "4" THEN "deferred" ELSE "bounced"
  OBVIOUS
<1>3. PICK h \in {"yes", "no"} : h = "no"
  OBVIOUS
<1>4. BulkStep(s, R, how, h, t)
  <2>1. CASE s.why = "4"
    BY <1>1, <1>2, <1>3, <2>1 DEF smtp_bulk_fail, BulkStep
  <2>2. CASE s.why # "4"
    BY <1>1, <1>2, <1>3, <2>2 DEF smtp_bulk_fail, BulkStep
  <2> QED BY <2>1, <2>2
<1>5. Bulked(s, h, t)
  BY <1>4, BulkOK
<1> QED BY <1>3, <1>5

\* smtp_sess_fail(), and smtp_mesg_fail() after the reason is filled in.
LEMMA MiscFailOK ==
    ASSUME NEW s \in StType, Account(s), Unmarked(s) \subseteq s.refused,
           NEW t, t = smtp_bulk_fail(s, FALSE, TRUE)
    PROVE  Bulked(s, "no", t)
<1>1. PICK R : R = Unmarked(s)
  OBVIOUS
<1>2. PICK how \in {"deferred", "bounced"} :
         how = IF s.why = "4" \/ ~s.final_server THEN "deferred" ELSE "bounced"
  OBVIOUS
<1>3. PICK h \in {"yes", "no"} : h = "no"
  OBVIOUS
<1>4. BulkStep(s, R, how, h, t)
  <2>1. CASE s.why = "4"
    BY <1>1, <1>2, <1>3, <2>1 DEF smtp_bulk_fail, BulkStep
  <2>2. CASE s.why # "4"
    BY <1>1, <1>2, <1>3, <2>2 DEF smtp_bulk_fail, BulkStep
  <2> QED BY <2>1, <2>2
<1>5. Bulked(s, h, t)
  BY <1>4, BulkOK
<1> QED BY <1>3, <1>5

\* smtp_site_fail(): the destination is called dead only when the reason says so.
LEMMA SiteFailOK ==
    ASSUME NEW s \in StType, Account(s),
           s.why = "4" \/ Unmarked(s) \subseteq s.refused,
           NEW t, t = smtp_bulk_fail(s, TRUE, FALSE)
    PROVE  Bulked(s, "yes", t)
<1>1. PICK R : R = Unmarked(s)
  OBVIOUS
<1>2. PICK how \in {"deferred", "bounced"} : how = IF s.why = "4" THEN "deferred" ELSE "bounced"
  OBVIOUS
<1>3. PICK h \in {"yes", "no"} :
         h = IF s.why = "4" /\ s.final_server /\ R # {} /\ ~s.complete THEN "yes" ELSE "no"
  OBVIOUS
<1>4. BulkStep(s, R, how, h, t)
  <2>1. CASE s.why = "4" /\ ~s.final_server
    BY <1>1, <1>2, <1>3, <2>1 DEF smtp_bulk_fail, BulkStep
  <2>2. CASE s.why = "4" /\ s.final_server
    <3>1. (h = "yes") = (R # {} /\ ~s.complete)
      BY <1>3, <2>2
    <3> QED BY <1>1, <1>2, <1>3, <2>2, <3>1 DEF smtp_bulk_fail, BulkStep
  <2>3. CASE s.why # "4"
    <3>1. h = "no"
      BY <1>3, <2>3
    <3> QED BY <1>1, <1>2, <2>3, <3>1 DEF smtp_bulk_fail, BulkStep
  <2> QED BY <2>1, <2>2, <2>3
<1>5. Bulked(s, h, t)
  BY <1>4, BulkOK
<1> QED BY <1>5 DEF Bulked

\* smtp_mesg_fail() decides everybody who is left, and stays fair.
LEMMA MesgFailOK ==
    ASSUME NEW s \in StType, Account(s), NEW reply \in Refusal,
           NEW t, t = smtp_mesg_fail(s, reply)
    PROVE  /\ Failed(s, t) /\ Unmarked(t) = {}
           /\ t.final_server = s.final_server /\ t.hop_status = s.hop_status
<1>0. PICK R \in SUBSET Rcpt : R = Unmarked(s)
  BY UnmarkedType
<1>1. PICK u : u = FillDsn(s, R, reply)
  OBVIOUS
<1>2. Filled(s, R, reply, u)
  BY <1>1, Filling
<1>2a. u \in StType /\ Account(u) /\ (u.why = "4" \/ Unmarked(u) \subseteq u.refused)
  BY <1>0, <1>2 DEF Filled
<1>3. t = smtp_bulk_fail(u, FALSE, FALSE)
  BY <1>0, <1>1 DEF smtp_mesg_fail
<1>5. Bulked(u, "no", t)
  BY <1>2a, <1>3, BulkFailOK
<1> QED BY <1>2, <1>5 DEF Failed, Fair, Bulked, Filled

\* smtp_rcpt_fail() and the loss of a connection.
LEMMA RcptFailOK ==
    ASSUME NEW s \in StType, Account(s), NEW r \in Unmarked(s), NEW reply \in Refusal,
           NEW t, t = smtp_rcpt_fail(s, r, reply)
    PROVE  /\ Failed(s, t) /\ Unmarked(t) = Unmarked(s) \ {r}
           /\ t.final_server = s.final_server /\ t.hop_status = s.hop_status
<1>0. PICK R \in SUBSET Rcpt : R = {r} /\ R \subseteq Unmarked(s)
  BY UnmarkedType
<1>1. PICK u : u = FillDsn(s, R, reply)
  OBVIOUS
<1>2. Filled(s, R, reply, u)
  BY <1>1, Filling
<1>3. u \in StType /\ Account(u) /\ R \subseteq Unmarked(u)
  BY <1>0, <1>2 DEF Filled
<1>4. CASE reply = "soft" /\ ~s.final_server
  <2>1. t = SMTP_RCPT_KEEP(u, R)
    BY <1>0, <1>1, <1>4 DEF smtp_rcpt_fail
  <2>2. ~u.final_server
    BY <1>2, <1>4 DEF Filled
  <2>3. /\ t \in StType /\ Account(t) /\ Unmarked(t) = Unmarked(u) \ R
        /\ t.list = u.list /\ t.complete = u.complete /\ t.hop_status = u.hop_status
        /\ t.final_server = u.final_server /\ t.fate = u.fate /\ t.refused = u.refused
    BY <1>3, <2>1, <2>2, KeepOK
  <2> QED BY <1>0, <1>2, <2>3 DEF Failed, Fair, Filled
<1>5. CASE ~(reply = "soft" /\ ~s.final_server)
  <2>1. PICK how \in Fates : how = IF reply = "soft" THEN "deferred" ELSE "bounced"
    BY DEF Fates
  <2>2. t = SMTP_RCPT_DROP(u, R, how)
    BY <1>0, <1>1, <1>5, <2>1 DEF smtp_rcpt_fail
  <2>3. /\ t \in StType /\ Account(t) /\ Unmarked(t) = Unmarked(u) \ R
        /\ t.list = u.list /\ t.complete = u.complete /\ t.hop_status = u.hop_status
        /\ t.final_server = u.final_server /\ t.refused = u.refused
        /\ t.fate[how] = u.fate[how] \cup R
        /\ \A x \in Fates : x # how => t.fate[x] = u.fate[x]
    <3> HIDE DEF Fates
    <3> QED BY <1>3, <2>2, DropOK
  <2>4. how # "sent" /\ "sent" \in Fates /\ "bounced" \in Fates
    BY <2>1 DEF Fates
  <2>5. t.fate["sent"] = s.fate["sent"]
    BY <1>2, <2>3, <2>4 DEF Filled
  <2>6. Fair(s) => Fair(t)
    <3>1. CASE how = "bounced"
      BY <1>0, <1>2, <2>1, <2>3, <3>1 DEF Filled, Fair
    <3>2. CASE how # "bounced"
      BY <1>2, <2>3, <2>4, <3>2 DEF Filled, Fair
    <3> QED BY <3>1, <3>2
  <2> QED BY <1>0, <1>2, <2>3, <2>5, <2>6 DEF Failed, Filled
<1> QED BY <1>4, <1>5

\* smtp_stream_except() decides everybody who is left, unless another server or a
\* plaintext retry will.
LEMMA StreamExceptOK ==
    ASSUME NEW s \in StType, Account(s), NEW se \in SesType,
           NEW t, t = smtp_stream_except(s, se)
    PROVE  Failed(s, t) /\ Unmarked(t) = {} /\ (t.final_server => s.final_server)
           /\ (t.final_server \/ ~s.final_server \/ PlainOK(s, se))
<1>1. PICK b \in BOOLEAN : b = (s.final_server /\ ~PlainOK(s, se))
  BY Zenon
<1>2. PICK u : u = [s EXCEPT !.why = "4", !.final_server = b]
  OBVIOUS
<1>3. t = smtp_bulk_fail(u, TRUE, FALSE)
  BY <1>1, <1>2 DEF smtp_stream_except
<1>4. /\ u \in StType /\ u.list = s.list /\ u.complete = s.complete /\ u.panic = s.panic
      /\ u.hop_status = s.hop_status /\ u.fate = s.fate /\ u.refused = s.refused
      /\ u.keep = s.keep /\ u.drop = s.drop /\ u.final_server = b /\ u.why = "4"
  BY <1>2 DEF StType
<1>5. Account(u)
  BY <1>1, <1>4 DEF Account, Marked, Decided
<1>6. Bulked(u, "yes", t)
  BY <1>3, <1>4, <1>5, SiteFailOK
<1>7. Failed(s, t) /\ Unmarked(t) = {} /\ t.final_server = b
  BY <1>4, <1>6 DEF Failed, Bulked, Fair
<1> QED BY <1>1, <1>7

\* The sort of smtp_rcpt_cleanup() loses nobody.
LEMMA SetListed ==
    ASSUME NEW S, IsFiniteSet(S), NEW f \in SetToSeqs(S)
    PROVE  /\ f \in Seq(S) /\ ToSet(f) = S
           /\ \A i, j \in 1..Len(f) : f[i] = f[j] => i = j
<1>1. PICK n \in Nat : n = Cardinality(S)
  BY FS_CardinalityType
<1>2. f \in [1..n -> S] /\ \A i, j \in 1..n : i # j => f[i] # f[j]
  BY <1>1 DEF SetToSeqs
<1>3. f \in Seq(S) /\ Len(f) = n
  BY <1>2
<1>4. f \in Injection(1..n, S)
  BY <1>2 DEF Injection, IsInjective
<1>5. Cardinality(1..n) = n
  BY FS_Interval
<1>6. f \in Surjection(1..n, S)
  BY <1>1, <1>4, <1>5, FS_Injection
<1>7. ToSet(f) = S
  BY <1>2, <1>6 DEF Surjection, ToSet
<1> QED BY <1>2, <1>3, <1>7

\* Those with the mark "keep" are left, without a mark.
Swept(s, t) ==
    /\ t \in StType /\ Account(t) /\ Marked(t) = {} /\ ToSet(t.list) = s.keep
    /\ t.complete = s.complete /\ t.hop_status = s.hop_status /\ t.why = s.why
    /\ t.final_server = s.final_server /\ t.fate = s.fate /\ t.refused = s.refused

\* smtp_rcpt_cleanup(): in whatever order qsort() leaves those who are kept, they are
\* who is left, each once.
LEMMA CleanupOK ==
    ASSUME IsFiniteSet(Rcpt), NEW s \in StType, Account(s), Unmarked(s) = {},
           NEW t, t \in smtp_rcpt_cleanup(s)
    PROVE  Swept(s, t)
<1>0. PICK b \in BOOLEAN : b = (s.panic \/ Unmarked(s) # {})
  BY Zenon
<1>1. PICK left \in Kept(s) :
         t = [s EXCEPT !.panic = b, !.list = left, !.keep = {}, !.drop = {}]
  BY <1>0 DEF smtp_rcpt_cleanup
<1>2. b = FALSE
  BY <1>0 DEF Account
<1>3. s.list \in Seq(Rcpt) /\ s.keep \in SUBSET Rcpt /\ s.drop \in SUBSET Rcpt
  BY DEF StType
<1>4. ToSet(s.list) = s.keep \cup s.drop /\ s.keep \cap s.drop = {}
  BY DEF Account, Unmarked, Marked
<1>5. /\ left \in Seq(Rcpt) /\ ToSet(left) = s.keep
      /\ \A i, j \in 1..Len(left) : left[i] = left[j] => i = j
  <2>1. CASE s.drop # {} /\ s.keep # {}
    <3>1. IsFiniteSet(s.keep) /\ left \in SetToSeqs(s.keep)
      BY <1>1, <1>3, <2>1, FS_Subset DEF Kept
    <3>2. left \in Seq(s.keep) /\ ToSet(left) = s.keep
          /\ \A i, j \in 1..Len(left) : left[i] = left[j] => i = j
      BY <3>1, SetListed
    <3> QED BY <1>3, <3>2
  <2>2. CASE s.keep = {}
    <3>1. left = <<>>
      BY <1>1, <2>2 DEF Kept
    <3> QED BY <2>2, <3>1 DEF ToSet
  <2>3. CASE s.keep # {} /\ s.drop = {}
    <3>1. left = s.list
      BY <1>1, <2>3 DEF Kept
    <3> QED BY <1>3, <1>4, <2>3, <3>1 DEF Account
  <2> QED BY <2>1, <2>2, <2>3
<1>6. /\ t \in StType /\ t.panic = FALSE /\ t.list = left /\ t.keep = {} /\ t.drop = {}
      /\ t.complete = s.complete /\ t.hop_status = s.hop_status /\ t.why = s.why
      /\ t.final_server = s.final_server /\ t.fate = s.fate /\ t.refused = s.refused
  BY <1>1, <1>2, <1>5 DEF StType
<1>7. Marked(t) = {} /\ Decided(t) = Decided(s)
  BY <1>6 DEF Marked, Decided
<1>8. Account(t)
  <2>1. Decided(t) \cup ToSet(t.list) = ToSet(cfg.rcpts) /\ Decided(t) \cap ToSet(t.list) = {}
    BY <1>4, <1>5, <1>6, <1>7 DEF Account
  <2>2. t.hop_status => ~t.complete /\ ToSet(t.list) = {}
    BY <1>4, <1>5, <1>6 DEF Account
  <2> QED BY <1>5, <1>6, <1>7, <2>1, <2>2 DEF Account
<1> QED BY <1>5, <1>6, <1>7, <1>8 DEF Swept

-----------------------------------------------------------------------------
(***************************************************************************)
(* The commands under way.                                                 *)
(***************************************************************************)
\* The order of the protocol states.
LEMMA Ranks ==
    /\ Rank("MAIL") = 1 /\ Rank("RCPT") = 2 /\ Rank("DATA") = 3 /\ Rank("DOT") = 4
    /\ Rank("ABORT") = 5 /\ Rank("RSET") = 6 /\ Rank("QUIT") = 7 /\ Rank("LAST") = 8
<1>1. PICK S : S = States
  OBVIOUS
<1>2. /\ S[1] = "MAIL" /\ S[2] = "RCPT" /\ S[3] = "DATA" /\ S[4] = "DOT"
      /\ S[5] = "ABORT" /\ S[6] = "RSET" /\ S[7] = "QUIT" /\ S[8] = "LAST"
      /\ DOMAIN S = 1..8
  BY <1>1 DEF States
<1>3. \A i \in 1..8 : i \in {1, 2, 3, 4, 5, 6, 7, 8}
  OBVIOUS
<1>4. \A i, j \in 1..8 : S[i] = S[j] => i = j
  BY <1>2, <1>3
<1>5. ASSUME NEW i \in 1..8 PROVE Rank(S[i]) = i
  BY <1>1, <1>2, <1>4 DEF Rank
<1> QED BY <1>2, <1>5

\* The list of a request, and how a conversation names its places.
LEMMA Listed ==
    ASSUME NEW s \in StType
    PROVE  /\ s.list \in Seq(Rcpt) /\ Len(s.list) \in Nat /\ DOMAIN s.list = 1..Len(s.list)
           /\ ToSet(s.list) = {s.list[i] : i \in 1..Len(s.list)}
           /\ \A i \in 1..Len(s.list) : s.list[i] \in Rcpt
<1>1. s.list \in Seq(Rcpt)
  BY DEF StType
<1> QED BY <1>1 DEF ToSet

\* Asking: the sender is ahead as long as commands wait for replies.
LEMMA AheadAsking ==
    ASSUME NEW s \in StType, NEW l \in LoopType, NEW w \in Seq(CommandType),
           Receiver(l, s), Sends(l, s.list), Asking(l, s.list, w)
    PROVE  /\ ~SENDER_IS_AHEAD(l) => w = <<>> /\ l.recv_state = l.send_state
           /\ w = <<>> => ~SENDER_IS_AHEAD(l) /\ l.recv_state = l.send_state
                          /\ l.recv_rcpt = l.send_rcpt
           /\ l.recv_state = "DOT" => w = <<>>
           /\ l.recv_state = "ABORT" => w = <<>>
<1>1. PICK n \in Nat : n = Len(s.list) /\ n > 0
  BY Listed DEF Receiver, Receiving
<1>2. PICK ra \in StateName : ra = l.recv_state
  BY DEF LoopType
<1>3. PICK sa \in StateName : sa = l.send_state
  BY DEF LoopType
<1>4. PICK rr \in Nat : rr = l.recv_rcpt
  BY DEF LoopType
<1>5. PICK sr \in Nat : sr = l.send_rcpt
  BY DEF LoopType
<1>6. /\ ra = "MAIL" => rr = 0
      /\ ra = "RCPT" => rr < n
      /\ ra \in {"DATA", "DOT", "ABORT"} => rr = n
      /\ sa = "MAIL" => sr = 0
      /\ sa = "RCPT" => sr < n
      /\ sa \in {"DATA", "DOT", "ABORT"} => sr = n
  BY <1>1, <1>2, <1>3, <1>4, <1>5 DEF Receiver, Receiving, Sends, Asking
<1>7. /\ sa \in Early /\ ra \in Early
      /\ Len(w) = Place(sa, sr, n) - Place(ra, rr, n)
  BY <1>1, <1>2, <1>3, <1>4, <1>5 DEF Asking, SendPlace, RecvPlace
<1>8. \/ /\ sa \in {"MAIL", "RCPT", "ABORT"} /\ ra \in {"MAIL", "RCPT", "ABORT"}
      \/ /\ sa \in {"MAIL", "RCPT", "DATA", "DOT"} /\ ra \in {"MAIL", "RCPT", "DATA", "DOT"}
  BY <1>7 DEF Early
<1>9. Len(w) \in Nat /\ (w = <<>> <=> Len(w) = 0)
  OBVIOUS
<1>10. SENDER_IS_AHEAD(l) <=> Rank(ra) < Rank(sa) \/ rr # sr
  BY <1>2, <1>3, <1>4, <1>5 DEF SENDER_IS_AHEAD
<1>11. /\ Place("MAIL", rr, n) = 0 /\ Place("RCPT", rr, n) = rr + 1
       /\ Place("DATA", rr, n) = n + 1 /\ Place("DOT", rr, n) = n + 2 /\ Place("ABORT", rr, n) = n + 1
       /\ Place("MAIL", sr, n) = 0 /\ Place("RCPT", sr, n) = sr + 1
       /\ Place("DATA", sr, n) = n + 1 /\ Place("DOT", sr, n) = n + 2 /\ Place("ABORT", sr, n) = n + 1
  BY DEF Place
<1>12. w = <<>> => ra = sa /\ rr = sr
  <2> SUFFICES ASSUME Len(w) = 0 PROVE ra = sa /\ rr = sr
    BY <1>9
  <2>1. Place(sa, sr, n) = Place(ra, rr, n)
    <3>1. Place(sa, sr, n) \in Nat /\ Place(ra, rr, n) \in Nat
      BY <1>8, <1>11
    <3> QED BY <1>7, <3>1
  <2> QED BY <2>1, <1>6, <1>8, <1>11
<1>13. ~SENDER_IS_AHEAD(l) => w = <<>>
  <2> SUFFICES ASSUME rr = sr, ~(Rank(ra) < Rank(sa)) PROVE Len(w) = 0
    BY <1>9, <1>10
  <2>1. ra = sa \/ (Rank(ra) > Rank(sa) /\ sa \in {"MAIL", "RCPT", "DATA"} /\ ra \in {"RCPT", "DATA", "DOT", "ABORT"})
    BY <1>8, Ranks
  <2>2. CASE ra = sa
    BY <2>2, <1>7, <1>8, <1>11
  <2>3. CASE ra # sa
    <3>1. Len(w) >= 0
      BY <1>9
    <3> QED BY <2>1, <2>3, <3>1, <1>6, <1>7, <1>8, <1>11, Ranks
  <2> QED BY <2>2, <2>3
<1>14. w = <<>> => ~SENDER_IS_AHEAD(l)
  <2> SUFFICES ASSUME w = <<>> PROVE ~(Rank(ra) < Rank(sa) \/ rr # sr)
    BY <1>10
  <2>1. ra = sa /\ rr = sr
    BY <1>12
  <2>2. Rank(ra) \in Nat
    BY <1>8, Ranks
  <2> QED BY <2>1, <2>2
<1>15. ra \in {"DOT", "ABORT"} => w = <<>>
  <2>1. ra = "DOT" => Len(w) <= 0
    BY <1>6, <1>7, <1>8, <1>11
  <2>2. ra = "ABORT" => Len(w) <= 0
    BY <1>6, <1>7, <1>8, <1>11
  <2> QED BY <2>1, <2>2, <1>9
<1> QED BY <1>2, <1>3, <1>4, <1>5, <1>12, <1>13, <1>14, <1>15

\* Closing: the replies that are awaited after the last command.
LEMMA AheadClosing ==
    ASSUME NEW s \in StType, NEW l \in LoopType, NEW w \in Seq(CommandType), NEW se,
           Receiver(l, s), Closing(l, s.list, w, se), ~SENDER_IS_AHEAD(l)
    PROVE  l.recv_state = "LAST" \/ (l.recv_state = "QUIT" /\ l.send_state = "QUIT")
<1>1. Rank(l.recv_state) >= Rank(l.send_state) /\ l.recv_state \in StateName
  <2>1. l.recv_state \in StateName /\ l.send_state \in StateName
    BY DEF LoopType
  <2>2. \A x \in StateName : Rank(x) \in Nat
    BY Ranks DEF StateName
  <2> QED BY <2>1, <2>2 DEF SENDER_IS_AHEAD
<1>2. l.send_state \in {"QUIT", "LAST"}
  BY DEF Closing, Ending
<1> QED BY <1>1, <1>2, Ranks DEF StateName

\* The wire without its first command.
LEMMA TailFacts ==
    ASSUME NEW w \in Seq(CommandType), w # <<>>
    PROVE  /\ Tail(w) \in Seq(CommandType) /\ Len(w) \in Nat /\ Len(w) > 0 /\ Head(w) = w[1]
           /\ w[1] \in CommandType
           /\ Len(Tail(w)) = Len(w) - 1
           /\ \A k \in 1..(Len(w) - 1) : Tail(w)[k] = w[k + 1]
OBVIOUS

\* A reply is read: one step of the receiver.
LEMMA AskingStep ==
    ASSUME NEW L, NEW l \in LoopType, NEW m \in LoopType, NEW w \in Seq(CommandType), w # <<>>,
           RecvPlace(l, L) \in Nat, SendPlace(l, L) \in Nat,
           Asking(l, L, w), m.send_state = l.send_state, m.send_rcpt = l.send_rcpt,
           m.except = l.except, m.recv_done = l.recv_done,
           RecvPlace(m, L) = RecvPlace(l, L) + 1,
           m.recv_state \in Early, m.recv_state = "ABORT" => m.recv_rcpt = Len(L)
    PROVE  Asking(m, L, Tail(w))
<1>1. SendPlace(m, L) = SendPlace(l, L)
  BY DEF SendPlace
<1>2. Len(Tail(w)) = SendPlace(m, L) - RecvPlace(m, L)
  BY <1>1, TailFacts DEF Asking
<1>3. ASSUME NEW k \in 1..Len(Tail(w))
      PROVE  Tail(w)[k] = CommandAt(L, RecvPlace(m, L) + k - 1)
  <2>1. k \in 1..(Len(w) - 1) /\ k + 1 \in 1..Len(w)
    BY TailFacts
  <2>2. Tail(w)[k] = w[k + 1]
    BY <2>1, TailFacts
  <2>3. w[k + 1] = CommandAt(L, RecvPlace(l, L) + (k + 1) - 1)
    BY <2>1 DEF Asking
  <2>4. RecvPlace(l, L) + (k + 1) - 1 = RecvPlace(m, L) + k - 1
    OBVIOUS
  <2> QED BY <2>2, <2>3, <2>4
<1> QED BY <1>2, <1>3 DEF Asking

NextReply(l, m, L, se, sf) ==
    /\ Ending(m, L, sf) /\ (Cached(sf) => Cached(se))
    /\ m.send_state = l.send_state /\ m.except = l.except
    /\ Count(l, L) \in Nat /\ Count(l, L) > 0 /\ Count(m, L) = Count(l, L) - 1
    /\ m.recv_state = "QUIT" => ~Cached(sf)
    /\ \A k \in 1..Count(m, L) : Awaited(m, L, k) = Awaited(l, L, k + 1)

\* A reply at the end of the session is read: the rest is still what is owed.
LEMMA ClosingStep ==
    ASSUME NEW L, NEW l, NEW m, NEW w \in Seq(CommandType), w # <<>>,
           NEW se, NEW sf, Closing(l, L, w, se), NextReply(l, m, L, se, sf)
    PROVE  Closing(m, L, Tail(w), sf)
<1>0. /\ Ending(m, L, sf) /\ (Cached(sf) => Cached(se))
      /\ m.send_state = l.send_state /\ m.except = l.except
      /\ Count(l, L) \in Nat /\ Count(l, L) > 0 /\ Count(m, L) = Count(l, L) - 1
      /\ m.recv_state = "QUIT" => ~Cached(sf)
      /\ \A k \in 1..Count(m, L) : Awaited(m, L, k) = Awaited(l, L, k + 1)
  BY DEF NextReply
<1>1. Owed(m, L, Tail(w), sf)
  <2>1. CASE Len(w) = Count(l, L)
    BY <1>0, <2>1, TailFacts DEF Owed
  <2>2. CASE /\ Len(w) = Count(l, L) + 1 /\ w[Len(w)] = Command("QUIT", NoRcpt)
             /\ l.send_state = "LAST" /\ ~Cached(se) /\ ~l.except
    <3>1. Len(w) - 1 \in 1..(Len(w) - 1)
      BY <1>0, <2>2, TailFacts
    <3>2. Tail(w)[Len(w) - 1] = w[Len(w) - 1 + 1]
      BY <3>1, TailFacts
    <3>3. Len(w) - 1 + 1 = Len(w) /\ Len(Tail(w)) = Len(w) - 1
      BY TailFacts
    <3> QED BY <1>0, <2>2, <3>2, <3>3 DEF Owed
  <2> QED BY <2>1, <2>2 DEF Closing, Owed
<1>2. ASSUME NEW k \in 1..Count(m, L), k <= Len(Tail(w))
      PROVE  Tail(w)[k] = Awaited(m, L, k)
  <2>1. k \in 1..(Len(w) - 1) /\ k + 1 \in 1..Count(l, L) /\ k + 1 <= Len(w)
    BY <1>0, <1>2, TailFacts
  <2>2. Tail(w)[k] = w[k + 1]
    BY <2>1, TailFacts
  <2>3. w[k + 1] = Awaited(l, L, k + 1)
    BY <2>1 DEF Closing
  <2> QED BY <1>0, <2>2, <2>3
<1> QED BY <1>0, <1>1, <1>2 DEF Closing

\* The last reply is read.
LEMMA ClosingEnd ==
    ASSUME NEW L, NEW l, NEW m, NEW w \in Seq(CommandType), w # <<>>,
           NEW se, NEW sf, Closing(l, L, w, se), Ending(m, L, sf),
           Count(l, L) = 0, Count(m, L) = 0, m.recv_state = "LAST",
           ~(l.recv_state = "DOT")
    PROVE  Closing(m, L, Tail(w), sf) /\ w[1] = Command("QUIT", NoRcpt)
<1>1. Len(w) = 1 /\ w[1] = Command("QUIT", NoRcpt)
  BY TailFacts DEF Closing, Owed
<1>2. Len(Tail(w)) = 0
  BY <1>1, TailFacts
<1> QED BY <1>1, <1>2 DEF Closing, Owed

-----------------------------------------------------------------------------
(***************************************************************************)
(* The next reply.                                                         *)
(***************************************************************************)
\* How many replies are owed at the end, by the state of the receiver.
LEMMA Counts ==
    ASSUME NEW s \in StType, NEW l \in LoopType, NEW se, Receiver(l, s), Ending(l, s.list, se)
    PROVE  /\ l.recv_state \in {"MAIL", "RCPT", "DOT", "ABORT"} =>
                Count(l, s.list) \in Nat /\ Count(l, s.list) > 0
           /\ l.recv_state \in {"QUIT", "LAST"} => Count(l, s.list) = 0
           /\ l.recv_state \in {"MAIL", "RCPT"} => Count(l, s.list) = Len(s.list) + 2 - RecvPlace(l, s.list)
           /\ l.recv_state = "DOT" /\ cfg.smtp_mode => Count(l, s.list) = 1
           /\ l.recv_state = "DOT" /\ ~cfg.smtp_mode => Count(l, s.list) = l.nrcpt - l.recv_done
           /\ l.recv_state = "ABORT" => Count(l, s.list) = 1
           /\ l.recv_state \in {"MAIL", "RCPT", "DOT", "ABORT", "QUIT", "LAST"}
<1>0. /\ l.recv_state \in StateName /\ l.recv_rcpt \in Nat /\ l.nrcpt \in Int /\ l.recv_done \in Nat
      /\ Len(s.list) \in Nat
  BY Listed DEF LoopType
<1>1. l.recv_state \in {"MAIL", "RCPT", "DOT", "ABORT", "QUIT", "LAST"}
  BY <1>0 DEF StateName, Ending, Receiver, Receiving
<1>2. /\ l.recv_state = "MAIL" => RecvPlace(l, s.list) = 0
      /\ l.recv_state = "RCPT" => RecvPlace(l, s.list) = l.recv_rcpt + 1 /\ l.recv_rcpt < Len(s.list)
  BY DEF RecvPlace, Place, Receiver, Receiving
<1>3. CASE l.recv_state \in {"MAIL", "RCPT"}
  <2>1. Count(l, s.list) = Len(s.list) + 2 - RecvPlace(l, s.list)
    BY <1>3 DEF Count
  <2> QED BY <2>1, <1>0, <1>2, <1>3
<1>4. CASE l.recv_state = "DOT"
  <2>1. l.nrcpt >= 0 /\ (cfg.smtp_mode \/ l.nrcpt # 0) /\ (l.nrcpt > 0 => l.recv_done < l.nrcpt)
    BY <1>4 DEF Receiver, Receiving, Ending
  <2>2. Count(l, s.list) = IF cfg.smtp_mode THEN 1 ELSE l.nrcpt - l.recv_done
    BY <1>4 DEF Count
  <2>3. CASE cfg.smtp_mode
    BY <2>2, <2>3, <1>4
  <2>4. CASE ~cfg.smtp_mode
    BY <2>1, <2>2, <2>4, <1>0, <1>4
  <2> QED BY <2>3, <2>4
<1>5. CASE l.recv_state = "ABORT"
  BY <1>5 DEF Count
<1>6. CASE l.recv_state \in {"QUIT", "LAST"}
  BY <1>6 DEF Count
<1> QED BY <1>1, <1>3, <1>4, <1>5, <1>6

\* The next reply answers the command that the receiver has in mind.
Hears(l, s, w) ==
    /\ l.recv_state \in {"MAIL", "RCPT", "DATA", "DOT", "ABORT", "QUIT"}
    /\ Head(w).cmd = l.recv_state
    /\ l.recv_state = "RCPT" => Head(w).rcpt = s.list[l.recv_rcpt + 1]
    /\ l.recv_state = "DOT" /\ ~cfg.smtp_mode => Head(w).rcpt = s.list[l.survivors[l.recv_done + 1]]

\* The first command on the wire is the one that the receiver waits for.
LEMMA Hearing ==
    ASSUME NEW s \in StType, NEW l \in LoopType, NEW w \in Seq(CommandType), NEW se,
           Receiver(l, s), Sends(l, s.list),
           Asking(l, s.list, w) \/ Aborting(l, w) \/ Closing(l, s.list, w, se),
           SENDER_IS_AHEAD(l), w # <<>>
    PROVE  /\ Hears(l, s, w)
           /\ l.recv_state \in {"MAIL", "RCPT"} => Asking(l, s.list, w) \/ Closing(l, s.list, w, se)
           /\ l.recv_state = "DATA" => Asking(l, s.list, w)
           /\ l.recv_state \in {"DOT", "ABORT", "QUIT"} => Closing(l, s.list, w, se)
<1>0. /\ l.recv_state \in StateName /\ l.send_state \in StateName /\ l.recv_rcpt \in Nat /\ l.send_rcpt \in Nat
      /\ Len(s.list) \in Nat /\ Len(s.list) > 0
  BY Listed DEF LoopType, Receiver, Receiving
<1>1. Len(w) > 0 /\ Len(w) \in Nat /\ Head(w) = w[1] /\ 1 \in 1..Len(w)
  BY TailFacts
<1>2. Asking(l, s.list, w) \/ Closing(l, s.list, w, se)
  BY DEF Aborting
<1>3. CASE Asking(l, s.list, w)
  <2>1. l.recv_state \in {"MAIL", "RCPT", "DATA"}
    <3>1. l.recv_state # "DOT" /\ l.recv_state # "ABORT"
      BY <1>3, AheadAsking
    <3>2. l.recv_state \in Early
      BY <1>3 DEF Asking
    <3> QED BY <3>1, <3>2 DEF Early
  <2>2. w[1] = CommandAt(s.list, RecvPlace(l, s.list) + 1 - 1)
    BY <1>1, <1>3 DEF Asking
  <2>3. CASE l.recv_state = "MAIL"
    <3>1. RecvPlace(l, s.list) + 1 - 1 = 0
      BY <2>3 DEF RecvPlace, Place
    <3> QED BY <1>1, <1>3, <2>2, <2>3, <3>1 DEF CommandAt, Command, Hears
  <2>4. CASE l.recv_state = "RCPT"
    <3>1. RecvPlace(l, s.list) + 1 - 1 = l.recv_rcpt + 1 /\ l.recv_rcpt < Len(s.list)
      BY <1>0, <2>4 DEF RecvPlace, Place, Receiver, Receiving
    <3>2. w[1] = Command("RCPT", s.list[l.recv_rcpt + 1])
      BY <1>0, <2>2, <3>1 DEF CommandAt
    <3> QED BY <1>1, <1>3, <2>4, <3>2 DEF Command, Hears
  <2>5. CASE l.recv_state = "DATA"
    <3>1. RecvPlace(l, s.list) + 1 - 1 = Len(s.list) + 1 /\ ~Probe("RCPT")
      BY <1>0, <2>5 DEF RecvPlace, Place, Receiver, Receiving
    <3>2. w[1] = Command("DATA", NoRcpt)
      BY <1>0, <2>2, <3>1 DEF CommandAt, AfterRcpt
    <3> QED BY <1>1, <1>3, <2>5, <3>2 DEF Command, Hears
  <2> QED BY <2>1, <2>3, <2>4, <2>5
<1>4. CASE Closing(l, s.list, w, se)
  <2>0. Ending(l, s.list, se)
    BY <1>4 DEF Closing
  <2>1. l.recv_state # "LAST" /\ l.recv_state # "DATA"
    <3>1. CASE l.recv_state = "LAST"
      <4>1. l.send_state \in {"QUIT", "LAST"} /\ l.recv_rcpt = l.send_rcpt
        BY <2>0, <3>1 DEF Ending
      <4> QED BY <3>1, <4>1, Ranks DEF SENDER_IS_AHEAD
    <3> QED BY <2>0, <3>1 DEF Ending
  <2>2. CASE l.recv_state \in {"MAIL", "RCPT", "DOT", "ABORT"}
    <3>1. w[1] = Awaited(l, s.list, 1)
      BY <1>1, <1>4, <2>0, <2>2, Counts DEF Closing
    <3>2. CASE l.recv_state = "MAIL"
      <4>1. RecvPlace(l, s.list) + 1 - 1 = 0
        BY <3>2 DEF RecvPlace, Place
      <4> QED BY <1>1, <1>4, <3>1, <3>2, <4>1 DEF CommandAt, Command, Hears, Awaited
    <3>3. CASE l.recv_state = "RCPT"
      <4>1. RecvPlace(l, s.list) + 1 - 1 = l.recv_rcpt + 1 /\ l.recv_rcpt < Len(s.list)
        BY <1>0, <3>3 DEF RecvPlace, Place, Receiver, Receiving
      <4>2. w[1] = Command("RCPT", s.list[l.recv_rcpt + 1])
        BY <1>0, <3>1, <3>3, <4>1 DEF CommandAt, Awaited
      <4> QED BY <1>1, <1>4, <3>3, <4>2 DEF Command, Hears
    <3>4. CASE l.recv_state \in {"DOT", "ABORT"}
      BY <1>1, <1>4, <3>1, <3>4 DEF Command, Hears, Awaited
    <3> QED BY <2>2, <3>2, <3>3, <3>4
  <2>3. CASE l.recv_state = "QUIT"
    <3>1. Len(w) = 1 /\ w[1] = Command("QUIT", NoRcpt)
      <4>1. Count(l, s.list) = 0
        BY <2>0, <2>3, Counts
      <4> QED BY <4>1, <1>1, <1>4, <2>3 DEF Closing, Owed
    <3> QED BY <1>1, <1>4, <2>3, <3>1 DEF Command, Hears
  <2> QED BY <2>1, <2>2, <2>3, <2>0, Counts
<1> QED BY <1>2, <1>3, <1>4

\* The sender's side, while the receiver moves.
SameSender(l, m) ==
    /\ m.send_state = l.send_state /\ m.send_rcpt = l.send_rcpt
    /\ m.next_state = l.next_state /\ m.next_rcpt = l.next_rcpt /\ m.except = l.except

\* What the receiver does leaves the sender's place and its plan alone.
LEMMA SenderSame ==
    ASSUME NEW L, NEW l, NEW m, NEW se, NEW sf, SameSender(l, m), Cached(sf) => Cached(se),
           Sends(l, L), Planned(l, L, se, "recv")
    PROVE  Sends(m, L) /\ Planned(m, L, sf, "recv")
<1>1. Sends(m, L)
  BY DEF Sends, SameSender
<1>2. Planned(m, L, sf, "recv")
  BY DEF Planned, SameSender
<1> QED BY <1>1, <1>2

\* The receiver's next place, before the message content.
LEMMA EarlyWire ==
    ASSUME NEW s \in StType, NEW l \in LoopType, NEW m \in LoopType, NEW w \in Seq(CommandType),
           w # <<>>, NEW se, NEW sf, Cached(sf) => Cached(se),
           Receiver(l, s), Sends(l, s.list),
           Asking(l, s.list, w) \/ Closing(l, s.list, w, se),
           l.recv_state \in {"MAIL", "RCPT", "DATA"},
           l.recv_state = "DATA" => Asking(l, s.list, w),
           SameSender(l, m), m.recv_done = l.recv_done,
           m.recv_state \in Early, m.recv_state # "MAIL",
           m.recv_state = "RCPT" => m.recv_rcpt < Len(s.list),
           m.recv_state = "ABORT" => m.recv_rcpt = Len(s.list),
           RecvPlace(m, s.list) = RecvPlace(l, s.list) + 1
    PROVE  Asking(m, s.list, Tail(w)) \/ Closing(m, s.list, Tail(w), sf)
<1>0. /\ l.recv_state \in StateName /\ l.send_state \in StateName /\ l.recv_rcpt \in Nat /\ l.send_rcpt \in Nat
      /\ m.recv_rcpt \in Nat /\ Len(s.list) \in Nat /\ Len(s.list) > 0
  BY Listed DEF LoopType, Receiver, Receiving
<1>1. PICK n \in Nat : n = Len(s.list)
  BY <1>0
<1>2. RecvPlace(l, s.list) \in Nat /\ RecvPlace(l, s.list) <= n + 1
      /\ (l.recv_state \in {"MAIL", "RCPT"} => RecvPlace(l, s.list) <= n)
  <2>1. CASE l.recv_state = "MAIL"
    BY <1>0, <1>1, <2>1 DEF RecvPlace, Place
  <2>2. CASE l.recv_state = "RCPT"
    BY <1>0, <1>1, <2>2 DEF RecvPlace, Place, Receiver, Receiving
  <2>3. CASE l.recv_state = "DATA"
    BY <1>0, <1>1, <2>3 DEF RecvPlace, Place
  <2> QED BY <2>1, <2>2, <2>3
<1>3. CASE Asking(l, s.list, w)
  <2>1. SendPlace(l, s.list) \in Nat
    <3>1. l.send_state \in Early
      BY <1>3 DEF Asking
    <3> QED BY <3>1, <1>0 DEF SendPlace, Place, Early
  <2> QED BY <1>2, <1>3, <2>1, AskingStep DEF SameSender
<1>4. CASE Closing(l, s.list, w, se) /\ l.recv_state # "DATA"
  <2>1. Ending(l, s.list, se)
    BY <1>4 DEF Closing
  <2>2. Probe("RCPT") /\ l.send_rcpt = n /\ ~l.except
    BY <1>1, <1>4, <2>1 DEF Ending
  <2>3. m.recv_state \in {"RCPT", "ABORT"}
    BY <2>2 DEF Early
  <2>4. Ending(m, s.list, sf)
    BY <1>1, <2>1, <2>2, <2>3 DEF Ending, SameSender
  <2>5. Count(l, s.list) = n + 2 - RecvPlace(l, s.list)
    BY <1>1, <1>4 DEF Count
  <2>6. RecvPlace(m, s.list) = IF m.recv_state = "RCPT" THEN m.recv_rcpt + 1 ELSE n + 1
    BY <1>1, <2>3 DEF RecvPlace, Place
  <2>7. Count(m, s.list) = n + 2 - RecvPlace(m, s.list)
    <3>1. CASE m.recv_state = "RCPT"
      BY <1>1, <3>1 DEF Count
    <3>2. CASE m.recv_state = "ABORT"
      BY <1>1, <2>6, <3>2 DEF Count
    <3> QED BY <2>3, <3>1, <3>2
  <2>8. /\ Count(l, s.list) \in Nat /\ Count(l, s.list) > 0
        /\ Count(m, s.list) = Count(l, s.list) - 1
    BY <1>2, <1>4, <2>5, <2>7
  <2>9. ASSUME NEW k \in 1..Count(m, s.list)
        PROVE  Awaited(m, s.list, k) = Awaited(l, s.list, k + 1)
    <3>1. Awaited(l, s.list, k + 1) = CommandAt(s.list, RecvPlace(l, s.list) + (k + 1) - 1)
      BY <1>4 DEF Awaited
    <3>2. RecvPlace(l, s.list) + (k + 1) - 1 = RecvPlace(m, s.list) + k - 1
      BY <1>2
    <3>3. CASE m.recv_state = "RCPT"
      <4>1. Awaited(m, s.list, k) = CommandAt(s.list, RecvPlace(m, s.list) + k - 1)
        BY <3>3 DEF Awaited
      <4> QED BY <3>1, <3>2, <4>1
    <3>4. CASE m.recv_state = "ABORT"
      <4>1. k = 1 /\ RecvPlace(m, s.list) + k - 1 = n + 1
        BY <2>6, <2>7, <3>4
      <4>2. CommandAt(s.list, n + 1) = Command("ABORT", NoRcpt)
        BY <1>1, <2>2 DEF CommandAt, AfterRcpt
      <4>3. Awaited(m, s.list, k) = Command("ABORT", NoRcpt)
        BY <3>4 DEF Awaited
      <4> QED BY <3>1, <3>2, <4>1, <4>2, <4>3
    <3> QED BY <2>3, <3>3, <3>4
  <2>10. m.recv_state # "QUIT" /\ m.send_state = l.send_state /\ m.except = l.except
    BY <2>3 DEF SameSender
  <2>11. NextReply(l, m, s.list, se, sf)
    BY <2>4, <2>8, <2>9, <2>10 DEF NextReply
  <2> QED BY <1>4, <2>11, ClosingStep
<1> QED BY <1>3, <1>4

\* The reply to MAIL FROM.
LEMMA MailTalk ==
    ASSUME NEW s \in StType, NEW l \in LoopType, NEW se, NEW v \in SrvType,
           Talks(l, s, se, v, "recv"), l.recv_state = "MAIL", SENDER_IS_AHEAD(l), v.wire # <<>>,
           NEW t \in StType, t.list = s.list, ~t.hop_status,
           NEW m \in LoopType, m.recv_state = "RCPT", SameSender(l, m), m.ctx = "loop",
           m.recv_rcpt = l.recv_rcpt, m.survivors = l.survivors, m.nrcpt = l.nrcpt,
           m.recv_done = l.recv_done,
           Unmarked(t) = IF m.mail_from_rejected THEN {} ELSE Unmarked(s),
           NEW sf, sf.xfer, Cached(sf) => Cached(se),
           NEW u, u.wire = Tail(v.wire), u.mail = ~m.mail_from_rejected, u.rcpts = <<>>
    PROVE  Talks(m, t, sf, u, "recv")
<1>0. /\ l.recv_state \in StateName /\ l.recv_rcpt = 0 /\ l.survivors = <<>> /\ ~l.mail_from_rejected
      /\ l.nrcpt = 0 /\ l.recv_done = 0 /\ Len(s.list) \in Nat /\ Len(s.list) > 0
  <2>1. Receiver(l, s) /\ Len(s.list) \in Nat
    BY Listed DEF Talks
  <2>2. l.survivors = <<>> => Len(l.survivors) = 0
    OBVIOUS
  <2> QED BY <2>1, <2>2 DEF Receiver, Receiving, LoopType
<1>1. Receiver(m, t)
  <2>1. Unmarked(s) = At(s.list, Open(l, Len(s.list)))
    BY DEF Talks, Receiver, Undecided
  <2>2. ~Closed(l) /\ (Closed(m) <=> m.mail_from_rejected)
    BY <1>0 DEF Closed
  <2>3. Survivors(m) = Survivors(l)
    BY DEF Survivors
  <2>4. Open(m, Len(s.list)) = IF m.mail_from_rejected THEN {} ELSE Open(l, Len(s.list))
    BY <2>2, <2>3 DEF Open
  <2>5. Unmarked(t) = At(t.list, Open(m, Len(t.list)))
    BY <2>1, <2>4 DEF At
  <2>6. \A i \in 1..Len(m.survivors) : FALSE
    BY <1>0
  <2>7. Len(m.survivors) = 0 /\ m.nrcpt \in -1..Len(t.list)
    BY <1>0
  <2>8. Receiving(m, Len(t.list))
    BY <1>0, <2>6, <2>7 DEF Receiving
  <2> QED BY <2>5, <2>8 DEF Receiver, Undecided
<1>2. Asking(m, s.list, Tail(v.wire)) \/ Closing(m, s.list, Tail(v.wire), sf)
  <2>1. /\ Receiver(l, s) /\ Sends(l, s.list) /\ v.wire \in Seq(CommandType)
        /\ Asking(l, s.list, v.wire) \/ Aborting(l, v.wire) \/ Closing(l, s.list, v.wire, se)
    BY DEF Talks, SrvType
  <2>2. Asking(l, s.list, v.wire) \/ Closing(l, s.list, v.wire, se)
    BY <2>1, Hearing
  <2>3. RecvPlace(m, s.list) = RecvPlace(l, s.list) + 1
    BY <1>0 DEF RecvPlace, Place
  <2>4. m.recv_state \in Early
    BY DEF Early
  <2> QED BY <1>0, <2>1, <2>2, <2>3, <2>4, EarlyWire
<1>3. Sends(m, s.list) /\ Planned(m, s.list, sf, "recv")
  BY SenderSame DEF Talks
<1>4. Agreed(m, t, u)
  <2>1. Len(u.rcpts) = 0 /\ Len(m.survivors) = 0
    BY <1>0
  <2> QED BY <1>0, <2>1 DEF Agreed
<1>5. m.next_rcpt <= Len(s.list) /\ m.send_rcpt <= Len(s.list)
  BY DEF Talks, SameSender
<1> QED BY <1>1, <1>2, <1>3, <1>4, <1>5 DEF Talks

\* The reply to RCPT TO: the next recipient is decided, or survives.
LEMMA RcptPlace ==
    ASSUME NEW s \in StType, NEW l \in LoopType, NEW m \in LoopType, Receiver(l, s),
           l.recv_state = "RCPT", m.recv_rcpt = l.recv_rcpt + 1,
           m.recv_state = IF l.recv_rcpt + 1 = Len(s.list) THEN AfterRcpt ELSE "RCPT"
    PROVE  /\ RecvPlace(m, s.list) = RecvPlace(l, s.list) + 1
           /\ m.recv_state \in Early /\ m.recv_state \in {"RCPT", "DATA", "ABORT"}
           /\ m.recv_state = "RCPT" => m.recv_rcpt < Len(s.list)
           /\ m.recv_state # "RCPT" => m.recv_rcpt = Len(s.list)
           /\ m.recv_state = "DATA" => ~Probe("RCPT")
           /\ m.recv_state = "ABORT" => Probe("RCPT")
           /\ l.recv_rcpt + 1 \in 1..Len(s.list) /\ l.recv_rcpt \in Nat
<1>0. l.recv_rcpt \in Nat /\ l.recv_rcpt < Len(s.list) /\ Len(s.list) \in Nat
  BY Listed DEF LoopType, Receiver, Receiving
<1>1. CASE l.recv_rcpt + 1 = Len(s.list)
  <2>1. m.recv_state = IF Probe("RCPT") THEN "ABORT" ELSE "DATA"
    BY <1>1 DEF AfterRcpt
  <2> QED BY <1>0, <1>1, <2>1 DEF RecvPlace, Place, Early
<1>2. CASE l.recv_rcpt + 1 # Len(s.list)
  BY <1>0, <1>2 DEF RecvPlace, Place, Early
<1> QED BY <1>1, <1>2

\* The wire after a reply to RCPT TO.
LEMMA RcptWire ==
    ASSUME NEW s \in StType, NEW l \in LoopType, NEW se, NEW v \in SrvType,
           Talks(l, s, se, v, "recv"), l.recv_state = "RCPT", SENDER_IS_AHEAD(l), v.wire # <<>>,
           NEW m \in LoopType, SameSender(l, m), m.recv_rcpt = l.recv_rcpt + 1,
           m.recv_state = IF l.recv_rcpt + 1 = Len(s.list) THEN AfterRcpt ELSE "RCPT",
           m.recv_done = l.recv_done,
           NEW sf, Cached(sf) => Cached(se)
    PROVE  Asking(m, s.list, Tail(v.wire)) \/ Closing(m, s.list, Tail(v.wire), sf)
<1>1. /\ Receiver(l, s) /\ Sends(l, s.list) /\ v.wire \in Seq(CommandType)
      /\ Asking(l, s.list, v.wire) \/ Aborting(l, v.wire) \/ Closing(l, s.list, v.wire, se)
  BY DEF Talks, SrvType
<1>2. Asking(l, s.list, v.wire) \/ Closing(l, s.list, v.wire, se)
  BY <1>1, Hearing
<1>3. /\ RecvPlace(m, s.list) = RecvPlace(l, s.list) + 1
      /\ m.recv_state \in Early /\ m.recv_state # "MAIL"
      /\ m.recv_state = "RCPT" => m.recv_rcpt < Len(s.list)
      /\ m.recv_state = "ABORT" => m.recv_rcpt = Len(s.list)
  BY <1>1, RcptPlace
<1> QED BY <1>1, <1>2, <1>3, EarlyWire

\* The places without a decision are places on the list.
LEMMA OpenPlaces ==
    ASSUME NEW s \in StType, NEW l \in LoopType, Receiving(l, Len(s.list))
    PROVE  Open(l, Len(s.list)) \subseteq 1..Len(s.list)
<1>1. l.recv_rcpt \in Nat /\ l.recv_done \in Nat /\ Len(l.survivors) \in Nat /\ Len(s.list) \in Nat
  BY Listed DEF LoopType
<1>2. Survivors(l) \subseteq 1..Len(s.list)
  BY <1>1 DEF Survivors, Receiving
<1> QED BY <1>1, <1>2 DEF Open

\* One more recipient is decided.
LEMMA DecideOne ==
    ASSUME NEW s \in StType, Account(s), NEW l \in LoopType, NEW m, Receiver(l, s),
           NEW t, t.list = s.list, NEW k \in 1..Len(s.list),
           Open(m, Len(s.list)) = Open(l, Len(s.list)) \ {k},
           Unmarked(t) = Unmarked(s) \ {s.list[k]}
    PROVE  Undecided(m, t)
<1>1. PICK A \in SUBSET (1..Len(s.list)) : A = Open(l, Len(s.list))
  BY OpenPlaces DEF Receiver
<1>2. At(s.list, A) \ {s.list[k]} = At(s.list, A \ {k})
  BY DEF Account, At
<1> QED BY <1>1, <1>2 DEF Receiver, Undecided

\* A recipient is accepted: a survivor more.
LEMMA RcptGoodTalk ==
    ASSUME NEW s \in StType, Account(s), NEW l \in LoopType, NEW se, NEW v \in SrvType,
           Talks(l, s, se, v, "recv"), l.recv_state = "RCPT", SENDER_IS_AHEAD(l), v.wire # <<>>,
           ~l.mail_from_rejected,
           NEW t \in StType, t.list = s.list, ~t.hop_status,
           NEW m \in LoopType, SameSender(l, m), m.ctx = "loop", m.recv_rcpt = l.recv_rcpt + 1,
           m.recv_state = IF l.recv_rcpt + 1 = Len(s.list) THEN AfterRcpt ELSE "RCPT",
           m.recv_done = l.recv_done, m.mail_from_rejected = l.mail_from_rejected,
           m.nrcpt = l.nrcpt + 1, m.survivors = Append(l.survivors, l.recv_rcpt + 1),
           Unmarked(t) = IF Probe("RCPT") THEN Unmarked(s) \ {s.list[l.recv_rcpt + 1]} ELSE Unmarked(s),
           NEW sf, sf.xfer, Cached(sf) => Cached(se),
           NEW u, u.wire = Tail(v.wire), u.mail = v.mail,
           u.rcpts = Append(v.rcpts, s.list[l.recv_rcpt + 1])
    PROVE  Talks(m, t, sf, u, "recv")
<1>0. /\ Receiving(l, Len(s.list)) /\ Receiver(l, s) /\ Undecided(l, s)
  BY DEF Talks, Receiver
<1>1. PICK n \in Nat : n = Len(s.list)
  BY Listed
<1>2. PICK k \in 1..n : k = l.recv_rcpt + 1 /\ l.recv_rcpt \in Nat
  BY <1>0, <1>1, RcptPlace
<1>3. /\ m.recv_state \in {"RCPT", "DATA", "ABORT"}
      /\ m.recv_state = "RCPT" => k < n
      /\ m.recv_state # "RCPT" => k = n
      /\ m.recv_state = "DATA" => ~Probe("RCPT")
      /\ m.recv_state = "ABORT" => Probe("RCPT")
  BY <1>0, <1>1, <1>2, RcptPlace
<1>4. PICK q \in Nat : q = Len(l.survivors) /\ l.nrcpt = q /\ l.recv_done = 0 /\ q < k
  BY <1>0, <1>1, <1>2, SMTT(30) DEF Receiving, LoopType
<1>5. /\ Len(m.survivors) = q + 1 /\ m.survivors[q + 1] = k
      /\ \A i \in 1..q : m.survivors[i] = l.survivors[i] /\ l.survivors[i] \in 1..(k - 1)
      /\ \A i, j \in 1..q : l.survivors[i] = l.survivors[j] => i = j
  <2>1. l.survivors \in Seq(Nat) /\ k \in Nat
    BY <1>2 DEF LoopType
  <2>2. m.survivors = Append(l.survivors, k)
    BY <1>2
  <2>3. \A i \in 1..q : l.survivors[i] \in 1..n /\ l.survivors[i] <= l.recv_rcpt
    BY <1>0, <1>1, <1>4 DEF Receiving
  <2>4. \A i, j \in 1..q : l.survivors[i] = l.survivors[j] => i = j
    BY <1>0, <1>1, <1>4 DEF Receiving
  <2>5. Len(m.survivors) = q + 1 /\ m.survivors[q + 1] = k
    BY <2>1, <2>2, <1>4
  <2>6. \A i \in 1..q : m.survivors[i] = l.survivors[i]
    BY <2>1, <2>2, <1>4
  <2>7. \A i \in 1..q : l.survivors[i] \in 1..(k - 1)
    BY <2>3, <1>2
  <2> QED BY <2>4, <2>5, <2>6, <2>7
<1>6. Receiving(m, n)
  <2>1. \A i \in 1..(q + 1) : m.survivors[i] \in 1..n /\ m.survivors[i] <= k
    BY <1>5, <1>2, SMTT(30)
  <2>2. ASSUME NEW i \in 1..(q + 1), NEW j \in 1..(q + 1), m.survivors[i] = m.survivors[j]
        PROVE  i = j
    <3>1. k \notin 1..(k - 1) /\ (i = q + 1 \/ i \in 1..q) /\ (j = q + 1 \/ j \in 1..q)
      OBVIOUS
    <3>2. CASE i \in 1..q /\ j \in 1..q
      BY <3>2, <2>2, <1>5, Zenon
    <3>3. CASE i \in 1..q /\ j = q + 1
      BY <3>1, <3>3, <2>2, <1>5, Zenon
    <3>4. CASE i = q + 1 /\ j \in 1..q
      BY <3>1, <3>4, <2>2, <1>5, Zenon
    <3> QED BY <3>1, <3>2, <3>3, <3>4
  <2>3. m.nrcpt = q + 1 /\ m.recv_done = 0 /\ m.recv_rcpt = k /\ ~m.mail_from_rejected
    BY <1>2, <1>4
  <2>4. m.nrcpt \in -1..n /\ m.nrcpt <= m.recv_rcpt /\ n > 0 /\ m.recv_rcpt <= n
    BY <2>3, <1>2, <1>4
  <2> HIDE DEF Probe
  <2> QED BY <2>1, <2>2, <2>3, <2>4, <1>3, <1>5, SMTT(30) DEF Receiving
<1>7. Undecided(m, t)
  <2>1. ~Closed(l) /\ (Closed(m) <=> m.recv_state = "ABORT")
    BY <1>3, <1>4 DEF Closed
  <2>2. Survivors(l) = IF Probe("RCPT") THEN {} ELSE {l.survivors[j] : j \in 1..q}
    BY <1>4 DEF Survivors
  <2>3. Survivors(m) = IF Probe("RCPT") THEN {} ELSE {m.survivors[j] : j \in 1..(q + 1)}
    <3>1. m.recv_done + 1 = 1 /\ Len(m.survivors) = q + 1
      BY <1>4, <1>5
    <3> QED BY <3>1 DEF Survivors
  <2>4. Open(l, n) = (k..n) \cup Survivors(l)
    BY <1>2, <2>1 DEF Open
  <2>5. Open(m, n) = IF m.recv_state = "ABORT" THEN {} ELSE ((k + 1)..n) \cup Survivors(m)
    BY <1>2, <2>1 DEF Open
  <2>6. CASE Probe("RCPT")
    <3>1. Open(l, n) = k..n /\ Open(m, n) = (k + 1)..n
      BY <1>3, <2>2, <2>3, <2>4, <2>5, <2>6
    <3>2. Open(l, n) \ {k} = Open(m, n)
      BY <3>1, <1>2
    <3>3. Unmarked(t) = Unmarked(s) \ {s.list[k]}
      BY <1>2, <2>6
    <3> QED BY <1>0, <1>1, <3>2, <3>3, DecideOne
  <2>7. CASE ~Probe("RCPT")
    <3>1. {m.survivors[j] : j \in 1..(q + 1)} = {l.survivors[j] : j \in 1..q} \cup {k}
      <4>1. 1..(q + 1) = (1..q) \cup {q + 1}
        BY <1>4
      <4> QED BY <4>1, <1>5
    <3>2. Open(l, n) = Open(m, n)
      <4>1. k..n = ((k + 1)..n) \cup {k}
        BY <1>2
      <4> QED BY <4>1, <3>1, <1>3, <2>2, <2>3, <2>4, <2>5, <2>7
    <3> QED BY <3>2, <1>0, <1>1, <2>7 DEF Undecided
  <2> QED BY <2>6, <2>7
<1>8. Asking(m, s.list, Tail(v.wire)) \/ Closing(m, s.list, Tail(v.wire), sf)
  BY RcptWire
<1>9. Sends(m, s.list) /\ Planned(m, s.list, sf, "recv")
  BY SenderSame DEF Talks
<1>10. Agreed(m, t, u)
  <2>1. v.mail = TRUE /\ u.mail = ~m.mail_from_rejected
    BY DEF Talks, Agreed, SrvType
  <2>2. ASSUME cfg.smtp_mode \/ m.send_state \in Early
        PROVE  Len(u.rcpts) = Len(m.survivors)
               /\ \A i \in 1..Len(u.rcpts) : u.rcpts[i] = t.list[m.survivors[i]]
    <3>1. Len(v.rcpts) = q /\ \A i \in 1..q : v.rcpts[i] = s.list[l.survivors[i]]
      BY <2>2, <1>4 DEF Talks, Agreed, SameSender
    <3>2. v.rcpts \in Seq(Rcpt) /\ s.list[k] \in Rcpt
      BY <1>1, <1>2, Listed DEF SrvType
    <3>3. Len(u.rcpts) = q + 1 /\ u.rcpts[q + 1] = s.list[k]
          /\ \A i \in 1..q : u.rcpts[i] = v.rcpts[i]
      BY <1>2, <3>1, <3>2
    <3>4. \A i \in 1..(q + 1) : i \in 1..q \/ i = q + 1
      OBVIOUS
    <3> QED BY <3>1, <3>3, <3>4, <1>5
  <2> QED BY <1>3, <2>1, <2>2 DEF Agreed
<1>11. m.next_rcpt <= Len(s.list) /\ m.send_rcpt <= Len(s.list)
  BY DEF Talks, SameSender
<1>12. Receiver(m, t)
  BY <1>1, <1>6, <1>7 DEF Receiver
<1> QED BY <1>8, <1>9, <1>10, <1>11, <1>12 DEF Talks

\* A recipient is refused: marked, and no survivor.
LEMMA RcptBadTalk ==
    ASSUME NEW s \in StType, Account(s), NEW l \in LoopType, NEW se, NEW v \in SrvType,
           Talks(l, s, se, v, "recv"), l.recv_state = "RCPT", SENDER_IS_AHEAD(l), v.wire # <<>>,
           NEW t \in StType, t.list = s.list, ~t.hop_status,
           NEW m \in LoopType, SameSender(l, m), m.ctx = "loop", m.recv_rcpt = l.recv_rcpt + 1,
           m.recv_state = IF l.recv_rcpt + 1 = Len(s.list) THEN AfterRcpt ELSE "RCPT",
           m.recv_done = l.recv_done, m.mail_from_rejected = l.mail_from_rejected,
           m.nrcpt = l.nrcpt, m.survivors = l.survivors,
           Unmarked(t) = IF l.mail_from_rejected THEN Unmarked(s)
                         ELSE Unmarked(s) \ {s.list[l.recv_rcpt + 1]},
           NEW sf, sf.xfer, Cached(sf) => Cached(se),
           NEW u, u.wire = Tail(v.wire), u.mail = v.mail, u.rcpts = v.rcpts
    PROVE  Talks(m, t, sf, u, "recv")
<1>0. /\ Receiving(l, Len(s.list)) /\ Receiver(l, s) /\ Undecided(l, s)
  BY DEF Talks, Receiver
<1>1. PICK n \in Nat : n = Len(s.list)
  BY Listed
<1>2. PICK k \in 1..n : k = l.recv_rcpt + 1 /\ l.recv_rcpt \in Nat
  BY <1>0, <1>1, RcptPlace
<1>3. /\ m.recv_state \in {"RCPT", "DATA", "ABORT"}
      /\ m.recv_state = "RCPT" => k < n
      /\ m.recv_state # "RCPT" => k = n
      /\ m.recv_state = "DATA" => ~Probe("RCPT")
      /\ m.recv_state = "ABORT" => Probe("RCPT")
  BY <1>0, <1>1, <1>2, RcptPlace
<1>4. PICK q \in Nat : q = Len(l.survivors) /\ l.nrcpt = q /\ l.recv_done = 0 /\ q < k
  BY <1>0, <1>1, <1>2 DEF Receiving, LoopType
<1>5. /\ \A i \in 1..q : l.survivors[i] \in 1..(k - 1)
      /\ \A i, j \in 1..q : l.survivors[i] = l.survivors[j] => i = j
      /\ l.mail_from_rejected => l.survivors = <<>>
  <2>1. \A i \in 1..q : l.survivors[i] \in 1..n /\ l.survivors[i] <= l.recv_rcpt
    BY <1>0, <1>1, <1>4 DEF Receiving
  <2>2. \A i, j \in 1..q : l.survivors[i] = l.survivors[j] => i = j
    BY <1>0, <1>1, <1>4 DEF Receiving
  <2>3. l.mail_from_rejected => l.survivors = <<>>
    BY <1>0 DEF Receiving
  <2>4. \A i \in 1..q : l.survivors[i] \in 1..(k - 1)
    BY <2>1, <1>2
  <2> QED BY <2>2, <2>3, <2>4
<1>6. Receiving(m, n)
  <2>1. \A i \in 1..q : m.survivors[i] \in 1..n /\ m.survivors[i] <= k
    BY <1>5, <1>2
  <2>2. \A i, j \in 1..q : m.survivors[i] = m.survivors[j] => i = j
    BY <1>5
  <2>3. m.nrcpt = q /\ m.recv_done = 0 /\ m.recv_rcpt = k /\ Len(m.survivors) = q
    BY <1>2, <1>4
  <2>4. m.nrcpt \in -1..n /\ m.nrcpt <= m.recv_rcpt /\ n > 0 /\ m.recv_rcpt <= n
    BY <2>3, <1>2, <1>4
  <2>5. m.mail_from_rejected => m.survivors = <<>>
    BY <1>5
  <2> HIDE DEF Probe
  <2> QED BY <2>1, <2>2, <2>3, <2>4, <2>5, <1>3 DEF Receiving
<1>7. Undecided(m, t)
  <2>1. CASE l.mail_from_rejected
    <3>1. Open(l, n) = {} /\ Open(m, n) = {}
      BY <2>1 DEF Open, Closed
    <3> QED BY <1>0, <1>1, <2>1, <3>1 DEF Undecided
  <2>2. CASE ~l.mail_from_rejected
    <3>1. ~Closed(l) /\ (Closed(m) <=> m.recv_state = "ABORT")
      BY <1>3, <1>4, <2>2 DEF Closed
    <3>2. Survivors(m) = Survivors(l)
      BY DEF Survivors
    <3>3. k \notin Survivors(l)
      <4>1. Survivors(l) = IF Probe("RCPT") THEN {} ELSE {l.survivors[j] : j \in 1..q}
        BY <1>4 DEF Survivors
      <4> QED BY <4>1, <1>5, <1>2
    <3>4. Open(l, n) = (k..n) \cup Survivors(l)
      BY <1>2, <3>1 DEF Open
    <3>5. Open(m, n) = IF m.recv_state = "ABORT" THEN {} ELSE ((k + 1)..n) \cup Survivors(l)
      BY <1>2, <3>1, <3>2 DEF Open
    <3>6. m.recv_state = "ABORT" => Survivors(l) = {} /\ k = n
      BY <1>3 DEF Survivors
    <3>7. (k..n) \ {k} = (k + 1)..n /\ k \notin (k + 1)..n
      BY <1>2
    <3>8. Open(m, n) = Open(l, n) \ {k}
      <4>1. CASE m.recv_state = "ABORT"
        <5>1. Open(l, n) = n..n /\ Open(m, n) = {}
          BY <4>1, <3>4, <3>5, <3>6
        <5> QED BY <5>1, <4>1, <3>6, <1>2
      <4>2. CASE m.recv_state # "ABORT"
        BY <4>2, <3>3, <3>4, <3>5, <3>7
      <4> QED BY <4>1, <4>2
    <3>9. Unmarked(t) = Unmarked(s) \ {s.list[k]}
      BY <1>2, <2>2
    <3> QED BY <1>0, <1>1, <3>8, <3>9, DecideOne
  <2> QED BY <2>1, <2>2
<1>8. Asking(m, s.list, Tail(v.wire)) \/ Closing(m, s.list, Tail(v.wire), sf)
  BY RcptWire
<1>9. Sends(m, s.list) /\ Planned(m, s.list, sf, "recv")
  BY SenderSame DEF Talks
<1>10. Agreed(m, t, u)
  <2>1. u.mail = ~m.mail_from_rejected
    BY DEF Talks, Agreed
  <2>2. ASSUME cfg.smtp_mode \/ m.send_state \in Early
        PROVE  Len(u.rcpts) = Len(m.survivors)
               /\ \A i \in 1..Len(u.rcpts) : u.rcpts[i] = t.list[m.survivors[i]]
    BY <2>2 DEF Talks, Agreed, SameSender
  <2> QED BY <1>3, <2>1, <2>2 DEF Agreed
<1>11. m.next_rcpt <= Len(s.list) /\ m.send_rcpt <= Len(s.list)
  BY DEF Talks, SameSender
<1>12. Receiver(m, t)
  BY <1>1, <1>6, <1>7 DEF Receiver
<1> QED BY <1>8, <1>9, <1>10, <1>11, <1>12 DEF Talks

\* The reply to DATA: the message is refused, or its content may come.
LEMMA DataWire ==
    ASSUME NEW s \in StType, NEW l \in LoopType, NEW se, NEW v \in SrvType,
           Talks(l, s, se, v, "recv"), l.recv_state = "DATA", SENDER_IS_AHEAD(l), v.wire # <<>>,
           NEW m \in LoopType, SameSender(l, m), m.recv_rcpt = l.recv_rcpt,
           m.recv_state = "DOT", m.recv_done = l.recv_done,
           NEW sf, Cached(sf) => Cached(se)
    PROVE  Asking(m, s.list, Tail(v.wire)) \/ Closing(m, s.list, Tail(v.wire), sf)
<1>1. /\ Receiver(l, s) /\ Sends(l, s.list) /\ v.wire \in Seq(CommandType)
      /\ Asking(l, s.list, v.wire) \/ Aborting(l, v.wire) \/ Closing(l, s.list, v.wire, se)
  BY DEF Talks, SrvType
<1>2. Asking(l, s.list, v.wire)
  BY <1>1, Hearing
<1>3. Len(s.list) \in Nat /\ ~Probe("RCPT")
  BY <1>1, Listed DEF Receiver, Receiving
<1>4. RecvPlace(m, s.list) = RecvPlace(l, s.list) + 1
  <2>1. RecvPlace(m, s.list) = Len(s.list) + 2 /\ RecvPlace(l, s.list) = Len(s.list) + 1
    BY DEF RecvPlace, Place
  <2> QED BY <2>1, <1>3
<1>5. m.recv_state \in Early
  BY <1>3 DEF Early
<1> QED BY <1>1, <1>2, <1>4, <1>5, EarlyWire

\* refused or not: nrcpt is -1 when the server does not want the message.
LEMMA DataTalk ==
    ASSUME NEW s \in StType, NEW l \in LoopType, NEW se, NEW v \in SrvType,
           Talks(l, s, se, v, "recv"), l.recv_state = "DATA", SENDER_IS_AHEAD(l), v.wire # <<>>,
           NEW t \in StType, t.list = s.list, ~t.hop_status,
           NEW m \in LoopType, SameSender(l, m), m.ctx = "loop", m.recv_rcpt = l.recv_rcpt,
           m.recv_state = "DOT", m.recv_done = l.recv_done,
           m.mail_from_rejected = l.mail_from_rejected, m.survivors = l.survivors,
           m.nrcpt \in {-1, l.nrcpt},
           m.nrcpt # -1 => ~Probe("DATA") /\ (cfg.smtp_mode \/ v.rcpts # <<>>),
           Unmarked(t) = IF m.nrcpt = -1 THEN {} ELSE Unmarked(s),
           NEW sf, sf.xfer, Cached(sf) => Cached(se),
           NEW u, u.wire = Tail(v.wire), u.mail = v.mail, u.rcpts = v.rcpts
    PROVE  Talks(m, t, sf, u, "recv")
<1>0. /\ Receiving(l, Len(s.list)) /\ Receiver(l, s) /\ Undecided(l, s)
  BY DEF Talks, Receiver
<1>1. PICK n \in Nat : n = Len(s.list) /\ n > 0
  BY <1>0, Listed DEF Receiving
<1>2. PICK q \in Nat : q = Len(l.survivors) /\ l.nrcpt = q /\ l.recv_done = 0 /\ q <= n
  BY <1>0, <1>1 DEF Receiving, LoopType
<1>3. l.recv_rcpt = n /\ ~Probe("RCPT")
  BY <1>0, <1>1 DEF Receiving
<1>4. m.send_state \in Early
  <2>1. Asking(l, s.list, v.wire)
    <3>1. Sends(l, s.list) /\ v.wire \in Seq(CommandType)
          /\ (Asking(l, s.list, v.wire) \/ Aborting(l, v.wire) \/ Closing(l, s.list, v.wire, se))
      BY DEF Talks, SrvType
    <3> QED BY <1>0, <3>1, Hearing
  <2> QED BY <2>1 DEF Asking, SameSender
<1>5. Agreed(m, t, u)
  <2>1. l.send_state = m.send_state
    BY DEF SameSender
  <2> QED BY <1>4, <2>1 DEF Talks, Agreed
<1>6. m.nrcpt # -1 => cfg.smtp_mode \/ q > 0
  <2>1. Len(v.rcpts) = q /\ v.rcpts \in Seq(Rcpt)
    BY <1>2, <1>4 DEF Talks, Agreed, SameSender, SrvType
  <2> QED BY <2>1, <1>2
<1>7. Receiving(m, n)
  <2>1. /\ \A i \in 1..q : m.survivors[i] \in 1..n
        /\ \A i, j \in 1..q : m.survivors[i] = m.survivors[j] => i = j
    BY <1>0, <1>1, <1>2 DEF Receiving
  <2>2. l.mail_from_rejected => l.survivors = <<>>
    BY <1>0 DEF Receiving
  <2>3. m.nrcpt \in {-1, q} /\ m.recv_done = 0 /\ m.recv_rcpt = n /\ Len(m.survivors) = q
    BY <1>2, <1>3
  <2>4. m.nrcpt \in -1..n
    BY <2>3, <1>1, <1>2
  <2>5. (IF m.nrcpt > 0 THEN m.recv_done < m.nrcpt ELSE m.recv_done = 0)
    BY <2>3, <1>2
  <2>6. (cfg.smtp_mode \/ m.nrcpt # 0) /\ (Probe("DATA") => m.nrcpt = -1)
    BY <1>6, <2>3
  <2> QED BY <1>1, <1>3, <2>1, <2>2, <2>3, <2>4, <2>5, <2>6 DEF Receiving
<1>8. Undecided(m, t)
  <2>1. CASE m.nrcpt = -1
    <3>1. Open(m, n) = {}
      BY <2>1 DEF Open, Closed
    <3> QED BY <1>1, <2>1, <3>1 DEF Undecided, At
  <2>2. CASE m.nrcpt # -1
    <3>1. Closed(m) <=> Closed(l)
      BY <1>2, <2>2 DEF Closed
    <3>2. Open(m, n) = Open(l, n)
      BY <3>1 DEF Open, Survivors
    <3> QED BY <1>0, <1>1, <2>2, <3>2 DEF Undecided
  <2> QED BY <2>1, <2>2
<1>9. Asking(m, s.list, Tail(v.wire)) \/ Closing(m, s.list, Tail(v.wire), sf)
  BY DataWire
<1>10. Sends(m, s.list) /\ Planned(m, s.list, sf, "recv")
  BY SenderSame DEF Talks
<1>11. m.next_rcpt <= Len(s.list) /\ m.send_rcpt <= Len(s.list)
  BY DEF Talks, SameSender
<1>12. Receiver(m, t)
  BY <1>1, <1>7, <1>8 DEF Receiver
<1> QED BY <1>5, <1>9, <1>10, <1>11, <1>12 DEF Talks

\* A probe ends here: the sender forgets what it wanted to say.
LEMMA ProbeTalk ==
    ASSUME NEW s \in StType, NEW l \in LoopType, NEW se, NEW v \in SrvType,
           Talks(l, s, se, v, "recv"), l.recv_state = "DATA", SENDER_IS_AHEAD(l), v.wire # <<>>,
           NEW t \in StType, t.list = s.list, ~t.hop_status, Unmarked(t) = {},
           NEW m \in LoopType, m.ctx = "loop", m.recv_rcpt = l.recv_rcpt,
           m.recv_state = "LAST", m.send_state = "LAST", m.send_rcpt = l.send_rcpt,
           m.next_rcpt = l.next_rcpt, m.nrcpt = Len(s.list), m.except = l.except,
           m.mail_from_rejected = l.mail_from_rejected, m.survivors = l.survivors,
           NEW sf, sf.xfer,
           NEW u, u.wire = Tail(v.wire)
    PROVE  Talks(m, t, sf, u, "recv")
<1>0. /\ Receiving(l, Len(s.list)) /\ Receiver(l, s)
      /\ Sends(l, s.list) /\ v.wire \in Seq(CommandType)
      /\ (Asking(l, s.list, v.wire) \/ Aborting(l, v.wire) \/ Closing(l, s.list, v.wire, se))
  BY DEF Talks, Receiver, SrvType
<1>1. PICK n \in Nat : n = Len(s.list) /\ n > 0
  BY <1>0, Listed DEF Receiving
<1>2. Asking(l, s.list, v.wire)
  BY <1>0, Hearing
<1>3. l.recv_rcpt = n /\ ~Probe("RCPT") /\ ~l.except
  BY <1>0, <1>1, <1>2 DEF Receiving, Asking
<1>4. Len(v.wire) = SendPlace(l, s.list) - (n + 1) /\ Len(v.wire) \in Nat /\ Len(v.wire) > 0
  <2>1. RecvPlace(l, s.list) = n + 1
    BY <1>1 DEF RecvPlace, Place
  <2> QED BY <1>0, <1>2, <2>1, TailFacts DEF Asking
<1>5. l.send_state = "DOT" /\ l.send_rcpt = n
  <2>1. l.send_state \in {"MAIL", "RCPT", "DATA", "DOT"} /\ l.send_rcpt \in Nat
    BY <1>2, <1>3 DEF Asking, Early, LoopType
  <2>2. CASE l.send_state = "MAIL"
    <3>1. SendPlace(l, s.list) = 0
      BY <2>2 DEF SendPlace, Place
    <3> QED BY <3>1, <1>4
  <2>3. CASE l.send_state = "RCPT"
    <3>1. SendPlace(l, s.list) = l.send_rcpt + 1 /\ l.send_rcpt < n
      BY <2>3, <1>0, <1>1 DEF SendPlace, Place, Sends
    <3> QED BY <3>1, <2>1, <1>4
  <2>4. CASE l.send_state = "DATA"
    <3>1. SendPlace(l, s.list) = n + 1
      BY <2>4, <1>1 DEF SendPlace, Place
    <3> QED BY <3>1, <1>4
  <2>5. CASE l.send_state = "DOT"
    BY <2>5, <1>0, <1>1 DEF Sends
  <2> QED BY <2>1, <2>2, <2>3, <2>4, <2>5
<1>6. Len(v.wire) = 1
  <2>1. SendPlace(l, s.list) = n + 2
    BY <1>1, <1>5 DEF SendPlace, Place
  <2> QED BY <2>1, <1>4
<1>7. Len(Tail(v.wire)) = 0
  BY <1>0, <1>4, <1>6, TailFacts
<1>8. Closing(m, s.list, Tail(v.wire), sf)
  <2>1. Count(m, s.list) = 0
    BY DEF Count
  <2>2. Ending(m, s.list, sf)
    BY <1>3, <1>5 DEF Ending
  <2>3. \A k \in 1..0 : FALSE
    OBVIOUS
  <2> QED BY <1>7, <2>1, <2>2, <2>3 DEF Closing, Owed
<1>9. Receiving(m, n)
  <2>1. /\ \A i \in 1..Len(m.survivors) : m.survivors[i] \in 1..n
        /\ \A i, j \in 1..Len(m.survivors) : m.survivors[i] = m.survivors[j] => i = j
    BY <1>0, <1>1 DEF Receiving
  <2>2. l.mail_from_rejected => l.survivors = <<>>
    BY <1>0 DEF Receiving
  <2>3. m.nrcpt \in -1..n
    BY <1>1
  <2> QED BY <1>1, <1>3, <2>1, <2>2, <2>3 DEF Receiving
<1>10. Undecided(m, t)
  <2>1. Open(m, n) = {}
    BY DEF Open, Closed
  <2> QED BY <1>1, <2>1 DEF Undecided, At
<1>11. Receiver(m, t)
  BY <1>1, <1>9, <1>10 DEF Receiver
<1>12. Sends(m, s.list) /\ Planned(m, s.list, sf, "recv") /\ Agreed(m, t, u)
  BY DEF Sends, Planned, Agreed
<1>13. m.next_rcpt <= Len(s.list) /\ m.send_rcpt <= Len(s.list)
  BY DEF Talks
<1> QED BY <1>8, <1>11, <1>12, <1>13 DEF Talks

\* End of data.  Of the recipients that the server has accepted, these still
\* wait for a reply.
LEMMA Waiting ==
    ASSUME NEW s \in StType, NEW l \in LoopType, Receiver(l, s),
           l.recv_state = "DOT", l.nrcpt >= 0
    PROVE  /\ ~Probe("RCPT") /\ ~Probe("DATA")
           /\ l.nrcpt = Len(l.survivors) /\ l.nrcpt \in Nat
           /\ Open(l, Len(s.list)) = {l.survivors[j] : j \in (l.recv_done + 1)..l.nrcpt}
           /\ l.nrcpt > 0 => l.recv_done < l.nrcpt
           /\ l.nrcpt = 0 => l.recv_done = 0
           /\ \A i \in 1..l.nrcpt : l.survivors[i] \in 1..Len(s.list)
           /\ \A i, j \in 1..l.nrcpt : l.survivors[i] = l.survivors[j] => i = j
<1>0. /\ l.recv_rcpt = Len(s.list) /\ ~Probe("RCPT") /\ ~Probe("DATA")
      /\ l.nrcpt = Len(l.survivors) /\ l.nrcpt \in Nat
      /\ l.nrcpt > 0 => l.recv_done < l.nrcpt
      /\ l.nrcpt = 0 => l.recv_done = 0
      /\ l.mail_from_rejected => l.survivors = <<>>
  BY DEF Receiver, Receiving, LoopType
<1>1. /\ \A i \in 1..l.nrcpt : l.survivors[i] \in 1..Len(s.list)
      /\ \A i, j \in 1..l.nrcpt : l.survivors[i] = l.survivors[j] => i = j
  BY <1>0 DEF Receiver, Receiving
<1>2. Open(l, Len(s.list)) = {l.survivors[j] : j \in (l.recv_done + 1)..l.nrcpt}
  <2>1. Survivors(l) = {l.survivors[j] : j \in (l.recv_done + 1)..l.nrcpt}
    BY <1>0 DEF Survivors
  <2>2. (l.recv_rcpt + 1)..Len(s.list) = {}
    BY <1>0, Listed
  <2>3. CASE l.mail_from_rejected
    <3>1. l.nrcpt = 0 /\ l.recv_done = 0
      BY <1>0, <2>3
    <3>2. (l.recv_done + 1)..l.nrcpt = {}
      BY <3>1
    <3> QED BY <2>1, <2>3, <3>2 DEF Open, Closed
  <2>4. CASE ~l.mail_from_rejected
    <3>1. ~Closed(l)
      BY <2>4 DEF Closed
    <3> QED BY <2>1, <2>2, <3>1 DEF Open
  <2> QED BY <2>3, <2>4
<1> QED BY <1>0, <1>1, <1>2

\* The last reply that is about the message.  Without a connection it is the
\* one that the server sent before it was gone.
EndTail(l, v, u) ==
    \/ v.wire # <<>> /\ u.wire = Tail(v.wire)
    \/ v.wire = <<>> /\ u.wire = <<>> /\ l.except

\* The last reply to end-of-data, or the reply to the RSET that aborts.
LEMMA EndTalk ==
    ASSUME NEW s \in StType, NEW l \in LoopType, NEW se, NEW v \in SrvType,
           Talks(l, s, se, v, "recv"), SENDER_IS_AHEAD(l),
           l.recv_state \in {"DOT", "ABORT"}, Closing(l, s.list, v.wire, se),
           Count(l, s.list) = 1,
           NEW t \in StType, t.list = s.list, ~t.hop_status, Unmarked(t) = {},
           NEW m \in LoopType, SameSender(l, m), m.ctx = "loop", m.recv_rcpt = l.recv_rcpt,
           m.recv_state \in {"QUIT", "LAST"}, m.nrcpt = l.nrcpt,
           m.mail_from_rejected = l.mail_from_rejected, m.survivors = l.survivors,
           NEW sf, sf.xfer, Cached(sf) => Cached(se),
           m.recv_state = "QUIT" => ~cfg.skip_quit_resp /\ ~Cached(sf) /\ ~l.except,
           NEW u, EndTail(l, v, u)
    PROVE  Talks(m, t, sf, u, "recv")
<1>0. /\ Receiving(l, Len(s.list)) /\ Receiver(l, s)
      /\ Sends(l, s.list) /\ v.wire \in Seq(CommandType)
  BY DEF Talks, Receiver, SrvType
<1>1. PICK n \in Nat : n = Len(s.list) /\ n > 0
  BY <1>0, Listed DEF Receiving
<1>2. Ending(l, s.list, se)
  BY DEF Closing
<1>3. Ending(m, s.list, sf)
  BY <1>2 DEF Ending, SameSender
<1>4. Count(m, s.list) = 0
  BY DEF Count
<1>5. Closing(m, s.list, u.wire, sf)
  <2>1. CASE v.wire # <<>> /\ u.wire = Tail(v.wire)
    <3>1. \A k \in 1..Count(m, s.list) : FALSE
      BY <1>4
    <3>2. m.send_state = l.send_state /\ m.except = l.except
      BY DEF SameSender
    <3>3. Count(m, s.list) = Count(l, s.list) - 1 /\ Count(l, s.list) \in Nat /\ Count(l, s.list) > 0
      BY <1>4
    <3>4. NextReply(l, m, s.list, se, sf)
      BY <1>3, <3>1, <3>2, <3>3 DEF NextReply
    <3> QED BY <1>0, <2>1, <3>4, ClosingStep
  <2>2. CASE v.wire = <<>> /\ u.wire = <<>> /\ l.except
    <3>1. m.recv_state = "LAST" /\ Len(u.wire) = 0
      BY <2>2
    <3>2. \A k \in 1..Count(m, s.list) : FALSE
      BY <1>4
    <3> QED BY <1>3, <1>4, <3>1, <3>2 DEF Closing, Owed
  <2> QED BY <2>1, <2>2 DEF EndTail
<1>6. Receiving(m, n)
  <2>1. /\ \A i \in 1..Len(m.survivors) : m.survivors[i] \in 1..n
        /\ \A i, j \in 1..Len(m.survivors) : m.survivors[i] = m.survivors[j] => i = j
    BY <1>0, <1>1 DEF Receiving
  <2>2. l.mail_from_rejected => l.survivors = <<>>
    BY <1>0 DEF Receiving
  <2>3. m.nrcpt \in -1..n /\ m.recv_rcpt <= n
    BY <1>0, <1>1 DEF Receiving
  <2> QED BY <1>1, <2>1, <2>2, <2>3 DEF Receiving
<1>7. Undecided(m, t)
  <2>1. Open(m, n) = {}
    BY DEF Open, Closed
  <2> QED BY <1>1, <2>1 DEF Undecided, At
<1>8. Receiver(m, t)
  BY <1>1, <1>6, <1>7 DEF Receiver
<1>9. Sends(m, s.list) /\ Planned(m, s.list, sf, "recv")
  BY SenderSame DEF Talks
<1>10. Agreed(m, t, u)
  BY DEF Agreed
<1>11. m.next_rcpt <= Len(s.list) /\ m.send_rcpt <= Len(s.list)
  BY DEF Talks, SameSender
<1> QED BY <1>5, <1>8, <1>9, <1>10, <1>11 DEF Talks

\* LMTP: one more recipient has its reply, and others still wait.
LEMMA DotNextTalk ==
    ASSUME NEW s \in StType, Account(s), NEW l \in LoopType, NEW se, NEW v \in SrvType,
           Talks(l, s, se, v, "recv"), SENDER_IS_AHEAD(l), ~cfg.smtp_mode,
           l.recv_state = "DOT", Closing(l, s.list, v.wire, se), l.recv_done + 1 < l.nrcpt,
           NEW t \in StType, t.list = s.list, ~t.hop_status,
           Unmarked(t) = Unmarked(s) \ {s.list[l.survivors[l.recv_done + 1]]},
           NEW m \in LoopType, SameSender(l, m), m.ctx = "loop", m.recv_rcpt = l.recv_rcpt,
           m.recv_state = "DOT", m.nrcpt = l.nrcpt, m.recv_done = l.recv_done + 1,
           m.mail_from_rejected = l.mail_from_rejected, m.survivors = l.survivors,
           NEW sf, sf.xfer, Cached(sf) => Cached(se),
           NEW u, EndTail(l, v, u)
    PROVE  Talks(m, t, sf, u, "recv")
<1>0. /\ Receiving(l, Len(s.list)) /\ Receiver(l, s)
      /\ Sends(l, s.list) /\ v.wire \in Seq(CommandType)
  BY DEF Talks, Receiver, SrvType
<1>1. PICK n \in Nat : n = Len(s.list) /\ n > 0
  BY <1>0, Listed DEF Receiving
<1>2. Ending(l, s.list, se) /\ l.nrcpt >= 0
  BY DEF Closing, Ending
<1>2a. l.recv_done \in Nat /\ l.nrcpt \in Nat
  BY <1>2 DEF LoopType
<1>3. Ending(m, s.list, sf)
  BY <1>2 DEF Ending, SameSender
<1>4. Count(m, s.list) = Count(l, s.list) - 1 /\ Count(l, s.list) \in Nat /\ Count(l, s.list) > 0
  <2>1. Count(l, s.list) = l.nrcpt - l.recv_done /\ Count(m, s.list) = l.nrcpt - (l.recv_done + 1)
    BY DEF Count
  <2> QED BY <2>1, <1>2a
<1>5. Closing(m, s.list, u.wire, sf)
  <2>1. CASE v.wire # <<>> /\ u.wire = Tail(v.wire)
    <3>1. ASSUME NEW k \in 1..Count(m, s.list)
          PROVE  Awaited(m, s.list, k) = Awaited(l, s.list, k + 1)
      <4>1. l.recv_done + 1 + k = l.recv_done + (k + 1)
        BY <1>2a
      <4>2. Awaited(m, s.list, k) = Command("DOT", s.list[l.survivors[l.recv_done + 1 + k]])
        BY DEF Awaited
      <4>3. Awaited(l, s.list, k + 1) = Command("DOT", s.list[l.survivors[l.recv_done + (k + 1)]])
        BY DEF Awaited
      <4> QED BY <4>1, <4>2, <4>3
    <3>2. m.send_state = l.send_state /\ m.except = l.except
      BY DEF SameSender
    <3>3. NextReply(l, m, s.list, se, sf)
      BY <1>3, <1>4, <3>1, <3>2 DEF NextReply
    <3> QED BY <1>0, <2>1, <3>3, ClosingStep
  <2>2. CASE v.wire = <<>> /\ u.wire = <<>> /\ l.except
    <3>1. m.except /\ m.nrcpt > 0
      BY <1>2a, <2>2 DEF SameSender
    <3>2. Owed(m, s.list, u.wire, sf)
      BY <2>2, <3>1 DEF Owed
    <3>3. Len(u.wire) = 0
      BY <2>2
    <3>4. \A k \in 1..Count(m, s.list) : ~(k <= Len(u.wire))
      BY <3>3, <1>4
    <3> QED BY <1>3, <3>2, <3>4 DEF Closing
  <2> QED BY <2>1, <2>2 DEF EndTail
<1>6. Receiving(m, n)
  <2>1. /\ \A i \in 1..Len(m.survivors) : m.survivors[i] \in 1..n
        /\ \A i, j \in 1..Len(m.survivors) : m.survivors[i] = m.survivors[j] => i = j
    BY <1>0, <1>1 DEF Receiving
  <2>2. l.mail_from_rejected => l.survivors = <<>>
    BY <1>0 DEF Receiving
  <2>3. m.nrcpt \in -1..n /\ m.recv_rcpt = n /\ ~Probe("RCPT") /\ m.nrcpt \in {-1, Len(m.survivors)}
        /\ (cfg.smtp_mode \/ m.nrcpt # 0) /\ (Probe("DATA") => m.nrcpt = -1)
    BY <1>0, <1>1 DEF Receiving
  <2>4. IF m.nrcpt > 0 THEN m.recv_done < m.nrcpt ELSE m.recv_done = 0
    BY <1>2a
  <2> QED BY <1>1, <2>1, <2>2, <2>3, <2>4 DEF Receiving
<1>7. Undecided(m, t)
  <2>1. PICK d \in Nat : d = l.recv_done
    BY <1>2a
  <2>2. PICK q \in Nat : q = l.nrcpt /\ d + 1 < q
    BY <1>2a, <2>1
  <2>3. /\ Open(l, n) = {l.survivors[j] : j \in (d + 1)..q}
        /\ \A i \in 1..q : l.survivors[i] \in 1..n
        /\ \A i, j \in 1..q : l.survivors[i] = l.survivors[j] => i = j
    BY <1>0, <1>1, <1>2, <2>1, <2>2, Waiting
  <2>4. Open(m, n) = {l.survivors[j] : j \in (d + 2)..q}
    <3>1. Receiver(l, s) /\ l.recv_rcpt = n /\ ~Probe("RCPT") /\ l.nrcpt = Len(l.survivors)
          /\ l.survivors # <<>>
      <4>1. l.nrcpt = Len(l.survivors)
        BY <1>0, <1>2, Waiting
      <4> QED BY <1>0, <1>1, <2>2, <4>1 DEF Receiving
    <3>2. ~Closed(m)
      BY <1>0, <2>2, <3>1 DEF Closed, Receiving
    <3>3. (n + 1)..n = {}
      OBVIOUS
    <3>4. m.recv_done + 1 = d + 2 /\ Len(m.survivors) = q
      BY <2>1, <2>2, <3>1
    <3>5. Survivors(m) = {l.survivors[j] : j \in (d + 2)..q}
      BY <3>1, <3>4 DEF Survivors
    <3> QED BY <3>1, <3>2, <3>3, <3>5 DEF Open
  <2>5. PICK k \in 1..n : k = l.survivors[d + 1]
    BY <2>2, <2>3
  <2>6. Open(m, n) = Open(l, n) \ {k}
    <3>1. (d + 1)..q = ((d + 2)..q) \cup {d + 1}
      BY <2>2
    <3>2. \A j \in (d + 2)..q : l.survivors[j] # l.survivors[d + 1]
      BY <2>2, <2>3
    <3> QED BY <2>3, <2>4, <2>5, <3>1, <3>2
  <2>7. Unmarked(t) = Unmarked(s) \ {s.list[k]}
    BY <2>1, <2>5
  <2> QED BY <1>0, <1>1, <2>6, <2>7, DecideOne
<1>8. Receiver(m, t)
  BY <1>1, <1>6, <1>7 DEF Receiver
<1>9. Sends(m, s.list) /\ Planned(m, s.list, sf, "recv")
  BY SenderSame DEF Talks
<1>10. Agreed(m, t, u)
  <2>1. m.send_state \notin Early
    BY <1>3 DEF Ending, Early
  <2> QED BY <2>1 DEF Agreed
<1>11. m.next_rcpt <= Len(s.list) /\ m.send_rcpt <= Len(s.list)
  BY DEF Talks, SameSender
<1> QED BY <1>5, <1>8, <1>9, <1>10, <1>11 DEF Talks

\* The reply to QUIT.
LEMMA QuitTalk ==
    ASSUME NEW s \in StType, NEW l \in LoopType, NEW se, NEW v \in SrvType,
           Talks(l, s, se, v, "recv"), SENDER_IS_AHEAD(l), v.wire # <<>>,
           l.recv_state = "QUIT", Closing(l, s.list, v.wire, se), Unmarked(s) = {},
           NEW m \in LoopType, SameSender(l, m), m.ctx = "loop", m.recv_rcpt = l.recv_rcpt,
           m.recv_state = "LAST", m.nrcpt = l.nrcpt,
           m.mail_from_rejected = l.mail_from_rejected, m.survivors = l.survivors,
           NEW sf, sf.xfer, Cached(sf) => Cached(se),
           NEW u, u.wire = Tail(v.wire)
    PROVE  Talks(m, s, sf, u, "recv")
<1>0. /\ Receiving(l, Len(s.list)) /\ Receiver(l, s)
      /\ Sends(l, s.list) /\ v.wire \in Seq(CommandType)
  BY DEF Talks, Receiver, SrvType
<1>1. PICK n \in Nat : n = Len(s.list) /\ n > 0
  BY <1>0, Listed DEF Receiving
<1>2. Ending(l, s.list, se)
  BY DEF Closing
<1>3. Ending(m, s.list, sf)
  BY <1>2 DEF Ending, SameSender
<1>4. Count(m, s.list) = 0 /\ Count(l, s.list) = 0
  BY DEF Count
<1>5. Closing(m, s.list, u.wire, sf)
  BY <1>0, <1>3, <1>4, ClosingEnd
<1>6. Receiving(m, n)
  <2>1. /\ \A i \in 1..Len(m.survivors) : m.survivors[i] \in 1..n
        /\ \A i, j \in 1..Len(m.survivors) : m.survivors[i] = m.survivors[j] => i = j
    BY <1>0, <1>1 DEF Receiving
  <2>2. l.mail_from_rejected => l.survivors = <<>>
    BY <1>0 DEF Receiving
  <2>3. m.nrcpt \in -1..n /\ m.recv_rcpt <= n
    BY <1>0, <1>1 DEF Receiving
  <2> QED BY <1>1, <2>1, <2>2, <2>3 DEF Receiving
<1>7. Undecided(m, s)
  <2>1. Open(m, n) = {}
    BY DEF Open, Closed
  <2> QED BY <1>1, <2>1 DEF Undecided, At
<1>8. Receiver(m, s)
  BY <1>1, <1>6, <1>7 DEF Receiver
<1>9. Sends(m, s.list) /\ Planned(m, s.list, sf, "recv")
  BY SenderSame DEF Talks
<1>10. Agreed(m, s, u)
  BY DEF Agreed
<1>11. m.next_rcpt <= Len(s.list) /\ m.send_rcpt <= Len(s.list)
  BY DEF Talks, SameSender
<1> QED BY <1>5, <1>8, <1>9, <1>10, <1>11 DEF Talks

-----------------------------------------------------------------------------
(***************************************************************************)
(* The sender.                                                             *)
(***************************************************************************)
SameReceiver(l, m) ==
    /\ m.recv_state = l.recv_state /\ m.recv_rcpt = l.recv_rcpt /\ m.nrcpt = l.nrcpt
    /\ m.survivors = l.survivors /\ m.recv_done = l.recv_done
    /\ m.mail_from_rejected = l.mail_from_rejected

\* What the sender does leaves the receiver's place alone.
LEMMA ReceiverSame ==
    ASSUME NEW l, NEW m, NEW s, SameReceiver(l, m), Receiver(l, s)
    PROVE  Receiver(m, s)
<1>1. Closed(m) <=> Closed(l)
  BY DEF Closed, SameReceiver
<1>2. Survivors(m) = Survivors(l)
  BY DEF Survivors, SameReceiver
<1>3. Undecided(m, s)
  BY <1>1, <1>2 DEF Receiver, Undecided, Open, SameReceiver
<1>4. Receiving(m, Len(s.list))
  BY DEF Receiver, Receiving, SameReceiver
<1> QED BY <1>3, <1>4 DEF Receiver

\* ... and the number of replies that it waits for,
LEMMA CountSame ==
    ASSUME NEW l, NEW m, NEW L, SameReceiver(l, m)
    PROVE  /\ RecvPlace(m, L) = RecvPlace(l, L) /\ Count(m, L) = Count(l, L)
           /\ \A k : Awaited(m, L, k) = Awaited(l, L, k)
<1>1. RecvPlace(m, L) = RecvPlace(l, L)
  BY DEF RecvPlace, SameReceiver
<1>2. Count(m, L) = Count(l, L)
  BY <1>1 DEF Count, SameReceiver
<1>3. \A k : Awaited(m, L, k) = Awaited(l, L, k)
  BY <1>1 DEF Awaited, SameReceiver
<1> QED BY <1>1, <1>2, <1>3

\* ... and which they are,
LEMMA AwaitedSame ==
    ASSUME NEW l, NEW m, NEW L, NEW k, SameReceiver(l, m)
    PROVE  Awaited(m, L, k) = Awaited(l, L, k)
BY CountSame

\* ... and the description of what is on the wire.
LEMMA WireSame ==
    ASSUME NEW l, NEW m, NEW L, NEW w, NEW se, NEW sf, SameReceiver(l, m),
           m.send_state = l.send_state, m.send_rcpt = l.send_rcpt, m.except = l.except,
           Cached(sf) => Cached(se),
           Asking(l, L, w) \/ Aborting(l, w) \/ Closing(l, L, w, se)
    PROVE  Asking(m, L, w) \/ Aborting(m, w) \/ Closing(m, L, w, sf)
<1>1. CASE Asking(l, L, w)
  <2>1. RecvPlace(m, L) = RecvPlace(l, L) /\ SendPlace(m, L) = SendPlace(l, L)
    BY CountSame DEF SendPlace
  <2>2. Asking(m, L, w)
    BY <1>1, <2>1 DEF Asking, SameReceiver
  <2> QED BY <2>2
<1>2. CASE Aborting(l, w)
  BY <1>2 DEF Aborting, SameReceiver
<1>3. CASE Closing(l, L, w, se)
  <2>1. Ending(m, L, sf)
    BY <1>3 DEF Closing, Ending, SameReceiver
  <2>2. Count(m, L) = Count(l, L) /\ \A k : Awaited(m, L, k) = Awaited(l, L, k)
    <3>1. Count(m, L) = Count(l, L)
      BY CountSame
    <3>2. ASSUME NEW k PROVE Awaited(m, L, k) = Awaited(l, L, k)
      BY CountSame
    <3> QED BY <3>1, <3>2
  <2>3. Owed(m, L, w, sf)
    BY <1>3, <2>2 DEF Closing, Owed, SameReceiver
  <2> QED BY <1>3, <2>1, <2>2, <2>3 DEF Closing
<1> QED BY <1>1, <1>2, <1>3

\* The choice of the next command.
NextChosen(l, m, s, sf) ==
    /\ l.send_state = "MAIL" => m.next_state = "RCPT"
    /\ l.send_state = "RCPT" =>
          m.next_state = IF l.send_rcpt + 1 = Len(s.list) THEN AfterRcpt ELSE l.next_state
    /\ l.send_state = "DATA" => m.next_state = "DOT"
    /\ l.send_state \in {"DOT", "ABORT"} => m.next_state = IF Cached(sf) THEN "LAST" ELSE "QUIT"
    /\ l.send_state = "QUIT" => m.next_state = "LAST" /\ ~Cached(sf)
    /\ m.next_rcpt = IF l.send_state = "RCPT" THEN l.send_rcpt + 1 ELSE l.next_rcpt

\* The sender chooses its next state; nothing is sent yet.
LEMMA TopTalk ==
    ASSUME NEW s \in StType, NEW l \in LoopType, NEW se, NEW v,
           Talks(l, s, se, v, "send"),
           NEW m \in LoopType, SameReceiver(l, m), m.send_state = l.send_state,
           m.send_rcpt = l.send_rcpt, m.except = l.except, m.ctx = l.ctx,
           NEW sf, sf.xfer, Cached(sf) => Cached(se), NextChosen(l, m, s, sf),
           NEW p \in {"recv", "emit"}, p = "emit" => l.send_state \notin {"DOT", "LAST"}
    PROVE  Talks(m, s, sf, v, p)
<1>1. Receiver(m, s)
  BY ReceiverSame DEF Talks
<1>2. Asking(m, s.list, v.wire) \/ Aborting(m, v.wire) \/ Closing(m, s.list, v.wire, sf)
  <2>1. Asking(l, s.list, v.wire) \/ Aborting(l, v.wire) \/ Closing(l, s.list, v.wire, se)
    BY DEF Talks
  <2> QED BY <2>1, WireSame
<1>3. /\ l.send_state \in StateName /\ l.send_rcpt \in Nat /\ l.next_rcpt \in Nat
      /\ l.send_state = l.next_state /\ l.send_rcpt = l.next_rcpt
      /\ Len(s.list) \in Nat /\ Sends(l, s.list)
  BY Listed DEF Talks, Planned, LoopType
<1>4. Planned(m, s.list, sf, p)
  <2>1. l.send_state = "MAIL" => m.next_state = "RCPT" /\ m.next_rcpt = 0
    BY <1>3 DEF NextChosen, Sends
  <2>2. l.send_state = "RCPT" =>
           /\ m.next_rcpt = m.send_rcpt + 1
           /\ m.next_state = IF m.next_rcpt = Len(s.list) THEN AfterRcpt ELSE "RCPT"
    BY <1>3 DEF NextChosen
  <2>3. l.send_state = "DATA" => m.next_state = "DOT" /\ m.next_rcpt = Len(s.list)
    BY <1>3 DEF NextChosen, Sends
  <2>4. l.send_state \in {"DOT", "ABORT"} =>
           /\ m.next_state \in {"QUIT", "LAST"} /\ m.next_rcpt = m.send_rcpt
           /\ m.next_state = "QUIT" => ~Cached(sf)
    BY <1>3 DEF NextChosen
  <2>5. l.send_state = "QUIT" => m.next_state = "LAST" /\ m.next_rcpt = m.send_rcpt
    BY <1>3 DEF NextChosen
  <2> QED BY <2>1, <2>2, <2>3, <2>4, <2>5 DEF Planned
<1>5. m.next_rcpt <= Len(s.list) /\ m.send_rcpt <= Len(s.list)
  <2>1. l.next_rcpt <= Len(s.list) /\ l.send_rcpt <= Len(s.list)
    BY DEF Talks
  <2>2. l.send_state = "RCPT" => l.send_rcpt < Len(s.list)
    BY <1>3 DEF Sends
  <2> QED BY <2>1, <2>2, <1>3 DEF NextChosen
<1>6. Sends(m, s.list)
  BY DEF Talks, Sends
<1>7. Agreed(m, s, v)
  BY DEF Talks, Agreed, SameReceiver
<1>8. m.ctx = "body" => m.recv_state = "DOT" /\ m.send_state \in {"QUIT", "LAST"} /\ m.nrcpt > 0
  BY DEF Talks, SameReceiver
<1>9. ~s.hop_status
  BY DEF Talks
<1> QED BY <1>1, <1>2, <1>4, <1>5, <1>6, <1>7, <1>8, <1>9 DEF Talks

\* All replies have been read: the wire is empty, and the receiver waits for
\* the reply to the next command.
LEMMA SyncedPlace ==
    ASSUME NEW s \in StType, NEW l \in LoopType, NEW se, NEW v \in SrvType,
           Talks(l, s, se, v, "recv"), ~SENDER_IS_AHEAD(l)
    PROVE  /\ l.send_state \in {"MAIL", "RCPT", "DATA", "DOT"} =>
                Asking(l, s.list, v.wire) /\ v.wire = <<>> /\ l.recv_state = l.send_state
           /\ l.send_state = "LAST" => l.recv_state = "LAST"
<1>1. /\ Receiver(l, s) /\ Sends(l, s.list) /\ v.wire \in Seq(CommandType)
      /\ Asking(l, s.list, v.wire) \/ Aborting(l, v.wire) \/ Closing(l, s.list, v.wire, se)
  BY DEF Talks, SrvType
<1>2. CASE Asking(l, s.list, v.wire)
  <2>1. v.wire = <<>> /\ l.recv_state = l.send_state
    BY <1>1, <1>2, AheadAsking
  <2> QED BY <1>2, <2>1
<1>3. CASE Aborting(l, v.wire)
  BY <1>3 DEF Aborting
<1>4. CASE Closing(l, s.list, v.wire, se)
  <2>1. l.send_state \in {"QUIT", "LAST"}
    BY <1>4 DEF Closing, Ending
  <2>2. l.recv_state = "LAST" \/ (l.recv_state = "QUIT" /\ l.send_state = "QUIT")
    BY <1>1, <1>4, AheadClosing
  <2> QED BY <2>1, <2>2
<1> QED BY <1>1, <1>2, <1>3, <1>4

\* All replies are in: the sender goes on.
LEMMA SyncedTalk ==
    ASSUME NEW s \in StType, NEW l \in LoopType, NEW se, NEW v \in SrvType,
           Talks(l, s, se, v, "recv"), ~SENDER_IS_AHEAD(l),
           l.send_state = "DOT" => l.nrcpt >= 0
    PROVE  Talks(l, s, se, v, "emit")
<1>1. Planned(l, s.list, se, "emit")
  BY SyncedPlace DEF Talks, Planned
<1> QED BY <1>1 DEF Talks

\* The sender changes plans when nobody is left, or the server refuses.
LEMMA AbortTalk ==
    ASSUME NEW s \in StType, NEW l \in LoopType, NEW se, NEW v \in SrvType,
           Talks(l, s, se, v, "recv"), ~SENDER_IS_AHEAD(l),
           \/ l.send_state = "RCPT" /\ l.mail_from_rejected
           \/ l.send_state = "DATA" /\ l.nrcpt = 0
           \/ l.send_state = "DOT" /\ l.nrcpt < 0,
           NEW m \in LoopType, m.send_state = "ABORT", m.recv_state = "ABORT",
           m.send_rcpt = 0, m.recv_rcpt = 0, m.next_rcpt = 0,
           m.nrcpt = l.nrcpt, m.survivors = l.survivors, m.recv_done = l.recv_done,
           m.mail_from_rejected = l.mail_from_rejected, m.except = l.except, m.ctx = l.ctx,
           NEW sf, sf.xfer, m.next_state = AfterMail(sf)
    PROVE  Talks(m, s, sf, v, "emit")
<1>0. /\ Receiving(l, Len(s.list)) /\ Receiver(l, s) /\ Undecided(l, s)
      /\ Asking(l, s.list, v.wire) /\ v.wire = <<>> /\ l.recv_state = l.send_state
  BY SyncedPlace DEF Talks, Receiver
<1>1. PICK n \in Nat : n = Len(s.list) /\ n > 0
  BY <1>0, Listed DEF Receiving
<1>2. Open(l, n) = {}
  <2>1. CASE l.send_state = "RCPT" /\ l.mail_from_rejected
    BY <2>1 DEF Open, Closed
  <2>2. CASE l.send_state = "DATA" /\ l.nrcpt = 0
    <3>1. l.recv_rcpt = n /\ Len(l.survivors) = 0 /\ l.recv_done = 0
      BY <1>0, <1>1, <2>2 DEF Receiving
    <3>2. (n + 1)..n = {} /\ (0 + 1)..0 = {}
      OBVIOUS
    <3>3. Survivors(l) = {}
      BY <3>1, <3>2 DEF Survivors
    <3> QED BY <3>1, <3>2, <3>3 DEF Open
  <2>3. CASE l.send_state = "DOT" /\ l.nrcpt < 0
    <3>1. l.nrcpt = -1
      BY <1>0, <2>3 DEF Receiving
    <3> QED BY <3>1 DEF Open, Closed
  <2> QED BY <2>1, <2>2, <2>3
<1>3. Receiving(m, n)
  <2>1. /\ \A i \in 1..Len(m.survivors) : m.survivors[i] \in 1..n
        /\ \A i, j \in 1..Len(m.survivors) : m.survivors[i] = m.survivors[j] => i = j
    BY <1>0, <1>1 DEF Receiving
  <2>2. l.mail_from_rejected => l.survivors = <<>>
    BY <1>0 DEF Receiving
  <2>3. m.nrcpt \in -1..n /\ m.recv_rcpt <= n
    BY <1>0, <1>1 DEF Receiving
  <2> QED BY <1>1, <2>1, <2>2, <2>3 DEF Receiving
<1>4. Undecided(m, s)
  <2>1. Open(m, n) = {}
    BY DEF Open, Closed
  <2> QED BY <1>0, <1>1, <1>2, <2>1 DEF Undecided
<1>5. Receiver(m, s)
  BY <1>1, <1>3, <1>4 DEF Receiver
<1>6. Aborting(m, v.wire)
  BY <1>0 DEF Aborting, Asking
<1>7. Sends(m, s.list) /\ Agreed(m, s, v)
  BY DEF Sends, Agreed
<1>8. Planned(m, s.list, sf, "emit")
  BY DEF Planned, AfterMail
<1>9. m.ctx # "body"
  BY <1>0 DEF Talks
<1>10. m.next_rcpt <= n /\ m.send_rcpt <= n
  BY <1>1
<1>11. ~s.hop_status
  BY DEF Talks
<1> QED BY <1>1, <1>5, <1>6, <1>7, <1>8, <1>9, <1>10, <1>11 DEF Talks

\* A command is sent.
LEMMA AppendFacts ==
    ASSUME NEW w \in Seq(CommandType), NEW c \in CommandType
    PROVE  /\ w \o <<c>> \in Seq(CommandType) /\ Len(w \o <<c>>) = Len(w) + 1
           /\ (w \o <<c>>)[Len(w) + 1] = c
           /\ \A k \in 1..Len(w) : (w \o <<c>>)[k] = w[k]
           /\ Len(w) \in Nat
OBVIOUS

\* MAIL FROM, RCPT TO or DATA is sent.
LEMMA AskTalk ==
    ASSUME NEW s \in StType, NEW l \in LoopType, NEW se, NEW v \in SrvType,
           Talks(l, s, se, v, "emit"), l.send_state \in {"MAIL", "RCPT", "DATA"},
           NEW m \in LoopType, SameReceiver(l, m), m.send_state = l.next_state,
           m.send_rcpt = l.next_rcpt, m.next_state = l.next_state, m.next_rcpt = l.next_rcpt,
           m.except = l.except, m.ctx = l.ctx,
           NEW u, u.mail = v.mail, u.rcpts = v.rcpts,
           u.wire = v.wire \o <<Command(l.send_state,
                       IF l.send_state = "RCPT" THEN s.list[l.send_rcpt + 1] ELSE NoRcpt)>>
    PROVE  Talks(m, s, se, u, "send")
<1>0. /\ Receiver(l, s) /\ Sends(l, s.list) /\ v.wire \in Seq(CommandType)
      /\ l.send_rcpt \in Nat /\ l.recv_rcpt \in Nat
  BY DEF Talks, SrvType, LoopType
<1>1. PICK n \in Nat : n = Len(s.list) /\ n > 0
  BY <1>0, Listed DEF Receiver, Receiving
<1>2. Asking(l, s.list, v.wire)
  BY DEF Talks, Aborting, Closing, Ending
<1>3. /\ l.send_state = "MAIL" => l.next_state = "RCPT" /\ l.next_rcpt = 0 /\ l.send_rcpt = 0
      /\ l.send_state = "RCPT" =>
               /\ l.next_rcpt = l.send_rcpt + 1 /\ l.send_rcpt < n
               /\ l.next_state = IF l.next_rcpt = n THEN AfterRcpt ELSE "RCPT"
      /\ l.send_state = "DATA" => l.next_state = "DOT" /\ l.next_rcpt = n /\ ~Probe("RCPT")
  <2>1. l.send_state = "DATA" => ~Probe("RCPT")
    BY <1>2 DEF Asking, Early
  <2> QED BY <1>0, <1>1, <2>1 DEF Talks, Planned, Sends
<1>4. /\ m.send_state \in Early
      /\ m.send_state = "ABORT" => m.send_rcpt = n
      /\ m.send_state = "MAIL" => FALSE
      /\ m.send_state = "RCPT" => m.send_rcpt < n
      /\ m.send_state \in {"DATA", "DOT"} => m.send_rcpt = n
      /\ m.send_rcpt <= n
  <2>1. CASE l.send_state = "MAIL"
    BY <1>1, <1>3, <2>1 DEF Early
  <2>2. CASE l.send_state = "RCPT"
    <3>1. CASE l.next_rcpt = n
      BY <1>3, <2>2, <3>1 DEF Early, AfterRcpt
    <3>2. CASE l.next_rcpt # n
      BY <1>0, <1>1, <1>3, <2>2, <3>2 DEF Early
    <3> QED BY <3>1, <3>2
  <2>3. CASE l.send_state = "DATA"
    BY <1>3, <2>3 DEF Early
  <2> QED BY <2>1, <2>2, <2>3
<1>5. SendPlace(m, s.list) = SendPlace(l, s.list) + 1 /\ SendPlace(l, s.list) \in Nat
      /\ RecvPlace(m, s.list) = RecvPlace(l, s.list)
  <2>1. RecvPlace(m, s.list) = RecvPlace(l, s.list)
    BY CountSame
  <2>2. CASE l.send_state = "MAIL"
    BY <1>3, <2>1, <2>2 DEF SendPlace, Place
  <2>3. CASE l.send_state = "RCPT"
    <3>1. CASE l.next_rcpt = n
      <4>1. m.send_state \in {"ABORT", "DATA"}
        BY <1>3, <2>3, <3>1 DEF AfterRcpt
      <4> QED BY <1>0, <1>1, <1>3, <2>1, <2>3, <3>1, <4>1 DEF SendPlace, Place
    <3>2. CASE l.next_rcpt # n
      BY <1>0, <1>1, <1>3, <2>1, <2>3, <3>2 DEF SendPlace, Place
    <3> QED BY <3>1, <3>2
  <2>4. CASE l.send_state = "DATA"
    BY <1>1, <1>3, <2>1, <2>4 DEF SendPlace, Place
  <2> QED BY <2>2, <2>3, <2>4
<1>6. PICK c \in CommandType : c = Command(l.send_state,
                       IF l.send_state = "RCPT" THEN s.list[l.send_rcpt + 1] ELSE NoRcpt)
  <2>1. l.send_state \in StateName
    BY DEF LoopType
  <2>2. CASE l.send_state = "RCPT"
    <3>1. s.list[l.send_rcpt + 1] \in Rcpt
      BY <1>0, <1>1, <1>3, <2>2, Listed
    <3> QED BY <2>1, <2>2, <3>1 DEF Command, CommandType
  <2>3. CASE l.send_state # "RCPT"
    BY <2>1, <2>3 DEF Command, CommandType
  <2> QED BY <2>2, <2>3
<1>7. c = CommandAt(s.list, SendPlace(l, s.list))
  <2>1. CASE l.send_state = "MAIL"
    <3>1. SendPlace(l, s.list) = 0
      BY <2>1 DEF SendPlace, Place
    <3> QED BY <1>6, <2>1, <3>1 DEF CommandAt
  <2>2. CASE l.send_state = "RCPT"
    <3>1. SendPlace(l, s.list) = l.send_rcpt + 1
      BY <2>2 DEF SendPlace, Place
    <3> QED BY <1>0, <1>1, <1>3, <1>6, <2>2, <3>1 DEF CommandAt
  <2>3. CASE l.send_state = "DATA"
    <3>1. SendPlace(l, s.list) = n + 1
      BY <1>1, <2>3 DEF SendPlace, Place
    <3>2. AfterRcpt = "DATA"
      BY <1>3, <2>3 DEF AfterRcpt
    <3> QED BY <1>1, <1>6, <2>3, <3>1, <3>2 DEF CommandAt
  <2> QED BY <2>1, <2>2, <2>3
<1>8. Asking(m, s.list, u.wire)
  <2>1. u.wire = v.wire \o <<c>>
    BY <1>6
  <2>2. Len(v.wire) \in Nat /\ Len(u.wire) = Len(v.wire) + 1 /\ u.wire[Len(v.wire) + 1] = c
        /\ \A k \in 1..Len(v.wire) : u.wire[k] = v.wire[k]
    BY <1>0, <2>1, AppendFacts
  <2>3. Len(v.wire) = SendPlace(l, s.list) - RecvPlace(l, s.list) /\ RecvPlace(l, s.list) \in Int
    <3>1. RecvPlace(l, s.list) \in Int
      BY <1>0, <1>1 DEF RecvPlace, Place
    <3> QED BY <1>2, <3>1 DEF Asking
  <2>4. Len(u.wire) = SendPlace(m, s.list) - RecvPlace(m, s.list)
    BY <1>5, <2>2, <2>3
  <2>5. ASSUME NEW k \in 1..Len(u.wire)
        PROVE  u.wire[k] = CommandAt(s.list, RecvPlace(m, s.list) + k - 1)
    <3>1. CASE k \in 1..Len(v.wire)
      BY <1>2, <1>5, <2>2, <3>1 DEF Asking
    <3>2. CASE k = Len(v.wire) + 1
      <4>1. RecvPlace(m, s.list) + k - 1 = SendPlace(l, s.list)
        BY <1>5, <2>2, <2>3, <3>2
      <4> QED BY <1>7, <2>2, <3>2, <4>1
    <3> QED BY <2>2, <3>1, <3>2
  <2>6. m.recv_state \in Early /\ ~m.except /\ m.recv_done = 0
        /\ (m.recv_state = "ABORT" => m.recv_rcpt = n)
    BY <1>1, <1>2 DEF Asking, SameReceiver
  <2> QED BY <1>1, <1>4, <2>4, <2>5, <2>6 DEF Asking
<1>9. Receiver(m, s)
  BY <1>0, ReceiverSame
<1>10. Sends(m, s.list) /\ Planned(m, s.list, se, "send")
  BY <1>1, <1>4 DEF Sends, Planned
<1>11. l.send_state \in Early /\ Agreed(m, s, u)
  <2>1. l.send_state \in Early
    BY <1>2 DEF Asking
  <2> QED BY <2>1, <1>4 DEF Talks, Agreed, SameReceiver
<1>12. m.next_rcpt <= n /\ m.send_rcpt <= n
  BY <1>4
<1>13. m.ctx # "body"
  BY DEF Talks
<1>14. ~s.hop_status /\ se.xfer
  BY DEF Talks
<1> QED BY <1>1, <1>8, <1>9, <1>10, <1>11, <1>12, <1>13, <1>14 DEF Talks

\* The end of the message content is sent: as many replies as LMTP wants.
LEMMA DotPlace ==
    ASSUME NEW s \in StType, NEW l \in LoopType, NEW se, NEW v \in SrvType,
           Talks(l, s, se, v, "emit"), l.send_state = "DOT"
    PROVE  /\ Asking(l, s.list, v.wire) /\ v.wire = <<>> /\ l.recv_state = "DOT" /\ l.nrcpt >= 0
           /\ l.recv_rcpt = Len(s.list) /\ l.send_rcpt = Len(s.list) /\ l.recv_done = 0 /\ ~l.except
           /\ ~Probe("RCPT") /\ ~Probe("DATA") /\ l.nrcpt = Len(l.survivors)
           /\ cfg.smtp_mode \/ l.nrcpt > 0
           /\ l.next_state \in {"QUIT", "LAST"} /\ l.next_rcpt = Len(s.list)
           /\ l.next_state = "QUIT" => ~Cached(se)
<1>1. /\ Receiver(l, s) /\ Sends(l, s.list) /\ v.wire \in Seq(CommandType)
      /\ Planned(l, s.list, se, "emit")
  BY DEF Talks, SrvType
<1>2. Asking(l, s.list, v.wire)
  BY DEF Talks, Aborting, Closing, Ending
<1>3. l.recv_state = "DOT" /\ l.nrcpt >= 0
      /\ l.next_state \in {"QUIT", "LAST"} /\ l.next_rcpt = l.send_rcpt
      /\ (l.next_state = "QUIT" => ~Cached(se))
  BY <1>1 DEF Planned
<1>4. v.wire = <<>>
  BY <1>1, <1>2, <1>3, AheadAsking
<1>5. l.send_rcpt = Len(s.list) /\ ~l.except /\ l.recv_done = 0
  BY <1>1, <1>2 DEF Sends, Asking
<1>6. l.recv_rcpt = Len(s.list) /\ ~Probe("RCPT") /\ (cfg.smtp_mode \/ l.nrcpt # 0)
  BY <1>1, <1>3 DEF Receiver, Receiving
<1>7. l.nrcpt = Len(l.survivors) /\ ~Probe("DATA") /\ l.nrcpt \in Nat
  BY <1>1, <1>3, Waiting
<1>8. cfg.smtp_mode \/ l.nrcpt > 0
  BY <1>6, <1>7
<1> QED BY <1>2, <1>3, <1>4, <1>5, <1>6, <1>7, <1>8

\* The content and its end are sent; with LMTP a reply for each survivor is owed.
LEMMA DotTalk ==
    ASSUME NEW s \in StType, NEW l \in LoopType, NEW se, NEW v \in SrvType,
           Talks(l, s, se, v, "emit"), l.send_state = "DOT",
           NEW m \in LoopType, SameReceiver(l, m), m.send_state = l.next_state,
           m.send_rcpt = l.next_rcpt, m.next_state = l.next_state, m.next_rcpt = l.next_rcpt,
           m.except = l.except, m.ctx = IF l.nrcpt > 0 THEN "body" ELSE l.ctx,
           NEW u, u.mail = v.mail, u.rcpts = v.rcpts,
           cfg.smtp_mode => u.wire = <<Command("DOT", NoRcpt)>>,
           ~cfg.smtp_mode => u.wire = [i \in 1..Len(v.rcpts) |-> Command("DOT", v.rcpts[i])]
    PROVE  Talks(m, s, se, u, "send")
<1>0. /\ Receiver(l, s) /\ Asking(l, s.list, v.wire) /\ l.recv_state = "DOT" /\ l.nrcpt >= 0
      /\ l.recv_rcpt = Len(s.list) /\ l.recv_done = 0 /\ ~l.except /\ l.nrcpt = Len(l.survivors)
      /\ cfg.smtp_mode \/ l.nrcpt > 0
      /\ l.next_state \in {"QUIT", "LAST"} /\ l.next_rcpt = Len(s.list)
      /\ l.next_state = "QUIT" => ~Cached(se)
  BY DotPlace DEF Talks
<1>1. m.recv_state = "DOT" /\ m.recv_rcpt = Len(s.list) /\ m.recv_done = 0 /\ m.nrcpt = l.nrcpt
      /\ m.survivors = l.survivors
  BY <1>0 DEF SameReceiver
<1>2. Ending(m, s.list, se)
  BY <1>0, <1>1 DEF Ending
<1>3. Len(v.rcpts) = Len(l.survivors)
      /\ \A i \in 1..Len(v.rcpts) : v.rcpts[i] = s.list[l.survivors[i]]
  BY <1>0 DEF Talks, Agreed, Asking
<1>4. Closing(m, s.list, u.wire, se)
  <2>1. CASE cfg.smtp_mode
    <3>1. Count(m, s.list) = 1 /\ Awaited(m, s.list, 1) = Command("DOT", NoRcpt)
      BY <1>1, <2>1 DEF Count, Awaited
    <3>2. Len(u.wire) = 1 /\ u.wire[1] = Command("DOT", NoRcpt)
      BY <2>1
    <3>3. \A k \in 1..1 : k = 1
      OBVIOUS
    <3>4. Owed(m, s.list, u.wire, se)
      BY <1>1, <3>1, <3>2 DEF Owed
    <3> QED BY <1>2, <3>1, <3>2, <3>3, <3>4 DEF Closing
  <2>2. CASE ~cfg.smtp_mode
    <3>1. PICK q \in Nat : q = l.nrcpt
      BY <1>0 DEF LoopType
    <3>2. Count(m, s.list) = q
      BY <1>1, <2>2, <3>1 DEF Count
    <3>3. Len(u.wire) = q /\ \A k \in 1..q : u.wire[k] = Command("DOT", v.rcpts[k])
      <4>1. u.wire = [i \in 1..q |-> Command("DOT", v.rcpts[i])]
        BY <1>0, <1>3, <2>2, <3>1
      <4> QED BY <4>1
    <3>4. ASSUME NEW k \in 1..q
          PROVE  u.wire[k] = Awaited(m, s.list, k)
      <4>1. Awaited(m, s.list, k) = Command("DOT", s.list[m.survivors[m.recv_done + k]])
        BY <1>1, <2>2 DEF Awaited
      <4>2. m.recv_done + k = k
        BY <1>1
      <4> QED BY <4>1, <4>2, <1>0, <1>1, <1>3, <3>1, <3>3
    <3>5. Owed(m, s.list, u.wire, se)
      BY <1>1, <3>2, <3>3 DEF Owed
    <3> QED BY <1>2, <3>2, <3>4, <3>5 DEF Closing
  <2> QED BY <2>1, <2>2
<1>5. Receiver(m, s)
  BY <1>0, ReceiverSame
<1>6. Sends(m, s.list) /\ Planned(m, s.list, se, "send")
  BY <1>0 DEF Sends, Planned
<1>7. Agreed(m, s, u)
  <2>1. /\ Len(u.rcpts) = Len(m.survivors)
        /\ \A i \in 1..Len(u.rcpts) : u.rcpts[i] = s.list[m.survivors[i]]
    BY <1>1, <1>3
  <2> QED BY <2>1, <1>1 DEF Agreed
<1>8. m.next_rcpt <= Len(s.list) /\ m.send_rcpt <= Len(s.list)
  BY DEF Talks
<1>9. m.ctx = "body" => m.recv_state = "DOT" /\ m.send_state \in {"QUIT", "LAST"} /\ m.nrcpt > 0
  BY <1>0, <1>1 DEF Talks
<1>10. ~s.hop_status /\ se.xfer
  BY DEF Talks
<1> QED BY <1>4, <1>5, <1>6, <1>7, <1>8, <1>9, <1>10 DEF Talks

\* RSET after a change of plans, or at the end of a probe.
LEMMA RsetTalk ==
    ASSUME NEW s \in StType, NEW l \in LoopType, NEW se, NEW v \in SrvType,
           Talks(l, s, se, v, "emit"), l.send_state = "ABORT",
           NEW m \in LoopType, SameReceiver(l, m), m.send_state = l.next_state,
           m.send_rcpt = l.next_rcpt, m.next_state = l.next_state, m.next_rcpt = l.next_rcpt,
           m.except = l.except, m.ctx = l.ctx,
           NEW u, u.mail = v.mail, u.rcpts = v.rcpts,
           u.wire = v.wire \o <<Command("ABORT", NoRcpt)>>
    PROVE  Talks(m, s, se, u, "send")
<1>0. /\ Receiver(l, s) /\ Sends(l, s.list) /\ v.wire \in Seq(CommandType)
      /\ l.send_rcpt \in Nat /\ l.recv_rcpt \in Nat
  BY DEF Talks, SrvType, LoopType
<1>1. PICK n \in Nat : n = Len(s.list) /\ n > 0
  BY <1>0, Listed DEF Receiver, Receiving
<1>2. /\ m.send_state \in {"QUIT", "LAST"} /\ m.send_rcpt = l.send_rcpt
      /\ m.send_state = "QUIT" => ~Cached(se)
  BY DEF Talks, Planned
<1>3. PICK c \in CommandType : c = Command("ABORT", NoRcpt)
  BY DEF CommandType, Command, StateName
<1>4. Len(v.wire) \in Nat /\ Len(u.wire) = Len(v.wire) + 1 /\ u.wire[Len(v.wire) + 1] = c
      /\ \A k \in 1..Len(v.wire) : u.wire[k] = v.wire[k]
  <2>1. u.wire = v.wire \o <<c>>
    BY <1>3
  <2> QED BY <1>0, <2>1, AppendFacts
<1>5. Closing(m, s.list, u.wire, se)
  <2>1. CASE Aborting(l, v.wire)
    <3>1. m.recv_state = "ABORT" /\ m.recv_rcpt = m.send_rcpt /\ ~m.except
      BY <1>2, <2>1 DEF Aborting, SameReceiver
    <3>2. Count(m, s.list) = 1 /\ Awaited(m, s.list, 1) = c
      BY <1>3, <3>1 DEF Count, Awaited
    <3>3. Len(u.wire) = 1 /\ u.wire[1] = c
      <4>1. Len(v.wire) = 0
        BY <2>1 DEF Aborting
      <4> QED BY <1>4, <4>1
    <3>4. \A k \in 1..1 : k = 1
      OBVIOUS
    <3>5. Ending(m, s.list, se)
      BY <1>2, <3>1 DEF Ending
    <3>6. Owed(m, s.list, u.wire, se)
      BY <3>1, <3>2, <3>3 DEF Owed
    <3> QED BY <3>2, <3>3, <3>4, <3>5, <3>6 DEF Closing
  <2>2. CASE Asking(l, s.list, v.wire)
    <3>1. Probe("RCPT") /\ l.send_rcpt = n /\ l.recv_state \in {"MAIL", "RCPT", "ABORT"} /\ ~l.except
      BY <1>1, <2>2 DEF Asking, Early
    <3>2. SendPlace(l, s.list) = n + 1
      BY <1>1 DEF SendPlace, Place
    <3>4. RecvPlace(m, s.list) = RecvPlace(l, s.list) /\ RecvPlace(l, s.list) \in Nat
          /\ (l.recv_state = "ABORT" => RecvPlace(l, s.list) = n + 1)
      <4>1. RecvPlace(m, s.list) = RecvPlace(l, s.list)
        BY CountSame
      <4> QED BY <4>1, <1>0, <1>1, <3>1 DEF RecvPlace, Place
    <3>3. Len(v.wire) = n + 1 - RecvPlace(l, s.list)
          /\ \A k \in 1..Len(v.wire) : v.wire[k] = CommandAt(s.list, RecvPlace(l, s.list) + k - 1)
      <4>1. Len(v.wire) = SendPlace(l, s.list) - RecvPlace(l, s.list)
        BY <2>2 DEF Asking
      <4>2. \A k \in 1..Len(v.wire) : v.wire[k] = CommandAt(s.list, RecvPlace(l, s.list) + k - 1)
        BY <2>2 DEF Asking
      <4>3. Len(v.wire) = n + 1 - RecvPlace(l, s.list)
        BY <3>2, <3>4, <4>1, <1>1
      <4> QED BY <4>2, <4>3
    <3>5. CommandAt(s.list, n + 1) = c
      BY <1>1, <1>3, <3>1 DEF CommandAt, AfterRcpt
    <3>6. Count(m, s.list) = n + 2 - RecvPlace(l, s.list)
      <4>1. CASE l.recv_state = "ABORT"
        BY <1>1, <3>4, <4>1 DEF Count, SameReceiver
      <4>2. CASE l.recv_state # "ABORT"
        BY <1>1, <3>1, <3>4, <4>2 DEF Count, SameReceiver
      <4> QED BY <4>1, <4>2
    <3>7. Len(u.wire) = Count(m, s.list)
      BY <1>4, <3>3, <3>4, <3>6
    <3>8. ASSUME NEW k \in 1..Count(m, s.list)
          PROVE  u.wire[k] = Awaited(m, s.list, k)
      <4>1. CASE k \in 1..Len(v.wire)
        <5>1. l.recv_state # "ABORT"
          BY <3>3, <3>4, <4>1
        <5>2. Awaited(m, s.list, k) = CommandAt(s.list, RecvPlace(l, s.list) + k - 1)
          BY <5>1, <3>1, <3>4 DEF Awaited, SameReceiver
        <5> QED BY <1>4, <3>3, <4>1, <5>2
      <4>2. CASE k = Len(v.wire) + 1
        <5>1. RecvPlace(l, s.list) + k - 1 = n + 1
          BY <1>1, <3>3, <3>4, <4>2
        <5>2. CASE l.recv_state = "ABORT"
          BY <1>3, <1>4, <4>2, <5>2 DEF Awaited, SameReceiver
        <5>3. CASE l.recv_state # "ABORT"
          <6>1. Awaited(m, s.list, k) = CommandAt(s.list, RecvPlace(l, s.list) + k - 1)
            BY <5>3, <3>1, <3>4 DEF Awaited, SameReceiver
          <6> QED BY <1>4, <3>5, <4>2, <5>1, <6>1
        <5> QED BY <5>2, <5>3
      <4>3. k \in 1..(Len(v.wire) + 1)
        BY <1>4, <3>7
      <4> QED BY <1>4, <4>1, <4>2, <4>3
    <3>9. Ending(m, s.list, se)
      <4>1. l.recv_state = "ABORT" => l.recv_rcpt = n
        BY <1>1, <2>2 DEF Asking
      <4> QED BY <1>1, <1>2, <3>1, <4>1 DEF Ending, SameReceiver
    <3>10. Owed(m, s.list, u.wire, se)
      BY <3>1, <3>7 DEF Owed, SameReceiver
    <3> QED BY <3>8, <3>9, <3>10 DEF Closing
  <2> QED BY <2>1, <2>2 DEF Talks, Closing, Ending
<1>6. Receiver(m, s)
  BY <1>0, ReceiverSame
<1>7. Sends(m, s.list) /\ Planned(m, s.list, se, "send")
  BY <1>2 DEF Sends, Planned
<1>8. m.next_rcpt <= n /\ m.send_rcpt <= n
  BY <1>1 DEF Talks
<1>9. m.ctx # "body"
  BY DEF Talks
<1>10. Agreed(m, s, u)
  <2>1. cfg.smtp_mode \/ m.send_state \in Early => cfg.smtp_mode
    BY <1>2 DEF Early
  <2> QED BY <2>1 DEF Talks, Agreed, SameReceiver
<1>11. ~s.hop_status /\ se.xfer
  BY DEF Talks
<1> QED BY <1>1, <1>5, <1>6, <1>7, <1>8, <1>9, <1>10, <1>11 DEF Talks

\* QUIT is sent.
LEMMA QuitSentTalk ==
    ASSUME NEW s \in StType, NEW l \in LoopType, NEW se, NEW v \in SrvType,
           Talks(l, s, se, v, "emit"), l.send_state = "QUIT",
           NEW m \in LoopType, SameReceiver(l, m), m.send_state = l.next_state,
           m.send_rcpt = l.next_rcpt, m.next_state = l.next_state, m.next_rcpt = l.next_rcpt,
           m.except = l.except, m.ctx = l.ctx,
           NEW u, u.mail = v.mail, u.rcpts = v.rcpts,
           u.wire = v.wire \o <<Command("QUIT", NoRcpt)>>
    PROVE  Talks(m, s, se, u, "send")
<1>0. /\ Receiver(l, s) /\ v.wire \in Seq(CommandType)
  BY DEF Talks, SrvType
<1>1. Closing(l, s.list, v.wire, se)
  BY DEF Talks, Asking, Aborting, Early
<1>2. Ending(l, s.list, se) /\ ~Cached(se) /\ ~l.except
  BY <1>1 DEF Closing, Ending
<1>3. m.send_state = "LAST" /\ m.send_rcpt = l.send_rcpt /\ l.next_rcpt = l.send_rcpt
  BY DEF Talks, Planned
<1>4. PICK c \in CommandType : c = Command("QUIT", NoRcpt)
  BY DEF CommandType, Command, StateName
<1>5. Len(v.wire) \in Nat /\ Len(u.wire) = Len(v.wire) + 1 /\ u.wire[Len(v.wire) + 1] = c
      /\ \A k \in 1..Len(v.wire) : u.wire[k] = v.wire[k]
  <2>1. u.wire = v.wire \o <<c>>
    BY <1>4
  <2> QED BY <1>0, <2>1, AppendFacts
<1>6. Count(m, s.list) = Count(l, s.list) /\ \A k : Awaited(m, s.list, k) = Awaited(l, s.list, k)
  <2>1. PICK L : L = s.list
    OBVIOUS
  <2>2. Count(m, L) = Count(l, L) /\ \A k : Awaited(m, L, k) = Awaited(l, L, k)
    <3>1. Count(m, L) = Count(l, L)
      BY CountSame
    <3>2. ASSUME NEW k PROVE Awaited(m, L, k) = Awaited(l, L, k)
      BY AwaitedSame
    <3> QED BY <3>1, <3>2
  <2> QED BY <2>1, <2>2
<1>7. Len(v.wire) = Count(l, s.list)
  BY <1>1, <1>2 DEF Closing, Owed
<1>8. Closing(m, s.list, u.wire, se)
  <2>1. Ending(m, s.list, se)
    BY <1>2, <1>3 DEF Ending, SameReceiver
  <2>2. Owed(m, s.list, u.wire, se)
    BY <1>2, <1>3, <1>4, <1>5, <1>6, <1>7 DEF Owed
  <2>3. ASSUME NEW k \in 1..Count(m, s.list)
        PROVE  u.wire[k] = Awaited(m, s.list, k)
    <3>1. k \in 1..Len(v.wire) /\ k \in 1..Count(l, s.list) /\ k <= Len(v.wire)
      BY <1>5, <1>6, <1>7
    <3>2. v.wire[k] = Awaited(l, s.list, k)
      BY <1>1, <3>1 DEF Closing
    <3> QED BY <1>5, <1>6, <3>1, <3>2
  <2> QED BY <2>1, <2>2, <2>3 DEF Closing
<1>9. Receiver(m, s)
  BY <1>0, ReceiverSame
<1>10. Sends(m, s.list) /\ Planned(m, s.list, se, "send")
  BY <1>3 DEF Sends, Planned
<1>11. Agreed(m, s, u)
  <2>1. cfg.smtp_mode \/ m.send_state \in Early => cfg.smtp_mode
    BY <1>3 DEF Early
  <2> QED BY <2>1 DEF Talks, Agreed, SameReceiver
<1>12. m.ctx = "body" => m.recv_state = "DOT" /\ m.send_state \in {"QUIT", "LAST"} /\ m.nrcpt > 0
  BY <1>3 DEF Talks, SameReceiver
<1>13. m.next_rcpt <= Len(s.list) /\ m.send_rcpt <= Len(s.list)
  BY <1>3 DEF Talks
<1>14. ~s.hop_status /\ se.xfer
  BY DEF Talks
<1> QED BY <1>8, <1>9, <1>10, <1>11, <1>12, <1>13, <1>14 DEF Talks

\* The connection is lost while the message content is sent, or with the
\* command after it: the replies about the message are still read.
LEMMA LostContentTalk ==
    ASSUME NEW s \in StType, NEW l \in LoopType, NEW se, NEW v \in SrvType,
           Talks(l, s, se, v, "emit"), l.send_state # "LAST",
           (l.send_state = "DOT" /\ l.nrcpt > 0) \/ l.ctx = "body",
           NEW m \in LoopType, SameReceiver(l, m), m.send_state = "LAST",
           m.send_rcpt = l.next_rcpt, m.next_state = "LAST", m.next_rcpt = l.next_rcpt,
           m.except, m.ctx = "body",
           NEW sf, sf.xfer, ~Cached(sf)
    PROVE  Talks(m, s, sf, v, "send")
<1>0. /\ Receiver(l, s) /\ v.wire \in Seq(CommandType) /\ l.nrcpt \in Int /\ l.recv_done \in Nat
  BY DEF Talks, SrvType, LoopType
<1>1. l.recv_state = "DOT" /\ l.nrcpt > 0 /\ l.recv_rcpt = l.next_rcpt
      /\ (v.wire = <<>> \/ Len(v.wire) = Count(l, s.list))
      /\ (v.wire = <<>> \/ Closing(l, s.list, v.wire, se))
  <2>1. CASE l.send_state = "DOT"
    <3>1. l.recv_state = "DOT" /\ v.wire = <<>> /\ l.recv_rcpt = l.next_rcpt
      BY <2>1, DotPlace
    <3>2. l.nrcpt > 0
      BY <2>1 DEF Talks
    <3> QED BY <3>1, <3>2
  <2>2. CASE l.send_state # "DOT"
    <3>1. l.recv_state = "DOT" /\ l.nrcpt > 0 /\ l.send_state = "QUIT"
      BY <2>2 DEF Talks
    <3>2. Closing(l, s.list, v.wire, se)
      BY <3>1 DEF Talks, Asking, Aborting, Early
    <3>3. ~l.except /\ l.recv_rcpt = l.send_rcpt
      BY <3>1, <3>2 DEF Closing, Ending
    <3>4. Len(v.wire) = Count(l, s.list)
      BY <3>1, <3>2, <3>3 DEF Closing, Owed
    <3>5. l.next_rcpt = l.send_rcpt
      BY <3>1 DEF Talks, Planned
    <3> QED BY <3>1, <3>2, <3>3, <3>4, <3>5
  <2> QED BY <2>1, <2>2
<1>2. m.recv_state = "DOT" /\ m.nrcpt = l.nrcpt /\ m.nrcpt > 0 /\ m.recv_rcpt = m.send_rcpt
  BY <1>1 DEF SameReceiver
<1>3. Count(m, s.list) = Count(l, s.list) /\ \A k : Awaited(m, s.list, k) = Awaited(l, s.list, k)
  <2>1. PICK L : L = s.list
    OBVIOUS
  <2>2. Count(m, L) = Count(l, L) /\ \A k : Awaited(m, L, k) = Awaited(l, L, k)
    <3>1. Count(m, L) = Count(l, L)
      BY CountSame
    <3>2. ASSUME NEW k PROVE Awaited(m, L, k) = Awaited(l, L, k)
      BY AwaitedSame
    <3> QED BY <3>1, <3>2
  <2> QED BY <2>1, <2>2
<1>4. Closing(m, s.list, v.wire, sf)
  <2>1. Ending(m, s.list, sf)
    BY <1>0, <1>1, <1>2 DEF Ending
  <2>2. Owed(m, s.list, v.wire, sf)
    BY <1>1, <1>2, <1>3 DEF Owed
  <2>3. ASSUME NEW k \in 1..Count(m, s.list), k <= Len(v.wire)
        PROVE  v.wire[k] = Awaited(m, s.list, k)
    <3>1. CASE v.wire = <<>>
      BY <2>3, <3>1
    <3>2. CASE Closing(l, s.list, v.wire, se)
      BY <1>3, <2>3, <3>2 DEF Closing
    <3> QED BY <1>1, <3>1, <3>2
  <2> QED BY <2>1, <2>2, <2>3 DEF Closing
<1>5. Receiver(m, s)
  BY <1>0, ReceiverSame
<1>6. Sends(m, s.list) /\ Planned(m, s.list, sf, "send")
  BY DEF Sends, Planned
<1>7. Agreed(m, s, v)
  <2>1. cfg.smtp_mode \/ m.send_state \in Early => cfg.smtp_mode
    BY DEF Early
  <2> QED BY <2>1 DEF Talks, Agreed, SameReceiver
<1>8. m.next_rcpt <= Len(s.list) /\ m.send_rcpt <= Len(s.list)
  BY DEF Talks
<1>9. ~s.hop_status
  BY DEF Talks
<1> QED BY <1>2, <1>4, <1>5, <1>6, <1>7, <1>8, <1>9 DEF Talks

\* The end of the conversation.
LEMMA ClosedTalk ==
    ASSUME NEW s, NEW l, NEW se, NEW v, NEW p, Talks(l, s, se, v, p), Closed(l)
    PROVE  Unmarked(s) = {}
<1>1. Open(l, Len(s.list)) = {}
  BY DEF Open
<1> QED BY <1>1 DEF Talks, Receiver, Undecided, At

\* Nothing is left to send: everybody is decided, and the wire of a connection that
\* will be cached is empty.
LEMMA LastTalk ==
    ASSUME NEW s \in StType, NEW l \in LoopType, NEW se, NEW v \in SrvType,
           Talks(l, s, se, v, "emit"), l.recv_state = "LAST"
    PROVE  /\ Unmarked(s) = {} /\ ~s.hop_status
           /\ l.send_state = "LAST" /\ Cached(se) => v.wire = <<>>
           /\ l.send_state # "LAST" => l.send_state = "QUIT" /\ ~Cached(se)
<1>1. Unmarked(s) = {}
  BY ClosedTalk DEF Closed
<1>2. Closing(l, s.list, v.wire, se)
  BY DEF Talks, Asking, Aborting, Early
<1>3. l.send_state # "LAST" => l.send_state = "QUIT" /\ ~Cached(se)
  BY <1>2 DEF Closing, Ending
<1>4. l.send_state = "LAST" /\ Cached(se) => v.wire = <<>>
  <2>1. Count(l, s.list) = 0
    BY DEF Count
  <2>2. Cached(se) => Len(v.wire) = 0
    BY <1>2, <2>1 DEF Closing, Owed
  <2>3. v.wire \in Seq(CommandType)
    BY DEF SrvType
  <2> QED BY <2>2, <2>3
<1> QED BY <1>1, <1>3, <1>4 DEF Talks

-----------------------------------------------------------------------------
(***************************************************************************)
(* The steps of smtp_loop().                                               *)
(***************************************************************************)
Fine(s, se, l, v, p) ==
    /\ s \in StType /\ se \in SesType /\ l \in LoopType /\ v \in SrvType
    /\ Account(s) /\ Taken(s, v)
    /\ p \in LoopPc => Talks(l, s, se, v, p) /\ Fair(s)
    /\ p = "cleanup" =>
          /\ Unmarked(s) = {} /\ Fair(s)
          /\ l = NewLoop
          /\ Cached(se) /\ ~se.broken => v.wire = <<>>

\* What the caller of smtp_loop() relies on.
Keeps(s, se, t, sf, p) ==
    /\ t.list = s.list
    /\ sf.addr = se.addr /\ sf.xfer = se.xfer /\ sf.tls = se.tls
    /\ \/ t.final_server = s.final_server /\ sf.retry_plain = se.retry_plain
       \/ se.tls /\ sf.retry_plain
    /\ p \in LoopPc \cup {"cleanup"}

Moves(s, se, t, sf, m, u, p) == Fine(t, sf, m, u, p) /\ Keeps(s, se, t, sf, p)

\* DONT_CACHE_THIS_SESSION changes nothing but that.
LEMMA SessionFacts ==
    ASSUME NEW se \in SesType
    PROVE  /\ DontCache(se) \in SesType /\ ~Cached(DontCache(se))
           /\ DontCache(se).addr = se.addr /\ DontCache(se).xfer = se.xfer
           /\ DontCache(se).tls = se.tls /\ DontCache(se).retry_plain = se.retry_plain
           /\ DontCache(se).broken = se.broken
BY DEF DontCache, Cached, SesType

\* Nothing changes in a session but whether it can be cached.
Dims(se, sf) ==
    /\ sf \in SesType /\ (Cached(sf) => Cached(se))
    /\ sf.addr = se.addr /\ sf.xfer = se.xfer /\ sf.tls = se.tls
    /\ sf.retry_plain = se.retry_plain /\ sf.broken = se.broken

LEMMA DimsOK ==
    ASSUME NEW se \in SesType, NEW sf, sf = se \/ sf = DontCache(se)
    PROVE  Dims(se, sf)
BY SessionFacts DEF Dims

LEMMA DimsTwice ==
    ASSUME NEW se, NEW sf, NEW sg, Dims(se, sf), Dims(sf, sg)
    PROVE  Dims(se, sg)
BY DEF Dims

\* The sender's half of an iteration: the choice of the next state.
LEMMA LoopTopOK ==
    ASSUME ProtoInv, LoopTop
    PROVE  Moves(st, ses, st', ses', lp', srv', pc')
<1>0. /\ st \in StType /\ ses \in SesType /\ lp \in LoopType /\ srv \in SrvType
      /\ Account(st) /\ Taken(st, srv) /\ Fair(st)
      /\ Talks(lp, st, ses, srv, "send")
      /\ pc = "send" /\ st' = st /\ srv' = srv
  BY DEF ProtoInv, TalkType, LoopTop, LoopPc, Talking
<1>1. PICK se \in IF lp.send_state \in {"DOT", "ABORT"} THEN MayExpire(ses) ELSE {ses} :
          /\ ses' = IF lp.send_state = "QUIT" /\ Cached(se) THEN DontCache(se) ELSE se
          /\ lp' = [lp EXCEPT !.next_state = NextState(lp, se), !.next_rcpt = NextRcpt(lp)]
  BY DEF LoopTop
<1>2. Dims(ses, se)
  BY <1>0, <1>1, DimsOK DEF MayExpire
<1>3. Dims(ses, ses') /\ (lp.send_state = "QUIT" => ~Cached(ses'))
      /\ (lp.send_state # "QUIT" => ses' = se)
  <2>1. se \in SesType
    BY <1>2 DEF Dims
  <2>2. CASE lp.send_state = "QUIT" /\ Cached(se)
    <3>1. ses' = DontCache(se)
      BY <1>1, <2>2
    <3>2. Dims(se, ses')
      BY <2>1, <3>1, DimsOK
    <3> QED BY <1>2, <2>1, <2>2, <3>1, <3>2, DimsTwice, SessionFacts
  <2>3. CASE ~(lp.send_state = "QUIT" /\ Cached(se))
    BY <1>1, <1>2, <2>3
  <2> QED BY <2>2, <2>3
<1>4. PICK ns \in StateName : ns = NextState(lp, se)
  <2>1. lp.next_state \in StateName
    BY <1>0 DEF LoopType
  <2>2. lp.next_state \in StateName /\ "RCPT" \in StateName /\ AfterRcpt \in StateName
        /\ "DOT" \in StateName /\ AfterMail(se) \in StateName /\ "LAST" \in StateName
    BY <2>1 DEF AfterRcpt, AfterMail, StateName
  <2> QED BY <2>2 DEF NextState
<1>5. PICK nr \in Nat : nr = NextRcpt(lp)
  BY <1>0 DEF NextRcpt, LoopType
<1>6. PICK m : m = [lp EXCEPT !.next_state = ns, !.next_rcpt = nr]
  OBVIOUS
<1>7. lp' = m
  BY <1>1, <1>4, <1>5, <1>6
<1>8. /\ m \in LoopType /\ m.send_state = lp.send_state /\ m.send_rcpt = lp.send_rcpt
      /\ m.except = lp.except /\ m.ctx = lp.ctx /\ m.next_state = ns /\ m.next_rcpt = nr
      /\ m.recv_state = lp.recv_state /\ m.recv_rcpt = lp.recv_rcpt /\ m.nrcpt = lp.nrcpt
      /\ m.survivors = lp.survivors /\ m.recv_done = lp.recv_done
      /\ m.mail_from_rejected = lp.mail_from_rejected
  BY <1>0, <1>4, <1>5, <1>6 DEF LoopType
<1>9. SameReceiver(lp, m)
  BY <1>8 DEF SameReceiver
<1>10. NextChosen(lp, m, st, ses')
  <2>1. lp.send_state = "MAIL" => ns = "RCPT"
    BY <1>4 DEF NextState
  <2>2. lp.send_state = "RCPT" => ns = IF lp.send_rcpt + 1 = Len(st.list) THEN AfterRcpt ELSE lp.next_state
    BY <1>4 DEF NextState
  <2>3. lp.send_state = "DATA" => ns = "DOT"
    BY <1>4 DEF NextState
  <2>4. lp.send_state \in {"DOT", "ABORT"} => ns = AfterMail(se)
    BY <1>4 DEF NextState
  <2>5. lp.send_state = "QUIT" => ns = "LAST"
    BY <1>4 DEF NextState
  <2> QED BY <1>3, <1>5, <1>8, <2>1, <2>2, <2>3, <2>4, <2>5 DEF NextChosen, NextRcpt, AfterMail
<1>11. pc' \in {"recv", "emit"} /\ (pc' = "emit" => lp.send_state \notin {"DOT", "LAST"})
  BY DEF LoopTop
<1>12. ses'.xfer /\ (Cached(ses') => Cached(ses)) /\ ses' \in SesType
  BY <1>0, <1>3 DEF Dims, Talks
<1>13. Talks(m, st, ses', srv, pc')
  BY <1>0, <1>8, <1>9, <1>10, <1>11, <1>12, TopTalk
<1>14. Fine(st, ses', m, srv, pc')
  BY <1>0, <1>8, <1>11, <1>12, <1>13 DEF Fine
<1>15. Keeps(st, ses, st, ses', pc')
  BY <1>3, <1>11 DEF Keeps, Dims, LoopPc
<1> QED BY <1>0, <1>7, <1>14, <1>15 DEF Moves

\* The server's record of what it took does not change while nobody is sent.
LEMMA TakenSame ==
    ASSUME NEW s, NEW t, NEW v, NEW u, Taken(s, v), t.fate["sent"] = s.fate["sent"],
           u.accepted = v.accepted, u.unseen = v.unseen
    PROVE  Taken(t, u)
BY DEF Taken

\* End-of-data is sent only when there is something to deliver.
LEMMA DotsInWire ==
    ASSUME cfg \in Setups, NEW s \in StType, NEW l \in LoopType, NEW se, NEW v \in SrvType, NEW p,
           Talks(l, s, se, v, p), NEW i \in 1..Len(v.wire), v.wire[i].cmd = "DOT"
    PROVE  Probe("no") /\ l.recv_state = "DOT" /\ (cfg.smtp_mode \/ v.wire[i].rcpt \in Rcpt)
<1>0. /\ Receiver(l, s) /\ v.wire \in Seq(CommandType) /\ Len(v.wire) \in Nat
      /\ (Asking(l, s.list, v.wire) \/ Aborting(l, v.wire) \/ Closing(l, s.list, v.wire, se))
      /\ l.recv_state \in StateName
  BY DEF Talks, SrvType, LoopType
<1>1. ASSUME NEW q PROVE CommandAt(s.list, q).cmd # "DOT"
  <2>1. CASE q = 0
    BY <2>1 DEF CommandAt, Command
  <2>2. CASE q # 0 /\ q <= Len(s.list)
    BY <2>2 DEF CommandAt, Command
  <2>3. CASE q # 0 /\ ~(q <= Len(s.list))
    BY <2>3 DEF CommandAt, Command, AfterRcpt
  <2> QED BY <2>1, <2>2, <2>3
<1>2. ~Asking(l, s.list, v.wire)
  <2>1. ASSUME Asking(l, s.list, v.wire) PROVE v.wire[i] = CommandAt(s.list, RecvPlace(l, s.list) + i - 1)
    BY <2>1 DEF Asking
  <2> QED BY <1>1, <2>1
<1>3. ~Aborting(l, v.wire)
  BY <1>0 DEF Aborting
<1>4. Closing(l, s.list, v.wire, se) /\ Ending(l, s.list, se)
  BY <1>0, <1>2, <1>3 DEF Closing
<1>5. PICK c : c = Count(l, s.list)
  OBVIOUS
<1>6. c \in Nat
  BY <1>0, <1>4, <1>5, Counts
<1>7. i \in 1..c
  <2>1. CASE Len(v.wire) = c
    BY <2>1
  <2>2. CASE Len(v.wire) = c + 1 /\ v.wire[Len(v.wire)] = Command("QUIT", NoRcpt)
    <3>1. i # c + 1
      BY <2>2 DEF Command
    <3> QED BY <1>6, <2>2, <3>1
  <2>3. CASE v.wire = <<>>
    BY <2>3
  <2> QED BY <1>4, <1>5, <2>1, <2>2, <2>3 DEF Closing, Owed
<1>8. v.wire[i] = Awaited(l, s.list, i)
  <2>1. i <= Len(v.wire)
    BY <1>0
  <2> QED BY <1>4, <1>5, <1>7, <2>1 DEF Closing
<1>9. l.recv_state = "DOT"
  <2>1. CASE l.recv_state \in {"MAIL", "RCPT"}
    <3>1. Awaited(l, s.list, i) = CommandAt(s.list, RecvPlace(l, s.list) + i - 1)
      BY <2>1 DEF Awaited
    <3> QED BY <1>1, <1>8, <3>1
  <2>2. CASE l.recv_state \notin {"MAIL", "RCPT", "DOT"}
    <3>1. Awaited(l, s.list, i) = Command("ABORT", NoRcpt)
      BY <2>2 DEF Awaited
    <3> QED BY <1>8, <3>1 DEF Command
  <2> QED BY <2>1, <2>2
<1>10. l.nrcpt >= 0
  BY <1>4, <1>9 DEF Ending
<1>11. ~Probe("RCPT") /\ ~Probe("DATA")
  BY <1>0, <1>9, <1>10, Waiting
<1>12. Probe("no")
  <2>1. cfg \in Setup
    BY SetupsAssumption
  <2>2. cfg.vrfy \in {"no", "RCPT", "DATA"}
    BY <2>1 DEF Setup
  <2> QED BY <2>2, <1>11 DEF Probe
<1>13. cfg.smtp_mode \/ v.wire[i].rcpt \in Rcpt
  <2> SUFFICES ASSUME ~cfg.smtp_mode PROVE v.wire[i].rcpt \in Rcpt
    OBVIOUS
  <2>1. v.wire[i] = Command("DOT", s.list[l.survivors[l.recv_done + i]])
    BY <1>8, <1>9 DEF Awaited
  <2>2. c = l.nrcpt - l.recv_done /\ l.nrcpt \in Int /\ l.recv_done \in Nat
    BY <1>5, <1>9 DEF Count, LoopType
  <2>3. l.recv_done + i \in 1..l.nrcpt
    BY <1>7, <2>2
  <2>4. l.survivors[l.recv_done + i] \in 1..Len(s.list)
    BY <1>0, <1>9, <1>10, <2>3, Waiting
  <2> QED BY <2>1, <2>4, Listed DEF Command
<1> QED BY <1>9, <1>12, <1>13

\* What a server may have accepted, unknown to the client.
LEMMA LostOK ==
    ASSUME ProtoInv, pc \in LoopPc, NEW R \in LostReplies, NEW t, t.fate["sent"] = st.fate["sent"],
           NEW u, u = Unseen(R)
    PROVE  u \in SrvType /\ Taken(t, u)
<1>0. /\ cfg \in Setups /\ st \in StType /\ lp \in LoopType /\ srv \in SrvType /\ Taken(st, srv)
      /\ Talks(lp, st, ses, srv, pc)
  BY DEF ProtoInv, TalkType, Talking
<1>1. DOMAIN srv.wire = 1..Len(srv.wire)
  BY <1>0 DEF SrvType
<1>2. PICK dots : dots = {i \in DOMAIN srv.wire : srv.wire[i].cmd = "DOT"}
  OBVIOUS
<1>3. \A i \in dots : Probe("no") /\ (cfg.smtp_mode \/ srv.wire[i].rcpt \in Rcpt)
  BY <1>0, <1>1, <1>2, DotsInWire
<1>4. R \subseteq Rcpt /\ (~Probe("no") => R = {})
  <2>1. CASE cfg.smtp_mode
    <3>1. R \in {{}} \cup {ToSet(srv.rcpts) : i \in dots}
      BY <1>2, <2>1 DEF LostReplies
    <3>2. ToSet(srv.rcpts) \subseteq Rcpt
      BY <1>0 DEF SrvType, ToSet
    <3> QED BY <1>3, <3>1, <3>2
  <2>2. CASE ~cfg.smtp_mode
    <3>1. R \subseteq {srv.wire[i].rcpt : i \in dots}
      BY <1>2, <2>2 DEF LostReplies
    <3> QED BY <1>3, <2>2, <3>1
  <2> QED BY <2>1, <2>2
<1>5. /\ u \in SrvType /\ u.wire = srv.wire /\ u.accepted = srv.accepted
      /\ u.unseen = srv.unseen \cup R
  BY <1>0, <1>4 DEF Unseen, SrvType
<1>6. Taken(t, u)
  BY <1>0, <1>4, <1>5 DEF Taken
<1> QED BY <1>5, <1>6

\* The local variables at the start of smtp_loop().
LEMMA NewLoopType == NewLoop \in LoopType
BY DEF NewLoop, LoopType, StateName

\* The RETURN macro.
LEMMA ReturnOK ==
    ASSUME NEW s \in StType, Account(s), Unmarked(s) = {}, Fair(s),
           NEW se \in SesType, NEW l \in LoopType, NEW result \in {0, -1},
           result = 0 => ~s.hop_status,
           Return(s, se, l, result)
    PROVE  /\ st' \in StType /\ Account(st') /\ Unmarked(st') = {} /\ Fair(st')
           /\ st'.list = s.list /\ st'.final_server = s.final_server /\ st'.fate = s.fate
           /\ Dims(se, ses') /\ (l.recv_state = "LAST" => ses' = se)
           /\ (l.recv_state # "LAST" => ~Cached(ses'))
           /\ lp' = NewLoop /\ lp' \in LoopType /\ pc' = "cleanup"
<1>1. PICK b \in BOOLEAN : b = (s.complete \/ (result = 0 /\ ~se.broken))
  BY Zenon
<1>2. PICK t : t = [s EXCEPT !.complete = b]
  OBVIOUS
<1>3. st' = t
  BY <1>1, <1>2 DEF Return
<1>4. /\ t \in StType
      /\ t.list = s.list /\ t.final_server = s.final_server /\ t.fate = s.fate
      /\ t.hop_status = s.hop_status /\ t.keep = s.keep /\ t.drop = s.drop
      /\ t.panic = s.panic /\ t.refused = s.refused /\ t.complete = b
  BY <1>1, <1>2 DEF StType
<1>5. Marked(t) = Marked(s) /\ Unmarked(t) = {} /\ Decided(t) = Decided(s)
  BY <1>4 DEF Marked, Unmarked, Decided
<1>6. t.hop_status => ~t.complete
  <2>1. t.hop_status => result # 0 /\ ~s.complete
    BY <1>4 DEF Account
  <2> QED BY <1>1, <1>4, <2>1
<1>7. Account(t) /\ Fair(t)
  BY <1>4, <1>5, <1>6 DEF Account, Fair
<1>8. Dims(se, ses') /\ (l.recv_state = "LAST" => ses' = se)
      /\ (l.recv_state # "LAST" => ~Cached(ses'))
  BY DimsOK, SessionFacts DEF Return
<1>9. lp' = NewLoop /\ lp' \in LoopType /\ pc' = "cleanup"
  BY NewLoopType DEF Return
<1> QED BY <1>3, <1>4, <1>5, <1>7, <1>8, <1>9

\* The end of a conversation that is cut off.
LEMMA BrokenOK ==
    ASSUME NEW s \in StType, NEW se \in SesType, NEW sf, sf = Broken(s, se)
    PROVE  /\ sf \in SesType /\ sf.broken /\ ~Cached(sf)
           /\ sf.addr = se.addr /\ sf.xfer = se.xfer /\ sf.tls = se.tls
           /\ PlainOK(s, se) => se.tls /\ sf.retry_plain
           /\ ~PlainOK(s, se) => sf.retry_plain = se.retry_plain
<1>1. PICK b \in BOOLEAN : b = (se.retry_plain \/ PlainOK(s, se))
  BY Zenon
<1>2. sf = [se EXCEPT !.broken = TRUE, !.expire = "throttled", !.retry_plain = b]
  BY <1>1 DEF Broken
<1>3. sf \in SesType /\ sf.broken /\ ~Cached(sf)
      /\ sf.addr = se.addr /\ sf.xfer = se.xfer /\ sf.tls = se.tls /\ sf.retry_plain = b
  BY <1>2 DEF SesType, Cached
<1>4. se.retry_plain \in BOOLEAN
  BY DEF SesType
<1>5. PlainOK(s, se) => se.tls
  BY DEF PlainOK
<1> QED BY <1>1, <1>3, <1>4, <1>5

\* The RETURN macro.
LEMMA LeaveOK ==
    ASSUME ProtoInv, pc \in LoopPc, NEW s \in StType, Account(s), Unmarked(s) = {}, Fair(s),
           s.list = st.list, s.fate["sent"] = st.fate["sent"],
           NEW se \in SesType, se.addr = ses.addr, se.xfer = ses.xfer, se.tls = ses.tls,
           \/ s.final_server = st.final_server /\ se.retry_plain = ses.retry_plain
           \/ ses.tls /\ se.retry_plain,
           NEW result \in {0, -1}, result = 0 => ~s.hop_status,
           Return(s, se, lp, result),
           srv' \in SrvType, srv'.accepted = srv.accepted, Taken(s, srv'),
           \/ lp.recv_state # "LAST" \/ se.broken \/ ~Cached(se) \/ srv'.wire = <<>>
    PROVE  Moves(st, ses, st', ses', lp', srv', pc')
<1>1. lp \in LoopType
  BY DEF ProtoInv, TalkType
<1>2. /\ st' \in StType /\ Account(st') /\ Unmarked(st') = {} /\ Fair(st')
      /\ st'.list = s.list /\ st'.final_server = s.final_server /\ st'.fate = s.fate
      /\ Dims(se, ses') /\ (lp.recv_state = "LAST" => ses' = se)
      /\ (lp.recv_state # "LAST" => ~Cached(ses'))
      /\ lp' = NewLoop /\ lp' \in LoopType /\ pc' = "cleanup"
  BY <1>1, ReturnOK
<1>3. Taken(st', srv')
  BY <1>2, TakenSame
<1>4. Cached(ses') /\ ~ses'.broken => srv'.wire = <<>>
  BY <1>2 DEF Dims
<1>5. ses' \in SesType
  BY <1>2 DEF Dims
<1>6. Fine(st', ses', lp', srv', pc')
  BY <1>2, <1>3, <1>4, <1>5 DEF Fine, LoopPc
<1>7. Keeps(st, ses, st', ses', pc')
  BY <1>2 DEF Keeps, Dims
<1> QED BY <1>6, <1>7 DEF Moves

\* The return through the exception handler, with what was lost on the wire.
LEMMA ReturnExceptOK ==
    ASSUME ProtoInv, pc \in LoopPc, NEW R \in LostReplies, ReturnExcept(R)
    PROVE  Moves(st, ses, st', ses', lp', srv', pc')
<1>0. /\ st \in StType /\ ses \in SesType /\ lp \in LoopType /\ srv \in SrvType
      /\ Account(st) /\ Taken(st, srv) /\ Fair(st)
      /\ Talks(lp, st, ses, srv, pc)
  BY DEF ProtoInv, TalkType, Talking
<1>1. PICK s : s = IF SENDING_MAIL(lp) THEN smtp_stream_except(st, ses) ELSE st
  OBVIOUS
<1>2. PICK se : se = IF SENDING_MAIL(lp) THEN Broken(st, ses) ELSE [ses EXCEPT !.broken = TRUE]
  OBVIOUS
<1>3. PICK u : u = Unseen(R)
  OBVIOUS
<1>4. Return(s, se, lp, -1) /\ srv' = u
  BY <1>1, <1>2, <1>3 DEF ReturnExcept
<1>5. /\ s \in StType /\ Account(s) /\ Unmarked(s) = {} /\ Fair(s)
      /\ s.list = st.list /\ s.fate["sent"] = st.fate["sent"]
      /\ se \in SesType /\ se.addr = ses.addr /\ se.xfer = ses.xfer /\ se.tls = ses.tls
      /\ se.broken
      /\ \/ s.final_server = st.final_server /\ se.retry_plain = ses.retry_plain
         \/ ses.tls /\ se.retry_plain
  <2>1. CASE SENDING_MAIL(lp)
    <3>1. s = smtp_stream_except(st, ses) /\ se = Broken(st, ses)
      BY <1>1, <1>2, <2>1
    <3>2. Failed(st, s) /\ Unmarked(s) = {} /\ (s.final_server => st.final_server)
          /\ (s.final_server \/ ~st.final_server \/ PlainOK(st, ses))
      BY <1>0, <3>1, StreamExceptOK
    <3>3. /\ se \in SesType /\ se.broken
          /\ se.addr = ses.addr /\ se.xfer = ses.xfer /\ se.tls = ses.tls
          /\ PlainOK(st, ses) => ses.tls /\ se.retry_plain
          /\ ~PlainOK(st, ses) => se.retry_plain = ses.retry_plain
      BY <1>0, <3>1, BrokenOK
    <3>4. s \in StType /\ Account(s) /\ Fair(s)
          /\ s.list = st.list /\ s.fate["sent"] = st.fate["sent"]
      BY <1>0, <3>2 DEF Failed
    <3>5. s.final_server \in BOOLEAN /\ st.final_server \in BOOLEAN
      BY <1>0, <3>4 DEF StType
    <3>6. PlainOK(st, ses) \/ s.final_server = st.final_server
      BY <3>2, <3>5
    <3> QED BY <3>2, <3>3, <3>4, <3>6
  <2>2. CASE ~SENDING_MAIL(lp)
    <3>1. s = st /\ se = [ses EXCEPT !.broken = TRUE]
      BY <1>1, <1>2, <2>2
    <3>2. lp.recv_state \in StateName
      BY <1>0 DEF LoopType
    <3>3. Closed(lp)
      BY <2>2, <3>2, Ranks DEF SENDING_MAIL, Closed, StateName
    <3>4. Unmarked(st) = {}
      BY <1>0, <3>3, ClosedTalk
    <3>5. /\ se \in SesType /\ se.broken
          /\ se.addr = ses.addr /\ se.xfer = ses.xfer /\ se.tls = ses.tls
          /\ se.retry_plain = ses.retry_plain
      BY <1>0, <3>1 DEF SesType
    <3> QED BY <1>0, <3>1, <3>4, <3>5
  <2> QED BY <2>1, <2>2
<1>6. u \in SrvType /\ Taken(s, u)
  BY <1>3, <1>5, LostOK
<1>7. u.accepted = srv.accepted
  BY <1>0, <1>3 DEF Unseen, SrvType
<1> QED BY <1>4, <1>5, <1>6, <1>7, LeaveOK

\* The connection is lost while a reply is awaited.
LEMMA RecvLostOK ==
    ASSUME ProtoInv, RecvLost
    PROVE  Moves(st, ses, st', ses', lp', srv', pc')
BY ReturnExceptOK DEF RecvLost, LoopPc

\* The connection is lost while a command is sent.
LEMMA EmitLostOK ==
    ASSUME ProtoInv, EmitLost
    PROVE  Moves(st, ses, st', ses', lp', srv', pc')
BY ReturnExceptOK DEF EmitLost, LoopPc

\* Nothing is left to send, the loop ends.
LEMMA EmitNothingOK ==
    ASSUME ProtoInv, EmitNothing
    PROVE  Moves(st, ses, st', ses', lp', srv', pc')
<1>0. /\ st \in StType /\ ses \in SesType /\ lp \in LoopType /\ srv \in SrvType
      /\ Account(st) /\ Taken(st, srv) /\ Fair(st)
      /\ Talks(lp, st, ses, srv, "emit") /\ pc \in LoopPc
      /\ lp.send_state = "LAST" /\ srv' = srv /\ Return(st, ses, lp, 0)
  BY DEF ProtoInv, TalkType, EmitNothing, LoopPc, Talking
<1>1. lp.recv_state = "LAST"
  BY <1>0 DEF Talks, Planned
<1>2. Unmarked(st) = {} /\ ~st.hop_status /\ (Cached(ses) => srv.wire = <<>>)
  BY <1>0, <1>1, LastTalk
<1> QED BY <1>0, <1>2, LeaveOK

\* The queue file cannot be read or sent: the message fails, not the recipients.
LEMMA EmitBadContentOK ==
    ASSUME ProtoInv, EmitBadContent
    PROVE  Moves(st, ses, st', ses', lp', srv', pc')
<1>0. /\ st \in StType /\ ses \in SesType /\ lp \in LoopType /\ srv \in SrvType
      /\ Account(st) /\ Taken(st, srv) /\ Fair(st)
      /\ Talks(lp, st, ses, srv, "emit") /\ pc \in LoopPc
      /\ lp.send_state = "DOT" /\ srv' = srv
  BY DEF ProtoInv, TalkType, EmitBadContent, LoopPc, Talking, SendsContent
<1>1. lp.recv_state = "DOT"
  BY <1>0, DotPlace
<1>2. PICK s : s = smtp_mesg_fail(st, "hard")
  OBVIOUS
<1>3. Failed(st, s) /\ Unmarked(s) = {} /\ s.final_server = st.final_server
      /\ s.hop_status = st.hop_status
  <2>1. "hard" \in Refusal
    BY DEF Refusal, Reply
  <2> QED BY <1>0, <1>2, <2>1, MesgFailOK
<1>4. /\ s \in StType /\ Account(s) /\ Fair(s) /\ s.list = st.list
      /\ s.fate["sent"] = st.fate["sent"] /\ ~s.hop_status
  BY <1>0, <1>3 DEF Failed, Talks
<1>5. Taken(s, srv)
  BY <1>0, <1>4, TakenSame
<1>6. PICK se : se = [ses EXCEPT !.forbidden = TRUE]
  OBVIOUS
<1>7. /\ se \in SesType /\ se.addr = ses.addr /\ se.xfer = ses.xfer /\ se.tls = ses.tls
      /\ se.retry_plain = ses.retry_plain
  BY <1>0, <1>6 DEF SesType
<1>8. Return(s, ses, lp, 0) \/ Return(s, se, lp, -1)
  BY <1>2, <1>6 DEF EmitBadContent
<1>9. CASE Return(s, ses, lp, 0)
  BY <1>0, <1>1, <1>3, <1>4, <1>5, <1>9, LeaveOK
<1>10. CASE Return(s, se, lp, -1)
  BY <1>0, <1>1, <1>3, <1>4, <1>5, <1>7, <1>10, LeaveOK
<1> QED BY <1>8, <1>9, <1>10

\* The commands, and how the server sees them.
Sent(s, l) ==
    [srv EXCEPT !.wire = @ \o Expected(l.send_state,
         IF l.send_state = "RCPT" THEN s.list[l.send_rcpt + 1] ELSE NoRcpt)]

\* A command is added to the wire.
LEMMA ExpectedType ==
    ASSUME NEW s \in StType, srv \in SrvType, NEW l \in LoopType, Sends(l, s.list),
           l.send_state # "LAST",
           NEW u, u = Sent(s, l)
    PROVE  /\ u \in SrvType /\ u.mail = srv.mail /\ u.rcpts = srv.rcpts
           /\ u.accepted = srv.accepted /\ u.unseen = srv.unseen
           /\ l.send_state # "DOT" \/ cfg.smtp_mode =>
                 u.wire = srv.wire \o <<Command(l.send_state,
                             IF l.send_state = "RCPT" THEN s.list[l.send_rcpt + 1] ELSE NoRcpt)>>
           /\ l.send_state = "DOT" /\ ~cfg.smtp_mode /\ srv.wire = <<>> =>
                 u.wire = [i \in 1..Len(srv.rcpts) |-> Command("DOT", srv.rcpts[i])]
<1>0. /\ srv.wire \in Seq(CommandType) /\ srv.rcpts \in Seq(Rcpt)
      /\ l.send_state \in StateName /\ l.send_rcpt \in Nat
  BY DEF SrvType, LoopType
<1>1. PICK r \in Rcpt \cup {NoRcpt} :
          r = IF l.send_state = "RCPT" THEN s.list[l.send_rcpt + 1] ELSE NoRcpt
  <2>1. l.send_state = "RCPT" => s.list[l.send_rcpt + 1] \in Rcpt
    BY <1>0, Listed DEF Sends
  <2> QED BY <2>1
<1>2. PICK e : e = Expected(l.send_state, r)
  OBVIOUS
<1>3. /\ l.send_state # "DOT" \/ cfg.smtp_mode => e = <<Command(l.send_state, r)>>
      /\ l.send_state = "DOT" /\ ~cfg.smtp_mode =>
            e = [i \in 1..Len(srv.rcpts) |-> Command("DOT", srv.rcpts[i])]
  BY <1>2 DEF Expected
<1>4. e \in Seq(CommandType)
  <2>1. CASE l.send_state # "DOT" \/ cfg.smtp_mode
    <3>1. PICK c \in CommandType : c = Command(l.send_state, r)
      BY <1>0 DEF Command, CommandType
    <3>2. e = <<c>>
      BY <1>3, <2>1, <3>1
    <3> QED BY <3>2
  <2>2. CASE l.send_state = "DOT" /\ ~cfg.smtp_mode
    <3>1. \A i \in 1..Len(srv.rcpts) : Command("DOT", srv.rcpts[i]) \in CommandType
      BY <1>0 DEF Command, CommandType, StateName
    <3>2. Len(srv.rcpts) \in Nat
      BY <1>0
    <3>3. e = [i \in 1..Len(srv.rcpts) |-> Command("DOT", srv.rcpts[i])]
      BY <1>3, <2>2
    <3> QED BY <3>1, <3>2, <3>3
  <2> QED BY <2>1, <2>2
<1>5. u = [srv EXCEPT !.wire = @ \o e]
  BY <1>1, <1>2 DEF Sent
<1>6. PICK w \in Seq(CommandType) : w = srv.wire \o e
  BY <1>0, <1>4, ConcatProperties
<1>7. u = [srv EXCEPT !.wire = w]
  BY <1>5, <1>6
<1>8. /\ u \in SrvType /\ u.mail = srv.mail /\ u.rcpts = srv.rcpts
      /\ u.accepted = srv.accepted /\ u.unseen = srv.unseen /\ u.wire = w
  BY <1>7 DEF SrvType
<1>9. srv.wire = <<>> => w = e
  BY <1>4, <1>6
<1> QED BY <1>1, <1>3, <1>6, <1>8, <1>9

\* A command is sent.
LEMMA EmitCommandOK ==
    ASSUME ProtoInv, EmitCommand
    PROVE  Moves(st, ses, st', ses', lp', srv', pc')
<1>0. /\ st \in StType /\ ses \in SesType /\ lp \in LoopType /\ srv \in SrvType
      /\ Account(st) /\ Taken(st, srv) /\ Fair(st)
      /\ Talks(lp, st, ses, srv, "emit") /\ pc \in LoopPc
      /\ lp.send_state # "LAST" /\ Sends(lp, st.list)
  BY DEF ProtoInv, TalkType, EmitCommand, LoopPc, Talking, Talks
<1>1. PICK u : u = Sent(st, lp)
  OBVIOUS
<1>2. srv' = u
  BY <1>1 DEF EmitCommand, Sent
<1>3. /\ u \in SrvType /\ u.mail = srv.mail /\ u.rcpts = srv.rcpts
      /\ u.accepted = srv.accepted /\ u.unseen = srv.unseen
      /\ lp.send_state # "DOT" \/ cfg.smtp_mode =>
            u.wire = srv.wire \o <<Command(lp.send_state,
                        IF lp.send_state = "RCPT" THEN st.list[lp.send_rcpt + 1] ELSE NoRcpt)>>
      /\ lp.send_state = "DOT" /\ ~cfg.smtp_mode /\ srv.wire = <<>> =>
            u.wire = [i \in 1..Len(srv.rcpts) |-> Command("DOT", srv.rcpts[i])]
  BY <1>0, <1>1, ExpectedType
<1>4. Taken(st, u)
  BY <1>0, <1>3, TakenSame
<1>5. CASE lp.recv_state = "LAST"
  <2>1. Unmarked(st) = {} /\ ~st.hop_status /\ ~Cached(ses)
    BY <1>0, <1>5, LastTalk
  <2>2. Return(st, ses, lp, 0)
    BY <1>5 DEF EmitCommand
  <2> QED BY <1>0, <1>2, <1>3, <1>4, <2>1, <2>2, LeaveOK
<1>6. CASE lp.recv_state # "LAST"
  <2>1. PICK ctx : ctx = IF lp.send_state = "DOT" /\ lp.nrcpt > 0 THEN "body" ELSE lp.ctx
    OBVIOUS
  <2>2. PICK m : m = [lp EXCEPT !.send_state = lp.next_state, !.send_rcpt = lp.next_rcpt, !.ctx = ctx]
    OBVIOUS
  <2>3. lp' = m /\ pc' = "send" /\ st' = st /\ ses' = ses
    BY <1>6, <2>1, <2>2 DEF EmitCommand, SendsContent
  <2>4. /\ m \in LoopType /\ m.send_state = lp.next_state /\ m.send_rcpt = lp.next_rcpt
        /\ m.next_state = lp.next_state /\ m.next_rcpt = lp.next_rcpt
        /\ m.except = lp.except /\ m.ctx = ctx
        /\ m.recv_state = lp.recv_state /\ m.recv_rcpt = lp.recv_rcpt /\ m.nrcpt = lp.nrcpt
        /\ m.survivors = lp.survivors /\ m.recv_done = lp.recv_done
        /\ m.mail_from_rejected = lp.mail_from_rejected
    <3>1. ctx \in {"loop", "body"}
      BY <1>0, <2>1 DEF LoopType
    <3> QED BY <1>0, <2>2, <3>1 DEF LoopType
  <2>5. SameReceiver(lp, m)
    BY <2>4 DEF SameReceiver
  <2>6. Talks(m, st, ses, u, "send")
    <3>1. CASE lp.send_state \in {"MAIL", "RCPT", "DATA"}
      <4>1. lp.send_state # "DOT" /\ ctx = lp.ctx
        BY <2>1, <3>1
      <4> QED BY <1>0, <1>3, <2>4, <2>5, <3>1, <4>1, AskTalk
    <3>2. CASE lp.send_state = "DOT"
      <4>1. srv.wire = <<>>
        BY <1>0, <3>2, DotPlace
      <4>2. cfg.smtp_mode => u.wire = <<Command("DOT", NoRcpt)>>
        BY <1>3, <3>2, <4>1
      <4>3. ~cfg.smtp_mode => u.wire = [i \in 1..Len(srv.rcpts) |-> Command("DOT", srv.rcpts[i])]
        BY <1>3, <3>2, <4>1
      <4>4. m.ctx = IF lp.nrcpt > 0 THEN "body" ELSE lp.ctx
        BY <2>1, <2>4, <3>2
      <4> QED BY <1>0, <1>3, <2>4, <2>5, <3>2, <4>2, <4>3, <4>4, DotTalk
    <3>3. CASE lp.send_state = "ABORT"
      <4>1. ctx = lp.ctx
        BY <2>1, <3>3
      <4>2. u.wire = srv.wire \o <<Command("ABORT", NoRcpt)>>
        BY <1>3, <3>3
      <4> QED BY <1>0, <1>3, <2>4, <2>5, <3>3, <4>1, <4>2, RsetTalk
    <3>4. CASE lp.send_state = "QUIT"
      <4>1. ctx = lp.ctx
        BY <2>1, <3>4
      <4>2. u.wire = srv.wire \o <<Command("QUIT", NoRcpt)>>
        BY <1>3, <3>4
      <4> QED BY <1>0, <1>3, <2>4, <2>5, <3>4, <4>1, <4>2, QuitSentTalk
    <3>5. lp.send_state \in {"MAIL", "RCPT", "DATA", "DOT", "ABORT", "QUIT"}
      <4>1. Early \subseteq {"MAIL", "RCPT", "DATA", "DOT", "ABORT"}
        BY DEF Early
      <4> QED BY <1>0, <4>1 DEF Talks, Asking, Aborting, Closing, Ending
    <3> QED BY <3>1, <3>2, <3>3, <3>4, <3>5
  <2>7. Fine(st, ses, m, u, "send")
    BY <1>0, <1>3, <1>4, <2>4, <2>6 DEF Fine
  <2>8. Keeps(st, ses, st, ses, "send")
    BY DEF Keeps, LoopPc
  <2> QED BY <1>2, <2>3, <2>7, <2>8 DEF Moves
<1> QED BY <1>5, <1>6

\* The connection is lost in the content: the replies that came before are read.
LEMMA EmitLostContentOK ==
    ASSUME ProtoInv, EmitLostContent
    PROVE  Moves(st, ses, st', ses', lp', srv', pc')
<1>0. /\ st \in StType /\ ses \in SesType /\ lp \in LoopType /\ srv \in SrvType
      /\ Account(st) /\ Taken(st, srv) /\ Fair(st)
      /\ Talks(lp, st, ses, srv, "emit")
      /\ lp.send_state # "LAST" /\ st' = st /\ srv' = srv /\ pc' = "send"
      /\ ((lp.send_state = "DOT" /\ lp.nrcpt > 0) \/ lp.ctx = "body")
  BY DEF ProtoInv, TalkType, EmitLostContent, LoopPc, Talking, SendsContent
<1>1. PICK se : se = [ses EXCEPT !.broken = TRUE]
  OBVIOUS
<1>2. /\ se \in SesType /\ se.addr = ses.addr /\ se.xfer = ses.xfer /\ se.tls = ses.tls
      /\ se.retry_plain = ses.retry_plain
  BY <1>0, <1>1 DEF SesType
<1>3. ses' = DontCache(se)
  BY <1>1 DEF EmitLostContent
<1>4. /\ ses' \in SesType /\ ~Cached(ses') /\ ses'.addr = ses.addr /\ ses'.xfer = ses.xfer
      /\ ses'.tls = ses.tls /\ ses'.retry_plain = ses.retry_plain
  BY <1>2, <1>3, SessionFacts
<1>5. PICK m : m = [lp EXCEPT !.except = TRUE, !.ctx = "body", !.next_state = "LAST",
                        !.send_state = "LAST", !.send_rcpt = lp.next_rcpt]
  OBVIOUS
<1>6. lp' = m
  BY <1>5 DEF EmitLostContent
<1>7. /\ m \in LoopType /\ m.send_state = "LAST" /\ m.send_rcpt = lp.next_rcpt
      /\ m.next_state = "LAST" /\ m.next_rcpt = lp.next_rcpt
      /\ m.except /\ m.ctx = "body"
      /\ m.recv_state = lp.recv_state /\ m.recv_rcpt = lp.recv_rcpt /\ m.nrcpt = lp.nrcpt
      /\ m.survivors = lp.survivors /\ m.recv_done = lp.recv_done
      /\ m.mail_from_rejected = lp.mail_from_rejected
  BY <1>0, <1>5 DEF LoopType, StateName
<1>8. SameReceiver(lp, m)
  BY <1>7 DEF SameReceiver
<1>9. ses'.xfer
  BY <1>0, <1>4 DEF Talks
<1>10. Talks(m, st, ses', srv, "send")
  BY <1>0, <1>4, <1>7, <1>8, <1>9, LostContentTalk
<1>11. Fine(st, ses', m, srv, "send")
  BY <1>0, <1>4, <1>7, <1>10 DEF Fine
<1>12. Keeps(st, ses, st, ses', "send")
  BY <1>4 DEF Keeps, LoopPc
<1> QED BY <1>0, <1>6, <1>11, <1>12 DEF Moves

\* The sender has waited for the receiver.
LEMMA SyncedOK ==
    ASSUME ProtoInv, Synced
    PROVE  Moves(st, ses, st', ses', lp', srv', pc')
<1>0. /\ st \in StType /\ ses \in SesType /\ lp \in LoopType /\ srv \in SrvType
      /\ Account(st) /\ Taken(st, srv) /\ Fair(st)
      /\ Talks(lp, st, ses, srv, "recv") /\ ~SENDER_IS_AHEAD(lp)
      /\ st' = st /\ srv' = srv /\ pc' = "emit"
  BY DEF ProtoInv, TalkType, Synced, LoopPc, Talking
<1>1. CASE \/ lp.send_state = "RCPT" /\ lp.mail_from_rejected
           \/ lp.send_state = "DATA" /\ lp.nrcpt = 0
           \/ lp.send_state = "DOT" /\ lp.nrcpt < 0
  <2>1. PICK se \in MayExpire(ses) :
               /\ ses' = se
               /\ lp' = [lp EXCEPT !.send_state = "ABORT", !.recv_state = "ABORT",
                                   !.send_rcpt = 0, !.recv_rcpt = 0, !.next_rcpt = 0,
                                   !.next_state = AfterMail(se)]
    BY <1>1 DEF Synced
  <2>2. Dims(ses, se)
    BY <1>0, DimsOK DEF MayExpire
  <2>3. PICK ns \in StateName : ns = AfterMail(se)
    BY DEF AfterMail, StateName
  <2>4. PICK m : m = [lp EXCEPT !.send_state = "ABORT", !.recv_state = "ABORT",
                                   !.send_rcpt = 0, !.recv_rcpt = 0, !.next_rcpt = 0,
                                   !.next_state = ns]
    OBVIOUS
  <2>5. lp' = m
    BY <2>1, <2>3, <2>4
  <2>6. /\ m \in LoopType /\ m.send_state = "ABORT" /\ m.recv_state = "ABORT"
        /\ m.send_rcpt = 0 /\ m.recv_rcpt = 0 /\ m.next_rcpt = 0 /\ m.next_state = ns
        /\ m.nrcpt = lp.nrcpt /\ m.survivors = lp.survivors /\ m.recv_done = lp.recv_done
        /\ m.mail_from_rejected = lp.mail_from_rejected /\ m.except = lp.except /\ m.ctx = lp.ctx
    BY <1>0, <2>4 DEF LoopType, StateName
  <2>7. se.xfer /\ se \in SesType
    BY <1>0, <2>2 DEF Dims, Talks
  <2>8. Talks(m, st, se, srv, "emit")
    BY <1>0, <1>1, <2>3, <2>6, <2>7, AbortTalk
  <2>9. Fine(st, se, m, srv, "emit")
    BY <1>0, <2>6, <2>7, <2>8 DEF Fine
  <2>10. Keeps(st, ses, st, se, "emit")
    BY <2>2 DEF Keeps, Dims, LoopPc
  <2> QED BY <1>0, <2>1, <2>5, <2>9, <2>10 DEF Moves
<1>2. CASE ~(\/ lp.send_state = "RCPT" /\ lp.mail_from_rejected
             \/ lp.send_state = "DATA" /\ lp.nrcpt = 0
             \/ lp.send_state = "DOT" /\ lp.nrcpt < 0)
  <2>1. ses' = ses /\ lp' = lp
    BY <1>2 DEF Synced
  <2>2. lp.send_state = "DOT" => lp.nrcpt >= 0
    BY <1>0, <1>2 DEF LoopType
  <2>3. Talks(lp, st, ses, srv, "emit")
    BY <1>0, <2>2, SyncedTalk
  <2>4. Fine(st, ses, lp, srv, "emit")
    BY <1>0, <2>3 DEF Fine
  <2>5. Keeps(st, ses, st, ses, "emit")
    BY DEF Keeps, LoopPc
  <2> QED BY <1>0, <2>1, <2>4, <2>5 DEF Moves
<1> QED BY <1>1, <1>2

-----------------------------------------------------------------------------
(***************************************************************************)
(* Replies.                                                                *)
(***************************************************************************)

\* The server, after it has sent a reply.
Replied(v, c, reply, u) ==
    /\ u \in SrvType /\ u.wire = Tail(v.wire) /\ u.unseen = v.unseen
    /\ c.cmd = "MAIL" => u.mail = (reply = "ok") /\ u.rcpts = <<>>
    /\ c.cmd = "RCPT" =>
          u.mail = v.mail /\ u.rcpts = IF reply = "ok" THEN Append(v.rcpts, c.rcpt) ELSE v.rcpts
    /\ c.cmd = "DATA" => u.mail = v.mail /\ u.rcpts = v.rcpts
    /\ c.cmd # "DOT" \/ reply # "ok" => u.accepted = v.accepted
    /\ c.cmd = "DOT" /\ reply = "ok" =>
          u.accepted = v.accepted \o IF cfg.smtp_mode THEN v.rcpts ELSE <<c.rcpt>>

\* What the server does when it replies to a command.
LEMMA AnswerOK ==
    ASSUME srv \in SrvType, srv.wire # <<>>, NEW reply \in Reply,
           NEW c, c = Head(srv.wire),
           c.cmd = "RCPT" \/ (c.cmd = "DOT" /\ ~cfg.smtp_mode) => c.rcpt \in Rcpt,
           NEW u, u = Answered(c, reply)
    PROVE  Replied(srv, c, reply, u)
<1>0. /\ srv.wire \in Seq(CommandType) /\ srv.rcpts \in Seq(Rcpt) /\ srv.accepted \in Seq(Rcpt)
      /\ srv.mail \in BOOLEAN
  BY DEF SrvType
<1>0a. <<>> \in Seq(Rcpt)
  OBVIOUS
<1>1. PICK b \in BOOLEAN :
          b = (IF c.cmd = "MAIL" THEN reply = "ok" ELSE srv.mail /\ c.cmd \notin {"DOT", "ABORT"})
  <2>1. CASE IF c.cmd = "MAIL" THEN reply = "ok" ELSE srv.mail /\ c.cmd \notin {"DOT", "ABORT"}
    BY <2>1, Zenon
  <2>2. CASE ~(IF c.cmd = "MAIL" THEN reply = "ok" ELSE srv.mail /\ c.cmd \notin {"DOT", "ABORT"})
    BY <2>2, Zenon
  <2> QED BY <2>1, <2>2
<1>2. PICK R \in Seq(Rcpt) :
          R = IF c.cmd = "RCPT" /\ reply = "ok" THEN Append(srv.rcpts, c.rcpt)
              ELSE IF c.cmd \in {"RCPT", "DATA"} THEN srv.rcpts ELSE <<>>
  <2>1. CASE c.cmd = "RCPT" /\ reply = "ok"
    <3>1. PICK r \in Rcpt : r = c.rcpt
      BY <2>1
    <3>2. Append(srv.rcpts, r) \in Seq(Rcpt)
      BY <1>0
    <3> QED BY <2>1, <3>1, <3>2
  <2>2. CASE ~(c.cmd = "RCPT" /\ reply = "ok")
    <3>1. CASE c.cmd \in {"RCPT", "DATA"}
      BY <1>0, <2>2, <3>1
    <3>2. CASE c.cmd \notin {"RCPT", "DATA"}
      BY <1>0a, <2>2, <3>2
    <3> QED BY <3>1, <3>2
  <2> QED BY <2>1, <2>2
<1>3. PICK e \in Seq(Rcpt) : e = Accepts(c, reply)
  <2>1. CASE c.cmd # "DOT" \/ reply # "ok"
    BY <1>0a, <2>1 DEF Accepts
  <2>2. CASE ~(c.cmd # "DOT" \/ reply # "ok") /\ cfg.smtp_mode
    BY <1>0, <2>2 DEF Accepts
  <2>3. CASE ~(c.cmd # "DOT" \/ reply # "ok") /\ ~cfg.smtp_mode
    <3>1. PICK r \in Rcpt : r = c.rcpt
      BY <2>3
    <3>2. <<r>> \in Seq(Rcpt)
      OBVIOUS
    <3>3. Accepts(c, reply) = <<r>>
      BY <2>3, <3>1 DEF Accepts
    <3> QED BY <3>2, <3>3
  <2> QED BY <2>1, <2>2, <2>3
<1>4. PICK a \in Seq(Rcpt) : a = srv.accepted \o e
  BY <1>0, ConcatProperties
<1>5. Tail(srv.wire) \in Seq(CommandType)
  BY <1>0, TailFacts
<1>6. u = [srv EXCEPT !.wire = Tail(srv.wire), !.mail = b, !.rcpts = R, !.accepted = a]
  BY <1>1, <1>2, <1>3, <1>4 DEF Answered
<1>7. /\ u \in SrvType /\ u.wire = Tail(srv.wire) /\ u.unseen = srv.unseen
      /\ u.mail = b /\ u.rcpts = R /\ u.accepted = a
  BY <1>5, <1>6 DEF SrvType
<1>8. c.cmd # "DOT" \/ reply # "ok" => a = srv.accepted
  <2> SUFFICES ASSUME c.cmd # "DOT" \/ reply # "ok" PROVE a = srv.accepted
    OBVIOUS
  <2>1. e = <<>>
    BY <1>3 DEF Accepts
  <2>2. PICK q \in Seq(Rcpt) : q = srv.accepted
    BY <1>0
  <2>3. q \o <<>> = q
    BY ConcatEmptySeq
  <2> QED BY <1>4, <2>1, <2>2, <2>3
<1>9. c.cmd = "DOT" /\ reply = "ok" => e = IF cfg.smtp_mode THEN srv.rcpts ELSE <<c.rcpt>>
  BY <1>3 DEF Accepts
<1>10. /\ c.cmd = "MAIL" => u.mail = (reply = "ok") /\ u.rcpts = <<>>
       /\ c.cmd \in {"RCPT", "DATA"} => u.mail = srv.mail
  <2>1. c.cmd = "MAIL" => b = (reply = "ok")
    BY <1>1, Zenon
  <2>2. c.cmd \in {"RCPT", "DATA"} => b = srv.mail
    BY <1>0, <1>1
  <2>3. c.cmd = "MAIL" => R = <<>>
    BY <1>2
  <2> QED BY <1>7, <2>1, <2>2, <2>3
<1>11. c.cmd = "RCPT" => u.rcpts = IF reply = "ok" THEN Append(srv.rcpts, c.rcpt) ELSE srv.rcpts
  BY <1>2, <1>7
<1>12. c.cmd = "DATA" => u.rcpts = srv.rcpts
  BY <1>2, <1>7
<1>13. c.cmd # "DOT" \/ reply # "ok" => u.accepted = srv.accepted
  BY <1>7, <1>8
<1>14. c.cmd = "DOT" /\ reply = "ok" =>
          u.accepted = srv.accepted \o IF cfg.smtp_mode THEN srv.rcpts ELSE <<c.rcpt>>
  BY <1>4, <1>7, <1>9
<1> QED BY <1>7, <1>10, <1>11, <1>12, <1>13, <1>14 DEF Replied

\* What smtp_loop() knows when it reads a reply.
Reading(u) ==
    /\ cfg \in Setups
    /\ st \in StType /\ ses \in SesType /\ lp \in LoopType /\ srv \in SrvType /\ u \in SrvType
    /\ Account(st) /\ Taken(st, srv) /\ Fair(st)
    /\ Talks(lp, st, ses, srv, "recv") /\ SENDER_IS_AHEAD(lp)

\* The receiver has taken a reply.
LEMMA ReadOK ==
    ASSUME NEW u, Reading(u), NEW t \in StType, Account(t), Fair(t), Taken(t, u), t.list = st.list,
           t.final_server = st.final_server, NEW sf, Dims(ses, sf),
           NEW m \in LoopType, Talks(m, t, sf, u, "recv"),
           st' = t, ses' = sf, lp' = m, srv' = u, pc' = "recv"
    PROVE  Moves(st, ses, st', ses', lp', srv', pc')
<1>1. Fine(t, sf, m, u, "recv")
  BY DEF Reading, Dims, Fine
<1>2. Keeps(st, ses, t, sf, "recv")
  BY DEF Keeps, Dims, LoopPc
<1> QED BY <1>1, <1>2 DEF Moves

\* smtp_check_code() changes only whether the session can be cached.
LEMMA CheckedOK ==
    ASSUME NEW se, Dims(ses, se), NEW reply, NEW sf, sf = smtp_check_code(se, reply)
    PROVE  Dims(ses, sf)
<1>1. Dims(se, sf)
  BY DimsOK DEF Dims, smtp_check_code
<1> QED BY <1>1, DimsTwice

\* The reply to MAIL FROM: when it is a refusal everybody is decided.
LEMMA MailReplyOK ==
    ASSUME NEW u, Reading(u), srv.wire # <<>>, lp.recv_state = "MAIL",
           NEW reply \in Reply, Replied(srv, Head(srv.wire), reply, u),
           NEW se, Dims(ses, se), MailReply(reply, se), srv' = u, pc' = "recv"
    PROVE  Moves(st, ses, st', ses', lp', srv', pc')
<1>0. /\ st \in StType /\ lp \in LoopType /\ srv \in SrvType /\ srv.wire \in Seq(CommandType)
      /\ Account(st) /\ Taken(st, srv) /\ Fair(st)
      /\ Talks(lp, st, ses, srv, "recv") /\ SENDER_IS_AHEAD(lp) /\ ~st.hop_status
      /\ Hears(lp, st, srv.wire) /\ ses.xfer
  BY Hearing DEF Reading, Talks, SrvType
<1>1. Head(srv.wire).cmd = "MAIL"
  BY <1>0 DEF Hears
<1>2. PICK t : t = IF reply = "ok" THEN st ELSE smtp_mesg_fail(st, reply)
  OBVIOUS
<1>3. PICK sf : sf = smtp_check_code(se, reply)
  OBVIOUS
<1>4. PICK b \in BOOLEAN : b = (reply # "ok")
  BY Zenon
<1>5. PICK m : m = [[lp EXCEPT !.recv_state = "RCPT", !.mail_from_rejected = b] EXCEPT !.ctx = "loop"]
  OBVIOUS
<1>6. st' = t /\ ses' = sf /\ lp' = m
  BY <1>2, <1>3, <1>4, <1>5 DEF MailReply, Received
<1>7. Dims(ses, sf)
  BY <1>3, CheckedOK
<1>8. /\ t \in StType /\ Account(t) /\ Fair(t) /\ t.list = st.list /\ ~t.hop_status
      /\ t.final_server = st.final_server /\ t.fate["sent"] = st.fate["sent"]
      /\ Unmarked(t) = IF b THEN {} ELSE Unmarked(st)
  <2>1. CASE reply = "ok"
    BY <1>0, <1>2, <1>4, <2>1
  <2>2. CASE reply # "ok"
    <3>1. reply \in Refusal /\ t = smtp_mesg_fail(st, reply)
      BY <1>2, <2>2 DEF Refusal
    <3>2. Failed(st, t) /\ Unmarked(t) = {} /\ t.final_server = st.final_server
          /\ t.hop_status = st.hop_status
      BY <1>0, <3>1, MesgFailOK
    <3> QED BY <1>0, <1>4, <2>2, <3>2 DEF Failed
  <2> QED BY <2>1, <2>2
<1>9. /\ m \in LoopType /\ m.recv_state = "RCPT" /\ m.mail_from_rejected = b /\ m.ctx = "loop"
      /\ m.send_state = lp.send_state /\ m.send_rcpt = lp.send_rcpt
      /\ m.next_state = lp.next_state /\ m.next_rcpt = lp.next_rcpt /\ m.except = lp.except
      /\ m.recv_rcpt = lp.recv_rcpt /\ m.survivors = lp.survivors /\ m.nrcpt = lp.nrcpt
      /\ m.recv_done = lp.recv_done
  BY <1>0, <1>4, <1>5 DEF LoopType, StateName
<1>10. SameSender(lp, m)
  BY <1>9 DEF SameSender
<1>11. u.wire = Tail(srv.wire) /\ u.rcpts = <<>> /\ u.accepted = srv.accepted /\ u.unseen = srv.unseen
  BY <1>1 DEF Replied
<1>12. u.mail = ~m.mail_from_rejected
  <2>1. u.mail = (reply = "ok")
    BY <1>1 DEF Replied
  <2> QED BY <1>4, <1>9, <2>1
<1>13. Taken(t, u)
  BY <1>0, <1>8, <1>11, TakenSame
<1>14. sf.xfer /\ (Cached(sf) => Cached(ses))
  BY <1>0, <1>7 DEF Dims
<1>15. Talks(m, t, sf, u, "recv")
  BY <1>0, <1>8, <1>9, <1>10, <1>11, <1>12, <1>14, MailTalk
<1> QED BY <1>6, <1>7, <1>8, <1>9, <1>13, <1>15, ReadOK

\* A probe delivers nothing.
LEMMA TakenProbe ==
    ASSUME NEW s, NEW t, NEW v, NEW u, Taken(s, v), ~Probe("no"),
           u.accepted = v.accepted, u.unseen = v.unseen
    PROVE  Taken(t, u)
BY DEF Taken

\* The reply to RCPT TO is about the recipient at the receiver's place.
LEMMA RcptReplyOK ==
    ASSUME NEW u, Reading(u), srv.wire # <<>>, lp.recv_state = "RCPT",
           NEW reply \in Replies(Head(srv.wire)), Replied(srv, Head(srv.wire), reply, u),
           NEW se, Dims(ses, se), RcptReply(reply, se), srv' = u, pc' = "recv"
    PROVE  Moves(st, ses, st', ses', lp', srv', pc')
<1>0. /\ st \in StType /\ lp \in LoopType /\ srv \in SrvType /\ srv.wire \in Seq(CommandType)
      /\ Account(st) /\ Taken(st, srv) /\ Fair(st)
      /\ Talks(lp, st, ses, srv, "recv") /\ SENDER_IS_AHEAD(lp) /\ ~st.hop_status
      /\ Hears(lp, st, srv.wire) /\ ses.xfer /\ Receiver(lp, st) /\ Agreed(lp, st, srv)
  BY Hearing DEF Reading, Talks, SrvType
<1>1. Head(srv.wire).cmd = "RCPT" /\ Head(srv.wire).rcpt = st.list[lp.recv_rcpt + 1]
  BY <1>0 DEF Hears
<1>2. PICK r : r = st.list[lp.recv_rcpt + 1]
  OBVIOUS
<1>3. PICK n \in Nat : n = Len(st.list)
  BY <1>0, Listed
<1>4. /\ lp.recv_rcpt < n /\ lp.recv_rcpt \in Nat /\ lp.recv_rcpt + 1 \in 1..n
      /\ lp.nrcpt \in Int /\ lp.nrcpt # -1 /\ lp.survivors \in Seq(Nat)
  <2>1. lp.recv_rcpt < n /\ lp.recv_rcpt \in Nat
    BY <1>0, <1>3 DEF Receiver, Receiving, LoopType
  <2>2. lp.nrcpt = Len(lp.survivors)
    BY <1>0 DEF Receiver, Receiving
  <2>3. lp.survivors \in Seq(Nat)
    BY <1>0 DEF LoopType
  <2>4. Len(lp.survivors) \in Nat
    BY <2>3
  <2> QED BY <1>3, <2>1, <2>2, <2>3, <2>4
<1>5. ~lp.mail_from_rejected => r \in Unmarked(st)
  <2> SUFFICES ASSUME ~lp.mail_from_rejected PROVE r \in Unmarked(st)
    OBVIOUS
  <2>1. ~Closed(lp)
    BY <1>4 DEF Closed
  <2>2. lp.recv_rcpt + 1 \in (lp.recv_rcpt + 1)..n
    BY <1>3, <1>4
  <2>3. lp.recv_rcpt + 1 \in Open(lp, n)
    BY <2>1, <2>2 DEF Open
  <2>4. Unmarked(st) = At(st.list, Open(lp, n))
    BY <1>0, <1>3 DEF Receiver, Undecided
  <2> QED BY <1>2, <2>3, <2>4 DEF At
<1>6. reply \in Reply /\ (lp.mail_from_rejected => reply # "ok")
  <2>1. srv.mail = ~lp.mail_from_rejected
    BY <1>0 DEF Agreed
  <2> QED BY <1>1, <2>1 DEF Replies, Refusal, Reply
<1>7. PICK sf : sf = IF lp.mail_from_rejected THEN se ELSE smtp_check_code(se, reply)
  OBVIOUS
<1>8. Dims(ses, sf)
  BY <1>7, CheckedOK
<1>9. sf.xfer /\ (Cached(sf) => Cached(ses))
  BY <1>0, <1>8 DEF Dims
<1>10. PICK state \in StateName :
          state = IF lp.recv_rcpt + 1 = Len(st.list) THEN AfterRcpt ELSE lp.recv_state
  BY <1>0 DEF AfterRcpt, StateName, LoopType
<1>11. state = IF lp.recv_rcpt + 1 = Len(st.list) THEN AfterRcpt ELSE "RCPT"
  BY <1>10
<1>12. u.wire = Tail(srv.wire) /\ u.mail = srv.mail /\ u.unseen = srv.unseen
       /\ u.accepted = srv.accepted
       /\ u.rcpts = IF reply = "ok" THEN Append(srv.rcpts, st.list[lp.recv_rcpt + 1]) ELSE srv.rcpts
  BY <1>1 DEF Replied
<1>13. CASE reply = "ok"
  <2>1. ~lp.mail_from_rejected
    BY <1>6, <1>13
  <2>2. PICK t : t = IF Probe("RCPT") THEN smtp_rcpt_done(st, {r}) ELSE st
    OBVIOUS
  <2>3. PICK S \in Seq(Nat) : S = Append(lp.survivors, lp.recv_rcpt + 1)
    <3>1. PICK k \in Nat : k = lp.recv_rcpt + 1
      BY <1>4
    <3>2. Append(lp.survivors, k) \in Seq(Nat)
      BY <1>4
    <3> QED BY <3>1, <3>2
  <2>4. PICK nr \in Int : nr = lp.nrcpt + 1
    BY <1>4
  <2>5. PICK k \in Nat : k = lp.recv_rcpt + 1
    BY <1>4
  <2>6. PICK m : m = [[lp EXCEPT !.recv_rcpt = k, !.recv_state = state, !.nrcpt = nr, !.survivors = S]
                         EXCEPT !.ctx = "loop"]
    OBVIOUS
  <2>7. st' = t /\ ses' = sf /\ lp' = m
    BY <1>2, <1>7, <1>10, <1>13, <2>1, <2>2, <2>3, <2>4, <2>5, <2>6 DEF RcptReply, Received
  <2>8. /\ t \in StType /\ Account(t) /\ Fair(t) /\ t.list = st.list /\ ~t.hop_status
        /\ t.final_server = st.final_server
        /\ Unmarked(t) = IF Probe("RCPT") THEN Unmarked(st) \ {r} ELSE Unmarked(st)
        /\ Taken(t, u)
    <3>1. CASE Probe("RCPT")
      <4>1. {r} \in SUBSET Rcpt /\ {r} \subseteq Unmarked(st)
        BY <1>0, <1>5, <2>1, UnmarkedType
      <4>2. Done(st, {r}, t)
        BY <1>0, <2>2, <3>1, <4>1, RcptDoneOK
      <4>3. ~Probe("no")
        BY <3>1 DEF Probe
      <4>4. Taken(t, u)
        BY <1>0, <1>12, <4>3, TakenProbe
      <4> QED BY <1>0, <3>1, <4>2, <4>4 DEF Done
    <3>2. CASE ~Probe("RCPT")
      <4>1. t = st
        BY <2>2, <3>2
      <4>2. Taken(t, u)
        BY <1>0, <1>12, <4>1, TakenSame
      <4> QED BY <1>0, <3>2, <4>1, <4>2
    <3> QED BY <3>1, <3>2
  <2>9. /\ m \in LoopType /\ m.recv_state = state /\ m.ctx = "loop" /\ m.recv_rcpt = k
        /\ m.nrcpt = nr /\ m.survivors = S
        /\ m.send_state = lp.send_state /\ m.send_rcpt = lp.send_rcpt
        /\ m.next_state = lp.next_state /\ m.next_rcpt = lp.next_rcpt /\ m.except = lp.except
        /\ m.recv_done = lp.recv_done /\ m.mail_from_rejected = lp.mail_from_rejected
    BY <1>0, <2>6 DEF LoopType
  <2>10. SameSender(lp, m)
    BY <2>9 DEF SameSender
  <2>11. u.rcpts = Append(srv.rcpts, st.list[lp.recv_rcpt + 1])
    BY <1>12, <1>13
  <2>12. Talks(m, t, sf, u, "recv")
    BY <1>0, <1>2, <1>9, <1>11, <1>12, <2>1, <2>3, <2>4, <2>5, <2>8, <2>9, <2>10, <2>11, RcptGoodTalk, ZenonT(30)
  <2> QED BY <1>8, <2>7, <2>8, <2>9, <2>12, ReadOK
<1>14. CASE reply # "ok"
  <2>1. PICK t : t = IF lp.mail_from_rejected THEN st ELSE smtp_rcpt_fail(st, r, reply)
    OBVIOUS
  <2>2. PICK k \in Nat : k = lp.recv_rcpt + 1
    BY <1>4
  <2>3. PICK m : m = [[lp EXCEPT !.recv_rcpt = k, !.recv_state = state] EXCEPT !.ctx = "loop"]
    OBVIOUS
  <2>4. /\ m \in LoopType /\ m.recv_state = state /\ m.ctx = "loop" /\ m.recv_rcpt = k
        /\ m.nrcpt = lp.nrcpt /\ m.survivors = lp.survivors
        /\ m.send_state = lp.send_state /\ m.send_rcpt = lp.send_rcpt
        /\ m.next_state = lp.next_state /\ m.next_rcpt = lp.next_rcpt /\ m.except = lp.except
        /\ m.recv_done = lp.recv_done /\ m.mail_from_rejected = lp.mail_from_rejected
    BY <1>0, <2>3 DEF LoopType
  <2>5. st' = t /\ ses' = sf /\ lp' = m
    <3>1. m = [[lp EXCEPT !.recv_rcpt = k, !.recv_state = state, !.nrcpt = lp.nrcpt,
                          !.survivors = lp.survivors] EXCEPT !.ctx = "loop"]
      BY <1>0, <2>3 DEF LoopType
    <3> QED BY <1>2, <1>7, <1>10, <1>14, <2>1, <2>2, <3>1 DEF RcptReply, Received
  <2>6. /\ t \in StType /\ Account(t) /\ Fair(t) /\ t.list = st.list /\ ~t.hop_status
        /\ t.final_server = st.final_server /\ t.fate["sent"] = st.fate["sent"]
        /\ Unmarked(t) = IF lp.mail_from_rejected THEN Unmarked(st) ELSE Unmarked(st) \ {r}
    <3>1. CASE lp.mail_from_rejected
      BY <1>0, <2>1, <3>1
    <3>2. CASE ~lp.mail_from_rejected
      <4>1. reply \in Refusal /\ t = smtp_rcpt_fail(st, r, reply) /\ r \in Unmarked(st)
        BY <1>5, <1>6, <1>14, <2>1, <3>2 DEF Refusal
      <4>2. Failed(st, t) /\ Unmarked(t) = Unmarked(st) \ {r} /\ t.final_server = st.final_server
            /\ t.hop_status = st.hop_status
        BY <1>0, <4>1, RcptFailOK
      <4> QED BY <1>0, <3>2, <4>2 DEF Failed
    <3> QED BY <3>1, <3>2
  <2>7. SameSender(lp, m)
    BY <2>4 DEF SameSender
  <2>8. u.rcpts = srv.rcpts
    BY <1>12, <1>14
  <2>9. Talks(m, t, sf, u, "recv")
    BY <1>0, <1>2, <1>9, <1>11, <1>12, <2>2, <2>4, <2>6, <2>7, <2>8, RcptBadTalk
  <2>10. Taken(t, u)
    BY <1>0, <1>12, <2>6, TakenSame
  <2> QED BY <1>8, <2>4, <2>5, <2>6, <2>9, <2>10, ReadOK
<1> QED BY <1>13, <1>14

\* The reply to DATA: when it is a refusal everybody is decided.
LEMMA DataReplyOK ==
    ASSUME NEW u, Reading(u), srv.wire # <<>>, lp.recv_state = "DATA",
           NEW reply \in Replies(Head(srv.wire)), Replied(srv, Head(srv.wire), reply, u),
           NEW se, Dims(ses, se), DataReply(reply, se), srv' = u, pc' = "recv"
    PROVE  Moves(st, ses, st', ses', lp', srv', pc')
<1>0. /\ st \in StType /\ lp \in LoopType /\ srv \in SrvType /\ srv.wire \in Seq(CommandType)
      /\ Account(st) /\ Taken(st, srv) /\ Fair(st) /\ cfg \in Setups
      /\ Talks(lp, st, ses, srv, "recv") /\ SENDER_IS_AHEAD(lp) /\ ~st.hop_status
      /\ Hears(lp, st, srv.wire) /\ ses.xfer /\ Receiver(lp, st) /\ Agreed(lp, st, srv)
  BY Hearing DEF Reading, Talks, SrvType
<1>1. Head(srv.wire).cmd = "DATA"
  BY <1>0 DEF Hears
<1>2. reply \in Reply /\ (reply = "ok" => cfg.smtp_mode \/ srv.rcpts # <<>>)
  BY <1>1 DEF Replies, Refusal, Reply
<1>3. u.wire = Tail(srv.wire) /\ u.mail = srv.mail /\ u.unseen = srv.unseen
      /\ u.accepted = srv.accepted /\ u.rcpts = srv.rcpts
  BY <1>1 DEF Replied
<1>4. /\ lp.nrcpt = Len(lp.survivors) /\ lp.nrcpt \in Nat /\ lp.recv_rcpt = Len(st.list)
      /\ lp.recv_done = 0
  <2>1. lp.nrcpt = Len(lp.survivors) /\ lp.recv_rcpt = Len(st.list) /\ lp.recv_done = 0
    BY <1>0 DEF Receiver, Receiving
  <2>2. lp.survivors \in Seq(Nat)
    BY <1>0 DEF LoopType
  <2>3. Len(lp.survivors) \in Nat
    BY <2>2
  <2> QED BY <2>1, <2>3
<1>5. lp.nrcpt = 0 => Unmarked(st) = {}
  <2> SUFFICES ASSUME lp.nrcpt = 0 PROVE Unmarked(st) = {}
    OBVIOUS
  <2>1. Len(lp.survivors) = 0 /\ lp.recv_done = 0
    BY <1>4
  <2>2. PICK n \in Nat : n = Len(st.list)
    BY <1>0, Listed
  <2>3. (n + 1)..n = {} /\ (0 + 1)..0 = {}
    OBVIOUS
  <2>4. Survivors(lp) = {}
    BY <2>1, <2>3 DEF Survivors
  <2>5. Open(lp, n) = {}
    BY <1>4, <2>2, <2>3, <2>4 DEF Open
  <2> QED BY <1>0, <2>2, <2>5 DEF Receiver, Undecided, At
<1>6. CASE reply # "ok"
  <2>1. PICK t : t = IF lp.nrcpt > 0 THEN smtp_mesg_fail(st, reply) ELSE st
    OBVIOUS
  <2>2. PICK sf : sf = IF lp.nrcpt > 0 THEN smtp_check_code(se, reply) ELSE se
    OBVIOUS
  <2>2a. PICK z \in Int : z = -1
    OBVIOUS
  <2>3. PICK m : m = [[lp EXCEPT !.recv_state = "DOT", !.nrcpt = z] EXCEPT !.ctx = "loop"]
    OBVIOUS
  <2>4. st' = t /\ ses' = sf /\ lp' = m
    BY <1>6, <2>1, <2>2, <2>2a, <2>3 DEF DataReply, Received
  <2>5. Dims(ses, sf)
    BY <2>2, CheckedOK
  <2>6. sf.xfer /\ (Cached(sf) => Cached(ses))
    BY <1>0, <2>5 DEF Dims
  <2>7. /\ t \in StType /\ Account(t) /\ Fair(t) /\ t.list = st.list /\ ~t.hop_status
        /\ t.final_server = st.final_server /\ t.fate["sent"] = st.fate["sent"]
        /\ Unmarked(t) = {}
    <3>1. CASE lp.nrcpt > 0
      <4>1. reply \in Refusal /\ t = smtp_mesg_fail(st, reply)
        BY <1>2, <1>6, <2>1, <3>1 DEF Refusal
      <4>2. Failed(st, t) /\ Unmarked(t) = {} /\ t.final_server = st.final_server
            /\ t.hop_status = st.hop_status
        BY <1>0, <4>1, MesgFailOK
      <4> QED BY <1>0, <4>2 DEF Failed
    <3>2. CASE ~(lp.nrcpt > 0)
      <4>1. lp.nrcpt = 0
        BY <1>4, <3>2
      <4> QED BY <1>0, <1>5, <2>1, <3>2, <4>1
    <3> QED BY <3>1, <3>2
  <2>8. /\ m \in LoopType /\ m.recv_state = "DOT" /\ m.ctx = "loop" /\ m.recv_rcpt = lp.recv_rcpt
        /\ m.nrcpt = z /\ m.survivors = lp.survivors
        /\ m.send_state = lp.send_state /\ m.send_rcpt = lp.send_rcpt
        /\ m.next_state = lp.next_state /\ m.next_rcpt = lp.next_rcpt /\ m.except = lp.except
        /\ m.recv_done = lp.recv_done /\ m.mail_from_rejected = lp.mail_from_rejected
    BY <1>0, <2>3 DEF LoopType, StateName
  <2>9. SameSender(lp, m)
    BY <2>8 DEF SameSender
  <2>10. Talks(m, t, sf, u, "recv")
    BY <1>0, <1>3, <2>2a, <2>6, <2>7, <2>8, <2>9, DataTalk
  <2>11. Taken(t, u)
    BY <1>0, <1>3, <2>7, TakenSame
  <2> QED BY <2>4, <2>5, <2>7, <2>8, <2>10, <2>11, ReadOK
<1>7. CASE reply = "ok" /\ Probe("DATA")
  <2>1. PICK t : t = smtp_rcpt_done(st, Unmarked(st))
    OBVIOUS
  <2>2. PICK sf : sf = DontCache(se)
    OBVIOUS
  <2>3. PICK n \in Int : n = Len(st.list)
    BY <1>0, Listed
  <2>4. PICK m : m = [[lp EXCEPT !.recv_state = "LAST", !.send_state = "LAST", !.nrcpt = n]
                         EXCEPT !.ctx = "loop"]
    OBVIOUS
  <2>5. st' = t /\ ses' = sf /\ lp' = m
    BY <1>7, <2>1, <2>2, <2>3, <2>4 DEF DataReply, Received
  <2>6. Dims(ses, sf)
    <3>1. Dims(se, sf)
      BY <2>2, DimsOK DEF Dims
    <3> QED BY <3>1, DimsTwice
  <2>7. sf.xfer
    BY <1>0, <2>6 DEF Dims
  <2>8. Done(st, Unmarked(st), t)
    BY <1>0, <2>1, UnmarkedType, RcptDoneOK
  <2>9. /\ t \in StType /\ Account(t) /\ Fair(t) /\ t.list = st.list /\ ~t.hop_status
        /\ t.final_server = st.final_server /\ Unmarked(t) = {}
    BY <1>0, <2>8 DEF Done
  <2>10. /\ m \in LoopType /\ m.recv_state = "LAST" /\ m.send_state = "LAST" /\ m.ctx = "loop"
         /\ m.recv_rcpt = lp.recv_rcpt /\ m.nrcpt = n /\ m.survivors = lp.survivors
         /\ m.send_rcpt = lp.send_rcpt /\ m.next_rcpt = lp.next_rcpt /\ m.except = lp.except
         /\ m.mail_from_rejected = lp.mail_from_rejected
    BY <1>0, <2>4 DEF LoopType, StateName
  <2>11. Talks(m, t, sf, u, "recv")
    BY <1>0, <1>3, <2>3, <2>7, <2>9, <2>10, ProbeTalk
  <2>12. Taken(t, u)
    <3>1. ~Probe("no")
      BY <1>7 DEF Probe
    <3> QED BY <1>0, <1>3, <3>1, TakenProbe
  <2> QED BY <2>5, <2>6, <2>9, <2>10, <2>11, <2>12, ReadOK
<1>8. CASE reply = "ok" /\ ~Probe("DATA")
  <2>1. PICK m : m = [[lp EXCEPT !.recv_state = "DOT"] EXCEPT !.ctx = "loop"]
    OBVIOUS
  <2>2. st' = st /\ ses' = se /\ lp' = m
    BY <1>8, <2>1 DEF DataReply, Received
  <2>3. se.xfer /\ (Cached(se) => Cached(ses))
    BY <1>0 DEF Dims
  <2>4. /\ m \in LoopType /\ m.recv_state = "DOT" /\ m.ctx = "loop" /\ m.recv_rcpt = lp.recv_rcpt
        /\ m.nrcpt = lp.nrcpt /\ m.survivors = lp.survivors
        /\ m.send_state = lp.send_state /\ m.send_rcpt = lp.send_rcpt
        /\ m.next_state = lp.next_state /\ m.next_rcpt = lp.next_rcpt /\ m.except = lp.except
        /\ m.recv_done = lp.recv_done /\ m.mail_from_rejected = lp.mail_from_rejected
    BY <1>0, <2>1 DEF LoopType, StateName
  <2>5. SameSender(lp, m)
    BY <2>4 DEF SameSender
  <2>6. m.nrcpt \in {-1, lp.nrcpt} /\ m.nrcpt # -1
    BY <1>4, <2>4
  <2>7. m.nrcpt # -1 => ~Probe("DATA") /\ (cfg.smtp_mode \/ srv.rcpts # <<>>)
    BY <1>2, <1>8
  <2>8. Unmarked(st) = IF m.nrcpt = -1 THEN {} ELSE Unmarked(st)
    BY <2>6
  <2>9. Talks(m, st, se, u, "recv")
    BY <1>0, <1>3, <2>3, <2>4, <2>5, <2>6, <2>7, <2>8, DataTalk
  <2>10. Taken(st, u)
    BY <1>0, <1>3, TakenSame
  <2> QED BY <1>0, <2>2, <2>4, <2>9, <2>10, ReadOK
<1> QED BY <1>6, <1>7, <1>8

\* What a server accepts now it has not accepted before.
LEMMA TakenMore ==
    ASSUME NEW s, NEW t, NEW v \in SrvType, NEW u, Taken(s, v), Probe("no"),
           NEW e \in Seq(Rcpt), \A i, j \in 1..Len(e) : e[i] = e[j] => i = j,
           ToSet(e) \cap s.fate["sent"] = {},
           u.accepted = v.accepted \o e, t.fate["sent"] = s.fate["sent"] \cup ToSet(e)
    PROVE  Taken(t, u)
<1>1. PICK a \in Seq(Rcpt) : a = v.accepted
  BY DEF SrvType
<1>2. PICK na \in Nat : na = Len(a)
  BY <1>1
<1>3. PICK ne \in Nat : ne = Len(e)
  OBVIOUS
<1>4. PICK b \in Seq(Rcpt) : b = a \o e
  BY ConcatProperties
<1>5. Len(b) = na + ne /\ (\A i \in 1..na : b[i] = a[i]) /\ (\A i \in 1..ne : b[na + i] = e[i])
  BY <1>2, <1>3, <1>4
<1>6. ToSet(a) = {a[i] : i \in 1..na} /\ ToSet(e) = {e[i] : i \in 1..ne}
      /\ ToSet(b) = {b[i] : i \in 1..(na + ne)}
  <2>1. DOMAIN a = 1..na /\ DOMAIN e = 1..ne /\ DOMAIN b = 1..(na + ne)
    BY <1>2, <1>3, <1>5
  <2>2. ToSet(a) = {a[i] : i \in 1..na}
    BY <2>1 DEF ToSet
  <2>3. ToSet(e) = {e[i] : i \in 1..ne}
    BY <2>1 DEF ToSet
  <2>4. ToSet(b) = {b[i] : i \in 1..(na + ne)}
    BY <2>1 DEF ToSet
  <2> QED BY <2>2, <2>3, <2>4
<1>7. \A i, j \in 1..na : a[i] = a[j] => i = j
  BY <1>1, <1>2 DEF Taken
<1>8. ToSet(a) = s.fate["sent"]
  BY <1>1 DEF Taken
<1>9. ASSUME NEW i \in 1..(na + ne), i \notin 1..na
      PROVE  i - na \in 1..ne /\ b[i] = e[i - na] /\ b[i] \in ToSet(e)
  <2>1. i - na \in 1..ne /\ na + (i - na) = i
    BY <1>9
  <2>2. b[na + (i - na)] = e[i - na]
    BY <1>5, <2>1
  <2> QED BY <1>6, <2>1, <2>2
<1>10. ASSUME NEW i \in 1..na PROVE b[i] = a[i] /\ b[i] \in ToSet(a)
  BY <1>5, <1>6
<1>11. ASSUME NEW i \in 1..(na + ne), NEW j \in 1..(na + ne), b[i] = b[j] PROVE i = j
  <2>1. CASE i \in 1..na /\ j \in 1..na
    BY <1>7, <1>10, <1>11, <2>1
  <2>2. CASE i \in 1..na /\ j \notin 1..na
    BY <1>8, <1>9, <1>10, <1>11, <2>2
  <2>3. CASE i \notin 1..na /\ j \in 1..na
    BY <1>8, <1>9, <1>10, <1>11, <2>3
  <2>4. CASE i \notin 1..na /\ j \notin 1..na
    <3>1. e[i - na] = e[j - na] /\ i - na \in 1..ne /\ j - na \in 1..ne
      BY <1>9, <1>11, <2>4
    <3>2. i - na = j - na
      BY <1>3, <3>1
    <3> QED BY <3>2
  <2> QED BY <2>1, <2>2, <2>3, <2>4
<1>12. ToSet(b) = ToSet(a) \cup ToSet(e)
  <2>1. ASSUME NEW i \in 1..(na + ne) PROVE b[i] \in ToSet(a) \cup ToSet(e)
    BY <1>9, <1>10
  <2>2. ASSUME NEW i \in 1..na PROVE a[i] \in ToSet(b)
    <3>1. i \in 1..(na + ne)
      OBVIOUS
    <3> QED BY <1>5, <1>6, <3>1
  <2>3. ASSUME NEW i \in 1..ne PROVE e[i] \in ToSet(b)
    <3>1. na + i \in 1..(na + ne)
      OBVIOUS
    <3> QED BY <1>5, <1>6, <3>1
  <2>4. ToSet(b) \subseteq ToSet(a) \cup ToSet(e)
    <3> SUFFICES ASSUME NEW x \in ToSet(b) PROVE x \in ToSet(a) \cup ToSet(e)
      OBVIOUS
    <3>1. PICK i \in 1..(na + ne) : x = b[i]
      BY <1>6
    <3> QED BY <2>1, <3>1
  <2>5. ToSet(a) \subseteq ToSet(b)
    <3> SUFFICES ASSUME NEW x \in ToSet(a) PROVE x \in ToSet(b)
      OBVIOUS
    <3>1. PICK i \in 1..na : x = a[i]
      BY <1>6
    <3> QED BY <2>2, <3>1
  <2>6. ToSet(e) \subseteq ToSet(b)
    <3> SUFFICES ASSUME NEW x \in ToSet(e) PROVE x \in ToSet(b)
      OBVIOUS
    <3>1. PICK i \in 1..ne : x = e[i]
      BY <1>6
    <3> QED BY <2>3, <3>1
  <2> QED BY <2>4, <2>5, <2>6
<1>13. u.accepted = b /\ t.fate["sent"] = ToSet(b)
  BY <1>1, <1>4, <1>8, <1>12
<1>14. \A i, j \in 1..Len(u.accepted) : u.accepted[i] = u.accepted[j] => i = j
  BY <1>5, <1>11, <1>13
<1> QED BY <1>13, <1>14 DEF Taken

\* SMTP: the server has the recipients that have no mark.
LEMMA Deliver ==
    ASSUME NEW s \in StType, Account(s), NEW l \in LoopType, NEW v \in SrvType, Receiver(l, s),
           l.recv_state = "DOT", l.nrcpt >= 0, cfg.smtp_mode, Agreed(l, s, v)
    PROVE  /\ v.rcpts \in Seq(Rcpt) /\ Len(v.rcpts) = l.nrcpt
           /\ \A i, j \in 1..Len(v.rcpts) : v.rcpts[i] = v.rcpts[j] => i = j
           /\ ToSet(v.rcpts) = Unmarked(s)
<1>1. PICK R \in Seq(Rcpt) : R = v.rcpts
  BY DEF SrvType
<1>2. PICK n \in Nat : n = Len(s.list)
  BY Listed
<1>3. PICK q \in Nat : q = l.nrcpt
  BY DEF LoopType
<1>4. l.recv_done = 0
  BY DEF Receiver, Receiving
<1>5. /\ q = Len(l.survivors)
      /\ Open(l, n) = {l.survivors[j] : j \in 1..q}
      /\ \A i \in 1..q : l.survivors[i] \in 1..n
      /\ \A i, j \in 1..q : l.survivors[i] = l.survivors[j] => i = j
  <2>1. /\ l.nrcpt = Len(l.survivors)
        /\ Open(l, Len(s.list)) = {l.survivors[j] : j \in (l.recv_done + 1)..l.nrcpt}
        /\ \A i \in 1..l.nrcpt : l.survivors[i] \in 1..Len(s.list)
        /\ \A i, j \in 1..l.nrcpt : l.survivors[i] = l.survivors[j] => i = j
    BY Waiting
  <2>2. l.recv_done + 1 = 1
    BY <1>4
  <2> QED BY <1>2, <1>3, <2>1, <2>2
<1>6. Len(R) = q /\ \A i \in 1..q : R[i] = s.list[l.survivors[i]]
  BY <1>1, <1>3, <1>5 DEF Agreed
<1>7. ToSet(R) = {R[i] : i \in 1..q}
  BY <1>6 DEF ToSet
<1>8. Unmarked(s) = {s.list[i] : i \in Open(l, n)}
  BY <1>2 DEF Receiver, Undecided, At
<1>9. ToSet(R) = Unmarked(s)
  BY <1>5, <1>6, <1>7, <1>8, SMTT(30)
<1>10. ASSUME NEW i \in 1..q, NEW j \in 1..q, R[i] = R[j] PROVE i = j
  <2>1. s.list[l.survivors[i]] = s.list[l.survivors[j]]
    BY <1>6, <1>10
  <2>2. l.survivors[i] = l.survivors[j]
    BY <1>2, <1>5, <2>1 DEF Account
  <2> QED BY <1>5, <2>2
<1> QED BY <1>1, <1>3, <1>6, <1>9, <1>10

\* After end-of-data the receiver waits for QUIT only when that reply will be read.
LEMMA AfterDotOK ==
    ASSUME NEW sf, NEW l
    PROVE  /\ AfterDot(sf, l) \in {"QUIT", "LAST"}
           /\ AfterDot(sf, l) = "QUIT" => ~cfg.skip_quit_resp /\ ~Cached(sf) /\ ~l.except
<1>1. CASE cfg.skip_quit_resp \/ Cached(sf) \/ l.except
  BY <1>1 DEF AfterDot
<1>2. CASE ~(cfg.skip_quit_resp \/ Cached(sf) \/ l.except)
  BY <1>2 DEF AfterDot
<1> QED BY <1>1, <1>2

\* Who is undecided was not sent.
LEMMA NoneUndecided ==
    ASSUME NEW s \in StType, Account(s)
    PROVE  Unmarked(s) \cap s.fate["sent"] = {}
<1>1. s.fate["sent"] \subseteq Decided(s)
  BY DEF Decided
<1>2. Decided(s) \cap ToSet(s.list) = s.drop
  BY DEF Account
<1> QED BY <1>1, <1>2 DEF Unmarked, Marked

\* What the reply means for the server.
Judged(reply, u) ==
    /\ u.unseen = srv.unseen
    /\ reply # "ok" => u.accepted = srv.accepted
    /\ reply = "ok" => u.accepted = srv.accepted \o
          IF cfg.smtp_mode THEN srv.rcpts ELSE <<st.list[lp.survivors[lp.recv_done + 1]]>>

\* SMTP: one reply to end-of-data, about all recipients who are left.
LEMMA SmtpDotOK ==
    ASSUME NEW u, Reading(u), lp.recv_state = "DOT", Closing(lp, st.list, srv.wire, ses), cfg.smtp_mode,
           NEW reply \in Reply, Judged(reply, u), EndTail(lp, srv, u),
           NEW se, Dims(ses, se), DotReply(reply, se), srv' = u, pc' = "recv"
    PROVE  Moves(st, ses, st', ses', lp', srv', pc')
<1>0. /\ st \in StType /\ lp \in LoopType /\ srv \in SrvType
      /\ Account(st) /\ Taken(st, srv) /\ Fair(st) /\ cfg \in Setups
      /\ Talks(lp, st, ses, srv, "recv") /\ SENDER_IS_AHEAD(lp) /\ ~st.hop_status
      /\ ses.xfer /\ Receiver(lp, st) /\ Agreed(lp, st, srv)
  BY DEF Reading, Talks
<1>1. lp.nrcpt >= 0 /\ lp.nrcpt \in Nat /\ Ending(lp, st.list, ses)
  BY <1>0 DEF Closing, Ending, LoopType
<1>2. /\ srv.rcpts \in Seq(Rcpt) /\ Len(srv.rcpts) = lp.nrcpt
      /\ \A i, j \in 1..Len(srv.rcpts) : srv.rcpts[i] = srv.rcpts[j] => i = j
      /\ ToSet(srv.rcpts) = Unmarked(st)
  BY <1>0, <1>1, Deliver
<1>3. Probe("no")
  <2>1. ~Probe("RCPT") /\ ~Probe("DATA")
    BY <1>0, <1>1, Waiting
  <2>2. cfg \in Setup
    BY <1>0, SetupsAssumption
  <2>3. cfg.vrfy \in {"no", "RCPT", "DATA"}
    BY <2>2 DEF Setup
  <2> QED BY <2>1, <2>3 DEF Probe
<1>4. PICK sf : sf = IF lp.nrcpt > 0 THEN smtp_check_code(se, reply) ELSE se
  OBVIOUS
<1>5. Dims(ses, sf)
  BY <1>4, CheckedOK
<1>6. sf.xfer /\ (Cached(sf) => Cached(ses))
  BY <1>0, <1>5 DEF Dims
<1>7. PICK state \in {"QUIT", "LAST"} : state = AfterDot(sf, lp)
  BY AfterDotOK
<1>8. state = "QUIT" => ~cfg.skip_quit_resp /\ ~Cached(sf) /\ ~lp.except
  BY <1>7, AfterDotOK
<1>9. PICK m : m = [[lp EXCEPT !.recv_state = state] EXCEPT !.ctx = "loop"]
  OBVIOUS
<1>10. PICK t : t = IF lp.nrcpt <= 0 THEN st
                    ELSE IF reply = "ok" THEN smtp_rcpt_done(st, Unmarked(st))
                    ELSE smtp_mesg_fail(st, reply)
  OBVIOUS
<1>11. st' = t /\ ses' = sf /\ lp' = m
  BY <1>4, <1>7, <1>9, <1>10 DEF DotReply, Received
<1>12. /\ m \in LoopType /\ m.recv_state = state /\ m.ctx = "loop" /\ m.recv_rcpt = lp.recv_rcpt
       /\ m.nrcpt = lp.nrcpt /\ m.survivors = lp.survivors
       /\ m.send_state = lp.send_state /\ m.send_rcpt = lp.send_rcpt
       /\ m.next_state = lp.next_state /\ m.next_rcpt = lp.next_rcpt /\ m.except = lp.except
       /\ m.mail_from_rejected = lp.mail_from_rejected
  <2>1. state \in StateName
    BY DEF StateName
  <2> QED BY <1>0, <1>9, <2>1 DEF LoopType
<1>13. SameSender(lp, m)
  BY <1>12 DEF SameSender
<1>14. Count(lp, st.list) = 1
  BY DEF Count
<1>15. /\ t \in StType /\ Account(t) /\ Fair(t) /\ t.list = st.list /\ ~t.hop_status
       /\ t.final_server = st.final_server /\ Unmarked(t) = {} /\ Taken(t, u)
  <2>1. CASE lp.nrcpt <= 0
    <3>1. lp.nrcpt = 0
      BY <1>1, <2>1
    <3>2. srv.rcpts = <<>>
      BY <1>2, <3>1
    <3>3. Unmarked(st) = {}
      BY <1>2, <3>2 DEF ToSet
    <3>4. u.accepted = srv.accepted /\ u.unseen = srv.unseen
      <4>1. PICK a \in Seq(Rcpt) : a = srv.accepted
        BY <1>0 DEF SrvType
      <4>2. a \o <<>> = a
        BY ConcatEmptySeq
      <4> QED BY <3>2, <4>1, <4>2 DEF Judged
    <3>5. Taken(st, u)
      BY <1>0, <3>4, TakenSame
    <3> QED BY <1>0, <1>10, <2>1, <3>3, <3>5
  <2>2. CASE ~(lp.nrcpt <= 0) /\ reply = "ok"
    <3>1. t = smtp_rcpt_done(st, Unmarked(st))
      BY <1>10, <2>2
    <3>2. Done(st, Unmarked(st), t)
      BY <1>0, <3>1, UnmarkedType, RcptDoneOK
    <3>3. u.accepted = srv.accepted \o srv.rcpts
      BY <2>2 DEF Judged
    <3>4. t.fate["sent"] = st.fate["sent"] \cup ToSet(srv.rcpts)
      BY <1>2, <3>2 DEF Done
    <3>5. ToSet(srv.rcpts) \cap st.fate["sent"] = {}
      BY <1>0, <1>2, NoneUndecided
    <3>6. Taken(t, u)
      BY <1>0, <1>2, <1>3, <3>3, <3>4, <3>5, TakenMore
    <3> QED BY <1>0, <3>2, <3>6 DEF Done
  <2>3. CASE ~(lp.nrcpt <= 0) /\ reply # "ok"
    <3>1. reply \in Refusal /\ t = smtp_mesg_fail(st, reply)
      BY <1>10, <2>3 DEF Refusal
    <3>2. Failed(st, t) /\ Unmarked(t) = {} /\ t.final_server = st.final_server
          /\ t.hop_status = st.hop_status
      BY <1>0, <3>1, MesgFailOK
    <3>3. u.accepted = srv.accepted /\ u.unseen = srv.unseen
      BY <2>3 DEF Judged
    <3>4. Taken(t, u)
      BY <1>0, <3>2, <3>3, TakenSame DEF Failed
    <3> QED BY <1>0, <3>2, <3>4 DEF Failed
  <2> QED BY <2>1, <2>2, <2>3
<1>16. Talks(m, t, sf, u, "recv")
  BY <1>0, <1>6, <1>8, <1>12, <1>13, <1>14, <1>15, EndTalk
<1> QED BY <1>5, <1>11, <1>12, <1>15, <1>16, ReadOK

\* LMTP: the reply to end-of-data is about one recipient.
LEMMA LmtpDotOK ==
    ASSUME NEW u, Reading(u), lp.recv_state = "DOT", Closing(lp, st.list, srv.wire, ses), ~cfg.smtp_mode,
           NEW reply \in Reply, Judged(reply, u), EndTail(lp, srv, u),
           NEW se, Dims(ses, se), DotReply(reply, se), srv' = u, pc' = "recv"
    PROVE  Moves(st, ses, st', ses', lp', srv', pc')
<1>0. /\ st \in StType /\ lp \in LoopType /\ srv \in SrvType
      /\ Account(st) /\ Taken(st, srv) /\ Fair(st) /\ cfg \in Setups
      /\ Talks(lp, st, ses, srv, "recv") /\ SENDER_IS_AHEAD(lp) /\ ~st.hop_status
      /\ ses.xfer /\ Receiver(lp, st)
  BY DEF Reading, Talks
<1>1. lp.nrcpt > 0 /\ lp.nrcpt \in Nat /\ lp.recv_done \in Nat
  <2>1. lp.nrcpt >= 0 /\ lp.nrcpt \in Int /\ lp.recv_done \in Nat
    BY <1>0 DEF Closing, Ending, LoopType
  <2>2. lp.nrcpt # 0
    BY <1>0 DEF Receiver, Receiving
  <2> QED BY <2>1, <2>2
<1>2. PICK n \in Nat : n = Len(st.list)
  BY <1>0, Listed
<1>3. /\ ~Probe("RCPT") /\ ~Probe("DATA") /\ lp.recv_done < lp.nrcpt
      /\ Open(lp, n) = {lp.survivors[j] : j \in (lp.recv_done + 1)..lp.nrcpt}
      /\ \A i \in 1..lp.nrcpt : lp.survivors[i] \in 1..n
  <2>1. /\ ~Probe("RCPT") /\ ~Probe("DATA")
        /\ Open(lp, Len(st.list)) = {lp.survivors[j] : j \in (lp.recv_done + 1)..lp.nrcpt}
        /\ lp.nrcpt > 0 => lp.recv_done < lp.nrcpt
        /\ \A i \in 1..lp.nrcpt : lp.survivors[i] \in 1..Len(st.list)
    <3>1. lp.nrcpt >= 0
      BY <1>1
    <3> QED BY <1>0, <3>1, Waiting
  <2> QED BY <1>1, <1>2, <2>1
<1>4. Probe("no")
  <2>1. cfg \in Setup
    BY <1>0, SetupsAssumption
  <2>2. cfg.vrfy \in {"no", "RCPT", "DATA"}
    BY <2>1 DEF Setup
  <2> QED BY <1>3, <2>2 DEF Probe
<1>5. PICK r : r = st.list[lp.survivors[lp.recv_done + 1]]
  OBVIOUS
<1>6. Unmarked(st) = {st.list[i] : i \in Open(lp, n)}
  BY <1>0, <1>2 DEF Receiver, Undecided, At
<1>7. r \in Unmarked(st) /\ r \in Rcpt
  <2>1. lp.recv_done + 1 \in (lp.recv_done + 1)..lp.nrcpt
    BY <1>1, <1>3
  <2>2. r \in Unmarked(st)
    BY <1>3, <1>5, <1>6, <2>1
  <2> QED BY <1>0, <2>2, UnmarkedType
<1>8. PICK sf : sf = IF lp.nrcpt > 0 THEN smtp_check_code(se, reply) ELSE se
  OBVIOUS
<1>9. Dims(ses, sf)
  BY <1>8, CheckedOK
<1>10. sf.xfer /\ (Cached(sf) => Cached(ses))
  BY <1>0, <1>9 DEF Dims
<1>11. PICK state : state = IF lp.recv_done + 1 < lp.nrcpt THEN "DOT" ELSE AfterDot(sf, lp)
  OBVIOUS
<1>12. state \in StateName /\ (lp.recv_done + 1 < lp.nrcpt => state = "DOT")
       /\ (~(lp.recv_done + 1 < lp.nrcpt) => state \in {"QUIT", "LAST"})
       /\ (state = "QUIT" => ~cfg.skip_quit_resp /\ ~Cached(sf) /\ ~lp.except)
  BY <1>11, AfterDotOK DEF StateName
<1>13. PICK d \in Nat : d = lp.recv_done + 1
  BY <1>1
<1>14. PICK m : m = [[lp EXCEPT !.recv_done = d, !.recv_state = state] EXCEPT !.ctx = "loop"]
  OBVIOUS
<1>15. PICK t : t = IF reply = "ok" THEN smtp_rcpt_done(st, {r}) ELSE smtp_rcpt_fail(st, r, reply)
  OBVIOUS
<1>16. st' = t /\ ses' = sf /\ lp' = m
  <2>1. /\ st' = IF lp.nrcpt <= 0 THEN st
                 ELSE IF reply = "ok" THEN smtp_rcpt_done(st, {r}) ELSE smtp_rcpt_fail(st, r, reply)
        /\ ses' = sf
        /\ lp' = [[lp EXCEPT !.recv_done = IF lp.nrcpt > 0 THEN @ + 1 ELSE @, !.recv_state = state]
                     EXCEPT !.ctx = "loop"]
    <3>1. lp.recv_state = "DOT"
      OBVIOUS
    <3>2. state = IF lp.recv_done + 1 < lp.nrcpt THEN lp.recv_state ELSE AfterDot(sf, lp)
      BY <1>11, <3>1
    <3> QED BY <1>5, <1>8, <3>2 DEF DotReply, Received
  <2>2. ~(lp.nrcpt <= 0)
    BY <1>1
  <2>3. st' = t
    BY <1>15, <2>1, <2>2
  <2>4. lp' = m
    BY <1>1, <1>13, <1>14, <2>1
  <2> QED BY <2>1, <2>3, <2>4
<1>17. /\ m \in LoopType /\ m.recv_state = state /\ m.ctx = "loop" /\ m.recv_rcpt = lp.recv_rcpt
       /\ m.nrcpt = lp.nrcpt /\ m.survivors = lp.survivors /\ m.recv_done = d
       /\ m.send_state = lp.send_state /\ m.send_rcpt = lp.send_rcpt
       /\ m.next_state = lp.next_state /\ m.next_rcpt = lp.next_rcpt /\ m.except = lp.except
       /\ m.mail_from_rejected = lp.mail_from_rejected
  BY <1>0, <1>12, <1>14 DEF LoopType
<1>18. SameSender(lp, m)
  BY <1>17 DEF SameSender
<1>19. /\ t \in StType /\ Account(t) /\ Fair(t) /\ t.list = st.list /\ ~t.hop_status
       /\ t.final_server = st.final_server /\ Unmarked(t) = Unmarked(st) \ {r} /\ Taken(t, u)
  <2>1. CASE reply = "ok"
    <3>1. {r} \in SUBSET Rcpt /\ {r} \subseteq Unmarked(st)
      BY <1>7
    <3>2. Done(st, {r}, t)
      BY <1>0, <1>15, <2>1, <3>1, RcptDoneOK
    <3>3. PICK e \in Seq(Rcpt) : e = <<r>>
      <4>1. PICK x \in Rcpt : x = r
        BY <1>7
      <4>2. <<x>> \in Seq(Rcpt)
        OBVIOUS
      <4> QED BY <4>1, <4>2
    <3>4. Len(e) = 1 /\ e[1] = r /\ ToSet(e) = {r}
      BY <3>3 DEF ToSet
    <3>5. \A i, j \in 1..Len(e) : e[i] = e[j] => i = j
      BY <3>4
    <3>6. u.accepted = srv.accepted \o e
      BY <1>5, <2>1, <3>3 DEF Judged
    <3>7. t.fate["sent"] = st.fate["sent"] \cup ToSet(e)
      BY <3>2, <3>4 DEF Done
    <3>8. ToSet(e) \cap st.fate["sent"] = {}
      BY <1>0, <1>7, <3>4, NoneUndecided
    <3>9. Taken(t, u)
      BY <1>0, <1>4, <3>5, <3>6, <3>7, <3>8, TakenMore
    <3> QED BY <1>0, <3>2, <3>9 DEF Done
  <2>2. CASE reply # "ok"
    <3>1. reply \in Refusal /\ t = smtp_rcpt_fail(st, r, reply)
      BY <1>15, <2>2 DEF Refusal
    <3>2. Failed(st, t) /\ Unmarked(t) = Unmarked(st) \ {r} /\ t.final_server = st.final_server
          /\ t.hop_status = st.hop_status
      BY <1>0, <1>7, <3>1, RcptFailOK
    <3>3. u.accepted = srv.accepted /\ u.unseen = srv.unseen
      BY <2>2 DEF Judged
    <3>4. Taken(t, u)
      BY <1>0, <3>2, <3>3, TakenSame DEF Failed
    <3> QED BY <1>0, <3>2, <3>4 DEF Failed
  <2> QED BY <2>1, <2>2
<1>20. Talks(m, t, sf, u, "recv")
  <2>1. CASE lp.recv_done + 1 < lp.nrcpt
    <3>1. state = "DOT" /\ Unmarked(t) = Unmarked(st) \ {st.list[lp.survivors[lp.recv_done + 1]]}
      BY <1>5, <1>12, <1>19, <2>1
    <3> QED BY <1>0, <1>10, <1>13, <1>17, <1>18, <1>19, <2>1, <3>1, DotNextTalk
  <2>2. CASE ~(lp.recv_done + 1 < lp.nrcpt)
    <3>1. lp.recv_done + 1 = lp.nrcpt /\ lp.nrcpt - lp.recv_done = 1
      BY <1>1, <1>3, <2>2
    <3>2. Count(lp, st.list) = 1
      BY <3>1 DEF Count
    <3>3. Unmarked(t) = {}
      <4>1. (lp.recv_done + 1)..lp.nrcpt = {lp.recv_done + 1}
        BY <1>1, <3>1
      <4>2. Open(lp, n) = {lp.survivors[lp.recv_done + 1]}
        BY <1>3, <4>1
      <4>3. Unmarked(st) = {r}
        BY <1>5, <1>6, <4>2
      <4> QED BY <1>19, <4>3
    <3>4. m.recv_state \in {"QUIT", "LAST"}
          /\ (m.recv_state = "QUIT" => ~cfg.skip_quit_resp /\ ~Cached(sf) /\ ~lp.except)
      BY <1>12, <1>17, <2>2
    <3> QED BY <1>0, <1>10, <1>17, <1>18, <1>19, <3>2, <3>3, <3>4, EndTalk
  <2> QED BY <2>1, <2>2
<1> QED BY <1>9, <1>16, <1>17, <1>19, <1>20, ReadOK

\* LMTP: a reply to end-of-data for each survivor, in their order.
LEMMA DotReplyOK ==
    ASSUME NEW u, Reading(u), lp.recv_state = "DOT", Closing(lp, st.list, srv.wire, ses),
           NEW reply \in Reply, Judged(reply, u), EndTail(lp, srv, u),
           NEW se, Dims(ses, se), DotReply(reply, se), srv' = u, pc' = "recv"
    PROVE  Moves(st, ses, st', ses', lp', srv', pc')
<1>1. CASE cfg.smtp_mode
  BY <1>1, SmtpDotOK
<1>2. CASE ~cfg.smtp_mode
  BY <1>2, LmtpDotOK
<1> QED BY <1>1, <1>2

\* The replies to RSET and QUIT decide nothing.
LEMMA OtherReplyOK ==
    ASSUME NEW u, Reading(u), srv.wire # <<>>, lp.recv_state \in {"ABORT", "QUIT"},
           NEW reply \in Reply, Replied(srv, Head(srv.wire), reply, u),
           NEW se, Dims(ses, se), OtherReply(se), srv' = u, pc' = "recv"
    PROVE  Moves(st, ses, st', ses', lp', srv', pc')
<1>0. /\ st \in StType /\ lp \in LoopType /\ srv \in SrvType /\ srv.wire \in Seq(CommandType)
      /\ Account(st) /\ Taken(st, srv) /\ Fair(st)
      /\ Talks(lp, st, ses, srv, "recv") /\ SENDER_IS_AHEAD(lp) /\ ~st.hop_status
      /\ Hears(lp, st, srv.wire) /\ Closing(lp, st.list, srv.wire, ses) /\ ses.xfer
  BY Hearing DEF Reading, Talks, SrvType
<1>1. Head(srv.wire).cmd \in {"ABORT", "QUIT"}
  BY <1>0 DEF Hears
<1>2. u.wire = Tail(srv.wire) /\ u.accepted = srv.accepted /\ u.unseen = srv.unseen
  BY <1>1 DEF Replied
<1>3. Unmarked(st) = {}
  BY <1>0, ClosedTalk DEF Closed
<1>4. PICK state \in {"QUIT", "LAST"} :
          state = IF lp.recv_state = "QUIT" \/ cfg.skip_quit_resp \/ Cached(se) THEN "LAST" ELSE "QUIT"
  OBVIOUS
<1>5. /\ lp.recv_state = "QUIT" => state = "LAST"
      /\ state = "QUIT" => ~cfg.skip_quit_resp /\ ~Cached(se)
  BY <1>4
<1>6. PICK m : m = [[lp EXCEPT !.recv_state = state] EXCEPT !.ctx = "loop"]
  OBVIOUS
<1>7. st' = st /\ ses' = se /\ lp' = m
  BY <1>0, <1>4, <1>6 DEF OtherReply, Received, LoopType
<1>8. /\ m \in LoopType /\ m.recv_state = state /\ m.ctx = "loop" /\ m.recv_rcpt = lp.recv_rcpt
      /\ m.nrcpt = lp.nrcpt /\ m.survivors = lp.survivors
      /\ m.send_state = lp.send_state /\ m.send_rcpt = lp.send_rcpt
      /\ m.next_state = lp.next_state /\ m.next_rcpt = lp.next_rcpt /\ m.except = lp.except
      /\ m.mail_from_rejected = lp.mail_from_rejected
  <2>1. state \in StateName
    BY DEF StateName
  <2> QED BY <1>0, <1>6, <2>1 DEF LoopType
<1>9. SameSender(lp, m)
  BY <1>8 DEF SameSender
<1>10. se.xfer /\ (Cached(se) => Cached(ses))
  BY <1>0 DEF Dims
<1>11. Talks(m, st, se, u, "recv")
  <2>1. CASE lp.recv_state = "QUIT"
    BY <1>0, <1>2, <1>3, <1>5, <1>8, <1>9, <1>10, <2>1, QuitTalk
  <2>2. CASE lp.recv_state = "ABORT"
    <3>1. Count(lp, st.list) = 1
      BY <2>2 DEF Count
    <3>2. ~lp.except
      BY <1>0, <2>2 DEF Closing, Ending
    <3>3. EndTail(lp, srv, u)
      BY <1>2 DEF EndTail
    <3> QED BY <1>0, <1>3, <1>5, <1>8, <1>9, <1>10, <2>2, <3>1, <3>2, <3>3, EndTalk
  <2> QED BY <2>1, <2>2
<1>12. Taken(st, u)
  BY <1>0, <1>2, TakenSame
<1> QED BY <1>0, <1>7, <1>8, <1>11, <1>12, ReadOK

\* A reply that breaks the protocol can only end the caching of the session.
LEMMA DoubtOK ==
    ASSUME ses \in SesType, NEW reply, NEW se \in Doubt(reply)
    PROVE  Dims(ses, se)
BY DimsOK DEF Doubt

\* A reply is received and handled, by the state of the receiver.
LEMMA RecvReplyOK ==
    ASSUME ProtoInv, RecvReply
    PROVE  Moves(st, ses, st', ses', lp', srv', pc')
<1>0. /\ st \in StType /\ ses \in SesType /\ lp \in LoopType /\ srv \in SrvType
      /\ srv.wire \in Seq(CommandType) /\ srv.wire # <<>> /\ pc' = "recv"
      /\ Account(st) /\ Taken(st, srv) /\ Fair(st) /\ cfg \in Setups
      /\ Talks(lp, st, ses, srv, "recv") /\ SENDER_IS_AHEAD(lp) /\ Receiver(lp, st)
      /\ Hears(lp, st, srv.wire)
      /\ (lp.recv_state \in {"DOT", "ABORT", "QUIT"} => Closing(lp, st.list, srv.wire, ses))
  <2>1. /\ st \in StType /\ ses \in SesType /\ lp \in LoopType /\ srv \in SrvType
        /\ srv.wire \in Seq(CommandType) /\ srv.wire # <<>> /\ pc' = "recv"
        /\ Account(st) /\ Taken(st, srv) /\ Fair(st) /\ cfg \in Setups
        /\ Talks(lp, st, ses, srv, "recv") /\ SENDER_IS_AHEAD(lp)
    BY DEF ProtoInv, TalkType, RecvReply, LoopPc, Talking, SrvType
  <2>2. /\ Receiver(lp, st) /\ Sends(lp, st.list)
        /\ Asking(lp, st.list, srv.wire) \/ Aborting(lp, srv.wire) \/ Closing(lp, st.list, srv.wire, ses)
    BY <2>1 DEF Talks
  <2> QED BY <2>1, <2>2, Hearing
<1>1. PICK reply \in Replies(Head(srv.wire)) :
          /\ \E se \in Doubt(reply) : Handle(reply, se)
          /\ srv' = Answered(Head(srv.wire), reply)
  BY DEF RecvReply
<1>2. PICK se \in Doubt(reply) : Handle(reply, se)
  BY <1>1
<1>3. Dims(ses, se)
  BY <1>0, DoubtOK
<1>4. reply \in Reply
  BY DEF Replies, Refusal, Reply
<1>5. PICK c : c = Head(srv.wire)
  OBVIOUS
<1>6. PICK u : u = Answered(c, reply)
  OBVIOUS
<1>7. c.cmd = lp.recv_state
      /\ (c.cmd = "RCPT" \/ (c.cmd = "DOT" /\ ~cfg.smtp_mode) => c.rcpt \in Rcpt)
  <2>1. c.cmd = lp.recv_state
    BY <1>0, <1>5 DEF Hears
  <2>2. CASE lp.recv_state = "RCPT"
    <3>1. c.rcpt = st.list[lp.recv_rcpt + 1]
      BY <1>0, <1>5, <2>2 DEF Hears
    <3>2. lp.recv_rcpt \in Nat /\ lp.recv_rcpt < Len(st.list)
      BY <1>0, <2>2 DEF Receiver, Receiving, LoopType
    <3>3. lp.recv_rcpt + 1 \in 1..Len(st.list)
      BY <1>0, <3>2, Listed
    <3> QED BY <1>0, <2>1, <3>1, <3>3, Listed
  <2>3. CASE lp.recv_state = "DOT" /\ ~cfg.smtp_mode
    <3>1. c.rcpt = st.list[lp.survivors[lp.recv_done + 1]]
      BY <1>0, <1>5, <2>3 DEF Hears
    <3>2. lp.nrcpt >= 0 /\ lp.nrcpt \in Nat /\ lp.recv_done \in Nat
      BY <1>0, <2>3 DEF Closing, Ending, LoopType
    <3>3. lp.nrcpt # 0
      BY <1>0, <2>3 DEF Receiver, Receiving
    <3>4. /\ lp.nrcpt > 0 => lp.recv_done < lp.nrcpt
          /\ \A i \in 1..lp.nrcpt : lp.survivors[i] \in 1..Len(st.list)
      BY <1>0, <2>3, <3>2, Waiting
    <3>5. lp.recv_done + 1 \in 1..lp.nrcpt
      BY <3>2, <3>3, <3>4
    <3> QED BY <1>0, <2>1, <3>1, <3>4, <3>5, Listed
  <2> QED BY <2>1, <2>2, <2>3
<1>8. Replied(srv, c, reply, u)
  BY <1>0, <1>4, <1>5, <1>6, <1>7, AnswerOK
<1>9. srv' = u
  BY <1>1, <1>5, <1>6
<1>10. Reading(u)
  BY <1>0, <1>8 DEF Reading, Replied
<1>11. CASE lp.recv_state = "MAIL"
  <2>1. MailReply(reply, se)
    BY <1>2, <1>11 DEF Handle
  <2> QED BY <1>0, <1>3, <1>4, <1>5, <1>8, <1>9, <1>10, <1>11, <2>1, MailReplyOK
<1>12. CASE lp.recv_state = "RCPT"
  <2>1. RcptReply(reply, se)
    BY <1>2, <1>12 DEF Handle
  <2> QED BY <1>0, <1>3, <1>5, <1>8, <1>9, <1>10, <1>12, <2>1, RcptReplyOK
<1>13. CASE lp.recv_state = "DATA"
  <2>1. DataReply(reply, se)
    BY <1>2, <1>13 DEF Handle
  <2> QED BY <1>0, <1>3, <1>5, <1>8, <1>9, <1>10, <1>13, <2>1, DataReplyOK
<1>14. CASE lp.recv_state = "DOT"
  <2>1. DotReply(reply, se)
    BY <1>2, <1>14 DEF Handle
  <2>2. ~cfg.smtp_mode => c.rcpt = st.list[lp.survivors[lp.recv_done + 1]]
    BY <1>0, <1>5, <1>14 DEF Hears
  <2>3. Judged(reply, u)
    <3>1. c.cmd = "DOT"
      BY <1>7, <1>14
    <3>2. u.unseen = srv.unseen /\ (reply # "ok" => u.accepted = srv.accepted)
      BY <1>8 DEF Replied
    <3>3. reply = "ok" => u.accepted = srv.accepted \o IF cfg.smtp_mode THEN srv.rcpts ELSE <<c.rcpt>>
      BY <1>8, <3>1 DEF Replied
    <3>4. CASE cfg.smtp_mode
      BY <3>2, <3>3, <3>4 DEF Judged
    <3>5. CASE ~cfg.smtp_mode
      BY <2>2, <3>2, <3>3, <3>5 DEF Judged
    <3> QED BY <3>4, <3>5
  <2>4. EndTail(lp, srv, u)
    BY <1>0, <1>8 DEF EndTail, Replied
  <2> QED BY <1>0, <1>3, <1>4, <1>9, <1>10, <1>14, <2>1, <2>3, <2>4, DotReplyOK
<1>15. CASE lp.recv_state \in {"ABORT", "QUIT"}
  <2>1. OtherReply(se)
    BY <1>2, <1>15 DEF Handle
  <2> QED BY <1>0, <1>3, <1>4, <1>5, <1>8, <1>9, <1>10, <1>15, <2>1, OtherReplyOK
<1>16. lp.recv_state \in {"MAIL", "RCPT", "DATA", "DOT", "ABORT", "QUIT"}
  BY <1>0 DEF Hears
<1> QED BY <1>11, <1>12, <1>13, <1>14, <1>15, <1>16

\* A reply that came before the lost connection inside the content.
LEMMA RecvPrematureOK ==
    ASSUME ProtoInv, RecvPremature
    PROVE  Moves(st, ses, st', ses', lp', srv', pc')
<1>0. /\ st \in StType /\ ses \in SesType /\ lp \in LoopType /\ srv \in SrvType
      /\ srv.wire = <<>> /\ lp.except /\ pc' = "recv" /\ srv' = srv
      /\ Account(st) /\ Taken(st, srv) /\ Fair(st) /\ cfg \in Setups
      /\ Talks(lp, st, ses, srv, "recv") /\ SENDER_IS_AHEAD(lp)
  BY DEF ProtoInv, TalkType, RecvPremature, LoopPc, Talking
<1>1. Closing(lp, st.list, srv.wire, ses)
  BY <1>0 DEF Talks, Asking, Aborting
<1>2. lp.recv_state = "DOT"
  <2>1. lp.recv_state \in {"DOT", "LAST"} /\ lp.send_state = "LAST" /\ lp.recv_rcpt = lp.send_rcpt
    BY <1>0, <1>1 DEF Closing, Ending
  <2> QED BY <1>0, <2>1, Ranks DEF SENDER_IS_AHEAD
<1>3. PICK reply \in Refusal : \E se \in Doubt(reply) : DotReply(reply, se)
  BY DEF RecvPremature
<1>4. PICK se \in Doubt(reply) : DotReply(reply, se)
  BY <1>3
<1>5. Dims(ses, se) /\ reply \in Reply /\ reply # "ok"
  BY <1>0, DoubtOK DEF Refusal, Reply
<1>6. Reading(srv) /\ Judged(reply, srv) /\ EndTail(lp, srv, srv)
  BY <1>0, <1>5 DEF Reading, Judged, EndTail
<1> QED BY <1>0, <1>1, <1>2, <1>4, <1>5, <1>6, DotReplyOK

\* Every step of smtp_loop().
LEMMA LoopMoves ==
    ASSUME ProtoInv, SmtpLoop
    PROVE  Moves(st, ses, st', ses', lp', srv', pc')
BY LoopTopOK, RecvReplyOK, RecvPrematureOK, RecvLostOK, SyncedOK, EmitNothingOK, EmitCommandOK,
   EmitBadContentOK, EmitLostContentOK, EmitLostOK DEF SmtpLoop

\* The setup is the same before and after a step.
LEMMA TalkingNext ==
    ASSUME cfg' = cfg, Talks(lp', st', ses', srv', pc')
    PROVE  Talking'
<1>1. Receiver(lp', st') => Receiver(lp, st)'
  BY DEF Receiver, Receiving, Undecided, Open, Closed, Survivors, Unmarked, Marked, At, Probe
<1>2. Sends(lp', st'.list) => Sends(lp, st.list)'
  BY DEF Sends
<1>3. Asking(lp', st'.list, srv'.wire) => Asking(lp, st.list, srv.wire)'
  BY DEF Asking, Early, Probe, SendPlace, RecvPlace, Place, CommandAt, Command, AfterRcpt
<1>4. Aborting(lp', srv'.wire) => Aborting(lp, srv.wire)'
  BY DEF Aborting
<1>5. Closing(lp', st'.list, srv'.wire, ses') => Closing(lp, st.list, srv.wire, ses)'
  BY DEF Closing, Ending, Owed, Count, Awaited, Probe, SendPlace, RecvPlace, Place, CommandAt,
         Command, AfterRcpt, Cached
<1>6. Planned(lp', st'.list, ses', pc') => Planned(lp, st.list, ses, pc)'
  BY DEF Planned, AfterRcpt, Probe, Cached
<1>7. Agreed(lp', st', srv') => Agreed(lp, st, srv)'
  BY DEF Agreed, Early, Probe
<1> QED BY <1>1, <1>2, <1>3, <1>4, <1>5, <1>6, <1>7 DEF Talking, Talks

\* What a step leaves behind is the invariant of the next state.
LEMMA ProtoNext ==
    ASSUME cfg \in Setups, cfg' = cfg, Fine(st', ses', lp', srv', pc')
    PROVE  ProtoInv'
<1>1. Account(st') => Account(st)'
  BY DEF Account, Decided, Marked
<1>2. Taken(st', srv') => Taken(st, srv)'
  BY DEF Taken, Probe
<1>3. Fair(st') => Fair(st)'
  BY DEF Fair
<1>4. TalkType'
  BY DEF Fine, TalkType
<1>5. pc' \in LoopPc => Talking' /\ Fair(st)'
  BY <1>3, TalkingNext DEF Fine
<1>6. pc' = "cleanup" =>
          /\ Unmarked(st)' = {} /\ Fair(st)'
          /\ lp' = NewLoop
          /\ Cached(ses') /\ ~ses'.broken => srv'.wire = <<>>
  <2>1. Unmarked(st)' = Unmarked(st')
    BY DEF Unmarked, Marked
  <2> QED BY <1>3, <2>1 DEF Fine
<1>7. Cached(ses') <=> Cached(ses)'
  BY DEF Cached
<1>8. LoopPc' = LoopPc /\ NewLoop' = NewLoop
  BY DEF LoopPc, NewLoop
<1> QED BY <1>1, <1>2, <1>4, <1>5, <1>6, <1>7, <1>8 DEF Fine, ProtoInv

\* The invariant of the conversation with one server.
LEMMA LoopStep ==
    ASSUME ProtoInv, SmtpLoop, cfg' = cfg
    PROVE  ProtoInv'
<1>1. Fine(st', ses', lp', srv', pc')
  BY LoopMoves DEF Moves
<1>2. cfg \in Setups
  BY DEF ProtoInv, TalkType
<1> QED BY <1>1, <1>2, ProtoNext

\* Changing nothing keeps the invariant.
LEMMA LoopStutter ==
    ASSUME ProtoInv, cfg' = cfg, protoVars' = protoVars
    PROVE  ProtoInv'
<1>1. st' = st /\ ses' = ses /\ lp' = lp /\ srv' = srv /\ pc' = pc
  BY DEF protoVars
<1>2. cfg \in Setups
  BY DEF ProtoInv, TalkType
<1>3. Fine(st', ses', lp', srv', pc')
  BY <1>1 DEF ProtoInv, Fine, TalkType, Talking, LoopPc
<1> QED BY <1>2, <1>3, ProtoNext

-----------------------------------------------------------------------------
(***************************************************************************)
(* The conversation by itself.                                             *)
(***************************************************************************)
\* Whatever the server replies and whenever it vanishes, smtp_loop() keeps its
\* invariant from the first MAIL FROM to the return: the sender and the receiver
\* agree on what is on the wire, the marks of smtp_rcpt.c account for each
\* recipient, and at the return everybody left over has been decided.
THEOREM LoopInvariant ==
    ProtoInv /\ [][SmtpLoop /\ cfg' = cfg]_<<cfg, protoVars>> => []ProtoInv
<1>1. ProtoInv /\ [SmtpLoop /\ cfg' = cfg]_<<cfg, protoVars>> => ProtoInv'
  BY LoopStep, LoopStutter
<1> QED
  BY <1>1, PTL

=============================================================================

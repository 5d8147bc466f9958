----------------------------- MODULE Submission ------------------------------
(***************************************************************************)
(* How mail enters the system: smtpd(8) and pickup(8) hand messages to     *)
(* cleanup(8), which commits them to the incoming queue, from where the    *)
(* queue manager takes them.  The question is who is responsible for a     *)
(* message, at every moment and whoever dies: the client until it is told  *)
(* that the message was accepted, the queue from then on.                  *)
(***************************************************************************)
EXTENDS Smtpd, Pickup

\* A message comes in with SMTP or is submitted locally; every message that
\* may come has a number, and no message has more recipients than MaxRcpt.
ASSUME SubmissionAssumption ==
    /\ Msg = Mail \cup Drop /\ Mail \cap Drop = {}
    /\ MaxRcpt > 0
    /\ \A s \in Setups : 1 .. s.mail \subseteq Mail /\ s.rcpt <= MaxRcpt /\ s.clean

vars == <<cleanupVars, smtpdVars, pickupVars>>

Init == CleanupInit /\ SmtpdInit /\ PickupInit

\* The machine stops: every process is gone, and what was not synced may be
\* lost.
PowerFails ==
    /\ PowerOff
    /\ sess' = NoSession
    /\ pick' = PickIdle
    /\ \E lost \in
         SUBSET {d \in Drop : drop[d].loc = "maildrop" /\ ~drop[d].synced} :
          drop' = [d \in Drop |->
                     [drop[d] EXCEPT !.torn = @ \/ d \in lost,
                        !.post = IF @ \in {"none", "done"} THEN @ ELSE "dead"]]
    /\ sent' = GivenUp(sess)
    /\ UNCHANGED told

Next ==
    \/ SmtpdNext /\ UNCHANGED pickupVars
    \/ PickupNext /\ UNCHANGED smtpdVars
    \/ \E p \in Proc : (CleanupStep(p) \/ CleanupTrouble(p)) /\ UNCHANGED <<smtpdVars, pickupVars>>
    \/ \E i \in File : QmgrTakes(i) /\ UNCHANGED <<smtpdVars, pickupVars>>
    \/ PowerFails

\* master(8) keeps the daemons running, so a process that can take a step
\* does; cleanup processes finish what they have begun.
Fairness ==
    /\ \A p \in Proc : WF_vars(CleanupStep(p) /\ UNCHANGED <<smtpdVars, pickupVars>>)
    /\ WF_vars(SmtpdFinish /\ UNCHANGED pickupVars)
    /\ WF_vars(PickupStep /\ UNCHANGED smtpdVars)

Spec == Init /\ [][Next]_vars
FairSpec == Spec /\ Fairness

------------------------------------------------------------------------------
TypeOK == CleanupTypeOK /\ SmtpdTypeOK /\ PickupTypeOK

Whole(m) == IF m \in Mail THEN sent[m] ELSE DropData(m)

\* A queue file that holds the whole message, on stable storage, where the
\* queue manager (or the postmaster, from the hold queue) finds it.
InQueue(m) ==
    \E i \in File :
        /\ file[i].loc \in {"incoming", "hold", "active"}
        /\ file[i].ready /\ file[i].synced /\ ~file[i].torn
        /\ file[i].data = Whole(m)

\* The whole message is in the maildrop queue.
InMaildrop(d) ==
    drop[d].loc = "maildrop" /\ drop[d].ready /\ drop[d].synced /\ ~drop[d].torn

\* Once a client has been told that its message was accepted, the message is
\* in the queue, complete and on stable storage, with every recipient that was
\* accepted and no other, whoever dies or loses power afterwards; the site's
\* policy may have discarded it, and local mail may have been returned
\* (common_post_message_handling(), pickup_copy(), mail_stream_finish_file()).
NoMailLost ==
    /\ \A m \in Mail : told[m] = "ok" => InQueue(m) \/ "DISCARD" \in asked[m]
    /\ \A d \in Drop : drop[d].user = "ok" =>
          InMaildrop(d) \/ InQueue(d) \/ d \in bounced \/ "DISCARD" \in asked[d]

\* A file that the queue manager may take holds one message that its client
\* has sent to the end: no part of an aborted transaction, no recipient or
\* content of another one (mail_reset(), cleanup_flush()).
OnlyWholeMessages ==
    \A i \in File : file[i].ready =>
        file[i].data.from # NoMsg /\ file[i].data = Whole(file[i].data.from)

\* Each incomplete file has a process that will finish or remove it, unless
\* that process was killed (cleanup_sig(), REMOVE(cleanup_path)).
NoLeftover ==
    \A i \in File : file[i].loc \in {"incoming", "hold"} /\ ~file[i].ready =>
        file[i].orphan \/ \E p \in Proc : proc[p].phase \in Running /\ proc[p].id = i

\* Without a fault a message enters the queue at most once, and it is not also
\* returned to its sender: pickup does not copy a message again after it was
\* accepted or bounced (cleanup_bounce(), cleanup_service_error_reason()).
NoDuplicate ==
    left.clean => \A m \in Msg :
        Cardinality({i \in File : file[i].ready /\ file[i].loc # "removed"
                                  /\ file[i].data.from = m})
        <= IF m \in bounced THEN 0 ELSE 1

\* The queue is what its clients made it: whole messages, each of them once,
\* and nothing that is left of an attempt that failed, whichever commands and
\* processes fail (mail_reset(), skip_bdat(), cleanup_flush()).
QueueIsClean == OnlyWholeMessages /\ NoLeftover /\ NoDuplicate

\* A message that the site's policy wants held or discarded is not taken by
\* the queue manager, and no other message is held: what a check asked of one
\* transaction sticks to it, and goes with it (saved_flags, REC_TYPE_FLGS,
\* CLEANUP_FLAG_HOLD).
PolicyRespected ==
    \A i \in File :
        LET wish == file[i].asked \cup
                    (IF file[i].data.from \in Mail THEN asked[file[i].data.from] ELSE {})
        IN  /\ file[i].loc = "active" => wish = {}
            /\ file[i].loc = "hold" => "HOLD" \in wish

\* smtpd writes recipients and content to the stream of the current
\* transaction: there is a stream when there are recipients or content, and
\* nothing is left of a transaction that has ended (mail_reset(), rcpt_reset(),
\* skip_bdat()).
StreamMatches ==
    /\ sess.rcpt_count > 0 \/ sess.phase # "cmd" \/ sess.bdat_state = "OK"
          => sess.cleanup # NoProc \/ sess.phase = "off"
    /\ sess.sender = NoMsg => sess.cleanup = NoProc /\ sess.rcpt_count = 0
                              /\ sess.saved_flags = {}
    /\ sess.cleanup # NoProc => sess.cleanup \in {p \in Proc : ~proc[p].eof /\ p # pick.p}

\* The streams to cleanup are well formed: whatever commands the client gives,
\* and whichever of them fail, cleanup never finds a record out of place, and
\* what smtpd writes goes to the stream of the current transaction (bdat_cmd(),
\* data_cmd(), cleanup_envelope_process()).
WellFormedStream ==
    /\ StreamMatches
    /\ \A p \in Proc : proc[p].phase = "read" /\ proc[p].pipe # <<>> =>
          ~Malformed(proc[p], file[proc[p].id].data, Head(proc[p].pipe))

\* Nobody waits forever: a client that has sent its message gets an answer
\* (the drain loop of cleanup_service(), the missing status in
\* mail_stream_finish_ipc()), and a message in the maildrop queue is picked up.
EveryoneServed ==
    /\ sess.phase = "wait" ~> sess.phase # "wait"
    /\ \A d \in Drop : drop[d].user = "ok" ~> drop[d].loc = "removed"

=============================================================================

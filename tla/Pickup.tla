------------------------------- MODULE Pickup --------------------------------
(***************************************************************************)
(* Local submission: postdrop(1) writes a file in the maildrop queue, and  *)
(* pickup(8) copies it to cleanup(8) and removes it.                       *)
(*                                                                         *)
(* postdrop commits its file like cleanup does (the same                   *)
(* mail_stream_finish_file()), and it tells the user afterwards.  pickup   *)
(* decides by the status of cleanup whether the maildrop file may go.      *)
(***************************************************************************)
EXTENDS Cleanup

CONSTANTS Drop      \* the messages that are submitted locally

ASSUME PickupAssumption == Drop \subseteq Msg

VARIABLES
    drop,   \* the maildrop files, and the postdrop process that writes each
    pick    \* the pickup process

pickupVars == <<drop, pick>>

\* A local message has one recipient and one piece of content.
DropData(d) == [from |-> d, rcpts |-> {<<d, 1>>}, body |-> 1, end |-> TRUE]

NoDrop ==
    [ loc |-> "none",       \* none, maildrop, removed
      post |-> "none",      \* postdrop: none, write, chmod, sync, forget, tell, done, dead
      status |-> {},        \* what postdrop will say
      ready |-> FALSE, synced |-> FALSE, torn |-> FALSE,
      user |-> "nothing" ]  \* what it has said: nothing, ok, error
DropType ==
    [ loc : {"none", "maildrop", "removed"},
      post : {"none", "write", "chmod", "sync", "forget", "tell", "done", "dead"},
      status : SUBSET Stat,
      ready : BOOLEAN, synced : BOOLEAN, torn : BOOLEAN,
      user : {"nothing", "ok", "error"} ]

\* pickup: idle, copying (in two steps), waiting for the status, or about to
\* remove the maildrop file.
PickIdle == [phase |-> "idle", d |-> NoMsg, p |-> NoProc]
PickType == [phase : {"idle", "copy", "rest", "wait", "remove"}, d : Drop \cup {NoMsg},
             p : Proc \cup {NoProc}]

PickupTypeOK == drop \in [Drop -> DropType] /\ pick \in PickType
PickupInit == drop = [d \in Drop |-> NoDrop] /\ pick = PickIdle

------------------------------------------------------------------------------
(***************************************************************************)
(* postdrop(1).                                                            *)
(***************************************************************************)
PostdropStart(d) ==
    /\ drop[d].post = "none"
    /\ \A e \in Drop : e < d => drop[e].post # "none"
    /\ Spend("drop")
    /\ drop' = [drop EXCEPT ![d].loc = "maildrop", ![d].post = "write"]
    /\ UNCHANGED <<proc, file, asked, bounced, pick>>

DropRemoved(f) == [f EXCEPT !.loc = "removed"]

\* The input: complete, given up by the caller, or refused (in which case the
\* file is closed and postdrop_path is forgotten).
PostdropInput(d) ==
    /\ drop[d].post = "write"
    /\ \/ drop' = [drop EXCEPT ![d].post = "chmod"]
       \/ drop' = [drop EXCEPT ![d] = [DropRemoved(@) EXCEPT !.post = "dead"]]
       \/ drop' = [drop EXCEPT ![d].post = "tell", ![d].status = {"BAD"}]
    /\ UNCHANGED <<proc, file, asked, bounced, left, pick>>

\* mail_stream_finish_file(); postdrop_cleanup() on failure.
PostdropFail(d, f) ==
    /\ Spend("fault")
    /\ drop' = [drop EXCEPT ![d] = [DropRemoved(f) EXCEPT !.post = "tell", !.status = {"WRITE"}]]

PostdropChmod(d) ==
    /\ drop[d].post = "chmod"
    /\ \/ /\ drop' = [drop EXCEPT ![d].post = "sync", ![d].ready = TRUE]
          /\ UNCHANGED left
       \/ PostdropFail(d, drop[d])
    /\ UNCHANGED <<proc, file, asked, bounced, pick>>

PostdropSync(d) ==
    /\ drop[d].post = "sync"
    /\ \/ /\ drop' = [drop EXCEPT ![d].post = "forget", ![d].synced = TRUE]
          /\ UNCHANGED left
       \/ PostdropFail(d, drop[d])
    /\ UNCHANGED <<proc, file, asked, bounced, pick>>

\* postdrop_path = 0.
PostdropForget(d) ==
    /\ drop[d].post = "forget"
    /\ drop' = [drop EXCEPT ![d].post = "tell"]
    /\ UNCHANGED <<proc, file, asked, bounced, left, pick>>

PostdropTell(d) ==
    /\ drop[d].post = "tell"
    /\ drop' = [drop EXCEPT ![d].post = "done",
                            ![d].user = IF drop[d].status = {} THEN "ok" ELSE "error"]
    /\ UNCHANGED <<proc, file, asked, bounced, left, pick>>

\* A signal: the file goes unless postdrop_path has been forgotten.
postdrop_sig(d) ==
    /\ drop[d].post \in {"write", "chmod", "sync", "forget", "tell"}
    /\ Spend("fault")
    /\ drop' = [drop EXCEPT ![d] =
          [IF drop[d].post = "tell" THEN @ ELSE DropRemoved(@) EXCEPT !.post = "dead"]]
    /\ UNCHANGED <<proc, file, asked, bounced, pick>>

------------------------------------------------------------------------------
(***************************************************************************)
(* pickup(8).                                                              *)
(***************************************************************************)

\* pickup_file(): connect to cleanup.
PickupOpen(d) ==
    /\ pick.phase = "idle"
    /\ drop[d].loc = "maildrop" /\ drop[d].ready
    /\ CanOpen
    /\ file' = [file EXCEPT ![NextFile] = NewFile]
    /\ proc' = [proc EXCEPT ![AnyProc] = Opened({"BOUNCE"})]
    /\ pick' = [phase |-> "copy", d |-> d, p |-> AnyProc]
    /\ UNCHANGED <<asked, bounced, left, drop>>

\* pickup_copy(): the envelope and the content.
PickupCopy ==
    LET d == pick.d
        records == <<RecOf("FROM", d), RecOf("RCPT", <<d, 1>>), Rec("MESG"), Rec("NORM")>>
    IN  /\ pick.phase = "copy"
        /\ IF drop[d].torn      \* file_read_error()
             THEN /\ proc' = mail_stream_cleanup(proc, pick.p)
                  /\ pick' = [pick EXCEPT !.phase = "remove", !.p = NoProc]
             ELSE /\ proc' = Write(proc, pick.p, records)
                  /\ pick' = [pick EXCEPT !.phase = "rest"]
        /\ UNCHANGED <<file, asked, bounced, left, drop>>

\* The extracted segment and the END record.
PickupRest ==
    /\ pick.phase = "rest"
    /\ proc' = Write(proc, pick.p, <<Rec("XTRA"), Rec("END")>>)
    /\ pick' = [pick EXCEPT !.phase = "wait"]
    /\ UNCHANGED <<file, asked, bounced, left, drop>>

\* cleanup_service_error_reason(): a message that can never be accepted is
\* removed, any other is kept for another try.
Removable(status) == status = {} \/ status \cap {"BAD", "RCPT"} # {}

PickupFinish ==
    /\ pick.phase = "wait" /\ Answered(pick.p)
    /\ proc' = mail_stream_cleanup(proc, pick.p)
    /\ pick' = IF Removable(mail_stream_finish_ipc(pick.p))
                 THEN [pick EXCEPT !.phase = "remove", !.p = NoProc]
                 ELSE PickIdle
    /\ UNCHANGED <<file, asked, bounced, left, drop>>

\* pickup_service() removes the maildrop file.
PickupRemove ==
    /\ pick.phase = "remove"
    /\ drop' = [drop EXCEPT ![pick.d] = DropRemoved(@)]
    /\ pick' = PickIdle
    /\ UNCHANGED <<proc, file, asked, bounced, left>>

PickupDies ==
    /\ pick.phase # "idle"
    /\ Spend("fault")
    /\ proc' = IF pick.p = NoProc THEN proc ELSE mail_stream_cleanup(proc, pick.p)
    /\ pick' = PickIdle
    /\ UNCHANGED <<file, asked, bounced, drop>>

PickupStep ==
    \/ \E d \in Drop : PickupOpen(d)
    \/ PickupCopy \/ PickupRest \/ PickupFinish \/ PickupRemove

PostdropStep(d) ==
    \/ PostdropInput(d) \/ PostdropChmod(d) \/ PostdropSync(d)
    \/ PostdropForget(d) \/ PostdropTell(d)

PickupNext ==
    \/ PickupStep \/ PickupDies
    \/ \E d \in Drop : PostdropStart(d) \/ PostdropStep(d) \/ postdrop_sig(d)

=============================================================================

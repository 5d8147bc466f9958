----------------------------- MODULE MailStore ------------------------------
(***************************************************************************)
(* What a mail system promises about a message it has accepted (RFC 5321,  *)
(* section 6.1; the comment "throwing away queue files seems bad" in       *)
(* qmgr_active.c): it is kept until each recipient either has it or was    *)
(* reported to the sender, and after that nothing more is done with it.    *)
(* A recipient may get the message more than once, and may be reported and *)
(* still get it.  A message that is never finished with stays stored.      *)
(***************************************************************************)
CONSTANT Recipients

VARIABLES
    stored,     \* the system is responsible for the message
    delivered,  \* recipients who got it
    reported    \* recipients named in a notification to the sender

Init == stored = TRUE /\ delivered = {} /\ reported = {}

Deliver ==
    /\ stored
    /\ \E R \in SUBSET Recipients : delivered' = delivered \cup R
    /\ UNCHANGED <<stored, reported>>

Report ==
    /\ stored
    /\ \E R \in SUBSET Recipients : reported' = reported \cup R
    /\ UNCHANGED <<stored, delivered>>

Forget ==
    /\ stored
    /\ delivered \cup reported = Recipients
    /\ stored' = FALSE
    /\ UNCHANGED <<delivered, reported>>

Next == Deliver \/ Report \/ Forget

Spec == Init /\ [][Next]_<<stored, delivered, reported>>

=============================================================================

---------------------------- MODULE MCSubmission -----------------------------
EXTENDS Submission

Setup(mail, drop_, fault, verdict, rcpt, chunk, delay_open) ==
    [mail |-> mail, drop |-> drop_, fault |-> fault, verdict |-> verdict,
     rcpt |-> rcpt, chunk |-> chunk, delay_open |-> delay_open, clean |-> TRUE]

\* Two messages in one session, with a fault, or in pieces and with a verdict;
\* one message with two recipients, in more pieces, with both, and without
\* smtpd_delay_open; one local message; and both clients at once.
MCSetups == { Setup(2, 0, 1, 0, 1, 0, TRUE), Setup(2, 0, 0, 1, 1, 1, TRUE),
              Setup(1, 0, 1, 1, 2, 2, FALSE), Setup(0, 1, 1, 1, 1, 1, TRUE),
              Setup(1, 1, 0, 0, 1, 1, TRUE) }
MCMail == {1, 2}
MCDrop == {3}
=============================================================================

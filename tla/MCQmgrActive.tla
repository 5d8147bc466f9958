---------------------------- MODULE MCQmgrActive ----------------------------
(***************************************************************************)
(* QmgrActive for TLC: the delivery agents are interchangeable, and so are *)
(* the bounce daemons.  The symmetry sets are for safety runs only.        *)
(***************************************************************************)
EXTENDS QmgrActive, TLC

\* Deliveries and notifications that fail; and messages that expire.
MCFaults == { {"batch", "agent", "notify", "restart"},
              {"batch", "corrupt", "restart"},
              {"batch", "expire", "restart"} }
MCAllFaults == { Fault \ {"transit"} }
MCBounceFails == { {"expire", "notify"} }

Symmetry == Permutations(Agent) \cup Permutations(Daemon)

=============================================================================

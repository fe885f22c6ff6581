---------------------------- MODULE OperationLog ----------------------------
(***************************************************************************)
(* What the write-ahead continuation promises about one run, without files *)
(* or processes: its provider requests and tool calls leave the host one   *)
(* after another, none leaves it twice, and after one whose outcome is not *)
(* on record nothing leaves it any more.                                   *)
(***************************************************************************)
EXTENDS Sequences

CONSTANT Operation      \* identities of provider requests and tool calls

VARIABLES
    issued,         \* the operations sent, in order
    settled         \* FALSE while the outcome of the last is not on record

logVars == <<issued, settled>>

LogInit == issued = <<>> /\ settled = TRUE

Issue(op) ==
    /\ settled
    /\ \A i \in DOMAIN issued : issued[i] # op
    /\ issued' = Append(issued, op)
    /\ settled' = FALSE

Settle ==
    /\ ~settled
    /\ settled' = TRUE
    /\ UNCHANGED issued

LogNext == Settle \/ \E op \in Operation : Issue(op)

LogSpec == LogInit /\ [][LogNext]_logVars
=============================================================================

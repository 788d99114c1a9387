------------------------------ MODULE Exchange ------------------------------
(***************************************************************************)
(* What FrameTransport promises the protocol functions above it: a        *)
(* command is issued, and the read that follows returns exactly once,     *)
(* either failing (-1) or with the response to that very command.  For    *)
(* OP_Info, whose response has no length or CRC, the bytes are whatever   *)
(* arrived.  The caller then releases the chip before the next command.  *)
(***************************************************************************)
EXTENDS Naturals

CONSTANTS Opcodes, OP_Info, MaxSeq

VARIABLES
    xst,    \* "ready", "pending" (between se_write and se_read's return), "returned"
    xop,    \* the command of the exchange
    xseq,   \* number of commands issued
    xok,    \* whether the read returned 0
    xdata   \* which command the returned bytes answer (0: none)

xvars == <<xst, xop, xseq, xok, xdata>>

Init ==
    /\ xst = "ready"
    /\ xop = 0
    /\ xseq = 0
    /\ xok = TRUE
    /\ xdata = 0

Issue(op) ==
    /\ xst = "ready"
    /\ xseq < MaxSeq
    /\ xst' = "pending"
    /\ xop' = op
    /\ xseq' = xseq + 1
    /\ UNCHANGED <<xok, xdata>>

Fail ==
    /\ xst = "pending"
    /\ xst' = "returned"
    /\ xok' = FALSE
    /\ UNCHANGED <<xop, xseq, xdata>>

Answer ==
    /\ xst = "pending"
    /\ xst' = "returned"
    /\ xok' = TRUE
    /\ xdata' \in IF xop = OP_Info THEN 0..MaxSeq ELSE {xseq}
    /\ UNCHANGED <<xop, xseq>>

Release ==
    /\ xst = "returned"
    /\ xst' = "ready"
    /\ UNCHANGED <<xop, xseq, xok, xdata>>

Next ==
    \/ \E op \in Opcodes : Issue(op)
    \/ Fail
    \/ Answer
    \/ Release

Spec == Init /\ [][Next]_xvars
=============================================================================

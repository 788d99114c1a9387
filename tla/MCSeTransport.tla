---------------------------- MODULE MCSeTransport ----------------------------
(* Small instance of SeTransport: three opcodes with the read lengths their *)
(* callers in se.c use (OP_Read 32, OP_GenDig 1, OP_Info 4).               *)
EXTENDS SeTransport, TLC

CONSTANTS pA, eExec, eWdg, eComm, garbage

\* OP_Read = 0x02, OP_GenDig = 0x15, OP_Info = 0x30
MCOpcodes == {2, 21, 48}
MCOP_Info == 48
MCRespLen == (2 :> 32) @@ (21 :> 1) @@ (48 :> 4)
MCPayloads == {pA}
MCCodes == {eExec, eWdg, eComm}
=============================================================================

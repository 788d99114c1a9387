CONSTANTS
    pA = pA
    eExec = eExec
    eWdg = eWdg
    eComm = eComm
    garbage = garbage
    Opcodes <- MCOpcodes
    OP_Info <- MCOP_Info
    RespLen <- MCRespLen
    Payloads <- MCPayloads
    Codes <- MCCodes
    CommErr = eComm
    Garbage = garbage
    Junk = {0, 1, 256}
    MaxRetry = 2
    MaxSeq = 3
    LossyFlags = TRUE
SPECIFICATION Spec
INVARIANTS
    ReadReturnsCurrentResponse

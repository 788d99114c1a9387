CONSTANTS
    Slots = {1, 2, 3}
    KEYNUM_pairing = 1
    WriteKN = 2
    DataSlot = 3
    Values = {"a", "b"}
    SlotInit <- MCSlotInit
    PairingSecret <- MCPair
    Secrets <- MCSecrets
    WriteKeys <- MCWriteKeys
    Datas <- MCDatas
    Lens = {40, 96}
    MaxRng = 6
    Attacker = FALSE
    CHECKMAC_FAIL = 1
    EXEC_ERR = 15
    COMM_ERR = 255
SPECIFICATION Spec
INVARIANTS
    TypeOK
    TempKeyAgreement
    EncryptedWriteComplete
    CheckMacHardAuthentic
PROPERTY
    ImplementsService
CHECK_DEADLOCK FALSE

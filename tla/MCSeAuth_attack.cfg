CONSTANTS
    Slots = {1, 2, 3}
    KEYNUM_pairing = 1
    WriteKN = 2
    DataSlot = 3
    Values = {"a", "b"}
    SlotInit <- MCSlotInit
    PairingSecret <- MCPair
    Secrets <- MCSecrets
    WriteKeys <- MCWriteKeys
    Datas <- MCDatas
    Lens = {32}
    MaxRng = 4
    Attacker = TRUE
    CHECKMAC_FAIL = 1
    EXEC_ERR = 15
    COMM_ERR = 255
SPECIFICATION Spec
INVARIANTS
    CheckMacHardAuthentic
CHECK_DEADLOCK FALSE

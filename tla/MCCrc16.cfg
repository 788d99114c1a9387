CONSTANTS
    Ops = {2, 21}
    P1s = {0, 130}
    P2s = {0, 4660}
    Bodies <- MCBodies
SPECIFICATION Spec
INVARIANTS TypeOK ChipAcceptsCommand
CHECK_DEADLOCK FALSE

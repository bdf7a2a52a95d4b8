SPECIFICATION Spec
CONSTANTS
    Pcs = {0, 1}
    mtvec = 0
    stvec = 1
    Irqs = {1, 7}
    Causes = {8, 12, 13}
    Vaddrs = {1}
    SretModes = {0, 1, 3}
INVARIANT MmuStateCurrent

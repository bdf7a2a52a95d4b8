SPECIFICATION Spec
CONSTANTS
    Pages <- MCPages
    Frames = {0, 1, 2}
    Leaves = {0, 1}
    LeafOf <- MCLeafOf
    Pmem = {0, 1}
    Slots = {0}
    SlotOf <- MCSlotOf
    Sites = {"ld", "fw"}
    RunsIn <- MCRunsIn
INVARIANTS TypeOK TlbCoherent DirtyMarked DecodedCurrent

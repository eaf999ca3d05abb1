\* A byte of one bit: numbers of four bits, fields of one to eight.
SPECIFICATION Spec
CONSTANTS
    Byte = 2
    Numbers <- MCNumbers
    MaxFields = 2
INVARIANTS
    
    ScriptPacketWhole
    DungeonPacketsWhole

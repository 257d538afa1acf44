\* LFN layout and decoding: passing properties, x86-64 build (signed char).
CONSTANTS
    CharSigned = TRUE
    MaxLen = 60
SPECIFICATION Spec
INVARIANTS
    EncodeFitsReservedRun
    DecodeOrderIndependent

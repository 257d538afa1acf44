\* spec.md section 8 alias checksum, x86-64 build (signed char).
CONSTANTS
    CharSigned = TRUE
    MaxLen = 60
SPECIFICATION Spec
INVARIANT ChecksumMatchesReference

\* spec.md section 8 LFN round trip, x86-64 build (signed char).
CONSTANTS
    CharSigned = TRUE
    MaxLen = 60
SPECIFICATION Spec
INVARIANT LfnRoundTrip

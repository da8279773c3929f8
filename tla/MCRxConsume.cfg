\* Every framing mode with its encoder, two payloads and one noise byte, cut
\* into chunks of up to four bytes.
SPECIFICATION Spec
CONSTANTS
    MaxByte = 3
    REGEX_GLOB_OVERLAP_ALLOWANCE = 2
    MaxSent = 2
    MaxNoise = 1
    MaxChunk = 4
    Scenarios <- MCScenarios
INVARIANTS
    ChunkIndependent
    RoundTrip
    
CHECK_DEADLOCK FALSE

\* Words of three bytes of one bit: eight words, keys of one and two words,
\* buffers of up to two words and a rest of no, one or two bytes.
CONSTANTS
    MaxByte = 1
    WordBytes = 3
    KeyLengths = {1, 2}
    MaxBuffer = 7
    XorBytes <- MCXor
SPECIFICATION CryptSpec
INVARIANTS CryptTypeOK RoundTrip
CHECK_DEADLOCK FALSE

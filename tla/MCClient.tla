------------------------------ MODULE MCClient ------------------------------
EXTENDS Client

\* Two characters for each worker; the character after the last is not ASCII.
MCRanges == [w \in Workers |-> <<2 * w, 2 * w + 1>>]
MCChars  == 0 .. 2 * WORKER_COUNT
=============================================================================

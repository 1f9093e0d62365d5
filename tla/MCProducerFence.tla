--------------------------- MODULE MCProducerFence ---------------------------
\* Two writer threads, the dispatcher, and a bounded number of faults.
EXTENDS ProducerFence, TLC

CONSTANTS w1, w2

WriterSymmetry == Permutations({w1, w2})
=============================================================================

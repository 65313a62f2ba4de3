--------------------------- MODULE MCQueueClient ---------------------------
\* Instances of QueueClient for TLC.
EXTENDS QueueClient, TLC

\* Messages are interchangeable; for the runs without liveness.
Symmetry == Permutations(Messages)
=============================================================================

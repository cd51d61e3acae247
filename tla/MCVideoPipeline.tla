--------------------------- MODULE MCVideoPipeline ---------------------------
EXTENDS VideoPipeline, MultipartParts, TLC

LOCAL INSTANCE FiniteSetsExt

\* Calls, sweeps and runs are interchangeable, and so are the videos: sound for
\* the invariants and action properties, not for the liveness runs.
Symmetry == Permutations(Videos) \cup Permutations(Requests)
                \cup Permutations(Workers) \cup Permutations(Sweepers)

\* What the presigned URLs of an upload take adds up to the file: the sum over
\* any number of parts is out of the prover's reach.
ASSUME PartsAddUp ==
    \A size \in 1..30, part \in 1..8 :
        MapThenSumSet(LAMBDA n : PartBytes(size, part, n), PartNumbers(size, part)) = size
=============================================================================

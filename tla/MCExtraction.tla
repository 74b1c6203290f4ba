---------------------------- MODULE MCExtraction ----------------------------
EXTENDS Extraction, TLC

CONSTANTS j1, j2

\* Act 2 begins on page 1 and ends on page 2.
SplitAct == <<<<1, 2>>, <<2, 3>>>>

\* Where two actors overlap: synchronous runs that fail on no page, either two of them
\* or one and a mishap.
Apart == overlapped =>
    /\ \A j \in Jobs : modality[j] = "sync" /\ missed[j] = {}
    /\ mishaps = 0 \/ \E j \in Jobs : pc[j] = "none"

\* The two jobs of the book are alike.
Alike == Permutations({j1, j2})
=============================================================================

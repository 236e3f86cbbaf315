---------------------------- MODULE MCDeviceQueue ----------------------------
(* Small instances of DeviceQueue for TLC. *)
EXTENDS QueueRefinement, TLC

CONSTANTS h, q, r

\* Wait lists of at most one entry: the host's first value, the first value of
\* either queue semaphore.
ShortWaits == {<<>>, <<<<h, 1>>>>, <<<<q, 1>>>>, <<<<r, 1>>>>}

\* Wait lists that put a host semaphore before and after a queue semaphore.
LongWaits == {<<>>, <<<<h, 1>>, <<q, 1>>>>, <<<<q, 1>>, <<h, 1>>>>}

ShortSignals == {<<q>>, <<r>>}
LongSignals == {<<q>>, <<q, r>>}

\* The two queue semaphores are interchangeable in ShortWaits and ShortSignals.
SwapQueueSems == Permutations({q, r})
=============================================================================

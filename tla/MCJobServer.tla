----------------------------- MODULE MCJobServer -----------------------------
EXTENDS JobServer, TLC

CONSTANTS c1, c2, c3, k1, a1, a2, f1, f2

SyncNoKey == [tool |-> "sync", key |-> NoKey, args |-> a1]
AsyncNoKey == [tool |-> "async", key |-> NoKey, args |-> a1]
SyncKey == [tool |-> "sync", key |-> k1, args |-> a1]
SyncKeyOther == [tool |-> "sync", key |-> k1, args |-> a2]
AsyncKey == [tool |-> "async", key |-> k1, args |-> a1]

MCRequests == {SyncNoKey, AsyncNoKey, SyncKey, SyncKeyOther, AsyncKey}
MCSync == {SyncNoKey}
MCAsync == {AsyncNoKey}
MCLive == {SyncNoKey, SyncKey}

CallSymmetry == Permutations(Calls) \cup Permutations(Fetches)
=============================================================================

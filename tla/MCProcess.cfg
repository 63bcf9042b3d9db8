CONSTANTS
    r1 = r1
    r2 = r2
    Probes = {r1, r2}
    Calls = {k1, k2, k3}
    Visits <- FewVisits
SPECIFICATION FairSpec
INVARIANT TypeOK
INVARIANT NothingClosedUnderWork
INVARIANT HonestStatus
INVARIANT OneCallOutstanding
PROPERTY NoStaleReadiness
PROPERTY ShutdownCompletes

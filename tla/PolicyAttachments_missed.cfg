\* Every rewritten policy is read again.  The code does not have this: with the callers
\* {poll} TLC finds a write with a coarse stamp, with Lag = {0} and Elapsed = {1} refreshes
\* that overlap.
CONSTANTS
    f1 = f1
    f2 = f2
    poll = poll
    http = http
    Files = {f1, f2}
    Callers = {poll, http}
    OldFiles = {f1, f2}
    Elapsed = {0, 1}
    Lag = {0, 1}
    MaxWrites = 2
    MaxFailures = 0
SPECIFICATION Spec
INVARIANT NeverMissed

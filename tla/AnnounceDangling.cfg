\* One attempt on the fast path; helpers of operations that are over.
CONSTANTS
    N = 2
    FAST_PATH_RETRIES = 1
    MaxCalls = 2
SPECIFICATION AQSpec
INVARIANT HelpsValidPayload

SPECIFICATION Spec
CONSTANTS
    IPs = {ip1, ip2}
    Sizes = {1}
    MaxConcurrent = 2
    Window = 2
    MaxBytes = 3
    SlotTtl = 2
    UploadIdle = 2
    MaxTrackedIPs = 1
    MaxUploads = 4
    Horizon = 3
SYMMETRY IPsAlike
INVARIANTS
    BytesAreRationed
    ConcurrencyIsLimited
    NoPermanentBan
\* The bounds stop the model: no upload is left to begin and the clock stands.
CHECK_DEADLOCK FALSE

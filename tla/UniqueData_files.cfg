SPECIFICATION Spec
CONSTANTS
    Items = {"SecureInfoA", "LocalFriendCodeSeedB"}
    FileLoaders = TRUE
    IOFaults = TRUE
    OtpIds = {}
    Absent = Absent
    BadSize = BadSize
    BadOtp = BadOtp
INVARIANT LoadedNeverTorn

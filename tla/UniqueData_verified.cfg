SPECIFICATION Spec
CONSTANTS
    Items = {"SecureInfoA", "MovableSed"}
    FileLoaders = FALSE
    IOFaults = TRUE
    OtpIds = {1, 2}
    Absent = Absent
    BadSize = BadSize
    BadOtp = BadOtp
INVARIANT VerifiedStatus CertOfOtp

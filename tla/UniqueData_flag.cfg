SPECIFICATION Spec
CONSTANTS
    Items = {"SecureInfoA"}
    FileLoaders = TRUE
    IOFaults = FALSE
    OtpIds = {}
    Absent = Absent
    BadSize = BadSize
    BadOtp = BadOtp
INVARIANT VerifiedStatus

----------------------------- MODULE UniqueData -----------------------------
(***************************************************************************)
(* The console unique-data loader (src/src/core/hw/unique_data.cpp): the   *)
(* process-wide, load-once copies of SecureInfo_A, LocalFriendCodeSeed_B,  *)
(* movable.sed and otp.bin (with the CTCert built from it).               *)
(*                                                                         *)
(* Each struct is read from its file on first use and kept while its      *)
(* IsValid() holds; the verified loaders remember VerifySignature() in a   *)
(* separate flag and answer later calls from the flag.  SecureInfo_A and   *)
(* LocalFriendCodeSeed_B have a second, unverified loader (the ...File     *)
(* functions) that fills the same struct and keeps its own "loaded" flag. *)
(* InvalidateSecureData zeroes what IsValid() tests.                       *)
(*                                                                         *)
(* Data abstraction: a struct is an Image, the three facts the code and    *)
(* the properties tell apart: IsValid() (valid), VerifySignature()         *)
(* (signed), and whether it holds exactly the bytes of one file as read    *)
(* (intact, a ghost field).  The files themselves are changed by the user  *)
(* at any time (ReplaceFile), and a read may fail to open or come up short *)
(* when IOFaults holds.                                                    *)
(***************************************************************************)
EXTENDS Naturals

CONSTANTS
    Items,        \* the structs a run follows (they share no state but InvalidateSecureData)
    FileLoaders,  \* whether LoadSecureInfoAFile / LoadLocalFriendCodeSeedBFile are called
    IOFaults,     \* whether an open may fail and a read may come up short
    OtpIds,       \* device ids of the otp.bin images a user may install
    Absent,       \* a file that does not exist
    BadSize,      \* a file of the wrong size
    BadOtp        \* an otp.bin that does not decrypt or parse

ASSUME Items \subseteq {"SecureInfoA", "LocalFriendCodeSeedB", "MovableSed"}
ASSUME FileLoaders \in BOOLEAN /\ IOFaults \in BOOLEAN /\ 0 \notin OtpIds

VARIABLES
    file,       \* file[i]: the file of struct i on disk
    cache,      \* cache[i]: the static struct (secure_info_a, local_friend_code_seed_b, movable)
    sig_valid,  \* the ..._signature_valid flags
    loaded,     \* secure_info_a_loaded, local_friend_code_seed_b_loaded
    otp_file,   \* otp.bin on disk
    otp,        \* the static FileSys::OTP
    ct_cert,    \* the static CTCert built from it
    last        \* history: the last call and what it returned

vars == <<file, cache, sig_valid, loaded, otp_file, otp, ct_cert, last>>

FileItems == Items \cap {"SecureInfoA", "LocalFriendCodeSeedB"}

\* SecureDataLoadStatus
Statuses == {"Loaded", "InvalidSignature", "NotFound", "Invalid", "IOError"}

Image == [valid : BOOLEAN, signed : BOOLEAN, intact : BOOLEAN]
\* A file of the right size holds one image, read whole.
FileImages == [valid : BOOLEAN, signed : BOOLEAN, intact : {TRUE}]
FileStates == {Absent, BadSize} \cup FileImages
\* A short read leaves a prefix of the new bytes over the old ones: its
\* signature and body come from different files.
TornImages == [valid : BOOLEAN, signed : {FALSE}, intact : {FALSE}]
\* Zero-initialised statics: nothing valid, a zero signature.
Zeroed == [valid |-> FALSE, signed |-> FALSE, intact |-> FALSE]

IOOutcomes == IF IOFaults THEN {"ok", "openfail", "short"} ELSE {"ok"}

OtpImages == [id : OtpIds, certok : BOOLEAN]
OtpFileStates == {Absent, BadOtp} \cup OtpImages

\* SecureInfoA / LocalFriendCodeSeedB::Invalidate zero the serial or seed,
\* which the signature covers; MovableSedFull::Invalidate zeroes the magic,
\* which the embedded LFCS signature does not cover.  Zeroing what is
\* already zero changes nothing.
Invalidate(i, img) ==
    [img EXCEPT !.valid = FALSE,
                !.intact = @ /\ ~img.valid,
                !.signed = IF i = "MovableSed" THEN @ ELSE @ /\ ~img.valid]

SigStatus(s) == IF s THEN "Loaded" ELSE "InvalidSignature"

Return(op, i, r) == last' = [op |-> op, item |-> i, result |-> r, key |-> <<0, 0>>]

\* Mutant: a short read leaves the torn struct as it is.
LoadVerified_NoInvalidate(i, io, torn) ==
    LET f == file[i]
        o == CASE cache[i].valid -> [c |-> cache[i], s |-> sig_valid[i], r |-> SigStatus(sig_valid[i])]
               [] f = Absent   -> [c |-> cache[i], s |-> sig_valid[i], r |-> "NotFound"]
               [] io = "openfail" -> [c |-> cache[i], s |-> sig_valid[i], r |-> "IOError"]
               [] f = BadSize  -> [c |-> cache[i], s |-> sig_valid[i], r |-> "Invalid"]
               [] io = "short"   -> [c |-> torn, s |-> sig_valid[i], r |-> "IOError"]
               [] OTHER          -> [c |-> f, s |-> f.signed, r |-> SigStatus(f.signed)]
    IN /\ cache' = [cache EXCEPT ![i] = o.c]
       /\ sig_valid' = [sig_valid EXCEPT ![i] = o.s]
       /\ Return("verified", i, o.r)

\* LoadSecureInfoA, LoadLocalFriendCodeSeedB and LoadMovable share this
\* shape: answer from the flag while the struct IsValid(); otherwise
\* Exists, IsOpen, size and ReadBytes checks in that order, a short read
\* invalidating the struct, and a full read verifying the signature.
LoadVerified(i, io, torn) ==
    LET f == file[i]
        o == CASE cache[i].valid -> [c |-> cache[i], s |-> sig_valid[i], r |-> SigStatus(sig_valid[i])]
               [] f = Absent   -> [c |-> cache[i], s |-> sig_valid[i], r |-> "NotFound"]
               [] io = "openfail" -> [c |-> cache[i], s |-> sig_valid[i], r |-> "IOError"]
               [] f = BadSize  -> [c |-> cache[i], s |-> sig_valid[i], r |-> "Invalid"]
               [] io = "short"   -> [c |-> Invalidate(i, torn), s |-> sig_valid[i], r |-> "IOError"]
               [] OTHER          -> [c |-> f, s |-> f.signed, r |-> SigStatus(f.signed)]
    IN /\ cache' = [cache EXCEPT ![i] = o.c]
       /\ sig_valid' = [sig_valid EXCEPT ![i] = o.s]
       /\ Return("verified", i, o.r)

LoadSecureInfoA ==
    "SecureInfoA" \in Items /\ \E io \in IOOutcomes, t \in TornImages : LoadVerified("SecureInfoA", io, t)
LoadLocalFriendCodeSeedB ==
    "LocalFriendCodeSeedB" \in Items /\ \E io \in IOOutcomes, t \in TornImages : LoadVerified("LocalFriendCodeSeedB", io, t)
\* LoadMovable differs only in logging a warning for a movable.sed of the
\* short (MovableSed) size, which is Invalid like any other wrong size.
LoadMovable ==
    "MovableSed" \in Items /\ \E io \in IOOutcomes, t \in TornImages : LoadVerified("MovableSed", io, t)

\* LoadSecureInfoAFile / LoadLocalFriendCodeSeedBFile: answer Loaded once
\* the loaded flag is set; otherwise read without verifying and without
\* touching the signature flag; a short read leaves the torn struct.
LoadFile(i, io, torn) ==
    LET f == file[i]
        o == CASE loaded[i]        -> [c |-> cache[i], l |-> TRUE, r |-> "Loaded"]
               [] f = Absent     -> [c |-> cache[i], l |-> FALSE, r |-> "NotFound"]
               [] io = "openfail"  -> [c |-> cache[i], l |-> FALSE, r |-> "IOError"]
               [] f = BadSize    -> [c |-> cache[i], l |-> FALSE, r |-> "Invalid"]
               [] io = "short"     -> [c |-> torn, l |-> FALSE, r |-> "IOError"]
               [] OTHER            -> [c |-> f, l |-> TRUE, r |-> "Loaded"]
    IN /\ cache' = [cache EXCEPT ![i] = o.c]
       /\ loaded' = [loaded EXCEPT ![i] = o.l]
       /\ Return("file", i, o.r)

LoadSecureInfoAFile ==
    "SecureInfoA" \in Items /\ \E io \in IOOutcomes, t \in TornImages : LoadFile("SecureInfoA", io, t)
LoadLocalFriendCodeSeedBFile ==
    "LocalFriendCodeSeedB" \in Items /\ \E io \in IOOutcomes, t \in TornImages : LoadFile("LocalFriendCodeSeedB", io, t)

OtpInvalid == [valid |-> FALSE, id |-> 0]

\* Mutant: a CTCert that fails verification invalidates only the cert.
LoadOTPResult_KeepOtp(io) ==
    LET f == otp_file
    IN CASE otp.valid -> [otp |-> otp, cert |-> ct_cert, r |-> "Loaded"]
         [] f = Absent -> [otp |-> OtpInvalid, cert |-> OtpInvalid, r |-> "NotFound"]
         [] f = BadOtp \/ io # "ok" -> [otp |-> OtpInvalid, cert |-> OtpInvalid, r |-> "Invalid"]
         [] ~f.certok -> [otp |-> [valid |-> TRUE, id |-> f.id], cert |-> OtpInvalid, r |-> "IOError"]
         [] OTHER -> [otp |-> [valid |-> TRUE, id |-> f.id],
                      cert |-> [valid |-> TRUE, id |-> f.id], r |-> "Loaded"]

\* LoadOTP: keep a valid OTP; otherwise OTP::Load (decrypting otp.bin;
\* NotFound for a missing file, Invalid for any other failure, including
\* I/O), build the CTCert from it, and invalidate both when the cert does
\* not verify against the root key.  Returns the new OTP, cert and status.
LoadOTPResult(io) ==
    LET f == otp_file
    IN CASE otp.valid -> [otp |-> otp, cert |-> ct_cert, r |-> "Loaded"]
         [] f = Absent -> [otp |-> OtpInvalid, cert |-> OtpInvalid, r |-> "NotFound"]
         [] f = BadOtp \/ io # "ok" -> [otp |-> OtpInvalid, cert |-> OtpInvalid, r |-> "Invalid"]
         [] ~f.certok -> [otp |-> OtpInvalid, cert |-> OtpInvalid, r |-> "IOError"]
         [] OTHER -> [otp |-> [valid |-> TRUE, id |-> f.id],
                      cert |-> [valid |-> TRUE, id |-> f.id], r |-> "Loaded"]

LoadOTP ==
    \E io \in IOOutcomes :
        LET o == LoadOTPResult(io)
        IN /\ otp' = o.otp /\ ct_cert' = o.cert
           /\ Return("otp", "OTP", o.r)

\* OpenUniqueCryptoFile: LoadOTP, then an empty file unless both the cert
\* and the OTP are valid; the key comes from the cert's public key and the
\* OTP's device id.
OpenUniqueCryptoFile ==
    \E io \in IOOutcomes :
        LET o == LoadOTPResult(io)
        IN /\ otp' = o.otp /\ ct_cert' = o.cert
           /\ last' = IF o.cert.valid /\ o.otp.valid
                       THEN [op |-> "crypto", item |-> "OTP", result |-> "opened",
                             key |-> <<o.cert.id, o.otp.id>>]
                       ELSE [op |-> "crypto", item |-> "OTP", result |-> "empty", key |-> <<0, 0>>]

\* InvalidateSecureData leaves the signature and loaded flags alone.
InvalidateSecureData ==
    /\ cache' = [i \in Items |-> Invalidate(i, cache[i])]
    /\ otp' = [otp EXCEPT !.valid = FALSE]
    /\ ct_cert' = [ct_cert EXCEPT !.valid = FALSE]
    /\ Return("invalidate", "all", "none")

\* The user installs, replaces or deletes a file.
ReplaceFile(i, f) ==
    /\ file' = [file EXCEPT ![i] = f]
    /\ Return("env", i, "none")
ReplaceOtpFile(f) ==
    /\ otp_file' = f
    /\ Return("env", "OTP", "none")
-----------------------------------------------------------------------------
Init ==
    /\ file \in [Items -> FileStates]
    /\ otp_file \in OtpFileStates
    /\ cache = [i \in Items |-> Zeroed]
    /\ sig_valid = [i \in Items |-> FALSE]
    /\ loaded = [i \in FileItems |-> FALSE]
    /\ otp = OtpInvalid /\ ct_cert = OtpInvalid
    /\ last = [op |-> "none", item |-> "none", result |-> "none", key |-> <<0, 0>>]

Next ==
    \/ LoadSecureInfoA /\ UNCHANGED <<file, loaded, otp_file, otp, ct_cert>>
    \/ LoadLocalFriendCodeSeedB /\ UNCHANGED <<file, loaded, otp_file, otp, ct_cert>>
    \/ LoadMovable /\ UNCHANGED <<file, loaded, otp_file, otp, ct_cert>>
    \/ FileLoaders /\ (LoadSecureInfoAFile \/ LoadLocalFriendCodeSeedBFile)
                   /\ UNCHANGED <<file, sig_valid, otp_file, otp, ct_cert>>
    \/ (LoadOTP \/ OpenUniqueCryptoFile) /\ UNCHANGED <<file, cache, sig_valid, loaded, otp_file>>
    \/ InvalidateSecureData /\ UNCHANGED <<file, sig_valid, loaded, otp_file>>
    \/ \E i \in Items, f \in FileStates : ReplaceFile(i, f)
          /\ UNCHANGED <<cache, sig_valid, loaded, otp_file, otp, ct_cert>>
    \/ \E f \in OtpFileStates : ReplaceOtpFile(f)
          /\ UNCHANGED <<file, cache, sig_valid, loaded, otp, ct_cert>>

Spec == Init /\ [][Next]_vars
-----------------------------------------------------------------------------
(***************************************************************************)
(* Properties                                                              *)
(***************************************************************************)

\* What a verified loader (LoadSecureInfoA, LoadLocalFriendCodeSeedB,
\* LoadMovable) answers describes the struct it leaves: Loaded or
\* InvalidSignature only for a struct read whole from a file, and Loaded
\* exactly when that struct's signature verifies.  The answer given from
\* the cached ..._signature_valid flag must still describe the struct after
\* any sequence of reads, failed reads, invalidations and file changes.
VerifiedStatus ==
    last.op = "verified" /\ last.result \in {"Loaded", "InvalidSignature"}
        => /\ cache[last.item].intact
           /\ (last.result = "Loaded") = cache[last.item].signed

\* An unverified loader that answers Loaded leaves the struct holding the
\* file it read: secure_info_a_loaded / local_friend_code_seed_b_loaded
\* must not outlive what InvalidateSecureData or a short read did to it.
FileStatusIsRead ==
    last.op = "file" /\ last.result = "Loaded" => cache[last.item].intact

\* The loaded flag of an unverified loader (secure_info_a_loaded,
\* local_friend_code_seed_b_loaded) never vouches for a torn struct that
\* passes IsValid(): LoadSecureInfoAFile leaves a short read's bytes in
\* place, and once InvalidateSecureData has zeroed a loaded struct, only
\* the verified loader's Invalidate() after its own short read keeps the
\* next torn prefix from looking valid while the flag still says Loaded.
LoadedNeverTorn ==
    \A i \in FileItems : loaded[i] /\ cache[i].valid => cache[i].intact

\* A valid OTP always comes with a valid CTCert built from that same OTP,
\* so OpenUniqueCryptoFile never derives a key from a cert and a device id
\* of different consoles, nor answers from an OTP whose cert failed.
CertOfOtp ==
    otp.valid => ct_cert.valid /\ ct_cert.id = otp.id
=============================================================================

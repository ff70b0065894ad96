\* Two handlers at a time at one desk: a draft and a departure of two seats; a
\* customer and a voucher that is renamed, removed and made again; two guests and
\* two reviews; two members of staff and a ticket; an account with three passwords.
SPECIFICATION Spec

CONSTANTS
    c1 = c1
    c2 = c2
    Calls = {c1, c2}
    Drafts = {1}
    Capacity = 2
    Parties = {0, 1, 2}
    Users = {"ann"}
    Codes = {"A", "B"}
    Limits = {1, 2}
    PerUser = 1
    MaxVouchers = 2
    MaxBookings = 3
    Guests = {"ann", "bob"}
    Stars = {2, 5}
    MaxReviews = 2
    MaxFailures = 1
    Staff = {"eve", "fay"}
    Nobody = "nobody"
    MaxPasswords = 3
    MaxOtps = 1
    MaxRevokes = 1
    MaxLocks = 1
    MaxSessions = 1
    NoPassword = 0

INVARIANT TypeOK
INVARIANT DraftsBookOnce
INVARIANT UsesAccountedFor
 
INVARIANT UsedMarkIsBacked
INVARIANT RatingIsTheAverage
INVARIANT OneReviewPerGuest
INVARIANT AcceptedSessionsAreCurrent
INVARIANT OtpSetsOnePassword
PROPERTY BookedDraftChangesByEarlyReaderOnly
PROPERTY ReplyKeepsTheOwner

\* A removed voucher, or an account out of passwords, may have nothing left to do.
CHECK_DEADLOCK FALSE

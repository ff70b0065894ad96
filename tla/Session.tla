------------------------------ MODULE Session ------------------------------
(***************************************************************************)
(* An account and the sessions opened on it (auth.service, user.service,   *)
(* jwt.strategy).  A session is a pair of tokens that carry the value      *)
(* authTokenVersion had when its login read the account; a request is      *)
(* accepted while the account still has that version and is not locked.    *)
(* Passwords are numbered in the order they are set; a number is a         *)
(* password nobody had before.                                             *)
(***************************************************************************)
EXTENDS Handlers, Integers, FiniteSets

CONSTANTS
    MaxPasswords,   \* bound: passwords ever chosen
    MaxOtps,        \* bound: one-time passwords sent
    MaxRevokes,     \* bound: revocations by admins, deactivations apart
    MaxLocks,       \* bound: deactivations begun before the last one is written
    MaxSessions,    \* bound: sessions opened
    NoPassword      \* 0: the account was made by a Google login

ASSUME BoundsAssumption ==
    MaxPasswords \in Nat /\ MaxOtps \in Nat /\ MaxRevokes \in Nat
    /\ MaxLocks \in Nat /\ MaxSessions \in Nat /\ NoPassword = 0

VARIABLES
    account,    \* the User row: password, authTokenVersion, deletedAt, role, passwordResetToken
    sessions,   \* the tokens handed out, with the state of the account they were made for
    passwords,  \* the passwords chosen so far
    otps,       \* the one-time passwords sent so far
    locks,      \* history: how often the account was deactivated
    spent,      \* history: passwords each one-time password has set
    firstTwice, \* history: setPassword wrote over a password set since it read
    otpTwice    \* history: one one-time password was in use by two handlers at once

sessionVars == <<account, sessions, passwords, otps, locks, spent, firstTwice, otpTwice>>

Passwords == NoPassword..MaxPasswords
Stamp == [version: Nat, password: Passwords, locks: Nat, role: {"CUSTOMER", "STAFF"}]

SessionWork ==
    [op: {"sign"}, session: Stamp]
        \cup [op: {"reset"}, otp: 1..MaxOtps, password: Passwords]
        \cup [op: {"change", "set"}, password: Passwords]
        \cup [op: {"switch"}, locked: BOOLEAN]

SessionTypeOK ==
    /\ account \in [password: Passwords, version: Nat, locked: BOOLEAN,
                    role: {"CUSTOMER", "STAFF"}, otp: 0..MaxOtps]
    /\ sessions \subseteq Stamp
    /\ passwords \in Passwords
    /\ otps \in 0..MaxOtps
    /\ locks \in Nat
    /\ spent \in [1..MaxOtps -> Nat]
    /\ firstTwice \in BOOLEAN /\ otpTwice \in BOOLEAN

SessionInit ==
    /\ account = [password |-> NoPassword, version |-> 0, locked |-> FALSE,
                  role |-> "CUSTOMER", otp |-> 0]
    /\ sessions = {}
    /\ passwords = 0 /\ otps = 0 /\ locks = 0
    /\ spent = [o \in 1..MaxOtps |-> 0]
    /\ firstTwice = FALSE /\ otpTwice = FALSE

\* JwtStrategy.validate, and the same test of refreshToken.
Accepted(s) == ~account.locked /\ s.version = account.version

-----------------------------------------------------------------------------
(* Logins.                                                                 *)

ReadFor(password) ==
    [version |-> account.version, password |-> password, locks |-> locks, role |-> account.role]

\* login compares with the password it read; a Google login needs none.
LoginRead(c) ==
    /\ ~account.locked
    /\ Cardinality(sessions) < MaxSessions
    /\ \E password \in {account.password, NoPassword} :
        Start(c, [op |-> "sign", session |-> ReadFor(password)])
    /\ UNCHANGED sessionVars

LoginSign(c) ==
    /\ Doing(c, "sign")
    /\ sessions' = sessions \cup {call[c].session}
    /\ Finish(c)
    /\ UNCHANGED <<account, passwords, otps, locks, spent, firstTwice, otpTwice>>

-----------------------------------------------------------------------------
(* Passwords.                                                              *)

NewPassword(c, work) ==
    /\ passwords < MaxPasswords
    /\ passwords' = passwords + 1
    /\ Start(c, work)

ForgotPassword ==
    /\ ~account.locked
    /\ otps < MaxOtps
    /\ otps' = otps + 1
    /\ account' = [account EXCEPT !.otp = otps + 1]
    /\ UNCHANGED <<call, sessions, passwords, locks, spent, firstTwice, otpTwice>>

\* The one-time password is compared, and the new one hashed ...
ResetPasswordRead(c) ==
    /\ account.otp # 0
    /\ NewPassword(c, [op |-> "reset", otp |-> account.otp, password |-> passwords + 1])
    /\ UNCHANGED <<account, sessions, otps, locks, spent, firstTwice, otpTwice>>

\* Mutant: the one-time password stays valid until it expires.
ResetPasswordWriteKeepsOtp(c) ==
    /\ Doing(c, "reset")
    /\ account' = [account EXCEPT !.password = call[c].password, !.version = @ + 1]
    /\ spent' = [spent EXCEPT ![call[c].otp] = @ + 1]
    /\ otpTwice' = (otpTwice \/ \E x \in Calls \ {c} : Doing(x, "reset") /\ call[x].otp = call[c].otp)
    /\ Finish(c)
    /\ UNCHANGED <<sessions, passwords, otps, locks, firstTwice>>

\* ... before the account is written by id.
ResetPasswordWrite(c) ==
    /\ Doing(c, "reset")
    /\ account' = [account EXCEPT !.password = call[c].password, !.otp = 0, !.version = @ + 1]
    /\ spent' = [spent EXCEPT ![call[c].otp] = @ + 1]
    /\ otpTwice' = (otpTwice \/ \E x \in Calls \ {c} : Doing(x, "reset") /\ call[x].otp = call[c].otp)
    /\ Finish(c)
    /\ UNCHANGED <<sessions, passwords, otps, locks, firstTwice>>

\* The one-time password expires.
OtpExpires ==
    /\ account.otp # 0
    /\ account' = [account EXCEPT !.otp = 0]
    /\ UNCHANGED <<call, sessions, passwords, otps, locks, spent, firstTwice, otpTwice>>

ChangePasswordRead(c) ==
    /\ account.password # NoPassword
    /\ NewPassword(c, [op |-> "change", password |-> passwords + 1])
    /\ UNCHANGED <<account, sessions, otps, locks, spent, firstTwice, otpTwice>>

\* Mutant: the other sessions are not revoked.
ChangePasswordWriteKeepsVersion(c) ==
    /\ Doing(c, "change")
    /\ account' = [account EXCEPT !.password = call[c].password]
    /\ Finish(c)
    /\ UNCHANGED <<sessions, passwords, otps, locks, spent, firstTwice, otpTwice>>

ChangePasswordWrite(c) ==
    /\ Doing(c, "change")
    /\ account' = [account EXCEPT !.password = call[c].password, !.version = @ + 1]
    /\ Finish(c)
    /\ UNCHANGED <<sessions, passwords, otps, locks, spent, firstTwice, otpTwice>>

\* setPassword, for an account without one; no session is revoked.
SetPasswordRead(c) ==
    /\ account.password = NoPassword
    /\ NewPassword(c, [op |-> "set", password |-> passwords + 1])
    /\ UNCHANGED <<account, sessions, otps, locks, spent, firstTwice, otpTwice>>

SetPasswordWrite(c) ==
    /\ Doing(c, "set")
    /\ account' = [account EXCEPT !.password = call[c].password]
    /\ firstTwice' = (firstTwice \/ account.password # NoPassword)
    /\ Finish(c)
    /\ UNCHANGED <<sessions, passwords, otps, locks, spent, otpTwice>>

-----------------------------------------------------------------------------
(* Administration.                                                         *)

MayRevoke == account.version < MaxRevokes

UpdateRole ==
    /\ MayRevoke
    /\ account' = [account EXCEPT !.role = IF @ = "STAFF" THEN "CUSTOMER" ELSE "STAFF",
                                  !.version = @ + 1]
    /\ UNCHANGED <<call, sessions, passwords, otps, locks, spent, firstTwice, otpTwice>>

RevokeSessions ==
    /\ MayRevoke
    /\ account' = [account EXCEPT !.version = @ + 1]
    /\ UNCHANGED <<call, sessions, passwords, otps, locks, spent, firstTwice, otpTwice>>

\* toggleStatus, bulkUpdateUserStatus.
SwitchStatusRead(c) ==
    /\ locks < MaxLocks \/ account.locked
    /\ Start(c, [op |-> "switch", locked |-> ~account.locked])
    /\ UNCHANGED sessionVars

\* Reactivation leaves the version alone.
SwitchStatusWrite(c) ==
    /\ Doing(c, "switch")
    /\ account' = [account EXCEPT !.locked = call[c].locked,
                                  !.version = IF call[c].locked THEN @ + 1 ELSE @]
    /\ locks' = IF call[c].locked THEN locks + 1 ELSE locks
    /\ Finish(c)
    /\ UNCHANGED <<sessions, passwords, otps, spent, firstTwice, otpTwice>>

SessionNext ==
    \/ \E c \in Calls :
        \/ LoginRead(c) \/ LoginSign(c)
        \/ ResetPasswordRead(c) \/ ResetPasswordWrite(c)
        \/ ChangePasswordRead(c) \/ ChangePasswordWrite(c)
        \/ SetPasswordRead(c) \/ SetPasswordWrite(c)
        \/ SwitchStatusRead(c) \/ SwitchStatusWrite(c)
    \/ ForgotPassword \/ OtpExpires \/ UpdateRole \/ RevokeSessions

SessionSpec ==
    /\ SessionInit /\ call = [c \in Calls |-> Idle]
    /\ [][SessionNext]_<<call, sessionVars>>

-----------------------------------------------------------------------------
\* A session that is accepted was opened after the last deactivation, for the role
\* the account has, and, if it was opened with a password, with the one the account
\* has now; the last fails only after setPassword overlapped with another change
\* (JwtStrategy.validate, login, setPassword).
AcceptedSessionsAreCurrent ==
    \A s \in sessions : Accepted(s) =>
        /\ s.locks = locks
        /\ s.role = account.role
        /\ s.password \in {NoPassword, account.password} \/ firstTwice

\* A one-time password sets one password, unless two handlers were using it at once
\* (resetPassword).
OtpSetsOnePassword == otpTwice \/ \A o \in 1..MaxOtps : spent[o] <= 1
=============================================================================

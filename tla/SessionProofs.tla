---------------------------- MODULE SessionProofs ----------------------------
(***************************************************************************)
(* No accepted session outlives a deactivation, a change of role or a      *)
(* change of password, and a one-time password is good for one, for any    *)
(* number of passwords, revocations, sessions and handlers.                *)
(***************************************************************************)
EXTENDS Session, TLAPS

SessionTypes == SessionTypeOK /\ call \in [Calls -> {Idle} \cup SessionWork]

\* What a session with the version of the account agrees on with it.
Fits(s) ==
    /\ s.locks = locks
    /\ s.role = account.role
    /\ s.password \in {NoPassword, account.password} \/ firstTwice

StampFits(s) == s.version <= account.version /\ (s.version = account.version => Fits(s))

\* It holds of the sessions, and of those a login is about to sign.
StampsFit ==
    /\ \A s \in sessions : StampFits(s)
    /\ \A x \in Calls : Doing(x, "sign") => StampFits(call[x].session)

\* A one-time password that has set a password is of no use to anyone any more.
SpentIsGone ==
    \A o \in 1..MaxOtps : spent[o] > 0 =>
        /\ spent[o] = 1
        /\ o <= otps /\ account.otp # o
        /\ \A x \in Calls : Doing(x, "reset") => call[x].otp # o

OtpsSent ==
    /\ account.otp <= otps
    /\ \A x \in Calls : Doing(x, "reset") => call[x].otp <= otps

OtpInv == OtpsSent /\ (otpTwice \/ SpentIsGone)

SessionInv == SessionTypes /\ StampsFit /\ OtpInv

-----------------------------------------------------------------------------
(* Types.                                                                  *)

AccountType ==
    [password: Passwords, version: Nat, locked: BOOLEAN, role: {"CUSTOMER", "STAFF"}, otp: 0..MaxOtps]

\* The columns an account is written with.
LEMMA AccountTypes ==
    ASSUME account \in AccountType, NEW p \in Passwords, NEW r \in {"CUSTOMER", "STAFF"}
    PROVE  /\ [account EXCEPT !.version = @ + 1] \in AccountType
           /\ [account EXCEPT !.role = r, !.version = @ + 1] \in AccountType
           /\ [account EXCEPT !.password = p, !.version = @ + 1] \in AccountType
           /\ [account EXCEPT !.password = p, !.otp = 0, !.version = @ + 1] \in AccountType
<1>1. account.version + 1 \in Nat /\ 0 \in 0..MaxOtps
  BY BoundsAssumption DEF AccountType
<1> DEFINE v == account.version + 1
<1>2. v \in Nat
  BY <1>1
<1> HIDE DEF v
<1>3. /\ [account EXCEPT !.version = v] \in AccountType
      /\ [account EXCEPT !.role = r, !.version = v] \in AccountType
      /\ [account EXCEPT !.password = p, !.version = v] \in AccountType
      /\ [account EXCEPT !.password = p, !.otp = 0, !.version = v] \in AccountType
  BY <1>1, <1>2 DEF AccountType
<1> QED
  BY <1>1, <1>3 DEF v

LEMMA WorkTypes ==
    ASSUME SessionTypes, NEW c \in Calls
    PROVE  /\ Doing(c, "sign") => call[c].session \in Stamp
           /\ Doing(c, "reset") => call[c].otp \in 1..MaxOtps
           /\ call[c].op \in {"reset", "change", "set"} => call[c].password \in Passwords
           /\ Doing(c, "switch") => call[c].locked \in BOOLEAN
BY DEF SessionTypes, SessionWork, Idle, Doing

LEMMA CallTypes ==
    ASSUME SessionTypes, NEW c \in Calls, NEW work \in {Idle} \cup SessionWork,
           call' = [call EXCEPT ![c] = work]
    PROVE  /\ call' \in [Calls -> {Idle} \cup SessionWork]
           /\ call'[c] = work
           /\ \A x \in Calls \ {c} : call'[x] = call[x]
BY DEF SessionTypes

LEMMA WorkOf ==
    ASSUME SessionTypes, passwords < MaxPasswords
    PROVE  /\ account.otp # 0 =>
                [op |-> "reset", otp |-> account.otp, password |-> passwords + 1] \in SessionWork
           /\ \A op \in {"change", "set"} : [op |-> op, password |-> passwords + 1] \in SessionWork
           /\ passwords + 1 \in Passwords
<1>1. passwords + 1 \in Passwords
  BY BoundsAssumption DEF SessionTypes, SessionTypeOK, Passwords
<1>2. account.otp # 0 => account.otp \in 1..MaxOtps
  BY BoundsAssumption DEF SessionTypes, SessionTypeOK
<1> QED
  BY <1>1, <1>2 DEF SessionWork

-----------------------------------------------------------------------------
(* A handler reads.                                                        *)

\* Only handler c moves, to read; the account is left alone.
Reads(c, work) ==
    /\ Start(c, work)
    /\ work \in SessionWork
    /\ UNCHANGED <<account, sessions, otps, locks, spent, firstTwice, otpTwice>>
    /\ passwords' \in Passwords
    /\ work.op = "sign" => StampFits(work.session)
    /\ work.op = "reset" => work.otp = account.otp /\ account.otp # 0

LEMMA ReadsStep ==
    ASSUME SessionInv, NEW c \in Calls, NEW work, Reads(c, work)
    PROVE  SessionInv'
<1>1. /\ call' \in [Calls -> {Idle} \cup SessionWork]
      /\ call'[c] = work
      /\ \A x \in Calls \ {c} : call'[x] = call[x]
  BY CallTypes DEF Reads, Start, SessionInv
<1>2. UNCHANGED <<account, sessions, otps, locks, spent, firstTwice, otpTwice>>
  BY DEF Reads
<1>3. SessionTypes'
  BY <1>1, <1>2 DEF Reads, SessionInv, SessionTypes, SessionTypeOK
<1>4. StampsFit'
  BY <1>1, <1>2 DEF Reads, SessionInv, StampsFit, StampFits, Fits, Doing
<1>5. OtpInv'
  <2>1. account.otp \in Nat /\ (account.otp # 0 => account.otp \in 1..MaxOtps)
    BY BoundsAssumption DEF SessionInv, SessionTypes, SessionTypeOK
  <2>2. OtpsSent'
    BY <1>1, <1>2, <2>1 DEF Reads, SessionInv, OtpInv, OtpsSent, Doing
  <2>3. SpentIsGone => SpentIsGone'
    BY <1>1, <1>2, <2>1 DEF Reads, SpentIsGone, Doing
  <2> QED
    BY <1>2, <2>2, <2>3 DEF SessionInv, OtpInv
<1> QED
  BY <1>3, <1>4, <1>5 DEF SessionInv

\* What a login reads fits the account.
LEMMA ReadForFits ==
    ASSUME SessionInv, NEW password \in {account.password, NoPassword}
    PROVE  StampFits(ReadFor(password)) /\ ReadFor(password) \in Stamp
BY BoundsAssumption
DEF SessionInv, SessionTypes, SessionTypeOK, StampFits, Fits, ReadFor, Stamp, Passwords

LEMMA AnyReadStep ==
    ASSUME SessionInv, NEW c \in Calls,
           \/ LoginRead(c) \/ ResetPasswordRead(c) \/ ChangePasswordRead(c)
           \/ SetPasswordRead(c) \/ SwitchStatusRead(c)
    PROVE  SessionInv'
<1>0. SessionTypes /\ passwords \in Passwords /\ account.locked \in BOOLEAN
  BY DEF SessionInv, SessionTypes, SessionTypeOK
<1>1. CASE LoginRead(c)
  <2>1. PICK password \in {account.password, NoPassword} :
            Start(c, [op |-> "sign", session |-> ReadFor(password)])
    BY <1>1 DEF LoginRead
  <2> DEFINE work == [op |-> "sign", session |-> ReadFor(password)]
  <2>2. work \in SessionWork /\ StampFits(work.session)
    BY ReadForFits DEF SessionWork
  <2>3. Reads(c, work)
    BY <1>0, <1>1, <2>1, <2>2 DEF Reads, LoginRead, sessionVars
  <2> QED
    BY <2>3, ReadsStep
<1>2. CASE ResetPasswordRead(c)
  <2> DEFINE work == [op |-> "reset", otp |-> account.otp, password |-> passwords + 1]
  <2>1. work \in SessionWork /\ passwords' \in Passwords /\ Start(c, work)
    BY <1>0, <1>2, WorkOf DEF ResetPasswordRead, NewPassword
  <2>2. Reads(c, work)
    BY <1>2, <2>1 DEF Reads, ResetPasswordRead
  <2> QED
    BY <2>2, ReadsStep
<1>3. CASE ChangePasswordRead(c)
  <2> DEFINE work == [op |-> "change", password |-> passwords + 1]
  <2>1. work \in SessionWork /\ passwords' \in Passwords /\ Start(c, work)
    BY <1>0, <1>3, WorkOf DEF ChangePasswordRead, NewPassword
  <2>2. Reads(c, work)
    BY <1>3, <2>1 DEF Reads, ChangePasswordRead
  <2> QED
    BY <2>2, ReadsStep
<1>4. CASE SetPasswordRead(c)
  <2> DEFINE work == [op |-> "set", password |-> passwords + 1]
  <2>1. work \in SessionWork /\ passwords' \in Passwords /\ Start(c, work)
    BY <1>0, <1>4, WorkOf DEF SetPasswordRead, NewPassword
  <2>2. Reads(c, work)
    BY <1>4, <2>1 DEF Reads, SetPasswordRead
  <2> QED
    BY <2>2, ReadsStep
<1>5. CASE SwitchStatusRead(c)
  <2> DEFINE work == [op |-> "switch", locked |-> ~account.locked]
  <2>1. work \in SessionWork
    BY DEF SessionWork
  <2>2. Reads(c, work)
    BY <1>0, <1>5, <2>1 DEF Reads, SwitchStatusRead, sessionVars
  <2> QED
    BY <2>2, ReadsStep
<1> QED
  BY <1>1, <1>2, <1>3, <1>4, <1>5

-----------------------------------------------------------------------------
(* A handler writes, or somebody acts in one statement.                    *)

\* Nobody starts anything; the new sessions are the ones that were being signed.
Settles ==
    /\ \A x \in Calls : call'[x] = call[x] \/ call'[x] = Idle
    /\ \A s \in sessions' :
        s \in sessions \/ \E x \in Calls : Doing(x, "sign") /\ s = call[x].session

Bumps == account'.version = account.version + 1

\* The version stays; so does what the sessions were read for.
KeepsFit ==
    /\ account'.version = account.version
    /\ account'.role = account.role /\ locks' = locks
    /\ firstTwice => firstTwice'
    /\ account'.password = account.password \/ account.password = NoPassword \/ firstTwice'

LEMMA StampsStep ==
    ASSUME SessionInv, SessionTypes', Settles, Bumps \/ KeepsFit
    PROVE  StampsFit'
<1> DEFINE Old(s) == s \in sessions \/ \E x \in Calls : Doing(x, "sign") /\ s = call[x].session
<1>1. \A s : Old(s) => StampFits(s) /\ s.version \in Nat
  BY WorkTypes DEF SessionInv, StampsFit, SessionTypes, SessionTypeOK, Stamp
<1>2. \A s \in sessions' : Old(s)
  BY DEF Settles
<1>3. \A x \in Calls : Doing(x, "sign")' => Old(call'[x].session)
  BY DEF Settles, Doing, Idle
<1> HIDE DEF Old
<1>4. account.version \in Nat /\ account'.version \in Nat
  BY DEF SessionInv, SessionTypes, SessionTypeOK
<1>5. ASSUME NEW s, Old(s)
      PROVE  StampFits(s)'
  <2>1. StampFits(s) /\ s.version \in Nat
    BY <1>1, <1>5
  <2>2. CASE Bumps
    BY <2>1, <2>2, <1>4 DEF Bumps, StampFits
  <2>3. CASE KeepsFit
    BY <2>1, <2>3 DEF KeepsFit, StampFits, Fits
  <2> QED
    BY <2>2, <2>3
<1> QED
  BY <1>2, <1>3, <1>5 DEF StampsFit

\* A one-time password is neither sent nor used.
KeepsOtps ==
    /\ account'.otp \in {account.otp, 0}
    /\ UNCHANGED <<otps, spent, otpTwice>>

LEMMA OtpsStep ==
    ASSUME SessionInv, Settles, KeepsOtps
    PROVE  OtpInv'
<1>1. otps \in Nat /\ account.otp \in Nat
  BY BoundsAssumption DEF SessionInv, SessionTypes, SessionTypeOK
<1>2. \A x \in Calls : Doing(x, "reset")' => Doing(x, "reset") /\ call'[x].otp = call[x].otp
  BY DEF Settles, Doing, Idle
<1>3. OtpsSent'
  BY <1>1, <1>2 DEF SessionInv, OtpInv, OtpsSent, KeepsOtps
<1>4. SpentIsGone => SpentIsGone'
  BY <1>2 DEF SpentIsGone, KeepsOtps
<1> QED
  BY <1>3, <1>4 DEF SessionInv, OtpInv, KeepsOtps

LEMMA FinishSettles ==
    ASSUME SessionTypes, NEW c \in Calls, Finish(c)
    PROVE  /\ call' \in [Calls -> {Idle} \cup SessionWork]
           /\ \A x \in Calls : call'[x] = call[x] \/ call'[x] = Idle
           /\ call'[c] = Idle
BY CallTypes DEF Finish

LEMMA LoginSignStep ==
    ASSUME SessionInv, NEW c \in Calls, LoginSign(c)
    PROVE  SessionInv'
<1>1. SessionTypes'
  BY FinishSettles, WorkTypes DEF LoginSign, SessionInv, SessionTypes, SessionTypeOK
<1>2. Settles /\ KeepsFit /\ KeepsOtps
  BY FinishSettles DEF LoginSign, SessionInv, Settles, KeepsFit, KeepsOtps
<1> QED
  BY <1>1, <1>2, StampsStep, OtpsStep DEF SessionInv

LEMMA ResetPasswordWriteStep ==
    ASSUME SessionInv, NEW c \in Calls, ResetPasswordWrite(c)
    PROVE  SessionInv'
<1> DEFINE o == call[c].otp
<1>1. /\ o \in 1..MaxOtps /\ o <= otps /\ call[c].password \in Passwords
      /\ call[c].op = "reset"
  BY WorkTypes DEF ResetPasswordWrite, SessionInv, OtpInv, OtpsSent, Doing
<1>2. /\ account' = [account EXCEPT !.password = call[c].password, !.otp = 0, !.version = @ + 1]
      /\ spent' = [spent EXCEPT ![o] = @ + 1]
      /\ UNCHANGED <<sessions, passwords, otps, locks, firstTwice>>
      /\ Finish(c)
      /\ otpTwice' = (otpTwice \/ \E x \in Calls \ {c} : Doing(x, "reset") /\ call[x].otp = o)
  BY DEF ResetPasswordWrite
<1> HIDE DEF o
<1>3. SessionTypes'
  <2>1. account' \in AccountType
    BY <1>1, <1>2, AccountTypes DEF SessionInv, SessionTypes, SessionTypeOK, AccountType
  <2>2. spent' \in [1..MaxOtps -> Nat] /\ otpTwice' \in BOOLEAN
    BY <1>1, <1>2 DEF SessionInv, SessionTypes, SessionTypeOK
  <2> QED
    BY <1>2, <2>1, <2>2, FinishSettles DEF SessionInv, SessionTypes, SessionTypeOK, AccountType
<1>4. account'.version = account.version + 1 /\ account'.otp = 0
  BY <1>2 DEF SessionInv, SessionTypes, SessionTypeOK
<1>5. Settles /\ Bumps
  BY <1>2, <1>4, FinishSettles DEF SessionInv, Settles, Bumps
<1>6. \A x \in Calls : Doing(x, "reset")' =>
            x # c /\ Doing(x, "reset") /\ call'[x].otp = call[x].otp
  BY <1>2, FinishSettles DEF SessionInv, Doing, Idle
<1>7. OtpsSent'
  BY <1>2, <1>4, <1>6, BoundsAssumption DEF SessionInv, OtpInv, OtpsSent, SessionTypes, SessionTypeOK
<1>8. ASSUME ~otpTwice' PROVE SpentIsGone'
  <2>1. SpentIsGone /\ \A x \in Calls \ {c} : Doing(x, "reset") => call[x].otp # o
    BY <1>2, <1>8 DEF SessionInv, OtpInv
  <2>2. spent[o] = 0
    BY <2>1, <1>1, BoundsAssumption
    DEF SpentIsGone, Doing, o, SessionInv, SessionTypes, SessionTypeOK
  <2>3. spent'[o] = 1 /\ \A k \in 1..MaxOtps \ {o} : spent'[k] = spent[k]
    BY <1>1, <1>2, <2>2 DEF SessionInv, SessionTypes, SessionTypeOK
  <2> QED
    BY <1>1, <1>2, <1>4, <1>6, <2>1, <2>3 DEF SpentIsGone
<1> QED
  BY <1>3, <1>5, <1>7, <1>8, StampsStep DEF SessionInv, OtpInv

LEMMA ChangePasswordWriteStep ==
    ASSUME SessionInv, NEW c \in Calls, ChangePasswordWrite(c)
    PROVE  SessionInv'
<1>1. call[c].password \in Passwords
  BY WorkTypes DEF ChangePasswordWrite, SessionInv, Doing
<1>2. SessionTypes'
  <2>1. account' \in AccountType
    BY <1>1, AccountTypes
    DEF ChangePasswordWrite, SessionInv, SessionTypes, SessionTypeOK, AccountType
  <2> QED
    BY <2>1, FinishSettles
    DEF ChangePasswordWrite, SessionInv, SessionTypes, SessionTypeOK, AccountType
<1>3. Settles /\ Bumps /\ KeepsOtps
  BY FinishSettles
  DEF ChangePasswordWrite, SessionInv, SessionTypes, SessionTypeOK, Settles, Bumps, KeepsOtps
<1> QED
  BY <1>2, <1>3, StampsStep, OtpsStep DEF SessionInv

LEMMA SetPasswordWriteStep ==
    ASSUME SessionInv, NEW c \in Calls, SetPasswordWrite(c)
    PROVE  SessionInv'
<1>1. call[c].password \in Passwords
  BY WorkTypes DEF SetPasswordWrite, SessionInv, Doing
<1>2. SessionTypes'
  BY <1>1, FinishSettles DEF SetPasswordWrite, SessionInv, SessionTypes, SessionTypeOK
<1>3. Settles /\ KeepsFit /\ KeepsOtps
  BY FinishSettles
  DEF SetPasswordWrite, SessionInv, SessionTypes, SessionTypeOK, Settles, KeepsFit, KeepsOtps
<1> QED
  BY <1>2, <1>3, StampsStep, OtpsStep DEF SessionInv

LEMMA SwitchStatusWriteStep ==
    ASSUME SessionInv, NEW c \in Calls, SwitchStatusWrite(c)
    PROVE  SessionInv'
<1>1. call[c].locked \in BOOLEAN
  BY WorkTypes DEF SwitchStatusWrite, SessionInv
<1>2. SessionTypes'
  <2> DEFINE n == IF call[c].locked THEN account.version + 1 ELSE account.version
  <2>1. n \in Nat /\ locks' \in Nat
    BY <1>1 DEF SwitchStatusWrite, SessionInv, SessionTypes, SessionTypeOK
  <2>2. account' = [account EXCEPT !.locked = call[c].locked, !.version = n]
    BY DEF SwitchStatusWrite
  <2> HIDE DEF n
  <2>3. account' \in AccountType
    BY <1>1, <2>1, <2>2 DEF SessionInv, SessionTypes, SessionTypeOK, AccountType
  <2> QED
    BY <2>1, <2>3, FinishSettles
    DEF SwitchStatusWrite, SessionInv, SessionTypes, SessionTypeOK, AccountType
<1>3. Settles /\ KeepsOtps
  BY FinishSettles
  DEF SwitchStatusWrite, SessionInv, SessionTypes, SessionTypeOK, Settles, KeepsOtps
<1>4. Bumps \/ KeepsFit
  BY DEF SwitchStatusWrite, SessionInv, SessionTypes, SessionTypeOK, Bumps, KeepsFit
<1> QED
  BY <1>2, <1>3, <1>4, StampsStep, OtpsStep DEF SessionInv

LEMMA ForgotPasswordStep ==
    ASSUME SessionInv, ForgotPassword
    PROVE  SessionInv'
<1>1. SessionTypes' /\ account'.otp = otps + 1 /\ otps' = otps + 1
  BY BoundsAssumption DEF ForgotPassword, SessionInv, SessionTypes, SessionTypeOK
<1>2. Settles /\ KeepsFit
  BY DEF ForgotPassword, SessionInv, SessionTypes, SessionTypeOK, Settles, KeepsFit
<1>3. UNCHANGED <<call, spent, otpTwice>> /\ otps \in Nat
  BY BoundsAssumption DEF ForgotPassword, SessionInv, SessionTypes, SessionTypeOK
<1>4. OtpsSent'
  BY <1>1, <1>3, WorkTypes DEF SessionInv, OtpInv, OtpsSent, Doing
<1>5. SpentIsGone => SpentIsGone'
  BY <1>1, <1>3 DEF SpentIsGone, Doing
<1> QED
  BY <1>1, <1>2, <1>3, <1>4, <1>5, StampsStep DEF SessionInv, OtpInv

LEMMA AccountStep ==
    ASSUME SessionInv, OtpExpires \/ UpdateRole \/ RevokeSessions \/ UNCHANGED <<call, sessionVars>>
    PROVE  SessionInv'
<1>0. /\ account \in AccountType /\ SessionTypes
      /\ account.password \in Passwords /\ account.role \in {"CUSTOMER", "STAFF"}
  BY DEF SessionInv, SessionTypes, SessionTypeOK, AccountType
<1>1. SessionTypes'
  <2>1. account' \in AccountType
    <3>1. CASE OtpExpires
      BY <1>0, <3>1, BoundsAssumption DEF OtpExpires, AccountType
    <3>2. CASE UpdateRole
      <4> DEFINE r == IF account.role = "STAFF" THEN "CUSTOMER" ELSE "STAFF"
      <4>1. account' = [account EXCEPT !.role = r, !.version = @ + 1]
        BY <3>2 DEF UpdateRole
      <4>2. r \in {"CUSTOMER", "STAFF"}
        OBVIOUS
      <4> HIDE DEF r
      <4> QED
        BY <1>0, <4>1, <4>2, AccountTypes
    <3>3. CASE RevokeSessions
      BY <1>0, <3>3, AccountTypes DEF RevokeSessions
    <3>4. CASE UNCHANGED <<call, sessionVars>>
      BY <1>0, <3>4 DEF sessionVars
    <3> QED
      BY <3>1, <3>2, <3>3, <3>4
  <2> QED
    BY <1>0, <2>1
    DEF OtpExpires, UpdateRole, RevokeSessions, sessionVars, SessionTypes, SessionTypeOK, AccountType
<1>2. Settles /\ KeepsOtps
  BY DEF OtpExpires, UpdateRole, RevokeSessions, sessionVars, SessionInv, SessionTypes,
         SessionTypeOK, Settles, KeepsOtps
<1>3. Bumps \/ KeepsFit
  BY DEF OtpExpires, UpdateRole, RevokeSessions, sessionVars, SessionInv, SessionTypes,
         SessionTypeOK, Bumps, KeepsFit
<1> QED
  BY <1>1, <1>2, <1>3, StampsStep, OtpsStep DEF SessionInv

-----------------------------------------------------------------------------
LEMMA SessionInitially ==
    ASSUME SessionInit, call = [c \in Calls |-> Idle]
    PROVE  SessionInv
<1>1. SessionTypes
  <2>1. account \in AccountType /\ 0 \in 0..MaxOtps /\ 0 \in Passwords
    BY BoundsAssumption DEF SessionInit, AccountType, Passwords
  <2>2. call \in [Calls -> {Idle} \cup SessionWork]
    OBVIOUS
  <2> QED
    BY <2>1, <2>2 DEF SessionInit, SessionTypes, SessionTypeOK, AccountType
<1>2. \A x \in Calls : call[x].op = "idle"
  BY DEF Idle
<1>3. StampsFit /\ OtpInv
  BY <1>2 DEF SessionInit, StampsFit, OtpInv, OtpsSent, SpentIsGone, Doing
<1> QED
  BY <1>1, <1>3 DEF SessionInv

LEMMA SessionStep ==
    ASSUME SessionInv, [SessionNext]_<<call, sessionVars>>
    PROVE  SessionInv'
BY AnyReadStep, LoginSignStep, ResetPasswordWriteStep, ChangePasswordWriteStep,
   SetPasswordWriteStep, SwitchStatusWriteStep, ForgotPasswordStep, AccountStep
DEF SessionNext

\* A session that is accepted belongs to the account as it is now
\* (JwtStrategy.validate, refreshToken).
THEOREM SessionsAreCurrent == SessionSpec => []AcceptedSessionsAreCurrent
<1>1. SessionInit /\ call = [c \in Calls |-> Idle] => SessionInv
  BY SessionInitially
<1>2. SessionInv /\ [SessionNext]_<<call, sessionVars>> => SessionInv'
  BY SessionStep
<1>3. SessionInv => AcceptedSessionsAreCurrent
  BY DEF SessionInv, StampsFit, StampFits, Fits, AcceptedSessionsAreCurrent, Accepted
<1> QED
  BY <1>1, <1>2, <1>3, PTL DEF SessionSpec

\* A one-time password sets one password, unless two handlers use it at once
\* (resetPassword).
THEOREM OtpIsForOnePassword == SessionSpec => []OtpSetsOnePassword
<1>1. SessionInit /\ call = [c \in Calls |-> Idle] => SessionInv
  BY SessionInitially
<1>2. SessionInv /\ [SessionNext]_<<call, sessionVars>> => SessionInv'
  BY SessionStep
<1>3. SessionInv => OtpSetsOnePassword
  BY DEF SessionInv, OtpInv, SpentIsGone, SessionTypes, SessionTypeOK, OtpSetsOnePassword
<1> QED
  BY <1>1, <1>2, <1>3, PTL DEF SessionSpec
=============================================================================

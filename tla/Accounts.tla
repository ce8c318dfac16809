------------------------------ MODULE Accounts ------------------------------
(***************************************************************************)
(* The account behind one e-mail address: registration with a one-time     *)
(* code, its verification and re-issue, login, a change of password, and   *)
(* what admins change.  The row is in PostgreSQL, the code and the resend  *)
(* cooldown are in Redis; every call is a step, and requests overlap.      *)
(* Accounts do not interact.  A password is known by its hash, and codes   *)
(* are numbered in the order they are drawn, as if no two were equal.      *)
(***************************************************************************)
EXTENDS Naturals

CONSTANTS
    Requests,     \* calls of the authentication and the user admin API
    Passwords,
    Roles,        \* what an admin may set; "USER" is what accounts start with
    None,
    MaxFaults     \* bound: calls of a store or of the mail server that fail

ASSUME PasswordsAssumption == None \notin Passwords
ASSUME RolesAssumption == "USER" \in Roles
ASSUME AccountBoundsAssumption == MaxFaults \in Nat

VARIABLES
    user,         \* PostgreSQL: the row of the address, None if there is none
    otp,          \* Redis: otp:{email}, 0 if there is no such key
    cooldown,     \* Redis: whether otp_cooldown:{email} exists
    drawn,        \* codes drawn so far
    newest,       \* history: the code stored last
    lapsed,       \* history: the codes whose five minutes ran out
    mailed,       \* codes that reached the mailbox
    tokens,       \* whether a session token was ever issued
    rpc, op,      \* where a request is and what it asks for
    arg,          \* its password, or the code it has drawn
    wanted,       \* what an admin request asks for
    faults        \* failures still allowed

codeVars    == <<otp, drawn, newest, lapsed>>
requestVars == <<rpc, op, arg, wanted>>
accountVars == <<user, cooldown, codeVars, mailed, tokens, requestVars, faults>>

User == [password : Passwords, verified : BOOLEAN, role : Roles, suspended : BOOLEAN]
Change == [role : Roles \cup {None}, status : {"ACTIVE", "SUSPENDED", "OTHER", None}]

ASSUME RowsAssumption == None \notin User /\ None # "admin"

NoFault == UNCHANGED faults
Fault   == faults > 0 /\ faults' = faults - 1

AccountInit ==
    /\ user = None
    /\ otp = 0
    /\ cooldown = FALSE
    /\ drawn = 0
    /\ newest = 0
    /\ lapsed = {}
    /\ mailed = {}
    /\ tokens = FALSE
    /\ rpc = [r \in Requests |-> "new"]
    /\ op = [r \in Requests |-> None]
    /\ arg = [r \in Requests |-> None]
    /\ wanted = [r \in Requests |-> None]
    /\ faults = MaxFaults

-----------------------------------------------------------------------------
(* Control.  A request goes on, or ends with an answer: "ok", "failed" for *)
(* a 500, "refused" for a 4xx.                                             *)

Start(r, pc, what, a) ==
    /\ rpc[r] = "new"
    /\ rpc' = [rpc EXCEPT ![r] = pc]
    /\ op' = [op EXCEPT ![r] = what]
    /\ arg' = [arg EXCEPT ![r] = a]

GoOn(r, pc) ==
    /\ rpc' = [rpc EXCEPT ![r] = pc]
    /\ UNCHANGED <<op, arg, wanted>>

Answer(r, a) ==
    /\ rpc' = [rpc EXCEPT ![r] = a]
    /\ arg' = [arg EXCEPT ![r] = None]
    /\ UNCHANGED <<op, wanted>>

\* A statement that fails, with its effect or without, ends in a 500.
Call(r, effect, nothing, pc) ==
    \/ effect /\ NoFault /\ GoOn(r, pc)
    \/ (effect \/ nothing) /\ Fault /\ Answer(r, "failed")

-----------------------------------------------------------------------------
(* Register: the lookup decides between INSERT and UPDATE; the row may have *)
(* appeared, or been verified, by then.                                    *)
Register(r, p) ==
    /\ IF user = None THEN Start(r, "create", "register", p)
       ELSE ~user.verified /\ Start(r, "refresh", "register", p)
    /\ UNCHANGED <<user, cooldown, codeVars, mailed, tokens, wanted, faults>>

NewUser(p) == [password |-> p, verified |-> FALSE, role |-> "USER", suspended |-> FALSE]

\* Mutant of CreateUser: ON CONFLICT (email) DO UPDATE.
UpsertUser(r) ==
    /\ rpc[r] = "create"
    /\ Call(r, user' = NewUser(arg[r]), UNCHANGED user, "issue")
    /\ UNCHANGED <<cooldown, codeVars, mailed, tokens>>

\* UNIQUE(email) makes all but the first of several INSERTs fail.
CreateUser(r) ==
    /\ rpc[r] = "create"
    /\ IF user = None
       THEN Call(r, user' = NewUser(arg[r]), UNCHANGED user, "issue")
       ELSE Answer(r, "refused") /\ UNCHANGED <<user, faults>>
    /\ UNCHANGED <<cooldown, codeVars, mailed, tokens>>

UpdatePasswordHash(r) ==
    /\ rpc[r] \in {"refresh", "commit"}
    /\ Call(r, user' = [user EXCEPT !.password = arg[r]], UNCHANGED user,
            IF rpc[r] = "refresh" THEN "issue" ELSE "ok")
    /\ UNCHANGED <<cooldown, codeVars, mailed, tokens>>

-----------------------------------------------------------------------------
(* issueOTP, for Register and ResendOTP: SET, which supersedes the code    *)
(* before, then the mail.                                                  *)
IssueOTP(r) ==
    /\ rpc[r] = "issue"
    /\ drawn' = drawn + 1
    /\ \/ /\ NoFault
          /\ otp' = drawn'
          /\ newest' = drawn'
          /\ rpc' = [rpc EXCEPT ![r] = "mail"]
          /\ arg' = [arg EXCEPT ![r] = drawn']
          /\ UNCHANGED <<op, wanted>>
       \/ /\ Fault
          /\ (otp' = drawn' /\ newest' = drawn') \/ UNCHANGED <<otp, newest>>
          /\ Answer(r, "failed")
    /\ UNCHANGED <<user, cooldown, lapsed, mailed, tokens>>

SendOTPEmail(r) ==
    /\ rpc[r] = "mail"
    /\ Call(r, mailed' = mailed \cup {arg[r]}, UNCHANGED mailed,
            IF op[r] = "register" THEN "ok" ELSE "cool")
    /\ UNCHANGED <<user, cooldown, codeVars, tokens>>

\* ResendOTP: EXISTS cooldown, the lookup, issueOTP, SET cooldown.
ResendOTP(r) ==
    /\ ~cooldown
    /\ Start(r, "look", "resend", None)
    /\ UNCHANGED <<user, cooldown, codeVars, mailed, tokens, wanted, faults>>

\* Mutant of LookUp: a code for every address that is not verified.
LookUpAny(r) ==
    /\ rpc[r] = "look"
    /\ IF user = None THEN GoOn(r, "issue")
       ELSE IF user.verified THEN Answer(r, "refused") ELSE GoOn(r, "issue")
    /\ UNCHANGED <<user, cooldown, codeVars, mailed, tokens, faults>>

LookUp(r) ==
    /\ rpc[r] = "look"
    /\ IF user # None /\ ~user.verified THEN GoOn(r, "issue") ELSE Answer(r, "refused")
    /\ UNCHANGED <<user, cooldown, codeVars, mailed, tokens, faults>>

SetCooldown(r) ==
    /\ rpc[r] = "cool"
    /\ Call(r, cooldown' = TRUE, UNCHANGED cooldown, "ok")
    /\ UNCHANGED <<user, codeVars, mailed, tokens>>

-----------------------------------------------------------------------------
(* VerifyOTP: GET and compare, UPDATE, DEL (its error ignored), token.     *)
VerifyOTP(r, code) ==
    /\ code = otp
    /\ Start(r, "mark", "verify", None)
    /\ UNCHANGED <<user, cooldown, codeVars, mailed, tokens, wanted, faults>>

\* Mutant of MarkVerified: the code is used up before the row is updated.
ConsumeThenMark(r) ==
    /\ rpc[r] = "mark"
    /\ otp' = 0
    /\ Call(r, user' = [user EXCEPT !.verified = TRUE], UNCHANGED user, "forget")
    /\ UNCHANGED <<cooldown, drawn, newest, lapsed, mailed, tokens>>

MarkVerified(r) ==
    /\ rpc[r] = "mark"
    /\ Call(r, user' = [user EXCEPT !.verified = TRUE], UNCHANGED user, "forget")
    /\ UNCHANGED <<cooldown, codeVars, mailed, tokens>>

\* DEL removes the code of the moment, which may be a newer one.
ForgetOTP(r) ==
    /\ rpc[r] = "forget"
    /\ \/ NoFault /\ otp' = 0 /\ cooldown' = FALSE
       \/ Fault /\ UNCHANGED <<otp, cooldown>>
    /\ tokens' = TRUE
    /\ Answer(r, "ok")
    /\ UNCHANGED <<user, drawn, newest, lapsed, mailed>>

\* Mutant of Login: the unverified are let in.
LoginUnverified(r, p) ==
    /\ user # None
    /\ user.password = p
    /\ Start(r, "ok", "login", None)
    /\ tokens' = TRUE
    /\ UNCHANGED <<user, cooldown, codeVars, mailed, wanted, faults>>

\* Login reads the row once.
Login(r, p) ==
    /\ user # None
    /\ user.password = p
    /\ user.verified
    /\ Start(r, "ok", "login", None)
    /\ tokens' = TRUE
    /\ UNCHANGED <<user, cooldown, codeVars, mailed, wanted, faults>>

\* ChangePassword, with a token: the current password is compared, then the
\* new one written, whatever the row holds by then.
ChangePassword(r, current, p) ==
    /\ tokens
    /\ user.password = current
    /\ Start(r, "commit", "change", p)
    /\ UNCHANGED <<user, cooldown, codeVars, mailed, tokens, wanted, faults>>

-----------------------------------------------------------------------------
(* AdminUpdateUser: the role is written before the status is looked at, by *)
(* a statement of its own.                                                 *)
AdminUpdateUser(r, change) ==
    /\ user # None
    /\ Start(r, IF change.role = None THEN "status" ELSE "role", "admin", None)
    /\ wanted' = [wanted EXCEPT ![r] = change]
    /\ UNCHANGED <<user, cooldown, codeVars, mailed, tokens, faults>>

\* Mutant of UpdateRole: an error is logged and the handler goes on.
UpdateRoleOrSkip(r) ==
    /\ rpc[r] = "role"
    /\ \/ NoFault /\ user' = [user EXCEPT !.role = wanted[r].role]
       \/ Fault /\ UNCHANGED user
    /\ GoOn(r, IF wanted[r].status = None THEN "ok" ELSE "status")
    /\ UNCHANGED <<cooldown, codeVars, mailed, tokens>>

UpdateRole(r) ==
    /\ rpc[r] = "role"
    /\ Call(r, user' = [user EXCEPT !.role = wanted[r].role], UNCHANGED user,
            IF wanted[r].status = None THEN "ok" ELSE "status")
    /\ UNCHANGED <<cooldown, codeVars, mailed, tokens>>

UpdateSuspended(r) ==
    /\ rpc[r] = "status"
    /\ IF wanted[r].status \in {"ACTIVE", "SUSPENDED"}
       THEN Call(r, user' = [user EXCEPT !.suspended = wanted[r].status = "SUSPENDED"],
                 UNCHANGED user, "ok")
       ELSE Answer(r, "refused") /\ UNCHANGED <<user, faults>>
    /\ UNCHANGED <<cooldown, codeVars, mailed, tokens>>

-----------------------------------------------------------------------------
OTPLapses ==
    /\ otp # 0
    /\ otp' = 0
    /\ lapsed' = lapsed \cup {otp}
    /\ UNCHANGED <<user, cooldown, drawn, newest, mailed, tokens, requestVars, faults>>

CooldownLapses ==
    /\ cooldown
    /\ cooldown' = FALSE
    /\ UNCHANGED <<user, codeVars, mailed, tokens, requestVars, faults>>

AccountNext ==
    \/ \E r \in Requests :
          \/ \E p \in Passwords :
                Register(r, p) \/ Login(r, p) \/ \E q \in Passwords : ChangePassword(r, q, p)
          \/ \E code \in mailed : VerifyOTP(r, code)
          \/ \E change \in Change : AdminUpdateUser(r, change)
          \/ CreateUser(r) \/ UpdatePasswordHash(r) \/ IssueOTP(r) \/ SendOTPEmail(r)
          \/ ResendOTP(r) \/ LookUp(r) \/ SetCooldown(r)
          \/ MarkVerified(r) \/ ForgetOTP(r)
          \/ UpdateRole(r) \/ UpdateSuspended(r)
    \/ OTPLapses
    \/ CooldownLapses

AccountSpec == AccountInit /\ [][AccountNext]_accountVars

-----------------------------------------------------------------------------
Steps   == {"create", "refresh", "issue", "mail", "look", "cool", "mark",
            "forget", "commit", "role", "status"}
Answers == {"ok", "failed", "refused"}

AccountTypeOK ==
    /\ user \in User \cup {None}
    /\ otp \in 0..drawn
    /\ newest \in 0..drawn
    /\ cooldown \in BOOLEAN
    /\ drawn \in Nat
    /\ lapsed \subseteq 1..drawn
    /\ mailed \subseteq 1..drawn
    /\ tokens \in BOOLEAN
    /\ rpc \in [Requests -> {"new"} \cup Steps \cup Answers]
    /\ op \in [Requests -> {"register", "resend", "verify", "login", "change", "admin", None}]
    /\ \A r \in Requests :
          /\ rpc[r] \in {"create", "refresh", "commit"} => arg[r] \in Passwords
          /\ rpc[r] = "mail" => arg[r] \in 1..drawn
          /\ op[r] = "admin" => wanted[r] \in Change
          /\ rpc[r] \in Steps \ {"create", "look"} => user # None
    /\ faults \in 0..MaxFaults

\* An address once verified stays so: a registration that looked before and
\* writes after changes the row at most by its password.
VerifiedStep ==
    user # None /\ user.verified => user' # None /\ user'.verified
VerifiedStays == [][VerifiedStep]_accountVars

\* Whoever holds a session token is verified, by a code or by an earlier one,
\* whichever way the token was issued.
TokensAreForVerified == tokens => user # None /\ user.verified

\* Until the address is verified, the code stored last stays good for its five
\* minutes: a verification that fails half-way, or one of an older code, does
\* not use it up, and the client may try again.
CodeStaysGood ==
    user # None /\ ~user.verified /\ newest # 0 => otp = newest \/ newest \in lapsed

\* An admin whose request was answered with success finds both fields as asked,
\* unless other admins were at work: no registration, verification or failed
\* half of the request undoes them.
AdminChangeHolds ==
    \A r \in Requests :
        (op[r] = "admin" /\ rpc[r] = "ok" /\ \A q \in Requests \ {r} : op[q] # "admin") =>
            /\ wanted[r].role \in {None, user.role}
            /\ wanted[r].status = None \/ user.suspended = (wanted[r].status = "SUSPENDED")
=============================================================================

---------------------------- MODULE AccountProofs ----------------------------
(***************************************************************************)
(* What the account of an address promises, for any number of overlapping  *)
(* requests and failures.  Every action moves at most one request and      *)
(* changes the row in one way, so the invariant has a part for the row and *)
(* its code (RowSound), and one for each request (Fits): what the row must *)
(* look like for a request to be where it is.                              *)
(***************************************************************************)
EXTENDS Accounts, TLAPS

Pcs == {"new"} \cup Steps \cup Answers
Ops == {"register", "resend", "verify", "login", "change", "admin", None}
Args == Passwords \cup Nat \cup {None}
Wanted == Change \cup {None}

\* A request at pc that asks for o, with argument a and wish w, fits a row u
\* and d codes drawn.
Fits(pc, o, a, w, u, d) ==
    /\ pc \in {"create", "refresh", "commit"} => a \in Passwords
    /\ pc = "mail" => a \in 1..d
    /\ pc \in Steps \ {"create", "look"} => u # None
    /\ pc = "role" => w.role \in Roles
    /\ pc = "forget" => u.verified
    /\ pc = "new" => o = None
    /\ pc \in {"role", "status"} => o = "admin"
    /\ o = "admin" => w \in Change /\ u # None /\ pc \in {"role", "status", "ok", "failed", "refused"}

RequestsSound ==
    /\ rpc \in [Requests -> Pcs]
    /\ op \in [Requests -> Ops]
    /\ arg \in [Requests -> Args]
    /\ wanted \in [Requests -> Wanted]
    /\ \A r \in Requests : Fits(rpc[r], op[r], arg[r], wanted[r], user, drawn)

RowSound ==
    /\ user \in User \cup {None}
    /\ drawn \in Nat
    /\ otp \in 0..drawn /\ newest \in 0..drawn
    /\ lapsed \subseteq 1..drawn /\ mailed \subseteq 1..drawn
    /\ drawn # 0 => user # None
    /\ CodeStaysGood
    /\ TokensAreForVerified

Switches == cooldown \in BOOLEAN /\ tokens \in BOOLEAN /\ faults \in 0..MaxFaults

AccountInv == RowSound /\ RequestsSound /\ Switches

LEMMA NewUserSound ==
    ASSUME NEW p \in Passwords
    PROVE  NewUser(p) \in User /\ NewUser(p) # None /\ ~NewUser(p).verified
<1>1. NewUser(p) \in User
  <2>1. FALSE \in BOOLEAN /\ "USER" \in Roles
    BY RolesAssumption
  <2> QED
    BY <2>1, Zenon DEF NewUser, User
<1>2. ~NewUser(p).verified
  BY DEF NewUser
<1> QED
  BY <1>1, <1>2, RowsAssumption

LEMMA UpdatesSound ==
    ASSUME NEW u \in User
    PROVE  /\ \A p \in Passwords : /\ [u EXCEPT !.password = p] \in User
                                   /\ [u EXCEPT !.password = p].verified = u.verified
           /\ \A x \in Roles : /\ [u EXCEPT !.role = x] \in User
                               /\ [u EXCEPT !.role = x].verified = u.verified
           /\ \A b \in BOOLEAN : /\ [u EXCEPT !.suspended = b] \in User
                                 /\ [u EXCEPT !.suspended = b].verified = u.verified
           /\ [u EXCEPT !.verified = TRUE] \in User
           /\ [u EXCEPT !.verified = TRUE].verified
BY DEF User

-----------------------------------------------------------------------------
(* One request moves.                                                      *)

Moves(r, pc, o, a, w) ==
    /\ rpc' = [rpc EXCEPT ![r] = pc]
    /\ op' = [op EXCEPT ![r] = o]
    /\ arg' = [arg EXCEPT ![r] = a]
    /\ wanted' = [wanted EXCEPT ![r] = w]
    /\ pc \in Pcs /\ o \in Ops /\ a \in Args /\ w \in Wanted
    /\ Fits(pc, o, a, w, user', drawn')

\* The row does not vanish, and stays verified.
Grows ==
    /\ user # None => user' # None /\ (user.verified => user'.verified)
    /\ drawn \in Nat /\ drawn' \in Nat /\ drawn <= drawn'

LEMMA OthersFit ==
    ASSUME Grows, NEW pc, NEW o, NEW a, NEW w, Fits(pc, o, a, w, user, drawn)
    PROVE  Fits(pc, o, a, w, user', drawn')
BY DEF Grows, Fits, Steps

LEMMA MovedSound ==
    ASSUME RequestsSound, Grows, NEW r \in Requests,
           NEW pc, NEW o, NEW a, NEW w, Moves(r, pc, o, a, w)
    PROVE  RequestsSound'
<1>1. /\ rpc' \in [Requests -> Pcs] /\ op' \in [Requests -> Ops]
      /\ arg' \in [Requests -> Args] /\ wanted' \in [Requests -> Wanted]
  BY DEF Moves, RequestsSound
<1>2. ASSUME NEW q \in Requests
      PROVE  Fits(rpc'[q], op'[q], arg'[q], wanted'[q], user', drawn')
  <2>1. CASE q = r
    BY <2>1 DEF Moves, RequestsSound
  <2>2. CASE q # r
    <3>1. /\ rpc'[q] = rpc[q] /\ op'[q] = op[q]
          /\ arg'[q] = arg[q] /\ wanted'[q] = wanted[q]
      BY <2>2 DEF Moves, RequestsSound
    <3> QED
      BY <3>1, OthersFit DEF RequestsSound
  <2> QED
    BY <2>1, <2>2
<1> QED
  BY <1>1, <1>2 DEF RequestsSound

LEMMA StartMoves ==
    ASSUME RequestsSound, NEW r \in Requests, NEW pc, NEW what, NEW a,
           Start(r, pc, what, a), UNCHANGED wanted,
           pc \in Pcs, what \in Ops, a \in Args,
           Fits(pc, what, a, wanted[r], user', drawn')
    PROVE  Moves(r, pc, what, a, wanted[r])
BY DEF Start, Moves, RequestsSound

LEMMA GoOnMoves ==
    ASSUME RequestsSound, NEW r \in Requests, NEW pc, GoOn(r, pc), pc \in Pcs,
           Fits(pc, op[r], arg[r], wanted[r], user', drawn')
    PROVE  Moves(r, pc, op[r], arg[r], wanted[r])
BY DEF GoOn, Moves, RequestsSound

LEMMA AnswerMoves ==
    ASSUME RequestsSound, Grows, NEW r \in Requests, NEW a \in Answers, Answer(r, a),
           rpc[r] # "new"
    PROVE  Moves(r, a, op[r], None, wanted[r])
<1>1. Fits(a, op[r], None, wanted[r], user', drawn')
  BY DEF RequestsSound, Fits, Grows, Answers, Steps
<1> QED
  BY <1>1 DEF Answer, Moves, RequestsSound, Pcs, Args

-----------------------------------------------------------------------------
(* Steps of the requests.  Each leaves the row and the request sound.      *)

\* An answer, whatever it is, that leaves the row as it is or changed soundly.
LEMMA AnsweredSound ==
    ASSUME RequestsSound, Grows, NEW r \in Requests, NEW a \in Answers, Answer(r, a),
           rpc[r] # "new"
    PROVE  RequestsSound'
BY AnswerMoves, MovedSound

LEMMA WentOnSound ==
    ASSUME RequestsSound, Grows, NEW r \in Requests, NEW pc \in Pcs, GoOn(r, pc),
           Fits(pc, op[r], arg[r], wanted[r], user', drawn')
    PROVE  RequestsSound'
BY GoOnMoves, MovedSound

LEMMA StartedSound ==
    ASSUME RequestsSound, Grows, NEW r \in Requests, NEW pc \in Pcs, NEW what \in Ops,
           NEW a \in Args, Start(r, pc, what, a), UNCHANGED wanted,
           Fits(pc, what, a, wanted[r], user', drawn')
    PROVE  RequestsSound'
BY StartMoves, MovedSound

\* A step that changes neither the row nor what is known of its codes.
LEMMA QuietSound ==
    ASSUME RowSound, UNCHANGED <<user, otp, drawn, newest, lapsed, mailed, tokens>>
    PROVE  RowSound' /\ Grows /\ VerifiedStep
BY DEF RowSound, Grows, VerifiedStep, CodeStaysGood, TokensAreForVerified

LEMMA FaultSound ==
    ASSUME Switches, NoFault \/ Fault
    PROVE  faults' \in 0..MaxFaults
BY AccountBoundsAssumption DEF Switches, NoFault, Fault

LEMMA CreateSound ==
    ASSUME AccountInv, NEW r \in Requests, CreateUser(r)
    PROVE  AccountInv' /\ VerifiedStep
<1>1. arg[r] \in Passwords /\ rpc[r] # "new"
  BY DEF CreateUser, AccountInv, RequestsSound, Fits
<1>2. RowSound' /\ Grows /\ VerifiedStep
  <2>1. CASE UNCHANGED user
    BY <2>1, QuietSound DEF CreateUser, AccountInv, codeVars
  <2>2. CASE user = None /\ user' = NewUser(arg[r])
    <3>1. user' \in User /\ user' # None /\ ~user'.verified
      BY <1>1, <2>2, NewUserSound
    <3>2. drawn = 0 /\ newest = 0 /\ tokens = FALSE
      BY <2>2 DEF AccountInv, RowSound, Switches, TokensAreForVerified
    <3>3. UNCHANGED <<otp, drawn, newest, lapsed, mailed, tokens>>
      BY DEF CreateUser, codeVars
    <3> QED
      BY <2>2, <3>1, <3>2, <3>3 DEF AccountInv, RowSound, Grows, VerifiedStep,
           CodeStaysGood, TokensAreForVerified
  <2> QED
    BY <2>1, <2>2 DEF CreateUser, Call
<1>3. Switches'
  BY FaultSound DEF CreateUser, Call, AccountInv, Switches, NoFault
<1>4. RequestsSound'
  <2>1. CASE user = None /\ GoOn(r, "issue") /\ user' = NewUser(arg[r])
    <3>1. user' # None
      BY <1>1, <2>1, NewUserSound
    <3>2. Fits("issue", op[r], arg[r], wanted[r], user', drawn')
      BY <2>1, <3>1, <1>2, OthersFit DEF AccountInv, RequestsSound, Fits, Grows
    <3> QED
      BY <1>2, <2>1, <3>2, WentOnSound DEF AccountInv, Pcs, Steps
  <2>2. CASE \E a \in {"failed", "refused"} : Answer(r, a)
    BY <1>1, <1>2, <2>2, AnsweredSound DEF AccountInv, Answers
  <2> QED
    BY <2>1, <2>2 DEF CreateUser, Call
<1> QED
  BY <1>2, <1>3, <1>4 DEF AccountInv

\* The statements that update one field of the row.
Field(u) ==
    \/ \E p \in Passwords : u = [user EXCEPT !.password = p]
    \/ \E x \in Roles : u = [user EXCEPT !.role = x]
    \/ \E b \in BOOLEAN : u = [user EXCEPT !.suspended = b]
    \/ u = [user EXCEPT !.verified = TRUE]

LEMMA FieldSound ==
    ASSUME RowSound, user # None, user' = user \/ Field(user'),
           UNCHANGED <<codeVars, mailed, tokens>>
    PROVE  RowSound' /\ Grows /\ VerifiedStep
<1>1. CASE user' = user
  BY <1>1, QuietSound DEF codeVars
<1>2. CASE Field(user')
  <2>1. user \in User
    BY DEF RowSound
  <2>2. user' \in User /\ (user.verified => user'.verified)
    <3>1. CASE \E p \in Passwords : user' = [user EXCEPT !.password = p]
      BY <2>1, <3>1, UpdatesSound
    <3>2. CASE \E x \in Roles : user' = [user EXCEPT !.role = x]
      BY <2>1, <3>2, UpdatesSound
    <3>3. CASE \E b \in BOOLEAN : user' = [user EXCEPT !.suspended = b]
      BY <2>1, <3>3, UpdatesSound
    <3>4. CASE user' = [user EXCEPT !.verified = TRUE]
      BY <2>1, <3>4, UpdatesSound
    <3> QED
      BY <1>2, <3>1, <3>2, <3>3, <3>4 DEF Field
  <2>3. user' # None
    BY <2>2, RowsAssumption
  <2> QED
    BY <2>1, <2>2, <2>3 DEF RowSound, Grows, VerifiedStep, CodeStaysGood,
         TokensAreForVerified, codeVars
<1> QED
  BY <1>1, <1>2

\* A request that updates a field, or fails to.
LEMMA UpdateSound ==
    ASSUME AccountInv, NEW r \in Requests, NEW u, NEW pc \in Pcs, Field(u),
           rpc[r] \in Steps \ {"create", "look"},
           Call(r, user' = u, UNCHANGED user, pc),
           user' = u => Fits(pc, op[r], arg[r], wanted[r], u, drawn),
           UNCHANGED <<cooldown, codeVars, mailed, tokens>>
    PROVE  AccountInv' /\ VerifiedStep
<1>1. user # None /\ rpc[r] # "new"
  BY DEF AccountInv, RequestsSound, Fits, Steps
<1>2. RowSound' /\ Grows /\ VerifiedStep
  BY <1>1, FieldSound DEF AccountInv, Call
<1>3. Switches'
  BY FaultSound DEF Call, AccountInv, Switches
<1>4. RequestsSound'
  <2>1. CASE user' = u /\ GoOn(r, pc)
    <3>1. Fits(pc, op[r], arg[r], wanted[r], user', drawn')
      BY <2>1 DEF codeVars
    <3> QED
      BY <1>2, <2>1, <3>1, WentOnSound DEF AccountInv
  <2>2. CASE Answer(r, "failed")
    BY <1>1, <1>2, <2>2, AnsweredSound DEF AccountInv, Answers
  <2> QED
    BY <2>1, <2>2 DEF Call
<1> QED
  BY <1>2, <1>3, <1>4 DEF AccountInv

LEMMA PasswordSound ==
    ASSUME AccountInv, NEW r \in Requests, UpdatePasswordHash(r)
    PROVE  AccountInv' /\ VerifiedStep
<1> DEFINE u == [user EXCEPT !.password = arg[r]]
           pc == IF rpc[r] = "refresh" THEN "issue" ELSE "ok"
<1>1. arg[r] \in Passwords /\ rpc[r] \in {"refresh", "commit"} /\ user # None /\ user \in User
  BY DEF UpdatePasswordHash, AccountInv, RequestsSound, Fits, Steps, RowSound
<1>2. Field(u) /\ u # None
  <2>1. u \in User
    BY <1>1, UpdatesSound
  <2> QED
    BY <1>1, <2>1, RowsAssumption, Zenon DEF Field
<1>3. op[r] # "admin"
  BY <1>1 DEF AccountInv, RequestsSound, Fits
<1>4. Fits(pc, op[r], arg[r], wanted[r], u, drawn)
  BY <1>1, <1>2, <1>3 DEF Fits, Steps
<1>5. /\ Call(r, user' = u, UNCHANGED user, pc)
      /\ UNCHANGED <<cooldown, codeVars, mailed, tokens>>
      /\ pc \in Pcs
      /\ rpc[r] \in Steps \ {"create", "look"}
  BY <1>1 DEF UpdatePasswordHash, Pcs, Steps, Answers
<1> HIDE DEF u, pc
<1> QED
  BY <1>2, <1>4, <1>5, UpdateSound

LEMMA MarkSound ==
    ASSUME AccountInv, NEW r \in Requests, MarkVerified(r)
    PROVE  AccountInv' /\ VerifiedStep
<1> DEFINE u == [user EXCEPT !.verified = TRUE]
<1>1. rpc[r] = "mark" /\ user # None /\ user \in User
  BY DEF MarkVerified, AccountInv, RequestsSound, Fits, Steps, RowSound
<1>2. Field(u) /\ u # None /\ u.verified
  BY <1>1, UpdatesSound, RowsAssumption DEF Field
<1>3. op[r] # "admin"
  BY <1>1 DEF AccountInv, RequestsSound, Fits
<1>4. Fits("forget", op[r], arg[r], wanted[r], u, drawn)
  BY <1>1, <1>2, <1>3 DEF Fits, Steps
<1>5. /\ Call(r, user' = u, UNCHANGED user, "forget")
      /\ UNCHANGED <<cooldown, codeVars, mailed, tokens>>
      /\ "forget" \in Pcs
      /\ rpc[r] \in Steps \ {"create", "look"}
  BY <1>1 DEF MarkVerified, Pcs, Steps
<1> HIDE DEF u
<1> QED
  BY <1>2, <1>4, <1>5, UpdateSound

LEMMA RoleSound ==
    ASSUME AccountInv, NEW r \in Requests, UpdateRole(r)
    PROVE  AccountInv' /\ VerifiedStep
<1> DEFINE u == [user EXCEPT !.role = wanted[r].role]
           pc == IF wanted[r].status = None THEN "ok" ELSE "status"
<1>1. rpc[r] = "role" /\ user # None /\ user \in User /\ wanted[r].role \in Roles
      /\ op[r] = "admin" /\ wanted[r] \in Change
  BY DEF UpdateRole, AccountInv, RequestsSound, Fits, Steps, RowSound
<1>2. Field(u) /\ u # None
  BY <1>1, UpdatesSound, RowsAssumption DEF Field
<1>3. Fits(pc, op[r], arg[r], wanted[r], u, drawn)
  BY <1>1, <1>2 DEF Fits, Steps
<1>4. /\ Call(r, user' = u, UNCHANGED user, pc)
      /\ UNCHANGED <<cooldown, codeVars, mailed, tokens>>
      /\ pc \in Pcs
      /\ rpc[r] \in Steps \ {"create", "look"}
  BY <1>1 DEF UpdateRole, Pcs, Steps, Answers
<1> HIDE DEF u, pc
<1> QED
  BY <1>2, <1>3, <1>4, UpdateSound

LEMMA SuspendedSound ==
    ASSUME AccountInv, NEW r \in Requests, UpdateSuspended(r)
    PROVE  AccountInv' /\ VerifiedStep
<1> DEFINE b == wanted[r].status = "SUSPENDED"
           u == [user EXCEPT !.suspended = b]
<1>1. rpc[r] = "status" /\ user # None /\ user \in User
      /\ op[r] = "admin" /\ wanted[r] \in Change
  BY DEF UpdateSuspended, AccountInv, RequestsSound, Fits, Steps, RowSound
<1>2. UNCHANGED <<cooldown, codeVars, mailed, tokens>>
  BY DEF UpdateSuspended
<1>3. CASE Call(r, user' = u, UNCHANGED user, "ok")
  <2>1. b \in BOOLEAN
    OBVIOUS
  <2> HIDE DEF b
  <2>2. Field(u) /\ u # None
    BY <1>1, <2>1, UpdatesSound, RowsAssumption DEF Field
  <2>3. Fits("ok", op[r], arg[r], wanted[r], u, drawn)
    BY <1>1, <2>2 DEF Fits, Steps
  <2>4. "ok" \in Pcs /\ rpc[r] \in Steps \ {"create", "look"}
    BY <1>1 DEF Pcs, Steps, Answers
  <2> HIDE DEF u
  <2> QED
    BY <1>2, <1>3, <2>2, <2>3, <2>4, UpdateSound
<1>4. CASE Answer(r, "refused") /\ UNCHANGED <<user, faults>>
  <2>1. RowSound' /\ Grows /\ VerifiedStep
    BY <1>2, <1>4, QuietSound DEF AccountInv, codeVars
  <2>2. RequestsSound'
    BY <1>1, <1>4, <2>1, AnsweredSound DEF AccountInv, Answers
  <2> QED
    BY <1>2, <1>4, <2>1, <2>2 DEF AccountInv, Switches
<1> QED
  BY <1>3, <1>4 DEF UpdateSuspended

-----------------------------------------------------------------------------
(* Requests that begin, and the steps around the code.                     *)

LEMMA BeginSound ==
    ASSUME AccountInv, NEW r \in Requests, NEW pc \in Pcs, NEW what \in Ops, NEW a \in Args,
           Start(r, pc, what, a), Fits(pc, what, a, wanted[r], user, drawn),
           UNCHANGED <<user, cooldown, codeVars, mailed, tokens, wanted, faults>>
    PROVE  AccountInv' /\ VerifiedStep
<1>1. RowSound' /\ Grows /\ VerifiedStep
  BY QuietSound DEF AccountInv, codeVars
<1>2. Fits(pc, what, a, wanted[r], user', drawn')
  BY DEF codeVars
<1>3. RequestsSound'
  BY <1>1, <1>2, StartedSound DEF AccountInv
<1> QED
  BY <1>1, <1>3 DEF AccountInv, Switches

LEMMA RegisterSound ==
    ASSUME AccountInv, NEW r \in Requests, NEW p \in Passwords, Register(r, p)
    PROVE  AccountInv' /\ VerifiedStep
<1>1. p \in Args /\ "register" \in Ops /\ "create" \in Pcs /\ "refresh" \in Pcs
  BY DEF Args, Ops, Pcs, Steps
<1>2. CASE user = None /\ Start(r, "create", "register", p)
  <2>1. Fits("create", "register", p, wanted[r], user, drawn)
    BY DEF Fits
  <2> QED
    BY <1>1, <1>2, <2>1, BeginSound DEF Register
<1>3. CASE user # None /\ Start(r, "refresh", "register", p)
  <2>1. Fits("refresh", "register", p, wanted[r], user, drawn)
    BY <1>3 DEF Fits
  <2> QED
    BY <1>1, <1>3, <2>1, BeginSound DEF Register
<1> QED
  BY <1>2, <1>3 DEF Register

LEMMA LoginSound ==
    ASSUME AccountInv, NEW r \in Requests, NEW p \in Passwords, Login(r, p)
    PROVE  AccountInv' /\ VerifiedStep
<1>1. Fits("ok", "login", None, wanted[r], user', drawn')
  BY DEF Fits, Steps
<1>2. RowSound' /\ Grows /\ VerifiedStep
  BY DEF Login, AccountInv, RowSound, Grows, VerifiedStep, CodeStaysGood,
       TokensAreForVerified, codeVars
<1>3. RequestsSound'
  <2>1. "ok" \in Pcs /\ "login" \in Ops /\ None \in Args
    BY DEF Pcs, Answers, Ops, Args
  <2> QED
    BY <1>1, <1>2, <2>1, StartedSound DEF Login, AccountInv
<1> QED
  BY <1>2, <1>3 DEF AccountInv, Login, Switches

LEMMA ChangePasswordSound ==
    ASSUME AccountInv, NEW r \in Requests, NEW q \in Passwords, NEW p \in Passwords,
           ChangePassword(r, q, p)
    PROVE  AccountInv' /\ VerifiedStep
<1>1. p \in Args /\ "change" \in Ops /\ "commit" \in Pcs
  BY DEF Args, Ops, Pcs, Steps
<1>2. Fits("commit", "change", p, wanted[r], user, drawn)
  BY DEF Fits, ChangePassword, AccountInv, RowSound, TokensAreForVerified
<1> QED
  BY <1>1, <1>2, BeginSound DEF ChangePassword

LEMMA VerifySound ==
    ASSUME AccountInv, NEW r \in Requests, NEW code \in mailed, VerifyOTP(r, code)
    PROVE  AccountInv' /\ VerifiedStep
<1>1. None \in Args /\ "verify" \in Ops /\ "mark" \in Pcs
  BY DEF Args, Ops, Pcs, Steps
<1>2. user # None
  BY DEF AccountInv, RowSound
<1>3. Fits("mark", "verify", None, wanted[r], user, drawn)
  BY <1>2 DEF Fits
<1> QED
  BY <1>1, <1>3, BeginSound DEF VerifyOTP

LEMMA ResendSound ==
    ASSUME AccountInv, NEW r \in Requests, ResendOTP(r)
    PROVE  AccountInv' /\ VerifiedStep
<1>1. None \in Args /\ "resend" \in Ops /\ "look" \in Pcs
  BY DEF Args, Ops, Pcs, Steps
<1>2. Fits("look", "resend", None, wanted[r], user, drawn)
  BY DEF Fits
<1> QED
  BY <1>1, <1>2, BeginSound DEF ResendOTP

LEMMA AdminSound ==
    ASSUME AccountInv, NEW r \in Requests, NEW change \in Change, AdminUpdateUser(r, change)
    PROVE  AccountInv' /\ VerifiedStep
<1> DEFINE pc == IF change.role = None THEN "status" ELSE "role"
<1>1. RowSound' /\ Grows /\ VerifiedStep
  BY QuietSound DEF AdminUpdateUser, AccountInv, codeVars
<1>2. change \in Wanted /\ (change.role # None => change.role \in Roles)
  BY DEF Change, Wanted
<1>3. Fits(pc, "admin", None, change, user', drawn')
  BY <1>2 DEF Fits, AdminUpdateUser
<1>4. Moves(r, pc, "admin", None, change)
  BY <1>2, <1>3 DEF Moves, AdminUpdateUser, Start, Pcs, Steps, Ops, Args
<1>5. RequestsSound'
  BY <1>1, <1>4, MovedSound DEF AccountInv
<1> QED
  BY <1>1, <1>5 DEF AccountInv, AdminUpdateUser, Switches

LEMMA LookUpSound ==
    ASSUME AccountInv, NEW r \in Requests, LookUp(r)
    PROVE  AccountInv' /\ VerifiedStep
<1>1. RowSound' /\ Grows /\ VerifiedStep
  BY QuietSound DEF LookUp, AccountInv, codeVars
<1>2. RequestsSound'
  <2>1. CASE user # None /\ GoOn(r, "issue")
    <3>1. Fits("issue", op[r], arg[r], wanted[r], user', drawn')
      BY <2>1 DEF LookUp, codeVars, AccountInv, RequestsSound, Fits
    <3> QED
      BY <1>1, <2>1, <3>1, WentOnSound DEF AccountInv, Pcs, Steps
  <2>2. CASE Answer(r, "refused")
    BY <1>1, <2>2, AnsweredSound DEF LookUp, AccountInv, Answers
  <2> QED
    BY <2>1, <2>2 DEF LookUp
<1> QED
  BY <1>1, <1>2 DEF LookUp, AccountInv, Switches

LEMMA IssueSound ==
    ASSUME AccountInv, NEW r \in Requests, IssueOTP(r)
    PROVE  AccountInv' /\ VerifiedStep
<1>1. user # None /\ rpc[r] = "issue"
  BY DEF IssueOTP, AccountInv, RequestsSound, Fits, Steps
<1>2. RowSound' /\ Grows /\ VerifiedStep
  <2>1. /\ drawn' = drawn + 1 /\ drawn \in Nat
        /\ (otp' = drawn' /\ newest' = drawn') \/ UNCHANGED <<otp, newest>>
        /\ UNCHANGED <<user, lapsed, mailed, tokens>>
    BY DEF IssueOTP, AccountInv, RowSound
  <2>2. CodeStaysGood'
    BY <2>1 DEF AccountInv, RowSound, CodeStaysGood
  <2>3. TokensAreForVerified'
    BY <2>1 DEF AccountInv, RowSound, TokensAreForVerified
  <2>4. /\ otp' \in 0..drawn' /\ newest' \in 0..drawn'
        /\ lapsed' \subseteq 1..drawn' /\ mailed' \subseteq 1..drawn'
    BY <2>1 DEF AccountInv, RowSound
  <2> QED
    BY <1>1, <2>1, <2>2, <2>3, <2>4 DEF AccountInv, RowSound, Grows, VerifiedStep
<1>3. Switches'
  BY FaultSound DEF IssueOTP, AccountInv, Switches
<1>4. RequestsSound'
  <2>1. CASE /\ rpc' = [rpc EXCEPT ![r] = "mail"]
             /\ arg' = [arg EXCEPT ![r] = drawn']
             /\ UNCHANGED <<op, wanted>>
    <3>1. drawn' \in 1..drawn' /\ drawn' \in Args
      BY DEF IssueOTP, AccountInv, RowSound, Args
    <3>2. Fits("mail", op[r], drawn', wanted[r], user', drawn')
      BY <1>1, <1>2, <3>1 DEF AccountInv, RequestsSound, Fits, Grows
    <3>3. Moves(r, "mail", op[r], drawn', wanted[r])
      BY <2>1, <3>1, <3>2 DEF Moves, AccountInv, RequestsSound, Pcs, Steps
    <3> QED
      BY <1>2, <3>3, MovedSound DEF AccountInv
  <2>2. CASE Answer(r, "failed")
    BY <1>1, <1>2, <2>2, AnsweredSound DEF AccountInv, Answers
  <2> QED
    BY <2>1, <2>2 DEF IssueOTP
<1> QED
  BY <1>2, <1>3, <1>4 DEF AccountInv

LEMMA MailSound ==
    ASSUME AccountInv, NEW r \in Requests, SendOTPEmail(r)
    PROVE  AccountInv' /\ VerifiedStep
<1> DEFINE pc == IF op[r] = "register" THEN "ok" ELSE "cool"
<1>1. user # None /\ rpc[r] = "mail" /\ arg[r] \in 1..drawn
  BY DEF SendOTPEmail, AccountInv, RequestsSound, Fits, Steps
<1>2. RowSound' /\ Grows /\ VerifiedStep
  <2>1. /\ mailed' = mailed \cup {arg[r]} \/ mailed' = mailed
        /\ UNCHANGED <<user, otp, drawn, newest, lapsed, tokens>>
    BY DEF SendOTPEmail, Call, codeVars
  <2>2. mailed' \subseteq 1..drawn'
    BY <1>1, <2>1 DEF AccountInv, RowSound
  <2>3. CodeStaysGood' /\ TokensAreForVerified' /\ VerifiedStep
    BY <2>1 DEF AccountInv, RowSound, CodeStaysGood, TokensAreForVerified, VerifiedStep
  <2> QED
    BY <2>1, <2>2, <2>3 DEF AccountInv, RowSound, Grows
<1>3. Switches'
  BY FaultSound DEF SendOTPEmail, Call, AccountInv, Switches
<1>4. RequestsSound'
  <2>1. CASE GoOn(r, pc)
    <3>1. Fits(pc, op[r], arg[r], wanted[r], user', drawn')
      BY <1>1, <1>2 DEF AccountInv, RequestsSound, Fits, Grows
    <3>2. pc \in Pcs
      BY DEF Pcs, Steps, Answers
    <3> HIDE DEF pc
    <3> QED
      BY <1>2, <2>1, <3>1, <3>2, WentOnSound DEF AccountInv
  <2>2. CASE Answer(r, "failed")
    BY <1>1, <1>2, <2>2, AnsweredSound DEF AccountInv, Answers
  <2> QED
    BY <2>1, <2>2 DEF SendOTPEmail, Call
<1> QED
  BY <1>2, <1>3, <1>4 DEF AccountInv

LEMMA CooldownSound ==
    ASSUME AccountInv, NEW r \in Requests, SetCooldown(r)
    PROVE  AccountInv' /\ VerifiedStep
<1>1. user # None /\ rpc[r] = "cool"
  BY DEF SetCooldown, AccountInv, RequestsSound, Fits, Steps
<1>2. RowSound' /\ Grows /\ VerifiedStep
  BY QuietSound DEF SetCooldown, AccountInv, codeVars
<1>3. Switches'
  BY FaultSound DEF SetCooldown, Call, AccountInv, Switches
<1>4. RequestsSound'
  <2>1. CASE GoOn(r, "ok")
    <3>1. Fits("ok", op[r], arg[r], wanted[r], user', drawn')
      BY <1>1, <1>2 DEF AccountInv, RequestsSound, Fits, Grows, Steps
    <3> QED
      BY <1>2, <2>1, <3>1, WentOnSound DEF AccountInv, Pcs, Answers
  <2>2. CASE Answer(r, "failed")
    BY <1>1, <1>2, <2>2, AnsweredSound DEF AccountInv, Answers
  <2> QED
    BY <2>1, <2>2 DEF SetCooldown, Call
<1> QED
  BY <1>2, <1>3, <1>4 DEF AccountInv

\* DEL may take a newer code: the account is verified, so none is needed.
LEMMA ForgetSound ==
    ASSUME AccountInv, NEW r \in Requests, ForgetOTP(r)
    PROVE  AccountInv' /\ VerifiedStep
<1>1. user # None /\ user.verified /\ rpc[r] = "forget"
  BY DEF ForgetOTP, AccountInv, RequestsSound, Fits, Steps
<1>2. RowSound' /\ Grows /\ VerifiedStep
  BY <1>1 DEF ForgetOTP, AccountInv, RowSound, Grows, VerifiedStep, CodeStaysGood,
       TokensAreForVerified
<1>3. Switches'
  BY FaultSound DEF ForgetOTP, AccountInv, Switches
<1>4. RequestsSound'
  BY <1>1, <1>2, AnsweredSound DEF ForgetOTP, AccountInv, Answers
<1> QED
  BY <1>2, <1>3, <1>4 DEF AccountInv

LEMMA LapseSound ==
    ASSUME AccountInv, OTPLapses \/ CooldownLapses
    PROVE  AccountInv' /\ VerifiedStep
<1>1. RowSound' /\ VerifiedStep
  <2>1. CASE CooldownLapses
    BY <2>1, QuietSound DEF CooldownLapses, codeVars, AccountInv
  <2>2. CASE OTPLapses
    <3>1. /\ otp' = 0 /\ lapsed' = lapsed \cup {otp} /\ otp \in 1..drawn
          /\ UNCHANGED <<user, drawn, newest, mailed, tokens>>
      BY <2>2 DEF OTPLapses, AccountInv, RowSound
    <3>2. CodeStaysGood' /\ TokensAreForVerified' /\ VerifiedStep
      BY <3>1 DEF AccountInv, RowSound, CodeStaysGood, TokensAreForVerified, VerifiedStep
    <3> QED
      BY <3>1, <3>2 DEF AccountInv, RowSound
  <2> QED
    BY <2>1, <2>2
<1>2. RequestsSound' /\ Switches'
  BY DEF OTPLapses, CooldownLapses, codeVars, requestVars, AccountInv, RequestsSound, Switches
<1> QED
  BY <1>1, <1>2 DEF AccountInv

-----------------------------------------------------------------------------
LEMMA AccountStart == AccountInit => AccountInv
<1> SUFFICES ASSUME AccountInit PROVE AccountInv
  OBVIOUS
<1> USE DEF AccountInit
<1>1. RowSound
  BY DEF RowSound, CodeStaysGood, TokensAreForVerified
<1>2. RequestsSound
  BY RowsAssumption DEF RequestsSound, Fits, Pcs, Ops, Args, Wanted, Steps
<1>3. Switches
  <2>1. cooldown \in BOOLEAN /\ tokens \in BOOLEAN
    BY Zenon
  <2>2. faults \in 0..MaxFaults
    BY AccountBoundsAssumption
  <2> QED
    BY <2>1, <2>2 DEF Switches
<1> QED
  BY <1>1, <1>2, <1>3 DEF AccountInv

LEMMA AccountStep ==
    ASSUME AccountInv, [AccountNext]_accountVars
    PROVE  AccountInv' /\ VerifiedStep
<1>1. CASE UNCHANGED accountVars
  BY <1>1 DEF accountVars, codeVars, requestVars, AccountInv, RowSound, RequestsSound,
       Switches, VerifiedStep, CodeStaysGood, TokensAreForVerified
<1>2. ASSUME NEW r \in Requests,
             \/ \E p \in Passwords :
                   Register(r, p) \/ Login(r, p) \/ \E q \in Passwords : ChangePassword(r, q, p)
             \/ \E code \in mailed : VerifyOTP(r, code)
             \/ \E change \in Change : AdminUpdateUser(r, change)
      PROVE  AccountInv' /\ VerifiedStep
  BY <1>2, RegisterSound, LoginSound, ChangePasswordSound, VerifySound, AdminSound
<1>3. ASSUME NEW r \in Requests,
             \/ CreateUser(r) \/ UpdatePasswordHash(r) \/ IssueOTP(r) \/ SendOTPEmail(r)
             \/ ResendOTP(r) \/ LookUp(r) \/ SetCooldown(r)
      PROVE  AccountInv' /\ VerifiedStep
  BY <1>3, CreateSound, PasswordSound, IssueSound, MailSound, ResendSound, LookUpSound,
       CooldownSound
<1>4. ASSUME NEW r \in Requests,
             MarkVerified(r) \/ ForgetOTP(r) \/ UpdateRole(r) \/ UpdateSuspended(r)
      PROVE  AccountInv' /\ VerifiedStep
  BY <1>4, MarkSound, ForgetSound, RoleSound, SuspendedSound
<1>5. CASE OTPLapses \/ CooldownLapses
  BY <1>5, LapseSound
<1> QED
  BY <1>1, <1>2, <1>3, <1>4, <1>5 DEF AccountNext

LEMMA AccountInductive == AccountSpec => []AccountInv
BY AccountStart, AccountStep, PTL DEF AccountSpec

\* Every variable keeps its type; in particular a request that updates the row
\* has a row to update.
THEOREM AccountTyping == AccountSpec => []AccountTypeOK
<1>1. ASSUME AccountInv PROVE AccountTypeOK
  <2>1. \A r \in Requests :
            /\ rpc[r] \in {"create", "refresh", "commit"} => arg[r] \in Passwords
            /\ rpc[r] = "mail" => arg[r] \in 1..drawn
            /\ op[r] = "admin" => wanted[r] \in Change
            /\ rpc[r] \in Steps \ {"create", "look"} => user # None
    BY <1>1 DEF AccountInv, RequestsSound, Fits
  <2>2. /\ user \in User \cup {None} /\ otp \in 0..drawn /\ newest \in 0..drawn /\ drawn \in Nat
        /\ lapsed \subseteq 1..drawn /\ mailed \subseteq 1..drawn
    BY <1>1 DEF AccountInv, RowSound
  <2>3. /\ rpc \in [Requests -> {"new"} \cup Steps \cup Answers]
        /\ op \in [Requests -> {"register", "resend", "verify", "login", "change", "admin", None}]
    BY <1>1 DEF AccountInv, RequestsSound, Pcs, Ops
  <2>4. cooldown \in BOOLEAN /\ tokens \in BOOLEAN /\ faults \in 0..MaxFaults
    BY <1>1 DEF AccountInv, Switches
  <2> QED
    BY <2>1, <2>2, <2>3, <2>4, Zenon DEF AccountTypeOK
<1> QED
  BY <1>1, AccountInductive, PTL

\* Session tokens are only out once the address is verified.
THEOREM OnlyVerifiedHoldTokens == AccountSpec => []TokensAreForVerified
<1>1. AccountInv => TokensAreForVerified
  BY DEF AccountInv, RowSound
<1> QED
  BY <1>1, AccountInductive, PTL

\* No failure and no older code uses up the newest one of an address that is
\* not verified yet.
THEOREM NewestCodeWorks == AccountSpec => []CodeStaysGood
<1>1. AccountInv => CodeStaysGood
  BY DEF AccountInv, RowSound
<1> QED
  BY <1>1, AccountInductive, PTL

\* A verified address stays verified, whatever overlaps or fails.
THEOREM VerificationIsFinal == AccountSpec => VerifiedStays
<1>1. AccountInv /\ [AccountNext]_accountVars => [VerifiedStep]_accountVars
  BY AccountStep
<1> QED
  BY <1>1, AccountInductive, PTL DEF AccountSpec, VerifiedStays

-----------------------------------------------------------------------------
(* The halves of an admin's change.  While one admin is at work, what the   *)
(* request has written stays written.                                      *)

Alone(r) == op[r] = "admin" /\ \A q \in Requests \ {r} : op[q] # "admin"

HalvesHold ==
    \A r \in Requests : Alone(r) =>
        /\ rpc[r] \in {"status", "ok"} => wanted[r].role \in {None, user.role}
        /\ rpc[r] = "ok" =>
              wanted[r].status = None \/ user.suspended = (wanted[r].status = "SUSPENDED")

OthersStay(r) ==
    \A q \in Requests \ {r} : op'[q] = op[q] /\ rpc'[q] = rpc[q] /\ wanted'[q] = wanted[q]

FieldsStay == user # None => user'.role = user.role /\ user'.suspended = user.suspended

\* Requests other than an admin's do not touch the two fields.
LEMMA NotAnAdmin ==
    ASSUME AccountInv, HalvesHold, NEW r \in Requests, op[r] # "admin", op'[r] # "admin",
           OthersStay(r), FieldsStay
    PROVE  HalvesHold'
<1> SUFFICES ASSUME NEW q \in Requests, Alone(q)'
             PROVE  /\ rpc'[q] \in {"status", "ok"} => wanted'[q].role \in {None, user'.role}
                    /\ rpc'[q] = "ok" =>
                          wanted'[q].status = None
                            \/ user'.suspended = (wanted'[q].status = "SUSPENDED")
  BY DEF HalvesHold
<1>1. q # r /\ op[q] = "admin" /\ rpc'[q] = rpc[q] /\ wanted'[q] = wanted[q]
  BY DEF Alone, OthersStay
<1>2. Alone(q)
  BY <1>1 DEF Alone, OthersStay
<1>3. user # None
  BY <1>1 DEF AccountInv, RequestsSound, Fits
<1> QED
  BY <1>1, <1>2, <1>3, Zenon DEF HalvesHold, FieldsStay

\* An admin's request that moves while another admin's is there.
LEMMA TwoAdmins ==
    ASSUME NEW r \in Requests, NEW q \in Requests \ {r}, op'[r] = "admin"
    PROVE  ~Alone(q)'
BY DEF Alone

\* Requests of other kinds, at whatever step they are.
LEMMA OthersHold ==
    ASSUME AccountInv, HalvesHold, NEW r \in Requests,
           \/ \E p \in Passwords :
                 Register(r, p) \/ Login(r, p) \/ \E q \in Passwords : ChangePassword(r, q, p)
           \/ \E code \in mailed : VerifyOTP(r, code)
           \/ CreateUser(r) \/ UpdatePasswordHash(r) \/ IssueOTP(r) \/ SendOTPEmail(r)
           \/ ResendOTP(r) \/ LookUp(r) \/ SetCooldown(r)
           \/ MarkVerified(r) \/ ForgetOTP(r)
    PROVE  HalvesHold'
<1>1. /\ rpc[r] = "new" => op[r] = None
      /\ op[r] = "admin" => rpc[r] \in {"role", "status", "ok", "failed", "refused"}
  BY DEF AccountInv, RequestsSound, Fits
<1>2. CASE \/ \E p \in Passwords :
                 Register(r, p) \/ Login(r, p) \/ \E q \in Passwords : ChangePassword(r, q, p)
           \/ \E code \in mailed : VerifyOTP(r, code)
           \/ ResendOTP(r)
  <2>1. \E pc, a : \E what \in Ops \ {"admin"} : Start(r, pc, what, a) /\ UNCHANGED <<wanted, user>>
    BY <1>2 DEF Register, Login, ChangePassword, VerifyOTP, ResendOTP, Ops
  <2>2. op[r] # "admin" /\ op'[r] # "admin" /\ OthersStay(r) /\ FieldsStay
    BY <1>1, <2>1, RowsAssumption DEF Start, OthersStay, FieldsStay, AccountInv, RequestsSound
  <2> QED
    BY <2>2, NotAnAdmin
<1>3. CASE \/ CreateUser(r) \/ UpdatePasswordHash(r) \/ IssueOTP(r) \/ SendOTPEmail(r)
           \/ LookUp(r) \/ SetCooldown(r) \/ MarkVerified(r) \/ ForgetOTP(r)
  <2>1. op[r] # "admin"
    BY <1>1, <1>3 DEF CreateUser, UpdatePasswordHash, IssueOTP, SendOTPEmail, LookUp,
         SetCooldown, MarkVerified, ForgetOTP
  <2>2. UNCHANGED <<op, wanted>> /\ \E pc : rpc' = [rpc EXCEPT ![r] = pc]
    BY <1>3 DEF CreateUser, UpdatePasswordHash, IssueOTP, SendOTPEmail, LookUp,
         SetCooldown, MarkVerified, ForgetOTP, Call, GoOn, Answer
  <2>3. FieldsStay
    <3>1. user \in User \cup {None}
      BY DEF AccountInv, RowSound
    <3>2. \/ user = None \/ user' = user
          \/ user' = [user EXCEPT !.password = arg[r]]
          \/ user' = [user EXCEPT !.verified = TRUE]
      BY <1>3 DEF CreateUser, UpdatePasswordHash, IssueOTP, SendOTPEmail, LookUp,
           SetCooldown, MarkVerified, ForgetOTP, Call
    <3> QED
      BY <3>1, <3>2 DEF FieldsStay, User
  <2>4. op'[r] # "admin" /\ OthersStay(r)
    BY <2>1, <2>2 DEF OthersStay, AccountInv, RequestsSound
  <2> QED
    BY <2>1, <2>3, <2>4, NotAnAdmin
<1> QED
  BY <1>2, <1>3

LEMMA AdminBeginsHold ==
    ASSUME AccountInv, HalvesHold, NEW r \in Requests, NEW change \in Change,
           AdminUpdateUser(r, change)
    PROVE  HalvesHold'
<1>1. /\ op'[r] = "admin" /\ wanted'[r] = change
      /\ rpc'[r] = IF change.role = None THEN "status" ELSE "role"
  BY DEF AdminUpdateUser, Start, AccountInv, RequestsSound
<1>2. ASSUME NEW q \in Requests, q # r
      PROVE  ~Alone(q)'
  BY <1>1, <1>2, TwoAdmins
<1> QED
  BY <1>1, <1>2 DEF HalvesHold

LEMMA RoleHolds ==
    ASSUME AccountInv, HalvesHold, NEW r \in Requests, UpdateRole(r)
    PROVE  HalvesHold'
<1>1. rpc[r] = "role" /\ user \in User /\ op[r] = "admin" /\ wanted[r] \in Change
  BY DEF UpdateRole, AccountInv, RequestsSound, Fits, Steps, RowSound
<1>2. op' = op /\ wanted' = wanted
  BY DEF UpdateRole, Call, GoOn, Answer
<1>3. \/ rpc'[r] = "failed"
      \/ /\ rpc'[r] = IF wanted[r].status = None THEN "ok" ELSE "status"
         /\ user' = [user EXCEPT !.role = wanted[r].role]
  BY DEF UpdateRole, Call, GoOn, Answer, AccountInv, RequestsSound
<1>4. user' = [user EXCEPT !.role = wanted[r].role] => user'.role = wanted[r].role
  BY <1>1 DEF User
<1>5. ASSUME NEW q \in Requests, q # r
      PROVE  ~Alone(q)'
  BY <1>1, <1>2, <1>5, TwoAdmins
<1> QED
  BY <1>2, <1>3, <1>4, <1>5 DEF HalvesHold

LEMMA SuspendedHolds ==
    ASSUME AccountInv, HalvesHold, NEW r \in Requests, UpdateSuspended(r)
    PROVE  HalvesHold'
<1> DEFINE b == wanted[r].status = "SUSPENDED"
<1>1. rpc[r] = "status" /\ user \in User /\ op[r] = "admin" /\ wanted[r] \in Change
  BY DEF UpdateSuspended, AccountInv, RequestsSound, Fits, Steps, RowSound
<1>2. op' = op /\ wanted' = wanted
  BY DEF UpdateSuspended, Call, GoOn, Answer
<1>3. \/ rpc'[r] \in {"failed", "refused"}
      \/ rpc'[r] = "ok" /\ user' = [user EXCEPT !.suspended = b]
  BY DEF UpdateSuspended, Call, GoOn, Answer, AccountInv, RequestsSound
<1>4. user' = [user EXCEPT !.suspended = b] => user'.suspended = b /\ user'.role = user.role
  BY <1>1 DEF User
<1>5. ASSUME NEW q \in Requests, q # r
      PROVE  ~Alone(q)'
  BY <1>1, <1>2, <1>5, TwoAdmins
<1>6. Alone(r)' => Alone(r)
  BY <1>2 DEF Alone
<1>7. ASSUME Alone(r)'
      PROVE  /\ rpc'[r] \in {"status", "ok"} => wanted'[r].role \in {None, user'.role}
             /\ rpc'[r] = "ok" =>
                   wanted'[r].status = None
                     \/ user'.suspended = (wanted'[r].status = "SUSPENDED")
  <2>1. wanted[r].role \in {None, user.role}
    BY <1>1, <1>6, <1>7 DEF HalvesHold
  <2> QED
    BY <1>2, <1>3, <1>4, <2>1
<1> QED
  BY <1>5, <1>7, Zenon DEF HalvesHold

LEMMA HalvesStep ==
    ASSUME AccountInv, HalvesHold, [AccountNext]_accountVars
    PROVE  HalvesHold'
<1>1. CASE UNCHANGED accountVars
  BY <1>1 DEF accountVars, requestVars, HalvesHold, Alone
<1>2. CASE OTPLapses \/ CooldownLapses
  BY <1>2 DEF OTPLapses, CooldownLapses, requestVars, HalvesHold, Alone
<1>3. ASSUME NEW r \in Requests,
             \/ \E p \in Passwords :
                   Register(r, p) \/ Login(r, p) \/ \E q \in Passwords : ChangePassword(r, q, p)
             \/ \E code \in mailed : VerifyOTP(r, code)
             \/ CreateUser(r) \/ UpdatePasswordHash(r) \/ IssueOTP(r) \/ SendOTPEmail(r)
             \/ ResendOTP(r) \/ LookUp(r) \/ SetCooldown(r)
             \/ MarkVerified(r) \/ ForgetOTP(r)
      PROVE  HalvesHold'
  BY <1>3, OthersHold
<1>4. ASSUME NEW r \in Requests,
             \/ \E change \in Change : AdminUpdateUser(r, change)
             \/ UpdateRole(r) \/ UpdateSuspended(r)
      PROVE  HalvesHold'
  BY <1>4, AdminBeginsHold, RoleHolds, SuspendedHolds
<1> QED
  BY <1>1, <1>2, <1>3, <1>4 DEF AccountNext

\* An admin who is alone at work and was answered with success finds both
\* fields as asked, for any number of other requests and failures.
THEOREM AdminSuccessIsWhole == AccountSpec => []AdminChangeHolds
<1>1. AccountInit => HalvesHold
  BY RowsAssumption DEF AccountInit, HalvesHold, Alone
<1>2. HalvesHold => AdminChangeHolds
  BY Zenon DEF HalvesHold, AdminChangeHolds, Alone
<1> QED
  BY <1>1, <1>2, HalvesStep, AccountInductive, PTL DEF AccountSpec
=============================================================================

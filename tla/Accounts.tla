------------------------------ MODULE Accounts ------------------------------
(***************************************************************************)
(* Accounts and the one-time codes that lead to them: sign-up by email,    *)
(* password reset, the login of a driver by phone, OAuth (AuthService),    *)
(* the account of a new driver (DriverService) and the deletion of a user  *)
(* (UserService).  A code is known by the id of the request that sent it;  *)
(* who may know the code itself, the limits on how often codes are sent    *)
(* and tried and the files of a profile are left out.  A contact is an     *)
(* email address and a phone number at once.                               *)
(*                                                                         *)
(* A form is a request with a code, from its first read of Redis until it  *)
(* goes on to log in.                                                      *)
(***************************************************************************)
EXTENDS Sessions

CONSTANTS
  Contact,
  Form,       \* the requests with a code that may be in flight at a time
  MaxCodes    \* bound: how many codes are ever sent

ASSUME CodeBounds == MaxCodes \in Nat

VARIABLES
  contact,  \* the contact of each account, from the insertion of its row
  cost,     \* history: the code that each account was opened with, 0 for none
  oauth,    \* the accounts of an OAuth provider
  otp,      \* pwreset:, regotp: and drvotp:, 0 for none
  ok,       \* regotp_ok: and drvotp_ok:, the request that was verified
  form,     \* what each form holds
  codes,    \* how many codes were sent
  raced     \* history: the codes that two forms held at a time

accountVars == <<contact, cost, oauth, otp, ok, form, codes, raced>>
authVars == <<sessionVars, accountVars>>

-----------------------------------------------------------------------------

Purpose == {"reset", "signup", "driver"}

Code == 1 .. MaxCodes

NoForm == [at |-> "idle", purpose |-> "signup", contact |-> 0, code |-> 0]

FormState ==
  [at : {"idle", "verify", "verified", "insert"}, purpose : Purpose,
   contact : Contact \cup {0}, code : Code \cup {0}]

AccountsTypeOK ==
  /\ SessionsTypeOK
  /\ DOMAIN contact \subseteq User /\ active \subseteq DOMAIN contact
  /\ \A u \in DOMAIN contact : contact[u] \in Contact
  /\ cost \in [DOMAIN contact -> Code \cup {0}]
  /\ oauth \subseteq DOMAIN contact
  /\ otp \in [Purpose -> [Contact -> Code \cup {0}]]
  /\ ok \in [Purpose -> [Contact -> Code \cup {0}]]
  /\ form \in [Form -> FormState]
  /\ codes \in 0 .. MaxCodes
  /\ raced \subseteq Code

AccountsInit ==
  /\ SessionsInit
  /\ contact = [u \in {} |-> 0] /\ cost = [u \in {} |-> 0] /\ oauth = {}
  /\ otp = [p \in Purpose |-> [c \in Contact |-> 0]]
  /\ ok = [p \in Purpose |-> [c \in Contact |-> 0]]
  /\ form = [f \in Form |-> NoForm]
  /\ codes = 0 /\ raced = {}

Of(c) == {u \in active : contact[u] = c}

-----------------------------------------------------------------------------
(* One-time codes *)

(* request_signup_email_code, request_password_reset, request_driver_otp:  *)
(* a driver's number need not be known.                                    *)
SendCode(p, c) ==
  /\ codes < MaxCodes
  /\ p = "signup" => Of(c) = {}
  /\ p = "reset" => Of(c) \ oauth # {}
  /\ codes' = codes + 1
  /\ otp' = [otp EXCEPT ![p][c] = codes + 1]
  /\ UNCHANGED <<sessionVars, contact, cost, oauth, ok, form, raced>>

(* A code is gone when it expires, and with the last wrong try of it.      *)
CodeGone(p, c) ==
  /\ otp[p][c] # 0 \/ ok[p][c] # 0
  /\ otp' = [otp EXCEPT ![p][c] = 0]
  /\ \/ ok' = [ok EXCEPT ![p][c] = 0]
     \/ UNCHANGED ok
  /\ UNCHANGED <<sessionVars, contact, cost, oauth, form, codes, raced>>

(* A form that read code id starts, maybe while another one holds it.      *)
StartForm(f, at, p, c, id) ==
  /\ form[f].at = "idle" /\ id # 0
  /\ form' = [form EXCEPT ![f] = [at |-> at, purpose |-> p, contact |-> c, code |-> id]]
  /\ raced' = IF \E g \in Form : form[g].code = id THEN raced \cup {id} ELSE raced

EndForm(f) == form' = [form EXCEPT ![f] = NoForm]

(* _verify_otp_common and verify_driver_otp read the code, and it is the   *)
(* right one.  (For a reset of the password that is all they do.)          *)
VerifyRead(f, p, c) ==
  /\ p # "reset"
  /\ StartForm(f, "verify", p, c, otp[p][c])
  /\ UNCHANGED <<sessionVars, contact, cost, oauth, otp, ok, codes>>

(* They then mark the request as verified, whatever became of the code.    *)
VerifyOk(f) ==
  LET r == form[f] IN
  /\ r.at = "verify"
  /\ ok' = [ok EXCEPT ![r.purpose][r.contact] = r.code]
  /\ EndForm(f)
  /\ UNCHANGED <<sessionVars, contact, cost, oauth, otp, codes, raced>>

(* ensure_signup_email_verified and driver_login read that it is verified. *)
UseCode(f, p, c) ==
  /\ p # "reset"
  /\ StartForm(f, "verified", p, c, ok[p][c])
  /\ UNCHANGED <<sessionVars, contact, cost, oauth, otp, ok, codes>>

(* Mutant: the verified request stays for another account.                 *)
TakeCode_Keeps(f) ==
  LET r == form[f] IN
  /\ r.at = "verified" /\ r.purpose = "signup"
  /\ otp' = [otp EXCEPT !["signup"][r.contact] = 0]
  /\ form' = [form EXCEPT ![f].at = "insert"]
  /\ UNCHANGED <<sessionVars, contact, cost, oauth, ok, codes, raced>>

(* ensure_signup_email_verified uses the code up.                          *)
TakeCode(f) ==
  LET r == form[f] IN
  /\ r.at = "verified" /\ r.purpose = "signup"
  /\ ok' = [ok EXCEPT !["signup"][r.contact] = 0]
  /\ otp' = [otp EXCEPT !["signup"][r.contact] = 0]
  /\ form' = [form EXCEPT ![f].at = "insert"]
  /\ UNCHANGED <<sessionVars, contact, cost, oauth, codes, raced>>

(* A form ends with an error: the contact was taken meanwhile, the number  *)
(* is nobody's, Redis or the database fails.                               *)
FormFails(f) ==
  /\ form[f].at # "idle"
  /\ EndForm(f)
  /\ UNCHANGED <<sessionVars, contact, cost, oauth, otp, ok, codes, raced>>

-----------------------------------------------------------------------------
(* Accounts *)

(* The row of u, opened with code id.  uq_user_email_active_true allows it *)
(* once among the active, and an insert waits for one not committed yet.   *)
InsertUser(u, c, id) ==
  /\ u = Cardinality(DOMAIN contact) + 1 /\ u \in User
  /\ Of(c) = {}
  /\ \A q \in Req : req[q].row # "known" => contact[req[q].user] # c
  /\ contact' = [x \in DOMAIN contact \cup {u} |-> IF x = u THEN c ELSE contact[x]]
  /\ cost' = [x \in DOMAIN contact \cup {u} |-> IF x = u THEN id ELSE cost[x]]

(* register_user inserts the account of a form, whose user goes on to log  *)
(* in; the row is committed when that is done.                             *)
Register(f, q, u, d) ==
  /\ form[f].at = "insert" /\ Idle(q)
  /\ InsertUser(u, form[f].contact, form[f].code)
  /\ StartLogin(q, u, d, "registered")
  /\ EndForm(f)
  /\ UNCHANGED <<active, signed, sess, refresh, mapped, listed, known, closed,
                 oauth, otp, ok, codes, raced>>

(* authenticate_or_register_oauth of somebody new.                         *)
RegisterOAuth(q, c, u, d) ==
  /\ Idle(q)
  /\ InsertUser(u, c, 0)
  /\ oauth' = oauth \cup {u}
  /\ StartLogin(q, u, d, "oauth")
  /\ UNCHANGED <<active, signed, sess, refresh, mapped, listed, known, closed,
                 otp, ok, form, codes, raced>>

(* _get_or_create_driver_user: the account of a new driver, with a         *)
(* password that nobody knows and no code.                                 *)
HireDriver(c, u) ==
  /\ InsertUser(u, c, 0)
  /\ active' = active \cup {u}
  /\ UNCHANGED <<signed, sess, refresh, mapped, listed, known, req, closed,
                 oauth, otp, ok, form, codes, raced>>

(* driver_login finds the user of the number, uses the code up and goes on *)
(* to log the user in.                                                     *)
DriverLogin(f, q, d) ==
  LET r == form[f] IN
  /\ r.at = "verified" /\ r.purpose = "driver" /\ Idle(q)
  /\ ok' = [ok EXCEPT !["driver"][r.contact] = 0]
  /\ \E u \in Of(r.contact) : StartLogin(q, u, d, "known")
  /\ EndForm(f)
  /\ UNCHANGED <<active, signed, sess, refresh, mapped, listed, known, closed,
                 contact, cost, oauth, otp, codes, raced>>

(* confirm_password_reset sets the password and reads the list of sessions *)
(* to close, ResetWipe closes them.                                        *)
ConfirmReset(q, c) ==
  /\ Idle(q) /\ otp["reset"][c] # 0
  /\ \E u \in Of(c) :
        Become(q, [NoRequest EXCEPT !.at = "wipe", !.user = u, !.sids = listed[u]])
  /\ UNCHANGED <<active, signed, sess, refresh, mapped, listed, known, closed, accountVars>>

(* It deletes the code in the end, or a newer one that was sent meanwhile. *)
ResetDone(q) ==
  /\ req[q].at = "spent"
  /\ otp' = [otp EXCEPT !["reset"][contact[req[q].user]] = 0]
  /\ Finish(q)
  /\ UNCHANGED <<active, signed, sess, refresh, mapped, listed, known, closed,
                 contact, cost, oauth, ok, form, codes, raced>>

(* delete_user_by_actor, for a user who leaves no team without members: a  *)
(* deletion that would calls delete_team without its actor_user_id, which  *)
(* is required, and fails as a whole.                                      *)
DeleteUser(u) ==
  /\ u \in active
  /\ active' = active \ {u}
  /\ UNCHANGED <<accountVars, signed, sess, refresh, mapped, listed, known, req, closed>>

AccountsNext ==
  \/ SessionsNext /\ UNCHANGED accountVars
  \/ \E p \in Purpose, c \in Contact :
       SendCode(p, c) \/ CodeGone(p, c)
       \/ \E f \in Form : VerifyRead(f, p, c) \/ UseCode(f, p, c)
  \/ \E f \in Form :
       VerifyOk(f) \/ TakeCode(f) \/ FormFails(f)
       \/ \E q \in Req, d \in Device :
            DriverLogin(f, q, d) \/ \E u \in User : Register(f, q, u, d)
  \/ \E c \in Contact, u \in User :
       HireDriver(c, u) \/ \E q \in Req, d \in Device : RegisterOAuth(q, c, u, d)
  \/ \E q \in Req : ResetDone(q) \/ \E c \in Contact : ConfirmReset(q, c)
  \/ \E u \in User : DeleteUser(u)

(* Redis drops a key when its TTL has run out, and a request that was let  *)
(* in goes on.                                                             *)
AccountsSpec ==
  /\ AccountsInit /\ [][AccountsNext]_authVars
  /\ \A q \in Req : WF_authVars(BearerFill(q) /\ UNCHANGED accountVars)
  /\ \A u \in User : WF_authVars(UserExpires(u) /\ UNCHANGED accountVars)

-----------------------------------------------------------------------------

(* A code opens one account, whatever is retried, fails, expires or is     *)
(* deleted, also after that account was deleted (register_and_login_user). *)
(* The exception is a code with which two requests overlapped: both find   *)
(* it verified before the first uses it up, or one marks it as verified    *)
(* when another has used it up.                                            *)
OneAccountPerCode ==
  \A u, v \in DOMAIN contact :
     u # v /\ cost[u] = cost[v] /\ cost[u] # 0 => cost[u] \in raced
=============================================================================

------------------------------ MODULE Sessions ------------------------------
(***************************************************************************)
(* The sessions that AuthService keeps in Redis and that bearer_token asks *)
(* for at every request.  A token carries the user, the session and the    *)
(* device it was signed for; logging in on a device closes the session     *)
(* the device had.  A request is a step for each time it awaits Redis in   *)
(* between; a pipeline is one step.                                        *)
(*                                                                         *)
(* Keys with a TTL may go at any time; the keys of a session are set and   *)
(* prolonged together, and the list of a user whenever one of its sessions *)
(* is, so they go together and the list last.  The blacklist of access     *)
(* tokens is left out: whoever is on it has lost the session as well.      *)
(***************************************************************************)
EXTENDS Naturals, FiniteSets

CONSTANTS
  Device,
  Req,          \* the requests that may be in flight at a time
  MaxUsers,     \* bound: how many accounts are ever created
  MaxSessions,  \* bound: how many sessions are ever opened
  MaxRotations  \* bound: how many refresh tokens follow a first one

ASSUME SessionBounds ==
  MaxUsers \in Nat /\ MaxSessions \in Nat /\ MaxRotations \in Nat

VARIABLES
  active,   \* the active rows of user
  signed,   \* for each session: the user and the device of its tokens, and (history)
            \* whether it was opened between the two steps of a reset
  sess,     \* the sessions with a key sess:{sid}
  refresh,  \* refresh:{sid}: the refresh token that is accepted, 0 for none
  mapped,   \* device:{did}:sid: the session of the device, 0 for none
  listed,   \* u:{uid}:sids
  known,    \* the users with a key user:{uid}
  req,      \* what each request in flight holds
  closed    \* history: the sessions that were closed

sessionVars == <<active, signed, sess, refresh, mapped, listed, known, req, closed>>

-----------------------------------------------------------------------------

User == 1 .. MaxUsers
Sid  == 1 .. MaxSessions

Token == [user : User, device : Device, raced : BOOLEAN]

NoRequest ==
  [at |-> "idle", user |-> 0, device |-> 0, sid |-> 0, sids |-> {}, row |-> "known"]

(* row says where the account of a login comes from: it was there, or the  *)
(* request inserted it and has not committed it yet.                       *)
AuthRequest ==
  [at : {"idle", "read", "close", "open", "commit", "rotate", "wipe", "spent", "fill"},
   user : User \cup {0}, device : Device \cup {0}, sid : Sid \cup {0}, sids : SUBSET Sid,
   row : {"known", "registered", "oauth"}]

Opened == DOMAIN signed

SessionsTypeOK ==
  /\ active \subseteq User
  /\ Opened \subseteq Sid
  /\ \A s \in Opened : signed[s] \in Token
  /\ sess \subseteq Opened /\ closed \subseteq Opened
  /\ refresh \in [Sid -> 0 .. MaxRotations + 1]
  /\ mapped \in [Device -> Sid \cup {0}]
  /\ listed \in [User -> SUBSET Sid]
  /\ known \subseteq User
  /\ req \in [Req -> AuthRequest]

SessionsInit ==
  /\ active = {}
  /\ signed = [s \in {} |-> NoRequest]
  /\ sess = {} /\ closed = {} /\ known = {}
  /\ refresh = [s \in Sid |-> 0]
  /\ mapped = [d \in Device |-> 0]
  /\ listed = [u \in User |-> {}]
  /\ req = [q \in Req |-> NoRequest]

-----------------------------------------------------------------------------
(* Requests *)

Idle(q) == req[q].at = "idle"
Become(q, r) == req' = [req EXCEPT ![q] = r]
Finish(q) == Become(q, NoRequest)

(* Someone who was authenticated as u on device d goes on to login_user.   *)
StartLogin(q, u, d, row) ==
  Become(q, [NoRequest EXCEPT !.at = "read", !.user = u, !.device = d, !.row = row])

(* login with a password; a login of an OAuth user that exists.            *)
Login(q, u, d) ==
  /\ Idle(q) /\ u \in active
  /\ StartLogin(q, u, d, "known")
  /\ UNCHANGED <<active, signed, sess, refresh, mapped, listed, known, closed>>

(* login_user reads the session of the device.                             *)
LoginRead(q) ==
  LET prev == mapped[req[q].device] IN
  /\ req[q].at = "read"
  /\ Become(q, [req[q] EXCEPT !.at = IF prev = 0 THEN "open" ELSE "close", !.sid = prev])
  /\ UNCHANGED <<active, signed, sess, refresh, mapped, listed, known, closed>>

(* It closes it, in the list of the user who logs in now.                  *)
LoginClose(q) ==
  LET r == req[q] IN
  /\ r.at = "close"
  /\ sess' = sess \ {r.sid}
  /\ refresh' = [refresh EXCEPT ![r.sid] = 0]
  /\ listed' = [listed EXCEPT ![r.user] = @ \ {r.sid}]
  /\ closed' = closed \cup {r.sid}
  /\ Become(q, [r EXCEPT !.at = "open"])
  /\ UNCHANGED <<active, signed, mapped, known>>

(* A reset has read the list of u and is about to delete it.               *)
Wiping(u) ==
  \E p \in Req : req[p].at = "wipe" /\ req[p].user = u /\ req[p].sids # {}

(* Mutant: the session is not put on the list of its user.                 *)
LoginOpen_Unlisted(q) ==
  LET r == req[q]
      s == Cardinality(Opened) + 1
  IN
  /\ r.at = "open" /\ s \in Sid
  /\ signed' = [x \in Opened \cup {s} |->
                  IF x = s THEN [user |-> r.user, device |-> r.device,
                                 raced |-> Wiping(r.user)] ELSE signed[x]]
  /\ sess' = sess \cup {s}
  /\ refresh' = [refresh EXCEPT ![s] = 1]
  /\ mapped' = [mapped EXCEPT ![r.device] = s]
  /\ Become(q, IF r.row = "known" THEN NoRequest ELSE [r EXCEPT !.at = "commit"])
  /\ UNCHANGED <<active, listed, known, closed>>

(* The login then opens a session of its own; a request that inserted the  *)
(* account has yet to commit it.                                           *)
LoginOpen(q) ==
  LET r == req[q]
      s == Cardinality(Opened) + 1
  IN
  /\ r.at = "open" /\ s \in Sid
  /\ signed' = [x \in Opened \cup {s} |->
                  IF x = s THEN [user |-> r.user, device |-> r.device,
                                 raced |-> Wiping(r.user)] ELSE signed[x]]
  /\ sess' = sess \cup {s}
  /\ refresh' = [refresh EXCEPT ![s] = 1]
  /\ mapped' = [mapped EXCEPT ![r.device] = s]
  /\ listed' = [listed EXCEPT ![r.user] = @ \cup {s}]
  /\ Become(q, IF r.row = "known" THEN NoRequest ELSE [r EXCEPT !.at = "commit"])
  /\ UNCHANGED <<active, known, closed>>

(* get_write_db commits the account that the request inserted.             *)
CommitAccount(q) ==
  /\ req[q].at = "commit"
  /\ active' = active \cup {req[q].user}
  /\ Finish(q)
  /\ UNCHANGED <<signed, sess, refresh, mapped, listed, known, closed>>

(* A login that fails: register_and_login_user deletes the account that it *)
(* inserted and raises, _handle_oauth_callback redirects to an error and   *)
(* get_write_db commits the account.  The commit itself may fail as well.  *)
LoginFails(q) ==
  LET r == req[q] IN
  /\ r.at \in {"read", "close", "open", "commit"}
  /\ active' = IF r.row = "oauth" /\ r.at # "commit" THEN active \cup {r.user} ELSE active
  /\ Finish(q)
  /\ UNCHANGED <<signed, sess, refresh, mapped, listed, known, closed>>

(* rotate_token reads that the refresh token is the one on record.  For an *)
(* access token alone (issue_new_access_from_request) this is all.         *)
RotateRead(q, s) ==
  /\ Idle(q) /\ s \in Opened /\ refresh[s] # 0
  /\ Become(q, [NoRequest EXCEPT !.at = "rotate", !.sid = s])
  /\ UNCHANGED <<active, signed, sess, refresh, mapped, listed, known, closed>>

(* Mutant: the session is written anew instead of being prolonged.         *)
RotateWrite_Sets(q) ==
  LET s == req[q].sid IN
  /\ req[q].at = "rotate" /\ refresh[s] <= MaxRotations
  /\ refresh' = [refresh EXCEPT ![s] = @ + 1]
  /\ sess' = sess \cup {s}
  /\ mapped' = [mapped EXCEPT ![signed[s].device] = s]
  /\ Finish(q)
  /\ UNCHANGED <<active, signed, listed, known, closed>>

(* rotate_refresh_from_request puts the next token on record, whatever has *)
(* become of the session; the other keys are prolonged if they are there.  *)
RotateWrite(q) ==
  LET s == req[q].sid IN
  /\ req[q].at = "rotate" /\ refresh[s] <= MaxRotations
  /\ refresh' = [refresh EXCEPT ![s] = @ + 1]
  /\ Finish(q)
  /\ UNCHANGED <<active, signed, sess, mapped, listed, known, closed>>

RotateRefused(q) ==
  /\ req[q].at = "rotate"
  /\ Finish(q)
  /\ UNCHANGED <<active, signed, sess, refresh, mapped, listed, known, closed>>

(* logout with a token that was signed for s and has not expired: nothing  *)
(* asks whether s is still the session of its device.                      *)
Logout(s) ==
  LET t == signed[s] IN
  /\ s \in Opened
  /\ sess' = sess \ {s}
  /\ refresh' = [refresh EXCEPT ![s] = 0]
  /\ mapped' = [mapped EXCEPT ![t.device] = 0]
  /\ listed' = [listed EXCEPT ![t.user] = @ \ {s}]
  /\ closed' = closed \cup {s}
  /\ UNCHANGED <<active, signed, known, req>>

(* _invalidate_all_user_sessions deletes what it read of the list.  The    *)
(* request has its code left to delete.                                    *)
ResetWipe(q) ==
  LET r == req[q] IN
  /\ r.at = "wipe"
  /\ sess' = sess \ r.sids
  /\ refresh' = [s \in Sid |-> IF s \in r.sids THEN 0 ELSE refresh[s]]
  /\ listed' = IF r.sids = {} THEN listed ELSE [listed EXCEPT ![r.user] = {}]
  /\ closed' = closed \cup r.sids
  /\ Become(q, [NoRequest EXCEPT !.at = "spent", !.user = r.user])
  /\ UNCHANGED <<active, signed, mapped, known>>

-----------------------------------------------------------------------------
(* bearer_token *)

(* The session of the token exists and is that of its device.              *)
Passes(s) == s \in sess /\ mapped[signed[s].device] = s

(* Mutant: deleted users are found as well.                                *)
GetUser_Any(u) == u \in User

(* get_user_by_id                                                          *)
GetUser(u) == u \in active

(* A request with a token of s is let in if the user is cached or found.   *)
LetIn(s) == Passes(s) /\ (signed[s].user \in known \/ GetUser(signed[s].user))

(* A user who is not cached is looked up, and cached in a later step.      *)
Bearer(q, s) ==
  /\ Idle(q) /\ s \in Opened /\ LetIn(s) /\ signed[s].user \notin known
  /\ Become(q, [NoRequest EXCEPT !.at = "fill", !.user = signed[s].user])
  /\ UNCHANGED <<active, signed, sess, refresh, mapped, listed, known, closed>>

BearerFill(q) ==
  /\ req[q].at = "fill"
  /\ known' = known \cup {req[q].user}
  /\ Finish(q)
  /\ UNCHANGED <<active, signed, sess, refresh, mapped, listed, closed>>

UserExpires(u) ==
  /\ u \in known
  /\ known' = known \ {u}
  /\ UNCHANGED <<active, signed, sess, refresh, mapped, listed, req, closed>>

SessionExpires(s) ==
  /\ s \in Opened /\ (s \in sess \/ refresh[s] # 0)
  /\ sess' = sess \ {s}
  /\ refresh' = [refresh EXCEPT ![s] = 0]
  /\ mapped' = [mapped EXCEPT ![signed[s].device] = IF @ = s THEN 0 ELSE @]
  /\ UNCHANGED <<active, signed, listed, known, req, closed>>

SessionsNext ==
  \/ \E q \in Req, u \in User, d \in Device : Login(q, u, d)
  \/ \E q \in Req : LoginRead(q) \/ LoginClose(q) \/ LoginOpen(q)
  \/ \E q \in Req : CommitAccount(q) \/ LoginFails(q)
  \/ \E q \in Req, s \in Sid : RotateRead(q, s) \/ Bearer(q, s)
  \/ \E q \in Req : RotateWrite(q) \/ RotateRefused(q) \/ ResetWipe(q) \/ BearerFill(q)
  \/ \E s \in Sid : Logout(s) \/ SessionExpires(s)
  \/ \E u \in User : UserExpires(u)

-----------------------------------------------------------------------------

(* A session that was closed by a logout, by the next login on its device  *)
(* or by a password reset lets nobody in again, though a rotation that was *)
(* under way when it was closed puts a refresh token back on record.       *)
ClosedStaysClosed == \A s \in closed : ~Passes(s)

(* A session that lets its user in is on the list that a password reset    *)
(* goes by (_invalidate_all_user_sessions: all sessions of the user),      *)
(* unless it was opened after a reset read that list and before it deleted *)
(* it: that reset does not close it, and no later one knows of it.         *)
LiveIsListed ==
  \A s \in Opened : Passes(s) /\ ~signed[s].raced => s \in listed[signed[s].user]

(* The account is not there, and no request is about to commit it.         *)
Gone(u) == u \notin active /\ \A q \in Req : req[q].row # "known" => req[q].user # u

(* A user who was deleted, or whose registration failed after its session  *)
(* was opened, is let in for as long as its row is cached, and no longer,  *)
(* though deletion closes none of its sessions and a request that looked   *)
(* the row up before may cache it again after.                             *)
DeletedIsOut ==
  \A u \in User :
     Gone(u) /\ (\E s \in Opened : signed[s].user = u)
        ~> [](\A s \in Opened : signed[s].user = u => ~LetIn(s))
=============================================================================

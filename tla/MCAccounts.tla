----------------------------- MODULE MCAccounts -----------------------------
(***************************************************************************)
(* Small instances of Accounts for TLC.                                    *)
(***************************************************************************)
EXTENDS Accounts

Busy == {q \in Req : ~Idle(q)}

Forms == {f \in Form : form[f].at # "idle"}

NoCodes ==
  \A p \in Purpose, c \in Contact : ok[p][c] = 0 /\ otp[p][c] = 0

(* Bound of the run.  Before any code is sent, accounts sign up through    *)
(* OAuth and two requests at a time move their sessions; those that        *)
(* overlap on a second account log in, log out or wipe, and it is there.   *)
SessionsOnly ==
  /\ codes = 0 /\ DOMAIN contact = oauth
  /\ Cardinality(Busy) > 1 =>
       /\ \A q \in Busy : req[q].at # "commit"
       /\ Cardinality(DOMAIN contact) = 2 =>
            \A q \in Busy : req[q].at \notin {"rotate", "fill"} /\ req[q].row = "known"

(* With codes there is one session, that nobody rotates, and one request   *)
(* on it at a time.  Two forms overlap before it is opened, and, if it is  *)
(* with the one code that was sent, go on while another logs in.           *)
WithCodes ==
  /\ known = {} /\ Cardinality(Opened) <= 1 /\ Cardinality(Busy) <= 1
  /\ \A q \in Busy : req[q].at \notin {"rotate", "fill"}
  /\ Busy # {} => Forms = {} \/ raced # {}
  /\ Cardinality(Forms) = 2 => Opened = {} /\ \A f \in Forms : form[f].purpose = "signup"
  /\ Opened # {} => \A c \in Contact : ok["driver"][c] = 0
  /\ raced # {} => Opened = {} /\ oauth = {} /\ codes = 1
  /\ Opened \cap closed # {} => Forms = {} /\ oauth = {}

(* Others log in and out around the reset of an account that signed up.    *)
AroundReset ==
  /\ codes = MaxCodes /\ Cardinality(DOMAIN contact) = 1 /\ oauth = {}
  /\ NoCodes /\ Forms = {}
  /\ \A q \in Busy : req[q].at \notin {"rotate", "fill"}
  /\ known = {}

Focus == SessionsOnly \/ WithCodes \/ AroundReset
=============================================================================

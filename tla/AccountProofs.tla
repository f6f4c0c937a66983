---------------------------- MODULE AccountProofs ----------------------------
(***************************************************************************)
(* Theorems about sessions and accounts, for any number of users, devices, *)
(* requests and codes: a closed session lets nobody in again, a reset      *)
(* knows the sessions it is to close, and a code opens one account.        *)
(***************************************************************************)
EXTENDS Accounts, FiniteSetTheorems, TLAPS

USE SessionBounds, CodeBounds

-----------------------------------------------------------------------------
(* Sessions *)

(* What a request holds, of the sessions that were opened.                 *)
Sound(r, opened) ==
  /\ r \in AuthRequest
  /\ r.sids \subseteq opened
  /\ r.at \in {"read", "close", "open", "commit", "wipe", "fill"} => r.user \in User
  /\ r.at = "commit" => r.row # "known"
  /\ r.at \in {"read", "close", "open"} => r.device \in Device
  /\ r.at \in {"close", "rotate"} => r.sid \in opened

(* A reset under way has read every session of its user that lets someone  *)
(* in, but for those that were opened since.                               *)
Knows(r) ==
  r.at = "wipe" /\ r.sids # {} =>
     \A s \in sess : signed[s].user = r.user /\ ~signed[s].raced => s \in r.sids

SessionsInv ==
  /\ SessionsTypeOK
  /\ \E n \in 0 .. MaxSessions : Opened = 1 .. n
  /\ \A u \in User : listed[u] \subseteq Opened
  /\ \A d \in Device : mapped[d] \in Opened \cup {0}
  /\ \A q \in Req : Sound(req[q], Opened)
  /\ sess \cap closed = {}
  /\ \A s \in sess : ~signed[s].raced => s \in listed[signed[s].user]
  /\ \A q \in Req : Knows(req[q])

LEMMA NoRequestIsSound ==
  ASSUME NEW S PROVE Sound(NoRequest, S) /\ NoRequest.at # "wipe"
BY DEF NoRequest, Sound, AuthRequest

LEMMA StartIsSound ==
  ASSUME NEW u \in User, NEW d \in Device, NEW S,
         NEW w \in {"known", "registered", "oauth"},
         NEW r, r = [NoRequest EXCEPT !.at = "read", !.user = u, !.device = d, !.row = w]
  PROVE  Sound(r, S) /\ r.at # "wipe"
BY DEF NoRequest, Sound, AuthRequest

(* A step of one request that leaves the sessions alone.                   *)
LEMMA RequestStep ==
  ASSUME SessionsInv, NEW q \in Req, NEW r, Become(q, r), Sound(r, Opened), Knows(r),
         active' \subseteq User, known' \subseteq User,
         UNCHANGED <<signed, sess, refresh, mapped, listed, closed>>
  PROVE  SessionsInv'
<1>1. SessionsTypeOK /\ req \in [Req -> AuthRequest]
  BY DEF SessionsInv, SessionsTypeOK
<1>2. Opened' = Opened
  BY DEF Opened
<1>3. r \in AuthRequest
  BY DEF Sound
<1>4. \A p \in Req : req'[p] = IF p = q THEN r ELSE req[p]
  BY <1>1 DEF Become
<1>5. SessionsTypeOK'
  <2>1. req' \in [Req -> AuthRequest]
    BY <1>1, <1>3 DEF Become
  <2> QED
    BY <1>1, <1>2, <2>1 DEF SessionsTypeOK
<1>6. \A p \in Req : Sound(req'[p], Opened')
  BY <1>2, <1>4 DEF SessionsInv
<1>7. \A p \in Req : Knows(req[p])'
  <2>1. \A x : Knows(x)' <=> Knows(x)
    BY DEF Knows
  <2>2. \A p \in Req : Knows(req[p])
    BY DEF SessionsInv
  <2>3. ASSUME NEW p \in Req
        PROVE  Knows(req[p])'
    <3>1. CASE p = q
      BY <1>4, <3>1 DEF Knows
    <3>2. CASE p # q
      BY <1>4, <2>2, <3>2 DEF Knows
    <3> QED
      BY <3>1, <3>2
  <2> QED
    BY <2>3
<1> QED
  BY <1>2, <1>5, <1>6, <1>7 DEF SessionsInv

(* A step that opens no session.                                           *)
LEMMA NoneOpened ==
  ASSUME SessionsInv, UNCHANGED signed,
         active' \subseteq User, known' \subseteq User,
         refresh' \in [Sid -> 0 .. MaxRotations + 1],
         sess' \subseteq sess, closed' \subseteq Opened, sess' \cap closed' = {},
         mapped' \in [Device -> Sid \cup {0}],
         \A d \in Device : mapped'[d] \in {mapped[d], 0},
         listed' \in [User -> SUBSET Sid],
         \A u \in User : listed'[u] \subseteq listed[u],
         \A s \in sess' : ~signed[s].raced => s \in listed'[signed[s].user],
         req' \in [Req -> AuthRequest],
         \A p \in Req : \/ req'[p] = req[p]
                        \/ Sound(req'[p], Opened) /\ req'[p].at # "wipe"
  PROVE  SessionsInv'
<1>1. SessionsTypeOK /\ Opened' = Opened
  BY DEF SessionsInv, Opened
<1>2. SessionsTypeOK'
  BY <1>1 DEF SessionsTypeOK
<1>3. \A u \in User : listed'[u] \subseteq Opened'
  BY <1>1 DEF SessionsInv
<1>4. \A d \in Device : mapped'[d] \in Opened' \cup {0}
  BY <1>1 DEF SessionsInv
<1>5. \A p \in Req : Sound(req'[p], Opened')
  BY <1>1 DEF SessionsInv
<1>6. \A p \in Req : Knows(req[p])'
  <2>1. ASSUME NEW p \in Req
        PROVE  Knows(req[p])'
    <3>1. CASE req'[p] = req[p]
      BY <3>1 DEF SessionsInv, Knows
    <3>2. CASE req'[p].at # "wipe"
      BY <3>2 DEF Knows
    <3> QED
      BY <3>1, <3>2
  <2> QED
    BY <2>1
<1>7. \E n \in 0 .. MaxSessions : Opened' = 1 .. n
  BY <1>1 DEF SessionsInv
<1> QED
  BY <1>2, <1>3, <1>4, <1>5, <1>6, <1>7 DEF SessionsInv

LEMMA OpenStep ==
  ASSUME SessionsInv, NEW q \in Req, LoginOpen(q)
  PROVE  SessionsInv'
<1> DEFINE r == req[q]
           s == Cardinality(Opened) + 1
           t == [user |-> r.user, device |-> r.device, raced |-> Wiping(r.user)]
           b == IF r.row = "known" THEN NoRequest ELSE [r EXCEPT !.at = "commit"]
<1>1. /\ SessionsTypeOK /\ \A p \in Req : Sound(req[p], Opened) /\ Knows(req[p])
      /\ \A u \in User : listed[u] \subseteq Opened
      /\ \A d \in Device : mapped[d] \in Opened \cup {0}
      /\ sess \cap closed = {}
      /\ \A x \in sess : ~signed[x].raced => x \in listed[signed[x].user]
  BY DEF SessionsInv
<1>2. PICK n \in 0 .. MaxSessions : Opened = 1 .. n
  BY DEF SessionsInv
<1>3. s = n + 1
  <2>1. Cardinality(1 .. n) = n
    BY FS_Interval
  <2> QED
    BY <1>2, <2>1
<1>4. /\ r.at = "open" /\ s \in Sid
      /\ signed' = [x \in Opened \cup {s} |-> IF x = s THEN t ELSE signed[x]]
      /\ sess' = sess \cup {s}
      /\ refresh' = [refresh EXCEPT ![s] = 1]
      /\ mapped' = [mapped EXCEPT ![r.device] = s]
      /\ listed' = [listed EXCEPT ![r.user] = @ \cup {s}]
      /\ req' = [req EXCEPT ![q] = b]
      /\ UNCHANGED <<active, known, closed>>
  BY DEF LoginOpen, Become
<1>5. r.user \in User /\ r.device \in Device /\ t \in Token
  BY <1>1, <1>4 DEF Sound, Token, Wiping
<1>0. Sound(b, Opened) /\ b.at # "wipe"
  <2>1. Sound(r, Opened)
    BY <1>1
  <2> QED
    BY <1>4, <1>5, <2>1, NoRequestIsSound DEF Sound, AuthRequest
<1> HIDE DEF s, t, b
<1>6. /\ Opened' = Opened \cup {s} /\ s \notin Opened
      /\ signed'[s] = t /\ \A x \in Opened : signed'[x] = signed[x]
  BY <1>2, <1>3, <1>4 DEF Opened
<1>7. \E m \in 0 .. MaxSessions : Opened' = 1 .. m
  <2>1. n + 1 \in 0 .. MaxSessions /\ (1 .. n) \cup {n + 1} = 1 .. (n + 1)
    BY <1>3, <1>4 DEF Sid
  <2> QED
    BY <1>2, <1>3, <1>6, <2>1
<1>8. \A p \in Req : req'[p] = IF p = q THEN b ELSE req[p]
  BY <1>1, <1>4 DEF SessionsTypeOK
<1>9. SessionsTypeOK'
  <2>1. \A x \in Opened' : signed'[x] \in Token
    BY <1>1, <1>5, <1>6 DEF SessionsTypeOK
  <2>2. req' \in [Req -> AuthRequest]
    BY <1>0, <1>1, <1>4 DEF SessionsTypeOK, Sound
  <2>3. refresh' \in [Sid -> 0 .. MaxRotations + 1]
    BY <1>1, <1>4 DEF SessionsTypeOK
  <2>4. mapped' \in [Device -> Sid \cup {0}] /\ listed' \in [User -> SUBSET Sid]
    BY <1>1, <1>4, <1>5 DEF SessionsTypeOK
  <2> QED
    BY <1>1, <1>4, <1>6, <2>1, <2>2, <2>3, <2>4 DEF SessionsTypeOK
<1>10. \A u \in User : listed'[u] \subseteq Opened'
  BY <1>1, <1>4, <1>6 DEF SessionsTypeOK
<1>11. \A d \in Device : mapped'[d] \in Opened' \cup {0}
  BY <1>1, <1>4, <1>6 DEF SessionsTypeOK
<1>12. \A p \in Req : Sound(req'[p], Opened')
  <2>1. \A x : Sound(x, Opened) => Sound(x, Opened')
    BY <1>6 DEF Sound
  <2> QED
    BY <1>0, <1>1, <1>8, <2>1
<1>13. sess' \cap closed' = {}
  BY <1>1, <1>4, <1>6 DEF SessionsTypeOK
<1>14. ASSUME NEW x \in sess', ~signed'[x].raced
       PROVE  x \in listed'[signed'[x].user]
  <2>1. CASE x = s
    BY <1>1, <1>4, <1>5, <1>6, <2>1 DEF t, SessionsTypeOK
  <2>2. CASE x # s
    <3>1. x \in sess /\ x \in Opened /\ signed'[x] = signed[x]
      BY <1>1, <1>4, <1>6, <2>2 DEF SessionsTypeOK
    <3>2. signed[x].user \in User
      BY <1>1, <3>1 DEF SessionsTypeOK, Token
    <3>3. listed[signed[x].user] \subseteq listed'[signed[x].user]
      BY <1>1, <1>4, <3>2 DEF SessionsTypeOK
    <3> QED
      BY <1>1, <1>14, <3>1, <3>3
  <2> QED
    BY <2>1, <2>2
<1>15. ASSUME NEW p \in Req
       PROVE  Knows(req[p])'
  <2>1. CASE p = q
    BY <1>0, <1>8, <2>1 DEF Knows
  <2>2. CASE p # q
    <3>1. req'[p] = req[p]
      BY <1>8, <2>2
    <3>2. ASSUME req[p].at = "wipe", req[p].sids # {}, NEW x \in sess',
                 signed'[x].user = req[p].user, ~signed'[x].raced
          PROVE  x \in req[p].sids
      <4>1. CASE x = s
        <5>1. t.raced <=> Wiping(t.user)
          BY DEF t
        <5>2. ~Wiping(req[p].user)
          BY <1>6, <3>2, <4>1, <5>1
        <5> QED
          BY <3>2, <5>2 DEF Wiping
      <4>2. CASE x # s
        <5>1. x \in sess /\ signed'[x] = signed[x]
          BY <1>1, <1>4, <1>6, <4>2 DEF SessionsTypeOK
        <5> QED
          BY <1>1, <3>2, <5>1 DEF Knows
      <4> QED
        BY <4>1, <4>2
    <3> QED
      BY <3>1, <3>2 DEF Knows
  <2> QED
    BY <2>1, <2>2
<1> QED
  BY <1>7, <1>9, <1>10, <1>11, <1>12, <1>13, <1>14, <1>15 DEF SessionsInv

(* The requests and the expiries of Sessions.                              *)
LEMMA SessionsStep ==
  ASSUME SessionsInv, SessionsNext
  PROVE  SessionsInv'
<1>1. /\ SessionsTypeOK /\ req \in [Req -> AuthRequest]
      /\ \A p \in Req : Sound(req[p], Opened) /\ Knows(req[p])
      /\ \A u \in User : listed[u] \subseteq Opened
      /\ \A d \in Device : mapped[d] \in Opened \cup {0}
      /\ sess \cap closed = {} /\ sess \subseteq Opened /\ closed \subseteq Opened
      /\ \A s \in sess : ~signed[s].raced => s \in listed[signed[s].user]
  BY DEF SessionsInv, SessionsTypeOK
<1>2. \A s \in Opened : s \in Sid /\ signed[s].user \in User /\ signed[s].device \in Device
  BY <1>1 DEF SessionsTypeOK, Token
<1>3. active \subseteq User /\ known \subseteq User
  BY <1>1 DEF SessionsTypeOK
<1>4. ASSUME NEW q \in Req, NEW r, Become(q, r), Sound(r, Opened), r.at # "wipe"
      PROVE  /\ req' \in [Req -> AuthRequest]
             /\ \A p \in Req : \/ req'[p] = req[p]
                               \/ Sound(req'[p], Opened) /\ req'[p].at # "wipe"
  BY <1>1, <1>4 DEF Become, Sound
<1>5. \A r : r.at # "wipe" => Knows(r)
  BY DEF Knows
<1>6. \A S : Sound(NoRequest, S) /\ NoRequest.at # "wipe"
  BY NoRequestIsSound
<1>7. ASSUME NEW q \in Req, NEW u \in User, NEW d \in Device, Login(q, u, d)
      PROVE  SessionsInv'
  <2> DEFINE r == [NoRequest EXCEPT !.at = "read", !.user = u, !.device = d, !.row = "known"]
  <2>1. Sound(r, Opened) /\ r.at # "wipe"
    BY StartIsSound
  <2>2. Become(q, r) /\ UNCHANGED <<active, signed, sess, refresh, mapped, listed, known, closed>>
    BY <1>7 DEF Login, StartLogin
  <2> HIDE DEF r
  <2> QED
    BY <1>3, <1>5, <2>1, <2>2, RequestStep
<1>8. ASSUME NEW q \in Req, LoginRead(q)
      PROVE  SessionsInv'
  <2> DEFINE prev == mapped[req[q].device]
             r == [req[q] EXCEPT !.at = IF prev = 0 THEN "open" ELSE "close", !.sid = prev]
  <2>1. req[q].at = "read" /\ Become(q, r)
        /\ UNCHANGED <<active, signed, sess, refresh, mapped, listed, known, closed>>
    BY <1>8 DEF LoginRead
  <2>2. Sound(req[q], Opened) /\ prev \in Opened \cup {0}
    BY <1>1, <2>1 DEF Sound
  <2>3. Sound(r, Opened) /\ r.at # "wipe"
    <3> HIDE DEF prev
    <3> QED
      BY <1>2, <2>1, <2>2 DEF Sound, AuthRequest
  <2> HIDE DEF r
  <2> QED
    BY <1>3, <1>5, <2>1, <2>3, RequestStep
<1>9. ASSUME NEW q \in Req, LoginClose(q)
      PROVE  SessionsInv'
  <2> DEFINE sid == req[q].sid
             u   == req[q].user
             r   == [req[q] EXCEPT !.at = "open"]
  <2>1. /\ req[q].at = "close" /\ Become(q, r)
        /\ sess' = sess \ {sid} /\ closed' = closed \cup {sid}
        /\ refresh' = [refresh EXCEPT ![sid] = 0]
        /\ listed' = [listed EXCEPT ![u] = @ \ {sid}]
        /\ UNCHANGED <<active, signed, mapped, known>>
    BY <1>9 DEF LoginClose
  <2>2. sid \in Opened /\ u \in User
    BY <1>1, <2>1 DEF Sound
  <2>3. Sound(r, Opened) /\ r.at # "wipe"
    <3>1. Sound(req[q], Opened)
      BY <1>1
    <3> QED
      BY <2>1, <3>1 DEF Sound, AuthRequest
  <2> HIDE DEF sid, u, r
  <2>4. /\ refresh' \in [Sid -> 0 .. MaxRotations + 1]
        /\ listed' \in [User -> SUBSET Sid]
        /\ mapped' \in [Device -> Sid \cup {0}] /\ \A d \in Device : mapped'[d] = mapped[d]
    BY <1>1, <2>1, <2>2 DEF SessionsTypeOK
  <2>5. \A v \in User : listed'[v] \subseteq listed[v] /\ listed[v] \ {sid} \subseteq listed'[v]
    BY <1>1, <2>1, <2>2 DEF SessionsTypeOK
  <2>6. \A s \in sess' : ~signed[s].raced => s \in listed'[signed[s].user]
    BY <1>1, <1>2, <2>1, <2>5
  <2> QED
    BY <1>1, <1>3, <1>4, <2>1, <2>2, <2>3, <2>4, <2>5, <2>6, NoneOpened
<1>10. ASSUME NEW q \in Req, NEW s \in Sid, RotateRead(q, s)
       PROVE  SessionsInv'
  <2> DEFINE r == [NoRequest EXCEPT !.at = "rotate", !.sid = s]
  <2>1. s \in Opened /\ Become(q, r)
        /\ UNCHANGED <<active, signed, sess, refresh, mapped, listed, known, closed>>
    BY <1>10 DEF RotateRead
  <2>2. Sound(r, Opened) /\ r.at # "wipe"
    BY <2>1 DEF Sound, AuthRequest, NoRequest
  <2> HIDE DEF r
  <2> QED
    BY <1>3, <1>5, <2>1, <2>2, RequestStep
<1>11. ASSUME NEW q \in Req, NEW s \in Sid, Bearer(q, s)
       PROVE  SessionsInv'
  <2> DEFINE r == [NoRequest EXCEPT !.at = "fill", !.user = signed[s].user]
  <2>1. s \in Opened /\ Become(q, r)
        /\ UNCHANGED <<active, signed, sess, refresh, mapped, listed, known, closed>>
    BY <1>11 DEF Bearer
  <2>2. Sound(r, Opened) /\ r.at # "wipe"
    BY <1>2, <2>1 DEF Sound, AuthRequest, NoRequest
  <2> HIDE DEF r
  <2> QED
    BY <1>3, <1>5, <2>1, <2>2, RequestStep
<1>12. ASSUME NEW q \in Req, RotateWrite(q)
       PROVE  SessionsInv'
  <2> DEFINE s == req[q].sid
  <2>1. /\ req[q].at = "rotate" /\ refresh[s] <= MaxRotations
        /\ refresh' = [refresh EXCEPT ![s] = @ + 1]
        /\ Become(q, NoRequest)
        /\ UNCHANGED <<active, signed, sess, mapped, listed, known, closed>>
    BY <1>12 DEF RotateWrite, Finish
  <2>2. s \in Sid
    BY <1>1, <1>2, <2>1 DEF Sound
  <2> HIDE DEF s
  <2>3. refresh' \in [Sid -> 0 .. MaxRotations + 1]
    BY <1>1, <2>1, <2>2 DEF SessionsTypeOK
  <2> QED
    BY <1>1, <1>3, <1>4, <1>6, <2>1, <2>3, NoneOpened DEF SessionsTypeOK
<1>13. ASSUME NEW q \in Req, RotateRefused(q)
       PROVE  SessionsInv'
  BY <1>3, <1>5, <1>6, <1>13, RequestStep DEF RotateRefused, Finish
<1>14. ASSUME NEW q \in Req, ResetWipe(q)
       PROVE  SessionsInv'
  <2> DEFINE sids == req[q].sids
             u    == req[q].user
             r    == [NoRequest EXCEPT !.at = "spent", !.user = u]
  <2>1. /\ req[q].at = "wipe" /\ Become(q, r)
        /\ sess' = sess \ sids /\ closed' = closed \cup sids
        /\ refresh' = [s \in Sid |-> IF s \in sids THEN 0 ELSE refresh[s]]
        /\ listed' = IF sids = {} THEN listed ELSE [listed EXCEPT ![u] = {}]
        /\ UNCHANGED <<active, signed, mapped, known>>
    BY <1>14 DEF ResetWipe
  <2>2. sids \subseteq Opened /\ u \in User
    BY <1>1, <2>1 DEF Sound
  <2>3. sids # {} => \A s \in sess : signed[s].user = u /\ ~signed[s].raced => s \in sids
    BY <1>1, <2>1 DEF Knows
  <2>7. Sound(r, Opened) /\ r.at # "wipe"
    BY <2>2 DEF Sound, AuthRequest, NoRequest
  <2> HIDE DEF sids, u, r
  <2>4. /\ refresh' \in [Sid -> 0 .. MaxRotations + 1]
        /\ listed' \in [User -> SUBSET Sid]
        /\ mapped' \in [Device -> Sid \cup {0}] /\ \A d \in Device : mapped'[d] = mapped[d]
    BY <1>1, <2>1, <2>2 DEF SessionsTypeOK
  <2>5. \A v \in User : listed'[v] \subseteq listed[v] /\ (v # u \/ sids = {} => listed'[v] = listed[v])
    BY <1>1, <2>1, <2>2 DEF SessionsTypeOK
  <2>6. \A s \in sess' : ~signed[s].raced => s \in listed'[signed[s].user]
    BY <1>1, <1>2, <2>1, <2>3, <2>5
  <2> QED
    BY <1>1, <1>3, <1>4, <2>1, <2>2, <2>4, <2>5, <2>6, <2>7, NoneOpened
<1>15. ASSUME NEW q \in Req, BearerFill(q)
       PROVE  SessionsInv'
  <2>1. req[q].user \in User
    BY <1>1, <1>15 DEF BearerFill, Sound
  <2> QED
    BY <1>3, <1>5, <1>6, <1>15, <2>1, RequestStep DEF BearerFill, Finish
<1>16. ASSUME NEW s \in Sid, Logout(s)
       PROVE  SessionsInv'
  <2> DEFINE u == signed[s].user
  <2>1. /\ s \in Opened
        /\ sess' = sess \ {s} /\ closed' = closed \cup {s}
        /\ refresh' = [refresh EXCEPT ![s] = 0]
        /\ mapped' = [mapped EXCEPT ![signed[s].device] = 0]
        /\ listed' = [listed EXCEPT ![u] = @ \ {s}]
        /\ UNCHANGED <<active, signed, known, req>>
    BY <1>16 DEF Logout
  <2>2. u \in User /\ signed[s].device \in Device
    BY <1>2, <2>1
  <2> HIDE DEF u
  <2>3. /\ refresh' \in [Sid -> 0 .. MaxRotations + 1]
        /\ listed' \in [User -> SUBSET Sid]
        /\ mapped' \in [Device -> Sid \cup {0}]
        /\ \A d \in Device : mapped'[d] \in {mapped[d], 0}
    BY <1>1, <2>1, <2>2 DEF SessionsTypeOK
  <2>4. \A v \in User : listed'[v] \subseteq listed[v] /\ listed[v] \ {s} \subseteq listed'[v]
    BY <1>1, <2>1, <2>2 DEF SessionsTypeOK
  <2>5. \A x \in sess' : ~signed[x].raced => x \in listed'[signed[x].user]
    BY <1>1, <1>2, <2>1, <2>4
  <2> QED
    BY <1>1, <1>3, <2>1, <2>3, <2>4, <2>5, NoneOpened
<1>17. ASSUME NEW s \in Sid, SessionExpires(s)
       PROVE  SessionsInv'
  <2>1. /\ s \in Opened
        /\ sess' = sess \ {s} /\ closed' = closed
        /\ refresh' = [refresh EXCEPT ![s] = 0]
        /\ mapped' = [mapped EXCEPT ![signed[s].device] = IF @ = s THEN 0 ELSE @]
        /\ UNCHANGED <<active, signed, listed, known, req>>
    BY <1>17 DEF SessionExpires
  <2>2. /\ refresh' \in [Sid -> 0 .. MaxRotations + 1]
        /\ mapped' \in [Device -> Sid \cup {0}]
        /\ \A d \in Device : mapped'[d] \in {mapped[d], 0}
    BY <1>1, <1>2, <2>1 DEF SessionsTypeOK
  <2> QED
    BY <1>1, <1>3, <2>1, <2>2, NoneOpened DEF SessionsTypeOK
<1>18. ASSUME NEW u \in User, UserExpires(u)
       PROVE  SessionsInv'
  BY <1>1, <1>3, <1>18, NoneOpened DEF UserExpires, SessionsTypeOK
<1>19. ASSUME NEW q \in Req, CommitAccount(q)
       PROVE  SessionsInv'
  <2>1. req[q].user \in User
    BY <1>1, <1>19 DEF CommitAccount, Sound
  <2> QED
    BY <1>3, <1>5, <1>6, <1>19, <2>1, RequestStep DEF CommitAccount, Finish
<1>20. ASSUME NEW q \in Req, LoginFails(q)
       PROVE  SessionsInv'
  <2>1. req[q].user \in User
    BY <1>1, <1>20 DEF LoginFails, Sound
  <2>2. active' \subseteq User
    BY <1>3, <1>20, <2>1 DEF LoginFails
  <2> QED
    BY <1>3, <1>5, <1>6, <1>20, <2>2, RequestStep DEF LoginFails, Finish
<1> QED
  BY <1>7, <1>8, <1>9, <1>10, <1>11, <1>12, <1>13, <1>14, <1>15, <1>16, <1>17, <1>18,
     <1>19, <1>20, OpenStep DEF SessionsNext

-----------------------------------------------------------------------------
(* Accounts *)

FormSound(r) ==
  /\ r \in FormState
  /\ r.at = "idle" => r.code = 0
  /\ r.at # "idle" => r.contact \in Contact /\ r.code \in Code
  /\ r.at = "insert" => r.purpose = "signup"

(* The codes by which an account may still be opened for a contact.        *)
Held(c) ==
  {id \in Code : \/ otp["signup"][c] = id \/ ok["signup"][c] = id
                 \/ \E f \in Form : /\ form[f].purpose = "signup"
                                    /\ form[f].contact = c /\ form[f].code = id}

(* A code with which no two forms overlapped is with one form at most, it  *)
(* has opened one account at most, and then nobody holds it any more; the  *)
(* form that is about to open one has used it up.                          *)
OneForm(id) == \A f, g \in Form : form[f].code = id /\ form[g].code = id => f = g

OneAccount(id) == \A u, v \in DOMAIN contact : cost[u] = id /\ cost[v] = id => u = v

SpentIsGone(id) == \A u \in DOMAIN contact, c \in Contact : cost[u] = id => id \notin Held(c)

TakenIsGone(id) ==
  \A f \in Form, c \in Contact :
     form[f].at = "insert" /\ form[f].code = id
        => otp["signup"][c] # id /\ ok["signup"][c] # id

CodesInv ==
  /\ \A f \in Form : FormSound(form[f])
  /\ \A c \in Contact : Held(c) \subseteq 1 .. codes
  /\ \A u \in DOMAIN contact : cost[u] \in 0 .. codes
  /\ \A c, e \in Contact : c # e => Held(c) \cap Held(e) = {}
  /\ \A id \in Code \ raced :
        OneForm(id) /\ OneAccount(id) /\ SpentIsGone(id) /\ TakenIsGone(id)

(* A login that inserted its account knows it.                             *)
RowsInv == \A q \in Req : req[q].row # "known" => req[q].user \in DOMAIN contact

AccountsInv ==
  /\ SessionsInv
  /\ AccountsTypeOK
  /\ \E n \in 0 .. MaxUsers : DOMAIN contact = 1 .. n
  /\ RowsInv
  /\ CodesInv

LEMMA NoFormIsSound == FormSound(NoForm) /\ NoForm.code = 0 /\ NoForm.at = "idle"
BY DEF NoForm, FormSound, FormState, Purpose

LEMMA PutCode ==
  ASSUME AccountsTypeOK, NEW p \in Purpose, NEW c, NEW x \in Code \cup {0},
         otp' = [otp EXCEPT ![p][c] = x]
  PROVE  /\ otp' \in [Purpose -> [Contact -> Code \cup {0}]]
         /\ \A e \in Contact : otp'["signup"][e] = IF p = "signup" /\ e = c THEN x
                                                   ELSE otp["signup"][e]
<1>1. otp \in [Purpose -> [Contact -> Code \cup {0}]] /\ "signup" \in Purpose
  BY DEF AccountsTypeOK, Purpose
<1> QED
  BY <1>1

LEMMA PutOk ==
  ASSUME AccountsTypeOK, NEW p \in Purpose, NEW c, NEW x \in Code \cup {0},
         ok' = [ok EXCEPT ![p][c] = x]
  PROVE  /\ ok' \in [Purpose -> [Contact -> Code \cup {0}]]
         /\ \A e \in Contact : ok'["signup"][e] = IF p = "signup" /\ e = c THEN x
                                                  ELSE ok["signup"][e]
<1>1. ok \in [Purpose -> [Contact -> Code \cup {0}]] /\ "signup" \in Purpose
  BY DEF AccountsTypeOK, Purpose
<1> QED
  BY <1>1

LEMMA PutForm ==
  ASSUME AccountsTypeOK, \A g \in Form : FormSound(form[g]),
         NEW f \in Form, NEW r, FormSound(r), form' = [form EXCEPT ![f] = r]
  PROVE  /\ form' \in [Form -> FormState]
         /\ \A g \in Form : form'[g] = IF g = f THEN r ELSE form[g]
         /\ \A g \in Form : FormSound(form'[g])
<1>1. form \in [Form -> FormState] /\ r \in FormState
  BY DEF AccountsTypeOK, FormSound
<1>2. \A g \in Form : form'[g] = IF g = f THEN r ELSE form[g]
  BY <1>1
<1> QED
  BY <1>1, <1>2

(* A step that opens no account and sends no code to sign up.              *)
LEMMA CodesKept ==
  ASSUME CodesInv, UNCHANGED <<contact, cost>>, codes \in Nat, codes' \in Nat, codes <= codes',
         raced \subseteq raced', \A f \in Form : FormSound(form'[f]),
         \A c \in Contact : Held(c)' \subseteq Held(c),
         \A id \in Code \ raced' : OneForm(id)' /\ TakenIsGone(id)'
  PROVE  CodesInv'
<1>1. \A c \in Contact : Held(c)' \subseteq 1 .. codes'
  BY DEF CodesInv
<1>2. \A u \in DOMAIN contact' : cost'[u] \in 0 .. codes'
  BY DEF CodesInv
<1>3. \A c, e \in Contact : c # e => Held(c)' \cap Held(e)' = {}
  BY DEF CodesInv
<1>4. ASSUME NEW id \in Code \ raced'
      PROVE  OneAccount(id)' /\ SpentIsGone(id)'
  <2>1. OneAccount(id) /\ SpentIsGone(id)
    BY <1>4 DEF CodesInv
  <2>2. OneAccount(id)'
    BY <2>1 DEF OneAccount
  <2>3. SpentIsGone(id)'
    BY <2>1 DEF SpentIsGone
  <2> QED
    BY <2>2, <2>3
<1> QED
  BY <1>1, <1>2, <1>3, <1>4 DEF CodesInv

(* A step that sends one.                                                  *)
LEMMA CodeSent ==
  ASSUME CodesInv, UNCHANGED <<contact, cost, form, raced, ok>>, codes \in Nat, codes' = codes + 1,
         NEW c \in Contact, otp'["signup"][c] = codes + 1,
         \A e \in Contact : e # c => otp'["signup"][e] = otp["signup"][e]
  PROVE  CodesInv'
<1>1. /\ Held(c)' \subseteq Held(c) \cup {codes + 1}
      /\ \A e \in Contact : e # c => Held(e)' = Held(e)
  BY DEF Held
<1>2. \A e \in Contact : codes + 1 \notin Held(e)
  BY DEF CodesInv
<1>3. \A e \in Contact : Held(e)' \subseteq 1 .. codes'
  BY <1>1 DEF CodesInv
<1>4. \A u \in DOMAIN contact' : cost'[u] \in 0 .. codes' /\ cost'[u] # codes + 1
  BY DEF CodesInv
<1>5. \A x, y \in Contact : x # y => Held(x)' \cap Held(y)' = {}
  <2>1. \A x, y \in Contact : x # y => Held(x) \cap Held(y) = {}
    BY DEF CodesInv
  <2> QED
    BY <1>1, <1>2, <2>1
<1>6. ASSUME NEW id \in Code \ raced'
      PROVE  OneForm(id)' /\ OneAccount(id)' /\ SpentIsGone(id)' /\ TakenIsGone(id)'
  <2>1. OneForm(id) /\ OneAccount(id) /\ SpentIsGone(id) /\ TakenIsGone(id)
    BY <1>6 DEF CodesInv
  <2>2. OneForm(id)' /\ OneAccount(id)'
    BY <2>1 DEF OneForm, OneAccount
  <2>3. SpentIsGone(id)'
    BY <1>1, <1>4, <2>1 DEF SpentIsGone
  <2>4. ASSUME NEW f \in Form, form[f].at = "insert", form[f].code = id
        PROVE  id # codes + 1
    <3>1. FormSound(form[f])
      BY DEF CodesInv
    <3>2. form[f].contact \in Contact /\ id \in Held(form[f].contact)
      BY <1>6, <2>4, <3>1 DEF Held, FormSound
    <3> QED
      BY <1>2, <3>2
  <2>5. TakenIsGone(id)'
    BY <2>1, <2>4 DEF TakenIsGone
  <2> QED
    BY <2>2, <2>3, <2>5
<1>7. \A f \in Form : FormSound(form'[f])
  BY DEF CodesInv
<1> QED
  BY <1>3, <1>4, <1>5, <1>6, <1>7 DEF CodesInv

(* A step that opens an account, at no cost, with a code that was raced    *)
(* for, or with one that is nowhere any more.                              *)
LEMMA CodesOpened ==
  ASSUME CodesInv, codes \in Nat, UNCHANGED <<otp, ok, codes, raced>>,
         NEW u, u \notin DOMAIN contact, DOMAIN contact' = DOMAIN contact \cup {u},
         \A x \in DOMAIN contact : cost'[x] = cost[x], cost'[u] \in 0 .. codes,
         \A f \in Form : FormSound(form'[f]) /\ form'[f] \in {form[f], NoForm},
         \/ cost'[u] = 0 \/ cost'[u] \in raced
         \/ /\ \A x \in DOMAIN contact : cost[x] # cost'[u]
            /\ \A c \in Contact : cost'[u] \notin Held(c)'
  PROVE  CodesInv'
<1>1. NoForm.code = 0 /\ NoForm.at = "idle"
  BY NoFormIsSound
<1>2. \A c \in Contact : Held(c)' \subseteq Held(c)
  <2>1. ASSUME NEW c \in Contact, NEW id \in Held(c)'
        PROVE  id \in Held(c)
    <3>1. id \in Code /\ id # 0
      BY <2>1 DEF Held, Code
    <3> QED
      BY <1>1, <2>1, <3>1 DEF Held
  <2> QED
    BY <2>1
<1>3. \A c \in Contact : Held(c)' \subseteq 1 .. codes'
  BY <1>2 DEF CodesInv
<1>4. \A x \in DOMAIN contact' : cost'[x] \in 0 .. codes'
  BY DEF CodesInv
<1>5. \A x, y \in Contact : x # y => Held(x)' \cap Held(y)' = {}
  BY <1>2 DEF CodesInv
<1>6. ASSUME NEW id \in Code \ raced'
      PROVE  OneForm(id)' /\ OneAccount(id)' /\ SpentIsGone(id)' /\ TakenIsGone(id)'
  <2>1. /\ OneForm(id) /\ OneAccount(id) /\ SpentIsGone(id) /\ TakenIsGone(id)
        /\ id # 0 /\ id \notin raced
    BY <1>6 DEF CodesInv, Code
  <2>2. OneForm(id)'
    BY <1>1, <2>1 DEF OneForm
  <2>3. TakenIsGone(id)'
    BY <1>1, <2>1 DEF TakenIsGone
  <2>4. OneAccount(id)'
    BY <2>1 DEF OneAccount
  <2>5. SpentIsGone(id)'
    BY <1>2, <2>1 DEF SpentIsGone
  <2> QED
    BY <2>2, <2>3, <2>4, <2>5
<1> QED
  BY <1>3, <1>4, <1>5, <1>6 DEF CodesInv

(* An account becomes visible only when the login that inserted it commits *)
(* it, and no login forgets which one that is.                             *)
LEMMA RowsStay ==
  ASSUME SessionsInv, SessionsNext
  PROVE  /\ \A u \in active' : \/ u \in active
                               \/ \E q \in Req : req[q].row # "known" /\ req[q].user = u
         /\ \A q \in Req : req'[q].row # "known"
               => req[q].row # "known" /\ req'[q].user = req[q].user
<1>1. /\ req \in [Req -> AuthRequest] /\ \A p \in Req : Sound(req[p], Opened)
  BY DEF SessionsInv, SessionsTypeOK
<1>2. NoRequest.row = "known"
  BY DEF NoRequest
<1>3. ASSUME NEW q \in Req, NEW r, Become(q, r), active' = active,
             r.row # "known" => req[q].row # "known" /\ r.user = req[q].user
      PROVE  /\ \A u \in active' : \/ u \in active
                                   \/ \E p \in Req : req[p].row # "known" /\ req[p].user = u
             /\ \A p \in Req : req'[p].row # "known"
                   => req[p].row # "known" /\ req'[p].user = req[p].user
  BY <1>1, <1>3 DEF Become
<1>4. ASSUME active' = active, req' = req
      PROVE  /\ \A u \in active' : \/ u \in active
                                   \/ \E p \in Req : req[p].row # "known" /\ req[p].user = u
             /\ \A p \in Req : req'[p].row # "known"
                   => req[p].row # "known" /\ req'[p].user = req[p].user
  BY <1>4
<1>5. ASSUME NEW q \in Req, NEW u \in User, NEW d \in Device, Login(q, u, d)
      PROVE  \E r : Become(q, r) /\ r.row = "known" /\ active' = active
  <2> DEFINE r == [NoRequest EXCEPT !.at = "read", !.user = u, !.device = d, !.row = "known"]
  <2>1. Become(q, r) /\ active' = active
    BY <1>5 DEF Login, StartLogin
  <2>2. r.row = "known"
    BY DEF NoRequest
  <2> HIDE DEF r
  <2> QED
    BY <2>1, <2>2
<1>6. ASSUME NEW q \in Req, LoginRead(q) \/ LoginClose(q) \/ LoginOpen(q)
      PROVE  \E r : /\ Become(q, r) /\ active' = active
                    /\ r.row # "known" => req[q].row # "known" /\ r.user = req[q].user
  <2>1. req[q] \in AuthRequest
    BY <1>1
  <2>2. CASE LoginRead(q)
    <3> DEFINE r == [req[q] EXCEPT !.at = IF mapped[req[q].device] = 0 THEN "open" ELSE "close",
                                   !.sid = mapped[req[q].device]]
    <3>1. Become(q, r) /\ active' = active
      BY <2>2 DEF LoginRead
    <3>2. r.row = req[q].row /\ r.user = req[q].user
      BY <2>1 DEF AuthRequest
    <3> HIDE DEF r
    <3> QED
      BY <3>1, <3>2
  <2>3. CASE LoginClose(q)
    <3> DEFINE r == [req[q] EXCEPT !.at = "open"]
    <3>1. Become(q, r) /\ active' = active
      BY <2>3 DEF LoginClose
    <3>2. r.row = req[q].row /\ r.user = req[q].user
      BY <2>1 DEF AuthRequest
    <3> HIDE DEF r
    <3> QED
      BY <3>1, <3>2
  <2>4. CASE LoginOpen(q)
    <3> DEFINE r == [req[q] EXCEPT !.at = "commit"]
    <3>1. Become(q, IF req[q].row = "known" THEN NoRequest ELSE r) /\ active' = active
      BY <2>4 DEF LoginOpen
    <3>2. r.row = req[q].row /\ r.user = req[q].user
      BY <2>1 DEF AuthRequest
    <3> HIDE DEF r
    <3> QED
      BY <1>2, <3>1, <3>2
  <2> QED
    BY <1>6, <2>2, <2>3, <2>4
<1>7. ASSUME NEW q \in Req, CommitAccount(q) \/ LoginFails(q)
      PROVE  /\ Become(q, NoRequest)
             /\ \A u \in active' : u \in active \/ (req[q].row # "known" /\ req[q].user = u)
  BY <1>1, <1>7 DEF CommitAccount, LoginFails, Finish, Sound
<1>8. ASSUME NEW q \in Req, NEW s \in Sid, RotateRead(q, s) \/ Bearer(q, s)
      PROVE  \E r : Become(q, r) /\ r.row = "known" /\ active' = active
  <2>1. CASE RotateRead(q, s)
    <3> DEFINE r == [NoRequest EXCEPT !.at = "rotate", !.sid = s]
    <3>1. Become(q, r) /\ active' = active
      BY <2>1 DEF RotateRead
    <3>2. r.row = "known"
      BY DEF NoRequest
    <3> HIDE DEF r
    <3> QED
      BY <3>1, <3>2
  <2>2. CASE Bearer(q, s)
    <3> DEFINE r == [NoRequest EXCEPT !.at = "fill", !.user = signed[s].user]
    <3>1. Become(q, r) /\ active' = active
      BY <2>2 DEF Bearer
    <3>2. r.row = "known"
      BY DEF NoRequest
    <3> HIDE DEF r
    <3> QED
      BY <3>1, <3>2
  <2> QED
    BY <1>8, <2>1, <2>2
<1>9. ASSUME NEW q \in Req, RotateWrite(q) \/ RotateRefused(q) \/ BearerFill(q)
      PROVE  Become(q, NoRequest) /\ active' = active
  BY <1>9 DEF RotateWrite, RotateRefused, BearerFill, Finish
<1>10. ASSUME NEW q \in Req, ResetWipe(q)
       PROVE  \E r : Become(q, r) /\ r.row = "known" /\ active' = active
  <2> DEFINE r == [NoRequest EXCEPT !.at = "spent", !.user = req[q].user]
  <2>1. Become(q, r) /\ active' = active
    BY <1>10 DEF ResetWipe
  <2>2. r.row = "known"
    BY DEF NoRequest
  <2> HIDE DEF r
  <2> QED
    BY <2>1, <2>2
<1>11. ASSUME NEW s \in Sid, Logout(s) \/ SessionExpires(s)
       PROVE  active' = active /\ req' = req
  BY <1>11 DEF Logout, SessionExpires
<1>12. ASSUME NEW u \in User, UserExpires(u)
       PROVE  active' = active /\ req' = req
  BY <1>12 DEF UserExpires
<1>13. CASE \E q \in Req : CommitAccount(q) \/ LoginFails(q)
  <2>1. PICK q \in Req : CommitAccount(q) \/ LoginFails(q)
    BY <1>13
  <2> QED
    BY <1>1, <1>2, <1>7, <2>1 DEF Become
<1>14. CASE \/ \E q \in Req, u \in User, d \in Device : Login(q, u, d)
            \/ \E q \in Req, s \in Sid : RotateRead(q, s) \/ Bearer(q, s)
            \/ \E q \in Req : LoginRead(q) \/ LoginClose(q) \/ LoginOpen(q)
            \/ \E q \in Req : RotateWrite(q) \/ RotateRefused(q) \/ ResetWipe(q) \/ BearerFill(q)
  <2> DEFINE Moves(q) ==
               \E r : /\ Become(q, r) /\ active' = active
                      /\ r.row # "known" => req[q].row # "known" /\ r.user = req[q].user
  <2>1. ASSUME NEW q \in Req, NEW u \in User, NEW d \in Device, Login(q, u, d)
        PROVE  Moves(q)
    BY <1>5, <2>1
  <2>2. ASSUME NEW q \in Req, NEW s \in Sid, RotateRead(q, s) \/ Bearer(q, s)
        PROVE  Moves(q)
    BY <1>8, <2>2
  <2>3. ASSUME NEW q \in Req, LoginRead(q) \/ LoginClose(q) \/ LoginOpen(q)
        PROVE  Moves(q)
    BY <1>6, <2>3
  <2>4. ASSUME NEW q \in Req, RotateWrite(q) \/ RotateRefused(q) \/ BearerFill(q)
        PROVE  Moves(q)
    BY <1>2, <1>9, <2>4
  <2>5. ASSUME NEW q \in Req, ResetWipe(q)
        PROVE  Moves(q)
    BY <1>10, <2>5
  <2>6. PICK q \in Req : Moves(q)
    <3> HIDE DEF Moves
    <3> QED
      BY <1>14, <2>1, <2>2, <2>3, <2>4, <2>5
  <2>7. PICK r : /\ Become(q, r) /\ active' = active
                 /\ r.row # "known" => req[q].row # "known" /\ r.user = req[q].user
    BY <2>6
  <2> QED
    BY <1>3, <2>7
<1>15. CASE \/ \E s \in Sid : Logout(s) \/ SessionExpires(s)
            \/ \E u \in User : UserExpires(u)
  BY <1>4, <1>11, <1>12, <1>15
<1> QED
  BY <1>13, <1>14, <1>15 DEF SessionsNext

LEMMA SessionsSame ==
  ASSUME SessionsInv, UNCHANGED sessionVars
  PROVE  SessionsInv'
<1>1. SessionsTypeOK /\ \A q \in Req : Sound(req[q], Opened)
  BY DEF SessionsInv
<1> QED
  BY <1>1, NoneOpened DEF SessionsTypeOK, SessionsInv, sessionVars

(* The row of a new account.                                               *)
LEMMA Inserted ==
  ASSUME AccountsInv, NEW c \in Contact, NEW u, NEW id \in Code \cup {0}, InsertUser(u, c, id)
  PROVE  /\ u \in User /\ u \notin DOMAIN contact
         /\ DOMAIN contact' = DOMAIN contact \cup {u}
         /\ \E n \in 0 .. MaxUsers : DOMAIN contact' = 1 .. n
         /\ \A x \in DOMAIN contact' : contact'[x] \in Contact
         /\ cost' \in [DOMAIN contact' -> Code \cup {0}]
         /\ cost'[u] = id /\ \A x \in DOMAIN contact : cost'[x] = cost[x]
<1>1. /\ u = Cardinality(DOMAIN contact) + 1 /\ u \in User
      /\ contact' = [x \in DOMAIN contact \cup {u} |-> IF x = u THEN c ELSE contact[x]]
      /\ cost' = [x \in DOMAIN contact \cup {u} |-> IF x = u THEN id ELSE cost[x]]
  BY DEF InsertUser
<1>2. PICK n \in 0 .. MaxUsers : DOMAIN contact = 1 .. n
  BY DEF AccountsInv
<1>3. u = n + 1
  <2>1. Cardinality(1 .. n) = n
    BY FS_Interval
  <2> QED
    BY <1>1, <1>2, <2>1
<1>4. u \notin DOMAIN contact /\ DOMAIN contact' = DOMAIN contact \cup {u}
  BY <1>1, <1>2, <1>3
<1>5. \E m \in 0 .. MaxUsers : DOMAIN contact' = 1 .. m
  <2>1. n + 1 \in 0 .. MaxUsers /\ (1 .. n) \cup {n + 1} = 1 .. (n + 1)
    BY <1>1, <1>3 DEF User
  <2> QED
    BY <1>2, <1>3, <1>4, <2>1
<1>6. \A x \in DOMAIN contact' : contact'[x] \in Contact
  BY <1>1, <1>4 DEF AccountsInv, AccountsTypeOK
<1>7. /\ cost' \in [DOMAIN contact' -> Code \cup {0}]
      /\ cost'[u] = id /\ \A x \in DOMAIN contact : cost'[x] = cost[x]
  BY <1>1, <1>4 DEF AccountsInv, AccountsTypeOK
<1> QED
  BY <1>1, <1>4, <1>5, <1>6, <1>7

(* Codes and forms come and go, and the sessions and accounts stay.        *)
LEMMA CodesStep ==
  ASSUME AccountsInv, UNCHANGED <<sessionVars, contact, cost, oauth>>,
         otp' \in [Purpose -> [Contact -> Code \cup {0}]],
         ok' \in [Purpose -> [Contact -> Code \cup {0}]],
         form' \in [Form -> FormState], raced' \subseteq Code,
         codes' \in 0 .. MaxCodes, CodesInv'
  PROVE  AccountsInv'
<1>1. SessionsInv'
  BY SessionsSame DEF AccountsInv
<1>2. AccountsTypeOK'
  BY <1>1 DEF AccountsInv, AccountsTypeOK, SessionsInv, sessionVars
<1>3. RowsInv'
  BY DEF AccountsInv, RowsInv, sessionVars
<1> QED
  BY <1>1, <1>2, <1>3 DEF AccountsInv

(* A request starts or ends, and an account may be opened for it.          *)
LEMMA EntersStep ==
  ASSUME AccountsInv, NEW q \in Req, NEW r, Become(q, r), Sound(r, Opened), Knows(r),
         r.row # "known" => r.user \in DOMAIN contact',
         UNCHANGED <<codes, raced, signed, sess, refresh, mapped, listed, known, closed>>,
         active' = active, oauth' \subseteq DOMAIN contact',
         DOMAIN contact \subseteq DOMAIN contact',
         \A u \in DOMAIN contact' : contact'[u] \in Contact,
         \E n \in 0 .. MaxUsers : DOMAIN contact' = 1 .. n,
         cost' \in [DOMAIN contact' -> Code \cup {0}],
         otp' \in [Purpose -> [Contact -> Code \cup {0}]],
         ok' \in [Purpose -> [Contact -> Code \cup {0}]],
         form' \in [Form -> FormState], CodesInv'
  PROVE  AccountsInv'
<1>1. known' \subseteq User /\ active' \subseteq User
  BY DEF AccountsInv, SessionsInv, SessionsTypeOK
<1>2. SessionsInv'
  BY <1>1, RequestStep DEF AccountsInv
<1>3. DOMAIN contact' \subseteq User
  BY DEF User
<1>4. AccountsTypeOK'
  BY <1>2, <1>3 DEF AccountsInv, AccountsTypeOK, SessionsInv
<1>5. RowsInv'
  <2>1. req \in [Req -> AuthRequest]
    BY DEF AccountsInv, SessionsInv, SessionsTypeOK
  <2> QED
    BY <2>1 DEF AccountsInv, RowsInv, Become
<1> QED
  BY <1>2, <1>4, <1>5 DEF AccountsInv

LEMMA AccountsStep ==
  ASSUME AccountsInv, [AccountsNext]_authVars
  PROVE  AccountsInv'
<1>1. /\ SessionsInv /\ AccountsTypeOK /\ CodesInv
      /\ codes \in Nat /\ codes \in 0 .. MaxCodes
      /\ otp \in [Purpose -> [Contact -> Code \cup {0}]]
      /\ ok \in [Purpose -> [Contact -> Code \cup {0}]]
      /\ form \in [Form -> FormState] /\ raced \subseteq Code
      /\ cost \in [DOMAIN contact -> Code \cup {0}]
      /\ \A f \in Form : FormSound(form[f])
      /\ \A u \in DOMAIN contact : contact[u] \in Contact
      /\ \E n \in 0 .. MaxUsers : DOMAIN contact = 1 .. n
      /\ oauth \subseteq DOMAIN contact
  <2>1. AccountsTypeOK /\ codes \in 0 .. MaxCodes
    BY DEF AccountsInv, AccountsTypeOK
  <2>2. codes \in Nat
    BY <2>1
  <2>3. \A f \in Form : FormSound(form[f])
    BY DEF AccountsInv, CodesInv
  <2> QED
    BY <2>1, <2>2, <2>3 DEF AccountsInv, AccountsTypeOK
<1>2. "signup" \in Purpose /\ "driver" \in Purpose /\ "reset" \in Purpose
  BY DEF Purpose
<1>3. active \subseteq User /\ active \subseteq DOMAIN contact
  BY <1>1 DEF AccountsTypeOK, SessionsTypeOK
<1>4. \A r : r.at # "wipe" => Knows(r)
  BY DEF Knows
<1>5. FormSound(NoForm) /\ NoForm.code = 0 /\ NoForm.at = "idle" /\ 0 \notin Code
  BY NoFormIsSound DEF Code
<1>6. \A id \in Code \ raced :
         OneForm(id) /\ OneAccount(id) /\ SpentIsGone(id) /\ TakenIsGone(id)
  BY <1>1 DEF CodesInv
<1>7. ASSUME UNCHANGED accountVars
      PROVE  CodesInv'
  BY <1>1, <1>7 DEF CodesInv, Held, OneForm, OneAccount, SpentIsGone, TakenIsGone, accountVars
<1>8. ASSUME NEW p \in Purpose, NEW c \in Contact, SendCode(p, c)
      PROVE  AccountsInv'
  <2>1. /\ codes < MaxCodes /\ codes' = codes + 1
        /\ otp' = [otp EXCEPT ![p][c] = codes + 1]
        /\ UNCHANGED <<sessionVars, contact, cost, oauth, ok, form, raced>>
    BY <1>8 DEF SendCode
  <2>2. codes + 1 \in Code \cup {0} /\ codes' \in 0 .. MaxCodes /\ codes' \in Nat
    BY <1>1, <2>1, CodeBounds DEF Code
  <2>3. /\ otp' \in [Purpose -> [Contact -> Code \cup {0}]]
        /\ \A e \in Contact : otp'["signup"][e] = IF p = "signup" /\ e = c THEN codes + 1
                                                  ELSE otp["signup"][e]
    BY <1>1, <2>1, <2>2, PutCode
  <2>4. CodesInv'
    <3>1. CASE p = "signup"
      BY <1>1, <2>1, <2>3, <3>1, CodeSent
    <3>2. CASE p # "signup"
      <4>1. \A e \in Contact : Held(e)' = Held(e)
        BY <2>1, <2>3, <3>2 DEF Held
      <4>2. \A id \in Code \ raced' : OneForm(id)' /\ TakenIsGone(id)'
        BY <1>6, <2>1, <2>3, <3>2 DEF OneForm, TakenIsGone
      <4> QED
        BY <1>1, <2>1, <2>2, <4>1, <4>2, CodesKept
    <3> QED
      BY <3>1, <3>2
  <2> QED
    BY <1>1, <2>1, <2>2, <2>3, <2>4, CodesStep
<1>9. ASSUME NEW p \in Purpose, NEW c \in Contact, CodeGone(p, c)
      PROVE  AccountsInv'
  <2>1. /\ otp' = [otp EXCEPT ![p][c] = 0]
        /\ ok' = [ok EXCEPT ![p][c] = 0] \/ ok' = ok
        /\ UNCHANGED <<sessionVars, contact, cost, oauth, form, codes, raced>>
    BY <1>9 DEF CodeGone
  <2>2. /\ otp' \in [Purpose -> [Contact -> Code \cup {0}]]
        /\ \A e \in Contact : otp'["signup"][e] \in {otp["signup"][e], 0}
    BY <1>1, <2>1, PutCode
  <2>3. /\ ok' \in [Purpose -> [Contact -> Code \cup {0}]]
        /\ \A e \in Contact : ok'["signup"][e] \in {ok["signup"][e], 0}
    <3>1. CASE ok' = [ok EXCEPT ![p][c] = 0]
      BY <1>1, <3>1, PutOk
    <3>2. CASE ok' = ok
      BY <1>1, <3>2
    <3> QED
      BY <2>1, <3>1, <3>2
  <2>4. \A e \in Contact : Held(e)' \subseteq Held(e)
    BY <1>5, <2>1, <2>2, <2>3 DEF Held
  <2>5. \A id \in Code \ raced' : OneForm(id)' /\ TakenIsGone(id)'
    BY <1>5, <1>6, <2>1, <2>2, <2>3 DEF OneForm, TakenIsGone
  <2>6. CodesInv'
    BY <1>1, <2>1, <2>4, <2>5, CodesKept
  <2> QED
    BY <1>1, <2>1, <2>2, <2>3, <2>6, CodesStep
<1>10. ASSUME NEW f \in Form, NEW at \in {"verify", "verified"}, NEW p \in Purpose,
              NEW c \in Contact, NEW id \in {otp[p][c], ok[p][c]}, StartForm(f, at, p, c, id),
              UNCHANGED <<sessionVars, contact, cost, oauth, otp, ok, codes>>
       PROVE  AccountsInv'
  <2> DEFINE r == [at |-> at, purpose |-> p, contact |-> c, code |-> id]
  <2>1. /\ id # 0 /\ form' = [form EXCEPT ![f] = r]
        /\ raced' = IF \E g \in Form : form[g].code = id THEN raced \cup {id} ELSE raced
    BY <1>10 DEF StartForm
  <2>2. id \in Code
    BY <1>1, <2>1
  <2>3. /\ FormSound(r)
        /\ r.at = at /\ r.purpose = p /\ r.contact = c /\ r.code = id
    BY <2>2, <1>10 DEF FormSound, FormState
  <2> HIDE DEF r
  <2>4. /\ form' \in [Form -> FormState] /\ \A g \in Form : FormSound(form'[g])
        /\ \A g \in Form : form'[g] = IF g = f THEN r ELSE form[g]
    BY <1>1, <2>1, <2>3, PutForm
  <2>5. raced \subseteq raced' /\ raced' \subseteq Code
    BY <1>1, <2>1, <2>2
  <2>6. \A e \in Contact : Held(e)' \subseteq Held(e)
    <3>1. ASSUME NEW e \in Contact, NEW i \in Held(e)'
          PROVE  i \in Held(e)
      <4>1. i \in Code
        BY <3>1 DEF Held
      <4>2. CASE \E g \in Form : /\ form'[g].purpose = "signup" /\ form'[g].contact = e
                                 /\ form'[g].code = i
        <5>1. PICK g \in Form : /\ form'[g].purpose = "signup" /\ form'[g].contact = e
                                /\ form'[g].code = i
          BY <4>2
        <5>2. CASE g = f
          BY <1>10, <2>3, <2>4, <4>1, <5>1, <5>2 DEF Held
        <5>3. CASE g # f
          BY <2>4, <4>1, <5>1, <5>3 DEF Held
        <5> QED
          BY <5>2, <5>3
      <4>3. CASE otp["signup"][e] = i \/ ok["signup"][e] = i
        BY <4>1, <4>3 DEF Held
      <4> QED
        BY <1>10, <3>1, <4>2, <4>3 DEF Held
    <3> QED
      BY <3>1
  <2>7. ASSUME NEW i \in Code \ raced'
        PROVE  OneForm(i)' /\ TakenIsGone(i)'
    <3>1. OneForm(i) /\ TakenIsGone(i) /\ (\A g \in Form : form[g].code = i => i # id)
      BY <1>6, <2>1, <2>5, <2>7
    <3>2. OneForm(i)'
      BY <2>3, <2>4, <3>1 DEF OneForm
    <3>3. TakenIsGone(i)'
      BY <1>10, <2>3, <2>4, <3>1 DEF TakenIsGone
    <3> QED
      BY <3>2, <3>3
  <2>8. CodesInv'
    BY <1>1, <1>10, <2>4, <2>5, <2>6, <2>7, CodesKept
  <2> QED
    BY <1>1, <1>10, <2>4, <2>5, <2>8, CodesStep
<1>11. ASSUME NEW f \in Form, NEW p \in Purpose, NEW c \in Contact,
              VerifyRead(f, p, c) \/ UseCode(f, p, c)
       PROVE  AccountsInv'
  BY <1>10, <1>11 DEF VerifyRead, UseCode
<1>12. ASSUME NEW f \in Form, EndForm(f)
       PROVE  /\ form' \in [Form -> FormState] /\ \A g \in Form : FormSound(form'[g])
              /\ \A g \in Form : form'[g] = IF g = f THEN NoForm ELSE form[g]
              /\ \A g \in Form : form'[g] \in {form[g], NoForm}
  <2>1. /\ form' \in [Form -> FormState] /\ \A g \in Form : FormSound(form'[g])
        /\ \A g \in Form : form'[g] = IF g = f THEN NoForm ELSE form[g]
    BY <1>1, <1>5, <1>12, PutForm DEF EndForm
  <2> QED
    BY <2>1
<1>13. ASSUME NEW f \in Form, VerifyOk(f)
       PROVE  AccountsInv'
  <2> DEFINE p  == form[f].purpose
             c  == form[f].contact
             id == form[f].code
  <2>1. /\ form[f].at = "verify" /\ EndForm(f)
        /\ ok' = [ok EXCEPT ![p][c] = id]
        /\ UNCHANGED <<sessionVars, contact, cost, oauth, otp, codes, raced>>
    BY <1>13 DEF VerifyOk
  <2>2. p \in Purpose /\ c \in Contact /\ id \in Code
    BY <1>1, <2>1 DEF FormSound, FormState
  <2>3. p = "signup" => id \in Held(c)
    BY <2>2 DEF Held
  <2>4. /\ form' \in [Form -> FormState] /\ \A g \in Form : FormSound(form'[g])
        /\ \A g \in Form : form'[g] = IF g = f THEN NoForm ELSE form[g]
    BY <1>12, <2>1
  <2>5. /\ ok' \in [Purpose -> [Contact -> Code \cup {0}]]
        /\ \A e \in Contact : ok'["signup"][e] = IF p = "signup" /\ e = c THEN id
                                                 ELSE ok["signup"][e]
    <3> HIDE DEF p, c, id
    <3> QED
      BY <1>1, <2>1, <2>2, PutOk
  <2>6. \A g \in Form : form[g].code = id /\ id \notin raced => g = f
    BY <1>6, <2>2 DEF OneForm
  <2> HIDE DEF p, c, id
  <2>7. \A e \in Contact : Held(e)' \subseteq Held(e)
    <3>1. ASSUME NEW e \in Contact, NEW i \in Held(e)'
          PROVE  i \in Held(e)
      <4>1. i \in Code /\ i # 0
        BY <1>5, <3>1 DEF Held
      <4>2. \/ otp["signup"][e] = i \/ ok'["signup"][e] = i
            \/ \E g \in Form : /\ form[g].purpose = "signup" /\ form[g].contact = e
                               /\ form[g].code = i
        BY <1>5, <2>1, <2>4, <3>1, <4>1 DEF Held
      <4> QED
        BY <2>3, <2>5, <4>1, <4>2 DEF Held
    <3> QED
      BY <3>1
  <2>8. ASSUME NEW i \in Code \ raced'
        PROVE  OneForm(i)' /\ TakenIsGone(i)'
    <3>1. OneForm(i) /\ TakenIsGone(i) /\ i # 0 /\ i \notin raced
      BY <1>5, <1>6, <2>1, <2>8
    <3>2. OneForm(i)'
      BY <1>5, <2>4, <3>1 DEF OneForm
    <3>3. TakenIsGone(i)'
      BY <1>5, <2>1, <2>4, <2>5, <2>6, <3>1 DEF TakenIsGone
    <3> QED
      BY <3>2, <3>3
  <2>9. CodesInv'
    BY <1>1, <2>1, <2>4, <2>7, <2>8, CodesKept
  <2> QED
    BY <1>1, <2>1, <2>4, <2>5, <2>9, CodesStep
<1>14. ASSUME NEW f \in Form, TakeCode(f)
       PROVE  AccountsInv'
  <2> DEFINE c  == form[f].contact
             id == form[f].code
             r  == [form[f] EXCEPT !.at = "insert"]
  <2>1. /\ form[f].at = "verified" /\ form[f].purpose = "signup"
        /\ ok' = [ok EXCEPT !["signup"][c] = 0] /\ otp' = [otp EXCEPT !["signup"][c] = 0]
        /\ form' = [form EXCEPT ![f] = r]
        /\ UNCHANGED <<sessionVars, contact, cost, oauth, codes, raced>>
    BY <1>1, <1>14 DEF TakeCode
  <2>2. c \in Contact /\ id \in Code /\ form[f] \in FormState
    BY <1>1, <2>1 DEF FormSound
  <2>3. /\ FormSound(r) /\ r.purpose = "signup" /\ r.contact = c /\ r.code = id
    BY <2>1, <2>2 DEF FormSound, FormState
  <2>4. id \in Held(c)
    BY <2>1, <2>2 DEF Held
  <2> HIDE DEF r
  <2>5. /\ form' \in [Form -> FormState] /\ \A g \in Form : FormSound(form'[g])
        /\ \A g \in Form : form'[g] = IF g = f THEN r ELSE form[g]
    BY <1>1, <2>1, <2>3, PutForm
  <2>6. \A g \in Form : /\ form'[g].purpose = form[g].purpose
                        /\ form'[g].contact = form[g].contact /\ form'[g].code = form[g].code
                        /\ g # f => form'[g] = form[g]
    BY <2>1, <2>3, <2>5
  <2>7. /\ otp' \in [Purpose -> [Contact -> Code \cup {0}]]
        /\ \A e \in Contact : otp'["signup"][e] = IF e = c THEN 0 ELSE otp["signup"][e]
    BY <1>1, <1>2, <2>1, PutCode
  <2>8. /\ ok' \in [Purpose -> [Contact -> Code \cup {0}]]
        /\ \A e \in Contact : ok'["signup"][e] = IF e = c THEN 0 ELSE ok["signup"][e]
    BY <1>1, <1>2, <2>1, PutOk
  <2>9. \A e \in Contact : e # c => otp["signup"][e] # id /\ ok["signup"][e] # id
    <3>1. \A e \in Contact : e # c => id \notin Held(e)
      BY <1>1, <2>2, <2>4 DEF CodesInv
    <3> QED
      BY <2>2, <3>1 DEF Held
  <2> HIDE DEF c, id
  <2>10. \A e \in Contact : Held(e)' \subseteq Held(e)
    BY <1>5, <2>6, <2>7, <2>8 DEF Held
  <2>11. ASSUME NEW i \in Code \ raced'
         PROVE  OneForm(i)' /\ TakenIsGone(i)'
    <3>1. OneForm(i) /\ TakenIsGone(i) /\ i # 0
      BY <1>5, <1>6, <2>1, <2>11
    <3>2. OneForm(i)'
      BY <2>6, <3>1 DEF OneForm
    <3>3. TakenIsGone(i)'
      <4>1. ASSUME NEW g \in Form, NEW e \in Contact, form'[g].at = "insert", form'[g].code = i
            PROVE  otp'["signup"][e] # i /\ ok'["signup"][e] # i
        <5>1. CASE g = f
          <6>1. i = id
            BY <2>3, <2>5, <4>1, <5>1
          <6> QED
            BY <2>7, <2>8, <2>9, <3>1, <6>1
        <5>2. CASE g # f
          BY <2>6, <2>7, <2>8, <3>1, <4>1, <5>2 DEF TakenIsGone
        <5> QED
          BY <5>1, <5>2
      <4> QED
        BY <4>1 DEF TakenIsGone
    <3> QED
      BY <3>2, <3>3
  <2>12. CodesInv'
    BY <1>1, <2>1, <2>5, <2>10, <2>11, CodesKept
  <2> QED
    BY <1>1, <2>1, <2>5, <2>7, <2>8, <2>12, CodesStep
<1>15. ASSUME NEW f \in Form, EndForm(f), UNCHANGED <<contact, cost, codes, raced>>,
              \A e \in Contact : /\ otp'["signup"][e] = otp["signup"][e]
                                 /\ ok'["signup"][e] = ok["signup"][e]
       PROVE  CodesInv'
  <2>1. /\ \A g \in Form : FormSound(form'[g])
        /\ \A g \in Form : form'[g] \in {form[g], NoForm}
    BY <1>12, <1>15
  <2>2. \A e \in Contact : Held(e)' \subseteq Held(e)
    BY <1>5, <1>15, <2>1 DEF Held
  <2>3. \A i \in Code \ raced' : OneForm(i)' /\ TakenIsGone(i)'
    <3>1. ASSUME NEW i \in Code \ raced'
          PROVE  OneForm(i)' /\ TakenIsGone(i)'
      <4>1. OneForm(i) /\ TakenIsGone(i) /\ i # 0
        BY <1>5, <1>6, <1>15, <3>1
      <4> QED
        BY <1>5, <1>15, <2>1, <4>1 DEF OneForm, TakenIsGone
    <3> QED
      BY <3>1
  <2> QED
    BY <1>1, <1>15, <2>1, <2>2, <2>3, CodesKept
<1>16. ASSUME NEW f \in Form, FormFails(f)
       PROVE  AccountsInv'
  <2>1. EndForm(f) /\ UNCHANGED <<sessionVars, contact, cost, oauth, otp, ok, codes, raced>>
    BY <1>16 DEF FormFails
  <2> QED
    BY <1>1, <1>12, <1>15, <2>1, CodesStep
<1>17. ASSUME NEW f \in Form, NEW q \in Req, NEW u \in User, NEW d \in Device,
              Register(f, q, u, d)
       PROVE  AccountsInv'
  <2> DEFINE r  == [NoRequest EXCEPT !.at = "read", !.user = u, !.device = d, !.row = "registered"]
             c  == form[f].contact
             id == form[f].code
  <2>1. /\ form[f].at = "insert" /\ InsertUser(u, c, id) /\ Become(q, r) /\ EndForm(f)
        /\ UNCHANGED <<active, signed, sess, refresh, mapped, listed, known, closed,
                       oauth, otp, ok, codes, raced>>
    BY <1>17 DEF Register, StartLogin
  <2>2. Sound(r, Opened) /\ r.at # "wipe"
    BY StartIsSound
  <2>3. r.user = u
    BY DEF NoRequest
  <2>4. c \in Contact /\ id \in Code /\ form[f].purpose = "signup"
    BY <1>1, <2>1 DEF FormSound
  <2>5. id \in Held(c)
    BY <2>4 DEF Held
  <2>6. id \notin raced => \A x \in DOMAIN contact : cost[x] # id
    BY <1>6, <2>4, <2>5 DEF SpentIsGone
  <2>7. id \notin raced => \A e \in Contact : id \notin Held(e)'
    <3>1. ASSUME id \notin raced, NEW e \in Contact
          PROVE  id \notin Held(e)'
      <4>1. otp["signup"][e] # id /\ ok["signup"][e] # id
        BY <1>6, <2>1, <2>4, <3>1 DEF TakenIsGone
      <4>2. \A g \in Form : form'[g].code # id
        <5>1. \A g \in Form : form'[g] = IF g = f THEN NoForm ELSE form[g]
          BY <1>12, <2>1
        <5>2. \A g \in Form : form[g].code = id => g = f
          BY <1>6, <2>4, <3>1 DEF OneForm
        <5> QED
          BY <1>5, <2>4, <5>1, <5>2
      <4> QED
        BY <2>1, <4>1, <4>2 DEF Held
    <3> QED
      BY <3>1
  <2>8. id \in 1 .. codes
    BY <1>1, <2>4, <2>5 DEF CodesInv
  <2> HIDE DEF r, c, id
  <2>9. /\ u \notin DOMAIN contact /\ DOMAIN contact' = DOMAIN contact \cup {u}
        /\ \E n \in 0 .. MaxUsers : DOMAIN contact' = 1 .. n
        /\ \A x \in DOMAIN contact' : contact'[x] \in Contact
        /\ cost' \in [DOMAIN contact' -> Code \cup {0}]
        /\ cost'[u] = id /\ \A x \in DOMAIN contact : cost'[x] = cost[x]
    BY <2>1, <2>4, Inserted
  <2>10. /\ form' \in [Form -> FormState] /\ \A g \in Form : FormSound(form'[g])
         /\ \A g \in Form : form'[g] \in {form[g], NoForm}
    BY <1>12, <2>1
  <2>11. CodesInv'
    <3>1. /\ \A x \in DOMAIN contact : cost'[x] = cost[x]
          /\ cost'[u] \in 0 .. codes
      BY <2>8, <2>9
    <3>2. \/ cost'[u] = 0 \/ cost'[u] \in raced
          \/ /\ \A x \in DOMAIN contact : cost[x] # cost'[u]
             /\ \A e \in Contact : cost'[u] \notin Held(e)'
      BY <2>6, <2>7, <2>9
    <3> QED
      BY <1>1, <2>1, <2>9, <2>10, <3>1, <3>2, CodesOpened
  <2>12. oauth' \subseteq DOMAIN contact' /\ u \in DOMAIN contact'
    BY <1>1, <2>1, <2>9
  <2> QED
    BY <1>1, <1>4, <2>1, <2>2, <2>3, <2>9, <2>10, <2>11, <2>12, EntersStep
<1>18. ASSUME NEW u \in User, NEW c \in Contact, InsertUser(u, c, 0),
              UNCHANGED <<otp, ok, form, codes, raced>>
       PROVE  /\ u \notin DOMAIN contact /\ DOMAIN contact' = DOMAIN contact \cup {u}
              /\ \E n \in 0 .. MaxUsers : DOMAIN contact' = 1 .. n
              /\ \A x \in DOMAIN contact' : contact'[x] \in Contact
              /\ cost' \in [DOMAIN contact' -> Code \cup {0}]
              /\ CodesInv'
  <2>1. /\ u \notin DOMAIN contact /\ DOMAIN contact' = DOMAIN contact \cup {u}
        /\ \E n \in 0 .. MaxUsers : DOMAIN contact' = 1 .. n
        /\ \A x \in DOMAIN contact' : contact'[x] \in Contact
        /\ cost' \in [DOMAIN contact' -> Code \cup {0}]
        /\ cost'[u] = 0 /\ \A x \in DOMAIN contact : cost'[x] = cost[x]
    BY <1>18, Inserted
  <2>2. CodesInv'
    <3>1. \A f \in Form : FormSound(form'[f]) /\ form'[f] \in {form[f], NoForm}
      BY <1>1, <1>18
    <3>2. cost'[u] \in 0 .. codes
      BY <1>1, <2>1
    <3> QED
      BY <1>1, <1>18, <2>1, <3>1, <3>2, CodesOpened
  <2> QED
    BY <2>1, <2>2
<1>19. ASSUME NEW q \in Req, NEW c \in Contact, NEW u \in User, NEW d \in Device,
              RegisterOAuth(q, c, u, d)
       PROVE  AccountsInv'
  <2> DEFINE r == [NoRequest EXCEPT !.at = "read", !.user = u, !.device = d, !.row = "oauth"]
  <2>1. /\ InsertUser(u, c, 0) /\ oauth' = oauth \cup {u} /\ Become(q, r)
        /\ UNCHANGED <<active, signed, sess, refresh, mapped, listed, known, closed,
                       otp, ok, form, codes, raced>>
    BY <1>19 DEF RegisterOAuth, StartLogin
  <2>2. Sound(r, Opened) /\ r.at # "wipe"
    BY StartIsSound
  <2>3. r.user = u
    BY DEF NoRequest
  <2> HIDE DEF r
  <2>4. /\ DOMAIN contact' = DOMAIN contact \cup {u}
        /\ \E n \in 0 .. MaxUsers : DOMAIN contact' = 1 .. n
        /\ \A x \in DOMAIN contact' : contact'[x] \in Contact
        /\ cost' \in [DOMAIN contact' -> Code \cup {0}]
        /\ CodesInv'
    BY <1>18, <2>1
  <2>5. oauth' \subseteq DOMAIN contact' /\ u \in DOMAIN contact'
    BY <1>1, <2>1, <2>4
  <2> QED
    BY <1>1, <1>4, <2>1, <2>2, <2>3, <2>4, <2>5, EntersStep
<1>20. ASSUME NEW c \in Contact, NEW u \in User, HireDriver(c, u)
       PROVE  AccountsInv'
  <2>1. /\ InsertUser(u, c, 0) /\ active' = active \cup {u}
        /\ UNCHANGED <<signed, sess, refresh, mapped, listed, known, req, closed,
                       oauth, otp, ok, form, codes, raced>>
    BY <1>20 DEF HireDriver
  <2>2. /\ DOMAIN contact' = DOMAIN contact \cup {u}
        /\ \E n \in 0 .. MaxUsers : DOMAIN contact' = 1 .. n
        /\ \A x \in DOMAIN contact' : contact'[x] \in Contact
        /\ cost' \in [DOMAIN contact' -> Code \cup {0}]
        /\ CodesInv'
    BY <1>18, <2>1
  <2>3. SessionsInv'
    <3>1. SessionsTypeOK /\ active' \subseteq User
      BY <1>1, <1>3, <2>1 DEF SessionsInv
    <3> QED
      BY <1>1, <2>1, <3>1, NoneOpened DEF SessionsTypeOK, SessionsInv
  <2>4. AccountsTypeOK'
    <3>1. DOMAIN contact' \subseteq User /\ active' \subseteq DOMAIN contact'
          /\ oauth' \subseteq DOMAIN contact'
      BY <1>1, <1>3, <2>1, <2>2 DEF AccountsTypeOK
    <3>2. SessionsTypeOK'
      BY <2>3 DEF SessionsInv
    <3> QED
      BY <1>1, <2>1, <2>2, <3>1, <3>2 DEF AccountsTypeOK
  <2>5. RowsInv'
    BY <2>1, <2>2 DEF AccountsInv, RowsInv
  <2> QED
    BY <2>2, <2>3, <2>4, <2>5 DEF AccountsInv
<1>21. ASSUME NEW f \in Form, NEW q \in Req, NEW d \in Device, DriverLogin(f, q, d)
       PROVE  AccountsInv'
  <2>1. PICK u \in Of(form[f].contact) : StartLogin(q, u, d, "known")
    BY <1>21 DEF DriverLogin
  <2> DEFINE r == [NoRequest EXCEPT !.at = "read", !.user = u, !.device = d, !.row = "known"]
  <2>2. /\ ok' = [ok EXCEPT !["driver"][form[f].contact] = 0] /\ EndForm(f)
        /\ UNCHANGED <<active, signed, sess, refresh, mapped, listed, known, closed,
                       contact, cost, oauth, otp, codes, raced>>
    BY <1>21 DEF DriverLogin
  <2>3. u \in User
    BY <1>3 DEF Of
  <2>4. Become(q, r) /\ Sound(r, Opened) /\ r.at # "wipe"
    BY <2>1, <2>3, StartIsSound DEF StartLogin
  <2>5. r.row = "known"
    BY DEF NoRequest
  <2> HIDE DEF r
  <2>6. /\ ok' \in [Purpose -> [Contact -> Code \cup {0}]]
        /\ \A e \in Contact : ok'["signup"][e] = ok["signup"][e]
    BY <1>1, <1>2, <2>2, PutOk
  <2>7. CodesInv' /\ form' \in [Form -> FormState]
    BY <1>12, <1>15, <2>2, <2>6
  <2> QED
    BY <1>1, <1>4, <2>2, <2>4, <2>5, <2>6, <2>7, EntersStep
<1>22. ASSUME NEW q \in Req, NEW c \in Contact, ConfirmReset(q, c)
       PROVE  AccountsInv'
  <2>1. PICK u \in Of(c) :
          Become(q, [NoRequest EXCEPT !.at = "wipe", !.user = u, !.sids = listed[u]])
    BY <1>22 DEF ConfirmReset
  <2> DEFINE r == [NoRequest EXCEPT !.at = "wipe", !.user = u, !.sids = listed[u]]
  <2>2. UNCHANGED <<active, signed, sess, refresh, mapped, listed, known, closed, accountVars>>
    BY <1>22 DEF ConfirmReset
  <2>3. u \in User
    BY <1>3 DEF Of
  <2>4. listed[u] \subseteq Opened /\ listed[u] \in SUBSET Sid
    BY <1>1, <2>3 DEF SessionsInv, SessionsTypeOK
  <2>5. Become(q, r) /\ Sound(r, Opened) /\ r.row = "known"
    BY <2>1, <2>3, <2>4 DEF Sound, AuthRequest, NoRequest
  <2>6. Knows(r)
    <3>1. \A s \in sess : ~signed[s].raced => s \in listed[signed[s].user]
      BY <1>1 DEF SessionsInv
    <3>2. r.user = u /\ r.sids = listed[u]
      BY DEF NoRequest
    <3> HIDE DEF r
    <3> QED
      BY <3>1, <3>2 DEF Knows
  <2> HIDE DEF r
  <2>7. CodesInv'
    BY <1>7, <2>2
  <2> QED
    BY <1>1, <2>2, <2>5, <2>6, <2>7, EntersStep DEF accountVars
<1>23. ASSUME NEW q \in Req, ResetDone(q)
       PROVE  AccountsInv'
  <2> DEFINE c == contact[req[q].user]
  <2>1. /\ Become(q, NoRequest) /\ otp' = [otp EXCEPT !["reset"][c] = 0]
        /\ UNCHANGED <<active, signed, sess, refresh, mapped, listed, known, closed,
                       contact, cost, oauth, ok, form, codes, raced>>
    BY <1>23 DEF ResetDone, Finish
  <2> HIDE DEF c
  <2>2. /\ otp' \in [Purpose -> [Contact -> Code \cup {0}]]
        /\ \A e \in Contact : otp'["signup"][e] = otp["signup"][e]
    BY <1>1, <1>2, <2>1, PutCode
  <2>3. \A e \in Contact : Held(e)' = Held(e)
    BY <2>1, <2>2 DEF Held
  <2>4. \A i \in Code \ raced' : OneForm(i)' /\ TakenIsGone(i)'
    BY <1>6, <2>1, <2>2 DEF OneForm, TakenIsGone
  <2>5. CodesInv'
    BY <1>1, <2>1, <2>3, <2>4, CodesKept
  <2>6. Sound(NoRequest, Opened) /\ Knows(NoRequest) /\ NoRequest.row = "known"
    BY <1>4, NoRequestIsSound DEF NoRequest
  <2> QED
    BY <1>1, <2>1, <2>2, <2>5, <2>6, EntersStep
<1>24. ASSUME NEW u \in User, DeleteUser(u)
       PROVE  AccountsInv'
  <2>1. /\ active' = active \ {u}
        /\ UNCHANGED <<accountVars, signed, sess, refresh, mapped, listed, known, req, closed>>
    BY <1>24 DEF DeleteUser
  <2>2. SessionsInv'
    <3>1. SessionsTypeOK /\ active' \subseteq User
      BY <1>1, <1>3, <2>1 DEF SessionsInv
    <3> QED
      BY <1>1, <2>1, <3>1, NoneOpened DEF SessionsTypeOK, SessionsInv
  <2>3. CodesInv'
    BY <1>7, <2>1
  <2>4. AccountsTypeOK'
    BY <1>1, <2>1, <2>2 DEF AccountsTypeOK, SessionsInv, accountVars
  <2>5. RowsInv'
    BY <2>1 DEF AccountsInv, RowsInv, accountVars
  <2> QED
    BY <1>1, <2>1, <2>2, <2>3, <2>4, <2>5 DEF AccountsInv, accountVars
<1>25. ASSUME SessionsNext, UNCHANGED accountVars
       PROVE  AccountsInv'
  <2>1. SessionsInv'
    BY <1>1, <1>25, SessionsStep
  <2>2. RowsInv /\ RowsInv' /\ active' \subseteq DOMAIN contact'
    <3>1. RowsInv
      BY DEF AccountsInv
    <3>2. /\ \A u \in active' : \/ u \in active
                                \/ \E q \in Req : req[q].row # "known" /\ req[q].user = u
          /\ \A q \in Req : req'[q].row # "known"
                => req[q].row # "known" /\ req'[q].user = req[q].user
      BY <1>1, <1>25, RowsStay
    <3> QED
      BY <1>3, <1>25, <3>1, <3>2 DEF RowsInv, accountVars
  <2>3. CodesInv'
    BY <1>7, <1>25
  <2>4. AccountsTypeOK'
    <3>1. SessionsTypeOK'
      BY <2>1 DEF SessionsInv
    <3> QED
      BY <1>1, <1>25, <2>2, <3>1 DEF AccountsTypeOK, accountVars
  <2> QED
    BY <1>1, <1>25, <2>1, <2>2, <2>3, <2>4 DEF AccountsInv, accountVars
<1>26. ASSUME UNCHANGED authVars
       PROVE  AccountsInv'
  <2>1. UNCHANGED <<sessionVars, contact, cost, oauth, otp, ok, form, codes, raced>>
    BY <1>26 DEF authVars, accountVars
  <2>2. CodesInv'
    BY <1>7, <1>26 DEF authVars
  <2> QED
    BY <1>1, <2>1, <2>2, CodesStep
<1> QED
  BY <1>8, <1>9, <1>11, <1>13, <1>14, <1>16, <1>17, <1>19, <1>20, <1>21, <1>22, <1>23,
     <1>24, <1>25, <1>26 DEF AccountsNext

-----------------------------------------------------------------------------

(* What holds in every state of sessions and accounts (AuthService,        *)
(* UserService, DriverService): it says what a request in flight still     *)
(* knows and who holds a code, which is what the three properties below    *)
(* need to survive its next step.                                          *)
THEOREM AccountsAreSound == AccountsSpec => []AccountsInv
<1>1. AccountsInit => AccountsInv
  <2> SUFFICES ASSUME AccountsInit PROVE AccountsInv
    OBVIOUS
  <2>1. \A q \in Req : Sound(req[q], Opened) /\ req[q].at # "wipe" /\ req[q] \in AuthRequest
                       /\ req[q].row = "known"
    <3>1. NoRequest.row = "known"
      BY DEF NoRequest
    <3> QED
      BY <3>1, NoRequestIsSound DEF AccountsInit, SessionsInit, Sound
  <2>2. Opened = {} /\ DOMAIN contact = {} /\ DOMAIN cost = {} /\ {} = 1 .. 0
    BY DEF AccountsInit, SessionsInit, Opened
  <2>3. SessionsTypeOK
    BY <2>1, <2>2, NoRequestIsSound DEF AccountsInit, SessionsInit, SessionsTypeOK, Sound
  <2>4. SessionsInv
    <3>1. \A q \in Req : Knows(req[q])
      BY <2>1 DEF Knows
    <3>2. 0 \in 0 .. MaxSessions
      BY SessionBounds
    <3> QED
      BY <2>1, <2>2, <2>3, <3>1, <3>2 DEF AccountsInit, SessionsInit, SessionsInv
  <2>5. \A f \in Form : FormSound(form[f]) /\ form[f].code = 0 /\ form[f] \in FormState
    BY NoFormIsSound DEF AccountsInit, FormSound
  <2>6. AccountsTypeOK
    <3>1. cost \in [DOMAIN contact -> Code \cup {0}]
      BY <2>2 DEF AccountsInit
    <3>2. form \in [Form -> FormState]
      BY <2>5 DEF AccountsInit
    <3>3. /\ otp \in [Purpose -> [Contact -> Code \cup {0}]]
          /\ ok \in [Purpose -> [Contact -> Code \cup {0}]]
      BY DEF AccountsInit
    <3> QED
      BY <2>2, <2>3, <3>1, <3>2, <3>3, CodeBounds DEF AccountsInit, SessionsInit, AccountsTypeOK
  <2>7. CodesInv
    <3>1. \A c \in Contact : Held(c) = {}
      BY <2>5 DEF AccountsInit, Held, Purpose, Code
    <3>2. \A id \in Code : OneForm(id) /\ OneAccount(id) /\ SpentIsGone(id)
      BY <2>2, <2>5 DEF OneForm, OneAccount, SpentIsGone, Code
    <3>3. \A id \in Code : TakenIsGone(id)
      BY <2>5 DEF TakenIsGone, Code
    <3> QED
      BY <2>2, <2>5, <3>1, <3>2, <3>3 DEF CodesInv
  <2> QED
    BY <2>1, <2>2, <2>4, <2>6, <2>7 DEF AccountsInv, RowsInv
<1>2. AccountsInv /\ [AccountsNext]_authVars => AccountsInv'
  BY AccountsStep
<1> QED
  BY <1>1, <1>2, PTL DEF AccountsSpec

(* A session that was closed lets nobody in again, whatever a request that *)
(* was under way when it was closed still writes (rotate_token, logout,    *)
(* login_user).                                                            *)
THEOREM ClosedAlwaysStaysClosed == AccountsSpec => []ClosedStaysClosed
<1>1. AccountsInv => ClosedStaysClosed
  BY DEF AccountsInv, SessionsInv, ClosedStaysClosed, Passes
<1> QED
  BY <1>1, AccountsAreSound, PTL

(* A reset knows every session that it is to close, but for those that     *)
(* were opened while it was under way (_invalidate_all_user_sessions).     *)
THEOREM LiveAlwaysListed == AccountsSpec => []LiveIsListed
<1>1. AccountsInv => LiveIsListed
  BY DEF AccountsInv, SessionsInv, LiveIsListed, Passes
<1> QED
  BY <1>1, AccountsAreSound, PTL

(* No code opens two accounts, whatever is retried, fails, expires or is   *)
(* deleted meanwhile, unless two requests overlapped with it               *)
(* (ensure_signup_email_verified, register_and_login_user).                *)
THEOREM NoCodeUsedTwice == AccountsSpec => []OneAccountPerCode
<1>1. AccountsInv => OneAccountPerCode
  <2> SUFFICES ASSUME AccountsInv PROVE OneAccountPerCode
    OBVIOUS
  <2>1. \A u \in DOMAIN contact : cost[u] \in Code \cup {0}
    BY DEF AccountsInv, AccountsTypeOK
  <2>2. \A id \in Code \ raced : OneAccount(id)
    BY DEF AccountsInv, CodesInv
  <2> QED
    BY <2>1, <2>2 DEF OneAccountPerCode, OneAccount
<1> QED
  BY <1>1, AccountsAreSound, PTL

=============================================================================

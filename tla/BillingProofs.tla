---------------------------- MODULE BillingProofs ----------------------------
(***************************************************************************)
(* Theorems about Billing, for every number of legs, settlements, charges, *)
(* invoices and lines: what holds however many requests overlap, and what  *)
(* holds when those of a side run one at a time.                           *)
(***************************************************************************)
EXTENDS Billing, FiniteSetTheorems, TLAPS

USE PayrollBounds

-----------------------------------------------------------------------------
(* The inductive invariant *)

IsResolved(s) == \A l \in DOMAIN line[s] : line[s][l] = "RESOLVED"

(* What the session of a request holds: the settlement it loaded exists,   *)
(* and the status it goes to write follows the one it loaded.              *)
RequestOK(w) ==
  LET r == clerk[w] IN
  /\ r.at \in {"sum", "save"} => r.id \in 1 .. built
  /\ r.at = "sum" => r.new = r.seen
  /\ r.at = "save" /\ r.new # r.seen /\ r.new # "VOID" =>
        <<r.seen, r.new>> \in Edge /\ IsResolved(r.id)

UnbuiltIsDraft == \A s \in SettlementId : s > built => settlement[s].status = "DRAFT"

PayrollInv ==
  /\ PayrollTypeOK
  /\ ConfirmedIsResolved
  /\ UnbuiltIsDraft
  /\ \A w \in Clerk : RequestOK(w)

-----------------------------------------------------------------------------
(* Type correctness *)

(* The lines a build writes for the legs it collected. *)
LEMMA BuiltLineType ==
  ASSUME NEW legs \in SUBSET Leg, NEW rated
  PROVE  [l \in legs |-> IF l \in rated THEN "RESOLVED" ELSE "UNRESOLVED"]
            \in LineMap
BY DEF LineMap

LEMMA NoLinesType == NoLines \in LineMap
<1>1. NoLines \in [{} -> {"RESOLVED", "UNRESOLVED"}]
  BY DEF NoLines
<1> QED
  BY <1>1 DEF LineMap

LEMMA NoClerkRequestType == NoClerkRequest \in ClerkRequest
BY DEF NoClerkRequest, ClerkRequest, PayrollStatus

LEMMA InitPayrollType == PayrollInit => PayrollTypeOK
<1> SUFFICES ASSUME PayrollInit PROVE PayrollTypeOK
  OBVIOUS
<1>1. settlement \in [SettlementId -> SettlementRow]
  BY DEF PayrollInit, SettlementRow, PayrollStatus
<1>2. line \in [SettlementId -> LineMap]
  BY NoLinesType DEF PayrollInit
<1>3. clerk \in [Clerk -> ClerkRequest]
  BY NoClerkRequestType DEF PayrollInit
<1>4. charge \in [SettlementId -> SUBSET ChargeId]
  BY DEF PayrollInit
<1>5. due \subseteq Leg /\ built \in 0 .. MaxSettlements /\ charged \in 0 .. MaxCharges
  BY DEF PayrollInit
<1> QED
  BY <1>1, <1>2, <1>3, <1>4, <1>5 DEF PayrollTypeOK

(* A request that loads a settlement and will give it a status.            *)
LEMMA SetStatusType ==
  ASSUME PayrollTypeOK, NEW w \in Clerk, NEW s \in 1 .. built,
         NEW status \in PayrollStatus, SetStatus(w, s, status)
  PROVE  PayrollTypeOK'
<1>1. s \in SettlementId /\ settlement[s].status \in PayrollStatus
  BY DEF PayrollTypeOK, SettlementId, SettlementRow
<1>2. [NoClerkRequest EXCEPT !.at = "save", !.id = s,
         !.seen = settlement[s].status, !.new = status] \in ClerkRequest
  BY <1>1, NoClerkRequestType DEF ClerkRequest
<1>3. clerk' \in [Clerk -> ClerkRequest]
  BY <1>2 DEF SetStatus, Decide, PayrollTypeOK
<1> QED
  BY <1>3 DEF SetStatus, KeepTables, PayrollTypeOK

(* The settlement a request loaded is one that was built.                  *)
LEMMA LoadedExists ==
  ASSUME PayrollTypeOK, NEW w \in Clerk, RequestOK(w),
         clerk[w].at \in {"sum", "save"}
  PROVE  clerk[w].id \in 1 .. built /\ clerk[w].id \in SettlementId
<1>1. clerk[w].id \in 1 .. built
  BY DEF RequestOK
<1>2. built \in 0 .. MaxSettlements
  BY DEF PayrollTypeOK
<1> QED
  BY <1>1, <1>2 DEF SettlementId

(* What a request commits, row by row: the status and the total of the     *)
(* settlement it loaded, and nothing of any other.                         *)
LEMMA Saved ==
  ASSUME PayrollTypeOK, NEW w \in Clerk, SaveSettlement(w),
         clerk[w].id \in SettlementId, clerk[w].new \in PayrollStatus,
         clerk[w].total \in SUBSET ChargeId
  PROVE  /\ settlement' \in [SettlementId -> SettlementRow]
         /\ \A s \in SettlementId :
               settlement'[s].status =
                  IF s = clerk[w].id /\ clerk[w].new # clerk[w].seen
                  THEN clerk[w].new ELSE settlement[s].status
<1> DEFINE id     == clerk[w].id
           status == IF clerk[w].new # clerk[w].seen
                     THEN clerk[w].new ELSE settlement[id].status
           total  == IF clerk[w].mine # {}
                     THEN clerk[w].total ELSE settlement[id].addon_total
           first  == [settlement EXCEPT ![id].status = status]
           both   == [first EXCEPT ![id].addon_total = total]
<1>1. settlement \in [SettlementId -> SettlementRow] /\ id \in SettlementId
  BY DEF PayrollTypeOK
<1>2. status \in PayrollStatus /\ total \in SUBSET ChargeId
  BY <1>1 DEF SettlementRow
<1>3. settlement' = both
  BY DEF SaveSettlement
<1> HIDE DEF status, total, id
<1>4. /\ first \in [SettlementId -> SettlementRow]
      /\ \A s \in SettlementId :
            first[s].status = IF s = id THEN status ELSE settlement[s].status
  BY <1>1, <1>2 DEF SettlementRow
<1> HIDE DEF first
<1>5. /\ both \in [SettlementId -> SettlementRow]
      /\ \A s \in SettlementId : both[s].status = first[s].status
  BY <1>1, <1>2, <1>4 DEF SettlementRow
<1> QED
  BY <1>1, <1>3, <1>4, <1>5 DEF status, id

(* Whatever a payroll request does, its tables stay well formed.           *)
LEMMA PayrollStepType ==
  ASSUME PayrollTypeOK, \A w \in Clerk : RequestOK(w), PayrollNext
  PROVE  PayrollTypeOK'
<1>1. ASSUME NEW l \in Leg, LegCompletes(l) \/ LegLeaves(l)
      PROVE  PayrollTypeOK'
  BY <1>1 DEF LegCompletes, LegLeaves, PayrollTypeOK
<1>2. ASSUME NEW w \in Clerk, CollectLegs(w)
      PROVE  PayrollTypeOK'
  <2>1. [NoClerkRequest EXCEPT !.at = "build", !.legs = due \ Settled]
          \in ClerkRequest
    BY NoClerkRequestType DEF ClerkRequest, PayrollTypeOK
  <2>2. clerk' \in [Clerk -> ClerkRequest]
    BY <1>2, <2>1 DEF CollectLegs, Decide, PayrollTypeOK
  <2> QED
    BY <1>2, <2>2 DEF CollectLegs, KeepTables, PayrollTypeOK
<1>3. ASSUME NEW w \in Clerk, NEW rated \in SUBSET Leg, NEW n \in 0 .. 1,
             Build(w, rated, n)
      PROVE  PayrollTypeOK'
  <2> DEFINE s   == built + 1
             new == charged + 1 .. charged + n
  <2>1. s \in SettlementId /\ built' \in 0 .. MaxSettlements
    BY <1>3 DEF Build, PayrollTypeOK, SettlementId
  <2>2. new \subseteq ChargeId /\ charged' \in 0 .. MaxCharges
    BY <1>3 DEF Build, PayrollTypeOK, ChargeId
  <2>3. [is_active |-> TRUE, status |-> "DRAFT", addon_total |-> new]
          \in SettlementRow
    BY <2>2 DEF SettlementRow, PayrollStatus
  <2>4. settlement' \in [SettlementId -> SettlementRow]
    BY <1>3, <2>3 DEF Build, PayrollTypeOK
  <2>5. charge' \in [SettlementId -> SUBSET ChargeId]
    BY <1>3, <2>2 DEF Build, PayrollTypeOK
  <2>6. clerk[w].legs \in SUBSET Leg
    BY DEF PayrollTypeOK, ClerkRequest
  <2>7. line' \in [SettlementId -> LineMap]
    BY <1>3, <2>6, BuiltLineType DEF Build, PayrollTypeOK
  <2>8. clerk' \in [Clerk -> ClerkRequest]
    BY <1>3, NoClerkRequestType DEF Build, PayrollTypeOK
  <2>9. due' \subseteq Leg
    BY <1>3 DEF Build, PayrollTypeOK
  <2> QED
    BY <2>1, <2>2, <2>4, <2>5, <2>7, <2>8, <2>9 DEF PayrollTypeOK
<1>4. ASSUME NEW w \in Clerk, NEW s \in 1 .. built,
             Confirm(w, s) \/ MarkPaid(w, s) \/ Void(w, s)
      PROVE  PayrollTypeOK'
  <2>1. PICK status \in PayrollStatus : SetStatus(w, s, status)
    BY <1>4 DEF Confirm, MarkPaid, Void, PayrollStatus
  <2> QED
    BY <2>1, SetStatusType
<1>5. ASSUME NEW w \in Clerk, NEW s \in 1 .. built, AddCharge(w, s)
      PROVE  PayrollTypeOK'
  <2>1. s \in SettlementId
    BY DEF PayrollTypeOK, SettlementId
  <2>2. charged + 1 \in ChargeId /\ charged' \in 0 .. MaxCharges
    BY <1>5 DEF AddCharge, PayrollTypeOK, ChargeId
  <2>3. [NoClerkRequest EXCEPT !.at = "sum", !.id = s, !.mine = {charged + 1}]
          \in ClerkRequest
    BY <2>1, <2>2, NoClerkRequestType DEF ClerkRequest
  <2>4. clerk' \in [Clerk -> ClerkRequest]
    BY <1>5, <2>3 DEF AddCharge, Decide, PayrollTypeOK
  <2> QED
    BY <1>5, <2>2, <2>4 DEF AddCharge, KeepTables, PayrollTypeOK
<1>6. ASSUME NEW w \in Clerk, NEW s \in 1 .. built, DeleteSettlement(w, s)
      PROVE  PayrollTypeOK'
  <2>1. settlement' \in [SettlementId -> SettlementRow]
    BY <1>6 DEF DeleteSettlement, PayrollTypeOK, SettlementRow
  <2> QED
    BY <1>6, <2>1 DEF DeleteSettlement, PayrollTypeOK
<1>7. ASSUME NEW w \in Clerk, SumCharges(w)
      PROVE  PayrollTypeOK'
  <2>1. clerk[w] \in ClerkRequest /\ clerk[w].id \in SettlementId
    BY <1>7, LoadedExists DEF SumCharges, PayrollTypeOK
  <2>2. charge[clerk[w].id] \cup clerk[w].mine \in SUBSET ChargeId
    BY <2>1 DEF PayrollTypeOK, ClerkRequest
  <2>3. [clerk[w] EXCEPT !.at = "save",
                         !.total = charge[clerk[w].id] \cup clerk[w].mine]
          \in ClerkRequest
    BY <2>1, <2>2 DEF ClerkRequest
  <2>4. clerk' = [clerk EXCEPT ![w] =
                    [clerk[w] EXCEPT !.at = "save",
                       !.total = charge[clerk[w].id] \cup clerk[w].mine]]
    BY <1>7 DEF SumCharges, PayrollTypeOK
  <2>5. clerk' \in [Clerk -> ClerkRequest]
    BY <2>3, <2>4 DEF PayrollTypeOK
  <2> QED
    BY <1>7, <2>5 DEF SumCharges, KeepTables, PayrollTypeOK
<1>8. ASSUME NEW w \in Clerk, SaveSettlement(w)
      PROVE  PayrollTypeOK'
  <2> DEFINE r == clerk[w]
  <2>1. r \in ClerkRequest /\ r.id \in SettlementId
    BY <1>8, LoadedExists DEF SaveSettlement, PayrollTypeOK
  <2>2. r.new \in PayrollStatus /\ r.total \in SUBSET ChargeId
        /\ r.mine \in SUBSET ChargeId
    BY <2>1 DEF ClerkRequest
  <2>3. settlement' \in [SettlementId -> SettlementRow]
    BY <1>8, <2>1, <2>2, Saved
  <2>4. charge' \in [SettlementId -> SUBSET ChargeId]
    BY <1>8, <2>1, <2>2 DEF SaveSettlement, PayrollTypeOK
  <2>5. clerk' \in [Clerk -> ClerkRequest]
    BY <1>8, NoClerkRequestType DEF SaveSettlement, PayrollTypeOK
  <2> QED
    BY <1>8, <2>3, <2>4, <2>5 DEF SaveSettlement, PayrollTypeOK
<1>9. ASSUME NEW w \in Clerk, FailPayroll(w)
      PROVE  PayrollTypeOK'
  <2>1. clerk' \in [Clerk -> ClerkRequest]
    BY <1>9, NoClerkRequestType DEF FailPayroll, PayrollTypeOK
  <2> QED
    BY <1>9, <2>1 DEF FailPayroll, KeepTables, PayrollTypeOK
<1> QED
  BY <1>1, <1>2, <1>3, <1>4, <1>5, <1>6, <1>7, <1>8, <1>9 DEF PayrollNext

-----------------------------------------------------------------------------
(* The lines a request checked are the lines for good *)

(* A payroll step that commits no status: what is committed, and what the  *)
(* other requests hold, is as it was.                                      *)
LEMMA QuietStep ==
  ASSUME PayrollInv, NEW w \in Clerk,
         UNCHANGED <<settlement, line, built>>,
         \A v \in Clerk \ {w} : clerk'[v] = clerk[v],
         RequestOK(w)'
  PROVE  ConfirmedIsResolved' /\ UnbuiltIsDraft' /\ \A v \in Clerk : RequestOK(v)'
<1>1. ConfirmedIsResolved' /\ UnbuiltIsDraft'
  BY DEF PayrollInv, ConfirmedIsResolved, UnbuiltIsDraft
<1>2. ASSUME NEW v \in Clerk PROVE RequestOK(v)'
  <2>1. CASE v = w
    BY <2>1
  <2>2. CASE v # w
    <3>1. RequestOK(v) /\ clerk'[v] = clerk[v]
      BY <2>2 DEF PayrollInv
    <3> QED
      BY <3>1 DEF RequestOK, IsResolved
  <2> QED
    BY <2>1, <2>2
<1> QED
  BY <1>1, <1>2

(* A request that is idle, or collected the legs of a build, has nothing   *)
(* to promise.                                                             *)
LEMMA IdleRequest ==
  ASSUME PayrollTypeOK, NEW w \in Clerk,
         clerk' = [clerk EXCEPT ![w] = NoClerkRequest]
  PROVE  /\ RequestOK(w)'
         /\ \A v \in Clerk \ {w} : clerk'[v] = clerk[v]
<1>1. clerk'[w] = NoClerkRequest /\ \A v \in Clerk \ {w} : clerk'[v] = clerk[v]
  BY DEF PayrollTypeOK
<1>2. clerk'[w].at = "idle"
  BY <1>1 DEF NoClerkRequest
<1> QED
  BY <1>1, <1>2 DEF RequestOK

LEMMA DecidedRequest ==
  ASSUME PayrollTypeOK, NEW w \in Clerk, NEW request, Decide(w, request)
  PROVE  /\ clerk'[w] = request
         /\ \A v \in Clerk \ {w} : clerk'[v] = clerk[v]
BY DEF Decide, PayrollTypeOK

(* The three requests that give a settlement a status decide on an edge.   *)
LEMMA SetStatusRequest ==
  ASSUME PayrollInv, NEW w \in Clerk, NEW s \in 1 .. built,
         NEW status \in PayrollStatus, SetStatus(w, s, status),
         status # "VOID" => <<settlement[s].status, status>> \in Edge /\ IsResolved(s)
  PROVE  PayrollInv'
<1>1. PayrollTypeOK'
  BY SetStatusType DEF PayrollInv
<1>2. UNCHANGED <<settlement, line, built>>
  BY DEF SetStatus, KeepTables
<1> DEFINE request == [NoClerkRequest EXCEPT !.at = "save", !.id = s,
                         !.seen = settlement[s].status, !.new = status]
<1>3. clerk'[w] = request /\ \A v \in Clerk \ {w} : clerk'[v] = clerk[v]
  BY DecidedRequest DEF SetStatus, PayrollInv
<1>4. /\ request.at = "save" /\ request.id = s
      /\ request.seen = settlement[s].status /\ request.new = status
  BY DEF NoClerkRequest
<1>5. RequestOK(w)'
  BY <1>2, <1>3, <1>4 DEF RequestOK, IsResolved
<1> QED
  BY <1>1, <1>2, <1>3, <1>5, QuietStep DEF PayrollInv

LEMMA PayrollInvStep ==
  ASSUME PayrollInv, PayrollNext
  PROVE  PayrollInv'
<1>t. PayrollTypeOK'
  BY PayrollStepType DEF PayrollInv
<1>1. ASSUME NEW l \in Leg, LegCompletes(l) \/ LegLeaves(l)
      PROVE  PayrollInv'
  <2>1. UNCHANGED <<settlement, line, built, clerk>>
    BY <1>1 DEF LegCompletes, LegLeaves
  <2> QED
    BY <1>t, <2>1 DEF PayrollInv, ConfirmedIsResolved, UnbuiltIsDraft,
                      RequestOK, IsResolved
<1>2. ASSUME NEW w \in Clerk, CollectLegs(w)
      PROVE  PayrollInv'
  <2>1. UNCHANGED <<settlement, line, built>>
    BY <1>2 DEF CollectLegs, KeepTables
  <2> DEFINE request == [NoClerkRequest EXCEPT !.at = "build", !.legs = due \ Settled]
  <2>2. clerk'[w] = request /\ \A v \in Clerk \ {w} : clerk'[v] = clerk[v]
    BY <1>2, DecidedRequest DEF CollectLegs, PayrollInv
  <2>3. request.at = "build"
    BY DEF NoClerkRequest
  <2>4. RequestOK(w)'
    BY <2>2, <2>3 DEF RequestOK
  <2> QED
    BY <1>t, <2>1, <2>2, <2>4, QuietStep DEF PayrollInv
<1>3. ASSUME NEW w \in Clerk, NEW rated \in SUBSET Leg, NEW n \in 0 .. 1,
             Build(w, rated, n)
      PROVE  PayrollInv'
  <2> DEFINE s == built + 1
  <2>1. s \in SettlementId /\ built \in Nat /\ built' = s
    BY <1>3 DEF Build, PayrollInv, PayrollTypeOK, SettlementId
  <2>2. /\ settlement'[s].status = "DRAFT"
        /\ \A t \in SettlementId \ {s} :
              settlement'[t] = settlement[t] /\ line'[t] = line[t]
    BY <1>3, <2>1 DEF Build, PayrollInv, PayrollTypeOK
  <2>3. ConfirmedIsResolved'
    <3> SUFFICES ASSUME NEW t \in SettlementId,
                        settlement'[t].status \in {"CONFIRMED", "PAID"}
                 PROVE  \A l \in DOMAIN line'[t] : line'[t][l] = "RESOLVED"
      BY DEF ConfirmedIsResolved
    <3>1. t # s
      BY <2>2
    <3> QED
      BY <3>1, <2>2 DEF PayrollInv, ConfirmedIsResolved
  <2>4. UnbuiltIsDraft'
    BY <2>1, <2>2 DEF PayrollInv, UnbuiltIsDraft, SettlementId
  <2>5. RequestOK(w)' /\ \A v \in Clerk \ {w} : clerk'[v] = clerk[v]
    BY <1>3, IdleRequest DEF Build, PayrollInv
  <2>6. ASSUME NEW v \in Clerk \ {w} PROVE RequestOK(v)'
    <3>1. RequestOK(v) /\ clerk'[v] = clerk[v]
      BY <2>5 DEF PayrollInv
    <3>2. CASE clerk[v].at \in {"sum", "save"}
      <4>1. clerk[v].id \in 1 .. built /\ clerk[v].id \in SettlementId
        BY <3>1, <3>2, LoadedExists DEF PayrollInv
      <4>2. clerk[v].id \in 1 .. built' /\ clerk[v].id # s
        BY <2>1, <4>1
      <4>3. line'[clerk[v].id] = line[clerk[v].id]
        BY <2>2, <4>1, <4>2
      <4> QED
        BY <3>1, <4>2, <4>3 DEF RequestOK, IsResolved
    <3>3. CASE clerk[v].at \notin {"sum", "save"}
      BY <3>1, <3>3 DEF RequestOK
    <3> QED
      BY <3>2, <3>3
  <2> QED
    BY <1>t, <2>3, <2>4, <2>5, <2>6 DEF PayrollInv
<1>4. ASSUME NEW w \in Clerk, NEW s \in 1 .. built, Confirm(w, s)
      PROVE  PayrollInv'
  <2>1. s \in SettlementId
    BY DEF PayrollInv, PayrollTypeOK, SettlementId
  <2>2. IsResolved(s)
    <3> SUFFICES ASSUME NEW l \in DOMAIN line[s] PROVE line[s][l] = "RESOLVED"
      BY DEF IsResolved
    <3>1. line[s] \in LineMap
      BY <2>1 DEF PayrollInv, PayrollTypeOK
    <3>2. line[s][l] \in {"RESOLVED", "UNRESOLVED"}
      BY <3>1 DEF LineMap
    <3> QED
      BY <1>4, <3>2 DEF Confirm
  <2>3. settlement[s].status = "DRAFT" /\ SetStatus(w, s, "CONFIRMED")
    BY <1>4 DEF Confirm
  <2> QED
    BY <2>2, <2>3, SetStatusRequest DEF Edge, PayrollStatus
<1>5. ASSUME NEW w \in Clerk, NEW s \in 1 .. built, MarkPaid(w, s)
      PROVE  PayrollInv'
  <2>1. s \in SettlementId
    BY DEF PayrollInv, PayrollTypeOK, SettlementId
  <2>2. settlement[s].status = "CONFIRMED" /\ SetStatus(w, s, "PAID")
    BY <1>5 DEF MarkPaid
  <2>3. IsResolved(s)
    BY <2>1, <2>2 DEF PayrollInv, ConfirmedIsResolved, IsResolved
  <2> QED
    BY <2>2, <2>3, SetStatusRequest DEF Edge, PayrollStatus
<1>6. ASSUME NEW w \in Clerk, NEW s \in 1 .. built, Void(w, s)
      PROVE  PayrollInv'
  BY <1>6, SetStatusRequest DEF Void, PayrollStatus
<1>7. ASSUME NEW w \in Clerk, NEW s \in 1 .. built, AddCharge(w, s)
      PROVE  PayrollInv'
  <2>1. UNCHANGED <<settlement, line, built>>
    BY <1>7 DEF AddCharge, KeepTables
  <2> DEFINE request == [NoClerkRequest EXCEPT !.at = "sum", !.id = s,
                                               !.mine = {charged + 1}]
  <2>2. clerk'[w] = request /\ \A v \in Clerk \ {w} : clerk'[v] = clerk[v]
    BY <1>7, DecidedRequest DEF AddCharge, PayrollInv
  <2>3. request.at = "sum" /\ request.id = s /\ request.new = request.seen
    BY DEF NoClerkRequest
  <2>4. RequestOK(w)'
    BY <2>1, <2>2, <2>3 DEF RequestOK
  <2> QED
    BY <1>t, <2>1, <2>2, <2>4, QuietStep DEF PayrollInv
<1>8. ASSUME NEW w \in Clerk, NEW s \in 1 .. built, DeleteSettlement(w, s)
      PROVE  PayrollInv'
  <2>1. UNCHANGED <<line, built, clerk>>
    BY <1>8 DEF DeleteSettlement
  <2>2. \A t \in SettlementId : settlement'[t].status = settlement[t].status
    BY <1>8 DEF DeleteSettlement, PayrollInv, PayrollTypeOK, SettlementRow
  <2> QED
    BY <1>t, <2>1, <2>2 DEF PayrollInv, ConfirmedIsResolved, UnbuiltIsDraft,
                            RequestOK, IsResolved
<1>9. ASSUME NEW w \in Clerk, SumCharges(w)
      PROVE  PayrollInv'
  <2>1. UNCHANGED <<settlement, line, built>>
    BY <1>9 DEF SumCharges, KeepTables
  <2>2. /\ clerk'[w].id = clerk[w].id /\ clerk'[w].seen = clerk[w].seen
        /\ clerk'[w].new = clerk[w].new /\ clerk[w].at = "sum"
        /\ \A v \in Clerk \ {w} : clerk'[v] = clerk[v]
    BY <1>9 DEF SumCharges, PayrollInv, PayrollTypeOK, ClerkRequest
  <2>3. clerk[w].id \in 1 .. built /\ clerk[w].new = clerk[w].seen
    BY <2>2 DEF PayrollInv, RequestOK
  <2>4. RequestOK(w)'
    BY <2>1, <2>2, <2>3 DEF RequestOK
  <2> QED
    BY <1>t, <2>1, <2>2, <2>4, QuietStep DEF PayrollInv
<1>10. ASSUME NEW w \in Clerk, SaveSettlement(w)
       PROVE  PayrollInv'
  <2> DEFINE r == clerk[w]
  <2>1. RequestOK(w) /\ r.at = "save" /\ r \in ClerkRequest
        /\ UNCHANGED <<line, built>>
    BY <1>10 DEF SaveSettlement, PayrollInv, PayrollTypeOK
  <2>2. r.id \in 1 .. built /\ r.id \in SettlementId
    BY <2>1, LoadedExists DEF PayrollInv
  <2>3. \A s \in SettlementId :
           settlement'[s].status = IF s = r.id /\ r.new # r.seen
                                   THEN r.new ELSE settlement[s].status
    BY <1>10, <2>1, <2>2, Saved DEF PayrollInv, ClerkRequest
  <2>4. ConfirmedIsResolved'
    <3> SUFFICES ASSUME NEW s \in SettlementId,
                        settlement'[s].status \in {"CONFIRMED", "PAID"}
                 PROVE  IsResolved(s)
      BY <2>1 DEF ConfirmedIsResolved, IsResolved
    <3>1. CASE s = r.id /\ r.new # r.seen
      BY <2>1, <2>3, <3>1 DEF RequestOK
    <3>2. CASE ~(s = r.id /\ r.new # r.seen)
      BY <2>3, <3>2 DEF PayrollInv, ConfirmedIsResolved, IsResolved
    <3> QED
      BY <3>1, <3>2
  <2>5. UnbuiltIsDraft'
    <3>1. built \in Nat
      BY DEF PayrollInv, PayrollTypeOK
    <3> QED
      BY <2>1, <2>2, <2>3, <3>1 DEF PayrollInv, UnbuiltIsDraft, SettlementId
  <2>6. RequestOK(w)' /\ \A v \in Clerk \ {w} : clerk'[v] = clerk[v]
    BY <1>10, IdleRequest DEF SaveSettlement, PayrollInv
  <2>7. ASSUME NEW v \in Clerk \ {w} PROVE RequestOK(v)'
    BY <2>1, <2>6 DEF PayrollInv, RequestOK, IsResolved
  <2> QED
    BY <1>t, <2>4, <2>5, <2>6, <2>7 DEF PayrollInv
<1>11. ASSUME NEW w \in Clerk, FailPayroll(w)
       PROVE  PayrollInv'
  <2>1. UNCHANGED <<settlement, line, built>>
    BY <1>11 DEF FailPayroll, KeepTables
  <2>2. RequestOK(w)' /\ \A v \in Clerk \ {w} : clerk'[v] = clerk[v]
    BY <1>11, IdleRequest DEF FailPayroll, PayrollInv
  <2> QED
    BY <1>t, <2>1, <2>2, QuietStep DEF PayrollInv
<1> QED
  BY <1>1, <1>2, <1>3, <1>4, <1>5, <1>6, <1>7, <1>8, <1>9, <1>10, <1>11
     DEF PayrollNext

LEMMA InitPayrollInv == PayrollInit => PayrollInv
<1> SUFFICES ASSUME PayrollInit PROVE PayrollInv
  OBVIOUS
<1>1. PayrollTypeOK
  BY InitPayrollType
<1>2. ConfirmedIsResolved /\ UnbuiltIsDraft
  BY DEF PayrollInit, ConfirmedIsResolved, UnbuiltIsDraft
<1>3. \A w \in Clerk : RequestOK(w)
  BY DEF PayrollInit, RequestOK, NoClerkRequest
<1> QED
  BY <1>1, <1>2, <1>3 DEF PayrollInv

LEMMA PayrollInvStutter ==
  ASSUME PayrollInv, UNCHANGED payrollVars
  PROVE  PayrollInv'
BY DEF payrollVars, PayrollInv, PayrollTypeOK, ConfirmedIsResolved,
       UnbuiltIsDraft, RequestOK, IsResolved

(* A status other than VOID is written only by the commit of a request     *)
(* that decided on it from the status it loaded.                           *)
LEMMA StatusFollowsStep ==
  ASSUME PayrollInv, PayrollNext
  PROVE  StatusFollows
<1>1. ASSUME UNCHANGED settlement
      PROVE  StatusFollows
  BY <1>1 DEF StatusFollows
<1>2. ASSUME NEW w \in Clerk, NEW rated \in SUBSET Leg, NEW n \in 0 .. 1,
             Build(w, rated, n)
      PROVE  StatusFollows
  <2> DEFINE s == built + 1
  <2>1. s \in SettlementId /\ s > built
    BY <1>2 DEF Build, PayrollInv, PayrollTypeOK, SettlementId
  <2>2. settlement[s].status = "DRAFT"
    BY <2>1 DEF PayrollInv, UnbuiltIsDraft
  <2>3. \A t \in SettlementId : settlement'[t].status = settlement[t].status
    BY <1>2, <2>2 DEF Build, PayrollInv, PayrollTypeOK
  <2> QED
    BY <2>3 DEF StatusFollows
<1>3. ASSUME NEW w \in Clerk, NEW s \in 1 .. built, DeleteSettlement(w, s)
      PROVE  StatusFollows
  <2>1. \A t \in SettlementId : settlement'[t].status = settlement[t].status
    BY <1>3 DEF DeleteSettlement, PayrollInv, PayrollTypeOK, SettlementRow
  <2> QED
    BY <2>1 DEF StatusFollows
<1>4. ASSUME NEW w \in Clerk, SaveSettlement(w)
      PROVE  StatusFollows
  <2> DEFINE r == clerk[w]
  <2>1. RequestOK(w) /\ r.at = "save" /\ r \in ClerkRequest
    BY <1>4 DEF SaveSettlement, PayrollInv, PayrollTypeOK
  <2>2. \A s \in SettlementId :
           settlement'[s].status = IF s = r.id /\ r.new # r.seen
                                   THEN r.new ELSE settlement[s].status
    BY <1>4, <2>1, LoadedExists, Saved DEF PayrollInv, ClerkRequest
  <2> SUFFICES ASSUME NEW s \in SettlementId,
                      settlement'[s].status # settlement[s].status,
                      settlement'[s].status # "VOID"
               PROVE  <<r.seen, settlement'[s].status>> \in Edge /\ r.id = s
    BY DEF StatusFollows
  <2>3. s = r.id /\ r.new # r.seen /\ settlement'[s].status = r.new
    BY <2>2
  <2> QED
    BY <2>1, <2>3 DEF RequestOK
<1>5. ASSUME NEW w \in Clerk, NEW s \in 1 .. built,
             Confirm(w, s) \/ MarkPaid(w, s) \/ Void(w, s)
      PROVE  UNCHANGED settlement
  BY <1>5 DEF Confirm, MarkPaid, Void, SetStatus, KeepTables
<1>6. ASSUME NEW w \in Clerk, NEW s \in 1 .. built, AddCharge(w, s)
      PROVE  UNCHANGED settlement
  BY <1>6 DEF AddCharge, KeepTables
<1>7. ASSUME NEW w \in Clerk, CollectLegs(w) \/ SumCharges(w) \/ FailPayroll(w)
      PROVE  UNCHANGED settlement
  BY <1>7 DEF CollectLegs, SumCharges, FailPayroll, KeepTables
<1>8. ASSUME NEW l \in Leg, LegCompletes(l) \/ LegLeaves(l)
      PROVE  UNCHANGED settlement
  BY <1>8 DEF LegCompletes, LegLeaves
<1> QED
  BY <1>1, <1>2, <1>3, <1>4, <1>5, <1>6, <1>7, <1>8 DEF PayrollNext

-----------------------------------------------------------------------------
(* The theorems *)

(* The tables of the payroll and the sessions of its requests stay well    *)
(* formed (PayrollService).                                                *)
THEOREM PayrollTypeCorrect == Spec => []PayrollTypeOK
<1>1. Init => PayrollInv
  BY InitPayrollInv DEF Init
<1>2. PayrollInv /\ [Next]_vars => PayrollInv'
  BY PayrollInvStep, PayrollInvStutter DEF Next, vars
<1>3. PayrollInv => PayrollTypeOK
  BY DEF PayrollInv
<1> QED
  BY <1>1, <1>2, <1>3, PTL DEF Spec

(* However many requests overlap, no settlement with a leg whose rate was  *)
(* not found is ever CONFIRMED or PAID (confirm).                          *)
THEOREM ResolvedWhenConfirmed == Spec => []ConfirmedIsResolved
<1>1. Init => PayrollInv
  BY InitPayrollInv DEF Init
<1>2. PayrollInv /\ [Next]_vars => PayrollInv'
  BY PayrollInvStep, PayrollInvStutter DEF Next, vars
<1>3. PayrollInv => ConfirmedIsResolved
  BY DEF PayrollInv
<1> QED
  BY <1>1, <1>2, <1>3, PTL DEF Spec

(* However many requests overlap, CONFIRMED is written by a request that   *)
(* loaded DRAFT and PAID by one that loaded CONFIRMED (confirm, mark_paid, *)
(* void).                                                                  *)
THEOREM StatusAlwaysFollows == Spec => StatusFollowsLoaded
<1>1. Init => PayrollInv
  BY InitPayrollInv DEF Init
<1>2. PayrollInv /\ [Next]_vars => PayrollInv'
  BY PayrollInvStep, PayrollInvStutter DEF Next, vars
<1>3. PayrollInv /\ [Next]_vars => [StatusFollows]_payrollVars
  BY StatusFollowsStep DEF Next, vars
<1> QED
  BY <1>1, <1>2, <1>3, PTL DEF Spec, StatusFollowsLoaded
-----------------------------------------------------------------------------
(* Payroll requests one at a time *)

OneClerk == \A v, w \in Clerk : v = w

(* What the only session holds is still so when it writes: the legs it     *)
(* collected are settled by nobody, the status it loaded is the status,    *)
(* and its sum is that of the charges there will be.                       *)
Current(w) ==
  LET r == clerk[w] IN
  /\ r.at = "build" => r.legs \cap Settled = {}
  /\ r.at \in {"sum", "save"} =>
       /\ r.seen = settlement[r.id].status
       /\ r.mine # {} => r.seen = "DRAFT" /\ r.new = "DRAFT"
  /\ r.at = "save" /\ r.mine # {} => r.total = charge[r.id] \cup r.mine

PayrollAlone ==
  /\ PayrollInv
  /\ SettledOnce
  /\ PayrollTotalAgrees
  /\ \A w \in Clerk : Current(w)

(* A step that writes no row and leaves a session that is current.         *)
LEMMA CurrentStep ==
  ASSUME OneClerk, PayrollAlone, PayrollInv', NEW w \in Clerk, Current(w)',
         UNCHANGED <<settlement, line, charge, built>>
  PROVE  PayrollAlone'
<1>1. SettledOnce' /\ PayrollTotalAgrees'
  BY DEF PayrollAlone, SettledOnce, PayrollTotalAgrees
<1>2. \A v \in Clerk : Current(v)'
  BY DEF OneClerk
<1> QED
  BY <1>1, <1>2 DEF PayrollAlone

(* An idle session holds nothing. *)
LEMMA IdleIsCurrent ==
  ASSUME PayrollTypeOK, NEW w \in Clerk,
         clerk' = [clerk EXCEPT ![w] = NoClerkRequest]
  PROVE  Current(w)'
<1>1. clerk'[w].at = "idle"
  BY DEF PayrollTypeOK, NoClerkRequest
<1> QED
  BY <1>1 DEF Current

(* The legs of a new settlement are on no line of one that is not void.    *)
LEMMA BuildAlone ==
  ASSUME OneClerk, PayrollAlone, PayrollInv',
         NEW w \in Clerk, NEW rated \in SUBSET Leg, NEW n \in 0 .. 1,
         Build(w, rated, n)
  PROVE  PayrollAlone'
<1> DEFINE s   == built + 1
           new == charged + 1 .. charged + n
<1>1. s \in SettlementId /\ built \in Nat /\ built' = s /\ built \in 0 .. MaxSettlements
  BY DEF Build, PayrollAlone, PayrollInv, PayrollTypeOK, SettlementId
<1>2. /\ \A t \in SettlementId \ {s} :
            settlement'[t] = settlement[t] /\ line'[t] = line[t] /\ charge'[t] = charge[t]
      /\ settlement'[s].addon_total = new /\ charge'[s] = new
      /\ DOMAIN line'[s] = clerk[w].legs
  BY <1>1 DEF Build, PayrollAlone, PayrollInv, PayrollTypeOK
<1>3. clerk[w].at = "build" /\ clerk[w].legs \cap Settled = {}
  BY DEF Build, PayrollAlone, Current
<1>4. ASSUME NEW t \in 1 .. built, settlement[t].status # "VOID"
      PROVE  clerk[w].legs \cap DOMAIN line[t] = {}
  BY <1>3, <1>4 DEF Settled
<1>5. \A t \in 1 .. built : t \in SettlementId \ {s}
  BY <1>1 DEF SettlementId
<1>6. \A t \in 1 .. s : t = s \/ t \in 1 .. built
  BY <1>1
<1>7. SettledOnce'
  <2> SUFFICES ASSUME NEW t \in 1 .. s, NEW u \in 1 .. s, t # u,
                      settlement'[t].status # "VOID", settlement'[u].status # "VOID"
               PROVE  DOMAIN line'[t] \cap DOMAIN line'[u] = {}
    BY <1>1 DEF SettledOnce
  <2>1. CASE t \in 1 .. built /\ u \in 1 .. built
    <3>1. /\ line'[t] = line[t] /\ line'[u] = line[u]
          /\ settlement[t].status # "VOID" /\ settlement[u].status # "VOID"
      BY <2>1, <1>2, <1>5
    <3> QED
      BY <2>1, <3>1 DEF PayrollAlone, SettledOnce
  <2>2. CASE t = s /\ u \in 1 .. built
    BY <2>2, <1>2, <1>4, <1>5
  <2>3. CASE u = s /\ t \in 1 .. built
    BY <2>3, <1>2, <1>4, <1>5
  <2> QED
    BY <1>6, <2>1, <2>2, <2>3
<1>8. PayrollTotalAgrees'
  BY <1>2 DEF PayrollAlone, PayrollTotalAgrees
<1>9. \A v \in Clerk : Current(v)'
  BY IdleIsCurrent DEF Build, PayrollAlone, PayrollInv, OneClerk
<1> QED
  BY <1>7, <1>8, <1>9 DEF PayrollAlone

(* What the only request commits, row by row.                              *)
LEMMA SavedAlone ==
  ASSUME PayrollAlone, NEW w \in Clerk, SaveSettlement(w)
  PROVE  /\ clerk[w].id \in SettlementId
         /\ settlement[clerk[w].id].status = clerk[w].seen
         /\ clerk[w].mine # {} =>
              /\ clerk[w].seen = "DRAFT"
              /\ clerk[w].total = charge[clerk[w].id] \cup clerk[w].mine
         /\ \A s \in SettlementId :
              /\ settlement'[s].status =
                   IF s = clerk[w].id THEN clerk[w].new ELSE settlement[s].status
              /\ settlement'[s].addon_total =
                   IF s = clerk[w].id /\ clerk[w].mine # {}
                   THEN clerk[w].total ELSE settlement[s].addon_total
              /\ charge'[s] =
                   IF s = clerk[w].id THEN charge[s] \cup clerk[w].mine ELSE charge[s]
<1> DEFINE r == clerk[w]
<1>1. RequestOK(w) /\ Current(w) /\ r.at = "save" /\ r \in ClerkRequest
  BY DEF SaveSettlement, PayrollAlone, PayrollInv, PayrollTypeOK
<1>2. r.id \in SettlementId
  BY <1>1, LoadedExists DEF PayrollAlone, PayrollInv
<1>3. /\ settlement[r.id].status = r.seen
      /\ r.mine # {} => r.seen = "DRAFT" /\ r.total = charge[r.id] \cup r.mine
  BY <1>1 DEF Current
<1>4. ASSUME NEW s \in SettlementId
      PROVE  settlement'[s].status =
               IF s = r.id /\ r.new # r.seen THEN r.new ELSE settlement[s].status
  BY <1>1, <1>2, <1>4, Saved DEF PayrollAlone, PayrollInv, ClerkRequest
<1>5. ASSUME NEW s \in SettlementId
      PROVE  settlement'[s].addon_total =
               IF s = r.id /\ r.mine # {} THEN r.total ELSE settlement[s].addon_total
  <2> DEFINE first == [settlement EXCEPT
                         ![r.id].status = IF r.new # r.seen THEN r.new ELSE @]
             total == IF r.mine # {} THEN r.total ELSE first[r.id].addon_total
  <2>1. settlement' = [first EXCEPT ![r.id].addon_total = total]
    BY DEF SaveSettlement
  <2>2. settlement \in [SettlementId -> SettlementRow]
    BY DEF PayrollAlone, PayrollInv, PayrollTypeOK
  <2>3. /\ DOMAIN first = SettlementId
        /\ first[s].addon_total = settlement[s].addon_total
        /\ \A t \in SettlementId : DOMAIN first[t] = {"is_active", "status", "addon_total"}
    BY <1>2, <2>2 DEF SettlementRow
  <2> HIDE DEF first
  <2>4. settlement'[s].addon_total = IF s = r.id THEN total ELSE first[s].addon_total
    BY <1>2, <2>1, <2>3
  <2> QED
    BY <2>3, <2>4
<1>6. ASSUME NEW s \in SettlementId
      PROVE  charge'[s] = IF s = r.id THEN charge[s] \cup r.mine ELSE charge[s]
  BY <1>2 DEF SaveSettlement, PayrollAlone, PayrollInv, PayrollTypeOK
<1> QED
  BY <1>2, <1>3, <1>4, <1>5, <1>6

LEMMA SaveAlone ==
  ASSUME OneClerk, PayrollAlone, PayrollInv', NEW w \in Clerk, SaveSettlement(w)
  PROVE  PayrollAlone'
<1> DEFINE r == clerk[w]
<1>1. UNCHANGED <<line, built>> /\ built \in 0 .. MaxSettlements
  BY DEF SaveSettlement, PayrollAlone, PayrollInv, PayrollTypeOK
<1>2. r.new # r.seen /\ r.new # "VOID" => r.seen # "VOID"
  BY DEF PayrollAlone, PayrollInv, RequestOK, SaveSettlement, Edge
<1>3. \A s \in SettlementId :
         settlement'[s].status # "VOID" => settlement[s].status # "VOID"
  <2> SUFFICES ASSUME NEW s \in SettlementId, settlement'[s].status # "VOID"
               PROVE  settlement[s].status # "VOID"
    OBVIOUS
  <2>1. CASE s = r.id
    BY <1>2, <2>1, SavedAlone
  <2>2. CASE s # r.id
    BY <2>2, SavedAlone
  <2> QED
    BY <2>1, <2>2
<1>4. SettledOnce'
  <2> SUFFICES ASSUME NEW s \in 1 .. built, NEW t \in 1 .. built, s # t,
                      settlement'[s].status # "VOID", settlement'[t].status # "VOID"
               PROVE  DOMAIN line[s] \cap DOMAIN line[t] = {}
    BY <1>1 DEF SettledOnce
  <2>1. s \in SettlementId /\ t \in SettlementId
    BY <1>1 DEF SettlementId
  <2> QED
    BY <1>3, <2>1 DEF PayrollAlone, SettledOnce
<1>5. PayrollTotalAgrees'
  <2> SUFFICES ASSUME NEW s \in SettlementId
               PROVE  settlement'[s].addon_total = charge'[s]
    BY DEF PayrollTotalAgrees
  <2>1. settlement[s].addon_total = charge[s]
    BY DEF PayrollAlone, PayrollTotalAgrees
  <2> QED
    BY <2>1, SavedAlone
<1>6. \A v \in Clerk : Current(v)'
  BY IdleIsCurrent DEF SaveSettlement, PayrollAlone, PayrollInv, OneClerk
<1> QED
  BY <1>4, <1>5, <1>6 DEF PayrollAlone

(* A request that loads a status and will write another.                   *)
LEMMA SetStatusAlone ==
  ASSUME OneClerk, PayrollAlone, PayrollInv', NEW w \in Clerk, NEW s \in 1 .. built,
         NEW status, SetStatus(w, s, status)
  PROVE  PayrollAlone'
<1> DEFINE request == [NoClerkRequest EXCEPT !.at = "save", !.id = s,
                         !.seen = settlement[s].status, !.new = status]
<1>1. UNCHANGED <<settlement, line, charge, built>>
  BY DEF SetStatus, KeepTables
<1>2. clerk'[w] = request
  BY DecidedRequest DEF SetStatus, PayrollAlone, PayrollInv
<1>3. /\ request.at = "save" /\ request.id = s /\ request.mine = {}
      /\ request.seen = settlement[s].status
  BY DEF NoClerkRequest
<1>4. Current(w)'
  BY <1>1, <1>2, <1>3 DEF Current
<1> QED
  BY <1>1, <1>4, CurrentStep

LEMMA PayrollAloneStep ==
  ASSUME OneClerk, PayrollAlone, PayrollNext
  PROVE  PayrollAlone'
<1>i. PayrollInv'
  BY PayrollInvStep DEF PayrollAlone
<1>1. ASSUME NEW l \in Leg, LegCompletes(l) \/ LegLeaves(l)
      PROVE  PayrollAlone'
  <2>1. UNCHANGED <<settlement, line, charge, built, clerk>>
    BY <1>1 DEF LegCompletes, LegLeaves
  <2>2. Settled' = Settled
    BY <2>1 DEF Settled
  <2> QED
    BY <1>i, <2>1, <2>2 DEF PayrollAlone, SettledOnce, PayrollTotalAgrees, Current
<1>2. ASSUME NEW w \in Clerk, CollectLegs(w)
      PROVE  PayrollAlone'
  <2> DEFINE request == [NoClerkRequest EXCEPT !.at = "build", !.legs = due \ Settled]
  <2>1. UNCHANGED <<settlement, line, charge, built>>
    BY <1>2 DEF CollectLegs, KeepTables
  <2>2. clerk'[w] = request
    BY <1>2, DecidedRequest DEF CollectLegs, PayrollAlone, PayrollInv
  <2>3. request.at = "build" /\ request.legs = due \ Settled
    BY DEF NoClerkRequest
  <2>4. Settled' = Settled
    BY <2>1 DEF Settled
  <2>5. Current(w)'
    BY <2>2, <2>3, <2>4 DEF Current
  <2> QED
    BY <1>i, <2>1, <2>5, CurrentStep
<1>3. ASSUME NEW w \in Clerk, NEW s \in 1 .. built,
             Confirm(w, s) \/ MarkPaid(w, s) \/ Void(w, s)
      PROVE  PayrollAlone'
  <2>1. PICK status : SetStatus(w, s, status)
    BY <1>3 DEF Confirm, MarkPaid, Void
  <2> QED
    BY <1>i, <2>1, SetStatusAlone
<1>4. ASSUME NEW w \in Clerk, NEW s \in 1 .. built, AddCharge(w, s)
      PROVE  PayrollAlone'
  <2> DEFINE request == [NoClerkRequest EXCEPT !.at = "sum", !.id = s,
                                               !.mine = {charged + 1}]
  <2>1. UNCHANGED <<settlement, line, charge, built>> /\ settlement[s].status = "DRAFT"
    BY <1>4 DEF AddCharge, KeepTables
  <2>2. clerk'[w] = request
    BY <1>4, DecidedRequest DEF AddCharge, PayrollAlone, PayrollInv
  <2>3. /\ request.at = "sum" /\ request.id = s
        /\ request.seen = "DRAFT" /\ request.new = "DRAFT"
    BY DEF NoClerkRequest
  <2>4. Current(w)'
    BY <2>1, <2>2, <2>3 DEF Current
  <2> QED
    BY <1>i, <2>1, <2>4, CurrentStep
<1>5. ASSUME NEW w \in Clerk, NEW s \in 1 .. built, DeleteSettlement(w, s)
      PROVE  PayrollAlone'
  <2>1. UNCHANGED <<line, charge, built, clerk>>
    BY <1>5 DEF DeleteSettlement
  <2>2. \A t \in SettlementId : /\ settlement'[t].status = settlement[t].status
                                /\ settlement'[t].addon_total = settlement[t].addon_total
    BY <1>5 DEF DeleteSettlement, PayrollAlone, PayrollInv, PayrollTypeOK, SettlementRow
  <2>3. \A t \in 1 .. built : t \in SettlementId
    BY DEF PayrollAlone, PayrollInv, PayrollTypeOK, SettlementId
  <2>4. SettledOnce'
    BY <2>1, <2>2, <2>3 DEF PayrollAlone, SettledOnce
  <2>5. PayrollTotalAgrees'
    BY <2>1, <2>2 DEF PayrollAlone, PayrollTotalAgrees
  <2>6. Settled' = Settled
    BY <2>1, <2>2, <2>3 DEF Settled
  <2>7. ASSUME NEW v \in Clerk PROVE Current(v)'
    <3>1. Current(v) /\ RequestOK(v)
      BY DEF PayrollAlone, PayrollInv
    <3>2. clerk[v].at \in {"sum", "save"} => clerk[v].id \in SettlementId
      BY <3>1, LoadedExists DEF PayrollAlone, PayrollInv
    <3> QED
      BY <2>1, <2>2, <2>6, <3>1, <3>2 DEF Current
  <2> QED
    BY <1>i, <2>4, <2>5, <2>7 DEF PayrollAlone
<1>6. ASSUME NEW w \in Clerk, SumCharges(w)
      PROVE  PayrollAlone'
  <2>1. UNCHANGED <<settlement, line, charge, built>> /\ clerk[w].at = "sum"
    BY <1>6 DEF SumCharges, KeepTables
  <2>2. /\ clerk'[w].at = "save" /\ clerk'[w].id = clerk[w].id
        /\ clerk'[w].seen = clerk[w].seen /\ clerk'[w].new = clerk[w].new
        /\ clerk'[w].mine = clerk[w].mine
        /\ clerk'[w].total = charge[clerk[w].id] \cup clerk[w].mine
    BY <1>6 DEF SumCharges, PayrollAlone, PayrollInv, PayrollTypeOK, ClerkRequest
  <2>3. Current(w)
    BY DEF PayrollAlone
  <2>4. Current(w)'
    BY <2>1, <2>2, <2>3 DEF Current
  <2> QED
    BY <1>i, <2>1, <2>4, CurrentStep
<1>7. ASSUME NEW w \in Clerk, FailPayroll(w)
      PROVE  PayrollAlone'
  <2>1. UNCHANGED <<settlement, line, charge, built>>
    BY <1>7 DEF FailPayroll, KeepTables
  <2>2. Current(w)'
    BY <1>7, IdleIsCurrent DEF FailPayroll, PayrollAlone, PayrollInv
  <2> QED
    BY <1>i, <2>1, <2>2, CurrentStep
<1> QED
  BY <1>i, <1>1, <1>2, <1>3, <1>4, <1>5, <1>6, <1>7, BuildAlone, SaveAlone
     DEF PayrollNext

LEMMA InitPayrollAlone == PayrollInit => PayrollAlone
<1> SUFFICES ASSUME PayrollInit PROVE PayrollAlone
  OBVIOUS
<1>1. SettledOnce /\ PayrollTotalAgrees
  BY DEF PayrollInit, SettledOnce, PayrollTotalAgrees
<1>2. \A w \in Clerk : Current(w)
  BY DEF PayrollInit, Current, NoClerkRequest
<1> QED
  BY <1>1, <1>2, InitPayrollInv DEF PayrollAlone

LEMMA PayrollAloneStutter ==
  ASSUME PayrollAlone, UNCHANGED payrollVars
  PROVE  PayrollAlone'
<1>1. PayrollInv'
  BY PayrollInvStutter DEF PayrollAlone
<1> QED
  BY <1>1 DEF payrollVars, PayrollAlone, SettledOnce, PayrollTotalAgrees,
              Current, Settled

(* Only a build, of a settlement that was none, and the commit of a        *)
(* request that found its settlement DRAFT write charges.                  *)
LEMMA FrozenStep ==
  ASSUME PayrollAlone, PayrollNext
  PROVE  ChargesFrozen
<1>1. ASSUME UNCHANGED <<settlement, charge>>
      PROVE  ChargesFrozen
  BY <1>1 DEF ChargesFrozen
<1>2. ASSUME NEW w \in Clerk, NEW rated \in SUBSET Leg, NEW n \in 0 .. 1,
             Build(w, rated, n)
      PROVE  ChargesFrozen
  <2> DEFINE s == built + 1
  <2>1. s \in SettlementId /\ s > built
    BY <1>2 DEF Build, PayrollAlone, PayrollInv, PayrollTypeOK, SettlementId
  <2>2. settlement[s].status = "DRAFT"
    BY <2>1 DEF PayrollAlone, PayrollInv, UnbuiltIsDraft
  <2>3. \A t \in SettlementId \ {s} :
           settlement'[t] = settlement[t] /\ charge'[t] = charge[t]
    BY <1>2 DEF Build, PayrollAlone, PayrollInv, PayrollTypeOK
  <2> QED
    BY <2>2, <2>3 DEF ChargesFrozen
<1>3. ASSUME NEW w \in Clerk, NEW s \in 1 .. built, DeleteSettlement(w, s)
      PROVE  ChargesFrozen
  BY <1>3 DEF DeleteSettlement, PayrollAlone, PayrollInv, PayrollTypeOK,
              SettlementRow, ChargesFrozen
<1>4. ASSUME NEW w \in Clerk, SaveSettlement(w)
      PROVE  ChargesFrozen
  <2> SUFFICES ASSUME NEW s \in SettlementId,
                      settlement[s].status \in {"CONFIRMED", "PAID"}
               PROVE  /\ charge'[s] = charge[s]
                      /\ settlement'[s].addon_total = settlement[s].addon_total
    BY DEF ChargesFrozen
  <2>1. s = clerk[w].id => clerk[w].mine = {}
    BY <1>4, SavedAlone
  <2> QED
    BY <1>4, <2>1, SavedAlone
<1>5. ASSUME NEW w \in Clerk, NEW s \in 1 .. built,
             Confirm(w, s) \/ MarkPaid(w, s) \/ Void(w, s)
      PROVE  UNCHANGED <<settlement, charge>>
  BY <1>5 DEF Confirm, MarkPaid, Void, SetStatus, KeepTables
<1>6. ASSUME NEW w \in Clerk, NEW s \in 1 .. built, AddCharge(w, s)
      PROVE  UNCHANGED <<settlement, charge>>
  BY <1>6 DEF AddCharge, KeepTables
<1>7. ASSUME NEW w \in Clerk, CollectLegs(w) \/ SumCharges(w) \/ FailPayroll(w)
      PROVE  UNCHANGED <<settlement, charge>>
  BY <1>7 DEF CollectLegs, SumCharges, FailPayroll, KeepTables
<1>8. ASSUME NEW l \in Leg, LegCompletes(l) \/ LegLeaves(l)
      PROVE  UNCHANGED <<settlement, charge>>
  BY <1>8 DEF LegCompletes, LegLeaves
<1> QED
  BY <1>1, <1>2, <1>3, <1>4, <1>5, <1>6, <1>7, <1>8 DEF PayrollNext

(* When payroll requests run one at a time, a leg is on the lines of at    *)
(* most one settlement that is not void (collect_settleable_legs).         *)
THEOREM LegSettledOnce ==
  ASSUME OneClerk
  PROVE  Spec => []SettledOnce
<1>1. Init => PayrollAlone
  BY InitPayrollAlone DEF Init
<1>2. PayrollAlone /\ [Next]_vars => PayrollAlone'
  BY PayrollAloneStep, PayrollAloneStutter DEF Next, vars
<1>3. PayrollAlone => SettledOnce
  BY DEF PayrollAlone
<1> QED
  BY <1>1, <1>2, <1>3, PTL DEF Spec

(* When payroll requests run one at a time, the total of every settlement  *)
(* is the sum of its charges (update_totals).                              *)
THEOREM ChargesAlwaysAdded ==
  ASSUME OneClerk
  PROVE  Spec => []PayrollTotalAgrees
<1>1. Init => PayrollAlone
  BY InitPayrollAlone DEF Init
<1>2. PayrollAlone /\ [Next]_vars => PayrollAlone'
  BY PayrollAloneStep, PayrollAloneStutter DEF Next, vars
<1>3. PayrollAlone => PayrollTotalAgrees
  BY DEF PayrollAlone
<1> QED
  BY <1>1, <1>2, <1>3, PTL DEF Spec

(* When payroll requests run one at a time, a settlement that is CONFIRMED *)
(* or PAID keeps its charges and its total (add_charge).                   *)
THEOREM ConfirmedStaysFrozen ==
  ASSUME OneClerk
  PROVE  Spec => ConfirmedIsFrozen
<1>1. Init => PayrollAlone
  BY InitPayrollAlone DEF Init
<1>2. PayrollAlone /\ [Next]_vars => PayrollAlone'
  BY PayrollAloneStep, PayrollAloneStutter DEF Next, vars
<1>3. PayrollAlone /\ [Next]_vars => [ChargesFrozen]_payrollVars
  BY FrozenStep DEF Next, vars
<1> QED
  BY <1>1, <1>2, <1>3, PTL DEF Spec, ConfirmedIsFrozen

-----------------------------------------------------------------------------
(* Invoices *)

USE InvoiceBounds

LEMMA ItemMapOf ==
  ASSUME NEW S \in SUBSET LineId, NEW f \in [S -> Line]
  PROVE  f \in ItemMap
BY DEF ItemMap

LEMMA ItemMapIs ==
  ASSUME NEW f \in ItemMap
  PROVE  DOMAIN f \in SUBSET LineId /\ f \in [DOMAIN f -> Line]
BY DEF ItemMap

LEMMA ChargedType ==
  ASSUME NEW q \in Qty
  PROVE  Charged(q) \in Qty
BY OneUnit DEF Charged

LEMMA NoItemsType ==
  /\ NoItems \in ItemMap /\ NoItems \in SumMap
  /\ DOMAIN NoItems = {}
<1>1. NoItems \in [{} -> Line] /\ NoItems \in [{} -> Qty \X Unit]
  BY DEF NoItems
<1> QED
  BY <1>1 DEF ItemMap, SumMap

LEMMA SumOfType ==
  ASSUME NEW items \in ItemMap
  PROVE  SumOf(items) \in SumMap
<1>1. DOMAIN items \in SUBSET LineId /\ items \in [DOMAIN items -> Line]
  BY ItemMapIs
<1>2. SumOf(items) \in [DOMAIN items -> Qty \X Unit]
  BY <1>1 DEF SumOf, Line
<1> QED
  BY <1>1, <1>2 DEF SumMap

LEMMA NoEditorRequestType ==
  NoEditorRequest \in EditorRequest /\ NoEditorRequest.at = "idle"
BY NoItemsType DEF NoEditorRequest, EditorRequest, InvoiceStatus

(* The columns of a line changed by an UPDATE: those of a line.            *)
LEMMA UpdatedLine ==
  ASSUME NEW row \in Line, NEW old \in Line, NEW new \in Line
  PROVE  [col \in DOMAIN new |-> Column(row, old, new, col)] \in Line
<1> DEFINE m == [col \in DOMAIN new |-> Column(row, old, new, col)]
<1>1. DOMAIN new = {"source", "quantity", "unit_amount", "amount"}
  BY DEF Line
<1>2. /\ m["source"] \in {"PREFILL", "MANUAL"} /\ m["quantity"] \in Qty
      /\ m["unit_amount"] \in Unit /\ m["amount"] \in Qty \X Unit
  BY <1>1 DEF Column, Line
<1>3. m = [source |-> m["source"], quantity |-> m["quantity"],
           unit_amount |-> m["unit_amount"], amount |-> m["amount"]]
  BY <1>1
<1> HIDE DEF m
<1>4. m \in Line
  BY <1>2, <1>3 DEF Line
<1> QED
  BY <1>4 DEF m

(* The lines of an invoice with the edit of a request, when those it       *)
(* changes are there.                                                      *)
LEMMA EditedType ==
  ASSUME NEW items \in ItemMap, NEW r \in EditorRequest,
         DOMAIN r.before \cap DOMAIN r.after \subseteq DOMAIN items
  PROVE  /\ Edited(items, r) \in ItemMap
         /\ DOMAIN Edited(items, r) =
              (DOMAIN items \ (DOMAIN r.before \ DOMAIN r.after)) \cup DOMAIN r.after
<1> DEFINE S == (DOMAIN items \ (DOMAIN r.before \ DOMAIN r.after)) \cup DOMAIN r.after
           row(l) == IF l \notin DOMAIN r.after THEN items[l]
                     ELSE IF l \notin DOMAIN r.before THEN r.after[l]
                     ELSE [col \in DOMAIN r.after[l] |->
                             Column(items[l], r.before[l], r.after[l], col)]
<1>1. /\ DOMAIN items \in SUBSET LineId /\ items \in [DOMAIN items -> Line]
      /\ DOMAIN r.before \in SUBSET LineId /\ r.before \in [DOMAIN r.before -> Line]
      /\ DOMAIN r.after \in SUBSET LineId /\ r.after \in [DOMAIN r.after -> Line]
  BY ItemMapIs DEF EditorRequest
<1>2. ASSUME NEW l \in S PROVE row(l) \in Line
  <2>1. CASE l \notin DOMAIN r.after
    BY <1>1, <2>1
  <2>2. CASE l \in DOMAIN r.after /\ l \notin DOMAIN r.before
    BY <1>1, <2>2
  <2>3. CASE l \in DOMAIN r.after /\ l \in DOMAIN r.before
    <3>1. items[l] \in Line /\ r.before[l] \in Line /\ r.after[l] \in Line
      BY <1>1, <2>3
    <3> QED
      BY <2>3, <3>1, UpdatedLine
  <2> QED
    BY <2>1, <2>2, <2>3
<1>3. Edited(items, r) = [l \in S |-> row(l)]
  BY DEF Edited
<1> HIDE DEF row
<1>4. [l \in S |-> row(l)] \in [S -> Line] /\ S \in SUBSET LineId
  BY <1>1, <1>2
<1> HIDE DEF S
<1>5. Edited(items, r) \in ItemMap /\ DOMAIN Edited(items, r) = S
  BY <1>3, <1>4, ItemMapOf
<1> QED
  BY <1>5 DEF S

-----------------------------------------------------------------------------
(* The lines a flushed edit changes stay there until it commits *)

Writing(w) == editor[w].at \in {"sum", "save"}

(* What the session of a request holds: the invoice it loaded exists, and  *)
(* once its edit is flushed so does the line to change ...                 *)
HasItsLine(w) ==
  LET r == editor[w] IN
  /\ r.at # "idle" => r.id \in 1 .. created
  /\ Writing(w) => DOMAIN r.before \cap DOMAIN r.after \subseteq DOMAIN item[r.id]

(* ... for the line is locked. *)
LinesLocked ==
  \A v, w \in Editor : v # w /\ Writing(v) /\ Writing(w) =>
     DOMAIN editor[v].before \cap DOMAIN editor[w].before = {}

UncreatedIsDraft ==
  \A i \in InvoiceId : i > created => invoice[i].status = "DRAFT"

InvoiceInv ==
  /\ InvoiceTypeOK
  /\ LinesLocked
  /\ UncreatedIsDraft
  /\ \A w \in Editor : HasItsLine(w)

(* A step that writes no row: only the session that takes it changes.      *)
LEMMA SessionStep ==
  ASSUME InvoiceInv, NEW w \in Editor, NEW request \in EditorRequest,
         editor' = [editor EXCEPT ![w] = request],
         UNCHANGED <<invoice, item, created>>, lines' \in 0 .. MaxLines,
         request.at # "idle" => request.id \in 1 .. created,
         request.at \in {"sum", "save"} =>
            /\ DOMAIN request.before \cap DOMAIN request.after
                  \subseteq DOMAIN item[request.id]
            /\ \A v \in Editor \ {w} : Writing(v) =>
                  DOMAIN editor[v].before \cap DOMAIN request.before = {}
  PROVE  InvoiceInv'
<1>1. editor'[w] = request /\ \A v \in Editor \ {w} : editor'[v] = editor[v]
  BY DEF InvoiceInv, InvoiceTypeOK
<1>2. InvoiceTypeOK'
  BY DEF InvoiceInv, InvoiceTypeOK
<1>3. LinesLocked'
  <2> SUFFICES ASSUME NEW u \in Editor, NEW v \in Editor, u # v,
                      Writing(u)', Writing(v)'
               PROVE  DOMAIN editor'[u].before \cap DOMAIN editor'[v].before = {}
    BY DEF LinesLocked
  <2>1. CASE u = w
    <3>1. editor'[u] = request /\ editor'[v] = editor[v] /\ v \in Editor \ {w}
      BY <1>1, <2>1
    <3>2. request.at \in {"sum", "save"} /\ Writing(v)
      BY <3>1 DEF Writing
    <3> QED
      BY <3>1, <3>2
  <2>2. CASE v = w
    <3>1. editor'[v] = request /\ editor'[u] = editor[u] /\ u \in Editor \ {w}
      BY <1>1, <2>2
    <3>2. request.at \in {"sum", "save"} /\ Writing(u)
      BY <3>1 DEF Writing
    <3> QED
      BY <3>1, <3>2
  <2>3. CASE u # w /\ v # w
    <3>1. editor'[u] = editor[u] /\ editor'[v] = editor[v]
      BY <1>1, <2>3
    <3>2. Writing(u) /\ Writing(v)
      BY <3>1 DEF Writing
    <3> QED
      BY <3>1, <3>2 DEF InvoiceInv, LinesLocked
  <2> QED
    BY <2>1, <2>2, <2>3
<1>4. UncreatedIsDraft'
  BY DEF InvoiceInv, UncreatedIsDraft
<1>5. ASSUME NEW v \in Editor PROVE HasItsLine(v)'
  <2>1. CASE v = w
    BY <1>1, <2>1 DEF HasItsLine, Writing
  <2>2. CASE v # w
    <3>1. HasItsLine(v) /\ editor'[v] = editor[v]
      BY <1>1, <2>2 DEF InvoiceInv
    <3> QED
      BY <3>1 DEF HasItsLine, Writing
  <2> QED
    BY <2>1, <2>2
<1> QED
  BY <1>2, <1>3, <1>4, <1>5 DEF InvoiceInv

LEMMA IdleEditor ==
  ASSUME InvoiceInv, NEW w \in Editor,
         editor' = [editor EXCEPT ![w] = NoEditorRequest],
         UNCHANGED <<invoice, item, created, lines>>
  PROVE  InvoiceInv'
<1>1. lines' \in 0 .. MaxLines
  BY DEF InvoiceInv, InvoiceTypeOK
<1> QED
  BY <1>1, NoEditorRequestType, SessionStep

(* The request of an edit, as loaded. *)
EditRequest(i, before, after, at) == [Edit(i, before, after) EXCEPT !.at = at]

LEMMA EditType ==
  ASSUME InvoiceInv, NEW i \in 1 .. created,
         NEW before \in ItemMap, NEW after \in ItemMap, NEW at \in {"edit", "sum"}
  PROVE  LET request == EditRequest(i, before, after, at) IN
         /\ request \in EditorRequest
         /\ request.at = at /\ request.id = i
         /\ request.before = before /\ request.after = after
         /\ request.seen = "DRAFT" /\ request.new = "DRAFT"
         /\ request.loaded = invoice[i].charge_total
<1>1. i \in InvoiceId
  BY DEF InvoiceInv, InvoiceTypeOK, InvoiceId
<1>2. invoice[i].charge_total \in SumMap
  BY <1>1 DEF InvoiceInv, InvoiceTypeOK, InvoiceRow
<1> QED
  BY <1>1, <1>2, NoItemsType DEF EditRequest, Edit, NoEditorRequest, EditorRequest, InvoiceStatus

LEMMA AddLineStep ==
  ASSUME InvoiceInv, NEW w \in Editor, NEW i \in 1 .. created,
         NEW q \in Qty, NEW u \in Unit, AddLine(w, i, q, u)
  PROVE  InvoiceInv'
<1> DEFINE after   == [l \in {lines + 1} |-> NewLine(q, u)]
           request == EditRequest(i, NoItems, after, "sum")
<1>1. lines + 1 \in LineId /\ lines' \in 0 .. MaxLines
  BY DEF AddLine, InvoiceInv, InvoiceTypeOK, LineId
<1>2. NewLine(q, u) \in Line
  BY ChargedType DEF NewLine, Line
<1>3. after \in [{lines + 1} -> Line] /\ {lines + 1} \in SUBSET LineId
  BY <1>1, <1>2
<1>4. after \in ItemMap
  BY <1>3, ItemMapOf
<1> HIDE DEF after
<1>5. /\ request \in EditorRequest /\ request.at = "sum" /\ request.id = i
      /\ request.before = NoItems
  BY <1>4, NoItemsType, EditType
<1>6. /\ editor' = [editor EXCEPT ![w] = request]
      /\ UNCHANGED <<invoice, item, created>>
  BY DEF AddLine, LoadDraft, Load, after, EditRequest
<1> HIDE DEF request
<1> QED
  BY <1>1, <1>5, <1>6, NoItemsType, SessionStep

(* An edit of a line the request loaded, which it has yet to flush.        *)
LEMMA LoadLineStep ==
  ASSUME InvoiceInv, NEW w \in Editor, NEW i \in 1 .. created,
         NEW before \in ItemMap, NEW after \in ItemMap,
         LoadDraft(w, i, [Edit(i, before, after) EXCEPT !.at = "edit"]),
         UNCHANGED <<invoice, item, created, lines>>
  PROVE  InvoiceInv'
<1> DEFINE request == EditRequest(i, before, after, "edit")
<1>1. request \in EditorRequest /\ request.at = "edit" /\ request.id = i
  BY EditType
<1>2. editor' = [editor EXCEPT ![w] = request] /\ lines' \in 0 .. MaxLines
  BY DEF LoadDraft, Load, InvoiceInv, InvoiceTypeOK, EditRequest
<1> HIDE DEF request
<1> QED
  BY <1>1, <1>2, SessionStep

(* The line of a request as loaded and as repriced.                        *)
LEMMA LoadedLine ==
  ASSUME InvoiceInv, NEW i \in 1 .. created, NEW l \in DOMAIN item[i],
         NEW q \in Qty, NEW u \in Unit
  PROVE  /\ item[i] \in ItemMap
         /\ item[i][l] \in Line
         /\ Priced(item[i][l], q, u) \in Line
         /\ Priced(item[i][l], q, u).amount =
              <<Charged(Priced(item[i][l], q, u).quantity),
                Priced(item[i][l], q, u).unit_amount>>
         /\ [k \in {l} |-> item[i][l]] \in ItemMap
         /\ [k \in {l} |-> Priced(item[i][l], q, u)] \in ItemMap
<1>1. i \in InvoiceId
  BY DEF InvoiceInv, InvoiceTypeOK, InvoiceId
<1>2. item[i] \in ItemMap
  BY <1>1 DEF InvoiceInv, InvoiceTypeOK
<1>3. l \in LineId /\ item[i][l] \in Line
  BY <1>2, ItemMapIs
<1>4. Priced(item[i][l], q, u) \in Line
  BY <1>3, ChargedType DEF Priced, Line
<1>5. Priced(item[i][l], q, u).amount =
        <<Charged(Priced(item[i][l], q, u).quantity), Priced(item[i][l], q, u).unit_amount>>
  BY <1>3 DEF Priced, Line
<1>6. {l} \in SUBSET LineId
  BY <1>3
<1>7. /\ [k \in {l} |-> item[i][l]] \in [{l} -> Line]
      /\ [k \in {l} |-> Priced(item[i][l], q, u)] \in [{l} -> Line]
  BY <1>3, <1>4
<1>8. /\ [k \in {l} |-> item[i][l]] \in ItemMap
      /\ [k \in {l} |-> Priced(item[i][l], q, u)] \in ItemMap
  BY <1>6, <1>7, ItemMapOf
<1> QED
  BY <1>2, <1>3, <1>4, <1>5, <1>8

(* The lines a create prefills, numbered on from those there are.          *)
LEMMA PrefillType ==
  ASSUME InvoiceTypeOK, NEW n \in 0 .. MaxLines,
         NEW prefill \in [1 .. n -> Prefilled],
         lines + Cardinality(DOMAIN prefill) <= MaxLines
  PROVE  LET items == [l \in lines + 1 .. lines + Cardinality(DOMAIN prefill) |->
                         prefill[l - lines]] IN
         /\ items \in ItemMap
         /\ \A l \in DOMAIN items : items[l].source = "PREFILL"
         /\ lines + Cardinality(DOMAIN prefill) \in 0 .. MaxLines
<1>1. n \in Nat /\ lines \in Nat
  BY DEF InvoiceTypeOK
<1>2. Cardinality(1 .. n) = n
  BY <1>1, FS_Interval
<1>3. DOMAIN prefill = 1 .. n
  OBVIOUS
<1> DEFINE S     == lines + 1 .. lines + n
           items == [l \in S |-> prefill[l - lines]]
<1>4. S \in SUBSET LineId /\ lines + n \in 0 .. MaxLines
  BY <1>1, <1>2, <1>3 DEF LineId
<1>5. \A l \in S : l - lines \in 1 .. n
  BY <1>1
<1>6. \A l \in S : prefill[l - lines] \in Line /\ prefill[l - lines].source = "PREFILL"
  BY <1>5 DEF Prefilled
<1>7. items \in [S -> Line] /\ \A l \in DOMAIN items : items[l].source = "PREFILL"
  BY <1>6
<1>8. items \in ItemMap
  BY <1>4, <1>7, ItemMapOf
<1> QED
  BY <1>2, <1>3, <1>4, <1>7, <1>8

LEMMA TransitionStep ==
  ASSUME InvoiceInv, NEW w \in Editor, NEW i \in 1 .. created,
         NEW target \in InvoiceStatus, TransitionInvoice(w, i, target)
  PROVE  InvoiceInv'
<1> DEFINE request == [NoEditorRequest EXCEPT !.at = "save", !.id = i,
                         !.seen = invoice[i].status, !.new = target]
<1>1. i \in InvoiceId
  BY DEF InvoiceInv, InvoiceTypeOK, InvoiceId
<1>2. invoice[i].status \in InvoiceStatus
  BY <1>1 DEF InvoiceInv, InvoiceTypeOK, InvoiceRow
<1>3. /\ request \in EditorRequest /\ request.id = i
      /\ request.before = NoItems /\ request.after = NoItems
  BY <1>1, <1>2, NoItemsType DEF NoEditorRequest, EditorRequest
<1>4. /\ editor' = [editor EXCEPT ![w] = request] /\ lines' \in 0 .. MaxLines
      /\ UNCHANGED <<invoice, item, created>>
  BY DEF TransitionInvoice, Load, InvoiceInv, InvoiceTypeOK
<1> HIDE DEF request
<1> QED
  BY <1>3, <1>4, NoItemsType, SessionStep

LEMMA FlushStep ==
  ASSUME InvoiceInv, NEW w \in Editor, FlushLine(w)
  PROVE  InvoiceInv'
<1> DEFINE r       == editor[w]
           request == [r EXCEPT !.at = "sum"]
<1>1. r \in EditorRequest /\ r.at = "edit" /\ r.id \in 1 .. created
  BY DEF FlushLine, InvoiceInv, InvoiceTypeOK, HasItsLine
<1>2. /\ request \in EditorRequest /\ request.id = r.id /\ request.at = "sum"
      /\ request.before = r.before /\ request.after = r.after
  BY <1>1 DEF EditorRequest
<1>3. /\ editor' = [editor EXCEPT ![w] = request] /\ lines' \in 0 .. MaxLines
      /\ UNCHANGED <<invoice, item, created>>
  BY DEF FlushLine, InvoiceInv, InvoiceTypeOK
<1>4. /\ DOMAIN r.before \cap DOMAIN r.after \subseteq DOMAIN item[r.id]
      /\ \A v \in Editor \ {w} : Writing(v) =>
            DOMAIN editor[v].before \cap DOMAIN r.before = {}
  BY DEF FlushLine, Writing
<1> HIDE DEF request
<1> QED
  BY <1>1, <1>2, <1>3, <1>4, SessionStep

(* The lines of a request that adds them up, with its edit.                *)
LEMMA EditedLines ==
  ASSUME InvoiceInv, NEW w \in Editor, Writing(w)
  PROVE  /\ editor[w] \in EditorRequest
         /\ editor[w].id \in InvoiceId
         /\ item[editor[w].id] \in ItemMap
         /\ Edited(item[editor[w].id], editor[w]) \in ItemMap
         /\ DOMAIN Edited(item[editor[w].id], editor[w]) =
              (DOMAIN item[editor[w].id]
                 \ (DOMAIN editor[w].before \ DOMAIN editor[w].after))
              \cup DOMAIN editor[w].after
<1> DEFINE r == editor[w]
<1>1. r \in EditorRequest /\ r.id \in 1 .. created
  BY DEF Writing, InvoiceInv, InvoiceTypeOK, HasItsLine
<1>2. r.id \in InvoiceId
  BY <1>1 DEF InvoiceInv, InvoiceTypeOK, InvoiceId
<1>3. item[r.id] \in ItemMap
  BY <1>2 DEF InvoiceInv, InvoiceTypeOK
<1>4. DOMAIN r.before \cap DOMAIN r.after \subseteq DOMAIN item[r.id]
  BY DEF InvoiceInv, HasItsLine
<1> QED
  BY <1>1, <1>2, <1>3, <1>4, EditedType

LEMMA SumStep ==
  ASSUME InvoiceInv, NEW w \in Editor, SumLines(w)
  PROVE  InvoiceInv'
<1> DEFINE r       == editor[w]
           total   == SumOf(Edited(item[r.id], r))
           request == [r EXCEPT !.at = "save", !.total = total]
<1>1. Writing(w) /\ r \in EditorRequest /\ r.id \in 1 .. created
  BY DEF SumLines, Writing, InvoiceInv, InvoiceTypeOK, HasItsLine
<1>2. total \in SumMap
  BY <1>1, EditedLines, SumOfType
<1>3. /\ editor' = [editor EXCEPT ![w] = request] /\ lines' \in 0 .. MaxLines
      /\ UNCHANGED <<invoice, item, created>>
  BY DEF SumLines, InvoiceInv, InvoiceTypeOK
<1> HIDE DEF total
<1>4. /\ request \in EditorRequest /\ request.id = r.id
      /\ request.before = r.before /\ request.after = r.after
  BY <1>1, <1>2 DEF EditorRequest
<1>5. /\ DOMAIN r.before \cap DOMAIN r.after \subseteq DOMAIN item[r.id]
      /\ \A v \in Editor \ {w} : Writing(v) =>
            DOMAIN editor[v].before \cap DOMAIN r.before = {}
  BY <1>1 DEF InvoiceInv, HasItsLine, LinesLocked
<1> HIDE DEF request
<1> QED
  BY <1>1, <1>3, <1>4, <1>5, SessionStep

(* What a request commits, row by row. *)
LEMMA SavedInvoice ==
  ASSUME InvoiceInv, NEW w \in Editor, SaveInvoice(w)
  PROVE  /\ Writing(w)
         /\ invoice' \in [InvoiceId -> InvoiceRow]
         /\ \A i \in InvoiceId :
              /\ invoice'[i].status =
                   IF i = editor[w].id /\ editor[w].new # editor[w].seen
                   THEN editor[w].new ELSE invoice[i].status
              /\ invoice'[i].charge_total =
                   IF i = editor[w].id /\ editor[w].total # editor[w].loaded
                   THEN editor[w].total ELSE invoice[i].charge_total
              /\ item'[i] = IF i = editor[w].id THEN Edited(item[i], editor[w])
                                                ELSE item[i]
<1> DEFINE r      == editor[w]
           status == IF r.new # r.seen THEN r.new ELSE invoice[r.id].status
           total  == IF r.total # r.loaded THEN r.total ELSE invoice[r.id].charge_total
           first  == [invoice EXCEPT ![r.id].status = status]
           both   == [first EXCEPT ![r.id].charge_total = total]
<1>1. Writing(w)
  BY DEF SaveInvoice, Writing
<1>2. r \in EditorRequest /\ r.id \in InvoiceId
  BY <1>1, EditedLines
<1>3. invoice \in [InvoiceId -> InvoiceRow] /\ item \in [InvoiceId -> ItemMap]
  BY DEF InvoiceInv, InvoiceTypeOK
<1>4. status \in InvoiceStatus /\ total \in SumMap
  BY <1>2, <1>3 DEF EditorRequest, InvoiceRow
<1>5. first[r.id].charge_total = invoice[r.id].charge_total
  BY <1>2, <1>3 DEF InvoiceRow
<1>6. invoice' = both
  BY <1>2, <1>5 DEF SaveInvoice
<1>7. \A i \in InvoiceId : item'[i] = IF i = r.id THEN Edited(item[i], r) ELSE item[i]
  BY <1>2, <1>3 DEF SaveInvoice
<1> HIDE DEF status, total
<1>8. /\ first \in [InvoiceId -> InvoiceRow]
      /\ \A i \in InvoiceId :
           /\ first[i].status = IF i = r.id THEN status ELSE invoice[i].status
           /\ first[i].charge_total = invoice[i].charge_total
  BY <1>2, <1>3, <1>4 DEF InvoiceRow
<1> HIDE DEF first
<1>9. /\ both \in [InvoiceId -> InvoiceRow]
      /\ \A i \in InvoiceId :
           /\ both[i].status = first[i].status
           /\ both[i].charge_total = IF i = r.id THEN total ELSE first[i].charge_total
  BY <1>2, <1>4, <1>8 DEF InvoiceRow
<1> HIDE DEF both
<1> QED
  BY <1>1, <1>6, <1>7, <1>8, <1>9 DEF status, total

(* A commit takes away no line that another request changes.               *)
LEMMA SaveInvoiceStep ==
  ASSUME InvoiceInv, NEW w \in Editor, SaveInvoice(w)
  PROVE  InvoiceInv'
<1> DEFINE r == editor[w]
<1>1. /\ Writing(w) /\ r \in EditorRequest /\ r.id \in InvoiceId
      /\ Edited(item[r.id], r) \in ItemMap
      /\ DOMAIN Edited(item[r.id], r) =
           (DOMAIN item[r.id] \ (DOMAIN r.before \ DOMAIN r.after)) \cup DOMAIN r.after
  BY SavedInvoice, EditedLines
<1>2. /\ editor' = [editor EXCEPT ![w] = NoEditorRequest]
      /\ UNCHANGED <<created, lines>>
      /\ item' = [item EXCEPT ![r.id] = Edited(item[r.id], r)]
  BY DEF SaveInvoice
<1>3. InvoiceTypeOK'
  <2>1. invoice' \in [InvoiceId -> InvoiceRow]
    BY SavedInvoice
  <2>2. item' \in [InvoiceId -> ItemMap]
    BY <1>1, <1>2 DEF InvoiceInv, InvoiceTypeOK
  <2>3. editor' \in [Editor -> EditorRequest]
    BY <1>2, NoEditorRequestType DEF InvoiceInv, InvoiceTypeOK
  <2> QED
    BY <1>2, <2>1, <2>2, <2>3 DEF InvoiceInv, InvoiceTypeOK
<1>4. /\ ~Writing(w)' /\ editor'[w].at = "idle"
      /\ \A v \in Editor \ {w} : editor'[v] = editor[v] /\ Writing(v)' = Writing(v)
  BY <1>2, NoEditorRequestType DEF Writing, InvoiceInv, InvoiceTypeOK
<1>5. LinesLocked'
  <2> SUFFICES ASSUME NEW u \in Editor, NEW v \in Editor, u # v,
                      Writing(u)', Writing(v)'
               PROVE  DOMAIN editor'[u].before \cap DOMAIN editor'[v].before = {}
    BY DEF LinesLocked
  <2>1. u \in Editor \ {w} /\ v \in Editor \ {w}
    BY <1>4
  <2>2. /\ Writing(u) /\ editor'[u] = editor[u]
        /\ Writing(v) /\ editor'[v] = editor[v]
    BY <1>4, <2>1
  <2> QED
    BY <2>2 DEF InvoiceInv, LinesLocked
<1>6. UncreatedIsDraft'
  <2>1. r.id \in 1 .. created /\ created \in Nat
    BY <1>1 DEF InvoiceInv, InvoiceTypeOK, HasItsLine, Writing
  <2>2. \A i \in InvoiceId : i > created => i # r.id
    BY <2>1 DEF InvoiceId
  <2> QED
    BY <1>2, <2>2, SavedInvoice DEF InvoiceInv, UncreatedIsDraft
<1>7. ASSUME NEW v \in Editor PROVE HasItsLine(v)'
  <2>1. CASE v = w
    BY <1>4, <2>1 DEF HasItsLine
  <2>2. CASE v # w
    <3> DEFINE s == editor[v]
    <3>1. editor'[v] = s /\ HasItsLine(v) /\ Writing(v)' = Writing(v)
      BY <1>4, <2>2 DEF InvoiceInv
    <3>2. ASSUME Writing(v)
          PROVE  DOMAIN s.before \cap DOMAIN s.after \subseteq DOMAIN item'[s.id]
      <4>1. DOMAIN s.before \cap DOMAIN s.after \subseteq DOMAIN item[s.id]
        BY <3>1, <3>2 DEF HasItsLine
      <4>2. s.id \in InvoiceId
        BY <3>2, EditedLines
      <4>3. CASE s.id = r.id
        <5>1. DOMAIN s.before \cap DOMAIN r.before = {}
          BY <1>1, <2>2, <3>2 DEF InvoiceInv, LinesLocked
        <5>2. item'[s.id] = Edited(item[r.id], r)
          BY <1>1, <1>2, <4>3 DEF InvoiceInv, InvoiceTypeOK
        <5> QED
          BY <1>1, <4>1, <4>3, <5>1, <5>2
      <4>4. CASE s.id # r.id
        <5>1. item'[s.id] = item[s.id]
          BY <1>2, <4>2, <4>4 DEF InvoiceInv, InvoiceTypeOK
        <5> QED
          BY <4>1, <5>1
      <4> QED
        BY <4>3, <4>4
    <3> QED
      BY <1>2, <3>1, <3>2 DEF HasItsLine
  <2> QED
    BY <2>1, <2>2
<1> QED
  BY <1>3, <1>5, <1>6, <1>7 DEF InvoiceInv

(* A new invoice, which no request has loaded. *)
LEMMA CreateStep ==
  ASSUME InvoiceInv, NEW w \in Editor, NEW n \in 0 .. MaxLines,
         NEW prefill \in [1 .. n -> Prefilled],
         CreateInvoice(w, prefill)
  PROVE  InvoiceInv'
<1> DEFINE i     == created + 1
           items == [l \in lines + 1 .. lines + Cardinality(DOMAIN prefill) |->
                       prefill[l - lines]]
           row   == [is_active |-> TRUE, status |-> "DRAFT",
                     charge_total |-> SumOf(items)]
<1>1. i \in InvoiceId /\ created \in Nat /\ created' = i
  BY DEF CreateInvoice, InvoiceInv, InvoiceTypeOK, InvoiceId
<1>2. items \in ItemMap /\ lines' \in 0 .. MaxLines
  BY PrefillType DEF CreateInvoice, InvoiceInv
<1>3. /\ item' = [item EXCEPT ![i] = items] /\ invoice' = [invoice EXCEPT ![i] = row]
      /\ UNCHANGED editor
  BY DEF CreateInvoice
<1> HIDE DEF items
<1>4. row \in InvoiceRow /\ row.status = "DRAFT"
  BY <1>2, SumOfType DEF InvoiceRow, InvoiceStatus
<1> HIDE DEF row
<1>5. InvoiceTypeOK'
  BY <1>1, <1>2, <1>3, <1>4 DEF InvoiceInv, InvoiceTypeOK, InvoiceId
<1>6. LinesLocked'
  BY <1>3 DEF InvoiceInv, LinesLocked, Writing
<1>7. UncreatedIsDraft'
  BY <1>1, <1>3, <1>4 DEF InvoiceInv, InvoiceTypeOK, UncreatedIsDraft, InvoiceId
<1>8. ASSUME NEW v \in Editor PROVE HasItsLine(v)'
  <2>1. HasItsLine(v)
    BY DEF InvoiceInv
  <2>2. editor[v].at # "idle" =>
           editor[v].id \in 1 .. i /\ item'[editor[v].id] = item[editor[v].id]
    <3> SUFFICES ASSUME editor[v].at # "idle"
                 PROVE  /\ editor[v].id \in 1 .. i
                        /\ item'[editor[v].id] = item[editor[v].id]
      OBVIOUS
    <3>1. editor[v].id \in 1 .. created
      BY <2>1 DEF HasItsLine
    <3>2. editor[v].id \in InvoiceId /\ editor[v].id # i /\ editor[v].id \in 1 .. i
      BY <1>1, <3>1 DEF InvoiceId
    <3> QED
      BY <1>3, <3>2 DEF InvoiceInv, InvoiceTypeOK
  <2> QED
    BY <1>1, <1>3, <2>1, <2>2 DEF HasItsLine, Writing
<1> QED
  BY <1>5, <1>6, <1>7, <1>8 DEF InvoiceInv

LEMMA InvoiceInvStep ==
  ASSUME InvoiceInv, InvoiceNext
  PROVE  InvoiceInv'
<1>1. ASSUME NEW w \in Editor, NEW i \in 1 .. created, NEW l \in LineId,
             NEW q \in Qty, NEW u \in Unit, UpdateLine(w, i, l, q, u)
      PROVE  InvoiceInv'
  <2> DEFINE before == [k \in {l} |-> item[i][l]]
             after  == [k \in {l} |-> Priced(item[i][l], q, u)]
  <2>1. before \in ItemMap /\ after \in ItemMap
    BY <1>1, LoadedLine DEF UpdateLine
  <2>2. /\ LoadDraft(w, i, [Edit(i, before, after) EXCEPT !.at = "edit"])
        /\ UNCHANGED <<invoice, item, created, lines>>
    BY <1>1 DEF UpdateLine
  <2> HIDE DEF before, after
  <2> QED
    BY <2>1, <2>2, LoadLineStep
<1>2. ASSUME NEW w \in Editor, NEW i \in 1 .. created, NEW l \in LineId,
             DeleteLine(w, i, l)
      PROVE  InvoiceInv'
  <2> DEFINE before == [k \in {l} |-> item[i][l]]
  <2>1. before \in [{l} -> Line]
    <3>1. i \in InvoiceId
      BY DEF InvoiceInv, InvoiceTypeOK, InvoiceId
    <3>2. item[i] \in ItemMap /\ l \in DOMAIN item[i]
      BY <1>2, <3>1 DEF DeleteLine, InvoiceInv, InvoiceTypeOK
    <3>3. item[i][l] \in Line
      BY <3>2, ItemMapIs
    <3> QED
      BY <3>3
  <2>2. before \in ItemMap
    BY <2>1, ItemMapOf
  <2>3. /\ LoadDraft(w, i, [Edit(i, before, NoItems) EXCEPT !.at = "edit"])
        /\ UNCHANGED <<invoice, item, created, lines>>
    BY <1>2 DEF DeleteLine
  <2> HIDE DEF before
  <2> QED
    BY <2>2, <2>3, NoItemsType, LoadLineStep
<1>3. ASSUME NEW w \in Editor, NEW i \in 1 .. created, DeleteInvoice(w, i)
      PROVE  InvoiceInv'
  <2>1. i \in InvoiceId
    BY DEF InvoiceInv, InvoiceTypeOK, InvoiceId
  <2>2. /\ invoice' = [invoice EXCEPT ![i].is_active = FALSE]
        /\ UNCHANGED <<item, created, lines, editor>>
    BY <1>3 DEF DeleteInvoice
  <2>3. /\ invoice' \in [InvoiceId -> InvoiceRow]
        /\ \A k \in InvoiceId : invoice'[k].status = invoice[k].status
    BY <2>1, <2>2 DEF InvoiceInv, InvoiceTypeOK, InvoiceRow
  <2> QED
    BY <2>2, <2>3 DEF InvoiceInv, InvoiceTypeOK, LinesLocked, UncreatedIsDraft,
                      HasItsLine, Writing
<1>4. ASSUME NEW w \in Editor, FailInvoice(w)
      PROVE  InvoiceInv'
  BY <1>4, IdleEditor DEF FailInvoice
<1> QED
  BY <1>1, <1>2, <1>3, <1>4, CreateStep, AddLineStep, TransitionStep, FlushStep,
     SumStep, SaveInvoiceStep DEF InvoiceNext

LEMMA InitInvoiceInv == InvoiceInit => InvoiceInv
<1> SUFFICES ASSUME InvoiceInit PROVE InvoiceInv
  OBVIOUS
<1>1. InvoiceTypeOK
  BY NoItemsType, NoEditorRequestType
     DEF InvoiceInit, InvoiceTypeOK, InvoiceRow, InvoiceStatus
<1>2. LinesLocked /\ UncreatedIsDraft /\ \A w \in Editor : HasItsLine(w)
  BY NoEditorRequestType
     DEF InvoiceInit, LinesLocked, UncreatedIsDraft, HasItsLine, Writing
<1> QED
  BY <1>1, <1>2 DEF InvoiceInv

LEMMA InvoiceInvStutter ==
  ASSUME InvoiceInv, UNCHANGED invoiceVars
  PROVE  InvoiceInv'
BY DEF invoiceVars, InvoiceInv, InvoiceTypeOK, LinesLocked, UncreatedIsDraft,
       HasItsLine, Writing

(* However many requests overlap, the tables of the invoices and the       *)
(* sessions of their requests stay well formed: no edit is committed for a *)
(* line that is gone, and every sum is one of amounts (update_line,        *)
(* delete_line, update_charge_total).                                      *)
THEOREM InvoiceTypeCorrect == Spec => []InvoiceTypeOK
<1>1. Init => InvoiceInv
  BY InitInvoiceInv DEF Init
<1>2. InvoiceInv /\ [Next]_vars => InvoiceInv'
  BY InvoiceInvStep, InvoiceInvStutter DEF Next, vars
<1>3. InvoiceInv => InvoiceTypeOK
  BY DEF InvoiceInv
<1> QED
  BY <1>1, <1>2, <1>3, PTL DEF Spec

-----------------------------------------------------------------------------
(* Invoice requests one at a time *)

OneEditor == \A v, w \in Editor : v = w

Multiplied(row) == row.amount = <<Charged(row.quantity), row.unit_amount>>

(* What the only session holds is still so when it writes: the line and    *)
(* the charge_total it loaded, the status it looked at, and the sum of the *)
(* lines as they will be.  A transition edits nothing.                     *)
Holds(w) ==
  LET r == editor[w] IN
  /\ r.at # "idle" =>
       /\ \A l \in DOMAIN r.before : l \in DOMAIN item[r.id]
                                     /\ r.before[l] = item[r.id][l]
       /\ \A l \in DOMAIN r.after : Multiplied(r.after[l])
  /\ r.at \in {"edit", "sum"} =>
       /\ invoice[r.id].status = "DRAFT"
       /\ r.loaded = invoice[r.id].charge_total
  /\ r.at = "save" =>
       \/ r.before = NoItems /\ r.after = NoItems /\ r.total = r.loaded
       \/ /\ invoice[r.id].status = "DRAFT"
          /\ r.loaded = invoice[r.id].charge_total
          /\ r.total = SumOf(Edited(item[r.id], r))

InvoiceAlone ==
  /\ InvoiceInv
  /\ InvoiceTotalAgrees
  /\ \A w \in Editor : Holds(w)

(* A step that writes no row and leaves a session that holds what is so.   *)
LEMMA HoldsStep ==
  ASSUME OneEditor, InvoiceAlone, InvoiceInv', NEW w \in Editor, Holds(w)',
         UNCHANGED <<invoice, item>>
  PROVE  InvoiceAlone'
<1>1. InvoiceTotalAgrees'
  BY DEF InvoiceAlone, InvoiceTotalAgrees
<1>2. \A v \in Editor : Holds(v)'
  BY DEF OneEditor
<1> QED
  BY <1>1, <1>2 DEF InvoiceAlone

LEMMA IdleHolds ==
  ASSUME InvoiceTypeOK, NEW w \in Editor,
         editor' = [editor EXCEPT ![w] = NoEditorRequest]
  PROVE  Holds(w)'
<1>1. editor'[w].at = "idle"
  BY NoEditorRequestType DEF InvoiceTypeOK
<1> QED
  BY <1>1 DEF Holds

(* An edit of lines as they are puts the lines it leaves in their place,   *)
(* and touches no other.                                                   *)
LEMMA EditedIs ==
  ASSUME NEW items \in ItemMap, NEW r \in EditorRequest,
         \A l \in DOMAIN r.before : l \in DOMAIN items /\ r.before[l] = items[l],
         NEW l \in DOMAIN Edited(items, r)
  PROVE  /\ l \in DOMAIN items \/ l \in DOMAIN r.after
         /\ Edited(items, r)[l] =
              IF l \in DOMAIN r.after THEN r.after[l] ELSE items[l]
<1>1. r.after \in [DOMAIN r.after -> Line]
  BY ItemMapIs DEF EditorRequest
<1>2. l \in DOMAIN items \/ l \in DOMAIN r.after
  BY DEF Edited
<1>3. CASE l \notin DOMAIN r.after
  BY <1>2, <1>3 DEF Edited
<1>4. CASE l \in DOMAIN r.after /\ l \notin DOMAIN r.before
  BY <1>4 DEF Edited
<1>5. CASE l \in DOMAIN r.after /\ l \in DOMAIN r.before
  <2> DEFINE new == r.after[l]
             row == [col \in DOMAIN new |-> Column(items[l], r.before[l], new, col)]
  <2>1. Edited(items, r)[l] = row
    BY <1>5 DEF Edited
  <2>2. r.before[l] = items[l] /\ new \in Line
    BY <1>1, <1>5
  <2>3. \A col \in DOMAIN new : Column(items[l], r.before[l], new, col) = new[col]
    BY <2>2 DEF Column
  <2>4. row = [col \in DOMAIN new |-> new[col]]
    BY <2>3
  <2>5. new = [col \in DOMAIN new |-> new[col]]
    BY <2>2 DEF Line
  <2> QED
    BY <1>2, <1>5, <2>1, <2>4, <2>5
<1> QED
  BY <1>2, <1>3, <1>4, <1>5

LEMMA EditedNothing ==
  ASSUME NEW items \in ItemMap, NEW r,
         r.before = NoItems, r.after = NoItems
  PROVE  Edited(items, r) = items
<1>1. items \in [DOMAIN items -> Line]
  BY ItemMapIs
<1>2. DOMAIN Edited(items, r) = DOMAIN items
  BY NoItemsType DEF Edited
<1>3. \A l \in DOMAIN items : Edited(items, r)[l] = items[l]
  BY NoItemsType DEF Edited
<1>4. Edited(items, r) = [l \in DOMAIN items |-> Edited(items, r)[l]]
  BY <1>2 DEF Edited
<1> QED
  BY <1>1, <1>3, <1>4

LEMMA SameEdit ==
  ASSUME NEW items, NEW r, NEW s, r.before = s.before, r.after = s.after
  PROVE  Edited(items, r) = Edited(items, s)
BY DEF Edited

(* A request as loaded, which edits a line of a DRAFT invoice.             *)
LEMMA LoadedHolds ==
  ASSUME InvoiceAlone, NEW w \in Editor, NEW i \in 1 .. created,
         NEW before \in ItemMap, NEW after \in ItemMap, NEW at \in {"edit", "sum"},
         LoadDraft(w, i, EditRequest(i, before, after, at)),
         UNCHANGED <<invoice, item>>,
         \A l \in DOMAIN before : l \in DOMAIN item[i] /\ before[l] = item[i][l],
         \A l \in DOMAIN after : Multiplied(after[l])
  PROVE  Holds(w)'
<1> DEFINE request == EditRequest(i, before, after, at)
<1>1. /\ request.at = at /\ request.id = i
      /\ request.before = before /\ request.after = after
      /\ request.loaded = invoice[i].charge_total
  BY EditType DEF InvoiceAlone
<1>2. editor'[w] = request
  BY DEF LoadDraft, Load, InvoiceAlone, InvoiceInv, InvoiceTypeOK
<1>3. invoice[i].status = "DRAFT"
  BY DEF LoadDraft
<1> HIDE DEF request
<1> QED
  BY <1>1, <1>2, <1>3 DEF Holds

(* What the only request commits: the lines it added up, or none.          *)
LEMMA SaveInvoiceAlone ==
  ASSUME InvoiceAlone, NEW w \in Editor, SaveInvoice(w)
  PROVE  /\ InvoiceTotalAgrees'
         /\ LinesFrozen
<1> DEFINE r == editor[w]
<1>1. /\ Writing(w) /\ r.at = "save" /\ Holds(w)
      /\ r \in EditorRequest /\ r.id \in InvoiceId /\ item[r.id] \in ItemMap
  BY SavedInvoice, EditedLines DEF SaveInvoice, InvoiceAlone
<1>2. ASSUME NEW i \in InvoiceId, i # r.id
      PROVE  invoice'[i].charge_total = invoice[i].charge_total /\ item'[i] = item[i]
  BY <1>2, SavedInvoice DEF InvoiceAlone
<1>3. /\ invoice'[r.id].charge_total =
           IF r.total # r.loaded THEN r.total ELSE invoice[r.id].charge_total
      /\ item'[r.id] = Edited(item[r.id], r)
  BY <1>1, SavedInvoice DEF InvoiceAlone
<1>4. CASE r.before = NoItems /\ r.after = NoItems /\ r.total = r.loaded
  <2>1. \A i \in InvoiceId : invoice'[i].charge_total = invoice[i].charge_total
                             /\ item'[i] = item[i]
    BY <1>1, <1>2, <1>3, <1>4, EditedNothing
  <2> QED
    BY <2>1 DEF InvoiceAlone, InvoiceTotalAgrees, LinesFrozen
<1>5. CASE /\ invoice[r.id].status = "DRAFT"
           /\ r.loaded = invoice[r.id].charge_total
           /\ r.total = SumOf(Edited(item[r.id], r))
  <2>1. invoice'[r.id].charge_total = SumOf(item'[r.id])
    BY <1>3, <1>5
  <2>2. ASSUME NEW l \in DOMAIN item'[r.id], item'[r.id][l].source = "MANUAL"
        PROVE  Multiplied(item'[r.id][l])
    <3>1. /\ \A k \in DOMAIN r.before : k \in DOMAIN item[r.id]
                                        /\ r.before[k] = item[r.id][k]
          /\ \A k \in DOMAIN r.after : Multiplied(r.after[k])
      BY <1>1 DEF Holds
    <3>2. l \in DOMAIN Edited(item[r.id], r)
      BY <1>3
    <3>3. /\ l \in DOMAIN item[r.id] \/ l \in DOMAIN r.after
          /\ item'[r.id][l] = IF l \in DOMAIN r.after THEN r.after[l] ELSE item[r.id][l]
      BY <1>1, <1>3, <3>1, <3>2, EditedIs
    <3>4. CASE l \in DOMAIN r.after
      BY <3>1, <3>3, <3>4
    <3>5. CASE l \notin DOMAIN r.after
      <4>1. item[r.id][l].source = "MANUAL" /\ l \in DOMAIN item[r.id]
        BY <2>2, <3>3, <3>5
      <4> QED
        BY <1>1, <3>3, <3>5, <4>1 DEF InvoiceAlone, InvoiceTotalAgrees, Multiplied
    <3> QED
      BY <3>4, <3>5
  <2>3. InvoiceTotalAgrees'
    BY <1>2, <2>1, <2>2 DEF InvoiceAlone, InvoiceTotalAgrees, Multiplied
  <2>4. LinesFrozen
    BY <1>2, <1>5 DEF LinesFrozen
  <2> QED
    BY <2>3, <2>4
<1> QED
  BY <1>1, <1>4, <1>5 DEF Holds

LEMMA CreateAlone ==
  ASSUME InvoiceAlone, NEW w \in Editor, NEW n \in 0 .. MaxLines,
         NEW prefill \in [1 .. n -> Prefilled],
         CreateInvoice(w, prefill)
  PROVE  InvoiceTotalAgrees' /\ LinesFrozen
<1> DEFINE i     == created + 1
           items == [l \in lines + 1 .. lines + Cardinality(DOMAIN prefill) |->
                       prefill[l - lines]]
<1>1. i \in InvoiceId /\ i > created
  BY DEF CreateInvoice, InvoiceAlone, InvoiceInv, InvoiceTypeOK, InvoiceId
<1>2. \A l \in DOMAIN items : items[l].source = "PREFILL"
  BY PrefillType DEF CreateInvoice, InvoiceAlone, InvoiceInv
<1>3. /\ item' = [item EXCEPT ![i] = items]
      /\ invoice' = [invoice EXCEPT
           ![i] = [is_active |-> TRUE, status |-> "DRAFT", charge_total |-> SumOf(items)]]
  BY DEF CreateInvoice
<1> HIDE DEF items
<1>4. /\ item'[i] = items /\ invoice'[i].charge_total = SumOf(items)
      /\ \A k \in InvoiceId \ {i} : item'[k] = item[k] /\ invoice'[k] = invoice[k]
  BY <1>1, <1>3 DEF InvoiceAlone, InvoiceInv, InvoiceTypeOK
<1>5. InvoiceTotalAgrees'
  BY <1>2, <1>4 DEF InvoiceAlone, InvoiceTotalAgrees
<1>6. invoice[i].status = "DRAFT"
  BY <1>1 DEF InvoiceAlone, InvoiceInv, UncreatedIsDraft
<1>7. LinesFrozen
  BY <1>4, <1>6 DEF LinesFrozen
<1> QED
  BY <1>5, <1>7

LEMMA InvoiceAloneStep ==
  ASSUME OneEditor, InvoiceAlone, InvoiceNext
  PROVE  InvoiceAlone' /\ LinesFrozen
<1>i. InvoiceInv'
  BY InvoiceInvStep DEF InvoiceAlone
<1>u. UNCHANGED <<invoice, item>> => LinesFrozen
  BY DEF LinesFrozen
<1>1. ASSUME NEW w \in Editor, NEW n \in 0 .. MaxLines,
             NEW prefill \in [1 .. n -> Prefilled],
             CreateInvoice(w, prefill)
      PROVE  InvoiceAlone' /\ LinesFrozen
  <2>1. editor[w].at = "idle" /\ UNCHANGED editor
    BY <1>1 DEF CreateInvoice
  <2>2. \A v \in Editor : Holds(v)'
    BY <2>1 DEF OneEditor, Holds
  <2> QED
    BY <1>1, <1>i, <2>2, CreateAlone DEF InvoiceAlone
<1>2. ASSUME NEW w \in Editor, NEW i \in 1 .. created, NEW q \in Qty, NEW u \in Unit,
             AddLine(w, i, q, u)
      PROVE  InvoiceAlone' /\ LinesFrozen
  <2> DEFINE after == [l \in {lines + 1} |-> NewLine(q, u)]
  <2>1. lines + 1 \in LineId
    BY <1>2 DEF AddLine, InvoiceAlone, InvoiceInv, InvoiceTypeOK, LineId
  <2>2. NewLine(q, u) \in Line /\ Multiplied(NewLine(q, u))
    BY ChargedType DEF NewLine, Line, Multiplied
  <2>3. after \in [{lines + 1} -> Line] /\ \A l \in DOMAIN after : Multiplied(after[l])
    BY <2>2
  <2>4. after \in ItemMap
    BY <2>1, <2>3, ItemMapOf
  <2>5. /\ LoadDraft(w, i, EditRequest(i, NoItems, after, "sum"))
        /\ UNCHANGED <<invoice, item>>
    BY <1>2 DEF AddLine, EditRequest
  <2> HIDE DEF after
  <2>6. Holds(w)'
    BY <2>3, <2>4, <2>5, NoItemsType, LoadedHolds
  <2> QED
    BY <1>i, <1>u, <2>5, <2>6, HoldsStep
<1>3. ASSUME NEW w \in Editor, NEW i \in 1 .. created, NEW l \in LineId,
             NEW q \in Qty, NEW u \in Unit, UpdateLine(w, i, l, q, u)
      PROVE  InvoiceAlone' /\ LinesFrozen
  <2> DEFINE before == [k \in {l} |-> item[i][l]]
             after  == [k \in {l} |-> Priced(item[i][l], q, u)]
  <2>1. /\ before \in ItemMap /\ after \in ItemMap /\ l \in DOMAIN item[i]
        /\ Multiplied(Priced(item[i][l], q, u))
    BY <1>3, LoadedLine DEF UpdateLine, InvoiceAlone, Multiplied
  <2>2. /\ LoadDraft(w, i, EditRequest(i, before, after, "edit"))
        /\ UNCHANGED <<invoice, item>>
    BY <1>3 DEF UpdateLine, EditRequest
  <2>3. /\ \A k \in DOMAIN before : k \in DOMAIN item[i] /\ before[k] = item[i][k]
        /\ \A k \in DOMAIN after : Multiplied(after[k])
    BY <2>1
  <2> HIDE DEF before, after
  <2>4. Holds(w)'
    BY <2>1, <2>2, <2>3, LoadedHolds
  <2> QED
    BY <1>i, <1>u, <2>2, <2>4, HoldsStep
<1>4. ASSUME NEW w \in Editor, NEW i \in 1 .. created, NEW l \in LineId,
             DeleteLine(w, i, l)
      PROVE  InvoiceAlone' /\ LinesFrozen
  <2> DEFINE before == [k \in {l} |-> item[i][l]]
  <2>1. i \in InvoiceId
    BY DEF InvoiceAlone, InvoiceInv, InvoiceTypeOK, InvoiceId
  <2>2. item[i] \in ItemMap /\ l \in DOMAIN item[i]
    BY <1>4, <2>1 DEF DeleteLine, InvoiceAlone, InvoiceInv, InvoiceTypeOK
  <2>3. item[i][l] \in Line
    BY <2>2, ItemMapIs
  <2>4. before \in [{l} -> Line]
    BY <2>3
  <2>5. before \in ItemMap
    BY <2>4, ItemMapOf
  <2>6. /\ LoadDraft(w, i, EditRequest(i, before, NoItems, "edit"))
        /\ UNCHANGED <<invoice, item>>
    BY <1>4 DEF DeleteLine, EditRequest
  <2>7. \A k \in DOMAIN before : k \in DOMAIN item[i] /\ before[k] = item[i][k]
    BY <2>2
  <2> HIDE DEF before
  <2>8. Holds(w)'
    BY <2>5, <2>6, <2>7, NoItemsType, LoadedHolds
  <2> QED
    BY <1>i, <1>u, <2>6, <2>8, HoldsStep
<1>5. ASSUME NEW w \in Editor, NEW i \in 1 .. created, NEW target \in InvoiceStatus,
             TransitionInvoice(w, i, target)
      PROVE  InvoiceAlone' /\ LinesFrozen
  <2> DEFINE request == [NoEditorRequest EXCEPT !.at = "save", !.id = i,
                           !.seen = invoice[i].status, !.new = target]
  <2>1. editor'[w] = request /\ UNCHANGED <<invoice, item>>
    BY <1>5 DEF TransitionInvoice, Load, InvoiceAlone, InvoiceInv, InvoiceTypeOK
  <2>2. /\ request.at = "save" /\ request.before = NoItems /\ request.after = NoItems
        /\ request.total = request.loaded
    BY DEF NoEditorRequest
  <2> HIDE DEF request
  <2>3. Holds(w)'
    BY <2>1, <2>2, NoItemsType DEF Holds
  <2> QED
    BY <1>i, <1>u, <2>1, <2>3, HoldsStep
<1>6. ASSUME NEW w \in Editor, NEW i \in 1 .. created, DeleteInvoice(w, i)
      PROVE  InvoiceAlone' /\ LinesFrozen
  <2>1. editor[w].at = "idle" /\ UNCHANGED <<item, editor>>
    BY <1>6 DEF DeleteInvoice
  <2>2. \A k \in InvoiceId : invoice'[k].charge_total = invoice[k].charge_total
    BY <1>6 DEF DeleteInvoice, InvoiceAlone, InvoiceInv, InvoiceTypeOK, InvoiceRow
  <2>3. \A v \in Editor : Holds(v)'
    BY <2>1 DEF OneEditor, Holds
  <2>4. InvoiceTotalAgrees' /\ LinesFrozen
    BY <2>1, <2>2 DEF InvoiceAlone, InvoiceTotalAgrees, LinesFrozen
  <2> QED
    BY <1>i, <2>3, <2>4 DEF InvoiceAlone
<1>7. ASSUME NEW w \in Editor, FlushLine(w)
      PROVE  InvoiceAlone' /\ LinesFrozen
  <2> DEFINE request == [editor[w] EXCEPT !.at = "sum"]
  <2>1. /\ editor[w].at = "edit" /\ Holds(w) /\ editor[w] \in EditorRequest
        /\ editor'[w] = request /\ UNCHANGED <<invoice, item>>
    BY <1>7 DEF FlushLine, InvoiceAlone, InvoiceInv, InvoiceTypeOK
  <2>2. /\ request.at = "sum" /\ request.id = editor[w].id
        /\ request.before = editor[w].before /\ request.after = editor[w].after
        /\ request.loaded = editor[w].loaded
    BY <2>1 DEF EditorRequest
  <2> HIDE DEF request
  <2>3. Holds(w)'
    BY <2>1, <2>2 DEF Holds
  <2> QED
    BY <1>i, <1>u, <2>1, <2>3, HoldsStep
<1>8. ASSUME NEW w \in Editor, SumLines(w)
      PROVE  InvoiceAlone' /\ LinesFrozen
  <2> DEFINE total   == SumOf(Edited(item[editor[w].id], editor[w]))
             request == [editor[w] EXCEPT !.at = "save", !.total = total]
  <2>1. /\ editor[w].at = "sum" /\ Holds(w) /\ editor[w] \in EditorRequest
        /\ editor'[w] = request /\ UNCHANGED <<invoice, item>>
    BY <1>8 DEF SumLines, InvoiceAlone, InvoiceInv, InvoiceTypeOK
  <2> HIDE DEF total
  <2>2. /\ request.at = "save" /\ request.id = editor[w].id
        /\ request.before = editor[w].before /\ request.after = editor[w].after
        /\ request.loaded = editor[w].loaded /\ request.total = total
    BY <2>1 DEF EditorRequest
  <2> HIDE DEF request
  <2>3. total = SumOf(Edited(item[request.id], request))
    BY <2>2, SameEdit DEF total
  <2>4. Holds(w)'
    BY <2>1, <2>2, <2>3 DEF Holds
  <2> QED
    BY <1>i, <1>u, <2>1, <2>4, HoldsStep
<1>9. ASSUME NEW w \in Editor, SaveInvoice(w)
      PROVE  InvoiceAlone' /\ LinesFrozen
  <2>1. \A v \in Editor : Holds(v)'
    BY <1>9, IdleHolds DEF SaveInvoice, InvoiceAlone, InvoiceInv, OneEditor
  <2> QED
    BY <1>9, <1>i, <2>1, SaveInvoiceAlone DEF InvoiceAlone
<1>10. ASSUME NEW w \in Editor, FailInvoice(w)
       PROVE  InvoiceAlone' /\ LinesFrozen
  <2>1. UNCHANGED <<invoice, item>> /\ Holds(w)'
    BY <1>10, IdleHolds DEF FailInvoice, InvoiceAlone, InvoiceInv
  <2> QED
    BY <1>i, <1>u, <2>1, HoldsStep
<1> QED
  BY <1>1, <1>2, <1>3, <1>4, <1>5, <1>6, <1>7, <1>8, <1>9, <1>10 DEF InvoiceNext

LEMMA InitInvoiceAlone == InvoiceInit => InvoiceAlone
<1> SUFFICES ASSUME InvoiceInit PROVE InvoiceAlone
  OBVIOUS
<1>1. SumOf(NoItems) = NoItems
  BY NoItemsType DEF SumOf, NoItems
<1>2. InvoiceTotalAgrees
  BY <1>1, NoItemsType DEF InvoiceInit, InvoiceTotalAgrees
<1>3. \A w \in Editor : Holds(w)
  BY NoEditorRequestType DEF InvoiceInit, Holds
<1> QED
  BY <1>2, <1>3, InitInvoiceInv DEF InvoiceAlone

LEMMA InvoiceAloneStutter ==
  ASSUME InvoiceAlone, UNCHANGED invoiceVars
  PROVE  InvoiceAlone'
<1>1. InvoiceInv'
  BY InvoiceInvStutter DEF InvoiceAlone
<1> QED
  BY <1>1 DEF invoiceVars, InvoiceAlone, InvoiceTotalAgrees, Holds

(* When invoice requests run one at a time, the charge of an invoice is    *)
(* the sum of its lines, and the amount of a manual line the product of    *)
(* its columns, a quantity of zero counting as one (add_line, update_line, *)
(* update_charge_total).                                                   *)
THEOREM LinesAlwaysAdded ==
  ASSUME OneEditor
  PROVE  Spec => []InvoiceTotalAgrees
<1>1. Init => InvoiceAlone
  BY InitInvoiceAlone DEF Init
<1>2. InvoiceAlone /\ [Next]_vars => InvoiceAlone'
  BY InvoiceAloneStep, InvoiceAloneStutter DEF Next, vars
<1>3. InvoiceAlone => InvoiceTotalAgrees
  BY DEF InvoiceAlone
<1> QED
  BY <1>1, <1>2, <1>3, PTL DEF Spec

(* When invoice requests run one at a time, an invoice that left DRAFT     *)
(* keeps its lines and its charge (_assert_draft).                         *)
THEOREM IssuedStaysFrozen ==
  ASSUME OneEditor
  PROVE  Spec => IssuedIsFrozen
<1>1. Init => InvoiceAlone
  BY InitInvoiceAlone DEF Init
<1>2. InvoiceAlone /\ [Next]_vars => InvoiceAlone'
  BY InvoiceAloneStep, InvoiceAloneStutter DEF Next, vars
<1>3. InvoiceAlone /\ [Next]_vars => [LinesFrozen]_invoiceVars
  BY InvoiceAloneStep DEF Next, vars
<1> QED
  BY <1>1, <1>2, <1>3, PTL DEF Spec, IssuedIsFrozen

=============================================================================

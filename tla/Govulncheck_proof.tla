------------------------- MODULE Govulncheck_proof -------------------------
(***************************************************************************)
(* Theorems about one scan, for any set of modules: its report and status  *)
(* are exact, the call graph is used only when it is complete, and the     *)
(* scan does not cancel the build that it waits for.                       *)
(***************************************************************************)
EXTENDS Govulncheck, TLAPS

LEMMA InitInv == Init => ScanInv
BY DEF Init, ScanInv, TypeOK, Steps, Fetching, Building, Reporting, NoSelfCancel,
   ReportExact, Before

\* The steps that lead from one point of the scan to the next.
LEMMA BeforeStep ==
  ASSUME ScanInv, NewClient \/ WriteConfig \/ Load \/ WriteProgress \/ Setup
  PROVE  ScanInv'
<1> USE MessageAssumption DEF ScanInv, NewClient, WriteConfig, Load, WriteProgress,
        Setup, Goto, Before, input, source, build, report
<1>1. TypeOK'
  BY DEF TypeOK
<1>2. Steps'
  BY DEF TypeOK, Steps
<1>3. Fetching'
  BY DEF Fetching
<1>4. Building'
  BY DEF TypeOK, Building, NoSelfCancel
<1>5. Reporting'
  BY DEF TypeOK, Steps, Reporting, ReportExact
<1> QED BY <1>1, <1>2, <1>3, <1>4, <1>5

\* An error ends the scan without a claim about the report.
LEMMA FailStep ==
  ASSUME ScanInv, EarlyFailure \/ FetchFails \/ EmitFails \/ FlushFails
  PROVE  ScanInv'
<1> USE DEF ScanInv, EarlyFailure, FetchFails, EmitFails, FlushFails, Fail,
        LeaveSource, input, build, report
<1>1. TypeOK'
  BY DEF TypeOK
<1>2. Steps'
  BY DEF TypeOK, Steps
<1>3. Fetching'
  BY DEF Fetching
<1>4. Building'
  BY DEF TypeOK, Building, NoSelfCancel, Before
<1>5. Reporting'
  BY DEF TypeOK, Reporting, ReportExact
<1> QED BY <1>1, <1>2, <1>3, <1>4, <1>5

LEMMA FetchStep ==
  ASSUME ScanInv, FetchModule \/ Fetched
  PROVE  ScanInv'
<1> USE DEF ScanInv, FetchModule, Fetched, Goto, input, source, build, report
<1>1. TypeOK'
  BY DEF TypeOK
<1>2. Steps'
  BY DEF TypeOK, Steps
<1>3. Fetching'
  BY DEF TypeOK, Fetching
<1>4. Building'
  BY DEF TypeOK, Building, NoSelfCancel, Before
<1>5. Reporting'
  BY DEF TypeOK, Steps, Reporting, ReportExact
<1> QED BY <1>1, <1>2, <1>3, <1>4, <1>5

\* Source and Binary return what was found, and that is what is called.
LEMMA ResultStep ==
  ASSUME ScanInv, BinaryResult \/ EarlyReturn \/ SourceResult
  PROVE  ScanInv'
<1> USE DEF ScanInv, BinaryResult, EarlyReturn, SourceResult, ReturnResult,
        LeaveSource, input, build
<1>1. TypeOK'
  BY DEF TypeOK
<1>2. Steps'
  BY DEF TypeOK, Steps
<1>3. Fetching'
  BY DEF Fetching
<1>4. Building'
  BY DEF TypeOK, Building, NoSelfCancel, Before
<1>5. imported \cap mv = imported /\ called \cap mv = called
  BY DEF TypeOK, Fetching
<1>6. vulns' = imported /\ affecting' = Affecting
  <2>1. CASE BinaryResult
    BY <1>5, <2>1 DEF Steps, Affecting
  <2>2. CASE EarlyReturn
    BY <1>5, <2>2 DEF Steps, Affecting, TypeOK
  <2>3. CASE SourceResult
    BY <1>5, <2>3 DEF Steps, Affecting
  <2> QED BY <2>1, <2>2, <2>3
<1>7. Reporting'
  BY <1>6 DEF TypeOK, Steps, Reporting, ReportExact, Affecting
<1> QED BY <1>1, <1>2, <1>3, <1>4, <1>7

LEMMA JoinStep ==
  ASSUME ScanInv, Join \/ BuildFailed \/ ConvertNil
  PROVE  ScanInv'
<1> USE DEF ScanInv, Join, BuildFailed, ConvertNil, Goto, LeaveSource, input,
        source, build, report
<1>1. TypeOK'
  BY DEF TypeOK
<1>2. Steps'
  BY DEF TypeOK, Steps
<1>3. Fetching'
  BY DEF Fetching
<1>4. Building'
  BY DEF TypeOK, Building, NoSelfCancel, Before
<1>5. Reporting'
  BY DEF TypeOK, Steps, Reporting, ReportExact
<1> QED BY <1>1, <1>2, <1>3, <1>4, <1>5

LEMMA EmitStep ==
  ASSUME ScanInv, EmitVuln \/ Finish
  PROVE  ScanInv'
<1> USE DEF ScanInv, EmitVuln, Finish, Goto, input, source, build
<1>1. (vulns \cup buffer \cup (out \cap Module) = imported)
      /\ (IF json THEN buffer = {} ELSE out \cap Module = {})
      /\ affecting = Affecting
  BY DEF Reporting
<1>2. vulns \subseteq Module /\ buffer \subseteq Module
  BY <1>1 DEF TypeOK
<1>3. TypeOK'
  BY <1>2 DEF TypeOK
<1>4. Steps'
  BY DEF TypeOK, Steps
<1>5. Fetching'
  BY DEF Fetching
<1>6. Building'
  BY DEF TypeOK, Building, NoSelfCancel, Before
<1>7. Reporting'
  <2>1. CASE EmitVuln
    BY <1>1, <1>2, <2>1 DEF TypeOK, Steps, Reporting, ReportExact, Affecting
  <2>2. CASE Finish
    BY <1>1, <1>2, <2>2 DEF TypeOK, Reporting, ReportExact, Affecting
  <2> QED BY <2>1, <2>2
<1> QED BY <1>3, <1>4, <1>5, <1>6, <1>7

\* The other process, and the caller that cancels.
LEMMA BuilderStep ==
  ASSUME ScanInv, BuildSSA \/ BuildStep \/ Cancel
  PROVE  ScanInv'
<1> USE DEF ScanInv, input, source, build, report
<1>1. ASSUME BuildStep
      PROVE  /\ builder \in {"check1", "check2", "check3"}
             /\ \/ Cancelled /\ buildErr' /\ builder' = "done" /\ cg' = cg
                \/ builder' \in {"check2", "check3"} /\ ~cg' /\ buildErr' = buildErr
                \/ builder' = "done" /\ cg' /\ buildErr' = buildErr
             /\ cg' \in BOOLEAN /\ buildErr' \in BOOLEAN
             /\ UNCHANGED <<input, cancelled, pc, source, result, report, ret>>
  <2>1. PICK s \in {<<"check1", "check2">>, <<"check2", "check3">>, <<"check3", "done">>} :
          /\ builder = s[1]
          /\ IF Cancelled THEN buildErr' = TRUE /\ builder' = "done" /\ UNCHANGED cg
                          ELSE /\ builder' = s[2]
                               /\ cg' = (s[2] = "done")
                               /\ UNCHANGED buildErr
          /\ UNCHANGED <<input, cancelled, pc, source, result, report, ret>>
    BY <1>1 DEF BuildStep
  <2>2. s[1] \in {"check1", "check2", "check3"} /\ s[2] \in {"check2", "check3", "done"}
    OBVIOUS
  <2>3. CASE Cancelled
    BY <2>1, <2>2, <2>3, Zenon DEF TypeOK
  <2>4. CASE ~Cancelled
    <3>1. cg' = (s[2] = "done")
      BY <2>1, <2>4
    <3>2. cg' \in BOOLEAN /\ (cg' <=> s[2] = "done")
      BY <3>1, Zenon
    <3> QED BY <2>1, <2>2, <2>4, <3>2 DEF TypeOK
  <2> QED BY <2>3, <2>4
<1>2. TypeOK'
  <2>1. CASE BuildSSA
    BY <2>1 DEF TypeOK, BuildSSA
  <2>2. CASE BuildStep
    BY <1>1, <2>2 DEF TypeOK
  <2>3. CASE Cancel
    BY <2>3 DEF TypeOK, Cancel
  <2> QED BY <2>1, <2>2, <2>3
<1>3. Steps'
  BY <1>1 DEF TypeOK, Steps, BuildSSA, Cancel
<1>4. Fetching'
  BY <1>1 DEF Fetching, BuildSSA, Cancel
<1>5. Building'
  BY <1>1 DEF TypeOK, Building, NoSelfCancel, Before, BuildSSA, Cancel, Cancelled
<1>6. Reporting'
  BY <1>1 DEF TypeOK, Reporting, ReportExact, Affecting, BuildSSA, Cancel
<1> QED BY <1>2, <1>3, <1>4, <1>5, <1>6

LEMMA StepInv == ScanInv /\ [Next]_vars => ScanInv'
<1> SUFFICES ASSUME ScanInv, [Next]_vars PROVE ScanInv'
  OBVIOUS
<1>1. CASE Scan
  BY <1>1, BeforeStep, FailStep, FetchStep, ResultStep, JoinStep, EmitStep DEF Scan
<1>2. CASE Builder \/ Cancel
  BY <1>2, BuilderStep DEF Builder
<1>3. CASE UNCHANGED vars
  BY <1>3 DEF vars, input, source, build, report, ScanInv, TypeOK, Steps, Fetching,
     Building, NoSelfCancel, Reporting, ReportExact, Affecting
<1> QED BY <1>1, <1>2, <1>3 DEF Next, Terminated

LEMMA ScanInvCorrect == Spec => []ScanInv
BY InitInv, StepInv, PTL DEF Spec

(***************************************************************************)
(* A scan that ends without an error has printed every vulnerability that  *)
(* the program has and no other, and in text mode its status tells whether *)
(* one of them is called: however many modules there are and whatever is   *)
(* cancelled or fails on the way.                                          *)
(***************************************************************************)
THEOREM ReportCorrect == Spec => []ReportExact
<1>1. ScanInv => ReportExact
  BY DEF ScanInv, Reporting
<1> QED BY <1>1, ScanInvCorrect, PTL

(***************************************************************************)
(* The call graph slice starts only from a call graph that is complete, or *)
(* from an error, and never while the builder still writes them.           *)
(***************************************************************************)
THEOREM JoinCorrect == Spec => []BuildJoined
<1>1. ScanInv => BuildJoined
  BY DEF ScanInv, Building, BuildJoined
<1> QED BY <1>1, ScanInvCorrect, PTL

(***************************************************************************)
(* As long as Source needs the build, only the caller can have cancelled   *)
(* it, and only then can the scan crash for want of a result.              *)
(***************************************************************************)
THEOREM CancelCorrect == Spec => []NoSelfCancel
<1>1. ScanInv => NoSelfCancel
  BY DEF ScanInv, Building
<1> QED BY <1>1, ScanInvCorrect, PTL
=============================================================================

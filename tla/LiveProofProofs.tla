--------------------------- MODULE LiveProofProofs ---------------------------
(***************************************************************************)
(* What a run of the live proof and one of the canary leave behind, for    *)
(* any number of mishaps, recoveries and edits; what a download of the     *)
(* evidence pack is of and what a verified pack is, for any inputs of the  *)
(* page.  Both properties of the live proof speak of runs nobody else      *)
(* edits, so most of its inductive invariant does.                         *)
(***************************************************************************)
EXTENDS MCLiveProof, SequenceTheorems, TLAPS

Proven == {"VERIFIED", "restored"}

\* While the execute job runs nothing has been given up or concluded, and the tag is on from
\* the moment its request was answered.
WriteIsSeen ==
  phase = "execute" =>
    /\ wire = {} /\ evidence = "none"
    /\ "plan" \in catalog <=> pc \in {"check", "propose", "upload"}

\* A write that was given up on has not been carried out, and nothing that was
\* concluded since rests on having seen it.
GivenUp ==
  "add" \in wire =>
    /\ "plan" \notin catalog
    /\ "executed" \notin artifacts
    /\ plan \notin Proven
    /\ evidence \notin Proven

\* A job takes the tag off only after it saw it on, and then it stays off.
Removal ==
  /\ pc = "remove" => plan \in Proven
  /\ plan \in Proven => pc = "remove" \/ "plan" \notin catalog
  /\ phase \notin {"rollback", "recover"} => plan = "none"

\* With the execution evidence uploaded, a restored column stays restored.
StaysRestored ==
  /\ phase \in {"rollback", "recover"} /\ pc = "upload" /\ "executed" \in artifacts =>
       "plan" \notin catalog
  /\ evidence \in Proven => "plan" \notin catalog
  /\ phase = "passed" => "executed" \in artifacts /\ "plan" \notin catalog

Undisturbed ==
  /\ "other" \notin catalog
  /\ WriteIsSeen
  /\ GivenUp
  /\ Removal
  /\ StaysRestored

\* The inductive invariant.
IInv == TypeOK /\ (edits = 0 => Undisturbed)

LEMMA InitIInv == Init => IInv
BY BoundsAssumption
DEF Init, IInv, TypeOK, Undisturbed, WriteIsSeen, GivenUp, Removal, StaysRestored,
    Proven, Tags, BeforeState, Jobs, Outcomes

\* Edits are the only steps that count one, so the others of a run nobody else
\* edits start and end in one.
LEMMA TypeStep == TypeOK /\ [Next]_vars => TypeOK'
<1> SUFFICES ASSUME TypeOK, [Next]_vars PROVE TypeOK'
  OBVIOUS
<1> USE BoundsAssumption DEF TypeOK, Tags, Jobs, Outcomes, BeforeState, AfterState, counters
<1>1. CASE ApproveWrite BY <1>1 DEF ApproveWrite, Goto
<1>2. CASE ReadBefore BY <1>2 DEF ReadBefore, Goto, FailJob, NextJob
<1>3. CASE AddTag
  <2>1. CASE phase' = "execute"
    BY <1>3, <2>1 DEF AddTag, Mutate, Effect, Goto, FailJob, NextJob
  <2>2. CASE phase' = "rollback"
    <3> USE <1>3, <2>2 DEF AddTag, Mutate, Effect, Goto, FailJob, NextJob
    <3>1. mishaps < MaxMishaps /\ mishaps' = mishaps + 1 OBVIOUS
    <3>2. mishaps' \in 0..MaxMishaps BY <3>1
    <3>3. catalog' \subseteq Tags /\ wire' \subseteq {"add", "remove"} OBVIOUS
    <3>4. pc' # "remove" /\ files' = {"prepared"} /\ plan' = "none" OBVIOUS
    <3>5. artifacts' = artifacts /\ evidence' = evidence /\ edits' = edits
          /\ recoveries' = recoveries
      OBVIOUS
    <3>6. {"prepared"} \subseteq files' /\ files' \subseteq artifacts' BY <3>4, <3>5
    <3> QED BY <3>2, <3>3, <3>4, <3>5, <3>6
  <2> QED BY <1>3, <2>1, <2>2 DEF AddTag, Mutate, Goto, FailJob, NextJob
<1>4. CASE CheckAfter BY <1>4 DEF CheckAfter, Goto, FailJob, NextJob
<1>5. CASE UploadExecution BY <1>5 DEF UploadExecution, NextJob
<1>6. CASE ApproveRollback
  <2>1. files' \subseteq artifacts' /\ {"prepared"} \subseteq files'
    BY <1>6 DEF ApproveRollback, Goto
  <2>2. mishaps' \in 0..MaxMishaps
    BY <1>6 DEF ApproveRollback, Goto
  <2> QED BY <1>6, <2>1, <2>2 DEF ApproveRollback, Goto
<1>7. CASE ReadCurrent
  BY <1>7 DEF ReadCurrent, Goto, FailJob, NextJob, Reverse, Restore
<1>8. CASE RemoveTag
  <2>1. CASE phase' = phase
    BY <1>8, <2>1 DEF RemoveTag, Mutate, Effect, Goto, FailJob, NextJob
  <2>2. CASE phase' = "failed"
    <3> USE <1>8, <2>2 DEF RemoveTag, Mutate, Effect, Goto, FailJob, NextJob
    <3>1. mishaps < MaxMishaps /\ mishaps' = mishaps + 1 OBVIOUS
    <3>2. mishaps' \in 0..MaxMishaps BY <3>1
    <3>3. catalog' \subseteq Tags /\ wire' \subseteq {"add", "remove"} OBVIOUS
    <3>4. pc' # "remove" /\ files' = {"prepared"} /\ plan' = "none" OBVIOUS
    <3>5. artifacts' = artifacts /\ evidence' = evidence /\ edits' = edits
          /\ recoveries' = recoveries
      OBVIOUS
    <3>6. {"prepared"} \subseteq files' /\ files' \subseteq artifacts' BY <3>4, <3>5
    <3> QED BY <3>2, <3>3, <3>4, <3>5, <3>6
  <2> QED BY <1>8, <2>1, <2>2 DEF RemoveTag, Mutate, Goto, FailJob, NextJob
<1>9. CASE ReadBack BY <1>9 DEF ReadBack, Goto, FailJob, NextJob
<1>10. CASE UploadRestored BY <1>10 DEF UploadRestored, NextJob
<1>11. CASE StartRecovery BY <1>11 DEF StartRecovery, Recoverable
<1>12. CASE Mishap BY <1>12 DEF Mishap, FailJob, NextJob
<1>13. CASE Lands BY <1>13 DEF Lands, Effect
<1>14. CASE Edit BY <1>14 DEF Edit
<1>15. CASE UNCHANGED vars BY <1>15 DEF vars
<1> QED
  BY <1>1, <1>2, <1>3, <1>4, <1>5, <1>6, <1>7, <1>8, <1>9, <1>10, <1>11, <1>12,
     <1>13, <1>14, <1>15 DEF Next, Execute, RollBack

LEMMA UndisturbedStep ==
  TypeOK /\ (edits = 0 => Undisturbed) /\ [Next]_vars => (edits' = 0 => Undisturbed')
<1> SUFFICES ASSUME TypeOK, edits = 0 => Undisturbed, [Next]_vars, edits' = 0
             PROVE Undisturbed'
  OBVIOUS
<1> USE DEF Undisturbed, WriteIsSeen, GivenUp, Removal, StaysRestored, Proven,
            TypeOK, Tags, Jobs, Outcomes, BeforeState, AfterState, counters
<1>1. CASE ApproveWrite BY <1>1 DEF ApproveWrite, Goto
<1>2. CASE ReadBefore BY <1>2 DEF ReadBefore, Goto, FailJob, NextJob
<1>3. CASE AddTag
  <2>1. CASE phase' = "execute"
    BY <1>3, <2>1 DEF AddTag, Mutate, Effect, Goto, FailJob, NextJob
  <2>2. CASE phase' = "rollback"
    <3>1. catalog' = catalog /\ "plan" \notin catalog
      BY <1>3, <2>2 DEF AddTag, Mutate, Goto
    <3>2. pc' = "approval" /\ plan' = "none"
      BY <1>3, <2>2 DEF AddTag, Mutate, Goto, FailJob, NextJob
    <3>3. "executed" \notin artifacts' /\ evidence' = "none"
      BY <1>3 DEF AddTag
    <3>4. "other" \notin catalog
      BY <1>3 DEF AddTag
    <3> QED BY <2>2, <3>1, <3>2, <3>3, <3>4
  <2> QED BY <1>3, <2>1, <2>2 DEF AddTag, Mutate, Goto, FailJob, NextJob
<1>4. CASE CheckAfter BY <1>4 DEF CheckAfter, Goto, FailJob, NextJob
<1>5. CASE UploadExecution BY <1>5 DEF UploadExecution, NextJob
<1>6. CASE ApproveRollback BY <1>6 DEF ApproveRollback, Goto
<1>7. CASE ReadCurrent
  BY <1>7 DEF ReadCurrent, Goto, FailJob, NextJob, Reverse, Restore
<1>8. CASE RemoveTag BY <1>8 DEF RemoveTag, Mutate, Effect, Goto, FailJob, NextJob
<1>9. CASE ReadBack BY <1>9 DEF ReadBack, Goto, FailJob, NextJob
<1>10. CASE UploadRestored BY <1>10 DEF UploadRestored, NextJob
<1>11. CASE StartRecovery BY <1>11 DEF StartRecovery, Recoverable
<1>12. CASE Mishap BY <1>12 DEF Mishap, FailJob, NextJob
<1>13. CASE Lands BY <1>13 DEF Lands, Effect
<1>14. CASE Edit BY <1>14 DEF Edit
<1>15. CASE UNCHANGED vars BY <1>15 DEF vars
<1> QED
  BY <1>1, <1>2, <1>3, <1>4, <1>5, <1>6, <1>7, <1>8, <1>9, <1>10, <1>11, <1>12,
     <1>13, <1>14, <1>15 DEF Next, Execute, RollBack

LEMMA StepIInv == IInv /\ [Next]_vars => IInv'
BY TypeStep, UndisturbedStep DEF IInv

LEMMA Inductive == Spec => []IInv
<1>1. Init => IInv BY InitIInv
<1>2. IInv /\ [Next]_vars => IInv' BY StepIInv
<1> QED BY <1>1, <1>2, PTL DEF Spec

\* The state of a run is always one that its jobs can be in.
THEOREM TypeCorrect == Spec => []TypeOK
<1>1. IInv => TypeOK BY DEF IInv
<1> QED BY <1>1, Inductive, PTL

\* The verdict of the workflow: a run that passed left the column as it was.
THEOREM Passed == Spec => []PassedLeavesBaseline
<1>1. IInv => PassedLeavesBaseline
  BY DEF IInv, PassedLeavesBaseline, Undisturbed, GivenUp, StaysRestored, TypeOK,
         Tags, BeforeState
<1> QED BY <1>1, Inductive, PTL

\* The evidence of a rollback or a recovery that took the tag off is final.
THEOREM Lasting == Spec => []RestoredIsLasting
<1>1. IInv => RestoredIsLasting
  BY DEF IInv, RestoredIsLasting, Undisturbed, GivenUp, StaysRestored, Proven
<1> QED BY <1>1, Inductive, PTL

\* A run that ends well leaves the column as it was for good (the verdict of the
\* workflow, recoverPreparedBaseline).
THEOREM EndsAtBaseline == Spec => []BaselineIsLasting
<1>1. PassedLeavesBaseline /\ RestoredIsLasting => BaselineIsLasting
  BY DEF BaselineIsLasting
<1> QED BY <1>1, Passed, Lasting, PTL

-----------------------------------------------------------------------------
(* The canary, in any number of mishaps, recoveries and edits *)

\* What the parts below need of the types.
CanaryTypes ==
  /\ column \in [Canary!Tenants -> Canary!Columns]
  /\ job \in {"execute", "passed", "failed"} \cup Canary!Recovering
  /\ edits \in Nat

\* A recovery only ever acts on the tenant that was sealed.
OnSealed ==
  /\ target = "sealed"
  /\ pending \subseteq {[does |-> d, of |-> "sealed"] : d \in {"add", "remove"}}

\* When nobody else edits, the tag and the request that adds it exclude each other:
\* the agents proposed it for a column that lacked it, and only once.
OneAddition == edits = 0 /\ "PII" \in Canary!Shown(column["sealed"]) => ~Canary!AddPending

\* Hence a recovery that found the tag knows that nothing will bring it back.
FoundForGood ==
  at \in {"connect", "call", "readback"} =>
    /\ job \in Canary!Recovering
    /\ edits = 0 /\ "PII" \in before => ~Canary!AddPending

\* Evidence is made after the journey, and says when it was.
MadeAfter ==
  recovered # None =>
    /\ job # "execute"
    /\ recovered.asOf \in Nat /\ recovered.asOf <= edits
    /\ recovered.settled => ~Canary!AddPending

\* The inductive invariant.
CanaryIInv ==
  CanaryTypes /\ OnSealed /\ OneAddition /\ FoundForGood /\ MadeAfter /\ Canary!RecoveryIsExact

\* Nothing is approved and no evidence made when the run starts.
LEMMA InitCanaryIInv == Canary!Init => CanaryIInv
BY DEF Canary!Init, CanaryIInv, CanaryTypes, OnSealed, OneAddition, FoundForGood, MadeAfter,
   Canary!RecoveryIsExact, Canary!AddPending, Canary!Shown, Canary!Columns, Canary!Tenants,
   Canary!Recovering

\* The column in its tenant, and the one tag that a request changes.
LEMMA EffectOnSealed ==
  ASSUME CanaryTypes, OnSealed, NEW request \in Canary!Requests, request.of = "sealed"
  PROVE  /\ Canary!Effect(request) \in [Canary!Tenants -> Canary!Columns]
         /\ Canary!Shown(Canary!Effect(request)["sealed"]) \ {"PII"}
              = Canary!Shown(column["sealed"]) \ {"PII"}
         /\ request.does = "remove" /\ "PII" \in Canary!Shown(Canary!Effect(request)["sealed"])
            => "PII" \in Canary!Shown(column["sealed"])
BY DEF CanaryTypes, Canary!Effect, Canary!Shown, Canary!Tenants, Canary!Columns,
   Canary!Requests, Canary!Tags

\* A call that fails or lands late, an edit or another job leaves what evidence rests on.
LEMMA StepCanaryIInv == CanaryIInv /\ [Canary!Next]_(Canary!vars) => CanaryIInv'
<1> SUFFICES ASSUME CanaryIInv, [Canary!Next]_(Canary!vars) PROVE CanaryIInv'
  OBVIOUS
<1> USE DEF CanaryIInv
<1>1. CASE Canary!Approve
  BY <1>1 DEF Canary!Approve, Canary!Goto, CanaryTypes, OnSealed, OneAddition, FoundForGood,
     MadeAfter, Canary!RecoveryIsExact, Canary!AddPending, Canary!Shown, Canary!local,
     Canary!counters
<1>2. CASE Canary!SealProof
  BY <1>2 DEF Canary!SealProof, Canary!NextJob, CanaryTypes, OnSealed, OneAddition,
     FoundForGood, MadeAfter, Canary!RecoveryIsExact, Canary!AddPending, Canary!Shown,
     Canary!local, Canary!counters, Canary!Recovering
<1>3. CASE Canary!Resolve
  BY <1>3 DEF Canary!Resolve, Canary!NextJob, CanaryTypes, OnSealed, OneAddition,
     FoundForGood, MadeAfter, Canary!RecoveryIsExact, Canary!AddPending, Canary!Shown,
     Canary!local, Canary!Recovering
<1>4. CASE Canary!ReadBoundManifest
  BY <1>4 DEF Canary!ReadBoundManifest, Canary!Bound, Canary!Manifest, Canary!FailJob,
     Canary!Goto, Canary!NextJob, CanaryTypes, OnSealed, OneAddition, FoundForGood,
     MadeAfter, Canary!RecoveryIsExact, Canary!AddPending, Canary!Shown, Canary!counters,
     Canary!Recovering
<1>5. CASE Canary!ReadBefore
  BY <1>5 DEF Canary!ReadBefore, Canary!Projection, Canary!Acceptable, Canary!Manifest,
     Canary!FailJob, Canary!Goto, Canary!NextJob, CanaryTypes, OnSealed, OneAddition,
     FoundForGood, MadeAfter, Canary!RecoveryIsExact, Canary!AddPending, Canary!Shown,
     Canary!counters, Canary!Recovering
<1>6. CASE Canary!Connect
  BY <1>6 DEF Canary!Connect, Canary!FailJob, Canary!Goto, Canary!NextJob, CanaryTypes,
     OnSealed, OneAddition, FoundForGood, MadeAfter, Canary!RecoveryIsExact,
     Canary!AddPending, Canary!Shown, Canary!local, Canary!counters, Canary!Recovering
<1>7. CASE Canary!RemoveTag
  <2> DEFINE request == [does |-> "remove", of |-> "sealed"]
  <2>1. /\ job \in Canary!Recovering /\ at = "call" /\ target = "sealed"
        /\ UNCHANGED <<target, before, recovered, edits>>
    BY <1>7 DEF Canary!RemoveTag, Canary!local, OnSealed
  <2>2. CASE column' = Canary!Effect(request) /\ Canary!Goto("readback") /\ UNCHANGED pending
    <3>1. request \in Canary!Requests /\ request.of = "sealed" /\ request.does = "remove"
      BY DEF Canary!Requests, Canary!Tenants
    <3>2. /\ column' \in [Canary!Tenants -> Canary!Columns]
          /\ Canary!Shown(column'["sealed"]) \ {"PII"} = Canary!Shown(column["sealed"]) \ {"PII"}
          /\ "PII" \in Canary!Shown(column'["sealed"]) => "PII" \in Canary!Shown(column["sealed"])
      <4> HIDE DEF request
      <4> QED BY <2>2, <3>1, EffectOnSealed
    <3>3. UNCHANGED <<pending, job>> /\ at' = "readback" /\ Canary!AddPending' = Canary!AddPending
      BY <2>2 DEF Canary!Goto, Canary!AddPending
    <3>4. CanaryTypes' /\ OnSealed'
      BY <2>1, <3>2, <3>3 DEF CanaryTypes, OnSealed
    <3>5. OneAddition' /\ FoundForGood' /\ MadeAfter'
      BY <2>1, <3>2, <3>3 DEF OneAddition, FoundForGood, MadeAfter
    <3>6. Canary!RecoveryIsExact'
      BY <2>1, <3>2, <3>3 DEF Canary!RecoveryIsExact
    <3> QED BY <3>4, <3>5, <3>6
  <2>3. CASE pending' \in {pending, pending \cup {request}} /\ Canary!FailJob /\ UNCHANGED column
    <3>1. job' = "failed" /\ at' = "end"
      BY <2>1, <2>3 DEF Canary!FailJob, Canary!NextJob, Canary!Recovering
    <3>2. Canary!AddPending' = Canary!AddPending
      BY <2>3 DEF Canary!AddPending
    <3>3. CanaryTypes' /\ OnSealed'
      BY <2>1, <2>3, <3>1 DEF CanaryTypes, OnSealed
    <3>4. OneAddition' /\ FoundForGood' /\ MadeAfter'
      BY <2>1, <2>3, <3>1, <3>2 DEF OneAddition, FoundForGood, MadeAfter
    <3>5. Canary!RecoveryIsExact'
      BY <2>1, <2>3, <3>2 DEF Canary!RecoveryIsExact
    <3> QED BY <3>3, <3>4, <3>5
  <2> QED BY <1>7, <2>1, <2>2, <2>3 DEF Canary!RemoveTag
<1>8. CASE Canary!CreateRecoveryEvidence
  <2>1. /\ job \in Canary!Recovering /\ at = "readback"
        /\ UNCHANGED <<column, pending, target, before, edits>>
        /\ Canary!AddPending' = Canary!AddPending
    BY <1>8 DEF Canary!CreateRecoveryEvidence, Canary!local, Canary!counters,
       Canary!AddPending
  <2>2. job' \in {"rollback", "passed", "failed"} /\ at' \in {"start", "end"}
    BY <1>8 DEF Canary!CreateRecoveryEvidence, Canary!FailJob, Canary!NextJob,
       Canary!Recovering
  <2>3. CanaryTypes' /\ OnSealed' /\ OneAddition' /\ FoundForGood'
    BY <2>1, <2>2 DEF CanaryTypes, OnSealed, OneAddition, FoundForGood, Canary!Recovering
  <2>4. CASE UNCHANGED recovered
    <3>1. MadeAfter'
      BY <2>1, <2>2, <2>4 DEF MadeAfter, Canary!Recovering
    <3>2. Canary!RecoveryIsExact'
      BY <2>1, <2>4 DEF Canary!RecoveryIsExact
    <3> QED BY <2>3, <3>1, <3>2
  <2>5. CASE /\ Canary!Projection(target) = before \ {"PII"}
             /\ Canary!Projection(target) # None
             /\ recovered' = [disposition |-> Canary!Disposition,
                              kept |-> Canary!Projection(target),
                             asOf |-> edits, settled |-> ~Canary!AddPending]
    <3>1. /\ recovered'.disposition = Canary!Disposition /\ recovered'.kept = before \ {"PII"}
          /\ recovered'.asOf = edits /\ (recovered'.settled <=> ~Canary!AddPending)
      BY <2>5
    <3>2. Canary!Shown(column["sealed"]) = before \ {"PII"}
      BY <2>5 DEF Canary!Projection, OnSealed
    <3>3. MadeAfter'
      BY <2>1, <2>2, <3>1 DEF MadeAfter, Canary!Recovering, CanaryTypes
    <3>4. Canary!RecoveryIsExact'
      BY <2>1, <3>1, <3>2 DEF Canary!RecoveryIsExact, FoundForGood, Canary!Disposition,
         Canary!Manifest
    <3> QED BY <2>3, <3>3, <3>4
  <2> QED BY <1>8, <2>4, <2>5 DEF Canary!CreateRecoveryEvidence, Canary!Manifest, Canary!Acceptable
<1>9. CASE Canary!Mishap
  BY <1>9 DEF Canary!Mishap, Canary!FailJob, Canary!NextJob, CanaryTypes, OnSealed,
     OneAddition, FoundForGood, MadeAfter, Canary!RecoveryIsExact, Canary!AddPending,
     Canary!Shown, Canary!local, Canary!Recovering
<1>10. CASE Canary!Lands
  BY <1>10, EffectOnSealed DEF Canary!Lands, CanaryTypes, OnSealed, Canary!Requests,
     Canary!Tenants, OneAddition, FoundForGood, MadeAfter, Canary!RecoveryIsExact,
     Canary!AddPending, Canary!local, Canary!counters, Canary!Recovering
<1>11. CASE Canary!Edit
  <2>1. /\ edits \in Nat /\ edits' = edits + 1
        /\ UNCHANGED <<pending, job, at, target, before, recovered>>
    BY <1>11 DEF Canary!Edit, CanaryTypes, Canary!local
  <2>2. column' \in [Canary!Tenants -> Canary!Columns]
    <3>1. CASE \E of \in Canary!Tenants : column' = [column EXCEPT ![of].known = ~@]
      <4>1. PICK of \in Canary!Tenants : column' = [column EXCEPT ![of].known = ~@]
        BY <3>1
      <4>2. column \in [Canary!Tenants -> Canary!Columns] /\ column[of] \in Canary!Columns
        BY DEF CanaryTypes
      <4>3. [column[of] EXCEPT !.known = ~@] \in Canary!Columns
        BY <4>2 DEF Canary!Columns
      <4> QED BY <4>1, <4>2, <4>3
    <3>2. ASSUME NEW of \in Canary!Tenants, NEW t \in Canary!Tags,
                 column' \in {[column EXCEPT ![of].schema = Canary!Toggled(@, t)],
                              [column EXCEPT ![of].editable = Canary!Toggled(@, t)]}
          PROVE  column' \in [Canary!Tenants -> Canary!Columns]
      <4>1. /\ column \in [Canary!Tenants -> Canary!Columns]
            /\ column[of] \in Canary!Columns
        BY DEF CanaryTypes
      <4>2. /\ Canary!Toggled(column[of].schema, t) \subseteq Canary!Tags
            /\ Canary!Toggled(column[of].editable, t) \subseteq Canary!Tags
        BY <4>1 DEF Canary!Columns, Canary!Toggled
      <4>3. CASE column' = [column EXCEPT ![of].schema = Canary!Toggled(@, t)]
        BY <4>1, <4>2, <4>3 DEF Canary!Columns
      <4>4. CASE column' = [column EXCEPT ![of].editable = Canary!Toggled(@, t)]
        BY <4>1, <4>2, <4>4 DEF Canary!Columns
      <4> QED BY <3>2, <4>3, <4>4
    <3> QED BY <1>11, <3>1, <3>2 DEF Canary!Edit
  <2>3. CanaryTypes' /\ OnSealed'
    BY <2>1, <2>2 DEF CanaryTypes, OnSealed
  <2>4. edits' # 0 /\ OneAddition' /\ FoundForGood'
    BY <2>1 DEF OneAddition, FoundForGood, Canary!AddPending, CanaryTypes
  <2>5. MadeAfter'
    BY <2>1 DEF MadeAfter, Canary!AddPending
  <2>6. Canary!RecoveryIsExact'
    BY <2>1, <2>4 DEF MadeAfter, Canary!RecoveryIsExact
  <2> QED BY <2>3, <2>4, <2>5, <2>6
<1>12. CASE Canary!Rebind
  BY <1>12 DEF Canary!Rebind, CanaryTypes, OnSealed, OneAddition, FoundForGood, MadeAfter,
     Canary!RecoveryIsExact, Canary!AddPending, Canary!Shown, Canary!local, Canary!counters
<1>13. CASE UNCHANGED Canary!vars
  BY <1>13 DEF Canary!vars, CanaryTypes, OnSealed, OneAddition, FoundForGood, MadeAfter,
     Canary!RecoveryIsExact, Canary!AddPending, Canary!Shown
<1> QED BY <1>1, <1>2, <1>3, <1>4, <1>5, <1>6, <1>7, <1>8, <1>9, <1>10, <1>11,
         <1>12, <1>13 DEF Canary!Next

\* A recovery's evidence holds what it promises of the sealed column
\* (createRecoveryEvidence), however the calls before it ended: what was restored stays
\* restored, what was already the baseline is it when the approved action was over, and
\* every other tag is as it was found.
THEOREM RecoveryHolds == Canary!Spec => []Canary!RecoveryIsExact
<1>1. Canary!Init => CanaryIInv
  BY InitCanaryIInv
<1>2. CanaryIInv /\ [Canary!Next]_(Canary!vars) => CanaryIInv'
  BY StepCanaryIInv
<1>3. CanaryIInv => Canary!RecoveryIsExact
  BY DEF CanaryIInv
<1> QED BY <1>1, <1>2, <1>3, PTL DEF Canary!Spec

\* The same of the composition that is model-checked: a behaviour of its canary part is one
\* of the canary (CanaryRecovery, createRecoveryEvidence).
THEOREM RecoveryHoldsComposed == MCSpec => []RecoveryIsExact
<1> DEFINE Safe == part = "canary" => CanaryIInv
<1>1. MCInit => Safe
  BY InitCanaryIInv DEF MCInit
<1>2. Safe /\ [MCNext]_allVars => Safe'
  <2> SUFFICES ASSUME Safe, [MCNext]_allVars, part' = "canary" PROVE CanaryIInv'
    OBVIOUS
  <2>1. part = "canary"
    BY DEF MCNext, allVars, ProofStep, CanaryStep, PackStep
  <2>2. [Canary!Next]_(Canary!vars)
    BY <2>1 DEF MCNext, allVars, ProofStep, CanaryStep, PackStep, canaryVars, counters,
       Canary!vars, Canary!Next
  <2> QED BY <2>1, <2>2, StepCanaryIInv
<1>3. Safe => RecoveryIsExact
  BY DEF CanaryIInv, RecoveryIsExact
<1> QED
  <2> HIDE DEF Safe
  <2> QED BY <1>1, <1>2, <1>3, PTL DEF MCSpec

-----------------------------------------------------------------------------
(* The evidence pack, for any inputs of the page *)

JobOf(j) ==
  [op |-> j.op, token |-> j.token, input |-> j.input, pack |-> j.pack, file |-> j.file, at |-> j.at]

\* What the parts below need of the types.
PackTypes ==
  /\ generation \in Nat /\ altered \in Nat
  /\ preparation = [input |-> preparation.input, state |-> preparation.state,
                    pack |-> preparation.pack]
  /\ \A j \in jobs : j = JobOf(j) /\ j.token \in 0 .. generation

\* A pack that is ready and was not altered is the one built from its input.
Prepared ==
  /\ preparation.state # "ready" => altered = 0
  /\ preparation.state = "ready" /\ altered = 0 =>
       preparation.pack = Pack!Build(preparation.input)

\* One preparation has the token that counts, and until it ends nothing is ready.
OneBuild ==
  \A j \in jobs : j.op = "prepare" /\ j.token = generation =>
    /\ preparation.state = "building"
    /\ \A k \in jobs : k.op = "prepare" /\ k.token = generation => k = j

\* A download whose token counts is of the pack that is ready.
OfReady ==
  \A j \in jobs : j.op # "prepare" /\ j.token = generation =>
    preparation = [input |-> j.input, state |-> "ready", pack |-> j.pack]

FilesOf(pack) == {pack.files[i] : i \in DOMAIN pack.files}
Own(pack) == FilesOf(pack) \cup {Pack!ManifestFile(pack)}

\* A file is its pack's, and is about to leave only after that pack was verified.
FilesHold ==
  \A j \in jobs :
    /\ j.op = "prepare" => j.at = "build"
    /\ j.op \notin {"prepare", "manifest"} => j.file \in FilesOf(j.pack)
    /\ j.at = "digest" => Pack!Verified(j.pack) /\ j.file \in Own(j.pack)

\* The inductive invariant.
PackIInv ==
  PackTypes /\ Prepared /\ OneBuild /\ OfReady /\ FilesHold /\ Pack!DownloadIsOfShown

\* Nothing is ready on a page that was just loaded.
LEMMA InitPackIInv == Pack!Init => PackIInv
BY DEF Pack!Init, Pack!Idle, PackIInv, PackTypes, Prepared, OneBuild, OfReady, FilesHold,
   Pack!DownloadIsOfShown

\* A step that starts no job and leaves what is prepared keeps what is known of it.
LEMMA PackKeeps ==
  ASSUME PackIInv, jobs' \subseteq jobs, UNCHANGED <<generation, preparation, altered>>
  PROVE  PackTypes' /\ Prepared' /\ OneBuild' /\ OfReady' /\ FilesHold'
<1>1. PackTypes'
  BY DEF PackIInv, PackTypes, JobOf
<1>2. Prepared' /\ OneBuild' /\ OfReady'
  BY DEF PackIInv, Prepared, OneBuild, OfReady
<1>3. FilesHold'
  BY DEF PackIInv, FilesHold
<1> QED BY <1>1, <1>2, <1>3

\* A new token that counts: the jobs of the old ones no longer do.
LEMMA PackMovesOn ==
  ASSUME PackIInv, jobs' \subseteq jobs, NEW n \in Nat \ {0}, generation' = generation + n,
         altered' = 0, NEW in, NEW state \in {"idle", "error"},
         preparation' = [input |-> in, state |-> state, pack |-> None]
  PROVE  PackTypes' /\ Prepared' /\ OneBuild' /\ OfReady' /\ FilesHold'
<1>1. generation' \in Nat /\ \A j \in jobs' : j.token # generation'
  BY DEF PackIInv, PackTypes
<1>2. PackTypes'
  BY <1>1 DEF PackIInv, PackTypes, JobOf
<1>3. Prepared' /\ OneBuild' /\ OfReady'
  BY <1>1 DEF Prepared, OneBuild, OfReady
<1>4. FilesHold'
  BY DEF PackIInv, FilesHold
<1> QED BY <1>2, <1>3, <1>4

\* A step that clicks nothing lets nothing leave.
LEMMA NothingClicked == clicked' = None => Pack!DownloadIsOfShown'
BY DEF Pack!DownloadIsOfShown

\* A job that ends for nothing.
LEMMA LeavePack ==
  ASSUME PackIInv, NEW j, Pack!Leave(j)
  PROVE  PackIInv'
BY PackKeeps, NothingClicked DEF Pack!Leave, PackIInv

\* A failed download takes the pack off the page.
LEMMA FailPack ==
  ASSUME PackIInv, NEW j, Pack!FailDownload(j)
  PROVE  PackIInv'
<1>1. CASE Pack!InputIsCurrent(j)
  BY <1>1, PackMovesOn, NothingClicked DEF Pack!FailDownload, Pack!Error, PackIInv
<1>2. CASE ~Pack!InputIsCurrent(j)
  BY <1>2, PackKeeps, NothingClicked DEF Pack!FailDownload, PackIInv
<1> QED BY <1>1, <1>2

\* A download is of the pack that is active.
LEMMA StartDownload ==
  ASSUME PackIInv, NEW op, op # "prepare", NEW file,
         op # "manifest" => file \in FilesOf(Pack!Active.pack),
         Pack!Download(op, file)
  PROVE  PackIInv'
<1> DEFINE j == [op |-> op, token |-> generation, input |-> input, pack |-> Pack!Active.pack,
                 file |-> file, at |-> "verify"]
<1>1. /\ jobs' = jobs \cup {j}
      /\ UNCHANGED <<generation, preparation, altered>> /\ clicked' = None
      /\ Pack!Active.state = "ready"
  BY DEF Pack!Download, Pack!Start
<1>2. preparation.input = input /\ preparation.state = "ready" /\ Pack!Active = preparation
  BY <1>1 DEF Pack!Active, Pack!Idle
<1>3. /\ j = JobOf(j) /\ j.token = generation /\ j.op = op /\ j.at = "verify"
      /\ j.input = preparation.input /\ j.pack = preparation.pack /\ j.file = file
  BY <1>2 DEF JobOf
<1> HIDE DEF j
<1>4. PackTypes'
  BY <1>1, <1>3 DEF PackIInv, PackTypes, JobOf
<1>5. Prepared'
  BY <1>1 DEF PackIInv, Prepared
<1>6. OneBuild'
  BY <1>1, <1>2, <1>3 DEF PackIInv, OneBuild
<1>7. OfReady'
  BY <1>1, <1>2, <1>3 DEF PackIInv, OfReady, PackTypes
<1>8. FilesHold'
  BY <1>1, <1>2, <1>3 DEF PackIInv, FilesHold
<1> QED BY <1>1, <1>4, <1>5, <1>6, <1>7, <1>8, NothingClicked DEF PackIInv

\* A preparation is the only one with its token, and what is ready goes.
LEMMA StartPrepare == PackIInv /\ Pack!Prepare => PackIInv'
<1> SUFFICES ASSUME PackIInv, Pack!Prepare PROVE PackIInv'
  OBVIOUS
<1> DEFINE j == [op |-> "prepare", token |-> generation + 1, input |-> input, pack |-> None,
                 file |-> None, at |-> "build"]
<1>1. /\ jobs' = jobs \cup {j} /\ generation' = generation + 1 /\ altered' = 0
      /\ preparation' = [input |-> input, state |-> "building", pack |-> None]
      /\ clicked' = None
  BY DEF Pack!Prepare, Pack!Start
<1>2. /\ j = JobOf(j) /\ j.token = generation + 1 /\ j.op = "prepare"
      /\ j.at = "build"
  BY DEF JobOf
<1> HIDE DEF j
<1>3. generation' \in Nat /\ \A k \in jobs : k.token # generation'
  BY <1>1 DEF PackIInv, PackTypes
<1>4. PackTypes'
  BY <1>1, <1>2, <1>3 DEF PackIInv, PackTypes, JobOf
<1>5. Prepared' /\ OneBuild' /\ OfReady'
  BY <1>1, <1>2, <1>3 DEF Prepared, OneBuild, OfReady
<1>6. FilesHold'
  BY <1>1, <1>2 DEF PackIInv, FilesHold
<1> QED BY <1>1, <1>4, <1>5, <1>6, NothingClicked DEF PackIInv

\* What is ready is the build of the one preparation whose token counts.
LEMMA BuiltPack ==
  ASSUME PackIInv, NEW j \in jobs, NEW pack, Pack!Built(j, pack)
  PROVE  PackIInv'
<1>1. CASE ~Pack!InputIsCurrent(j)
  BY <1>1, LeavePack DEF Pack!Built
<1>2. CASE Pack!InputIsCurrent(j)
  <2>1. /\ j.op = "prepare" /\ j.token = generation
        /\ pack \in {Pack!Build(j.input), None}
        /\ jobs' = jobs \ {j} /\ UNCHANGED <<generation, altered>> /\ clicked' = None
        /\ preparation' = IF pack = None THEN Pack!Error(j.input)
                          ELSE [input |-> j.input, state |-> "ready", pack |-> pack]
    BY <1>2 DEF Pack!Built, Pack!InputIsCurrent
  <2>2. /\ altered = 0
        /\ \A k \in jobs' : k.token # generation
    <3>1. preparation.state = "building"
      BY <2>1 DEF PackIInv, OneBuild
    <3>2. altered = 0
      BY <3>1 DEF PackIInv, Prepared
    <3>3. ASSUME NEW k \in jobs', k.token = generation PROVE FALSE
      <4>1. CASE k.op = "prepare"
        BY <2>1, <3>3, <4>1 DEF PackIInv, OneBuild
      <4>2. CASE k.op # "prepare"
        BY <2>1, <3>1, <3>3, <4>2 DEF PackIInv, OfReady
      <4> QED BY <4>1, <4>2
    <3> QED BY <3>2, <3>3
  <2>3. PackTypes'
    BY <2>1 DEF PackIInv, PackTypes, JobOf, Pack!Error
  <2>4. Prepared'
    BY <2>1, <2>2 DEF Prepared, Pack!Error
  <2>5. OneBuild' /\ OfReady'
    BY <2>1, <2>2 DEF OneBuild, OfReady
  <2>6. FilesHold'
    BY <2>1 DEF PackIInv, FilesHold
  <2> QED BY <2>1, <2>3, <2>4, <2>5, <2>6, NothingClicked DEF PackIInv
<1> QED BY <1>1, <1>2

\* Only a verified pack's download goes on, with a file of that pack.
LEMMA CheckedPack ==
  ASSUME PackIInv, NEW j \in jobs, Pack!Checked(j)
  PROVE  PackIInv'
<1> DEFINE file == IF j.op = "manifest" THEN Pack!ManifestFile(j.pack) ELSE j.file
           next == [j EXCEPT !.at = "digest", !.file = file]
<1>1. CASE Pack!Leave(j)
  BY <1>1, LeavePack
<1>2. CASE Pack!FailDownload(j)
  BY <1>2, FailPack
<1>3. CASE /\ j.at = "verify" /\ Pack!Verified(j.pack)
           /\ jobs' = (jobs \ {j}) \cup {next}
           /\ UNCHANGED <<input, effect, generation, preparation, altered>> /\ clicked' = None
  <2>1. j = JobOf(j) /\ j.token \in 0 .. generation
    BY DEF PackIInv, PackTypes
  <2>2. j.op # "prepare" /\ file \in Own(j.pack)
    BY <1>3 DEF PackIInv, FilesHold, Own
  <2>3. /\ next.op = j.op /\ next.token = j.token /\ next.input = j.input
        /\ next.pack = j.pack /\ next.file = file /\ next.at = "digest"
        /\ next = JobOf(next)
    <3> HIDE DEF file
    <3>1. next = [JobOf(j) EXCEPT !.at = "digest", !.file = file]
      BY <2>1
    <3> HIDE DEF next
    <3>2. next = [op |-> j.op, token |-> j.token, input |-> j.input, pack |-> j.pack,
                  file |-> file, at |-> "digest"]
      BY <3>1 DEF JobOf
    <3> QED BY <3>2 DEF JobOf
  <2>4. next.op \notin {"prepare", "manifest"} => next.file \in FilesOf(next.pack)
    BY <2>2, <2>3 DEF PackIInv, FilesHold
  <2> HIDE DEF file, next
  <2>5. PackTypes'
    BY <1>3, <2>1, <2>3 DEF PackIInv, PackTypes, JobOf
  <2>6. Prepared'
    BY <1>3 DEF PackIInv, Prepared
  <2>7. OneBuild'
    BY <1>3, <2>2, <2>3 DEF PackIInv, OneBuild
  <2>8. OfReady'
    BY <1>3, <2>2, <2>3 DEF PackIInv, OfReady
  <2>9. FilesHold'
    BY <1>3, <2>2, <2>3, <2>4 DEF PackIInv, FilesHold
  <2> QED BY <1>3, <2>5, <2>6, <2>7, <2>8, <2>9, NothingClicked DEF PackIInv
<1> QED BY <1>1, <1>2, <1>3 DEF Pack!Checked

\* What leaves is of the pack that is ready, which is the one of what is shown.
LEMMA ClickedPack ==
  ASSUME PackIInv, NEW j \in jobs, Pack!Clicked(j)
  PROVE  PackIInv'
<1>1. CASE Pack!Leave(j)
  BY <1>1, LeavePack
<1>2. CASE Pack!FailDownload(j)
  BY <1>2, FailPack
<1>3. CASE /\ j.at = "digest" /\ Pack!InputIsCurrent(j)
           /\ clicked' = [file |-> j.file, of |-> input, pack |-> j.pack,
                          altered |-> altered > 0]
           /\ jobs' = jobs \ {j}
           /\ UNCHANGED <<input, effect, generation, preparation, altered>>
  <2>1. Pack!Verified(j.pack) /\ j.file \in Own(j.pack) /\ j.op # "prepare"
    BY <1>3 DEF PackIInv, FilesHold
  <2>2. /\ preparation = [input |-> j.input, state |-> "ready", pack |-> j.pack]
        /\ j.input = input
    BY <1>3, <2>1 DEF PackIInv, OfReady, Pack!InputIsCurrent
  <2>3. ~(altered > 0) => j.pack = Pack!Build(input)
    BY <2>2 DEF PackIInv, PackTypes, Prepared
  <2>4. /\ clicked'.pack = j.pack /\ clicked'.file = j.file /\ clicked'.of = input
        /\ clicked'.altered = (altered > 0)
    BY <1>3
  <2>5. Pack!DownloadIsOfShown'
    BY <2>1, <2>3, <2>4 DEF Pack!DownloadIsOfShown, Own, FilesOf
  <2>6. PackTypes' /\ Prepared' /\ OneBuild' /\ OfReady' /\ FilesHold'
    BY <1>3, PackKeeps
  <2> QED BY <2>5, <2>6 DEF PackIInv
<1> QED BY <1>1, <1>2, <1>3 DEF Pack!Clicked

\* An altered pack is marked, and no download of the original is under way.
LEMMA AlterPack == PackIInv /\ Pack!Alter => PackIInv'
<1> SUFFICES ASSUME PackIInv, Pack!Alter PROVE PackIInv'
  OBVIOUS
<1>1. /\ jobs = {} /\ jobs' = {} /\ altered' = altered + 1
      /\ UNCHANGED generation /\ clicked' = None /\ preparation.state = "ready"
  BY DEF Pack!Alter
<1>2. PICK q : preparation' = [preparation EXCEPT !.pack = q]
  BY DEF Pack!Alter
<1>3. preparation' = [input |-> preparation.input, state |-> "ready", pack |-> q]
  BY <1>1, <1>2 DEF PackIInv, PackTypes
<1>4. PackTypes'
  BY <1>1, <1>3 DEF PackIInv, PackTypes
<1>5. altered' # 0
  BY <1>1 DEF PackIInv, PackTypes
<1>6. Prepared' /\ OneBuild' /\ OfReady' /\ FilesHold'
  BY <1>1, <1>3, <1>5 DEF Prepared, OneBuild, OfReady, FilesHold
<1> QED BY <1>1, <1>4, <1>6, NothingClicked DEF PackIInv

LEMMA StepPackIInv == PackIInv /\ [Pack!Next]_(Pack!vars) => PackIInv'
<1> SUFFICES ASSUME PackIInv, [Pack!Next]_(Pack!vars) PROVE PackIInv'
  OBVIOUS
<1>1. CASE Pack!Render
  BY <1>1, PackKeeps, NothingClicked DEF Pack!Render, PackIInv
<1>2. CASE Pack!Effect
  <2>1. /\ jobs' \subseteq jobs /\ generation' = generation + 2 /\ altered' = 0
        /\ preparation' = [input |-> input, state |-> "idle", pack |-> None]
        /\ clicked' = None
    BY <1>2 DEF Pack!Effect, Pack!Idle
  <2>2. 2 \in Nat \ {0} /\ "idle" \in {"idle", "error"}
    OBVIOUS
  <2>3. PackTypes' /\ Prepared' /\ OneBuild' /\ OfReady' /\ FilesHold'
    BY ONLY <2>1, <2>2, PackIInv, PackMovesOn
  <2> QED BY <2>1, <2>3, NothingClicked DEF PackIInv
<1>3. CASE Pack!Prepare
  BY <1>3, StartPrepare
<1>4. CASE Pack!DownloadManifest
  BY <1>4, StartDownload DEF Pack!DownloadManifest
<1>5. CASE Pack!DownloadFile
  BY <1>5, StartDownload DEF Pack!DownloadFile, FilesOf
<1>6. CASE \E j \in jobs : \E pack \in {Pack!Build(j.input), None} : Pack!Built(j, pack)
  BY <1>6, BuiltPack
<1>7. CASE \E j \in jobs : Pack!Checked(j)
  BY <1>7, CheckedPack
<1>8. CASE \E j \in jobs : Pack!Clicked(j)
  BY <1>8, ClickedPack
<1>9. CASE Pack!Alter
  BY <1>9, AlterPack
<1>10. CASE UNCHANGED Pack!vars
  <2>1. PackTypes' /\ Prepared' /\ OneBuild' /\ OfReady' /\ FilesHold'
    BY <1>10, PackKeeps DEF Pack!vars
  <2>2. Pack!DownloadIsOfShown'
    BY <1>10 DEF Pack!vars, PackIInv, Pack!DownloadIsOfShown
  <2> QED BY <2>1, <2>2 DEF PackIInv
<1> QED BY <1>1, <1>2, <1>3, <1>4, <1>5, <1>6, <1>7, <1>8, <1>9, <1>10 DEF Pack!Next

\* The pack in the composition.
LEMMA ComposedPack ==
  [MCNext]_allVars => part' = part /\ (part = "pack" => [Pack!Next]_(Pack!vars))
BY DEF MCNext, allVars, ProofStep, CanaryStep, PackStep, packVars, Pack!vars, Pack!Next

\* A file that leaves the page is one of a pack that was verified after the click and,
\* unless that pack was altered, of the one built from what the page shows at that moment
\* (EvidencePack, downloadEvidenceFile), whatever the page may show.
THEOREM DownloadsHold == MCSpec => []DownloadIsOfShown
<1> DEFINE Safe == (part = "pack" => PackIInv) /\ (part # "pack" => clicked = None)
<1>1. MCInit => Safe
  BY InitPackIInv DEF MCInit, PackIdle
<1>2. Safe /\ [MCNext]_allVars => Safe'
  <2> SUFFICES ASSUME Safe, [MCNext]_allVars PROVE Safe'
    OBVIOUS
  <2>1. part' = part
    BY ComposedPack
  <2>2. CASE part = "pack"
    BY <2>1, <2>2, ComposedPack, StepPackIInv
  <2>3. CASE part # "pack"
    BY <2>1, <2>3 DEF MCNext, allVars, ProofStep, CanaryStep, PackStep, packVars
  <2> QED BY <2>2, <2>3
<1>3. Safe => DownloadIsOfShown
  BY DEF PackIInv, DownloadIsOfShown, Pack!DownloadIsOfShown
<1> QED
  <2> HIDE DEF Safe
  <2> QED BY <1>1, <1>2, <1>3, PTL DEF MCSpec

-----------------------------------------------------------------------------
(* What its verification says of an evidence pack *)

JsonPath == "audit/report.json"

\* What a pack is put together from: files whose contents are of the form that their
\* path says, and a manifest that lists files.
IsFile(f) ==
  /\ f = [path |-> f.path, bytes |-> f.bytes, sha256 |-> f.sha256, content |-> f.content]
  /\ f.path = JsonPath => f.content = Pack!ReportJson(f.content.report)
  /\ f.path = Pack!TerminalPath => f.content = Pack!TerminalJson(f.content.terminal)
IsListed(l) == l = [path |-> l.path, bytes |-> l.bytes, sha256 |-> l.sha256]
IsSequence(s) == \E S : s \in Seq(S)
IsManifest(m) ==
  /\ m = [evidenceClass |-> m.evidenceClass, source |-> m.source, summary |-> m.summary,
          files |-> m.files]
  /\ IsSequence(m.files) /\ \A i \in DOMAIN m.files : IsListed(m.files[i])
IsPack(p) ==
  /\ p = [manifest |-> p.manifest, digest |-> p.digest, files |-> p.files]
  /\ IsManifest(p.manifest)
  /\ IsSequence(p.files) /\ \A i \in DOMAIN p.files : IsFile(p.files[i])

\* A manifest lists every file of a sequence, in its order.
LEMMA ListedFiles ==
  ASSUME NEW list, IsSequence(list)
  PROVE  /\ IsSequence(Pack!Listed(list))
         /\ Len(Pack!Listed(list)) = Len(list) /\ DOMAIN Pack!Listed(list) = 1 .. Len(list)
         /\ \A i \in DOMAIN list : IsListed(Pack!Listed(list)[i])
<1> DEFINE entry(i) == [path |-> list[i].path, bytes |-> list[i].bytes, sha256 |-> list[i].sha256]
           S == {entry(i) : i \in 1 .. Len(list)}
<1>1. Len(list) \in Nat /\ DOMAIN list = 1 .. Len(list)
  BY DEF IsSequence
<1>2. Pack!Listed(list) = [i \in 1 .. Len(list) |-> entry(i)]
  BY <1>1 DEF Pack!Listed
<1>3. Pack!Listed(list) \in Seq(S)
  BY <1>1, <1>2
<1>4. Len(Pack!Listed(list)) = Len(list) /\ DOMAIN Pack!Listed(list) = 1 .. Len(list)
  BY <1>1, <1>2, <1>3
<1>5. \A i \in DOMAIN list : IsListed(Pack!Listed(list)[i])
  BY <1>1, <1>2 DEF IsListed
<1> QED BY <1>3, <1>4, <1>5 DEF IsSequence

\* The files of a report, and of a terminal proof if there is one.
LEMMA ArtifactFiles ==
  ASSUME NEW report, NEW terminal
  PROVE  LET first == Pack!MakeFile(JsonPath, Pack!ReportJson(report))
             second == Pack!MakeFile("audit/report.md", Pack!ReportMarkdown(report))
             third == Pack!MakeFile("audit/report.sarif", Pack!ReportSarif(report))
             last == Pack!MakeFile(Pack!TerminalPath, Pack!TerminalJson(terminal))
         IN Pack!Artifacts(report, terminal) =
              IF terminal = None THEN <<first, second, third>> ELSE <<first, second, third, last>>
<1> DEFINE first == Pack!MakeFile(JsonPath, Pack!ReportJson(report))
           second == Pack!MakeFile("audit/report.md", Pack!ReportMarkdown(report))
           third == Pack!MakeFile("audit/report.sarif", Pack!ReportSarif(report))
           last == Pack!MakeFile(Pack!TerminalPath, Pack!TerminalJson(terminal))
<1>1. Pack!Artifacts(report, terminal) =
        <<first, second, third>> \o (IF terminal = None THEN <<>> ELSE <<last>>)
  BY DEF Pack!Artifacts, JsonPath
<1> HIDE DEF first, second, third, last
<1>2. <<first, second, third>> \o <<>> = <<first, second, third>>
  OBVIOUS
<1>3. <<first, second, third>> \o <<last>> = <<first, second, third, last>>
  <2> DEFINE S == {first, second, third, last}
             base == <<first, second, third>>
             all == <<first, second, third, last>>
  <2>1. base \in Seq(S) /\ Len(base) = 3 /\ <<last>> \in Seq(S) /\ Len(<<last>>) = 1
    OBVIOUS
  <2>2. all \in Seq(S) /\ Len(all) = 4
    OBVIOUS
  <2>3. /\ base \o <<last>> \in Seq(S) /\ Len(base \o <<last>>) = 4
        /\ \A i \in 1 .. 4 : (base \o <<last>>)[i] = IF i <= 3 THEN base[i] ELSE <<last>>[i - 3]
    <3> DEFINE end == <<last>>
    <3>1. base \in Seq(S) /\ Len(base) = 3 /\ end \in Seq(S) /\ Len(end) = 1
      BY <2>1
    <3> HIDE DEF S, base, end
    <3>2. /\ base \o end \in Seq(S) /\ Len(base \o end) = Len(base) + Len(end)
          /\ \A i \in 1 .. Len(base) + Len(end) :
               (base \o end)[i] = IF i <= Len(base) THEN base[i] ELSE end[i - Len(base)]
      BY ONLY <3>1, ConcatProperties, Zenon
    <3> QED BY <3>1, <3>2 DEF end
  <2>4. \A i \in 1 .. 4 : (base \o <<last>>)[i] = all[i]
    BY <2>3
  <2> HIDE DEF S, base, all
  <2>5. base \o <<last>> = all
    BY <2>2, <2>3, <2>4, SeqEqual
  <2> QED BY <2>5 DEF base, all
<1>4. Pack!Artifacts(report, terminal) =
        IF terminal = None THEN <<first, second, third>> ELSE <<first, second, third, last>>
  BY <1>1, <1>2, <1>3
<1> QED BY <1>4 DEF first, second, third, last

\* The contents that are written fit their paths.
LEMMA MadeFiles ==
  ASSUME NEW report, NEW terminal
  PROVE  /\ IsFile(Pack!MakeFile(JsonPath, Pack!ReportJson(report)))
         /\ IsFile(Pack!MakeFile("audit/report.md", Pack!ReportMarkdown(report)))
         /\ IsFile(Pack!MakeFile("audit/report.sarif", Pack!ReportSarif(report)))
         /\ IsFile(Pack!MakeFile(Pack!TerminalPath, Pack!TerminalJson(terminal)))
<1>1. IsFile(Pack!MakeFile(JsonPath, Pack!ReportJson(report)))
  BY DEF IsFile, Pack!MakeFile, JsonPath, Pack!TerminalPath, Pack!ReportJson
<1>2. \A path \in {"audit/report.md", "audit/report.sarif"} :
        \A content : IsFile(Pack!MakeFile(path, content))
  BY DEF IsFile, Pack!MakeFile, JsonPath, Pack!TerminalPath
<1>3. IsFile(Pack!MakeFile(Pack!TerminalPath, Pack!TerminalJson(terminal)))
  BY DEF IsFile, Pack!MakeFile, JsonPath, Pack!TerminalPath, Pack!TerminalJson
<1> QED BY <1>1, <1>2, <1>3

\* What is built is a pack.
LEMMA BuiltIsPack ==
  ASSUME NEW report, NEW terminal
  PROVE  IsPack(Pack!PackOf(report, terminal))
<1> DEFINE list == Pack!Artifacts(report, terminal)
<1>1. IsSequence(list) /\ \A i \in DOMAIN list : IsFile(list[i])
  <2> DEFINE first == Pack!MakeFile(JsonPath, Pack!ReportJson(report))
             second == Pack!MakeFile("audit/report.md", Pack!ReportMarkdown(report))
             third == Pack!MakeFile("audit/report.sarif", Pack!ReportSarif(report))
             last == Pack!MakeFile(Pack!TerminalPath, Pack!TerminalJson(terminal))
  <2>1. list = IF terminal = None THEN <<first, second, third>> ELSE <<first, second, third, last>>
    BY ArtifactFiles
  <2>2. IsFile(first) /\ IsFile(second) /\ IsFile(third) /\ IsFile(last)
    BY MadeFiles
  <2> HIDE DEF list, first, second, third, last
  <2>3. IsSequence(list)
    <3>1. list \in Seq({first, second, third, last})
      <4>1. CASE terminal = None
        <5>1. list = <<first, second, third>>
          BY <2>1, <4>1
        <5>2. <<first, second, third>> \in Seq({first, second, third, last})
          OBVIOUS
        <5> QED BY <5>1, <5>2
      <4>2. CASE terminal # None
        <5>1. list = <<first, second, third, last>>
          BY <2>1, <4>2
        <5>2. <<first, second, third, last>> \in Seq({first, second, third, last})
          OBVIOUS
        <5> QED BY <5>1, <5>2
      <4> QED BY <4>1, <4>2
    <3> QED BY <3>1 DEF IsSequence
  <2>4. \A i \in DOMAIN list : list[i] \in {first, second, third, last}
    BY <2>1
  <2> QED BY <2>2, <2>3, <2>4
<1> DEFINE p == Pack!PackOf(report, terminal)
           m == [evidenceClass |-> Pack!EvidenceClass(report.source.sourceKind),
                 source |-> report.source, summary |-> Pack!SummaryFor(report, terminal),
                 files |-> Pack!Listed(list)]
<1>2. p = [manifest |-> m, digest |-> m, files |-> list]
  BY DEF Pack!PackOf, Pack!Sealed, Pack!Sha256
<1>3. IsManifest(m)
  <2> HIDE DEF list
  <2> QED BY <1>1, ListedFiles DEF IsManifest, IsSequence
<1> HIDE DEF p, m, list
<1>4. IsPack(p)
  BY <1>1, <1>2, <1>3 DEF IsPack
<1> QED BY <1>4 DEF p

\* So is what is put together from the parts of two packs.
LEMMA ForgedIsPack ==
  ASSUME NEW p, IsPack(p), NEW q, IsPack(q), NEW r \in Pack!Forgeries(p, q)
  PROVE  IsPack(r)
<1>1. CASE \E i \in DOMAIN p.files \cap DOMAIN q.files : r = [p EXCEPT !.files[i] = q.files[i]]
  <2>1. PICK i \in DOMAIN p.files \cap DOMAIN q.files : r = [p EXCEPT !.files[i] = q.files[i]]
    BY <1>1
  <2> DEFINE list == [p.files EXCEPT ![i] = q.files[i]]
  <2>2. r = [manifest |-> p.manifest, digest |-> p.digest, files |-> list]
    BY <2>1 DEF IsPack
  <2>3. /\ DOMAIN list = DOMAIN p.files
        /\ \A j \in DOMAIN list : list[j] = q.files[i] \/ list[j] = p.files[j]
    OBVIOUS
  <2>4. \A j \in DOMAIN list : IsFile(list[j])
    BY <2>3 DEF IsPack
  <2>5. IsSequence(list)
    <3>1. PICK S : p.files \in Seq(S)
      BY DEF IsPack, IsSequence
    <3>2. p.files \in Seq(S \cup {q.files[i]})
      BY <3>1
    <3>3. list \in Seq(S \cup {q.files[i]})
      BY <3>2
    <3> QED BY <3>3 DEF IsSequence
  <2> HIDE DEF list
  <2> QED BY <2>2, <2>4, <2>5 DEF IsPack
<1>2. CASE r = [p EXCEPT !.files = SubSeq(@, 1, Len(@) - 1)]
  <2> DEFINE list == SubSeq(p.files, 1, Len(p.files) - 1)
  <2>1. r = [manifest |-> p.manifest, digest |-> p.digest, files |-> list]
    BY <1>2 DEF IsPack
  <2>2. PICK S : p.files \in Seq(S)
    BY DEF IsPack, IsSequence
  <2>3. /\ list \in Seq(S)
        /\ \A j \in DOMAIN list : j \in DOMAIN p.files /\ list[j] = p.files[j]
    BY <2>2
  <2> HIDE DEF list
  <2> QED BY <2>1, <2>3 DEF IsPack, IsSequence
<1>3. CASE r \in {[p EXCEPT !.manifest = q.manifest],
                  [p EXCEPT !.manifest = q.manifest, !.digest = q.digest]}
  <2>1. /\ r = [manifest |-> r.manifest, digest |-> r.digest, files |-> r.files]
        /\ r.manifest = q.manifest /\ r.files = p.files
    BY <1>3 DEF IsPack
  <2> QED BY <2>1 DEF IsPack
<1>4. CASE r = Pack!Resealed(p)
  <2> DEFINE m == [evidenceClass |-> p.manifest.evidenceClass, source |-> p.manifest.source,
                   summary |-> p.manifest.summary, files |-> Pack!Listed(p.files)]
  <2>1. m = [p.manifest EXCEPT !.files = Pack!Listed(p.files)]
    BY DEF IsPack, IsManifest
  <2>2. r = [manifest |-> m, digest |-> m, files |-> p.files]
    <3> HIDE DEF m
    <3> QED BY <1>4, <2>1 DEF Pack!Resealed, Pack!Sealed, Pack!Sha256
  <2>3. IsManifest(m)
    <3>1. IsSequence(p.files)
      BY DEF IsPack
    <3>2. /\ IsSequence(Pack!Listed(p.files))
          /\ \A i \in DOMAIN Pack!Listed(p.files) : IsListed(Pack!Listed(p.files)[i])
      <4>1. DOMAIN p.files = 1 .. Len(p.files)
        BY <3>1 DEF IsSequence
      <4> QED BY <3>1, <4>1, ListedFiles
    <3> QED BY <3>2 DEF IsManifest
  <2> HIDE DEF m
  <2> QED BY <2>2, <2>3 DEF IsPack
<1> QED BY <1>1, <1>2, <1>3, <1>4 DEF Pack!Forgeries

\* The first file at a path that is first, second, ... in the contract.
LEMMA FoundFile ==
  ASSUME NEW p, NEW i \in DOMAIN p.files, DOMAIN p.files \subseteq Nat,
         \A j \in DOMAIN p.files : p.files[j].path = p.files[i].path => j = i
  PROVE  Pack!Find(p, p.files[i].path) = p.files[i].content
<1> DEFINE places == {j \in DOMAIN p.files : p.files[j].path = p.files[i].path}
<1>1. places = {i}
  OBVIOUS
<1>2. i <= i
  OBVIOUS
<1> QED BY <1>1, <1>2 DEF Pack!Find

\* Nine checks are enough: the pack that passes them is the one written from the report
\* and the terminal proof it holds.
LEMMA VerifiedPack ==
  ASSUME NEW p, IsPack(p), Pack!Verified(p)
  PROVE  LET report == Pack!Find(p, JsonPath).report
             terminal == Pack!HeldTerminal(p)
         IN /\ p = Pack!PackOf(report, terminal)
            /\ terminal # None =>
                 /\ terminal.auditId = report.source.requestId
                 /\ terminal.releaseSha = report.source.releaseSha
            /\ Pack!ExportSafe(report, terminal)
<1> DEFINE report == Pack!Find(p, JsonPath).report
           terminal == Pack!HeldTerminal(p)
           outcome == p.manifest.summary.terminalOutcome
           contract == Pack!ExpectedFileContract(outcome)
           list == p.files
<1>1. /\ p.digest = p.manifest
      /\ p.manifest.evidenceClass = Pack!EvidenceClass(p.manifest.source.sourceKind)
      /\ Pack!SummaryFor(report, terminal) = p.manifest.summary
      /\ report.source = p.manifest.source
      /\ terminal # None =>
           /\ terminal.auditId = report.source.requestId
           /\ terminal.releaseSha = report.source.releaseSha
      /\ Pack!ExportSafe(report, terminal)
  BY DEF Pack!Verified, Pack!IsEvidencePackManifest, Pack!Sha256,
     Pack!SourceFieldsConsistent, JsonPath
<1>2. /\ Pack!Find(p, JsonPath) # None
      /\ Pack!Find(p, "audit/report.md") = Pack!ReportMarkdown(report)
      /\ Pack!Find(p, "audit/report.sarif") = Pack!ReportSarif(report)
  BY DEF Pack!Verified, Pack!PublicProjectionValid, JsonPath
<1>3. (terminal = None) <=> (outcome = "NOT_AVAILABLE")
  BY DEF Pack!Verified, Pack!TerminalProjectionValid, Pack!HeldTerminal
<1>4. /\ Len(contract) = (IF terminal = None THEN 3 ELSE 4)
      /\ contract[1] = JsonPath /\ contract[2] = "audit/report.md"
      /\ contract[3] = "audit/report.sarif"
      /\ terminal # None => contract[4] = Pack!TerminalPath
      /\ DOMAIN contract = 1 .. Len(contract)
  <2> DEFINE base == <<JsonPath, "audit/report.md", "audit/report.sarif">>
  <2>1. contract = IF outcome = "NOT_AVAILABLE" THEN base ELSE Append(base, Pack!TerminalPath)
    BY DEF Pack!ExpectedFileContract, Pack!BaseFileContract, JsonPath
  <2>2. /\ Len(base) = 3 /\ DOMAIN base = 1 .. 3 /\ base[1] = JsonPath
        /\ base[2] = "audit/report.md" /\ base[3] = "audit/report.sarif"
        /\ base \in Seq({JsonPath, "audit/report.md", "audit/report.sarif", Pack!TerminalPath})
    OBVIOUS
  <2>3. /\ Len(Append(base, Pack!TerminalPath)) = 4
        /\ DOMAIN Append(base, Pack!TerminalPath) = 1 .. 4
        /\ \A i \in 1 .. 3 : Append(base, Pack!TerminalPath)[i] = base[i]
        /\ Append(base, Pack!TerminalPath)[4] = Pack!TerminalPath
    <3> DEFINE S == {JsonPath, "audit/report.md", "audit/report.sarif", Pack!TerminalPath}
               all == Append(base, Pack!TerminalPath)
    <3>1. Pack!TerminalPath \in S /\ base \in Seq(S)
      BY <2>2
    <3> HIDE DEF base, S
    <3>2. /\ all \in Seq(S) /\ Len(all) = Len(base) + 1
          /\ \A i \in 1 .. Len(base) : all[i] = base[i]
          /\ all[Len(base) + 1] = Pack!TerminalPath
      BY ONLY <3>1, AppendProperties
    <3> HIDE DEF all
    <3>3. DOMAIN all = 1 .. Len(all)
      BY <3>2
    <3> QED BY <2>2, <3>2, <3>3 DEF all
  <2> HIDE DEF base, contract, terminal, outcome
  <2> QED BY <1>3, <2>1, <2>2, <2>3
<1>5. /\ DOMAIN list = 1 .. Len(contract) /\ Len(list) = Len(contract)
      /\ DOMAIN p.manifest.files = 1 .. Len(contract)
      /\ \A i \in 1 .. Len(contract) :
           list[i].path = contract[i] /\ p.manifest.files[i].path = contract[i]
  BY <1>4 DEF Pack!Verified, Pack!FileSetExact, IsPack, IsManifest, IsSequence
<1>6. \A i \in DOMAIN list :
        /\ list[i].bytes = list[i].content.bytes
        /\ p.manifest.files[i].bytes = list[i].content.bytes
        /\ p.manifest.files[i].sha256 = list[i].sha256
        /\ list[i].sha256 = list[i].content
  BY DEF Pack!Verified, Pack!FileDigestsValid, Pack!Sha256
<1>7. \A i, j \in DOMAIN list : list[i].path = list[j].path => i = j
  <2> HIDE DEF contract, terminal, list
  <2>1. \A i, j \in 1 .. Len(contract) : contract[i] = contract[j] => i = j
    BY <1>4 DEF Pack!TerminalPath, JsonPath
  <2> QED BY <1>5, <2>1
<1>8. \A i \in DOMAIN list : Pack!Find(p, list[i].path) = list[i].content
  BY <1>4, <1>5, <1>7, FoundFile
<1>9. \A i \in DOMAIN list : list[i] = Pack!MakeFile(list[i].path, list[i].content)
  BY <1>6 DEF IsPack, IsFile, Pack!MakeFile, Pack!Sha256
<1>10. /\ list[1] = Pack!MakeFile(JsonPath, Pack!ReportJson(report))
       /\ list[2] = Pack!MakeFile("audit/report.md", Pack!ReportMarkdown(report))
       /\ list[3] = Pack!MakeFile("audit/report.sarif", Pack!ReportSarif(report))
  <2>1. /\ 1 \in DOMAIN list /\ 2 \in DOMAIN list /\ 3 \in DOMAIN list
        /\ list[1].path = JsonPath /\ list[2].path = "audit/report.md"
        /\ list[3].path = "audit/report.sarif"
    BY <1>4, <1>5
  <2>2. list[1].content = Pack!ReportJson(report)
    BY <1>8, <2>1 DEF IsPack, IsFile
  <2>3. list[2].content = Pack!ReportMarkdown(report) /\ list[3].content = Pack!ReportSarif(report)
    BY <1>2, <1>8, <2>1
  <2> HIDE DEF list, report
  <2> QED BY <1>9, <2>1, <2>2, <2>3
<1>11. terminal # None => list[4] = Pack!MakeFile(Pack!TerminalPath, Pack!TerminalJson(terminal))
  <2> SUFFICES ASSUME terminal # None
               PROVE  list[4] = Pack!MakeFile(Pack!TerminalPath, Pack!TerminalJson(terminal))
    OBVIOUS
  <2>1. 4 \in DOMAIN list /\ list[4].path = Pack!TerminalPath
    BY <1>4, <1>5
  <2>2. Pack!Find(p, Pack!TerminalPath) = list[4].content
    BY <1>8, <2>1
  <2>3. terminal = list[4].content.terminal
    BY <2>2 DEF Pack!HeldTerminal
  <2>4. list[4].content = Pack!TerminalJson(list[4].content.terminal)
    BY <2>1 DEF IsPack, IsFile
  <2> HIDE DEF list, terminal
  <2> QED BY <1>9, <2>1, <2>3, <2>4
<1>12. list = Pack!Artifacts(report, terminal)
  <2> DEFINE first == Pack!MakeFile(JsonPath, Pack!ReportJson(report))
             second == Pack!MakeFile("audit/report.md", Pack!ReportMarkdown(report))
             third == Pack!MakeFile("audit/report.sarif", Pack!ReportSarif(report))
             last == Pack!MakeFile(Pack!TerminalPath, Pack!TerminalJson(terminal))
  <2>1. Pack!Artifacts(report, terminal) =
          IF terminal = None THEN <<first, second, third>> ELSE <<first, second, third, last>>
    BY ArtifactFiles
  <2>2. IsSequence(list) /\ Len(list) = IF terminal = None THEN 3 ELSE 4
    BY <1>4, <1>5 DEF IsPack
  <2> HIDE DEF list, terminal, report, first, second, third, last, contract
  <2>3. CASE terminal = None
    <3>1. list = <<first, second, third>>
      BY <1>10, <2>2, <2>3 DEF first, second, third, IsSequence
    <3> QED BY <2>1, <2>3, <3>1
  <2>4. CASE terminal # None
    <3>1. list = <<first, second, third, last>>
      BY <1>10, <1>11, <2>2, <2>4 DEF first, second, third, last, IsSequence
    <3> QED BY <2>1, <2>4, <3>1
  <2> QED BY <2>3, <2>4
<1>13. p.manifest.files = Pack!Listed(list)
  <2>1. \A i \in DOMAIN list :
          p.manifest.files[i] = [path |-> list[i].path, bytes |-> list[i].bytes,
                                 sha256 |-> list[i].sha256]
    BY <1>5, <1>6 DEF IsPack, IsManifest, IsListed
  <2>2. p.manifest.files = [i \in DOMAIN list |-> p.manifest.files[i]]
    BY <1>5 DEF IsPack, IsManifest, IsSequence
  <2> QED BY <2>1, <2>2 DEF Pack!Listed
<1>14. p = Pack!PackOf(report, terminal)
  <2>1. p.manifest = [evidenceClass |-> Pack!EvidenceClass(report.source.sourceKind),
                      source |-> report.source, summary |-> Pack!SummaryFor(report, terminal),
                      files |-> Pack!Listed(list)]
    BY <1>1, <1>13 DEF IsPack, IsManifest
  <2>2. p = [manifest |-> p.manifest, digest |-> p.manifest, files |-> list]
    BY <1>1 DEF IsPack
  <2> HIDE DEF list, terminal, report
  <2> QED BY <1>12, <2>1, <2>2 DEF Pack!PackOf, Pack!Sealed, Pack!Sha256
<1> QED BY <1>1, <1>14

\* What is ready is a pack, however often it was altered.
Shaped == preparation.state = "ready" => IsPack(preparation.pack)

\* A preparation builds a pack, and an alteration makes one of two.
LEMMA StepShaped == PackIInv /\ Shaped /\ [Pack!Next]_(Pack!vars) => Shaped'
<1> SUFFICES ASSUME PackIInv, Shaped, [Pack!Next]_(Pack!vars) PROVE Shaped'
  OBVIOUS
<1>1. ASSUME NEW in, Pack!Build(in) # None PROVE IsPack(Pack!Build(in))
  <2>1. Pack!Build(in) = Pack!PackOf(Pack!ProjectAudit(in.audit), Pack!ProjectTerminal(in.status))
    BY <1>1 DEF Pack!Build
  <2> QED BY <2>1, BuiltIsPack
<1>2. CASE UNCHANGED preparation
  BY <1>2 DEF Shaped
<1>3. CASE preparation'.state # "ready"
  BY <1>3 DEF Shaped
<1>4. ASSUME NEW j \in jobs, NEW pack, Pack!Built(j, pack) PROVE Shaped'
  BY <1>1, <1>2, <1>3, <1>4 DEF Pack!Built, Pack!Leave, Pack!Error, Shaped
<1>5. CASE Pack!Alter
  <2>1. PICK in : /\ Pack!Build(in) # None
                  /\ preparation' \in {[preparation EXCEPT !.pack = q] :
                       q \in Pack!Forgeries(preparation.pack, Pack!Build(in))}
    BY <1>5 DEF Pack!Alter
  <2>2. PICK q \in Pack!Forgeries(preparation.pack, Pack!Build(in)) :
          preparation' = [preparation EXCEPT !.pack = q]
    BY <2>1
  <2>3. preparation'.pack = q
    BY <2>2 DEF PackIInv, PackTypes
  <2>4. IsPack(preparation.pack)
    BY <1>5 DEF Pack!Alter, Shaped
  <2> QED BY <1>1, <2>1, <2>3, <2>4, ForgedIsPack DEF Shaped
<1>6. ASSUME NEW j \in jobs, Pack!Checked(j) \/ Pack!Clicked(j) PROVE Shaped'
  <2>1. UNCHANGED preparation \/ preparation' = Pack!Error(j.input)
    BY <1>6 DEF Pack!Checked, Pack!Clicked, Pack!Leave, Pack!FailDownload
  <2> QED BY <1>2, <1>3, <2>1 DEF Pack!Error
<1>7. CASE Pack!Render \/ Pack!DownloadManifest \/ Pack!DownloadFile \/ UNCHANGED Pack!vars
  BY <1>2, <1>7 DEF Pack!Render, Pack!DownloadManifest, Pack!DownloadFile, Pack!Download, Pack!vars
<1>8. CASE Pack!Effect \/ Pack!Prepare
  BY <1>3, <1>8 DEF Pack!Effect, Pack!Prepare, Pack!Idle
<1> QED BY <1>4, <1>5, <1>6, <1>7, <1>8 DEF Pack!Next

\* A pack that passes the checks of its verification, whatever it was put together from, is
\* the pack of the report and the terminal proof it holds, of one request and one release,
\* without a credential (verifyBrowserEvidencePack), for any inputs of the page.
THEOREM VerificationHolds == MCSpec => []VerifiedIsOnePack
<1> DEFINE Safe == part = "pack" => PackIInv /\ Shaped
<1>1. MCInit => Safe
  BY InitPackIInv DEF MCInit, Shaped, Pack!Init, Pack!Idle
<1>2. Safe /\ [MCNext]_allVars => Safe'
  BY ComposedPack, StepPackIInv, StepShaped
<1>3. Safe => VerifiedIsOnePack
  BY VerifiedPack DEF Shaped, VerifiedIsOnePack, Pack!VerifiedIsOnePack, JsonPath
<1> QED
  <2> HIDE DEF Safe
  <2> QED BY <1>1, <1>2, <1>3, PTL DEF MCSpec
=============================================================================

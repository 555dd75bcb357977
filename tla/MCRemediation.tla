---------------------------- MODULE MCRemediation ----------------------------
(***************************************************************************)
(* From an audit to its remediation, in three parts: the loop in which a    *)
(* model chooses what is audited (Agent), the workers of                    *)
(* GovernedRemediation, and the status of an execution that they remediate  *)
(* (Status).  A behaviour is one of the three, chosen at the start; the     *)
(* variables of the others are idle.                                        *)
(***************************************************************************)
EXTENDS MCGovernedRemediation

CONSTANTS
  Catalogs, Contradictions, Violations, Asked,                 \* of Agent
  None, Window, MaxClockSkew, MaxTime, MaxAlterings, MaxFaults  \* of Status

VARIABLES
  part,  \* the part that runs
  catalog, snapshot, audited, findings, trace, steps, noProgress, stop,  \* of Agent
  now, lead, release, execution, objects, checkpoint, row, altered, faults, reader, view  \* of Status

Agent == INSTANCE AuditLoop
Status == INSTANCE AuditStatus

ASSUME Agent!LoopAssumption
ASSUME Status!StatusAssumption

\* A clean catalog, and one with a contradiction and two violations.
MCCatalogs == {"clean", "dirty"}
MCContradictions == [c \in Catalogs |-> IF c = "dirty" THEN {"owner"} ELSE {}]
MCViolations == [c \in Catalogs |-> IF c = "dirty" THEN {"G1", "G2"} ELSE {}]

agentVars == <<catalog, snapshot, audited, findings, trace, steps, noProgress, stop>>
statusVars ==
  <<now, lead, release, execution, objects, checkpoint, row, altered, faults, reader, view>>
allVars == <<vars, part, agentVars, statusVars>>

StatusIdle ==
  /\ now = 0 /\ lead = 0 /\ release = "current" /\ execution = None /\ objects = None
  /\ checkpoint = None /\ row = None /\ altered = {} /\ faults = 0 /\ reader = Status!Idle
  /\ view = [at |-> "start", failures |-> 0, answer |-> Status!NoAnswer]

MCInit ==
  /\ Init /\ Agent!Init
  /\ \/ part \in {"loop", "workers"} /\ StatusIdle
     \/ part = "status" /\ Status!Init
  /\ part # "loop" => catalog = CHOOSE c \in Catalogs : TRUE

AgentStep(A) == part = "loop" /\ A /\ UNCHANGED <<part, vars, statusVars>>
WorkersStep(A) == part = "workers" /\ A /\ UNCHANGED <<part, agentVars, statusVars>>
StatusStep(A) == part = "status" /\ A /\ UNCHANGED <<part, vars, agentVars>>

AgentNext ==
  \/ AgentStep(\E tool \in Agent!Reads : Agent!Read(tool))
  \/ AgentStep(Agent!Unusable)
  \/ AgentStep(Agent!Emit)
  \/ AgentStep(Agent!Escalate)
  \/ AgentStep(Agent!Throw)
  \/ AgentStep(Agent!CatalogChange)
  \/ part = "loop" /\ stop # "" /\ UNCHANGED allVars  \* a loop that ended

WorkersNext ==
  \/ \E w \in Workers, k \in Keys : WorkersStep(Deliver(w, k))
  \/ \E w \in Workers : WorkersStep(Work(w)) \/ WorkersStep(Abandon(w))
  \/ \E at \in sent : WorkersStep(Apply(at))
  \/ \E t \in Tags : WorkersStep(ExternalWrite(t))
  \/ WorkersStep(Tick)

StatusNext ==
  \/ StatusStep(Status!Tick)
  \/ StatusStep(Status!StoreEvidence)
  \/ StatusStep(Status!PutCheckpoint)
  \/ StatusStep(Status!Handoff)
  \/ StatusStep(Status!Decide)
  \/ StatusStep(Status!TimeToLive)
  \/ StatusStep(Status!Remediate)
  \/ StatusStep(Status!Succeed)
  \/ StatusStep(Status!EndOtherwise)
  \/ StatusStep(Status!Alter("audit", Status!AlterAudit))
  \/ StatusStep(Status!Alter("row", Status!AlterRow))
  \/ StatusStep(Status!Alter("execution", Status!AlterExecution))
  \/ StatusStep(Status!StartControlLoop)
  \/ StatusStep(Status!Describe)
  \/ StatusStep(Status!ReadCheckpoint)
  \/ StatusStep(Status!ReadEvidence)
  \/ StatusStep(Status!ReadApproval)
  \/ StatusStep(Status!ReadResult)
  \/ StatusStep(Status!Faulty)
  \/ part = "status" /\ UNCHANGED allVars  \* an execution that ended, a page that shows it

MCNext == AgentNext \/ WorkersNext \/ StatusNext

MCSpec == MCInit /\ [][MCNext]_allVars

\* What the report of the loop has of its audits (AuditLoop).
DoneIsReported == Agent!DoneIsReported
\* Only what is not as the services wrote it is unreadable (AuditStatus).
HonestIsShown == Status!HonestIsShown
\* What is shown as the result is earned (AuditStatus).
ShownIsEarned == Status!ShownIsEarned
=============================================================================

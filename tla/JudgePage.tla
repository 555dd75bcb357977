------------------------------ MODULE JudgePage ------------------------------
(***************************************************************************)
(* The page of the judge: RuntimeControl, the panel that launches, watches,*)
(* extends and stops a runtime session and keeps its id over a reload, and *)
(* the handlers of App that start a control run, ask for the proposal,     *)
(* decide and poll, with the contract that runtime-api demands of a status.*)
(* Beside it the server: sessions that end on their own, and runs that     *)
(* move as RunStatus says (ControlRun does).  Answers may be lost, those   *)
(* of the panel may overtake each other, a run may be started while another*)
(* is asked or polled for, and the page may be reloaded.                   *)
(***************************************************************************)
EXTENDS Naturals, FiniteSets, RunStatus

CONSTANTS
  MaxSessions, \* bound: sessions that can be launched
  MaxRuns,     \* bound: runs that can be started
  MaxBegun,    \* bound: sessions and runs together
  MaxRetries,  \* 3: failures in a row that a poll of a run stands
  MaxPolls,    \* bound: status requests of the panel at one time
  MaxMishaps   \* bound: lost answers, failed polls and reloads

\* What the constants are (the modules that take them assume it).
PageAssumption ==
  /\ MaxSessions \in Nat \ {0} /\ MaxRuns \in Nat \ {0} /\ MaxBegun \in Nat
  /\ MaxRetries \in Nat /\ MaxPolls \in Nat \ {0} /\ MaxMishaps \in Nat

VARIABLES
  sessions, \* at the server: the public state of each
  runs,     \* at the server: session, status and decision of each
  panel,    \* the session that is shown
  stored,   \* the id in sessionStorage
  command,  \* the request of the panel that disables its buttons
  polls,    \* its status requests, as the server answered them
  page,     \* the run that is shown
  task,     \* the handler that disables the buttons of the run
  fault,    \* the error that is shown
  mishaps

server == <<sessions, runs>>
panelVars == <<panel, stored, command, polls>>
runVars == <<page, task, fault>>
vars == <<server, panelVars, runVars, mishaps>>

SessionIds == 1 .. MaxSessions
RunIds == 1 .. MaxRuns

\* TERMINAL_STATES are one, and a session whose item was removed.
Live == {"STARTING", "READY", "STOPPING"}
SessionStates == Live \cup {"NONE", "ENDED", "GONE"}

NoRun == [session |-> 0, status |-> "NONE", decision |-> "none"]
NotShown == [session |-> 0, state |-> "NONE"]
NoCommand == [op |-> "none", answer |-> NotShown]
Blank == [run |-> 0, status |-> "NONE"]
NoTask == [op |-> "none", id |-> 0, stop |-> TRUE, failures |-> 0]

Init ==
  /\ sessions = [s \in SessionIds |-> "NONE"]
  /\ runs = [r \in RunIds |-> NoRun]
  /\ panel = NotShown /\ stored = 0 /\ command = NoCommand /\ polls = {}
  /\ page = Blank /\ task = NoTask /\ fault = "none"
  /\ mishaps = 0

Mishap == mishaps < MaxMishaps /\ mishaps' = mishaps + 1

\* The id that comes next, within the bounds.
Begun == Cardinality({s \in SessionIds : sessions[s] # "NONE"})
         + Cardinality({r \in RunIds : runs[r] # NoRun})
Unused(ids, kept, none) ==
  {i \in ids : kept[i] = none /\ Begun < MaxBegun /\ \A j \in 1 .. i - 1 : kept[j] # none}
NewSessions == Unused(SessionIds, sessions, "NONE")
NewRuns == Unused(RunIds, runs, NoRun)

-----------------------------------------------------------------------------
(* The server *)

SessionMoves ==
  {"STARTING"} \X {"READY", "ENDED"} \cup {"READY", "STOPPING"} \X {"ENDED"}
  \cup {<<"ENDED", "GONE">>}

ServerMoves ==
  /\ \/ \E s \in SessionIds, next \in SessionStates :
          /\ <<sessions[s], next>> \in SessionMoves
          /\ sessions' = [sessions EXCEPT ![s] = next]
          /\ UNCHANGED runs
     \/ \E r \in RunIds, next \in Statuses :
          /\ <<runs[r].status, next>> \in OnItsOwn
          \* a run of the page is GOVERNED
          /\ <<runs[r].status, next>> # <<"ANALYZING", "SUCCEEDED">>
          /\ runs' = [runs EXCEPT ![r].status = next]
          /\ UNCHANGED sessions
  /\ UNCHANGED <<panelVars, runVars, mishaps>>

-----------------------------------------------------------------------------
(* The panel: publish and the status requests *)

\* Mutant: the answer of a request counts whatever is shown by now.
KeptWhatever(shown, next) == polls

\* The effect that polls belongs to one session in one state.
Kept(shown, next) == IF shown = next THEN polls ELSE {}

\* publish.
Publish(next) ==
  /\ panel' = next
  /\ stored' = IF next.state \in Live THEN next.session ELSE 0

\* Every five seconds, whether or not the last one was answered.
Poll ==
  /\ panel.state \in Live
  /\ Cardinality(polls) < MaxPolls
  /\ polls' = polls \cup {[session |-> panel.session, state |-> sessions[panel.session]]}
  /\ UNCHANGED <<server, panel, stored, command, runVars, mishaps>>

\* A request that fails, or finds no session, shows an error and leaves the rest.
PollAnswered(answer) ==
  /\ answer \in polls
  /\ IF answer.state = "GONE"
       THEN polls' = polls \ {answer} /\ UNCHANGED <<panel, stored>>
       ELSE Publish(answer) /\ polls' = Kept(panel, answer) \ {answer}
  /\ UNCHANGED <<server, command, runVars, mishaps>>

-----------------------------------------------------------------------------
(* The panel: launch, extend and stop *)

Free == command = NoCommand

Issue(op) ==
  /\ Free
  /\ CASE op = "start" -> panel.state \notin Live
       [] op = "extend" -> panel.state = "READY"
       [] op = "stop" -> panel.state \in Live
  /\ command' = [NoCommand EXCEPT !.op = op, !.answer.session = panel.session]
  /\ UNCHANGED <<server, panel, stored, polls, runVars, mishaps>>

Answer(s, state) == command' = [command EXCEPT !.answer = [session |-> s, state |-> state]]
Refuse == command' = NoCommand

\* What the server makes of it.  A Cloud session is READY and stops at once.
Carried ==
  LET s == command.answer.session IN
  /\ command.op # "none" /\ command.answer.state = "NONE"
  /\ \/ /\ command.op = "start"
        /\ \/ \E new \in NewSessions, state \in {"STARTING", "READY"} :
                sessions' = [sessions EXCEPT ![new] = state] /\ Answer(new, state)
           \/ Refuse /\ UNCHANGED sessions
     \/ /\ command.op = "extend"
        /\ IF sessions[s] = "READY" THEN Answer(s, "READY") ELSE Refuse
        /\ UNCHANGED sessions
     \/ /\ command.op = "stop"
        /\ IF sessions[s] \in {"STARTING", "READY"}
             THEN \E state \in {"STOPPING", "ENDED"} :
                    sessions' = [sessions EXCEPT ![s] = state] /\ Answer(s, state)
             ELSE /\ IF sessions[s] = "GONE" THEN Refuse ELSE Answer(s, sessions[s])
                  /\ UNCHANGED sessions
     \/ /\ command.op = "recover"
        /\ Answer(s, sessions[s])
        /\ UNCHANGED sessions
  /\ UNCHANGED <<runs, panel, stored, polls, runVars, mishaps>>

\* The saved id is forgotten when nothing is known of it.
Answered ==
  LET next == command.answer IN
  /\ next.state # "NONE"
  /\ command' = NoCommand
  /\ IF next.state = "GONE"
       THEN stored' = 0 /\ UNCHANGED <<panel, polls>>
       ELSE Publish(next) /\ polls' = Kept(panel, next)
  /\ UNCHANGED <<server, runVars, mishaps>>

\* The answer is lost: an error is shown, and nothing else changes.
CommandLost ==
  /\ command.op # "none"
  /\ Mishap
  /\ command' = NoCommand
  /\ UNCHANGED <<server, panel, stored, polls, runVars>>

\* The page comes up anew and recovers the session, not the run.
Reload ==
  /\ Mishap
  /\ panel' = NotShown /\ polls' = {}
  /\ command' = IF stored = 0 THEN NoCommand
                ELSE [op |-> "recover", answer |-> [session |-> stored, state |-> "NONE"]]
  /\ page' = Blank /\ task' = NoTask /\ fault' = "none"
  /\ UNCHANGED <<server, stored>>

-----------------------------------------------------------------------------
(* The contract of a status *)

\* The context that the analysis in it is about and those that the proposal, the
\* completion of the skill and the delta name: the run was grounded before the
\* write, and the analysis after it has a context and a grounding of its own.
Document(status) ==
  IF status = "SUCCEEDED"
  THEN [agent |-> "after", grounding |-> "after", improve |-> "before",
        completion |-> "before", delta |-> <<"before", "after">>]
  ELSE [agent |-> "before", grounding |-> "before", improve |-> "before",
        completion |-> "none", delta |-> <<>>]

BoundProposal(d) == d.delta = <<>> => d.improve = d.agent
Grounded(d) == d.grounding = d.agent
BoundCompletion(d) == d.completion # "none" => Grounded(d) /\ d.completion = d.grounding

\* Mutant: a status without a delta is measured like one with it.
BoundDeltaAlways(d) == d.delta = <<d.improve, d.agent>> /\ d.improve # d.agent

BoundDelta(d) == d.delta # <<>> => d.delta = <<d.improve, d.agent>> /\ d.improve # d.agent

Accepted(status) ==
  LET d == Document(status) IN BoundProposal(d) /\ BoundCompletion(d) /\ BoundDelta(d)

-----------------------------------------------------------------------------
(* The run *)

Busy == task # NoTask
CanRun == panel.state = "READY"

Set(op, id, stop) == task' = [NoTask EXCEPT !.op = op, !.id = id, !.stop = stop]
Fail(f) == task' = NoTask /\ fault' = f

Begins(r) ==
  /\ sessions[task.id] = "READY"
  /\ runs' = [runs EXCEPT ![r].session = task.id, ![r].status = "ANALYZING"]

\* The session of a request is that of the run, not the one that is shown.
OfActive(r) == sessions[runs[r].session] = "READY"
Undecided(r) == OfActive(r) /\ runs[r].decision = "none"

Moves(r, next) ==
  /\ <<runs[r].status, next>> \in ByRequest
  /\ runs' = [runs EXCEPT ![r].status = next,
                          ![r].decision = IF task.op = "improve" THEN @ ELSE task.op]

Demanded == CASE task.op = "improve" -> "IMPROVING_CONTEXT"
              [] task.op = "APPROVE" -> "APPLYING_GOVERNED_WRITE"
              [] OTHER -> "REJECTED"

\* A POST that is abandoned may still reach the server, and nobody waits for its
\* answer.  When it does so makes no difference: the page is done with that run.
Abandoned ==
  \/ UNCHANGED runs
  \/ task.op = "start" /\ \E r \in NewRuns : Begins(r)
  \/ /\ task.op \in {"improve", "APPROVE", "REJECT"}
     /\ Undecided(task.id) /\ Moves(task.id, Demanded)

\* The button waits for the run that is shown, the form of the header does not:
\* it abandons the handler that is under way.
RunAudit ==
  IF CanRun
  THEN /\ Abandoned
       /\ Set("start", panel.session, TRUE)
       /\ page' = Blank /\ fault' = "none"
       /\ UNCHANGED <<sessions, panelVars, mishaps>>
       /\ NewRuns' # {}
  ELSE /\ fault' = "failed"
       /\ UNCHANGED <<server, panelVars, page, task, mishaps>>

Ask(op, shown) ==
  /\ ~Busy /\ CanRun
  /\ page.status = shown
  /\ Set(op, page.run, TRUE)
  /\ fault' = "none"
  /\ UNCHANGED <<server, panelVars, page, mishaps>>

RequestImprove == Ask("improve", "AWAITING_IMPROVEMENT")
Decide(decision) == Ask(decision, "AWAITING_APPROVAL")

\* The answer of a POST comes, and the run is polled, or it is lost.
Then(id, stop) ==
  \/ Set("poll", id, stop) /\ UNCHANGED <<fault, mishaps>>
  \/ Fail("failed") /\ Mishap

Denied == Fail("failed") /\ UNCHANGED <<server, mishaps>>
TaskKeeps == UNCHANGED <<panelVars, page>>

Started ==
  /\ task.op = "start"
  /\ \/ /\ \E r \in NewRuns : Begins(r) /\ Then(r, TRUE)
        /\ UNCHANGED sessions
     \/ sessions[task.id] # "READY" /\ Denied
  /\ TaskKeeps

\* A marker that is there already is as good.
Improved ==
  LET r == task.id IN
  /\ task.op = "improve"
  /\ IF Undecided(r)
       THEN /\ \/ Moves(r, Demanded)
               \/ runs[r].status # "AWAITING_IMPROVEMENT" /\ UNCHANGED runs
            /\ Then(r, TRUE)
            /\ UNCHANGED sessions
       ELSE Denied
  /\ TaskKeeps

\* A decision whose check was in time is stored even after the window.  The check
\* comes first, whatever was decided: what is decided may have expired by now.
Decided ==
  LET r == task.id IN
  /\ task.op \in {"APPROVE", "REJECT"}
  /\ \/ /\ Undecided(r)
        /\ Moves(r, Demanded)
        /\ Then(r, FALSE)
        /\ UNCHANGED sessions
     \/ /\ OfActive(r) /\ runs[r].decision = task.op
        /\ Then(r, FALSE)
        /\ UNCHANGED server
     \/ /\ ~OfActive(r) \/ runs[r].status = "EXPIRED" \/ runs[r].decision # "none"
        /\ Denied
  /\ TaskKeeps

\* Mutant: the flag rules outcomes as well.
StopsAwaiting(status) == task.stop /\ status \in Awaiting \cup Outcomes \cup {"EXPIRED"}

Stops(status) == (task.stop /\ status \in Awaiting) \/ status \in Outcomes \cup {"EXPIRED"}

Retry(f) ==
  IF task.failures < MaxRetries
  THEN task' = [task EXCEPT !.failures = @ + 1] /\ UNCHANGED fault
  ELSE Fail(f)

\* pollRuntimeAgentStack, up to the next wait.  The control function answers what
\* it throws with 502, and the page what it refuses: both are tried again.
Polled ==
  LET status == runs[task.id].status IN
  /\ task.op = "poll"
  /\ \/ /\ status # "ERROR" /\ Accepted(status)
        /\ page' = [run |-> task.id, status |-> status]
        /\ IF Stops(status) THEN task' = NoTask ELSE task' = [task EXCEPT !.failures = 0]
        /\ UNCHANGED <<fault, mishaps>>
     \/ /\ status = "ERROR" \/ ~Accepted(status)
        /\ Retry(IF status = "ERROR" THEN "failed" ELSE "refused")
        /\ UNCHANGED <<page, mishaps>>
     \/ /\ Mishap
        /\ Retry("failed") \/ Fail("failed")
        /\ UNCHANGED page
  /\ UNCHANGED <<server, panelVars>>

-----------------------------------------------------------------------------
Panel ==
  \/ Poll \/ \E answer \in polls : PollAnswered(answer)
  \/ \E op \in {"start", "extend", "stop"} : Issue(op)
  \/ Carried \/ Answered \/ CommandLost

Handler == Started \/ Improved \/ Decided \/ Polled

Judge == RunAudit \/ RequestImprove \/ \E decision \in {"APPROVE", "REJECT"} : Decide(decision)

Next == ServerMoves \/ Panel \/ Judge \/ Handler \/ Reload

\* A request is answered or fails, and a timer fires.
Spec == Init /\ [][Next]_vars /\ WF_vars(Handler)

-----------------------------------------------------------------------------
(* Properties *)

TypeOK ==
  /\ sessions \in [SessionIds -> SessionStates]
  /\ runs \in [RunIds -> [session : 0 .. MaxSessions, status : Statuses,
                          decision : {"none", "APPROVE", "REJECT"}]]
  /\ panel \in [session : 0 .. MaxSessions, state : SessionStates]
  /\ stored \in 0 .. MaxSessions
  /\ command \in [op : {"none", "start", "extend", "stop", "recover"},
                  answer : [session : 0 .. MaxSessions, state : SessionStates]]
  /\ polls \subseteq [session : SessionIds, state : SessionStates]
  /\ page \in [run : 0 .. MaxRuns, status : Statuses]
  /\ task \in [op : {"none", "start", "improve", "APPROVE", "REJECT", "poll"},
               id : Nat, stop : BOOLEAN, failures : 0 .. MaxRetries]
  /\ fault \in {"none", "refused", "failed"}
  /\ mishaps \in 0 .. MaxMishaps

\* An outcome that the page shows is the outcome of that run for good.
ShownIsReal == page.status \in Outcomes => runs[page.run].status = page.status

\* What it refuses to show is a run that succeeded.
RefusedIsSuccess == fault = "refused" => \E r \in RunIds : runs[r].status = "SUCCEEDED"

\* A page that shows a run under way, and is not busy with it, shows an error as
\* well: none of its buttons goes on from there.
IdleIsExplained == page.status \in UnderWay /\ ~Busy => fault # "none"

\* What the page shows of a run is true, and where it stops short of the outcome
\* it says so (pollRuntimeAgentStack, parseRuntimeControlLoopStatus, App).
PageIsTruthful == ShownIsReal /\ RefusedIsSuccess /\ IdleIsExplained

\* A session gives way on the page, and in the storage that brings it back, only
\* to a later one: a late answer about one that ended does not hide the one that
\* was launched after it (RuntimeControl).
LatestIsShown ==
  [][(panel'.session # 0) => panel'.session >= panel.session]_vars

\* A run that has ended is not polled for ever (pollRuntimeAgentStack).
Ended(r) == runs[r].status \in Outcomes \cup {"ERROR"}
Polling(r) == task.op = "poll" /\ task.id = r
PollsEnd == \A r \in RunIds : (Polling(r) /\ Ended(r)) ~> ~Polling(r)

\* The status of a run that succeeded, with its completion and its delta, is not
\* refused (runtime-api.test.ts: "accepts a KMS-authorized official MCP mutation
\* and verified post-write delta").
SuccessIsShown == page.run # 0 /\ runs[page.run].status = "SUCCEEDED" => fault # "refused"
=============================================================================

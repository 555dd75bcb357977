---------------------------- MODULE CoreLifecycle ----------------------------
(***************************************************************************)
(* The lease of the ephemeral DataHub Core: one DynamoDB item, moved by    *)
(* Step Functions executions that ask the lifecycle function for a         *)
(* decision, scale the Auto Scaling group and report back, and by the host *)
(* that the group launches.  A reaper runs every five minutes, and a start *)
(* or an activity leaves a watchdog that wakes at the idle deadline.       *)
(* Executions overlap, are slow, fail between two steps or lose an answer; *)
(* hosts die, are replaced and linger.  The endpoints of a session (three  *)
(* of them, and the scoped credentials stored with them) are one thing     *)
(* here, and the TTL of the items lies beyond the horizon.                 *)
(***************************************************************************)
EXTENDS Naturals, FiniteSets

CONSTANTS
  Sessions,    \* runtime sessions on Core, each started at most once
  Execs,       \* Step Functions executions at work at one time
  Hosts,       \* instances at one time
  NoOne,       \* no session, no operation
  LambdaTime,  \* the longest invocation of the lifecycle function
  OpTime,      \* operationExpiresAt, OPERATION_SECONDS
  IdleTime,    \* IDLE_SECONDS
  HardTime,    \* HARD_SECONDS
  MaxTime,     \* bound: the clock
  MaxCommands, \* bound: STOP and ACTIVITY commands
  MaxMishaps   \* bound: failed requests, lost answers, dead hosts

ASSUME CoreAssumption ==
  /\ NoOne \notin Sessions \cup Execs
  /\ LambdaTime \in Nat /\ OpTime \in Nat /\ IdleTime \in Nat /\ HardTime \in Nat
  /\ LambdaTime < OpTime /\ OpTime < IdleTime /\ IdleTime < HardTime
  /\ MaxTime \in Nat /\ MaxCommands \in Nat /\ MaxMishaps \in Nat

VARIABLES
  now,
  lease,     \* CORE#LEASE / CURRENT
  health,    \* RUNTIME#core / HEALTH
  links,     \* the sessions whose endpoints exist
  capacity,  \* DesiredCapacity of the group
  exec,      \* executions before their watchdog
  watch,     \* executions that wait for their deadline
  host,      \* instances
  started,   \* the sessions a START was sent for
  commands, mishaps

rest == <<started, commands>>
vars == <<now, lease, health, links, capacity, exec, watch, host, started,
          commands, mishaps>>

Min2(a, b) == IF a < b THEN a ELSE b

NoLease == [state |-> "ABSENT", session |-> NoOne, rev |-> 0, idle |-> 0,
            hard |-> 0, op |-> NoOne, opExp |-> 0, ready |-> FALSE]
\* act, the command's session, revision and binding deadline, the start of the
\* invocation, the operation, and how often the first task was tried.
NoExec == [pc |-> "idle", act |-> "REAP", s |-> NoOne, rev |-> 0, hard |-> 0,
           at |-> 0, op |-> NoOne, tries |-> 0]
NoHost == [pc |-> "none", s |-> NoOne, hard |-> 0, doomed |-> FALSE]

LeaseStates == {"ABSENT", "STARTING", "READY", "FAILED", "DRAINING", "STOPPED"}
InLambda == {"endpoints", "commit", "abandon", "cleanup", "sweep", "drain", "release", "health"}


Item == [state : LeaseStates, session : Sessions \cup {NoOne}, rev : Nat, idle : Nat,
         hard : Nat, op : Execs \cup {NoOne}, opExp : Nat, ready : BOOLEAN]
Exec == [pc : InLambda \cup {"idle", "prepare", "scale", "finalize"},
         act : {"START", "ACTIVITY", "STOP", "REAP", "WATCH"},
         s : Sessions \cup {NoOne}, rev : Nat, hard : Nat, at : Nat,
         op : Execs \cup {NoOne}, tries : 0 .. 2]
Host == [pc : {"none", "booting", "starting", "announce", "loop", "work", "failing",
               "unhealthy", "exited"},
         s : Sessions \cup {NoOne}, hard : Nat, doomed : BOOLEAN]

TypeOK ==
  /\ now \in 0 .. MaxTime
  /\ lease \in Item
  /\ health \in [status : {"STOPPED", "READY", "UNHEALTHY"}, session : Sessions \cup {NoOne}]
  /\ links \subseteq Sessions
  /\ capacity \in 0 .. 1
  /\ exec \in [Execs -> Exec]
  /\ watch \subseteq [s : Sessions, rev : Nat, deadline : Nat]
  /\ host \in [Hosts -> Host]
  /\ started \subseteq Sessions
  /\ commands \in 0 .. MaxCommands
  /\ mishaps \in 0 .. MaxMishaps

Init ==
  /\ now = 0
  /\ lease = NoLease
  /\ health = [status |-> "STOPPED", session |-> NoOne]
  /\ links = {}
  /\ capacity = 0
  /\ exec = [e \in Execs |-> NoExec]
  /\ watch = {}
  /\ host = [h \in Hosts |-> NoHost]
  /\ started = {}
  /\ commands = 0
  /\ mishaps = 0

Terminal == lease.state \in {"ABSENT", "STOPPED"}
Mishap == mishaps < MaxMishaps /\ mishaps' = mishaps + 1
Step(e, pc) == exec' = [exec EXCEPT ![e].pc = pc]
End(e) == exec' = [exec EXCEPT ![e] = NoExec]

\* A decision hands on its session, revision, operation and direction, and
\* nothing else.
Decided(e, act, op, rev) ==
  exec' = [exec EXCEPT ![e] = [NoExec EXCEPT !.pc = "scale", !.act = act, !.s = exec[e].s,
                                             !.op = op, !.rev = rev]]

\* An invocation raised: the first task of an execution is retried twice, any
\* other ends the execution.
Raise(e) ==
  /\ Mishap
  /\ IF exec[e].pc \in {"release", "health"} \/ exec[e].act = "WATCH" \/ exec[e].tries = 2
     THEN End(e)
     ELSE exec' = [exec EXCEPT ![e].pc = "prepare", ![e].op = NoOne, ![e].tries = @ + 1]

-----------------------------------------------------------------------------
(* Commands: from the runtime control function, the schedule, a watchdog *)

Command(e, act, s, rev, hard) ==
  /\ exec[e] = NoExec
  /\ exec' = [exec EXCEPT ![e] = [NoExec EXCEPT !.pc = "prepare", !.act = act, !.s = s,
                                                !.rev = rev, !.hard = hard]]

\* selectStartProfile has read a stopped candidate and a stopped lease.
StartCommand(e, s) ==
  /\ s \notin started
  /\ now + HardTime + OpTime <= MaxTime
  /\ Terminal /\ health.status = "STOPPED"
  /\ Command(e, "START", s, lease.rev, now + HardTime)
  /\ started' = started \cup {s}
  /\ UNCHANGED <<now, lease, health, links, capacity, watch, host, commands, mishaps>>

\* The binding of a session carries the deadline its START was sent with; a
\* session whose lease was never claimed has none to stop.
UserCommand(e, s, act) ==
  /\ s \in started /\ commands < MaxCommands
  /\ lease.session = s
  /\ act = "ACTIVITY" => lease.state = "READY"
  /\ Command(e, act, s, lease.rev, lease.hard)
  /\ commands' = commands + 1
  /\ UNCHANGED <<now, lease, health, links, capacity, watch, host, started, mishaps>>

ReapCommand(e) ==
  /\ Command(e, "REAP", NoOne, 0, 0)
  /\ UNCHANGED <<now, lease, health, links, capacity, watch, host, rest, mishaps>>

WatchCommand(e, w) ==
  /\ w.deadline <= now
  /\ Command(e, "WATCH", w.s, w.rev, w.deadline)
  /\ watch' = watch \ {w}
  /\ UNCHANGED <<now, lease, health, links, capacity, host, rest, mishaps>>

\* _validate_command: the deadline of the binding is yet to come.
BindingCurrent(e) == exec[e].hard > now

-----------------------------------------------------------------------------
(* START *)

\* Mutant: the claim forgets to compare the revision.
ClaimableAnyRevision(e) ==
  /\ lease.state \in {"ABSENT", "STOPPED", "FAILED"}
  /\ lease.op = NoOne

Claimable(e) ==
  /\ lease.state = "ABSENT" \/ (lease.state \in {"STOPPED", "FAILED"} /\ lease.rev = exec[e].rev)
  /\ lease.op = NoOne

ClaimLease(e) ==
  lease' = [state |-> "STARTING", session |-> exec[e].s, rev |-> exec[e].rev + 1,
            idle |-> Min2(now + IdleTime, exec[e].hard), hard |-> exec[e].hard,
            op |-> e, opExp |-> now + OpTime, ready |-> FALSE]

SameReservation(e) ==
  /\ lease.session = exec[e].s /\ lease.state = "STARTING"
  /\ lease.rev = exec[e].rev + 1
  /\ lease.op # NoOne /\ lease.opExp > now

Claim(e) ==
  /\ exec[e].pc = "prepare" /\ exec[e].act = "START"
  /\ \/ /\ BindingCurrent(e) /\ Claimable(e)
        /\ ClaimLease(e)
        /\ \/ /\ exec' = [exec EXCEPT ![e].pc = "endpoints", ![e].at = now, ![e].op = e]
              /\ UNCHANGED mishaps
           \/ Raise(e)
     \/ /\ BindingCurrent(e) /\ ~Claimable(e) /\ SameReservation(e)
        /\ exec' = [exec EXCEPT ![e].pc = "endpoints", ![e].at = now, ![e].op = lease.op]
        /\ UNCHANGED <<lease, mishaps>>
     \/ /\ ~BindingCurrent(e) \/ ~(Claimable(e) \/ SameReservation(e))
        /\ End(e)
        /\ UNCHANGED <<lease, mishaps>>
  /\ UNCHANGED <<now, health, links, capacity, watch, host, rest>>

\* Endpoints of other sessions are deleted first; a failure abandons the start.
EnsureEndpoints(e) ==
  /\ exec[e].pc = "endpoints"
  /\ \/ links' = {exec[e].s} /\ Step(e, "commit") /\ UNCHANGED mishaps
     \/ Step(e, "abandon") /\ Mishap /\ links' \in {links, {exec[e].s}}
  /\ UNCHANGED <<now, lease, health, capacity, watch, host, rest>>

Reserved(e) ==
  /\ lease.session = exec[e].s /\ lease.state = "STARTING"
  /\ lease.rev = exec[e].rev + 1 /\ lease.op = exec[e].op

\* The endpoints and credentials are stored under the reservation.  A refusal
\* is no conflict when the item already holds them.
CommitStart(e) ==
  /\ exec[e].pc = "commit"
  /\ \/ /\ Reserved(e)
        /\ lease' = [lease EXCEPT !.ready = TRUE]
        /\ \/ Decided(e, "START", exec[e].op, exec[e].rev) /\ UNCHANGED mishaps
           \/ Step(e, "abandon") /\ Mishap
     \/ /\ ~Reserved(e)
        /\ Step(e, "abandon")
        /\ UNCHANGED <<lease, mishaps>>
     \/ Step(e, "abandon") /\ Mishap /\ UNCHANGED lease
  /\ UNCHANGED <<now, health, links, capacity, watch, host, rest>>

\* Three tries, then the lease is left as it is.
Abandon(e) ==
  /\ exec[e].pc = "abandon"
  /\ \/ /\ lease' = IF Reserved(e)
                    THEN [lease EXCEPT !.state = "FAILED", !.op = NoOne, !.opExp = 0,
                                       !.ready = FALSE]
                    ELSE lease
        /\ UNCHANGED mishaps
     \/ UNCHANGED lease /\ Mishap
  /\ Step(e, "cleanup")
  /\ UNCHANGED <<now, health, links, capacity, watch, host, rest>>

\* _cleanup_session_endpoints, then a rejection or a raise that is retried; a
\* retry finds its own reservation failed and is rejected.
Cleanup(e) ==
  /\ exec[e].pc = "cleanup"
  /\ links' = links \ {exec[e].s}
  /\ \/ End(e)
     \/ /\ exec[e].tries < 2
        /\ exec' = [exec EXCEPT ![e].pc = "prepare", ![e].op = NoOne, ![e].tries = @ + 1]
  /\ UNCHANGED <<now, lease, health, capacity, watch, host, rest, mishaps>>

-----------------------------------------------------------------------------
(* ACTIVITY *)

\* The item that is read and the condition of the write agree, so both are one
\* step; a repeated write that meets its own result is the same as done.
Activity(e) ==
  LET ok == /\ BindingCurrent(e)
            /\ lease.session = exec[e].s /\ lease.state = "READY"
            /\ lease.rev = exec[e].rev /\ lease.op = NoOne
      idle == Min2(now + IdleTime, lease.hard) IN
  /\ exec[e].pc = "prepare" /\ exec[e].act = "ACTIVITY"
  /\ \/ /\ ok
        /\ lease' = [lease EXCEPT !.idle = idle, !.rev = @ + 1]
        /\ \/ /\ End(e) /\ UNCHANGED mishaps
              /\ watch' = watch \cup {[s |-> exec[e].s, rev |-> lease.rev + 1, deadline |-> idle]}
           \/ Raise(e) /\ UNCHANGED watch
     \/ ~ok /\ End(e) /\ UNCHANGED <<lease, watch, mishaps>>
  /\ UNCHANGED <<now, health, links, capacity, host, rest>>

-----------------------------------------------------------------------------
(* STOP and REAP: the decision on the item that was read, then the fenced write *)

Drainable == lease.state \in {"STARTING", "READY", "FAILED"}

Lapsed(at) ==
  \/ lease.hard <= at \/ lease.idle <= at
  \/ lease.op # NoOne /\ lease.opExp <= at

WantsDown(e) ==
  CASE exec[e].act = "STOP"  -> /\ BindingCurrent(e) /\ ~Terminal
                                /\ lease.session = exec[e].s /\ lease.rev = exec[e].rev
    [] exec[e].act = "REAP"  -> ~Terminal /\ Lapsed(now)
    [] exec[e].act = "WATCH" -> /\ ~Terminal /\ Lapsed(now)
                                /\ lease.session = exec[e].s /\ lease.rev = exec[e].rev
                                /\ lease.idle = exec[e].hard

\* Mutant: only a watchdog looks for orphans.
SweepsOnWatchOnly(e) == Terminal /\ exec[e].act = "WATCH"

SweepsOrphans(e) == Terminal /\ exec[e].act # "STOP"

\* The session and revision of the write are the ones read here.
Decide(e) ==
  /\ exec[e].pc = "prepare" /\ exec[e].act \in {"STOP", "REAP", "WATCH"}
  /\ \/ /\ WantsDown(e)
        /\ exec' = [exec EXCEPT ![e].pc = "drain", ![e].at = now, ![e].s = lease.session,
                                ![e].rev = lease.rev]
     \/ /\ ~WantsDown(e)
        /\ IF SweepsOrphans(e)
           THEN exec' = [exec EXCEPT ![e].pc = "sweep", ![e].at = now]
           ELSE End(e)
  /\ UNCHANGED <<now, lease, health, links, capacity, watch, host, rest, mishaps>>

\* _cleanup_orphan_endpoints: what it lists, it deletes.
Sweep(e) ==
  /\ exec[e].pc = "sweep"
  /\ \/ links' = {} /\ End(e) /\ UNCHANGED mishaps
     \/ Raise(e) /\ UNCHANGED links
  /\ UNCHANGED <<now, lease, health, capacity, watch, host, rest>>

\* Mutant: a lease whose operation lapsed is left alone.
DrainOkNoTakeover(e) ==
  /\ lease.session = exec[e].s /\ lease.rev = exec[e].rev /\ Drainable
  /\ lease.op = NoOne

DrainOk(e) ==
  /\ lease.session = exec[e].s /\ lease.rev = exec[e].rev /\ Drainable
  /\ lease.op = NoOne \/ lease.opExp <= exec[e].at

BeginDown(e) ==
  /\ exec[e].pc = "drain"
  /\ \/ /\ DrainOk(e)
        /\ lease' = [lease EXCEPT !.state = "DRAINING", !.rev = @ + 1, !.op = e,
                                  !.opExp = exec[e].at + OpTime]
        /\ \/ Decided(e, "STOP", e, exec[e].rev + 1) /\ UNCHANGED mishaps
           \/ Raise(e)
     \/ ~DrainOk(e) /\ End(e) /\ UNCHANGED <<lease, mishaps>>
     \/ Raise(e) /\ UNCHANGED lease
  /\ UNCHANGED <<now, health, links, capacity, watch, host, rest>>

-----------------------------------------------------------------------------
(* The rest of an execution: scale, finalize, watchdog *)

Up(e) == exec[e].act = "START"
OpRev(e) == IF Up(e) THEN exec[e].rev + 1 ELSE exec[e].rev

\* Setting the desired capacity to zero terminates what runs, in its own time.
Scale(e) ==
  /\ exec[e].pc = "scale"
  /\ \/ /\ capacity' = IF Up(e) THEN 1 ELSE 0
        /\ host' = IF Up(e) THEN host
                   ELSE [h \in Hosts |-> IF host[h].pc = "none" THEN host[h]
                                         ELSE [host[h] EXCEPT !.doomed = TRUE]]
        /\ exec' = [exec EXCEPT ![e].pc = "finalize"]
        /\ UNCHANGED mishaps
     \/ End(e) /\ Mishap /\ UNCHANGED <<capacity, host>>
  /\ UNCHANGED <<now, lease, health, links, watch, rest>>

\* Mutant: a final write that does not ask whose operation it is.
MineAnyOperation(e) == lease.session = exec[e].s

Mine(e) == /\ lease.session = exec[e].s /\ lease.rev = OpRev(e)
           /\ lease.op = exec[e].op

Watched(e) == [s |-> exec[e].s, rev |-> OpRev(e), deadline |-> lease.idle]

\* An upscale ends with the watchdog on the idle deadline, a downscale goes on
\* to the endpoints and the health item.  A repeated write finds it was done
\* and ends there.
Finalize(e) ==
  LET final == IF Up(e) THEN "STARTING" ELSE "STOPPED"
      done == lease.session = exec[e].s /\ lease.state = final /\ lease.op = NoOne IN
  /\ exec[e].pc = "finalize"
  /\ \/ /\ Mine(e)
        /\ lease' = [lease EXCEPT !.state = final, !.op = NoOne, !.opExp = 0,
                                  !.ready = Up(e) /\ @]
        /\ \/ /\ ~Up(e)
              /\ exec' = [exec EXCEPT ![e].pc = "release", ![e].at = now]
              /\ UNCHANGED <<watch, mishaps>>
           \/ Up(e) /\ End(e) /\ watch' = watch \cup {Watched(e)} /\ UNCHANGED mishaps
           \/ End(e) /\ Mishap /\ UNCHANGED watch
     \/ /\ ~Mine(e)
        /\ End(e)
        /\ watch' = IF done /\ Up(e) THEN watch \cup {Watched(e)} ELSE watch
        /\ UNCHANGED <<lease, mishaps>>
     \/ End(e) /\ Mishap /\ UNCHANGED <<lease, watch>>
  /\ UNCHANGED <<now, health, links, capacity, host, rest>>

Release(e) ==
  /\ exec[e].pc = "release"
  /\ \/ links' = {} /\ Step(e, "health") /\ UNCHANGED mishaps
     \/ Raise(e) /\ UNCHANGED links
  /\ UNCHANGED <<now, lease, health, capacity, watch, host, rest>>

PublishStopped(e) ==
  /\ exec[e].pc = "health"
  /\ \/ health' = [status |-> "STOPPED", session |-> exec[e].s] /\ End(e) /\ UNCHANGED mishaps
     \/ Raise(e) /\ UNCHANGED health
  /\ UNCHANGED <<now, lease, links, capacity, watch, host, rest>>

-----------------------------------------------------------------------------
(* The host *)

HostStep(h, pc) == host' = [host EXCEPT ![h].pc = pc]
HostExit(h) == host' = [host EXCEPT ![h] = [NoHost EXCEPT !.pc = "exited", !.doomed = host[h].doomed]]
others == <<now, links, capacity, exec, watch, rest>>

Launch(h) ==
  /\ capacity = 1 /\ host[h].pc = "none"
  /\ \A g \in Hosts : host[g].pc = "none" \/ host[g].doomed
  /\ HostStep(h, "booting")
  /\ UNCHANGED <<others, lease, health, mishaps>>

\* main: the supervisor serves the session that is starting when it looks.  It
\* cannot come up without the credentials that the start stores.
Boot(h) ==
  /\ host[h].pc = "booting"
  /\ host' = [host EXCEPT ![h] =
       IF lease.state = "STARTING"
       THEN [@ EXCEPT !.pc = IF lease.ready THEN "starting" ELSE "failing",
                      !.s = lease.session, !.hard = lease.hard]
       ELSE [@ EXCEPT !.pc = "exited"]]
  /\ UNCHANGED <<others, lease, health, mishaps>>

\* The probes of the components, and of the model behind the endpoints.
ModelReady(h) == host[h].s \in links

\* _publish_health with transition_ready.
Ready(h) ==
  LET ok == /\ lease.session = host[h].s /\ lease.state = "STARTING"
            /\ lease.op = NoOne IN
  /\ host[h].pc = "starting" /\ ModelReady(h)
  /\ lease' = IF ok THEN [lease EXCEPT !.state = "READY"] ELSE lease
  /\ HostStep(h, IF ok THEN "announce" ELSE "failing")
  /\ UNCHANGED <<others, health, mishaps>>

\* Components that do not come up by the deadline, or a host that cannot go on.
HostFails(h) ==
  /\ host[h].pc \in {"starting", "announce", "work"}
  /\ HostStep(h, "failing")
  /\ \/ ~ModelReady(h) /\ UNCHANGED mishaps
     \/ Mishap
  /\ UNCHANGED <<others, lease, health>>

\* Every health item is put without a condition.
PutHealth(h, status) == health' = [status |-> status, session |-> host[h].s]

Announce(h) ==
  /\ host[h].pc = "announce"
  /\ PutHealth(h, "READY") /\ HostStep(h, "loop")
  /\ UNCHANGED <<others, lease, mishaps>>

\* One round of the loop reads the lease, works, and then says how it is; the
\* last verdict on the model stands for five minutes.
Look(h) ==
  /\ host[h].pc = "loop"
  /\ IF \/ lease.session # host[h].s
        \/ lease.state \in {"ABSENT", "DRAINING", "STOPPED"}
        \/ now >= host[h].hard
     THEN HostExit(h) ELSE HostStep(h, "work")
  /\ UNCHANGED <<others, lease, health, mishaps>>

Report(h) ==
  /\ host[h].pc = "work"
  /\ \/ PutHealth(h, "READY") /\ UNCHANGED mishaps
     \/ PutHealth(h, "UNHEALTHY") /\ ~ModelReady(h) /\ UNCHANGED mishaps
     \/ PutHealth(h, "UNHEALTHY") /\ Mishap
  /\ HostStep(h, "loop")
  /\ UNCHANGED <<others, lease>>

\* _mark_failed, and its finally.
MarkFailed(h) ==
  /\ host[h].pc = "failing"
  /\ lease' = IF lease.session = host[h].s /\ lease.state = "STARTING"
              THEN [lease EXCEPT !.state = "FAILED"] ELSE lease
  /\ HostStep(h, "unhealthy")
  /\ UNCHANGED <<others, health, mishaps>>

PublishUnhealthy(h) ==
  /\ host[h].pc = "unhealthy"
  /\ PutHealth(h, "UNHEALTHY") /\ HostExit(h)
  /\ UNCHANGED <<others, lease, mishaps>>

\* The group ends an instance it no longer wants, or one dies.
Terminate(h) ==
  /\ host[h].pc # "none"
  /\ \/ host[h].doomed /\ UNCHANGED mishaps
     \/ Mishap
  /\ host' = [host EXCEPT ![h] = NoHost]
  /\ UNCHANGED <<others, lease, health>>

-----------------------------------------------------------------------------

\* An invocation does not outlive the function's timeout.
Tick ==
  /\ now < MaxTime
  /\ \A e \in Execs : exec[e].pc \in InLambda => now < exec[e].at + LambdaTime
  /\ now' = now + 1
  /\ UNCHANGED <<lease, health, links, capacity, exec, watch, host, rest, mishaps>>

\* An invocation that crashes or times out leaves what it had done so far.
TimeOut(e) ==
  /\ exec[e].pc \in InLambda
  /\ Raise(e)
  /\ UNCHANGED <<now, lease, health, links, capacity, watch, host, rest>>

Invocation(e) ==
  \/ Claim(e) \/ EnsureEndpoints(e) \/ CommitStart(e) \/ Abandon(e) \/ Cleanup(e)
  \/ Activity(e) \/ Decide(e) \/ Sweep(e) \/ BeginDown(e)
  \/ Scale(e) \/ Finalize(e) \/ Release(e) \/ PublishStopped(e)

HostNext(h) ==
  \/ Boot(h) \/ Ready(h) \/ HostFails(h) \/ Announce(h) \/ Look(h) \/ Report(h)
  \/ MarkFailed(h) \/ PublishUnhealthy(h)

Next ==
  \/ \E e \in Execs : \/ \E s \in Sessions : \/ StartCommand(e, s)
                                            \/ \E a \in {"STOP", "ACTIVITY"} : UserCommand(e, s, a)
                      \/ ReapCommand(e)
                      \/ \E w \in watch : WatchCommand(e, w)
                      \/ Invocation(e) \/ TimeOut(e)
  \/ \E h \in Hosts : Launch(h) \/ HostNext(h) \/ Terminate(h)
  \/ Tick

Spec == Init /\ [][Next]_vars

\* Step Functions runs the tasks of an execution, and starts a reaper whenever
\* there is room for one; the clock goes on.
FairSpec ==
  /\ Spec
  /\ WF_vars(Tick)
  /\ \A e \in Execs : WF_vars(Invocation(e))
  /\ SF_vars(\E e \in Execs : ReapCommand(e))

-----------------------------------------------------------------------------
(* Properties *)

\* A lease that is READY has its endpoints and credentials stored and no
\* operation of anybody pending: whatever slow start, stale host or repeated
\* final write came in between, readiness follows a completed start of this
\* very revision.
ReadyIsComplete == lease.state = "READY" => lease.ready /\ lease.op = NoOne

\* The lease belongs to a session that was started, within the horizon, and one that
\* is served has been completed.
Leased ==
  /\ lease.session \in started \cup {NoOne}
  /\ lease.state # "ABSENT" => lease.session \in started
  /\ lease.state = "ABSENT" => lease.rev = 0
  /\ lease.state = "READY" => lease.op = NoOne
  /\ lease.state \in {"STARTING", "READY"} /\ lease.op = NoOne => lease.ready
  /\ lease.idle <= MaxTime /\ lease.hard <= MaxTime
  /\ \A w \in watch : w.s \in started /\ w.deadline <= MaxTime

\* A start is of a revision that its session did not have the lease at, and its
\* operation, as long as it is the lease's, has not left STARTING and FAILED.
Starts(e) ==
  exec[e].act = "START" =>
    /\ exec[e].pc \notin {"sweep", "drain", "release", "health"}
    /\ exec[e].s \in started /\ exec[e].rev <= lease.rev
    /\ exec[e].pc # "prepare" \/ exec[e].s = lease.session => exec[e].rev < lease.rev
    /\ exec[e].pc \in {"endpoints", "commit", "abandon", "scale", "finalize"} =>
         exec[e].op # NoOne
    /\ /\ exec[e].pc \in {"scale", "finalize"}
       /\ lease.rev = exec[e].rev + 1 /\ lease.op = exec[e].op
       => lease.ready /\ lease.state \in {"STARTING", "FAILED"}

\* A stop is of the session it read, and its operation keeps the lease DRAINING.
Stops(e) ==
  exec[e].act # "START" =>
    /\ exec[e].pc \notin {"endpoints", "commit", "abandon", "cleanup"}
    /\ exec[e].pc \in {"drain", "scale", "finalize", "release", "health"} => exec[e].s \in started
    /\ exec[e].pc \in {"scale", "finalize"} =>
         /\ exec[e].op # NoOne /\ exec[e].rev <= lease.rev
         /\ lease.rev = exec[e].rev /\ lease.op = exec[e].op => lease.state = "DRAINING"

\* A host serves a session that was started.
Serves(h) == host[h].pc \notin {"none", "booting", "exited"} => host[h].s \in started

IInv ==
  /\ TypeOK /\ Leased
  /\ \A e \in Execs : Starts(e) /\ Stops(e) /\ exec[e].hard <= MaxTime
  /\ \A h \in Hosts : Serves(h)

\* The lease and the health item behave as CoreLease promises: in particular a
\* session that was drained stays down, no delayed or repeated START, finalize
\* or host brings it back, since each is bound to a revision.
Lease == INSTANCE CoreLease WITH
  Instants <- 0 .. MaxTime,
  lease <- [state |-> lease.state, session |-> lease.session, rev |-> lease.rev,
            idle |-> lease.idle, hard |-> lease.hard],
  health <- health
ImplementsLease == Lease!Spec

\* A lease past its hard deadline does not stay up: the reaper drains it even
\* when the execution that held its operation died.
LapsedIsDrained ==
  (Drainable /\ lease.hard <= now) ~> ~Drainable

\* Endpoints that an interrupted stop left behind are found by the reaper.
OrphansAreRemoved ==
  (lease.state = "STOPPED" /\ links # {}) ~> (links = {} \/ lease.state # "STOPPED")

\* README.md: "Stop, expiry, failure, or the independent reaper drains work,
\* resets the fixture, and returns desired capacity to zero."
ReaperReturnsCapacity ==
  (lease.state # "ABSENT" /\ lease.hard <= now) ~> capacity = 0
=============================================================================

--------------------------- MODULE RuntimeSession ---------------------------
(***************************************************************************)
(* Runtime sessions: the item that says who may use DataHub Cloud or the   *)
(* ephemeral Core and until when, moved by requests to the runtime control *)
(* function that run side by side.  A request takes the time, reads the    *)
(* session, reads the health of its runtime, computes the next session,    *)
(* sends a command to Core and updates the item if its revision is still   *)
(* the one it read.  It may die between any two of these.  Core itself is  *)
(* CoreLease; a command is taken by some execution later on.  Owners,      *)
(* identities and the shape of the items are those the program stores.     *)
(***************************************************************************)
EXTENDS CoreLease, FiniteSets

CONSTANTS
  Others,      \* those whose own requests are not looked at, only their Core
  Requests,    \* invocations of the control function at one time
  Generations, \* generations of the Cloud deployment
  Never,       \* no session: not started
  IdleTime,    \* RUNTIME_IDLE_LEASE_MS
  HardTime,    \* RUNTIME_HARD_LEASE_MS
  MaxTime,     \* bound: the clock
  MaxChanges,  \* bound: changes of the Cloud deployment
  MaxUserRequests, \* bound: activities and stops
  MaxCrashes   \* bound: requests that die

ASSUME SessionAssumption ==
  /\ Never \notin Sessions /\ Others \subseteq Sessions
  /\ IdleTime \in Nat /\ HardTime \in Nat /\ 0 < IdleTime /\ IdleTime <= HardTime
  /\ MaxTime \in Nat /\ MaxChanges \in Nat /\ MaxUserRequests \in Nat /\ MaxCrashes \in Nat

VARIABLES
  now,
  stored,   \* SESSION#id / RUNTIME
  req,      \* requests
  sent,     \* names of the executions that were started
  pending,  \* commands that no execution has taken yet
  cloud,    \* RUNTIME#cloud / HEALTH
  up,       \* sessions whose Core once came up
  changes, userRequests, crashes

core == <<lease, health>>
bounds == <<changes, userRequests, crashes>>
svars == <<now, stored, req, sent, pending, cloud, up, bounds>>
vars == <<core, svars>>

Min2(a, b) == IF a < b THEN a ELSE b

Live == {"STARTING", "ACTIVE"}
Ended == {"STOPPED", "EXPIRED", "FAILED"}
Idle == [pc |-> "idle"]

-----------------------------------------------------------------------------
(* session.js: the reducer *)

\* validateSession, of what is read back: the chronology and the profile.
ValidSession(session) ==
  /\ session.idle <= session.hard
  /\ session.hard <= session.updated + HardTime
  /\ session.profile = "core" <=> session.generation = "core"

\* createSession, with the binding of bindingFor.
Created(profile, generation, state, t) ==
  [profile |-> profile, generation |-> generation, state |-> state, rev |-> 0,
   updated |-> t, idle |-> Min2(t + IdleTime, t + HardTime), hard |-> t + HardTime]

\* evolve.
To(session, state, t) == [session EXCEPT !.state = state, !.updated = t, !.rev = @ + 1]

\* tick.
Expired(session, t) == t >= session.hard \/ t >= session.idle
Ticked(session, t) ==
  IF session.state \in Live /\ Expired(session, t) THEN To(session, "EXPIRED", t) ELSE session

\* The clock was read before the update of another request.
ClockWentBack(session, t) == t < session.updated

\* markReady and activity: the idle deadline moves, the hard one does not.
Refreshed(session, state, t) ==
  [To(session, state, t) EXCEPT !.idle = Min2(t + IdleTime, session.hard)]

RequestStop(session, t) ==
  IF session.state \in Live THEN To(session, "STOPPING", t) ELSE session

CompleteStop(session, t) == To(session, "STOPPED", t)

FailSession(session, t) ==
  IF session.state \in Ended THEN session ELSE To(session, "FAILED", t)

-----------------------------------------------------------------------------
(* reconcile: what the health of the runtime makes of the session *)

\* Mutant: the generation and the digest alone.
MatchesAnyCore(s) == TRUE

\* healthMatchesSession, for Core: the health item of this very session.
MatchesCore(s) == health.session = s

\* validateHealth: whether a READY item is recent and complete.
Fresh == BOOLEAN

\* The outcomes: a failed read counts like an item that is not fresh.
CoreSeen(s, session, t) ==
  LET failed == FailSession(session, t)
      ready == IF session.state = "STARTING" THEN Refreshed(session, "ACTIVE", t) ELSE session IN
  CASE session.state = "STOPPING" /\ health.status = "STOPPED" /\ MatchesCore(s)
         -> {CompleteStop(session, t)}
    [] health.status = "UNHEALTHY" -> {failed}
    [] health.status = "READY"
         -> {IF fresh /\ MatchesCore(s) THEN ready ELSE failed : fresh \in Fresh}
    [] OTHER -> {IF session.state = "ACTIVE" THEN failed ELSE session}

CloudSeen(session, t) ==
  IF session.state = "ACTIVE"
  THEN {IF fresh /\ cloud = session.generation THEN session ELSE FailSession(session, t) : fresh \in Fresh}
  ELSE {session}

Seen(s, session, t) ==
  CASE session.profile = "core" /\ session.state \in Live \cup {"STOPPING"} ->
         CoreSeen(s, session, t)
    [] session.profile = "cloud" -> CloudSeen(session, t)
    [] OTHER -> {session}

-----------------------------------------------------------------------------
(* Requests *)

\* What validateSession accepts, chronology and profile apart.
Session == [profile : {"cloud", "core"}, generation : Generations \cup {"core"},
            state : Live \cup Ended \cup {"STOPPING"}, rev : Nat, updated : Nat,
            idle : Nat, hard : Nat]

\* What a request has read and computed, by where it is.
Creating == [pc : {"put", "launch"}, s : Sessions, lrev : Nat, new : Session]
Serving == [pc : {"expire", "save", "activity", "refresh", "stop", "halt"},
            op : {"status", "activity", "stop"}, s : Sessions, t : Nat, rev : Nat,
            new : Session]

TypeOK ==
  /\ now \in 0 .. MaxTime
  /\ lease \in [state : {"ABSENT", "STARTING", "READY", "FAILED", "DRAINING", "STOPPED"},
                session : Sessions \cup {NoOne}, rev : Nat, idle : Nat, hard : Nat]
  /\ health \in [status : {"STOPPED", "READY", "UNHEALTHY"}, session : Sessions \cup {NoOne}]
  /\ stored \in [Sessions -> Session \cup {Never}]
  /\ req \in [Requests -> {Idle} \cup Creating \cup Serving]
  /\ sent \subseteq [act : {"START", "ACTIVITY", "STOP"}, s : Sessions, rev : Nat]
  /\ pending \subseteq [act : {"START", "ACTIVITY", "STOP"}, s : Sessions, rev : Nat, hard : Nat]
  /\ cloud \in Generations \cup {"down"}
  /\ up \subseteq Sessions
  /\ changes \in 0 .. MaxChanges /\ userRequests \in 0 .. MaxUserRequests
  /\ crashes \in 0 .. MaxCrashes

SInit ==
  /\ Init
  /\ now = 0
  /\ stored = [s \in Sessions |-> Never]
  /\ req = [r \in Requests |-> Idle]
  /\ sent = {}
  /\ pending \in SUBSET [act : {"START"}, s : Others, rev : {0}, hard : {HardTime}]
  /\ cloud \in Generations
  /\ up = {}
  /\ changes = 0 /\ userRequests = 0 /\ crashes = 0

\* A request is at most one instant late.
Slow(t) == {u \in 0 .. t : t <= u + 1}

Go(r, next) == req' = [req EXCEPT ![r] = next]
End(r) == Go(r, Idle)
elsewhere == <<core, now, cloud, up, changes>>

\* StartExecution.  A name is taken for ever; while its execution is there the
\* same request is answered like the first.
Name(act, s, rev) == [act |-> act, s |-> s, rev |-> rev]
Input(act, s, hard) == [act |-> act, s |-> s, rev |-> lease.rev, hard |-> hard]

Accepted(act, s, session) ==
  /\ Name(act, s, session.rev) \notin sent \/ Input(act, s, session.hard) \in pending
  /\ sent' = sent \cup {Name(act, s, session.rev)}
  /\ pending' = pending \cup {Input(act, s, session.hard)}

Refused(act, s, session) ==
  /\ Name(act, s, session.rev) \in sent /\ Input(act, s, session.hard) \notin pending
  /\ UNCHANGED <<sent, pending>>

\* selectStartProfile.  The reads of health and lease are one step: what they
\* find is fenced by the revision that the command carries.
CoreLaunchable == health.status = "STOPPED" /\ Terminal

Start(r, s, asked) ==
  /\ req[r] = Idle /\ stored[s] = Never
  /\ \A q \in Requests : req[q] # Idle => req[q].s # s
  /\ now + HardTime <= MaxTime
  /\ \/ /\ asked \in {"auto", "cloud"} /\ cloud # "down"
        /\ Go(r, [pc |-> "put", s |-> s, lrev |-> 0,
                  new |-> Created("cloud", cloud, "ACTIVE", now)])
     \/ /\ asked = "core" \/ (asked = "auto" /\ cloud = "down")
        /\ CoreLaunchable
        /\ Go(r, [pc |-> "put", s |-> s, lrev |-> lease.rev,
                  new |-> Created("core", "core", "STARTING", now)])
  /\ UNCHANGED <<elsewhere, stored, sent, pending, userRequests, crashes>>

\* putSession, then for Core the command.
Put(r) ==
  /\ req[r].pc = "put"
  /\ stored' = [stored EXCEPT ![req[r].s] = req[r].new]
  /\ IF req[r].new.profile = "core" THEN Go(r, [req[r] EXCEPT !.pc = "launch"]) ELSE End(r)
  /\ UNCHANGED <<elsewhere, sent, pending, userRequests, crashes>>

\* Mutant: the update does not compare the revision.
SaveAnyRevision(s, rev, new) == stored' = [stored EXCEPT ![s] = new]

\* updateSession: nothing to write, or a write that a conflict refuses.
Save(s, rev, new) ==
  IF new.rev # rev /\ stored[s].rev = rev THEN stored' = [stored EXCEPT ![s] = new]
  ELSE UNCHANGED stored

Launch(r) ==
  LET s == req[r].s IN
  /\ req[r].pc = "launch"
  /\ \/ /\ sent' = sent \cup {Name("START", s, 0)}
        /\ pending' = pending \cup {[act |-> "START", s |-> s, rev |-> req[r].lrev,
                                     hard |-> req[r].new.hard]}
        /\ UNCHANGED <<stored, crashes>>
     \/ /\ crashes < MaxCrashes /\ crashes' = crashes + 1
        /\ Save(s, 0, FailSession(req[r].new, now))
        /\ UNCHANGED <<sent, pending>>
  /\ End(r)
  /\ UNCHANGED <<elsewhere, userRequests>>

ToExpire(old, new) ==
  old.state # "EXPIRED" /\ new.state = "EXPIRED" /\ new.profile = "core"

\* readSession and reconcile.  The time is taken first, the item and the health
\* are read a little later, here in one step: an item that changes between the
\* two reads changes before the update as well.  A session that the clock
\* expired is stopped on Core before it is recorded.
Arrive(r, s, op) ==
  /\ req[r] = Idle /\ stored[s] # Never /\ ValidSession(stored[s])
  /\ op # "status" => userRequests < MaxUserRequests
  /\ userRequests' = IF op = "status" THEN userRequests ELSE userRequests + 1
  /\ \E t \in Slow(now) :
       /\ ~ClockWentBack(stored[s], t)
       /\ \E new \in Seen(s, Ticked(stored[s], t), t) :
            /\ op = "status" => new # stored[s]
            /\ Go(r, [pc |-> IF ToExpire(stored[s], new) THEN "expire" ELSE "save",
                      op |-> op, s |-> s, t |-> t, rev |-> stored[s].rev, new |-> new])
  /\ UNCHANGED <<elsewhere, stored, sent, pending, crashes>>

Expire(r) ==
  /\ req[r].pc = "expire"
  /\ \/ Accepted("STOP", req[r].s, req[r].new) /\ Go(r, [req[r] EXCEPT !.pc = "save"])
     \/ Refused("STOP", req[r].s, req[r].new) /\ End(r)
  /\ UNCHANGED <<elsewhere, stored, userRequests, crashes>>

Held(s, rev, new) == new.rev = rev \/ stored[s].rev = rev

Saved(r) ==
  LET s == req[r].s
      new == req[r].new IN
  /\ req[r].pc = "save"
  /\ Save(s, req[r].rev, new)
  /\ IF req[r].op # "status" /\ Held(s, req[r].rev, new)
     THEN Go(r, [req[r] EXCEPT !.pc = req[r].op, !.rev = new.rev])
     ELSE End(r)
  /\ UNCHANGED <<elsewhere, sent, pending, userRequests, crashes>>

\* recordActivity: only the Core that serves the session is told, and it is
\* told first.
Activity(r) ==
  LET s == req[r].s
      session == req[r].new
      served == session.profile = "cloud" \/ (lease.session = s /\ lease.state = "READY") IN
  /\ req[r].pc = "activity"
  /\ \/ /\ session.state = "ACTIVE" /\ served
        /\ \/ /\ session.profile = "core" => Accepted("ACTIVITY", s, session)
              /\ session.profile = "cloud" => UNCHANGED <<sent, pending>>
              /\ Go(r, [req[r] EXCEPT !.pc = "refresh"])
           \/ session.profile = "core" /\ Refused("ACTIVITY", s, session) /\ End(r)
     \/ ~(session.state = "ACTIVE" /\ served) /\ End(r) /\ UNCHANGED <<sent, pending>>
  /\ UNCHANGED <<elsewhere, stored, userRequests, crashes>>

Refresh(r) ==
  /\ req[r].pc = "refresh"
  /\ Save(req[r].s, req[r].rev, Refreshed(req[r].new, "ACTIVE", req[r].t))
  /\ End(r)
  /\ UNCHANGED <<elsewhere, sent, pending, userRequests, crashes>>

ToHalt(r, new) == new.rev # req[r].rev /\ Held(req[r].s, req[r].rev, new)

\* stopSession: recorded first and then sent, for Core.
Stopping(r) ==
  LET new == RequestStop(req[r].new, req[r].t) IN
  /\ req[r].pc = "stop"
  /\ Save(req[r].s, req[r].rev, new)
  /\ IF ToHalt(r, new)
     THEN Go(r, [req[r] EXCEPT !.pc = "halt", !.rev = new.rev, !.new = new])
     ELSE End(r)
  /\ UNCHANGED <<elsewhere, sent, pending, userRequests, crashes>>

Halt(r) ==
  LET s == req[r].s
      session == req[r].new IN
  /\ req[r].pc = "halt"
  /\ \/ /\ session.profile = "core"
        /\ \/ Accepted("STOP", s, session) /\ UNCHANGED <<stored, crashes>>
           \/ /\ \/ Refused("STOP", s, session) /\ UNCHANGED crashes
                 \/ /\ crashes < MaxCrashes /\ crashes' = crashes + 1
                    /\ UNCHANGED <<sent, pending>>
              /\ Save(s, req[r].rev, FailSession(session, now))
     \/ /\ session.profile = "cloud"
        /\ Save(s, req[r].rev, CompleteStop(session, req[r].t))
        /\ UNCHANGED <<sent, pending, crashes>>
  /\ End(r)
  /\ UNCHANGED <<elsewhere, userRequests>>

\* The function is cut off: whatever it had sent and stored remains.
Die(r) ==
  /\ req[r] # Idle
  /\ crashes < MaxCrashes /\ crashes' = crashes + 1
  /\ End(r)
  /\ UNCHANGED <<elsewhere, stored, sent, pending, userRequests>>

-----------------------------------------------------------------------------
(* Core and Cloud *)

beside == <<now, stored, req, sent, cloud, bounds>>

\* An execution takes a command: the revision and the deadline are checked,
\* and a command that comes too late is rejected.
Take(c) ==
  LET fits == c.rev = lease.rev /\ c.hard > now
      own == fits /\ lease.session = c.s IN
  /\ c \in pending
  /\ pending' = pending \ {c}
  /\ \/ c.act = "START" /\ fits /\ Claim(c.s, Min2(now + IdleTime, c.hard), c.hard)
     \/ c.act = "ACTIVITY" /\ own /\ Renew(Min2(now + IdleTime, lease.hard))
     \/ c.act = "STOP" /\ own /\ Drain
     \/ UNCHANGED core
  /\ UNCHANGED <<beside, up>>

CoreMoves ==
  /\ \/ \E state \in {"STARTING", "READY", "FAILED"} : Move(state)
     \/ (lease.idle <= now \/ lease.hard <= now) /\ Drain
     \/ Stop
  /\ up' = IF lease'.state = "READY" THEN up \cup {lease'.session} ELSE up
  /\ UNCHANGED <<beside, pending>>

\* The host of a session that was up says how it is, and FINALIZE that it is
\* stopped.
CoreReports ==
  /\ \/ \E s \in up : \E status \in {"READY", "UNHEALTHY"} : Publish(status, s)
     \/ lease.state = "STOPPED" /\ Publish("STOPPED", lease.session)
  /\ health' # health
  /\ UNCHANGED <<beside, pending, up>>

CloudChanges ==
  /\ changes < MaxChanges /\ changes' = changes + 1
  /\ cloud' \in (Generations \cup {"down"}) \ {cloud}
  /\ UNCHANGED <<core, now, stored, req, sent, pending, up, userRequests, crashes>>

Tick ==
  /\ now < MaxTime
  /\ now' = now + 1
  /\ UNCHANGED <<core, stored, req, sent, pending, cloud, up, bounds>>

Work(r) ==
  \/ Put(r) \/ Launch(r) \/ Expire(r) \/ Saved(r)
  \/ Activity(r) \/ Refresh(r) \/ Stopping(r) \/ Halt(r)

SNext ==
  \/ \E r \in Requests : \/ \E s \in Sessions \ Others :
                              \/ \E asked \in {"auto", "cloud", "core"} : Start(r, s, asked)
                              \/ \E op \in {"status", "activity", "stop"} : Arrive(r, s, op)
                         \/ Work(r) \/ Die(r)
  \/ \E c \in pending : Take(c)
  \/ CoreMoves \/ CoreReports \/ CloudChanges \/ Tick

SSpec == SInit /\ [][SNext]_vars

-----------------------------------------------------------------------------
(* Properties *)

\* session.test "cannot be revived by late activity": a session that was
\* recorded as stopped, expired or failed is never changed again, however old
\* the read of the request that would refresh, stop or fail it.
TerminalIsFinal ==
  [][\A s \in Sessions :
       stored[s] # Never /\ stored[s].state \in Ended => stored'[s] = stored[s]]_vars

\* An expired session on Core is recorded only after its stop was sent.
StopSent(s) == \E name \in sent : name.act = "STOP" /\ name.s = s
ExpiredWasCommanded ==
  \A s \in Sessions :
    stored[s] # Never /\ stored[s].state = "EXPIRED" /\ stored[s].profile = "core" => StopSent(s)

\* A Core session turns ACTIVE only when its own Core came up, not on the
\* health that another session left behind.
ActiveIsOwn ==
  \A s \in Sessions :
    stored[s] # Never /\ stored[s].state = "ACTIVE" /\ stored[s].profile = "core" => s \in up

\* A stop that the user was told of is sent, or the session is failed, unless
\* a request died.
StoppingIsCommanded ==
  \A s \in Sessions :
    /\ stored[s] # Never /\ stored[s].state = "STOPPING" /\ stored[s].profile = "core"
    /\ crashes = 0
    => StopSent(s) \/ \E r \in Requests : req[r].pc = "halt" /\ req[r].s = s

\* No record promises the end of a paid Core that nobody was told to end.
EndsAreCommanded == ExpiredWasCommanded /\ StoppingIsCommanded

\* Core runs for the session whose record says so: it is active on its own Core, and
\* its recorded end is one that Core was told (reconcile, expire, stop).
CoreFollowsRecord == ActiveIsOwn /\ EndsAreCommanded

\* A session is put where there was none, by its only request, and a start that fails
\* finds the item as it was put or leaves it alone.
Creates(r) ==
  req[r].pc \in {"put", "launch"} =>
    /\ req[r].new.rev = 0 /\ req[r].new.state # "EXPIRED"
    /\ req[r].new.profile = "core" => req[r].new.state = "STARTING"
    /\ req[r].pc = "put" =>
         /\ stored[req[r].s] = Never
         /\ \A q \in Requests \ {r} : req[q] # Idle => req[q].s # req[r].s
    /\ req[r].pc = "launch" =>
         /\ req[r].new.profile = "core"
         /\ stored[req[r].s] \in Session /\ stored[req[r].s].profile = "core"
         /\ stored[req[r].s].rev = 0 => stored[req[r].s] = req[r].new

\* A request that still has the revision it read knows the item, before its first update
\* and after it.
Serves(r) ==
  req[r].pc \in {"expire", "save", "activity", "refresh", "stop", "halt"} =>
    /\ stored[req[r].s] \in Session /\ stored[req[r].s].profile = req[r].new.profile
    /\ req[r].rev <= stored[req[r].s].rev /\ req[r].rev <= req[r].new.rev
    /\ req[r].rev = stored[req[r].s].rev =>
         IF req[r].rev = req[r].new.rev THEN stored[req[r].s] = req[r].new
         ELSE stored[req[r].s].state \notin Ended
    /\ IF req[r].pc \in {"expire", "save"}
       THEN req[r].new.state = "STOPPING" => req[r].rev = req[r].new.rev
       ELSE req[r].rev = req[r].new.rev
    /\ req[r].pc = "refresh" => req[r].new.state = "ACTIVE"
    /\ req[r].pc = "halt" => req[r].new.state = "STOPPING"

\* What it is about to record is what Core did or was told.
Follows(r) ==
  req[r] # Idle /\ req[r].new.profile = "core" =>
    /\ req[r].new.state = "ACTIVE" => req[r].s \in up
    /\ req[r].new.state = "EXPIRED" /\ req[r].pc # "expire" => StopSent(req[r].s)

IInv ==
  /\ TypeOK /\ CoreFollowsRecord
  /\ lease.state # "ABSENT" => lease.session \in Sessions
  /\ health.status = "READY" => health.session \in up
  /\ \A r \in Requests : Creates(r) /\ Serves(r) /\ Follows(r)

=============================================================================
